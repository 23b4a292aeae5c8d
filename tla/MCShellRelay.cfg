SPECIFICATION FairShellSpec
CONSTANTS
    a = a
    NUL = NUL
    NL = NL
    BS = BS
    Letters = {a}
    Packets <- MCPackets
    CmdSize = 4
    OutSize = 3
    StdoutSize = 2
    FifoDepth = 2
INVARIANTS
    ShellTypeOK
    ExecutesLines
    BackgroundPoll
PROPERTIES
    SessionEnds
    DrainResumes
