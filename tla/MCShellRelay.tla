---------------------------- MODULE MCShellRelay ----------------------------
(* One letter is enough to tell lines apart, by their length.                *)
EXTENDS ShellRelay

CONSTANT a

MCPackets == {<<a>>, <<BS>>, <<a, NL>>, <<NL, a>>}
=============================================================================
