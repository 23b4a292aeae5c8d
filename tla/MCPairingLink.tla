--------------------------- MODULE MCPairingLink ---------------------------
(* One keyboard, the repository's dongle d1, and a record of a dongle d2.    *)
EXTENDS PairingLink

MCRxPids == 0..(PidCount - 1)

\* Everything but the shell while the dongle keeps power, with and without
\* losses; a dongle that does not; unpairing by the shell; a lossy radio and a
\* user who leaves the slot.
LinkScenarios ==
    LET Usual == Faults \ {"shell", "dongle_reset"}
    IN  {Usual, Usual \ {"loss"}, {"dongle_reset", "loss", "unpair", "hid"},
         {"shell", "power_cut", "switch", "hid"}, {"loss", "switch"}}

Undisturbed == {{}}
=============================================================================
