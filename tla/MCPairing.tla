----------------------------- MODULE MCPairing -----------------------------
(* Pairing against a dongle that may send anything, in any order. *)
EXTENDS Pairing
=============================================================================
