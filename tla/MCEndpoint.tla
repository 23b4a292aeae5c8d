---------------------------- MODULE MCEndpoint ----------------------------
(* The control thread, its command queue and ZMK's profile events. *)
EXTENDS Endpoint

Failing == BOOLEAN
=============================================================================
