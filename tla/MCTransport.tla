----------------------------- MODULE MCTransport -----------------------------
(* Instance of Transport for TLC; the configurations give the bounds.       *)
EXTENDS Transport
=============================================================================
