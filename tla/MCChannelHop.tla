--------------------------- MODULE MCChannelHop ---------------------------
(* Quarantine and picker on a short band and a narrow clock. *)
EXTENDS ChannelHop
=============================================================================
