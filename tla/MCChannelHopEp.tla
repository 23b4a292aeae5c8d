--------------------------- MODULE MCChannelHopEp ---------------------------
(* Three channels: the one it is on, the one it came from, and another; the  *)
(* first is the rendezvous channel.                                          *)
EXTENDS ChannelHopEp
=============================================================================
