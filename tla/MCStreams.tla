----------------------------- MODULE MCStreams -----------------------------
(* A window of four and nine stream numbers, the last of them the topmost. *)
EXTENDS Streams
=============================================================================
