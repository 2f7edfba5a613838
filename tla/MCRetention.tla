---------------------------- MODULE MCRetention ----------------------------
(* Days of two ticks, so that a message can be half a day old. *)
EXTENDS Retention

MCCount == {0, 1, 2}
MCAge == {0, 1, 2}
=============================================================================
