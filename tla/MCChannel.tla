------------------------------ MODULE MCChannel ------------------------------
(* Periods of two milliseconds, four of them; frames of up to two bytes and  *)
(* streams of up to two frames.                                              *)
EXTENDS Channel

ShortFrame == [data |-> <<1>>, padding |-> 1]
FullFrame == [data |-> <<2, 2>>, padding |-> 0]
PaddingOnly == [data |-> << >>, padding |-> 2]
TooLong == [data |-> <<3, 3>>, padding |-> 1]

\* All a stream can hold, and two that are cut short by a frame that is refused.
MCContents ==
  {<<FullFrame, ShortFrame>>,
   <<PaddingOnly, FullFrame, ShortFrame>>, <<ShortFrame, TooLong>>}
=============================================================================
