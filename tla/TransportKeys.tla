--------------------------- MODULE TransportKeys ---------------------------
(***************************************************************************)
(* Time periods and the keys that go with them                             *)
(* (crates/transport/src/lib.rs).                                          *)
(*                                                                         *)
(* The key derivation is one-way and free of collisions: a key is its      *)
(* label and the counters of the derivations it went through.  The root    *)
(* key and the transport are the same for all of them and left out.        *)
(***************************************************************************)
EXTENDS Integers, Sequences

CONSTANTS MsPerSecond,   \* 1000
          PeriodSeconds, \* Transport::period_seconds
          MaxRotations   \* MAX_ROTATIONS

ASSUME PeriodAssumption ==
  /\ MsPerSecond \in Nat \ {0}
  /\ PeriodSeconds \in Nat \ {0}

ASSUME RotationsAssumption == MaxRotations \in Nat /\ MaxRotations >= 2

-----------------------------------------------------------------------------
Role == {"A", "B"}

\* A plausible slip: the milliseconds taken for seconds.
PeriodOfMs(timestamp) == timestamp \div PeriodSeconds

\* Transport::period_at
PeriodAt(timestamp) == (timestamp \div MsPerSecond) \div PeriodSeconds

PeriodMs == MsPerSecond * PeriodSeconds

-----------------------------------------------------------------------------
TagLabel == [A |-> "A_TAG_KEY", B |-> "B_TAG_KEY"]
HeaderLabel == [A |-> "A_HEADER_KEY", B |-> "B_HEADER_KEY"]

Key == [label : {"A_TAG_KEY", "B_TAG_KEY", "A_HEADER_KEY", "B_HEADER_KEY"},
        turned : Seq(Nat)]

DirectionKeys == [tag_key : Key, header_key : Key]

PeriodKeys == [period : Nat, outgoing : DirectionKeys, incoming : DirectionKeys]

\* kdf(root_key, label): a key that was never rotated.
FirstKeys(role) ==
  [tag_key    |-> [label |-> TagLabel[role], turned |-> << >>],
   header_key |-> [label |-> HeaderLabel[role], turned |-> << >>]]

Peer(role) == IF role = "A" THEN "B" ELSE "A"

\* PeriodKeys::initial refuses a timestamp of period zero, with TimestampTooEarly.
TooEarly(timestamp) == PeriodAt(timestamp) = 0

\* A plausible slip: the roles not mirrored.
UnmirroredKeys(role, timestamp) ==
  [period   |-> PeriodAt(timestamp) - 1,
   outgoing |-> FirstKeys(role),
   incoming |-> FirstKeys(role)]

\* A plausible slip: one period too early.
KeysTooEarly(role, timestamp) ==
  [period   |-> PeriodAt(timestamp) - 2,
   outgoing |-> FirstKeys(role),
   incoming |-> FirstKeys(Peer(role))]

InitialKeys(role, timestamp) ==
  [period   |-> PeriodAt(timestamp) - 1,
   outgoing |-> FirstKeys(role),
   incoming |-> FirstKeys(Peer(role))]

-----------------------------------------------------------------------------
\* A plausible slip: rotating to a period that is over is not refused, and the
\* loop has nothing to do.
RefusedTooFar(keys, period) ==
  {e \in {"TooFarAhead"} : period - keys.period > MaxRotations}

\* What rotate_to refuses a period for, if it does.
RotationRefusal(keys, period) ==
  {e \in {"PeriodInThePast", "TooFarAhead"} :
     \/ e = "PeriodInThePast" /\ period < keys.period
     \/ e = "TooFarAhead" /\ period - keys.period > MaxRotations}

\* A plausible slip: the derivations counted from one in every call.
TurnsOfThisCall(from, to) == [i \in 1..(to - from) |-> i]

\* The loop of rotate_to: one derivation for every period after from, up to to.
Turns(from, to) == [i \in 1..(to - from) |-> from + i]

Turned(key, from, to) == [key EXCEPT !.turned = @ \o Turns(from, to)]

\* A plausible slip: the header key left as it is.
TagTurned(direction, from, to) ==
  [direction EXCEPT !.tag_key = Turned(@, from, to)]

BothTurned(direction, from, to) ==
  [tag_key    |-> Turned(direction.tag_key, from, to),
   header_key |-> Turned(direction.header_key, from, to)]

\* rotate_to a period it does not refuse.
Rotated(keys, period) ==
  [period   |-> period,
   outgoing |-> BothTurned(keys.outgoing, keys.period, period),
   incoming |-> BothTurned(keys.incoming, keys.period, period)]

\* tag(): a keyed function of the number.
Tag(tag_key, number) == [key |-> tag_key, number |-> number]

\* Whether a key of this chain can be turned into one of that chain.
Reaches(key, later) ==
  /\ key.label = later.label
  /\ Len(key.turned) <= Len(later.turned)
  /\ key.turned = SubSeq(later.turned, 1, Len(key.turned))
=============================================================================
