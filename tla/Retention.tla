----------------------------- MODULE Retention -----------------------------
(***************************************************************************)
(* A device drops what the policy of a group allows (Retention::droppable  *)
(* in crates/sync/src/retention.rs).  Messages arrive and are stamped with *)
(* the device's clock, which somebody may set back or forward; the client  *)
(* asks now and then what it may drop, naming what it holds in whatever    *)
(* order its store gives, and drops it.  The time that really passes, and  *)
(* which way the clock was set, is in the model only to say what "the last *)
(* days" and "most recently" mean.                                         *)
(***************************************************************************)
EXTENDS Integers, FiniteSets, Functions

CONSTANTS Count, Age,   \* the numbers policies of either kind have
          Day,          \* DAY_MS
          MaxMessages,  \* bound on how many arrive
          MaxTime,      \* bound on the time that passes
          MaxClock      \* bound on what the clock is set to, and shows at the start

ASSUME RetentionAssumption ==
  /\ Count \subseteq Nat /\ Age \subseteq Nat
  /\ {Day, MaxMessages, MaxTime, MaxClock} \subseteq Nat

VARIABLES policy,
          held,     \* the messages on the device
          arrived,  \* how many have arrived
          clock,    \* what the device's clock shows
          time,     \* what has really passed
          set       \* which way somebody has set the clock so far

vars == <<policy, held, arrived, clock, time, set>>

Policy ==
  [kind : {"All"}, number : {0}] \cup [kind : {"Count"}, number : Count]
    \cup [kind : {"Age"}, number : Age]

\* The pair in held, with the two things the device does not know.
Message == [arrival : Nat, received : Nat, since : Nat]

TypeOK ==
  /\ policy \in Policy
  /\ held \subseteq Message /\ IsFiniteSet(held)
  /\ {arrived, clock, time} \subseteq Nat
  /\ set \subseteq {"back", "forward"}

-----------------------------------------------------------------------------
\* The orders in which the client may name the messages it holds.
Orders == Bijection(held, 1..Cardinality(held))

\* The latest stamp first; a tie keeps the order the caller gave.
Newer(order, m, n) ==
  m.received > n.received \/ (m.received = n.received /\ order[m] < order[n])

\* The stamp from which on an age keeps, with a subtraction that stops at 0.
Cutoff ==
  LET window == policy.number * Day
  IN  IF clock > window THEN clock - window ELSE 0

\* A plausible slip: the boundary on the side that drops.
DroppableAtTheBoundary(order) ==
  CASE policy.kind = "All" -> {}
    [] policy.kind = "Count" ->
         {m \in held : Cardinality({n \in held : Newer(order, n, m)}) >= policy.number}
    [] policy.kind = "Age" -> {m \in held : m.received <= Cutoff}

\* droppable()
Droppable(order) ==
  CASE policy.kind = "All" -> {}
    [] policy.kind = "Count" ->
         {m \in held : Cardinality({n \in held : Newer(order, n, m)}) >= policy.number}
    [] policy.kind = "Age" -> {m \in held : m.received < Cutoff}

-----------------------------------------------------------------------------
Init ==
  /\ policy \in Policy
  /\ held = {} /\ arrived = 0
  /\ clock \in 0..MaxClock /\ time = 0
  /\ set = {}

\* The client stores a message with the time it received it.
Receive ==
  /\ arrived < MaxMessages
  /\ arrived' = arrived + 1
  /\ held' = held \cup {[arrival |-> arrived', received |-> clock, since |-> time]}
  /\ UNCHANGED <<policy, clock, time, set>>

\* The client asks, and drops what it may.
Drop ==
  /\ \E order \in Orders : held' = held \ Droppable(order)
  /\ UNCHANGED <<policy, arrived, clock, time, set>>

Tick ==
  /\ time < MaxTime
  /\ time' = time + 1 /\ clock' = clock + 1
  /\ UNCHANGED <<policy, held, arrived, set>>

SetClock ==
  /\ clock' \in (0..MaxClock) \ {clock}
  /\ set' = set \cup {IF clock' < clock THEN "back" ELSE "forward"}
  /\ UNCHANGED <<policy, held, arrived, time>>

Next == Receive \/ Drop \/ Tick \/ SetClock

Spec == Init /\ [][Next]_vars

-----------------------------------------------------------------------------
\* The messages of the last days.
Recent == {m \in held : time - m.since <= policy.number * Day}

\* The most recently received: with what arrived in the same instant counted
\* before it, a message is still within the count.
Latest ==
  {m \in held : Cardinality({n \in held \ {m} : n.since >= m.since}) < policy.number}

(* An age keeps at least the messages of the last days, the one from       *)
(* exactly so long ago included, even if the clock was set back and however *)
(* often: only a clock set forward ages them.  A count keeps at least the  *)
(* most recently received even if the clock was set forward: only a clock  *)
(* set back lets older ones pass for newer.  The order in which the client *)
(* names what it holds changes neither (Retention::droppable).             *)
KeepsWhatThePolicyNames ==
  [][/\ policy.kind = "All" => held \subseteq held'
     /\ policy.kind = "Age" /\ "forward" \notin set => Recent \subseteq held'
     /\ policy.kind = "Count" /\ "back" \notin set => Latest \subseteq held']_vars

(* A count keeps the most recently received messages without regard to the *)
(* clock (the doc of Retention::Count; droppable sorts by what the clock   *)
(* said).                                                                  *)
CountKeepsMostRecent ==
  [][policy.kind = "Count" => Latest \subseteq held']_vars
=============================================================================
