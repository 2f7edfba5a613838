-------------------------- MODULE RetentionProofs --------------------------
(***************************************************************************)
(* A device keeps what a policy names, whatever order it names its         *)
(* messages in.  Two relations between the stamps and what really happened *)
(* carry it: a clock that is not set forward makes no message older than   *)
(* it is, and a clock that is not set back puts none before one that came  *)
(* earlier.                                                                *)
(***************************************************************************)
EXTENDS Retention, FiniteSetTheorems, TLAPS

\* Not set forward, the clock only ever loses time.
NoOlderThanItIs ==
  "forward" \notin set => \A m \in held : clock - m.received <= time - m.since

\* Not set back, it only ever gains time, and a later stamp is a higher one.
StampsFollowTime ==
  "back" \notin set =>
    /\ \A m \in held : m.since <= time /\ time - m.since <= clock - m.received
    /\ \A m, n \in held : m.since > n.since => m.received > n.received

IInv == TypeOK /\ NoOlderThanItIs /\ StampsFollowTime

LEMMA InitIInv == Init => IInv
<1> SUFFICES ASSUME Init PROVE IInv
  OBVIOUS
<1>1. TypeOK
  <2>1. clock \in Nat
    BY RetentionAssumption DEF Init
  <2> QED
    BY <2>1, FS_EmptySet DEF Init, TypeOK
<1> QED
  BY <1>1 DEF Init, IInv, NoOlderThanItIs, StampsFollowTime

\* What arrives is stamped with the clock and is the last so far.
LEMMA ReceiveKeepsIInv == IInv /\ Receive => IInv'
<1> SUFFICES ASSUME IInv, Receive PROVE IInv'
  OBVIOUS
<1> DEFINE new == [arrival |-> arrived + 1, received |-> clock, since |-> time]
<1>1. held' = held \cup {new}
  BY DEF Receive
<1>2. new \in Message
  BY DEF IInv, TypeOK, Message
<1>3. held \subseteq Message /\ {arrived, clock, time} \subseteq Nat
  BY DEF IInv, TypeOK
<1>4. TypeOK'
  <2>1. held' \subseteq Message /\ IsFiniteSet(held')
    BY <1>1, <1>2, FS_AddElement DEF IInv, TypeOK
  <2>2. arrived' \in Nat /\ UNCHANGED <<policy, clock, time, set>>
    BY <1>3 DEF Receive
  <2> QED
    BY <2>1, <2>2 DEF IInv, TypeOK, Policy
<1>5. new.arrival = arrived + 1 /\ new.received = clock /\ new.since = time
  OBVIOUS
<1> HIDE DEF new
<1>6. NoOlderThanItIs'
  BY <1>1, <1>3, <1>5 DEF IInv, NoOlderThanItIs, Receive, Message
<1>7. StampsFollowTime'
  <2> SUFFICES ASSUME "back" \notin set
               PROVE  StampsFollowTime'
    BY DEF StampsFollowTime, Receive
  <2>1. \A m \in held : m.since <= time /\ time - m.since <= clock - m.received
    BY DEF IInv, StampsFollowTime
  <2>2. \A m \in held : m.since < new.since => m.received < new.received
    BY <1>3, <1>5, <2>1 DEF Message
  <2>3. \A m \in held : ~(m.since > new.since)
    BY <1>3, <1>5, <2>1 DEF Message
  <2>4. \A m, n \in held : m.since > n.since => m.received > n.received
    BY DEF IInv, StampsFollowTime
  <2>5. \A m, n \in held' : m.since > n.since => m.received > n.received
    BY <1>1, <1>3, <1>5, <2>2, <2>3, <2>4 DEF Message
  <2>6. \A m \in held' : m.since <= time /\ time - m.since <= clock - m.received
    BY <1>1, <1>3, <1>5, <2>1
  <2> QED
    BY <2>5, <2>6 DEF StampsFollowTime, Receive
<1> QED
  BY <1>4, <1>6, <1>7 DEF IInv

LEMMA DropKeepsIInv == IInv /\ Drop => IInv'
<1> SUFFICES ASSUME IInv, Drop PROVE IInv'
  OBVIOUS
<1>1. held' \subseteq held
  BY DEF Drop
<1>2. TypeOK'
  BY <1>1, FS_Subset DEF IInv, TypeOK, Drop
<1> QED
  BY <1>1, <1>2 DEF IInv, Drop, NoOlderThanItIs, StampsFollowTime

LEMMA TickKeepsIInv == IInv /\ Tick => IInv'
<1> SUFFICES ASSUME IInv, Tick PROVE IInv'
  OBVIOUS
<1>1. held \subseteq Message /\ {arrived, clock, time} \subseteq Nat
  BY DEF IInv, TypeOK
<1>2. TypeOK'
  BY DEF IInv, TypeOK, Tick
<1>3. NoOlderThanItIs' /\ StampsFollowTime'
  BY <1>1 DEF IInv, Tick, NoOlderThanItIs, StampsFollowTime, Message
<1> QED
  BY <1>2, <1>3 DEF IInv

LEMMA SetClockKeepsIInv == IInv /\ SetClock => IInv'
<1> SUFFICES ASSUME IInv, SetClock PROVE IInv'
  OBVIOUS
<1>1. held \subseteq Message /\ {arrived, clock, time} \subseteq Nat
  BY DEF IInv, TypeOK
<1>2. TypeOK'
  <2>1. MaxClock \in Nat
    BY RetentionAssumption DEF RetentionAssumption
  <2>2. clock' \in Nat
    BY <2>1 DEF SetClock
  <2>3. set' \subseteq {"back", "forward"}
    BY DEF IInv, TypeOK, SetClock
  <2> QED
    BY <2>2, <2>3 DEF IInv, TypeOK, SetClock, Message, Policy
<1>3. clock \in Nat /\ clock' \in Nat /\ clock' # clock /\ UNCHANGED <<held, time>>
  BY <1>1, <1>2 DEF TypeOK, SetClock
<1>4. "forward" \notin set' => "forward" \notin set /\ clock' < clock
  BY DEF SetClock
<1>5. "back" \notin set' => "back" \notin set /\ clock < clock'
  BY <1>3 DEF SetClock
<1>6. NoOlderThanItIs'
  BY <1>1, <1>3, <1>4 DEF IInv, NoOlderThanItIs, Message
<1>7. StampsFollowTime'
  BY <1>1, <1>3, <1>5 DEF IInv, StampsFollowTime, Message
<1> QED
  BY <1>2, <1>6, <1>7 DEF IInv

LEMMA StepKeepsIInv == IInv /\ [Next]_vars => IInv'
<1> SUFFICES ASSUME IInv, [Next]_vars PROVE IInv'
  OBVIOUS
<1>1. CASE Next
  BY <1>1, ReceiveKeepsIInv, DropKeepsIInv, TickKeepsIInv, SetClockKeepsIInv DEF Next
<1>2. CASE UNCHANGED vars
  BY <1>2 DEF vars, IInv, TypeOK, NoOlderThanItIs, StampsFollowTime
<1> QED
  BY <1>1, <1>2

(* The state has its types, and the stamps and the clock relate to what    *)
(* really happened as IInv says (every operation of the client).           *)
THEOREM StampsAreHonest == Spec => []IInv
<1> QED
  BY InitIInv, StepKeepsIInv, PTL DEF Spec

-----------------------------------------------------------------------------
\* With an age and a clock not set forward only what is older than the window
\* is dropped.
LEMMA AgeDropsTheOld ==
  ASSUME IInv, "forward" \notin set, policy.kind = "Age", NEW order, NEW m \in Droppable(order)
  PROVE  m \notin Recent
<1> DEFINE window == policy.number * Day
<1>1. window \in Nat
  <2>1. policy.number \in Nat
    BY RetentionAssumption DEF IInv, TypeOK, Policy
  <2>2. Day \in Nat
    BY RetentionAssumption DEF RetentionAssumption
  <2> QED
    BY <2>1, <2>2
<1>2. m \in held /\ m.received < Cutoff
  BY DEF Droppable
<1>3. m \in Message /\ clock \in Nat /\ time \in Nat
  BY <1>2 DEF IInv, TypeOK
<1>4. m.received \in Nat /\ m.since \in Nat
  BY <1>3 DEF Message
<1>5. Cutoff = IF clock > window THEN clock - window ELSE 0
  BY DEF Cutoff
<1> HIDE DEF window
<1>6. clock - m.received > window
  BY <1>1, <1>2, <1>3, <1>4, <1>5
<1>7. time - m.since > window
  BY <1>1, <1>2, <1>3, <1>4, <1>6 DEF IInv, NoOlderThanItIs
<1> QED
  BY <1>1, <1>3, <1>4, <1>7 DEF Recent, window

\* With a count and a clock not set back only what others that came no earlier
\* outnumber is dropped, in whatever order the messages are named.
LEMMA CountDropsTheEarliest ==
  ASSUME IInv, "back" \notin set, policy.kind = "Count",
         NEW order \in Orders, NEW m \in Droppable(order)
  PROVE  m \notin Latest
<1> DEFINE newer == {n \in held : Newer(order, n, m)}
           later == {n \in held \ {m} : n.since >= m.since}
<1>1. m \in held /\ Cardinality(newer) >= policy.number
  BY DEF Droppable
<1>2. held \subseteq Message /\ IsFiniteSet(held)
  BY DEF IInv, TypeOK
<1>3. ASSUME NEW n \in held, Newer(order, n, m) PROVE n # m /\ n.since >= m.since
  <2>1. Cardinality(held) \in Nat /\ order \in [held -> 1..Cardinality(held)]
    BY <1>2, FS_CardinalityType DEF Orders, Bijection, Injection, Surjection
  <2>2. order[m] \in Int
    BY <1>1, <2>1
  <2>3. {n.received, m.received, n.since, m.since} \subseteq Nat
    BY <1>1, <1>2 DEF Message
  <2>4. n # m
    BY <1>3, <2>2, <2>3 DEF Newer
  <2>5. m.since > n.since => m.received > n.received
    BY <1>1 DEF IInv, StampsFollowTime
  <2>6. n.received >= m.received
    BY <1>3, <2>3 DEF Newer
  <2> QED
    BY <2>3, <2>4, <2>5, <2>6
<1>4. newer \subseteq later /\ later \subseteq held
  BY <1>3
<1>5. IsFiniteSet(later) /\ IsFiniteSet(newer)
  BY <1>2, <1>4, FS_Subset
<1>6. Cardinality(newer) <= Cardinality(later)
  BY <1>4, <1>5, FS_Subset
<1>7. Cardinality(newer) \in Nat /\ Cardinality(later) \in Nat /\ policy.number \in Nat
  BY <1>5, FS_CardinalityType, RetentionAssumption DEF IInv, TypeOK, Policy
<1>8. ~(Cardinality(later) < policy.number)
  <2> HIDE DEF newer, later
  <2> QED
    BY <1>1, <1>6, <1>7
<1> QED
  BY <1>8 DEF Latest

(* Whatever the numbers of the policies and whatever order the messages    *)
(* are named in, a device with an age keeps at least what the age names,   *)
(* however often the clock is set back, and one with a count what the      *)
(* count names, however often it is set forward (Retention::droppable).    *)
THEOREM PolicyKept == Spec => KeepsWhatThePolicyNames
<1> DEFINE Keeps ==
      /\ policy.kind = "All" => held \subseteq held'
      /\ policy.kind = "Age" /\ "forward" \notin set => Recent \subseteq held'
      /\ policy.kind = "Count" /\ "back" \notin set => Latest \subseteq held'
<1>1. IInv /\ [Next]_vars => [Keeps]_vars
  <2> SUFFICES ASSUME IInv, [Next]_vars PROVE [Keeps]_vars
    OBVIOUS
  <2>0. Recent \subseteq held /\ Latest \subseteq held
    BY DEF Recent, Latest
  <2>1. CASE Receive \/ Tick \/ SetClock
    <3>1. held \subseteq held'
      BY <2>1 DEF Receive, Tick, SetClock
    <3> QED
      BY <2>0, <3>1
  <2>2. CASE Drop
    <3>1. PICK order \in Orders : held' = held \ Droppable(order)
      BY <2>2 DEF Drop
    <3>2. policy.kind = "All" => held \subseteq held'
      BY <3>1 DEF Droppable
    <3>3. policy.kind = "Age" /\ "forward" \notin set => Recent \subseteq held'
      BY <2>0, <3>1, AgeDropsTheOld
    <3>4. policy.kind = "Count" /\ "back" \notin set => Latest \subseteq held'
      BY <2>0, <3>1, CountDropsTheEarliest
    <3> QED
      BY <3>2, <3>3, <3>4
  <2> QED
    BY <2>1, <2>2 DEF Next
<1> QED
  BY <1>1, StampsAreHonest, PTL DEF Spec, KeepsWhatThePolicyNames
=============================================================================
