--------------------------- MODULE DeliveryProofs ---------------------------
(***************************************************************************)
(* What the mark of a delivered message says, for every message graph, and *)
(* that delivery never comes to a standstill, for every one without a      *)
(* cycle.                                                                  *)
(***************************************************************************)
EXTENDS Delivery, WellFoundedInduction, TLAPS

\* The types hold at the start.
THEOREM InitTypeOK == Init => TypeOK
BY DEF Init, TypeOK

\* The types outlast a step.
THEOREM NextTypeOK == TypeOK /\ [Next]_vars => TypeOK'
<1> SUFFICES ASSUME TypeOK, [Next]_vars PROVE TypeOK'
  OBVIOUS
<1> USE DEF TypeOK
<1>1. ASSUME NEW m \in Message, Receive(m) PROVE TypeOK'
  BY <1>1 DEF Receive
<1>2. ASSUME NEW m \in Message, Deliver(m) PROVE TypeOK'
  BY <1>2 DEF Deliver
<1>3. CASE UNCHANGED vars
  BY <1>3 DEF vars
<1> QED
  BY <1>1, <1>2, <1>3 DEF Next

(* In every run of the delivery rule only received messages are delivered  *)
(* and only delivered ones are marked.                                     *)
THEOREM DeliveryTypeCorrect == Spec => []TypeOK
<1> QED
  BY InitTypeOK, NextTypeOK, PTL DEF Spec

-----------------------------------------------------------------------------
(* One step of "incompleteness travels forward": an unmarked message       *)
(* points to delivered, unmarked messages only.  It is inductive by itself *)
(* and makes the unmarked messages a set closed under dependencies,     *)
(* which is why all their ancestors are in it.                             *)
UnmarkedIsClosed ==
  \A m \in delivered \ incomplete : dependencies[m] \subseteq delivered \ incomplete

\* A step keeps them closed.
THEOREM NextUnmarkedIsClosed ==
  TypeOK /\ UnmarkedIsClosed /\ [Next]_vars => UnmarkedIsClosed'
<1> SUFFICES ASSUME TypeOK, UnmarkedIsClosed, [Next]_vars PROVE UnmarkedIsClosed'
  OBVIOUS
<1> USE DEF UnmarkedIsClosed
<1>1. ASSUME NEW m \in Message, Receive(m) PROVE UnmarkedIsClosed'
  BY <1>1 DEF Receive
<1>2. ASSUME NEW m \in Message, Deliver(m) PROVE UnmarkedIsClosed'
  <2> SUFFICES ASSUME NEW x \in (delivered \ incomplete)'
               PROVE (dependencies[x] \subseteq delivered \ incomplete)'
    OBVIOUS
  <2>1. m \notin delivered /\ m \notin incomplete
    BY <1>2 DEF Deliver, TypeOK
  <2>2. delivered \ incomplete \subseteq (delivered \ incomplete)'
    BY <1>2, <2>1 DEF Deliver
  <2>3. CASE x = m
    <3>1. ~AncestryIncomplete(m)
      BY <1>2, <2>3 DEF Deliver
    <3>2. dependencies[m] \subseteq delivered \ incomplete
      BY <3>1, GraphAssumption DEF AncestryIncomplete, TypeOK
    <3> QED
      BY <1>2, <2>2, <2>3, <3>2 DEF Deliver
  <2>4. CASE x # m
    <3>1. x \in delivered \ incomplete
      BY <1>2, <2>4 DEF Deliver
    <3> QED
      BY <1>2, <2>2, <3>1 DEF Deliver
  <2> QED
    BY <2>3, <2>4
<1>3. CASE UNCHANGED vars
  BY <1>3 DEF vars
<1> QED
  BY <1>1, <1>2, <1>3 DEF Next

\* The unmarked messages are a closed set, and ancestors stay inside those.
LEMMA ClosedHoldsAncestors ==
  ASSUME TypeOK, UnmarkedIsClosed
  PROVE  UnmarkedIsWellFounded
<1> DEFINE Good == delivered \ incomplete
<1>1. Good \in SUBSET Message
  BY DEF TypeOK
<1>2. ClosedUnderDependencies(Good)
  BY DEF UnmarkedIsClosed, ClosedUnderDependencies
<1>3. ASSUME NEW m \in Good, NEW x \in Ancestors(m) PROVE x \in Good
  <2>1. dependencies[m] \subseteq Good
    BY DEF UnmarkedIsClosed
  <2> QED
    BY <1>1, <1>2, <1>3, <2>1 DEF Ancestors
<1> QED
  BY <1>3 DEF UnmarkedIsWellFounded

(* An unmarked message has nothing behind it that the horizon stood in     *)
(* for: all its ancestors were delivered, unmarked, for every graph and    *)
(* every order of arrival.                                                 *)
THEOREM UnmarkedAlwaysWellFounded == Spec => []UnmarkedIsWellFounded
<1>1. Init => UnmarkedIsClosed
  BY DEF Init, UnmarkedIsClosed
<1>2. TypeOK /\ UnmarkedIsClosed => UnmarkedIsWellFounded
  BY ClosedHoldsAncestors
<1> QED
  BY <1>1, <1>2, InitTypeOK, NextTypeOK, NextUnmarkedIsClosed, PTL DEF Spec

-----------------------------------------------------------------------------
\* What a message points to is among its ancestors, and so are its ancestors.
LEMMA AncestorsOfDependency ==
  ASSUME TypeOK, NEW m \in Message, NEW d \in dependencies[m]
  PROVE  d \in Ancestors(m) /\ Ancestors(d) \subseteq Ancestors(m)
<1>1. d \in Message
  BY GraphAssumption DEF TypeOK
<1>2. d \in Ancestors(m)
  BY <1>1 DEF Ancestors
<1>3. ASSUME NEW x \in Ancestors(d) PROVE x \in Ancestors(m)
  <2>1. x \in Message
    BY DEF Ancestors
  <2>2. ASSUME NEW S \in SUBSET Message, dependencies[m] \subseteq S,
               ClosedUnderDependencies(S)
        PROVE  x \in S
    <3>1. dependencies[d] \subseteq S
      BY <2>2 DEF ClosedUnderDependencies
    <3> QED
      BY <2>2, <3>1, <1>3 DEF Ancestors
  <2> QED
    BY <2>1, <2>2 DEF Ancestors
<1> QED
  BY <1>2, <1>3

\* A step gives no mark without a reason.
THEOREM NextMarkedRestsOnHorizon ==
  TypeOK /\ MarkedRestsOnHorizon /\ [Next]_vars => MarkedRestsOnHorizon'
<1> SUFFICES ASSUME TypeOK, MarkedRestsOnHorizon, [Next]_vars
             PROVE  MarkedRestsOnHorizon'
  OBVIOUS
<1>1. UNCHANGED <<dependencies, horizon>>
  BY DEF Next, Receive, Deliver, vars
<1>2. ASSUME NEW m PROVE Ancestors(m)' = Ancestors(m)
  BY <1>1 DEF Ancestors, ClosedUnderDependencies
<1>3. ASSUME NEW m \in incomplete' PROVE Ancestors(m) \cap horizon # {}
  <2>1. CASE m \in incomplete
    BY <2>1 DEF MarkedRestsOnHorizon
  <2>2. CASE m \notin incomplete
    <3>1. m \in Message /\ Deliver(m)
      BY <2>2, <1>3 DEF Next, Receive, Deliver, vars
    <3>2. PICK d \in dependencies[m] : d \notin delivered \/ d \in incomplete
      BY <2>2, <1>3, <3>1 DEF Deliver, AncestryIncomplete
    <3>3. d \in Ancestors(m) /\ Ancestors(d) \subseteq Ancestors(m)
      BY <3>1, AncestorsOfDependency
    <3>4. CASE d \notin delivered
      BY <3>1, <3>2, <3>3, <3>4 DEF Deliver, Waiting
    <3>5. CASE d \in incomplete
      BY <3>3, <3>5 DEF MarkedRestsOnHorizon
    <3> QED
      BY <3>2, <3>4, <3>5
  <2> QED
    BY <2>1, <2>2
<1> QED
  BY <1>1, <1>2, <1>3 DEF MarkedRestsOnHorizon

(* A mark always has its reason: somewhere behind a marked message lies one *)
(* the horizon stood in for.                                               *)
THEOREM MarksAlwaysRestOnHorizon == Spec => []MarkedRestsOnHorizon
<1>1. Init => MarkedRestsOnHorizon
  BY DEF Init, MarkedRestsOnHorizon
<1> QED
  BY <1>1, InitTypeOK, NextTypeOK, NextMarkedRestsOnHorizon, PTL DEF Spec

-----------------------------------------------------------------------------
(* The identifier of a message is a hash over those of its dependencies, so *)
(* no message is, however far back, its own ancestor.                      *)
PointsTo(g) == {p \in Message \X Message : p[1] \in g[p[2]]}

Acyclic == \A g \in Graphs : IsWellFoundedOn(PointsTo(g), Message)

\* Among the messages m rests on, itself included, one is ready.
ReadyFor(m) ==
  \E x \in received \ delivered : x \in {m} \cup Ancestors(m) /\ ~Waiting(x)

NoStandstill ==
  \A m \in Message \ delivered : ArrivedDownToHorizon(m) => ReadyFor(m)

\* What no undelivered message of a set points to is not all of the set.
LEMMA FirstOfUndelivered ==
  ASSUME Acyclic, TypeOK, NEW S \in SUBSET Message, S # {}
  PROVE  \E x \in S : dependencies[x] \cap S = {}
<1> DEFINE R == PointsTo(dependencies)
<1>1. IsWellFoundedOn(R, Message)
  BY DEF Acyclic, TypeOK
<1>2. PICK x \in S : \A y \in S : ~ (<<y, x>> \in R)
  <2> HIDE DEF R
  <2> QED
    BY <1>1, WFMin
<1>3. \A y \in S : y \notin dependencies[x]
  BY <1>2 DEF PointsTo
<1> QED
  BY <1>3

LEMMA AncestorsRestOnAncestors ==
  ASSUME TypeOK, NEW m \in Message, NEW x \in {m} \cup Ancestors(m)
  PROVE  dependencies[x] \subseteq Ancestors(m)
<1>1. CASE x = m
  BY <1>1, AncestorsOfDependency
<1>2. CASE x \in Ancestors(m)
  <2>1. x \in Message
    BY <1>2 DEF Ancestors
  <2> SUFFICES ASSUME NEW y \in dependencies[x],
                      NEW S \in SUBSET Message, dependencies[m] \subseteq S,
                      ClosedUnderDependencies(S)
               PROVE  y \in S
    BY <2>1, GraphAssumption DEF Ancestors, TypeOK
  <2>2. x \in S
    BY <1>2 DEF Ancestors
  <2> QED
    BY <2>2 DEF ClosedUnderDependencies
<1> QED
  BY <1>1, <1>2

(* As long as something that arrived with all it rests on is undelivered,  *)
(* one of the messages it rests on, or itself, is ready: deliverability()  *)
(* never has two messages wait for each other, and never one for what will *)
(* not come.  With the fairness of the caller that is EventuallyDelivered. *)
THEOREM NeverAtAStandstill ==
  ASSUME Acyclic
  PROVE  Spec => []NoStandstill
<1>1. TypeOK => NoStandstill
  <2> SUFFICES ASSUME TypeOK, NEW m \in Message \ delivered, ArrivedDownToHorizon(m)
               PROVE  ReadyFor(m)
    BY DEF NoStandstill
  <2>1. PICK S \in SUBSET received :
          m \in S /\ \A x \in S : dependencies[x] \subseteq S \cup horizon
    BY DEF ArrivedDownToHorizon
  <2> DEFINE line == {m} \cup Ancestors(m)
             left == (S \cap line) \ delivered
  <2>2. left \in SUBSET Message /\ m \in left
    BY <2>1 DEF TypeOK
  <2>3. PICK x \in left : dependencies[x] \cap left = {}
    <3> HIDE DEF left
    <3> QED
      BY <2>2, FirstOfUndelivered
  <2>4. dependencies[x] \subseteq Ancestors(m)
    BY <2>3, AncestorsRestOnAncestors
  <2>5. dependencies[x] \subseteq S \cup horizon
    BY <2>1, <2>3
  <2>6. ~Waiting(x)
    BY <2>3, <2>4, <2>5 DEF Waiting
  <2> QED
    BY <2>1, <2>3, <2>6 DEF ReadyFor
<1> QED
  BY <1>1, DeliveryTypeCorrect, PTL
=============================================================================
