------------------------------ MODULE Delivery ------------------------------
(***************************************************************************)
(* The delivery rule of one group on one device (deliverability() in       *)
(* crates/sync/src/records.rs): messages arrive in any order and reach the *)
(* client when the rule finds them ready.  The caller is external: it      *)
(* keeps what arrived, what was delivered with which mark, and the         *)
(* horizon, which it set when the member joined.                           *)
(***************************************************************************)
CONSTANTS Message,
          Graphs    \* the message graphs looked at: what each message points to

ASSUME GraphAssumption == Graphs \subseteq [Message -> SUBSET Message]

VARIABLES dependencies, \* the message graph
          horizon,      \* treated as delivered without having been received
          received,     \* what this device has received
          delivered,    \* what its client was given
          incomplete    \* of these, the ones marked "ancestry incomplete"

vars == <<dependencies, horizon, received, delivered, incomplete>>

TypeOK ==
  /\ dependencies \in Graphs
  /\ horizon \subseteq Message
  /\ received \subseteq Message
  /\ delivered \subseteq received
  /\ incomplete \subseteq delivered

Init ==
  /\ dependencies \in Graphs
  /\ horizon \in SUBSET Message
  /\ received = {}
  /\ delivered = {}
  /\ incomplete = {}

-----------------------------------------------------------------------------
\* A plausible slip: the horizon left out.
WaitingForAll(m) == \E d \in dependencies[m] : d \notin delivered

\* Deliverability::Waiting
Waiting(m) ==
  \E d \in dependencies[m] : d \notin delivered /\ d \notin horizon

\* A plausible slip: the mark set by the horizon alone and not passed on.
AncestryIncompleteNearby(m) ==
  \E d \in dependencies[m] : d \notin delivered

\* A plausible slip: the stored mark read as "ancestry complete".
AncestryIncompleteInverted(m) ==
  \E d \in dependencies[m] : d \notin incomplete

\* ancestry_incomplete of Deliverability::Ready
AncestryIncomplete(m) ==
  \E d \in dependencies[m] : d \notin delivered \/ d \in incomplete

Receive(m) ==
  /\ m \notin received
  /\ received' = received \cup {m}
  /\ UNCHANGED <<dependencies, horizon, delivered, incomplete>>

Deliver(m) ==
  /\ m \in received \ delivered
  /\ ~Waiting(m)
  /\ delivered' = delivered \cup {m}
  /\ incomplete' = IF AncestryIncomplete(m) THEN incomplete \cup {m} ELSE incomplete
  /\ UNCHANGED <<dependencies, horizon, received>>

Next == \E m \in Message : Receive(m) \/ Deliver(m)

\* The caller asks again for what waits, and delivers what is ready.
Spec == Init /\ [][Next]_vars /\ \A m \in Message : WF_vars(Deliver(m))

-----------------------------------------------------------------------------
\* The smallest set with the dependencies of m and those of its members.
ClosedUnderDependencies(S) == \A y \in S : dependencies[y] \subseteq S

Ancestors(m) ==
  {x \in Message : \A S \in SUBSET Message :
     dependencies[m] \subseteq S /\ ClosedUnderDependencies(S) => x \in S}

(* A message the client got without the mark rests on nothing the horizon  *)
(* stood in for, however far back: every ancestor was delivered before it  *)
(* and none is marked itself ("Incompleteness travels forward",            *)
(* deliverability()).                                                      *)
UnmarkedIsWellFounded ==
  \A m \in delivered \ incomplete : Ancestors(m) \subseteq delivered \ incomplete

(* A mark is never given for nothing: somewhere behind a marked message    *)
(* lies one the horizon stood in for.  Delivered below a gap that is still *)
(* to be filled, a message would be marked for want of what it points to.  *)
MarkedRestsOnHorizon ==
  \A m \in incomplete : Ancestors(m) \cap horizon # {}

(* What arrived is delivered once everything it rests on, down to the      *)
(* horizon, has arrived: in whatever order that was, nothing waits for     *)
(* ever.                                                                   *)
ArrivedDownToHorizon(m) ==
  \E S \in SUBSET received :
    m \in S /\ \A x \in S : dependencies[x] \subseteq S \cup horizon

EventuallyDelivered ==
  \A m \in Message : ArrivedDownToHorizon(m) ~> m \in delivered
=============================================================================
