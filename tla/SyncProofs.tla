----------------------------- MODULE SyncProofs -----------------------------
(***************************************************************************)
(* What a device believes of the other, for every set of messages, every   *)
(* latency and every limit on the backoff.                                 *)
(***************************************************************************)
EXTENDS SyncSession, FiniteSetTheorems, TLAPS

\* Powers of two count sets, and so grow.
LEMMA DoublingGrows ==
  ASSUME NEW k \in Nat, NEW n \in Nat, k <= n
  PROVE  2^k \in Nat /\ 1 <= 2^k /\ 2^k <= 2^n
<1> DEFINE few == SUBSET (1..k)
           many == SUBSET (1..n)
<1>1. ASSUME NEW i \in Nat
      PROVE  IsFiniteSet(SUBSET (1..i)) /\ Cardinality(SUBSET (1..i)) = 2^i
  <2>1. IsFiniteSet(1..i) /\ Cardinality(1..i) = i
    BY FS_Interval
  <2> QED
    BY <2>1, FS_SUBSET
<1>2. /\ IsFiniteSet(few) /\ Cardinality(few) = 2^k
      /\ IsFiniteSet(many) /\ Cardinality(many) = 2^n
  BY <1>1
<1>3. few \subseteq many /\ few # {}
  <2>1. 1..k \subseteq 1..n
    OBVIOUS
  <2>2. {} \in few
    OBVIOUS
  <2> QED
    BY <2>1, <2>2, Zenon
<1> HIDE DEF few, many
<1>4. Cardinality(few) <= Cardinality(many)
  BY <1>2, <1>3, FS_Subset
<1>5. Cardinality(few) \in Nat /\ Cardinality(few) # 0
  BY <1>2, <1>3, FS_CardinalityType, FS_EmptySet
<1> QED
  BY <1>2, <1>4, <1>5

\* The longer of two factors gives the longer product.
LEMMA ProductGrows ==
  ASSUME NEW a \in Nat, NEW b \in Nat, NEW c \in Nat, b <= c
  PROVE  a * b \in Nat /\ a * b <= a * c
<1>1. a * c = a * b + a * (c - b)
  BY SMT
<1>2. a * (c - b) >= 0 /\ a * b \in Nat
  BY SMT
<1> QED
  BY <1>1, <1>2

\* The longest delay is a number of ticks.
LEMMA LongestDelayType == LongestDelay \in Nat
<1>1. 2^MaxDoublings \in Nat
  BY DoublingGrows, DoublingsAssumption
<1> QED
  BY <1>1, ProductGrows, LatencyAssumption DEF LongestDelay

\* A backoff is a wait the limit on the doublings allows.
LEMMA BackoffIsBounded ==
  ASSUME NEW count \in 1..MaxSendCount
  PROVE  Backoff(count) \in 0..LongestDelay
<1> DEFINE k == AtMost(count - 1, MaxDoublings)
           few == 2^k
           most == 2^MaxDoublings
<1>1. k \in Nat /\ k <= MaxDoublings /\ MaxDoublings \in Nat
  BY DoublingsAssumption DEF AtMost
<1> HIDE DEF k
<1>2. few \in Nat /\ 1 <= few /\ few <= most /\ most \in Nat
  BY <1>1, DoublingGrows
<1>3. Backoff(count) = AtLeastOne(Latency * few)
  BY DEF Backoff, k
<1>4. LongestDelay = IF Latency = 0 THEN 1 ELSE Latency * most
  BY DEF LongestDelay
<1> HIDE DEF few, most
<1>5. /\ Latency * few \in Nat /\ Latency * few <= Latency * most
      /\ Latency * most \in Nat
  BY <1>2, ProductGrows, LatencyAssumption
<1>6. CASE Latency = 0
  <2>1. Latency * few = 0
    BY <1>2, <1>6
  <2> QED
    BY <1>3, <1>4, <1>6, <2>1 DEF AtLeastOne
<1>7. CASE Latency # 0
  <2>1. Latency <= Latency * few
    <3>1. Latency * 1 <= Latency * few
      BY <1>2, ProductGrows, LatencyAssumption
    <3> QED
      BY <3>1, LatencyAssumption
  <2> QED
    BY <1>3, <1>4, <1>5, <1>7, <2>1, LatencyAssumption DEF AtLeastOne
<1> QED
  BY <1>6, <1>7

\* What on_sent changes, and what it leaves alone.
LEMMA OnSentShape ==
  ASSUME NEW s \in PeerMessageState
  PROVE  OnSent(s) \in PeerMessageState /\ OnSent(s).seen = s.seen
<1> DEFINE count == AtMost(s.sendCount + 1, MaxSendCount)
<1>1. count \in 1..MaxSendCount
  BY SendCountAssumption DEF AtMost, PeerMessageState
<1>2. Backoff(count) \in 0..LongestDelay
  BY <1>1, BackoffIsBounded
<1>3. OnSent(s) = [s EXCEPT !.sendCount = count, !.requested = FALSE, !.wait = Backoff(count)]
  BY DEF OnSent
<1> HIDE DEF count
<1>4. count \in 0..MaxSendCount
  BY <1>1
<1> QED
  BY <1>2, <1>3, <1>4 DEF PeerMessageState

\* What plan() does to one entry.
LEMMA PlannedShape ==
  ASSUME NEW s \in PeerMessageState, NEW mode
  PROVE  /\ Planned(s, mode) \in PeerMessageState
         /\ Planned(s, mode).seen = s.seen
         /\ Chosen(s, mode) = "nothing" => Planned(s, mode).requested = s.requested
<1>1. /\ OnAcknowledged(s) \in PeerMessageState
      /\ OnAcknowledged(s).seen = s.seen
      /\ OnAcknowledged(s).requested = s.requested
  BY DEF OnAcknowledged, PeerMessageState
<1>2. /\ OnSent(OnAcknowledged(s)) \in PeerMessageState
      /\ OnSent(OnAcknowledged(s)).seen = s.seen
  BY <1>1, OnSentShape
<1> QED
  BY <1>1, <1>2 DEF Planned

\* What the handlers change, and what they leave alone.
LEMMA HandlersShape ==
  ASSUME NEW s \in PeerMessageState
  PROVE  /\ OnPeerAcked(s) \in PeerMessageState /\ OnPeerAcked(s).requested = s.requested
         /\ OnPeerOffered(s) \in PeerMessageState /\ OnPeerOffered(s).requested = s.requested
         /\ OnPeerRequested(s) \in PeerMessageState /\ OnPeerRequested(s).seen = s.seen
         /\ OnPeerRequested(s).requested
<1>1. OnPeerAcked(s) \in PeerMessageState /\ OnPeerAcked(s).requested = s.requested
  BY DEF OnPeerAcked, PeerMessageState
<1>2. OnPeerOffered(s) \in PeerMessageState /\ OnPeerOffered(s).requested = s.requested
  BY DEF OnPeerOffered, PeerMessageState
<1>3. /\ OnPeerRequested(s) \in PeerMessageState /\ OnPeerRequested(s).seen = s.seen
      /\ OnPeerRequested(s).requested
  BY DEF OnPeerRequested, PeerMessageState
<1> QED
  BY <1>1, <1>2, <1>3

\* What a tick of the clock changes.
LEMMA TickedShape ==
  ASSUME NEW s \in PeerMessageState
  PROVE  /\ Ticked(s) \in PeerMessageState
         /\ Ticked(s).seen = s.seen /\ Ticked(s).requested = s.requested
         /\ Ticked(s).ackPending = s.ackPending
<1>1. LongestDelay \in Int
  BY LongestDelayType
<1>2. (IF s.wait = 0 THEN 0 ELSE s.wait - 1) \in 0..LongestDelay
  BY <1>1 DEF PeerMessageState
<1> QED
  BY <1>2 DEF Ticked, PeerMessageState

\* An update touches one entry of one device.
LEMMA UpdateOfOne ==
  ASSUME state \in [Device -> [Message -> PeerMessageState]],
         NEW d \in Device, NEW m \in Message, NEW s \in PeerMessageState, Updates(d, m, s)
  PROVE  /\ state' \in [Device -> [Message -> PeerMessageState]]
         /\ state'[d][m] = s
         /\ \A e \in Device, x \in Message : <<e, x>> # <<d, m>> => state'[e][x] = state[e][x]
BY DEF Updates

\* So what changes is that entry.
LEMMA ChangesItsEntry ==
  ASSUME state \in [Device -> [Message -> PeerMessageState]],
         NEW d \in Device, NEW m \in Message, NEW s \in PeerMessageState, Updates(d, m, s),
         NEW e \in Device, NEW x \in Message, state'[e][x] # state[e][x]
  PROVE  e = d /\ x = m /\ state'[e][x] = s
BY UpdateOfOne

\* A message that arrives is held by one device more.
LEMMA HeldByOne ==
  ASSUME holds \in [Device -> [Message -> Holding]], NEW d \in Device, NEW m \in Message,
         holds' = [holds EXCEPT ![d][m] = "held"]
  PROVE  holds' \in [Device -> [Message -> Holding]]
BY DEF Holding

-----------------------------------------------------------------------------
\* The types needed hold at the start.
LEMMA InitTypes == Init => TypeOK
<1>1. NewState \in PeerMessageState
  BY LongestDelayType, SendCountAssumption DEF NewState, PeerMessageState
<1> QED
  BY <1>1 DEF Init, TypeOK

\* The records plan() puts out are records.
LEMMA PlannedRecordsType ==
  ASSUME NEW d \in Device, NEW mode, TypeOK
  PROVE  PlannedRecords(d, mode) \subseteq SyncRecord
BY DEF PlannedRecords, Records, Encodable, Shared, SyncRecord, TypeOK

\* The types needed outlast a step.
LEMMA NextTypes ==
  ASSUME TypeOK, [Next]_vars
  PROVE  TypeOK'
<1> USE DEF TypeOK
<1>1. ASSUME NEW d \in Device, NEW mode \in Mode, Plan(d, mode) PROVE TypeOK'
  <2>1. Other(d) \in Device
    BY DEF Other, Device
  <2>2. PlannedRecords(d, mode) \subseteq SyncRecord
    BY PlannedRecordsType
  <2>3. inFlight' \in [Device -> SUBSET SyncRecord]
    BY <1>1, <2>1, <2>2 DEF Plan
  <2>4. state' \in [Device -> [Message -> PeerMessageState]]
    <3>1. \A m \in Message : Planned(state[d][m], mode) \in PeerMessageState
      BY PlannedShape
    <3> QED
      BY <1>1, <3>1 DEF Plan
  <2>5. Encodable(offered[d]) \subseteq Message
    BY DEF Encodable
  <2> QED
    BY <1>1, <2>3, <2>4, <2>5 DEF Plan
<1>2. ASSUME NEW d \in Device, NEW m \in Message, Receive(d, m) PROVE TypeOK'
  <2> USE <1>2 DEF Receive
  <2>1. inFlight' \in [Device -> SUBSET SyncRecord]
    <3>1. PICK r : Arrives(d, r)
      BY DEF ReceiveAck, ReceiveRequest, ReceiveOffer, ReceiveMessage, ReceiveUnavailable
    <3> QED
      BY <3>1 DEF Arrives
  <2>2. state' \in [Device -> [Message -> PeerMessageState]]
    <3>1. state[d][m] \in PeerMessageState
      OBVIOUS
    <3>2. /\ OnPeerAcked(state[d][m]) \in PeerMessageState
          /\ OnPeerOffered(state[d][m]) \in PeerMessageState
          /\ OnPeerRequested(state[d][m]) \in PeerMessageState
      BY <3>1, HandlersShape
    <3>3. \/ UNCHANGED state
          \/ Updates(d, m, OnPeerAcked(state[d][m]))
          \/ Updates(d, m, OnPeerOffered(state[d][m]))
          \/ Updates(d, m, OnPeerRequested(state[d][m]))
      BY DEF ReceiveAck, ReceiveRequest, ReceiveOffer, ReceiveMessage, ReceiveUnavailable
    <3> QED
      BY <3>2, <3>3, UpdateOfOne
  <2>3. holds' \in [Device -> [Message -> Holding]]
    <3>1. UNCHANGED holds \/ ReceiveMessage(d, m)
      BY DEF ReceiveAck, ReceiveRequest, ReceiveOffer, ReceiveUnavailable
    <3>2. holds' = holds \/ holds' = [holds EXCEPT ![d][m] = "held"]
      BY <3>1 DEF ReceiveMessage
    <3> QED
      BY <3>2, HeldByOne
  <2>4. offered' \in [Device -> SUBSET Message]
    BY DEF ReceiveAck, ReceiveRequest, ReceiveOffer, ReceiveMessage, ReceiveUnavailable
  <2>5. awaiting' \in [Device -> SUBSET Message]
    BY DEF ReceiveAck, ReceiveRequest, ReceiveOffer, ReceiveMessage, ReceiveUnavailable
  <2> QED
    BY <2>1, <2>2, <2>3, <2>4, <2>5
<1>3. ASSUME NEW d \in Device, NEW m \in Message, Delete(d, m) PROVE TypeOK'
  BY <1>3 DEF Delete, Holding
<1>4. ASSUME NEW d \in Device, NEW r \in inFlight[d], Lose(d, r) PROVE TypeOK'
  BY <1>4 DEF Lose
<1>5. CASE Tick
  BY <1>5, TickedShape DEF Tick
<1>6. CASE UNCHANGED vars
  BY <1>6 DEF vars
<1> QED
  BY <1>1, <1>2, <1>3, <1>4, <1>5, <1>6 DEF Next

(* However often one message is sent, and wherever the count saturates, no *)
(* wait is longer than the limit on the doublings allows, so that every    *)
(* wait ends; the count itself stops at the width of its type              *)
(* (on_sent() in peer.rs: saturating_add, and the min over the doublings). *)
THEOREM TypeCorrect == Spec => []TypeOK
<1> QED
  BY InitTypes, NextTypes, PTL DEF Spec

-----------------------------------------------------------------------------
(* Whoever sent one of these has an entry for the message: what makes the  *)
(* receiver's belief true, however long the record travels, for entries    *)
(* outlive the bodies.                                                     *)
Telling == {"Ack", "Message", "Offer"}

RecordsTellTruth ==
  \A d \in Device : \A r \in inFlight[d] : r.type \in Telling => r.id \in Shared(Other(d))

BeliefInv == TypeOK /\ RecordsTellTruth /\ SeenIsTrue

\* Nobody loses an entry.
LEMMA EntriesStay ==
  ASSUME TypeOK, [Next]_vars, NEW d \in Device
  PROVE  Shared(d) \subseteq Shared(d)'
<1> SUFFICES ASSUME NEW m \in Message, holds[d][m] # "none" PROVE holds'[d][m] # "none"
  BY DEF Shared
<1>1. CASE UNCHANGED holds
  BY <1>1
<1>2. ASSUME NEW e \in Device, NEW x \in Message, ReceiveMessage(e, x)
      PROVE  holds'[d][m] # "none"
  BY <1>2 DEF ReceiveMessage, TypeOK
<1>3. ASSUME NEW e \in Device, NEW x \in Message, Delete(e, x)
      PROVE  holds'[d][m] # "none"
  BY <1>3 DEF Delete, TypeOK
<1> QED
  BY <1>1, <1>2, <1>3 DEF Next, vars, Plan, Receive, ReceiveAck, ReceiveRequest, ReceiveOffer,
     ReceiveUnavailable, Lose, Tick

\* What is on its way after a step was on its way before or is planned in it.
LEMMA NewRecordsTellTruth ==
  ASSUME TypeOK, RecordsTellTruth, [Next]_vars
  PROVE  RecordsTellTruth'
<1> SUFFICES ASSUME NEW d \in Device, NEW r \in inFlight'[d], r.type \in Telling
             PROVE  r.id \in Shared(Other(d))'
  BY DEF RecordsTellTruth
<1>1. Other(d) \in Device
  BY DEF Other, Device
<1>2. Shared(Other(d)) \subseteq Shared(Other(d))'
  BY <1>1, EntriesStay
<1>3. CASE r \in inFlight[d]
  BY <1>2, <1>3 DEF RecordsTellTruth
<1>4. CASE r \notin inFlight[d]
  <2>1. ASSUME NEW e \in Device, NEW x, Arrives(e, x) \/ Lose(e, x) PROVE FALSE
    BY <1>4, <2>1 DEF Arrives, Lose, TypeOK
  <2>2. ASSUME UNCHANGED inFlight PROVE FALSE
    BY <1>4, <2>2
  <2>3. ~\E e \in Device, m \in Message : Receive(e, m)
    BY <2>1 DEF Receive, ReceiveAck, ReceiveRequest, ReceiveOffer, ReceiveMessage,
                ReceiveUnavailable
  <2>4. PICK e \in Device, mode \in Mode : Plan(e, mode)
    BY <2>1, <2>2, <2>3 DEF Next, vars, Delete, Tick, TypeOK
  <2>5. Other(e) = d /\ Other(d) = e /\ r \in PlannedRecords(e, mode)
    BY <1>4, <2>4 DEF Plan, Other, Device, TypeOK
  <2>6. r.id \in Shared(e)
    BY <2>5 DEF PlannedRecords, Records, Encodable, Telling
  <2> QED
    BY <1>2, <2>5, <2>6
<1> QED
  BY <1>3, <1>4

\* A belief is formed from a telling record only.
LEMMA NewBeliefsAreTrue ==
  ASSUME BeliefInv, [Next]_vars
  PROVE  SeenIsTrue'
<1> SUFFICES ASSUME NEW d \in Device, NEW m \in Message, state'[d][m].seen
             PROVE  m \in Shared(Other(d))'
  BY DEF SeenIsTrue
<1>1. Other(d) \in Device
  BY DEF Other, Device
<1>2. Shared(Other(d)) \subseteq Shared(Other(d))'
  BY <1>1, EntriesStay DEF BeliefInv
<1>3. CASE state[d][m].seen
  BY <1>2, <1>3 DEF SeenIsTrue, BeliefInv
<1>4. CASE ~state[d][m].seen
  <2> USE DEF BeliefInv, TypeOK
  <2>1. ASSUME NEW type \in Telling, [type |-> type, id |-> m] \in inFlight[d]
        PROVE  m \in Shared(Other(d))'
    BY <1>2, <2>1 DEF RecordsTellTruth
  <2>2. ASSUME NEW e \in Device, NEW mode \in Mode, Plan(e, mode) PROVE FALSE
    <3>1. Planned(state[d][m], mode).seen = state[d][m].seen
      BY PlannedShape
    <3> QED
      BY <1>4, <2>2, <3>1 DEF Plan
  <2>3. ASSUME NEW e \in Device, NEW x \in Message, ReceiveAck(e, x)
        PROVE  m \in Shared(Other(d))'
    <3>1. e = d /\ x = m
      BY <1>4, <2>3 DEF ReceiveAck, Updates
    <3> QED
      BY <2>1, <2>3, <3>1 DEF ReceiveAck, Arrives, Telling
  <2>4. ASSUME NEW e \in Device, NEW x \in Message, ReceiveOffer(e, x)
        PROVE  m \in Shared(Other(d))'
    <3>1. e = d /\ x = m
      <4>1. OnPeerOffered(state[e][x]) \in PeerMessageState
        BY HandlersShape
      <4> QED
        BY <1>4, <2>4, <4>1, ChangesItsEntry DEF ReceiveOffer
    <3> QED
      BY <2>1, <2>4, <3>1 DEF ReceiveOffer, Arrives, Telling
  <2>5. ASSUME NEW e \in Device, NEW x \in Message, ReceiveMessage(e, x)
        PROVE  m \in Shared(Other(d))'
    <3>1. e = d /\ x = m
      BY <1>4, <2>5 DEF ReceiveMessage, Updates
    <3> QED
      BY <2>1, <2>5, <3>1 DEF ReceiveMessage, Arrives, Telling
  <2>6. ASSUME NEW e \in Device, NEW x \in Message, ReceiveRequest(e, x) PROVE FALSE
    <3>1. OnPeerRequested(state[e][x]).seen = state[e][x].seen
      BY HandlersShape
    <3> QED
      BY <1>4, <2>6, <3>1 DEF ReceiveRequest, Updates
  <2>7. CASE Tick
    BY <1>4, <2>7, TickedShape DEF Tick
  <2>8. CASE UNCHANGED state
    BY <1>4, <2>8
  <2> QED
    BY <2>2, <2>3, <2>4, <2>5, <2>6, <2>7, <2>8
    DEF Next, vars, Receive, ReceiveUnavailable, Delete, Lose
<1> QED
  BY <1>3, <1>4

(* A device never takes a message for seen by a peer that has not had it,  *)
(* whatever is lost, repeated, reordered or deleted.                       *)
THEOREM BeliefsAreTrue == Spec => []SeenIsTrue
<1>1. Init => BeliefInv
  BY InitTypes DEF Init, BeliefInv, RecordsTellTruth, SeenIsTrue, NewState
<1>2. BeliefInv /\ [Next]_vars => BeliefInv'
  BY NextTypes, NewRecordsTellTruth, NewBeliefsAreTrue DEF BeliefInv
<1>3. BeliefInv => SeenIsTrue
  BY DEF BeliefInv
<1> QED
  BY <1>1, <1>2, <1>3, PTL DEF Spec

-----------------------------------------------------------------------------
(* While every list of identifiers fits a record, encode_record() writes   *)
(* all of it.                                                              *)
EveryListFits == IsFiniteSet(Message) /\ Cardinality(Message) <= RecordCapacity

LEMMA AllIsEncodable ==
  ASSUME EveryListFits, NEW ids \in SUBSET Message
  PROVE  Encodable(ids) = ids
<1>1. Cardinality(ids) <= Cardinality(Message) /\ IsFiniteSet(ids)
  BY FS_Subset DEF EveryListFits
<1>2. Cardinality(ids) \in Nat /\ Cardinality(Message) \in Nat
  BY <1>1, FS_CardinalityType DEF EveryListFits
<1> QED
  BY <1>1, <1>2, CapacityAssumption DEF Encodable, EveryListFits

\* Whether a step drops a request without an answer.
RequestDropsAreAnswers ==
  \A d \in Device, m \in Message :
    state[d][m].requested /\ ~state'[d][m].requested =>
      \E type \in {"Message", "Unavailable"} :
        [type |-> type, id |-> m] \in inFlight'[Other(d)]

\* Only plan() drops a request.
LEMMA OnlyPlanDropsRequests ==
  ASSUME TypeOK, Next, NEW d \in Device, NEW m \in Message,
         state[d][m].requested, ~state'[d][m].requested
  PROVE  \E mode \in Mode : Plan(d, mode)
<1> USE DEF TypeOK
<1>1. ASSUME NEW e \in Device, NEW x \in Message, Receive(e, x) PROVE FALSE
  <2>1. /\ OnPeerAcked(state[e][x]).requested = state[e][x].requested
        /\ OnPeerOffered(state[e][x]).requested = state[e][x].requested
        /\ OnPeerRequested(state[e][x]).requested
    BY HandlersShape
  <2>2. \/ UNCHANGED state
        \/ Updates(e, x, OnPeerAcked(state[e][x]))
        \/ Updates(e, x, OnPeerOffered(state[e][x]))
        \/ Updates(e, x, OnPeerRequested(state[e][x]))
    BY <1>1 DEF Receive, ReceiveAck, ReceiveRequest, ReceiveOffer, ReceiveMessage,
                ReceiveUnavailable
  <2>3. /\ OnPeerAcked(state[e][x]) \in PeerMessageState
        /\ OnPeerOffered(state[e][x]) \in PeerMessageState
        /\ OnPeerRequested(state[e][x]) \in PeerMessageState
    BY HandlersShape
  <2>4. state'[d][m] # state[d][m] /\ state \in [Device -> [Message -> PeerMessageState]]
    OBVIOUS
  <2> HIDE DEF TypeOK
  <2> QED
    BY <2>1, <2>2, <2>3, <2>4, ChangesItsEntry
<1>2. CASE Tick
  BY <1>2, TickedShape DEF Tick
<1>3. ASSUME NEW e \in Device, NEW mode \in Mode, Plan(e, mode), e # d PROVE FALSE
  BY <1>3 DEF Plan
<1>4. CASE UNCHANGED state
  BY <1>4
<1> QED
  BY <1>1, <1>2, <1>3, <1>4 DEF Next, Delete, Lose

\* And it drops one with its answer.
LEMMA PlanAnswers ==
  ASSUME EveryListFits, TypeOK,
         NEW d \in Device, NEW m \in Message, NEW mode \in Mode, Plan(d, mode),
         state[d][m].requested, ~state'[d][m].requested
  PROVE  \E type \in {"Message", "Unavailable"} :
           [type |-> type, id |-> m] \in inFlight'[Other(d)]
<1> USE DEF TypeOK
<1>1. m \in Shared(d) /\ ~Planned(state[d][m], mode).requested
  BY DEF Plan
<1>2. Chosen(state[d][m], mode) # "nothing"
  BY <1>1, PlannedShape
<1>3. Chosen(state[d][m], mode) = "send"
  BY <1>2 DEF Chosen, PeerMessageState
<1>4. holds[d][m] \in {"held", "gone"}
  BY <1>1 DEF Shared, Holding
<1>5. PICK type \in {"Message", "Unavailable"} :
        [type |-> type, id |-> m] \in PlannedRecords(d, mode)
  <2>1. CASE holds[d][m] = "held"
    <3>1. [type |-> "Message", id |-> m] \in PlannedRecords(d, mode)
      BY <1>1, <1>3, <2>1 DEF PlannedRecords, Records
    <3> QED
      BY <3>1
  <2>2. CASE holds[d][m] = "gone"
    <3>1. m \in {x \in Shared(d) : Chosen(state[d][x], mode) = "send" /\ holds[d][x] = "gone"}
      BY <1>1, <1>3, <2>2
    <3>2. {x \in {y \in Shared(d) : Chosen(state[d][y], mode) = "send"} : holds[d][x] = "gone"}
            \subseteq Message
      BY DEF Shared
    <3>3. [type |-> "Unavailable", id |-> m] \in PlannedRecords(d, mode)
      BY <3>1, <3>2, AllIsEncodable DEF PlannedRecords, Records
    <3> QED
      BY <3>3
  <2> QED
    BY <1>4, <2>1, <2>2
<1>6. Other(d) \in Device
  BY DEF Other, Device
<1> QED
  BY <1>5, <1>6 DEF Plan

(* A request stays until the step that answers it, whatever the mode, the  *)
(* backoff and the order of the loop in plan(), as long as the answers fit *)
(* a record.                                                               *)
THEOREM RequestsKeptUntilAnswered ==
  ASSUME EveryListFits
  PROVE  Spec => RequestKeptUntilAnswered
<1>1. TypeOK /\ [Next]_vars => [RequestDropsAreAnswers]_vars
  BY OnlyPlanDropsRequests, PlanAnswers DEF RequestDropsAreAnswers
<1>2. TypeOK /\ [Next]_vars => TypeOK'
  BY NextTypes
<1> QED
  BY <1>1, <1>2, InitTypes, PTL DEF Spec, RequestKeptUntilAnswered, RequestDropsAreAnswers

-----------------------------------------------------------------------------
\* Whether a step stops owing an acknowledgement that has not gone out.
DroppedAcksAreSent ==
  \A d \in Device, m \in Message :
    state[d][m].ackPending /\ ~state'[d][m].ackPending =>
      [type |-> "Ack", id |-> m] \in inFlight'[Other(d)]

\* Only plan() stops owing one.
LEMMA OnlyPlanDropsAcks ==
  ASSUME TypeOK, Next, NEW d \in Device, NEW m \in Message,
         state[d][m].ackPending, ~state'[d][m].ackPending
  PROVE  \E mode \in Mode : Plan(d, mode)
<1> USE DEF TypeOK
<1>1. ASSUME NEW e \in Device, NEW x \in Message, Receive(e, x) PROVE FALSE
  <2>1. /\ OnPeerAcked(state[e][x]).ackPending = state[e][x].ackPending
        /\ OnPeerOffered(state[e][x]).ackPending
        /\ OnPeerRequested(state[e][x]).ackPending = state[e][x].ackPending
    BY DEF OnPeerAcked, OnPeerOffered, OnPeerRequested, PeerMessageState
  <2>2. \/ UNCHANGED state
        \/ Updates(e, x, OnPeerAcked(state[e][x]))
        \/ Updates(e, x, OnPeerOffered(state[e][x]))
        \/ Updates(e, x, OnPeerRequested(state[e][x]))
    BY <1>1 DEF Receive, ReceiveAck, ReceiveRequest, ReceiveOffer, ReceiveMessage,
                ReceiveUnavailable
  <2>3. /\ OnPeerAcked(state[e][x]) \in PeerMessageState
        /\ OnPeerOffered(state[e][x]) \in PeerMessageState
        /\ OnPeerRequested(state[e][x]) \in PeerMessageState
    BY HandlersShape
  <2>4. state'[d][m] # state[d][m] /\ state \in [Device -> [Message -> PeerMessageState]]
    OBVIOUS
  <2> HIDE DEF TypeOK
  <2> QED
    BY <2>1, <2>2, <2>3, <2>4, ChangesItsEntry
<1>2. CASE Tick
  BY <1>2, TickedShape DEF Tick
<1>3. ASSUME NEW e \in Device, NEW mode \in Mode, Plan(e, mode), e # d PROVE FALSE
  BY <1>3 DEF Plan
<1>4. CASE UNCHANGED state
  BY <1>4
<1> QED
  BY <1>1, <1>2, <1>3, <1>4 DEF Next, Delete, Lose

\* And what it stops owing is in a record of its own.
LEMMA PlanAcknowledges ==
  ASSUME EveryListFits, TypeOK,
         NEW d \in Device, NEW m \in Message, NEW mode \in Mode, Plan(d, mode),
         state[d][m].ackPending, ~state'[d][m].ackPending
  PROVE  [type |-> "Ack", id |-> m] \in inFlight'[Other(d)]
<1> DEFINE owed == {x \in Shared(d) : state[d][x].ackPending}
<1>1. m \in owed /\ owed \subseteq Message
  BY DEF Plan, Shared, TypeOK
<1>2. [type |-> "Ack", id |-> m] \in PlannedRecords(d, mode)
  BY <1>1, AllIsEncodable DEF PlannedRecords, Records
<1>3. Other(d) \in Device
  BY DEF Other, Device
<1> QED
  BY <1>2, <1>3 DEF Plan, TypeOK

(* plan() clears ack_pending only with the acknowledgement on its way, as  *)
(* long as the list of acknowledgements fits a record: the limit of a      *)
(* record is the only way one is lost before it is sent.                   *)
THEOREM AcksOwedUntilSent ==
  ASSUME EveryListFits
  PROVE  Spec => AckOwedUntilSent
<1>1. TypeOK /\ [Next]_vars => [DroppedAcksAreSent]_vars
  BY OnlyPlanDropsAcks, PlanAcknowledges DEF DroppedAcksAreSent
<1>2. TypeOK /\ [Next]_vars => TypeOK'
  BY NextTypes
<1> QED
  BY <1>1, <1>2, InitTypes, PTL DEF Spec, AckOwedUntilSent, DroppedAcksAreSent

-----------------------------------------------------------------------------
(* What a device has been offered, asks for or waits for is what the other *)
(* has an entry for, and a request on its way finds an entry.              *)
OnlySharedIsAskedFor ==
  \A d \in Device :
    /\ offered[d] \cup awaiting[d] \subseteq Shared(Other(d))
    /\ \A r \in inFlight[d] : r.type = "Request" => r.id \in Shared(d)

AskingInv == TypeOK /\ RecordsTellTruth /\ OnlySharedIsAskedFor

\* An offer is noted when it arrives, and it told the truth.
LEMMA OffersAreShared ==
  ASSUME AskingInv, [Next]_vars, NEW d \in Device
  PROVE  offered'[d] \cup awaiting'[d] \subseteq Shared(Other(d))
<1> USE DEF AskingInv, OnlySharedIsAskedFor, TypeOK
<1>1. ASSUME NEW e \in Device, NEW mode \in Mode, Plan(e, mode)
      PROVE  offered'[d] \cup awaiting'[d] \subseteq offered[d] \cup awaiting[d]
  BY <1>1 DEF Plan, Encodable
<1>2. ASSUME NEW e \in Device, NEW m \in Message, ReceiveOffer(e, m)
      PROVE  offered'[d] \cup awaiting'[d] \subseteq Shared(Other(d))
  <2>1. [type |-> "Offer", id |-> m] \in inFlight[e]
    BY <1>2 DEF ReceiveOffer, Arrives
  <2>2. m \in Shared(Other(e))
    BY <2>1 DEF RecordsTellTruth, Telling
  <2> QED
    BY <1>2, <2>2 DEF ReceiveOffer
<1>3. ASSUME NEW e \in Device, NEW m \in Message,
             \/ ReceiveAck(e, m) \/ ReceiveRequest(e, m) \/ ReceiveMessage(e, m)
             \/ ReceiveUnavailable(e, m)
      PROVE  offered'[d] \cup awaiting'[d] \subseteq offered[d] \cup awaiting[d]
  BY <1>3 DEF ReceiveAck, ReceiveRequest, ReceiveMessage, ReceiveUnavailable
<1>4. CASE UNCHANGED <<offered, awaiting>>
  BY <1>4
<1> QED
  BY <1>1, <1>2, <1>3, <1>4 DEF Next, vars, Receive, Delete, Lose, Tick

\* A request is planned for what was offered.
LEMMA RequestsFindEntries ==
  ASSUME AskingInv, [Next]_vars, NEW d \in Device, NEW r \in inFlight'[d], r.type = "Request"
  PROVE  r.id \in Shared(d)
<1> USE DEF AskingInv, OnlySharedIsAskedFor, TypeOK
<1>1. CASE r \in inFlight[d]
  BY <1>1
<1>2. CASE r \notin inFlight[d]
  <2>1. ASSUME NEW e \in Device, NEW x, Arrives(e, x) \/ Lose(e, x) PROVE FALSE
    BY <1>2, <2>1 DEF Arrives, Lose
  <2>2. ASSUME UNCHANGED inFlight PROVE FALSE
    BY <1>2, <2>2
  <2>3. ~\E e \in Device, m \in Message : Receive(e, m)
    BY <2>1 DEF Receive, ReceiveAck, ReceiveRequest, ReceiveOffer, ReceiveMessage,
                ReceiveUnavailable
  <2>4. PICK e \in Device, mode \in Mode : Plan(e, mode)
    BY <2>1, <2>2, <2>3 DEF Next, vars, Delete, Tick
  <2>5. Other(e) = d /\ r \in PlannedRecords(e, mode)
    BY <1>2, <2>4 DEF Plan, Other, Device
  <2>6. r.id \in offered[e]
    BY <2>5 DEF PlannedRecords, Records, Encodable
  <2> QED
    BY <2>5, <2>6
<1> QED
  BY <1>1, <1>2

(* No device asks in vain: whatever was lost, repeated, reordered or       *)
(* deleted meanwhile, a request that arrives finds an entry, to be         *)
(* answered with the message or with UNAVAILABLE (plan(), the loop over    *)
(* offered_by_peer; on_peer_requested()).                                  *)
THEOREM NobodyAsksInVain == Spec => []OnlySharedIsAskedFor
<1>1. Init => AskingInv
  BY InitTypes DEF Init, AskingInv, RecordsTellTruth, OnlySharedIsAskedFor
<1>2. AskingInv /\ [Next]_vars => AskingInv'
  <2> SUFFICES ASSUME AskingInv, [Next]_vars PROVE AskingInv'
    OBVIOUS
  <2>1. TypeOK' /\ RecordsTellTruth'
    BY NextTypes, NewRecordsTellTruth DEF AskingInv
  <2>2. \A d \in Device : Shared(d) \subseteq Shared(d)'
    BY EntriesStay DEF AskingInv
  <2>3. \A d \in Device : Other(d) \in Device
    BY DEF Other, Device
  <2>4. OnlySharedIsAskedFor'
    <3> SUFFICES ASSUME NEW d \in Device
                 PROVE  /\ offered'[d] \cup awaiting'[d] \subseteq Shared(Other(d))'
                        /\ \A r \in inFlight'[d] : r.type = "Request" => r.id \in Shared(d)'
      BY DEF OnlySharedIsAskedFor
    <3>1. offered'[d] \cup awaiting'[d] \subseteq Shared(Other(d))'
      BY <2>2, <2>3, OffersAreShared
    <3>2. \A r \in inFlight'[d] : r.type = "Request" => r.id \in Shared(d)'
      BY <2>2, RequestsFindEntries
    <3> QED
      BY <3>1, <3>2
  <2> QED
    BY <2>1, <2>4 DEF AskingInv
<1>3. AskingInv => OnlySharedIsAskedFor
  BY DEF AskingInv
<1> QED
  BY <1>1, <1>2, <1>3, PTL DEF Spec
=============================================================================
