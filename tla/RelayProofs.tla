----------------------------- MODULE RelayProofs -----------------------------
(***************************************************************************)
(* Proofs about Relay: the types, that no blob is lost before its time,    *)
(* that a queue keeps its keys, that a challenge is good once and that it  *)
(* waits for the request it was handed out for.  At the end, that what is  *)
(* said to a relay and by it comes through the wire, and in one way only.  *)
(***************************************************************************)
EXTENDS RelayMailbox, WellFoundedInduction, SequenceTheorems, TLAPS

CONSTANTS MaxPayloadLen, QueueIdLen, KeyLen, ProofLen, BlobIdLen  \* of RelayWire

Wire == INSTANCE RelayWire

-----------------------------------------------------------------------------
(* The operations on a store. *)

(* Of the positions of a Vec that is not empty, one is the first.          *)
LEMMA FirstExists ==
  \A S : S \subseteq Nat /\ S # {} => \E n \in S : \A m \in S : n <= m
<1> SUFFICES ASSUME NEW S, S \subseteq Nat, S # {}
             PROVE  \E n \in S : \A m \in S : n <= m
  OBVIOUS
<1> DEFINE R == {p \in Nat \X Nat : p[1] < p[2]}
<1>1. IsWellFoundedOn(R, Nat)
  <2>1. R = OpToRel(<, Nat)
    BY Zenon DEF OpToRel
  <2> QED BY <2>1, NatLessThanWellFounded
<1>2. PICK n \in S : \A m \in S : ~ (<<m, n>> \in R)
  <2> HIDE DEF R
  <2> QED BY <1>1, WFMin
<1>3. \A m \in S : n <= m
  <2> SUFFICES ASSUME NEW m \in S PROVE n <= m
    OBVIOUS
  <2>1. m \in Nat /\ n \in Nat /\ ~ (<<m, n>> \in R)
    BY <1>2
  <2> QED BY <2>1
<1> QED BY <1>3

(* A nonempty Vec has a first element: what Oldest chooses is an entry.    *)
LEMMA OldestIsHeld ==
  ASSUME NEW s, NEW q, s[q].blobs \subseteq Entry, s[q].blobs # {}
  PROVE  Oldest(s, q) \in s[q].blobs
<1> DEFINE N == {e.nth : e \in s[q].blobs}
<1>1. N \subseteq Nat /\ N # {}
  BY DEF Entry
<1>2. PICK n \in N : \A m \in N : n <= m
  <2> HIDE DEF N
  <2> QED BY <1>1, FirstExists
<1>3. PICK e \in s[q].blobs : \A f \in s[q].blobs : e.nth <= f.nth
  BY <1>2
<1> QED BY <1>3 DEF Oldest

(* Every operation of the store keeps it a store.                          *)
LEMMA ExpiredIsStore ==
  ASSUME NEW s, IsStore(s), NEW now \in Nat
  PROVE  IsStore(Expired(s, now))
BY DEF IsStore, Expired, QueueState

LEMMA RegisteredIsStore ==
  ASSUME NEW s, IsStore(s), NEW q \in Queue, NEW reg \in Registration, NEW now \in Nat
  PROVE  IsStore(Registered(s, q, reg, now))
BY DEF IsStore, Registered, QueueState

LEMMA WrittenIsStore ==
  ASSUME NEW s, IsStore(s), NEW q \in DOMAIN s, NEW b \in Blob, NEW now \in Nat
  PROVE  IsStore(Written(s, q, b, now))
BY DEF IsStore, Written, QueueState, Entry

LEMMA DeletedIsStore ==
  ASSUME NEW s, IsStore(s), NEW q \in DOMAIN s, NEW b
  PROVE  IsStore(Deleted(s, q, b))
BY DEF IsStore, Deleted, QueueState

(* Expiry, registration, writing and deleting each keep every blob within  *)
(* Lag of its queue's last write.                                          *)
LEMMA ExpiredCovered ==
  ASSUME NEW s, NEW now, NEW t, Covered(s, t)
  PROVE  Covered(Expired(s, now), t)
<1> SUFFICES ASSUME NEW q \in DOMAIN Expired(s, now)
             PROVE  /\ Expired(s, now)[q].lastWrite <= t
                    /\ \A e \in Expired(s, now)[q].blobs :
                         e.at <= t /\ e.at <= Expired(s, now)[q].lastWrite + Lag
  BY DEF Covered
<1>1. q \in DOMAIN s /\ Expired(s, now)[q] = [s[q] EXCEPT !.blobs = {e \in s[q].blobs : e.at + BlobLife >= now}]
  BY DEF Expired
<1> QED BY <1>1 DEF Covered

LEMMA RegisteredCovered ==
  ASSUME NEW s, NEW q, NEW reg, NEW now \in Nat, NEW t \in Nat, now <= t, Covered(s, t)
  PROVE  Covered(Registered(s, q, reg, now), t)
BY DEF Covered, Registered

LEMMA WrittenCovered ==
  ASSUME NEW s, IsStore(s), NEW q \in DOMAIN s, NEW b \in Blob,
         NEW now \in Nat, NEW t \in Nat, now <= t, t <= now + Lag, Covered(s, t)
  PROVE  Covered(Written(s, q, b, now), t)
BY LagAssumption DEF Covered, Written, IsStore, QueueState, Entry

LEMMA DeletedCovered ==
  ASSUME NEW s, IsStore(s), NEW q \in DOMAIN s, NEW b, NEW t, Covered(s, t)
  PROVE  Covered(Deleted(s, q, b), t)
BY DEF Covered, Deleted, IsStore, QueueState

(* The heart of NoUnexpiredLoss: expiry at a stamp that is no later than   *)
(* the clock drops a covered blob only once its life is over, and never    *)
(* with its queue before that.                                             *)
LEMMA ExpiredKeepsLivingBlobs ==
  ASSUME NEW s, IsStore(s), NEW now \in Nat, NEW t \in Nat, now <= t, Covered(s, t),
         NEW q \in DOMAIN s, NEW e \in s[q].blobs, ~ (e.at + BlobLife < t)
  PROVE  q \in DOMAIN Expired(s, now) /\ e \in Expired(s, now)[q].blobs
<1>1. /\ e.at \in Nat
      /\ s[q].lastWrite \in Nat
      /\ e.at <= s[q].lastWrite + Lag
  BY DEF IsStore, QueueState, Entry, Covered
<1>2. e.at + BlobLife >= now /\ s[q].lastWrite + QueueLife >= now
  BY <1>1, LifeAssumption, LagAssumption
<1>3. q \in DOMAIN Expired(s, now)
  BY <1>2 DEF Expired
<1>4. e \in Expired(s, now)[q].blobs
  BY <1>2, <1>3 DEF Expired, IsStore, QueueState
<1> QED BY <1>3, <1>4

-----------------------------------------------------------------------------
(* The daemon's steps. *)

(* What a thread under the lock works with has the types it relies on.     *)
LEMMA AnsweringType ==
  ASSUME TypeOK, NEW c \in Conn, conn[c].phase = "answering"
  PROVE  conn[c].request \in Request /\ conn[c].stamp \in Nat
<1>1. conn[c] \in ConnState
  BY DEF TypeOK, DaemonTypeOK
<1> QED BY <1>1 DEF ConnState

LEMMA CurrentIsStore ==
  ASSUME TypeOK, NEW c \in Conn, conn[c].phase = "answering"
  PROVE  IsStore(Current(c))
BY AnsweringType, ExpiredIsStore DEF TypeOK, DaemonTypeOK, Current

(* Where a request has the fields its kind promises.                       *)
LEMMA RequestFields ==
  ASSUME NEW r \in Request
  PROVE  /\ r.kind = "Register" => r.queue \in Queue /\ r.registration \in Registration
         /\ r.kind = "ChallengeRequest" => r.queue \in Queue /\ r.right \in Right
         /\ r.kind \in {"Write", "Read", "Delete"} => r.queue \in Queue /\ r.proof \in Proof
         /\ r.kind \in {"Write", "Delete"} => r.blob \in Blob
BY DEF Request

(* Every step leaves the store alone, loses it with the process, or is a   *)
(* thread under the lock applying one operation to the expired store.      *)
LockedStep(c) ==
  /\ conn[c].phase = "answering"
  /\ \/ store' = Current(c)
     \/ \E q \in Queue, reg \in Registration :
          store' = Registered(Current(c), q, reg, conn[c].stamp)
     \/ \E q \in DOMAIN Current(c), b \in Blob :
          store' = Written(Current(c), q, b, conn[c].stamp)
     \/ \E q \in DOMAIN Current(c), b \in Blob :
          Deletes(c, q, b) /\ store' = Deleted(Current(c), q, b)

LEMMA StoreSteps ==
  ASSUME TypeOK, [Next]_vars
  PROVE  \/ store' = store
         \/ store' = EmptyStore /\ starts' # starts
         \/ \E c \in Conn : LockedStep(c)
<1>1. CASE UNCHANGED vars
  BY <1>1 DEF vars
<1>2. CASE Tick
  BY <1>2 DEF Tick
<1>3. CASE Restart
  BY <1>3 DEF Restart, TypeOK, DaemonTypeOK
<1>4. ASSUME NEW c \in Conn, Thread(c)
      PROVE  store' = store \/ LockedStep(c)
  <2>1. CASE Accept(c) \/ (\E r \in Writable : Receive(c, r)) \/ Reply(c) \/ Hangup(c)
             \/ AnswerWithoutRandomness(c)
    BY <2>1 DEF Accept, Receive, Reply, Hangup, AnswerWithoutRandomness
  <2>2. CASE AnswerMalformed(c) \/ AnswerNothingToSpend(c) \/ IssueChallenge(c)
    BY <2>2 DEF AnswerMalformed, AnswerNothingToSpend, IssueChallenge,
                AnswerChallengeRequest, Answering, LockedStep
  <2>3. CASE AnswerBadProof(c) \/ AnswerRead(c)
    BY <2>3 DEF AnswerBadProof, AnswerRead, Spends, Answering, LockedStep
  <2>4. CASE AnswerRegister(c)
    BY <2>4, AnsweringType, RequestFields DEF AnswerRegister, Answering, LockedStep
  <2>5. CASE AnswerWrite(c)
    <3>1. /\ conn[c].phase = "answering"
          /\ conn[c].request.queue \in DOMAIN Current(c)
          /\ conn[c].request.blob \in Blob
      BY <2>5, AnsweringType, RequestFields DEF AnswerWrite, Spends, Answering
    <3> QED BY <2>5, <3>1 DEF AnswerWrite, LockedStep
  <2>6. CASE AnswerDelete(c)
    <3>1. /\ conn[c].phase = "answering"
          /\ conn[c].request.queue \in DOMAIN Current(c)
          /\ conn[c].request.blob \in Blob
      BY <2>6, AnsweringType, RequestFields DEF AnswerDelete, Spends, Answering
    <3>2. store' = Deleted(Current(c), conn[c].request.queue, conn[c].request.blob)
      BY <2>6 DEF AnswerDelete
    <3> QED BY <2>6, <3>1, <3>2 DEF LockedStep, Deletes
  <2> QED BY <1>4, <2>1, <2>2, <2>3, <2>4, <2>5, <2>6 DEF Thread, Serve
<1> QED BY <1>1, <1>2, <1>3, <1>4 DEF Next

-----------------------------------------------------------------------------
(* Type correctness. *)

LEMMA StoreTypeStep ==
  ASSUME TypeOK, [Next]_vars
  PROVE  IsStore(store')
<1>1. CASE store' = store
  BY <1>1 DEF TypeOK, DaemonTypeOK
<1>2. CASE store' = EmptyStore
  BY <1>2 DEF EmptyStore, IsStore
<1>3. ASSUME NEW c \in Conn, LockedStep(c)
      PROVE  IsStore(store')
  <2>1. IsStore(Current(c)) /\ conn[c].stamp \in Nat
    BY <1>3, CurrentIsStore, AnsweringType DEF LockedStep
  <2> QED BY <1>3, <2>1, RegisteredIsStore, WrittenIsStore, DeletedIsStore DEF LockedStep, IsStore
<1> QED BY <1>1, <1>2, <1>3, StoreSteps

(* A new challenge and a spent one leave a map of challenges.              *)
LEMMA OutstandingType ==
  ASSUME TypeOK, NEW q \in Queue, NEW right \in Right, NEW fresh \in Challenge
  PROVE  IsChallenges(Outstanding(q, right, fresh))
BY DEF TypeOK, DaemonTypeOK, IsChallenges, Outstanding

LEMMA SpentType ==
  ASSUME TypeOK, NEW r
  PROVE  IsChallenges(Spent(r))
BY DEF TypeOK, DaemonTypeOK, IsChallenges, Spent

(* What the threads do keeps the maps of challenges and connections.       *)
LEMMA ThreadType ==
  ASSUME TypeOK, NEW c \in Conn, Thread(c)
  PROVE  /\ IsChallenges(challenges')
         /\ conn' \in [Conn -> ConnState]
         /\ clock' \in Nat /\ starts' \in Nat
         /\ DOMAIN issued' \subseteq Challenge /\ issued' \in [DOMAIN issued' -> Issue]
         /\ accepted' \in [Challenge -> Nat]
<1> USE DEF TypeOK, DaemonTypeOK, Unrecorded
<1>1. CASE (Accept(c) \/ Reply(c) \/ Hangup(c)) /\ Unrecorded
  BY <1>1 DEF Accept, Reply, Hangup, ConnState
<1>2. CASE (\E r \in Writable : Receive(c, r)) /\ Unrecorded
  BY <1>2 DEF Receive, Writable, ConnState
<1>3. CASE (AnswerWithoutRandomness(c) \/ AnswerMalformed(c) \/ AnswerRegister(c)) /\ Unrecorded
  <2>1. [kind |-> "Empty"] \in Response /\ [kind |-> "Ok"] \in Response
    BY DEF Response
  <2> QED BY <1>3, <2>1 DEF AnswerWithoutRandomness, AnswerMalformed, AnswerRegister,
                            Answer, ConnState
<1>4. CASE (AnswerNothingToSpend(c) \/ AnswerBadProof(c)) /\ Unrecorded
  <2>1. \A why \in {"UnknownChallenge", "UnknownQueue", "BadProof"} :
          [kind |-> "Refused", why |-> why] \in Response
    BY DEF Response, Refusal
  <2> QED BY <1>4, <2>1, SpentType DEF AnswerNothingToSpend, AnswerBadProof, Refuse,
                                       Answer, ConnState
<1>5. CASE IssueChallenge(c)
  <2>1. PICK fresh \in Challenge \ DOMAIN issued : AnswerChallengeRequest(c, fresh)
    BY <1>5 DEF IssueChallenge
  <2>2. conn[c].request.queue \in Queue /\ conn[c].request.right \in Right
    BY <2>1, AnsweringType, RequestFields DEF AnswerChallengeRequest, Answering
  <2>3. [kind |-> "Refused", why |-> "UnknownQueue"] \in Response
        /\ [kind |-> "Challenge", challenge |-> fresh] \in Response
    BY DEF Response, Refusal
  <2>4. IsChallenges(challenges') /\ conn' \in [Conn -> ConnState]
    BY <2>1, <2>2, <2>3, OutstandingType DEF AnswerChallengeRequest, Refuse, Answer, ConnState
  <2>5. clock' = clock /\ starts' = starts
    BY <2>1 DEF AnswerChallengeRequest, Refuse, Answer
  <2>6. DOMAIN issued' \subseteq Challenge /\ issued' \in [DOMAIN issued' -> Issue]
    BY <1>5, <2>2, AnsweringType DEF IssueChallenge, AnswerChallengeRequest, Answering, Issue
  <2> QED BY <1>5, <2>4, <2>5, <2>6 DEF IssueChallenge
<1>6. CASE Serve(c)
  <2>1. conn[c].phase = "answering" /\ conn[c].request.kind \in {"Write", "Read", "Delete"}
    BY <1>6 DEF Serve, AnswerWrite, AnswerRead, AnswerDelete, Answering
  <2>2. conn[c].request.proof.challenge \in Challenge
    BY <2>1, AnsweringType, RequestFields DEF Proof
  <2>3. accepted' \in [Challenge -> Nat]
    BY <1>6, <2>2 DEF Serve, Accepted
  <2>4. \E reply \in Response : Answer(c, reply)
    <3>1. CASE AnswerWrite(c) \/ AnswerDelete(c)
      BY <3>1 DEF AnswerWrite, AnswerDelete, Refuse, Response, Refusal
    <3>2. CASE AnswerRead(c)
      <4>1. ASSUME Current(c)[conn[c].request.queue].blobs # {}
            PROVE  Oldest(Current(c), conn[c].request.queue).blob \in Blob
        <5>1. Current(c)[conn[c].request.queue].blobs \subseteq Entry
          BY <2>1, <3>2, CurrentIsStore DEF AnswerRead, Spends, IsStore, QueueState
        <5> QED BY <4>1, <5>1, OldestIsHeld DEF Entry
      <4> QED BY <3>2, <4>1 DEF AnswerRead, Response
    <3> QED BY <1>6, <3>1, <3>2 DEF Serve
  <2>5. challenges' = Spent(conn[c].request)
    BY <1>6 DEF Serve, AnswerWrite, AnswerRead, AnswerDelete
  <2> QED BY <1>6, <2>3, <2>4, <2>5, SpentType DEF Serve, Answer, ConnState
<1> QED BY <1>1, <1>2, <1>3, <1>4, <1>5, <1>6 DEF Thread

(* Relay's state always has its declared types.                            *)
THEOREM TypeCorrect == Spec => []TypeOK
<1>1. Init => TypeOK
  BY DEF Init, DaemonInit, TypeOK, DaemonTypeOK, EmptyStore, IsStore, IsChallenges, ConnState
<1>2. TypeOK /\ [Next]_vars => TypeOK'
  <2> SUFFICES ASSUME TypeOK, [Next]_vars PROVE TypeOK'
    OBVIOUS
  <2>1. IsStore(store')
    BY StoreTypeStep
  <2>2. CASE \E c \in Conn : Thread(c)
    BY <2>1, <2>2, ThreadType DEF TypeOK, DaemonTypeOK
  <2>3. CASE Tick /\ Unrecorded
    BY <2>1, <2>3 DEF Tick, Unrecorded, TypeOK, DaemonTypeOK
  <2>4. CASE Restart /\ Unrecorded
    BY <2>1, <2>4 DEF Restart, Unrecorded, TypeOK, DaemonTypeOK, IsChallenges, ConnState
  <2>5. CASE UNCHANGED vars
    BY <2>1, <2>5 DEF vars, TypeOK, DaemonTypeOK
  <2> QED BY <2>2, <2>3, <2>4, <2>5 DEF Next
<1> QED BY <1>1, <1>2, PTL DEF Spec

-----------------------------------------------------------------------------
(* No blob is lost before its time. *)

LEMMA StampsInTimeStep ==
  ASSUME TypeOK, StampsInTime, [Next]_vars
  PROVE  StampsInTime'
<1> USE DEF TypeOK, DaemonTypeOK, StampsInTime
<1>1. CASE UNCHANGED vars
  BY <1>1 DEF vars
<1>2. CASE Tick
  <2> SUFFICES ASSUME NEW c \in Conn, conn[c].phase = "answering"
               PROVE  conn[c].stamp <= clock + 1 /\ clock + 1 <= conn[c].stamp + Lag
    BY <1>2 DEF Tick
  <2> QED BY <1>2, AnsweringType, LagAssumption DEF Tick
<1>3. CASE Restart
  BY <1>3 DEF Restart
<1>4. ASSUME NEW c \in Conn, Thread(c)
      PROVE  StampsInTime'
  <2>1. CASE \E r \in Writable : Receive(c, r)
    BY <2>1 DEF Receive
  <2>2. CASE Accept(c) \/ Reply(c) \/ Hangup(c)
    BY <2>2 DEF Accept, Reply, Hangup
  <2>3. ASSUME NEW reply, Answer(c, reply)
        PROVE  StampsInTime'
    BY <2>3 DEF Answer
  <2> QED BY <1>4, <2>1, <2>2, <2>3
          DEF Thread, Serve, IssueChallenge, AnswerWithoutRandomness, AnswerMalformed,
              AnswerRegister, AnswerChallengeRequest, AnswerNothingToSpend, AnswerBadProof,
              AnswerWrite, AnswerRead, AnswerDelete, Refuse
<1> QED BY <1>1, <1>2, <1>3, <1>4 DEF Next

(* The clock never runs back and the locked step leaves it alone.          *)
LEMMA ClockSteps ==
  ASSUME TypeOK, [Next]_vars
  PROVE  /\ clock' \in Nat /\ clock <= clock'
         /\ store' # store => clock' = clock
<1> USE DEF TypeOK, DaemonTypeOK
<1>1. CASE UNCHANGED vars
  BY <1>1 DEF vars
<1>2. CASE Tick \/ Restart
  BY <1>2 DEF Tick, Restart
<1>3. ASSUME NEW c \in Conn, Thread(c)
      PROVE  clock' = clock
  BY <1>3 DEF Thread, Accept, Receive, Reply, Hangup, Serve, IssueChallenge,
              AnswerWithoutRandomness, AnswerMalformed, AnswerRegister,
              AnswerChallengeRequest, AnswerNothingToSpend, AnswerBadProof, AnswerWrite,
              AnswerRead, AnswerDelete, Refuse, Answer
<1> QED BY <1>1, <1>2, <1>3 DEF Next

LEMMA CoveredStep ==
  ASSUME TypeOK, LateStampsCovered, [Next]_vars
  PROVE  Covered(store', clock')
<1>1. CASE store' = store
  BY <1>1, ClockSteps DEF LateStampsCovered, Covered, TypeOK, DaemonTypeOK, IsStore, QueueState, Entry
<1>2. CASE store' = EmptyStore
  BY <1>2 DEF EmptyStore, Covered
<1>3. ASSUME NEW c \in Conn, LockedStep(c), store' # store
      PROVE  Covered(store', clock')
  <2>1. /\ IsStore(Current(c))
        /\ conn[c].stamp \in Nat /\ clock \in Nat
        /\ conn[c].stamp <= clock /\ clock <= conn[c].stamp + Lag
        /\ clock' = clock
    BY <1>3, CurrentIsStore, AnsweringType, ClockSteps
       DEF LockedStep, LateStampsCovered, StampsInTime, TypeOK, DaemonTypeOK
  <2>2. Covered(Current(c), clock)
    BY ExpiredCovered DEF LateStampsCovered, Current
  <2>3. CASE \E q \in Queue, reg \in Registration :
               store' = Registered(Current(c), q, reg, conn[c].stamp)
    BY <2>1, <2>2, <2>3, RegisteredCovered
  <2>4. CASE \E q \in DOMAIN Current(c), b \in Blob :
               store' = Written(Current(c), q, b, conn[c].stamp)
    BY <2>1, <2>2, <2>4, WrittenCovered
  <2>5. CASE \E q \in DOMAIN Current(c), b \in Blob : store' = Deleted(Current(c), q, b)
    BY <2>1, <2>2, <2>5, DeletedCovered
  <2> QED BY <1>3, <2>1, <2>2, <2>3, <2>4, <2>5 DEF LockedStep
<1> QED BY <1>1, <1>2, <1>3, StoreSteps

(* Late stamps stay covered: StampsInTime is what Tick's bound gives, and  *)
(* Covered follows for each operation on the store.                        *)
THEOREM LateStampsAlwaysCovered == Spec => []LateStampsCovered
<1>1. Init => LateStampsCovered
  BY DEF Init, DaemonInit, LateStampsCovered, StampsInTime, Covered, EmptyStore
<1>2. TypeOK /\ LateStampsCovered /\ [Next]_vars => LateStampsCovered'
  BY StampsInTimeStep, CoveredStep DEF LateStampsCovered
<1> QED BY <1>1, <1>2, TypeCorrect, PTL DEF Spec

(* An accepted blob leaves its queue only by a delete that names it, by    *)
(* outliving BlobLife, or with the process, for every number of threads,   *)
(* clients and queues.                                                     *)
THEOREM BlobsKeptForTheirLife == Spec => NoUnexpiredLoss
<1>1. ASSUME TypeOK, LateStampsCovered, [Next]_vars,
             NEW q \in DOMAIN store, NEW e \in store[q].blobs
      PROVE  LeavesOnlyWhenDue(q, e)
  <2> SUFFICES ASSUME NEW c \in Conn, LockedStep(c), ~ (e.at + BlobLife < clock)
               PROVE  \/ q \in DOMAIN store' /\ e \in store'[q].blobs
                      \/ Deletes(c, q, e.blob)
    BY <1>1, StoreSteps DEF LeavesOnlyWhenDue
  <2>1. /\ IsStore(store) /\ IsStore(Current(c))
        /\ conn[c].stamp \in Nat /\ clock \in Nat
        /\ conn[c].stamp <= clock
        /\ Covered(store, clock)
    BY <1>1, CurrentIsStore, AnsweringType
       DEF LockedStep, LateStampsCovered, StampsInTime, TypeOK, DaemonTypeOK
  <2>2. q \in DOMAIN Current(c) /\ e \in Current(c)[q].blobs
    BY <1>1, <2>1, ExpiredKeepsLivingBlobs DEF Current
  <2>3. ASSUME NEW x \in Queue, NEW reg \in Registration,
               store' = Registered(Current(c), x, reg, conn[c].stamp)
        PROVE  q \in DOMAIN store' /\ e \in store'[q].blobs
    BY <2>2, <2>3 DEF Registered
  <2>4. ASSUME NEW x \in DOMAIN Current(c), NEW b \in Blob,
               store' = Written(Current(c), x, b, conn[c].stamp)
        PROVE  q \in DOMAIN store' /\ e \in store'[q].blobs
    BY <2>1, <2>2, <2>4 DEF Written, IsStore, QueueState
  <2>5. ASSUME NEW x \in DOMAIN Current(c), NEW b \in Blob,
               Deletes(c, x, b), store' = Deleted(Current(c), x, b)
        PROVE  (q \in DOMAIN store' /\ e \in store'[q].blobs) \/ Deletes(c, q, e.blob)
    BY <2>1, <2>2, <2>5 DEF Deleted, IsStore, QueueState
  <2> QED BY <2>2, <2>3, <2>4, <2>5 DEF LockedStep
<1>2. TypeOK /\ LateStampsCovered /\ [Next]_vars => [AllLeaveOnlyWhenDue]_vars
  BY <1>1 DEF AllLeaveOnlyWhenDue
<1> QED BY <1>2, TypeCorrect, LateStampsAlwaysCovered, PTL DEF Spec, NoUnexpiredLoss

(* A queue keeps its keys until it went QueueLife without a write: an      *)
(* operation leaves a live queue its registration, and expiry is the only  *)
(* way a queue stops being live.                                           *)
THEOREM KeysArePinned == Spec => KeysPinned
<1>1. ASSUME TypeOK, LateStampsCovered, [Next]_vars,
             NEW q \in DOMAIN store \cap DOMAIN store'
      PROVE  store'[q].registration = store[q].registration
             \/ store[q].lastWrite + QueueLife < clock
  <2> SUFFICES ASSUME NEW c \in Conn, LockedStep(c),
                      ~ (store[q].lastWrite + QueueLife < clock)
               PROVE  store'[q].registration = store[q].registration
    BY <1>1, StoreSteps DEF EmptyStore
  <2>1. /\ IsStore(store) /\ IsStore(Current(c))
        /\ conn[c].stamp \in Nat /\ clock \in Nat
        /\ conn[c].stamp <= clock
    BY <1>1, CurrentIsStore, AnsweringType
       DEF LockedStep, LateStampsCovered, StampsInTime, TypeOK, DaemonTypeOK
  <2>2. store[q].lastWrite \in Nat
    BY <2>1 DEF IsStore, QueueState
  <2>3. store[q].lastWrite + QueueLife >= conn[c].stamp
    BY <2>1, <2>2, LifeAssumption
  <2>4. q \in DOMAIN Current(c) /\ Current(c)[q].registration = store[q].registration
    BY <2>1, <2>3 DEF Current, Expired, IsStore, QueueState
  <2>5. ASSUME NEW x \in Queue, NEW reg \in Registration,
               store' = Registered(Current(c), x, reg, conn[c].stamp)
        PROVE  store'[q].registration = store[q].registration
    BY <2>4, <2>5 DEF Registered
  <2>6. ASSUME NEW x \in DOMAIN Current(c), NEW b \in Blob,
               \/ store' = Written(Current(c), x, b, conn[c].stamp)
               \/ store' = Deleted(Current(c), x, b)
        PROVE  store'[q].registration = store[q].registration
    BY <2>1, <2>4, <2>6 DEF Written, Deleted, IsStore, QueueState
  <2> QED BY <2>4, <2>5, <2>6 DEF LockedStep
<1>2. TypeOK /\ LateStampsCovered /\ [Next]_vars => [KeysChangeOnlyAfterLapse]_vars
  BY <1>1 DEF KeysChangeOnlyAfterLapse
<1> QED BY <1>2, TypeCorrect, LateStampsAlwaysCovered, PTL DEF Spec, KeysPinned

-----------------------------------------------------------------------------
(* The entries of a queue are a Vec. *)

(* No two entries have one number, and the next push takes a larger one.   *)
Numbered(s) ==
  \A q \in DOMAIN s :
    /\ \A e \in s[q].blobs : e.nth < s[q].pushed
    /\ \A e, f \in s[q].blobs : e.nth = f.nth => e = f

LEMMA ExpiredNumbered ==
  ASSUME NEW s, IsStore(s), Numbered(s), NEW now
  PROVE  Numbered(Expired(s, now))
<1> SUFFICES ASSUME NEW q \in DOMAIN Expired(s, now)
             PROVE  /\ Expired(s, now)[q].blobs \subseteq s[q].blobs
                    /\ Expired(s, now)[q].pushed = s[q].pushed
                    /\ q \in DOMAIN s
  BY DEF Numbered
<1>1. q \in DOMAIN s /\ Expired(s, now)[q] = [s[q] EXCEPT !.blobs = {e \in s[q].blobs : e.at + BlobLife >= now}]
  BY DEF Expired
<1>2. s[q] \in QueueState
  BY <1>1 DEF IsStore
<1> QED BY <1>1, <1>2 DEF QueueState

LEMMA RegisteredNumbered ==
  ASSUME NEW s, Numbered(s), NEW q, NEW reg, NEW now
  PROVE  Numbered(Registered(s, q, reg, now))
BY DEF Numbered, Registered

LEMMA WrittenNumbered ==
  ASSUME NEW s, IsStore(s), Numbered(s), NEW q \in DOMAIN s, NEW b, NEW now
  PROVE  Numbered(Written(s, q, b, now))
<1> DEFINE after == Written(s, q, b, now)
           pushed == [nth |-> s[q].pushed, blob |-> b, at |-> now]
<1>1. /\ DOMAIN after = DOMAIN s
      /\ after[q].blobs = s[q].blobs \cup {pushed} /\ after[q].pushed = s[q].pushed + 1
      /\ \A x \in DOMAIN s : x # q => after[x] = s[x]
  BY DEF Written
<1>2. /\ s[q].pushed \in Nat
      /\ \A e \in s[q].blobs : e.nth \in Nat /\ e.nth < s[q].pushed
  BY DEF IsStore, QueueState, Entry, Numbered
<1>3. pushed.nth = s[q].pushed
  OBVIOUS
<1> HIDE DEF after, pushed
<1>4. \A e \in after[q].blobs : e.nth < after[q].pushed
  BY <1>1, <1>2, <1>3
<1>5. \A e, f \in after[q].blobs : e.nth = f.nth => e = f
  BY <1>1, <1>2, <1>3 DEF Numbered
<1>6. Numbered(after)
  BY <1>1, <1>4, <1>5 DEF Numbered
<1> QED BY <1>6 DEF after

LEMMA DeletedNumbered ==
  ASSUME NEW s, IsStore(s), Numbered(s), NEW q \in DOMAIN s, NEW b
  PROVE  Numbered(Deleted(s, q, b))
BY DEF Numbered, Deleted, IsStore, QueueState

(* Whatever is written late, deleted out of order or expired in between,   *)
(* the entries of a queue stay in the order of their pushes: which blob a  *)
(* read hands out is never a matter of choice (read() and write() in       *)
(* store.rs).                                                              *)
THEOREM QueuesKeepTheirOrder == Spec => []Numbered(store)
<1>1. Init => Numbered(store)
  BY DEF Init, DaemonInit, EmptyStore, Numbered
<1>2. TypeOK /\ Numbered(store) /\ [Next]_vars => Numbered(store)'
  <2> SUFFICES ASSUME TypeOK, Numbered(store), [Next]_vars PROVE Numbered(store')
    OBVIOUS
  <2>1. CASE store' = store
    BY <2>1
  <2>2. CASE store' = EmptyStore
    BY <2>2 DEF EmptyStore, Numbered
  <2>3. ASSUME NEW c \in Conn, LockedStep(c) PROVE Numbered(store')
    <3>1. IsStore(Current(c)) /\ Numbered(Current(c))
      BY <2>3, CurrentIsStore, ExpiredNumbered DEF LockedStep, Current, TypeOK, DaemonTypeOK
    <3> QED BY <2>3, <3>1, RegisteredNumbered, WrittenNumbered, DeletedNumbered DEF LockedStep
  <2> QED BY <2>1, <2>2, <2>3, StoreSteps
<1> QED BY <1>1, <1>2, TypeCorrect, PTL DEF Spec

-----------------------------------------------------------------------------
(* A challenge is good once. *)

(* The invariant: what was never handed out was never accepted, what is    *)
(* outstanding was handed out for its queue and right and not yet          *)
(* accepted, and nothing was accepted twice.  The second part makes the    *)
(* map injective: a challenge's issue names its only possible key.         *)
ChallengeInv ==
  /\ \A ch \in Challenge \ DOMAIN issued : accepted[ch] = 0
  /\ OutstandingAsIssued
  /\ ChallengeGoodOnce

(* The ways the outstanding challenges and their histories change.         *)
Issues(c, fresh) ==
  LET r == conn[c].request IN
  /\ fresh \notin DOMAIN issued
  /\ r.queue \in Queue /\ r.right \in Right
  /\ challenges' = Outstanding(r.queue, r.right, fresh)
  /\ issued' = [ch \in DOMAIN issued \cup {fresh} |->
                  IF ch # fresh THEN issued[ch]
                  ELSE [queue |-> r.queue, right |-> r.right, conn |-> c]]
  /\ accepted' = accepted

Accepts(c) ==
  LET r == conn[c].request IN
  /\ ChallengeKey(r) \in DOMAIN challenges
  /\ r.proof.challenge = challenges[ChallengeKey(r)]
  /\ challenges' = Spent(r)
  /\ accepted' = [accepted EXCEPT ![r.proof.challenge] = @ + 1]
  /\ issued' = issued

LEMMA ChallengeSteps ==
  ASSUME TypeOK, [Next]_vars
  PROVE  \/ challenges' = challenges /\ Unrecorded
         \/ DOMAIN challenges' = {} /\ Unrecorded
         \/ (\E r : challenges' = Spent(r)) /\ Unrecorded
         \/ \E c \in Conn, fresh \in Challenge : Issues(c, fresh)
         \/ \E c \in Conn : Accepts(c)
<1>1. CASE UNCHANGED vars
  BY <1>1 DEF vars, Unrecorded
<1>2. CASE Tick /\ Unrecorded
  BY <1>2 DEF Tick
<1>3. CASE Restart /\ Unrecorded
  BY <1>3 DEF Restart
<1>4. ASSUME NEW c \in Conn, Thread(c)
      PROVE  \/ challenges' = challenges /\ Unrecorded
             \/ (\E r : challenges' = Spent(r)) /\ Unrecorded
             \/ \E fresh \in Challenge : Issues(c, fresh)
             \/ Accepts(c)
  <2>1. CASE /\ Unrecorded
             /\ \/ Accept(c) \/ (\E r \in Writable : Receive(c, r)) \/ Reply(c) \/ Hangup(c)
                \/ AnswerWithoutRandomness(c) \/ AnswerMalformed(c) \/ AnswerRegister(c)
                \/ AnswerNothingToSpend(c)
    BY <2>1 DEF Accept, Receive, Reply, Hangup, AnswerWithoutRandomness, AnswerMalformed,
                AnswerRegister, AnswerNothingToSpend
  <2>2. CASE AnswerBadProof(c) /\ Unrecorded
    BY <2>2 DEF AnswerBadProof
  <2>3. CASE IssueChallenge(c)
    <3>1. PICK fresh \in Challenge \ DOMAIN issued :
            /\ AnswerChallengeRequest(c, fresh)
            /\ issued' =
                 IF conn'[c].reply.kind # "Challenge" THEN issued
                 ELSE [ch \in DOMAIN issued \cup {fresh} |->
                         IF ch # fresh THEN issued[ch]
                         ELSE [queue |-> conn[c].request.queue,
                               right |-> conn[c].request.right, conn |-> c]]
            /\ UNCHANGED accepted
      BY <2>3 DEF IssueChallenge
    <3>2. conn[c].request.queue \in Queue /\ conn[c].request.right \in Right
      BY <3>1, AnsweringType, RequestFields DEF AnswerChallengeRequest, Answering
    <3>3. CASE Refuse(c, "UnknownQueue") /\ UNCHANGED challenges
      BY <3>1, <3>3 DEF Refuse, Answer, Unrecorded, TypeOK, DaemonTypeOK
    <3>4. CASE /\ Answer(c, [kind |-> "Challenge", challenge |-> fresh])
               /\ challenges' = Outstanding(conn[c].request.queue, conn[c].request.right, fresh)
      BY <3>1, <3>2, <3>4 DEF Issues, Answer, TypeOK, DaemonTypeOK
    <3> QED BY <3>1, <3>3, <3>4 DEF AnswerChallengeRequest
  <2>4. CASE Serve(c)
    BY <2>4 DEF Serve, AnswerWrite, AnswerRead, AnswerDelete, Spends, ProofGood, Verifies,
                Accepted, Accepts
  <2> QED BY <1>4, <2>1, <2>2, <2>3, <2>4 DEF Thread
<1> QED BY <1>1, <1>2, <1>3, <1>4 DEF Next

LEMMA ChallengeInvStep ==
  ASSUME TypeOK, ChallengeInv, [Next]_vars
  PROVE  ChallengeInv'
<1> USE DEF ChallengeInv, OutstandingAsIssued, ChallengeGoodOnce
<1>1. CASE challenges' = challenges /\ Unrecorded
  BY <1>1 DEF Unrecorded
<1>2. CASE DOMAIN challenges' = {} /\ Unrecorded
  BY <1>2 DEF Unrecorded
<1>3. CASE (\E r : challenges' = Spent(r)) /\ Unrecorded
  BY <1>3 DEF Unrecorded, Spent
<1>4. ASSUME NEW c \in Conn, NEW fresh \in Challenge, Issues(c, fresh)
      PROVE  ChallengeInv'
  <2> DEFINE r == conn[c].request
             k == <<r.queue, r.right>>
  <2>1. /\ fresh \notin DOMAIN issued /\ accepted[fresh] = 0 /\ accepted' = accepted
        /\ DOMAIN issued' = DOMAIN issued \cup {fresh}
        /\ \A ch \in DOMAIN issued : issued'[ch] = issued[ch]
        /\ issued'[fresh].queue = r.queue /\ issued'[fresh].right = r.right
    BY <1>4 DEF Issues
  <2>2. \A x \in DOMAIN challenges' :
          IF x = k THEN challenges'[x] = fresh
          ELSE x \in DOMAIN challenges /\ challenges'[x] = challenges[x]
    BY <1>4 DEF Issues, Outstanding
  <2>3. k[1] = r.queue /\ k[2] = r.right
    OBVIOUS
  <2> HIDE DEF r, k
  <2>4. OutstandingAsIssued'
    BY <2>1, <2>2, <2>3
  <2> QED BY <2>1, <2>4
<1>5. ASSUME NEW c \in Conn, Accepts(c)
      PROVE  ChallengeInv'
  <2> DEFINE r == conn[c].request
  <2> DEFINE used == challenges[ChallengeKey(r)]
  <2>1. /\ used \in DOMAIN issued /\ DOMAIN issued \subseteq Challenge
        /\ accepted[used] = 0
        /\ accepted' = [accepted EXCEPT ![used] = @ + 1]
        /\ accepted \in [Challenge -> Nat]
        /\ issued' = issued
        /\ challenges' = Spent(r)
    BY <1>5 DEF Accepts, TypeOK
  <2>2. \A k \in DOMAIN challenges' : k \in DOMAIN challenges /\ challenges'[k] = challenges[k]
                                     /\ k # ChallengeKey(r)
    BY <2>1 DEF Spent
  <2>3. \A k \in DOMAIN challenges' : challenges[k] # used
    <3> SUFFICES ASSUME NEW k \in DOMAIN challenges', challenges[k] = used
                 PROVE  FALSE
      OBVIOUS
    <3>1. /\ k \in DOMAIN challenges /\ ChallengeKey(r) \in DOMAIN challenges
          /\ k \in Queue \X Right /\ ChallengeKey(r) \in Queue \X Right
      BY <1>5, <2>2 DEF Accepts, TypeOK, DaemonTypeOK, IsChallenges
    <3>2. k[1] = ChallengeKey(r)[1] /\ k[2] = ChallengeKey(r)[2]
      BY <3>1
    <3> QED BY <2>2, <3>1, <3>2
  <2>4. (\A ch \in Challenge \ DOMAIN issued : accepted[ch] = 0)'
    BY <2>1
  <2>5. OutstandingAsIssued'
    BY <2>1, <2>2, <2>3
  <2>6. ChallengeGoodOnce'
    BY <2>1
  <2> QED BY <2>4, <2>5, <2>6
<1> QED BY <1>1, <1>2, <1>3, <1>4, <1>5, ChallengeSteps

(* No challenge ever carries two accepted proofs, and what is outstanding  *)
(* is outstanding as it was asked for.                                     *)
THEOREM ChallengesAreGoodOnce == Spec => [](ChallengeGoodOnce /\ OutstandingAsIssued)
<1>1. Init => ChallengeInv
  BY DEF Init, DaemonInit, ChallengeInv, OutstandingAsIssued, ChallengeGoodOnce
<1>2. TypeOK /\ ChallengeInv /\ [Next]_vars => ChallengeInv'
  BY ChallengeInvStep
<1>3. ChallengeInv => ChallengeGoodOnce /\ OutstandingAsIssued
  BY DEF ChallengeInv
<1> QED BY <1>1, <1>2, <1>3, TypeCorrect, PTL DEF Spec

(* A thread that takes or replaces a challenge answers a request for it.   *)
LEMMA AnsweringCalls ==
  ASSUME TypeOK, NEW c \in Conn, NEW reply, Answer(c, reply),
         conn[c].phase = "answering", NEW k,
         \/ conn[c].request.kind \in {"Write", "Read", "Delete"} /\ ChallengeKey(conn[c].request) = k
         \/ /\ conn[c].request.kind = "ChallengeRequest"
            /\ <<conn[c].request.queue, conn[c].request.right>> = k
  PROVE  CalledFor(k)
<1>1. conn'[c].phase = "replied"
  BY DEF Answer, TypeOK, DaemonTypeOK
<1> QED BY <1>1 DEF CalledFor

LEMMA SpendingKeepsTheRest ==
  ASSUME TypeOK, NEW c \in Conn, NEW reply, Answer(c, reply), Spends(c),
         challenges' = Spent(conn[c].request), NEW k \in DOMAIN challenges
  PROVE  \/ k \in DOMAIN challenges' /\ challenges'[k] = challenges[k]
         \/ CalledFor(k)
<1>1. conn[c].phase = "answering" /\ conn[c].request.kind \in {"Write", "Read", "Delete"}
  BY DEF Spends, Answering
<1>2. CASE ChallengeKey(conn[c].request) = k
  BY <1>1, <1>2, AnsweringCalls
<1>3. CASE ChallengeKey(conn[c].request) # k
  BY <1>3 DEF Spent
<1> QED BY <1>2, <1>3

LEMMA IssuingKeepsTheRest ==
  ASSUME TypeOK, NEW c \in Conn, NEW fresh, AnswerChallengeRequest(c, fresh),
         NEW k \in DOMAIN challenges
  PROVE  \/ k \in DOMAIN challenges' /\ challenges'[k] = challenges[k]
         \/ CalledFor(k)
<1> DEFINE asked == <<conn[c].request.queue, conn[c].request.right>>
<1>1. conn[c].phase = "answering" /\ conn[c].request.kind = "ChallengeRequest"
  BY DEF AnswerChallengeRequest, Answering
<1>2. \E reply : Answer(c, reply)
  BY DEF AnswerChallengeRequest, Refuse
<1>3. \/ challenges' = challenges
      \/ challenges' = [x \in DOMAIN challenges \cup {asked} |->
                         IF x = asked THEN fresh ELSE challenges[x]]
  BY DEF AnswerChallengeRequest, Outstanding
<1>4. CASE asked = k
  BY <1>1, <1>2, <1>4, AnsweringCalls
<1>5. CASE asked # k
  <2> HIDE DEF asked
  <2> QED BY <1>3, <1>5
<1> QED BY <1>4, <1>5

LEMMA ThreadKeepsChallenges ==
  ASSUME TypeOK, NEW c \in Conn, Thread(c), NEW k \in DOMAIN challenges
  PROVE  \/ k \in DOMAIN challenges' /\ challenges'[k] = challenges[k]
         \/ CalledFor(k)
<1>1. CASE \/ Accept(c) \/ (\E r \in Writable : Receive(c, r)) \/ Reply(c) \/ Hangup(c)
           \/ AnswerWithoutRandomness(c) \/ AnswerMalformed(c) \/ AnswerRegister(c)
           \/ AnswerNothingToSpend(c)
  BY <1>1 DEF Accept, Receive, Reply, Hangup, AnswerWithoutRandomness, AnswerMalformed,
              AnswerRegister, AnswerNothingToSpend
<1>2. CASE AnswerBadProof(c) \/ AnswerWrite(c) \/ AnswerRead(c) \/ AnswerDelete(c)
  <2>1. Spends(c) /\ challenges' = Spent(conn[c].request)
    BY <1>2 DEF AnswerBadProof, AnswerWrite, AnswerRead, AnswerDelete
  <2>2. \E reply : Answer(c, reply)
    BY <1>2 DEF AnswerBadProof, AnswerWrite, AnswerRead, AnswerDelete, Refuse
  <2> QED BY <2>1, <2>2, SpendingKeepsTheRest
<1>3. CASE IssueChallenge(c)
  BY <1>3, IssuingKeepsTheRest DEF IssueChallenge
<1> QED BY <1>1, <1>2, <1>3 DEF Thread, Serve

(* A challenge stays until it is called for: no request for another queue  *)
(* or another right takes it, no expiry and no connection that ends.       *)
THEOREM ChallengesKeptUntilCalledFor == Spec => ChallengeKeptUntilCalledFor
<1>1. TypeOK /\ [Next]_vars => [AllKeptUntilCalledFor]_vars
  <2> SUFFICES ASSUME TypeOK, Next, NEW k \in DOMAIN challenges
               PROVE  \/ k \in DOMAIN challenges' /\ challenges'[k] = challenges[k]
                      \/ CalledFor(k)
                      \/ starts' # starts
    BY DEF AllKeptUntilCalledFor
  <2>1. CASE Tick
    BY <2>1 DEF Tick
  <2>2. CASE Restart
    BY <2>2 DEF Restart, TypeOK, DaemonTypeOK
  <2>3. ASSUME NEW c \in Conn, Thread(c)
        PROVE  \/ k \in DOMAIN challenges' /\ challenges'[k] = challenges[k]
               \/ CalledFor(k)
    BY <2>3, ThreadKeepsChallenges
  <2> QED BY <2>1, <2>2, <2>3 DEF Next
<1> QED BY <1>1, TypeCorrect, PTL DEF Spec, ChallengeKeptUntilCalledFor
-----------------------------------------------------------------------------
(* The relay is a Mailbox. *)

(* An answer of the daemon tells the client of the Mailbox.                *)
LEMMA AnswerTells ==
  ASSUME TypeOK, NEW c \in Conn, NEW reply, conn[c].phase = "answering", Answer(c, reply)
  PROVE  Promise!Told(c, ToldOf(reply))
<1>1. conn \in [Conn -> ConnState]
  BY DEF TypeOK, DaemonTypeOK
<1>2. conn' = [conn EXCEPT ![c] = [phase |-> "replied", reply |-> reply]]
  BY DEF Answer
<1>3. CallOf([phase |-> "replied", reply |-> reply]) = [phase |-> "told", what |-> ToldOf(reply)]
  BY DEF CallOf
<1> QED BY <1>1, <1>2, <1>3 DEF Promise!Told

(* What expiry leaves at a stamp in time is something a Mailbox may keep:  *)
(* the posts that go are due, and so is all that a lapsed queue held.      *)
LEMMA ExpiredMayBeKept ==
  ASSUME IsStore(store), clock \in Nat, Covered(store, clock),
         NEW now \in Nat, now <= clock
  PROVE  BoxOf(Expired(store, now)) \in Promise!Kept
<1> DEFINE gone == {p \in Promise!Posts : p.at + BlobLife < now}
           closed == {q \in DOMAIN store : store[q].lastWrite + QueueLife < now}
           left == Expired(store, now)
<1>1. \A q \in DOMAIN store :
        /\ store[q] \in QueueState
        /\ BoxOf(store)[q] = [keys |-> store[q].registration, posts |-> store[q].blobs,
                              put |-> store[q].pushed]
        /\ BoxOf(store)[q].posts = store[q].blobs
        /\ store[q].lastWrite \in Nat
  BY DEF BoxOf, IsStore, QueueState
<1>2. \A q \in DOMAIN store : \A p \in store[q].blobs :
        p.at \in Nat /\ p.at <= store[q].lastWrite + Lag
  BY DEF IsStore, QueueState, Entry, Covered
<1>3. DOMAIN BoxOf(store) = DOMAIN store
  BY DEF BoxOf
<1>4. Promise!Posts = UNION {store[q].blobs : q \in DOMAIN store}
  BY <1>1, <1>3 DEF Promise!Posts
<1>5. \A p \in Promise!Posts : p.at \in Nat
  BY <1>2, <1>4
<1>6. gone \in SUBSET {p \in Promise!Posts : Promise!Due(p)}
  BY <1>5, LifeAssumption DEF Promise!Due
<1>7. closed \in SUBSET {q \in DOMAIN BoxOf(store) :
                          \A p \in BoxOf(store)[q].posts : Promise!Due(p)}
  <2> SUFFICES ASSUME NEW q \in DOMAIN store, store[q].lastWrite + QueueLife < now,
                      NEW p \in store[q].blobs
               PROVE  p.at + BlobLife < clock
    BY <1>1, <1>3 DEF Promise!Due
  <2>1. store[q].lastWrite \in Nat /\ p.at \in Nat /\ p.at <= store[q].lastWrite + Lag
    BY <1>1, <1>2
  <2> QED BY <2>1, LagAssumption, LifeAssumption
<1>8. BoxOf(left) = Promise!Without(gone, closed)
  <2>1. DOMAIN left = DOMAIN store \ closed
    <3>1. \A q \in DOMAIN store :
            store[q].lastWrite + QueueLife >= now <=> ~(store[q].lastWrite + QueueLife < now)
      <4> SUFFICES ASSUME NEW q \in DOMAIN store
                   PROVE  store[q].lastWrite + QueueLife >= now
                            <=> ~(store[q].lastWrite + QueueLife < now)
        OBVIOUS
      <4> HIDE DEF gone, closed, left
      <4>1. store[q].lastWrite \in Nat
        BY <1>1
      <4> QED BY <4>1, LifeAssumption
    <3> QED BY <3>1 DEF Expired
  <2>2. ASSUME NEW q \in DOMAIN store \ closed
        PROVE  /\ left[q].registration = store[q].registration
               /\ left[q].pushed = store[q].pushed
               /\ left[q].blobs = store[q].blobs \ gone
    <3>1. q \in DOMAIN left
      BY <2>1
    <3>2. left[q] = [store[q] EXCEPT !.blobs = {e \in @ : e.at + BlobLife >= now}]
      BY <3>1 DEF Expired
    <3>3. \A e \in store[q].blobs : e.at + BlobLife >= now <=> e \notin gone
      BY <1>2, <1>4, LifeAssumption
    <3>4. {e \in store[q].blobs : e.at + BlobLife >= now} = store[q].blobs \ gone
      BY <3>3
    <3> QED BY <1>1, <3>2, <3>4 DEF QueueState
  <2>3. \A q \in DOMAIN store \ closed :
          [BoxOf(store)[q] EXCEPT !.posts = @ \ gone]
            = [keys |-> store[q].registration, posts |-> store[q].blobs \ gone,
               put |-> store[q].pushed]
    <3> HIDE DEF gone, closed
    <3> SUFFICES ASSUME NEW q \in DOMAIN store
                 PROVE  [BoxOf(store)[q] EXCEPT !.posts = @ \ gone]
                          = [keys |-> store[q].registration,
                             posts |-> store[q].blobs \ gone, put |-> store[q].pushed]
      OBVIOUS
    <3> DEFINE old == BoxOf(store)[q]
    <3>1. old = [keys |-> store[q].registration, posts |-> store[q].blobs,
                 put |-> store[q].pushed]
      BY <1>1
    <3> HIDE DEF old
    <3>2. [old EXCEPT !.posts = @ \ gone]
            = [keys |-> store[q].registration, posts |-> store[q].blobs \ gone,
               put |-> store[q].pushed]
      BY <3>1
    <3> QED BY <3>2 DEF old
  <2>4. BoxOf(left) = [q \in DOMAIN store \ closed |->
                        [keys |-> store[q].registration, posts |-> store[q].blobs \ gone,
                         put |-> store[q].pushed]]
    <3> HIDE DEF gone, closed, left
    <3> QED BY <2>1, <2>2 DEF BoxOf
  <2>5. Promise!Without(gone, closed)
          = [q \in DOMAIN store \ closed |-> [BoxOf(store)[q] EXCEPT !.posts = @ \ gone]]
    <3> HIDE DEF gone, closed
    <3> QED BY <1>3 DEF Promise!Without
  <2> HIDE DEF gone, closed, left
  <2> QED BY <2>3, <2>4, <2>5
<1> HIDE DEF gone, closed, left
<1>9. BoxOf(left) \in Promise!Kept
  BY <1>6, <1>7, <1>8 DEF Promise!Kept
<1> QED BY <1>9 DEF left

LEMMA CurrentMayBeKept ==
  ASSUME TypeOK, LateStampsCovered, NEW c \in Conn, conn[c].phase = "answering"
  PROVE  BoxOf(Current(c)) \in Promise!Kept
BY AnsweringType, ExpiredMayBeKept
   DEF TypeOK, DaemonTypeOK, LateStampsCovered, StampsInTime, Current

LEMMA StoreMayBeKept ==
  ASSUME IsStore(store)
  PROVE  BoxOf(store) \in Promise!Kept
<1>1. BoxOf(store) = Promise!Without({}, {})
  <2>1. \A q \in DOMAIN store : [BoxOf(store)[q] EXCEPT !.posts = @ \ {}] = BoxOf(store)[q]
    <3> SUFFICES ASSUME NEW q \in DOMAIN store
                 PROVE  [BoxOf(store)[q] EXCEPT !.posts = @ \ {}] = BoxOf(store)[q]
      OBVIOUS
    <3> DEFINE old == BoxOf(store)[q]
    <3>1. old = [keys |-> store[q].registration, posts |-> store[q].blobs,
                 put |-> store[q].pushed]
      BY DEF BoxOf
    <3> HIDE DEF old
    <3>2. [old EXCEPT !.posts = @ \ {}] = old
      BY <3>1
    <3> QED BY <3>2 DEF old
  <2>2. Promise!Without({}, {}) = [q \in DOMAIN store |-> BoxOf(store)[q]]
    BY <2>1 DEF Promise!Without, BoxOf
  <2> QED BY <2>2 DEF BoxOf
<1> QED BY <1>1 DEF Promise!Kept

(* Both count what a queue holds the same way.                             *)
LEMMA SameWeight ==
  ASSUME NEW s, NEW q \in DOMAIN s
  PROVE  Promise!Weight(BoxOf(s)[q].posts) = Held(s, q)
<1>1. BoxOf(s)[q].posts = s[q].blobs
  BY DEF BoxOf
<1> QED BY <1>1 DEF Promise!Weight, Held, MapThenSumSet, Promise!MapThenSumSet,
                    MapThenFoldSet, Promise!MapThenFoldSet

(* The oldest entry is the first post.                                     *)
LEMMA SameFirst ==
  ASSUME NEW s, NEW q \in DOMAIN s
  PROVE  Promise!First(BoxOf(s)[q].posts) = Oldest(s, q)
<1>1. BoxOf(s)[q].posts = s[q].blobs
  BY DEF BoxOf
<1> QED BY <1>1 DEF Promise!First, Oldest

(* A request that comes in is one the Mailbox knows.                       *)
LEMMA AskedIsAsking ==
  ASSUME NEW r \in Request
  PROVE  AskedOf(r) \in Promise!Asking
<1>1. CASE r \in [kind : {"Register"}, queue : Queue, registration : Registration]
  BY <1>1 DEF AskedOf, Promise!Asking
<1>2. CASE r \in [kind : {"ChallengeRequest"}, queue : Queue, right : Right]
  BY <1>2 DEF AskedOf, Promise!Asking
<1>3. CASE r \in [kind : {"Write"}, queue : Queue, proof : Proof, blob : Blob]
  BY <1>3 DEF AskedOf, Promise!Asking, Proof
<1>4. CASE r \in [kind : {"Read"}, queue : Queue, proof : Proof]
  BY <1>4 DEF AskedOf, Promise!Asking, Proof
<1>5. CASE r \in [kind : {"Delete"}, queue : Queue, proof : Proof, blob : Blob]
  BY <1>5 DEF AskedOf, Promise!Asking, Proof
<1>6. CASE r \in [kind : {"Malformed"}]
  BY <1>6 DEF AskedOf, Promise!Asking
<1> QED BY <1>1, <1>2, <1>3, <1>4, <1>5, <1>6 DEF Request

(* An answer that says nothing was done.                                   *)
LEMMA DeclineStep ==
  ASSUME TypeOK, NEW c \in Conn, conn[c].phase = "answering",
         NEW reply, reply.kind \in {"Empty", "Challenge", "Refused"}, Answer(c, reply),
         BoxOf(store') \in Promise!Kept
  PROVE  Promise!Decline(c)
<1>1. Promise!Told(c, [kind |-> reply.kind])
  BY AnswerTells DEF ToldOf
<1>2. conn[c].phase = "answering" /\ c \in Conn
  OBVIOUS
<1>3. CallOf(conn[c]).phase = "asked"
  BY DEF CallOf
<1>4. clock' = clock
  BY DEF Answer
<1> QED BY <1>1, <1>3, <1>4 DEF Promise!Decline

(* What a good proof shows: the request was signed with the registered key *)
(* of the right it needs.                                                  *)
LEMMA GoodProofKey ==
  ASSUME NEW c, ProofGood(c), conn[c].request.queue \in DOMAIN Current(c)
  PROVE  LET r == conn[c].request
             keys == BoxOf(Current(c))[r.queue].keys
         IN  r.proof.key = IF RightFor(r) = "Write" THEN keys.write ELSE keys.read
BY DEF ProofGood, Verifies, BoxOf

LEMMA OpenStep ==
  ASSUME TypeOK, LateStampsCovered, NEW c \in Conn, AnswerRegister(c)
  PROVE  Promise!Open(c)
<1> DEFINE r == conn[c].request
           kept == BoxOf(Current(c))
<1>1. conn[c].phase = "answering" /\ r.kind = "Register"
  BY DEF AnswerRegister, Answering
<1>2. CallOf(conn[c]) = [phase |-> "asked", what |-> r]
  BY <1>1 DEF CallOf, AskedOf
<1>3. Promise!Told(c, [kind |-> "Ok"])
  BY <1>1, AnswerTells DEF AnswerRegister, ToldOf
<1>4. kept \in Promise!Kept
  BY <1>1, CurrentMayBeKept
<1>5. BoxOf(store') = IF r.queue \in DOMAIN kept THEN kept
                      ELSE [q \in DOMAIN kept \cup {r.queue} |->
                              IF q \in DOMAIN kept THEN kept[q]
                              ELSE [keys |-> r.registration, posts |-> {}, put |-> 0]]
  <2>1. store' = Registered(Current(c), r.queue, r.registration, conn[c].stamp)
    BY DEF AnswerRegister
  <2>2. DOMAIN kept = DOMAIN Current(c) /\ DOMAIN store' = DOMAIN kept \cup {r.queue}
    BY <2>1 DEF BoxOf, Registered
  <2>3. \A q \in DOMAIN store' :
          store'[q] = IF q \in DOMAIN kept THEN Current(c)[q]
                      ELSE [registration |-> r.registration, blobs |-> {},
                            lastWrite |-> conn[c].stamp, pushed |-> 0]
    BY <2>1, <2>2 DEF Registered
  <2>4. \A q \in DOMAIN kept :
          kept[q] = [keys |-> Current(c)[q].registration, posts |-> Current(c)[q].blobs,
                     put |-> Current(c)[q].pushed]
    BY DEF BoxOf
  <2>5. BoxOf(store') = [q \in DOMAIN kept \cup {r.queue} |->
                          IF q \in DOMAIN kept THEN kept[q]
                          ELSE [keys |-> r.registration, posts |-> {}, put |-> 0]]
    <3> HIDE DEF kept
    <3>1. \A q \in DOMAIN store' :
            [keys |-> store'[q].registration, posts |-> store'[q].blobs,
             put |-> store'[q].pushed]
              = IF q \in DOMAIN kept THEN kept[q]
                ELSE [keys |-> r.registration, posts |-> {}, put |-> 0]
      <4> SUFFICES ASSUME NEW q \in DOMAIN store'
                   PROVE  [keys |-> store'[q].registration, posts |-> store'[q].blobs,
                           put |-> store'[q].pushed]
                            = IF q \in DOMAIN kept THEN kept[q]
                              ELSE [keys |-> r.registration, posts |-> {}, put |-> 0]
        OBVIOUS
      <4>1. CASE q \in DOMAIN kept
        <5>1. store'[q] = Current(c)[q]
          BY <2>3, <4>1
        <5> QED BY <2>4, <4>1, <5>1
      <4>2. CASE q \notin DOMAIN kept
        <5>1. store'[q] = [registration |-> r.registration, blobs |-> {},
                           lastWrite |-> conn[c].stamp, pushed |-> 0]
          BY <2>3, <4>2
        <5> QED BY <4>2, <5>1
      <4> QED BY <4>1, <4>2
    <3> QED BY <2>2, <3>1 DEF BoxOf
  <2>6. CASE r.queue \in DOMAIN kept
    <3>1. kept = [q \in DOMAIN kept |-> kept[q]]
      BY DEF BoxOf
    <3> HIDE DEF kept
    <3> QED BY <2>5, <2>6, <3>1
  <2> QED BY <2>5, <2>6
<1>6. clock' = clock
  BY DEF AnswerRegister, Answer
<1> DEFINE asked == [d \in Conn |-> CallOf(conn[d])][c]
<1>7. asked.phase = "asked" /\ asked.what = r
  BY <1>2
<1> HIDE DEF asked, kept
<1>8. asked.what.kind = "Register"
  BY <1>1, <1>7
<1>9. BoxOf(store') = IF asked.what.queue \in DOMAIN kept THEN kept
                      ELSE [q \in DOMAIN kept \cup {asked.what.queue} |->
                              IF q \in DOMAIN kept THEN kept[q]
                              ELSE [keys |-> asked.what.registration, posts |-> {}, put |-> 0]]
  BY <1>5, <1>7
<1> QED BY <1>3, <1>4, <1>6, <1>7, <1>8, <1>9 DEF Promise!Open, Promise!Asked, asked

LEMMA WriteStep ==
  ASSUME TypeOK, LateStampsCovered, NEW c \in Conn, AnswerWrite(c)
  PROVE  Promise!Put(c) \/ Promise!Decline(c)
<1> DEFINE r == conn[c].request
           kept == BoxOf(Current(c))
           q == r.queue
<1>1. conn[c].phase = "answering" /\ r.kind = "Write" /\ q \in DOMAIN Current(c)
  BY DEF AnswerWrite, Answering, Spends
<1>2. kept \in Promise!Kept /\ q \in DOMAIN kept
  BY <1>1, CurrentMayBeKept DEF BoxOf
<1>3. CASE store' = Current(c) /\ \E why : Refuse(c, why)
  BY <1>1, <1>2, <1>3, DeclineStep DEF Refuse
<1>4. CASE /\ Fits(Current(c), q, r.blob)
           /\ Answer(c, [kind |-> "Ok"])
           /\ store' = Written(Current(c), q, r.blob, conn[c].stamp)
  <2>1. CallOf(conn[c]) = [phase |-> "asked",
          what |-> [kind |-> "Write", queue |-> q, by |-> r.proof.key, blob |-> r.blob]]
    BY <1>1 DEF CallOf, AskedOf
  <2>2. r.proof.key = kept[q].keys.write
    BY <1>1, GoodProofKey DEF AnswerWrite, RightFor
  <2>3. Promise!Weight(kept[q].posts) + Size[r.blob] <= MaxQueueLen
    BY <1>1, <1>4, SameWeight DEF Fits
  <2>4. conn[c].stamp \in {t \in 0..clock : clock <= t + Lag}
    BY <1>1, AnsweringType DEF LateStampsCovered, StampsInTime, TypeOK, DaemonTypeOK
  <2>5. BoxOf(store') = [kept EXCEPT ![q] =
          [keys |-> kept[q].keys,
           posts |-> kept[q].posts
                       \cup {[nth |-> kept[q].put, blob |-> r.blob, at |-> conn[c].stamp]},
           put |-> kept[q].put + 1]]
    BY <1>1, <1>4 DEF BoxOf, Written
  <2>6. Promise!Told(c, [kind |-> "Ok"])
    BY <1>1, <1>4, AnswerTells DEF ToldOf
  <2>7. clock' = clock
    BY <1>4 DEF Answer
  <2>8. Promise!Put(c)
    <3> DEFINE asked == [d \in Conn |-> CallOf(conn[d])][c]
    <3>1. /\ asked.phase = "asked" /\ asked.what.kind = "Write" /\ asked.what.queue = q
          /\ asked.what.by = r.proof.key /\ asked.what.blob = r.blob
      BY <2>1
    <3> HIDE DEF asked
    <3>2. /\ asked.what.queue \in DOMAIN kept
          /\ asked.what.by = kept[asked.what.queue].keys.write
          /\ Promise!Weight(kept[asked.what.queue].posts) + Size[asked.what.blob] <= MaxQueueLen
      BY <1>2, <2>2, <2>3, <3>1
    <3>3. BoxOf(store') = [kept EXCEPT ![asked.what.queue] =
            [keys |-> kept[asked.what.queue].keys,
             posts |-> kept[asked.what.queue].posts
                         \cup {[nth |-> kept[asked.what.queue].put,
                               blob |-> asked.what.blob, at |-> conn[c].stamp]},
             put |-> kept[asked.what.queue].put + 1]]
      BY <2>5, <3>1
    <3> HIDE DEF kept
    <3> QED BY <1>2, <2>4, <2>6, <2>7, <3>1, <3>2, <3>3 DEF Promise!Put, Promise!Asked, asked
  <2> QED BY <2>8
<1> QED BY <1>3, <1>4 DEF AnswerWrite

LEMMA ReadStep ==
  ASSUME TypeOK, LateStampsCovered, NEW c \in Conn, AnswerRead(c)
  PROVE  Promise!Read(c) \/ Promise!Decline(c)
<1> DEFINE r == conn[c].request
           kept == BoxOf(Current(c))
           q == r.queue
<1>1. /\ conn[c].phase = "answering" /\ r.kind = "Read" /\ q \in DOMAIN Current(c)
      /\ store' = Current(c)
  BY DEF AnswerRead, Answering, Spends
<1>2. kept \in Promise!Kept /\ q \in DOMAIN kept /\ kept[q].posts = Current(c)[q].blobs
  BY <1>1, CurrentMayBeKept DEF BoxOf
<1>3. CASE Answer(c, [kind |-> "Empty"])
  BY <1>1, <1>2, <1>3, DeclineStep
<1>4. CASE /\ Current(c)[q].blobs # {}
           /\ Answer(c, [kind |-> "Blob", blob |-> Oldest(Current(c), q).blob])
  <2>1. CallOf(conn[c]) = [phase |-> "asked",
          what |-> [kind |-> "Read", queue |-> q, by |-> r.proof.key]]
    BY <1>1 DEF CallOf, AskedOf
  <2>2. r.proof.key = kept[q].keys.read
    BY <1>1, GoodProofKey DEF AnswerRead, RightFor
  <2>3. Promise!Told(c, [kind |-> "Blob", blob |-> Promise!First(kept[q].posts).blob])
    <3> DEFINE reply == [kind |-> "Blob", blob |-> Oldest(Current(c), q).blob]
    <3>1. Promise!Told(c, reply)
      <4>1. ToldOf(reply) = reply
        BY DEF ToldOf
      <4>2. Answer(c, reply)
        BY <1>4
      <4> HIDE DEF reply
      <4> QED BY <1>1, <4>1, <4>2, AnswerTells
    <3>2. Oldest(Current(c), q) = Promise!First(kept[q].posts)
      BY <1>1, SameFirst
    <3> QED BY <3>1, <3>2
  <2>4. BoxOf(store') = kept /\ kept[q].posts # {} /\ clock' = clock
    BY <1>1, <1>2, <1>4 DEF Answer
  <2>5. Promise!Read(c)
    <3> DEFINE asked == [d \in Conn |-> CallOf(conn[d])][c]
    <3>1. /\ asked.phase = "asked" /\ asked.what.kind = "Read" /\ asked.what.queue = q
          /\ asked.what.by = r.proof.key
      BY <2>1
    <3> HIDE DEF kept, q, r, asked
    <3> QED BY <1>2, <2>2, <2>3, <2>4, <3>1 DEF Promise!Read, Promise!Asked, asked
  <2> QED BY <2>5
<1> QED BY <1>3, <1>4 DEF AnswerRead

LEMMA DeleteStep ==
  ASSUME TypeOK, LateStampsCovered, NEW c \in Conn, AnswerDelete(c)
  PROVE  Promise!Take(c)
<1> DEFINE r == conn[c].request
           kept == BoxOf(Current(c))
           q == r.queue
<1>1. conn[c].phase = "answering" /\ r.kind = "Delete" /\ q \in DOMAIN Current(c)
  BY DEF AnswerDelete, Answering, Spends
<1>2. kept \in Promise!Kept /\ q \in DOMAIN kept
  BY <1>1, CurrentMayBeKept DEF BoxOf
<1>3. CallOf(conn[c]) = [phase |-> "asked",
        what |-> [kind |-> "Delete", queue |-> q, by |-> r.proof.key, blob |-> r.blob]]
  BY <1>1 DEF CallOf, AskedOf
<1>4. r.proof.key = kept[q].keys.read
  BY <1>1, GoodProofKey DEF AnswerDelete, RightFor
<1>5. BoxOf(store') = [kept EXCEPT ![q].posts = {p \in @ : p.blob # r.blob}]
  <2>1. Current(c)[q] \in QueueState
    BY <1>1, CurrentIsStore DEF IsStore
  <2>2. store' = [Current(c) EXCEPT ![q] =
          [Current(c)[q] EXCEPT !.blobs = {e \in @ : e.blob # r.blob}]]
    BY DEF AnswerDelete, Deleted
  <2> QED BY <1>1, <2>1, <2>2 DEF BoxOf, QueueState
<1>6. Promise!Told(c, [kind |-> "Ok"])
  BY <1>1, AnswerTells DEF AnswerDelete, ToldOf
<1>7. clock' = clock
  BY DEF AnswerDelete, Answer
<1> DEFINE asked == [d \in Conn |-> CallOf(conn[d])][c]
<1>8. /\ asked.phase = "asked" /\ asked.what.kind = "Delete" /\ asked.what.queue = q
      /\ asked.what.by = r.proof.key /\ asked.what.blob = r.blob
  BY <1>3
<1> HIDE DEF asked
<1>9. /\ asked.what.queue \in DOMAIN kept
      /\ asked.what.by = kept[asked.what.queue].keys.read
      /\ BoxOf(store') = [kept EXCEPT ![asked.what.queue].posts =
                            {p \in @ : p.blob # asked.what.blob}]
  BY <1>2, <1>4, <1>5, <1>8
<1> HIDE DEF kept
<1> QED BY <1>2, <1>6, <1>7, <1>8, <1>9 DEF Promise!Take, Promise!Asked, asked

(* The steps of a thread, each a step of the Mailbox or none.              *)
LEMMA ThreadIsAMailboxStep ==
  ASSUME TypeOK, LateStampsCovered, NEW c \in Conn, Thread(c)
  PROVE  Promise!Next \/ UNCHANGED Promise!vars
<1>1. conn \in [Conn -> ConnState] /\ IsStore(store)
  BY DEF TypeOK, DaemonTypeOK
<1>2. CASE Accept(c)
  <2>1. \A d \in Conn : CallOf(conn'[d]) = CallOf(conn[d])
    BY <1>1, <1>2 DEF Accept, CallOf
  <2> QED BY <1>2, <2>1 DEF Accept, Promise!vars
<1>3. CASE \E r \in Writable : Receive(c, r)
  <2>1. PICK r \in Writable, t \in Nat :
          /\ conn[c].phase = "reading"
          /\ conn' = [conn EXCEPT ![c] = [phase |-> "answering", request |-> r, stamp |-> t]]
          /\ UNCHANGED <<store, challenges, clock, starts>>
    <3>1. \A t \in 0..clock : t \in Nat
      BY DEF TypeOK, DaemonTypeOK
    <3> QED BY <1>3, <3>1 DEF Receive
  <2>2. AskedOf(r) \in Promise!Asking
    BY AskedIsAsking DEF Writable
  <2>3. CallOf(conn[c]).phase = "idle"
    BY <2>1 DEF CallOf
  <2>4. CallOf([phase |-> "answering", request |-> r, stamp |-> t])
          = [phase |-> "asked", what |-> AskedOf(r)]
    BY DEF CallOf
  <2>5. Promise!Ask(c)
    BY <1>1, <2>1, <2>2, <2>3, <2>4 DEF Promise!Ask
  <2> QED BY <2>5 DEF Promise!Next
<1>4. CASE Reply(c) \/ Hangup(c)
  <2>1. PICK phase \in {"reading", "closed"} :
          /\ conn[c].phase \in {"reading", "replied"}
          /\ conn' = [conn EXCEPT ![c] = [phase |-> phase]]
          /\ UNCHANGED <<store, clock>>
    BY <1>4 DEF Reply, Hangup
  <2>2. CallOf([phase |-> phase]) = [phase |-> "idle"]
    BY <2>1 DEF CallOf
  <2>3. CASE conn[c].phase = "reading"
    <3>1. CallOf(conn[c]) = [phase |-> "idle"]
      BY <2>3 DEF CallOf
    <3>2. \A d \in Conn : CallOf(conn'[d]) = CallOf(conn[d])
      BY <1>1, <2>1, <2>2, <3>1
    <3> QED BY <2>1, <3>2 DEF Promise!vars
  <2>4. CASE conn[c].phase = "replied"
    <3>1. CallOf(conn[c]).phase = "told"
      BY <2>4 DEF CallOf
    <3>2. Promise!Settle(c)
      BY <1>1, <2>1, <2>2, <3>1 DEF Promise!Settle
    <3> QED BY <3>2 DEF Promise!Next
  <2> QED BY <2>1, <2>3, <2>4
<1>5. CASE AnswerWithoutRandomness(c)
  <2>1. BoxOf(store') \in Promise!Kept
    BY <1>1, <1>5, StoreMayBeKept DEF AnswerWithoutRandomness
  <2>2. Promise!Decline(c)
    BY <1>5, <2>1, DeclineStep DEF AnswerWithoutRandomness
  <2> QED BY <2>2 DEF Promise!Next
<1>6. CASE AnswerMalformed(c) \/ AnswerNothingToSpend(c) \/ AnswerBadProof(c) \/ IssueChallenge(c)
  <2>1. conn[c].phase = "answering" /\ store' = Current(c)
    BY <1>6 DEF AnswerMalformed, AnswerNothingToSpend, AnswerBadProof, IssueChallenge,
                AnswerChallengeRequest, Answering, Spends
  <2>2. PICK reply : reply.kind \in {"Empty", "Challenge", "Refused"} /\ Answer(c, reply)
    <3>1. CASE AnswerMalformed(c)
      BY <3>1 DEF AnswerMalformed
    <3>2. CASE AnswerNothingToSpend(c) \/ AnswerBadProof(c)
      <4>1. PICK why : Refuse(c, why)
        BY <3>2 DEF AnswerNothingToSpend, AnswerBadProof
      <4> QED BY <4>1 DEF Refuse
    <3>3. CASE IssueChallenge(c)
      <4>1. PICK fresh : AnswerChallengeRequest(c, fresh)
        BY <3>3 DEF IssueChallenge
      <4>2. CASE Refuse(c, "UnknownQueue")
        BY <4>2 DEF Refuse
      <4>3. CASE Answer(c, [kind |-> "Challenge", challenge |-> fresh])
        BY <4>3
      <4> QED BY <4>1, <4>2, <4>3 DEF AnswerChallengeRequest
    <3> QED BY <1>6, <3>1, <3>2, <3>3
  <2>3. Promise!Decline(c)
    BY <2>1, <2>2, CurrentMayBeKept, DeclineStep
  <2> QED BY <2>3 DEF Promise!Next
<1>7. CASE AnswerRegister(c)
  BY <1>7, OpenStep DEF Promise!Next
<1>8. CASE Serve(c)
  BY <1>8, WriteStep, ReadStep, DeleteStep DEF Serve, Promise!Next
<1> QED BY <1>2, <1>3, <1>4, <1>5, <1>6, <1>7, <1>8 DEF Thread

(* The relay implements a Mailbox, for every number of clients, queues and *)
(* threads: its initial state is an empty Mailbox and every step is a step *)
(* of the Mailbox or leaves it alone.  LateStampsCovered is what makes a   *)
(* lapsed queue one whose posts are all due.                               *)
THEOREM RelayImplementsMailbox == Spec => ImplementsMailbox
<1>1. Init => Promise!Init
  <2> SUFFICES ASSUME Init PROVE Promise!Init
    OBVIOUS
  <2>1. BoxOf(store) = [q \in {} |-> {}]
    BY DEF Init, DaemonInit, EmptyStore, BoxOf
  <2>2. \A c \in Conn : CallOf(conn[c]) = [phase |-> "idle"]
    BY DEF Init, DaemonInit, CallOf
  <2> QED BY <2>1, <2>2 DEF Init, DaemonInit, Promise!Init
<1>2. TypeOK /\ LateStampsCovered /\ [Next]_vars => [Promise!Next]_(Promise!vars)
  <2> SUFFICES ASSUME TypeOK, LateStampsCovered, [Next]_vars
               PROVE  Promise!Next \/ UNCHANGED Promise!vars
    OBVIOUS
  <2>1. CASE UNCHANGED vars
    BY <2>1 DEF vars, Promise!vars
  <2>2. CASE Tick
    <3>1. Promise!Pass
      BY <2>2 DEF Tick, Promise!Pass
    <3> QED BY <3>1 DEF Promise!Next
  <2>3. CASE Restart
    <3>1. BoxOf(store') = [q \in {} |-> {}]
      BY <2>3 DEF Restart, EmptyStore, BoxOf
    <3>2. \A c \in Conn : CallOf(conn'[c]) = [phase |-> "idle"]
      BY <2>3 DEF Restart, CallOf
    <3>3. Promise!Wipe
      BY <2>3, <3>1, <3>2 DEF Restart, Promise!Wipe
    <3> QED BY <3>3 DEF Promise!Next
  <2> QED BY <2>1, <2>2, <2>3, ThreadIsAMailboxStep DEF Next
<1> QED BY <1>1, <1>2, TypeCorrect, LateStampsAlwaysCovered, PTL
        DEF Spec, ImplementsMailbox, Promise!Spec

-----------------------------------------------------------------------------
(* Strings of bytes. *)

\* What a byte may be.
Byte == {b \in Nat : b <= 255}

\* The strings of n bytes.
BytesOf(n) == {s \in Seq(Byte) : Len(s) = n}

\* What comes after the fields of fixed length.
Rest(payload, offset) == SubSeq(payload, offset + 1, Len(payload))

\* What api.rs and lib.rs of record need of their lengths: a record's fits the two
\* bytes it is written in.
WireLengths ==
  /\ MaxPayloadLen \in Nat /\ MaxPayloadLen <= 65535
  /\ QueueIdLen \in Nat \ {0} /\ KeyLen \in Nat \ {0}
  /\ ProofLen \in Nat \ {0} /\ BlobIdLen \in Nat \ {0}

\* Two strings of bytes, one after the other.
LEMMA Joining ==
  ASSUME NEW s \in Seq(Byte), NEW t \in Seq(Byte)
  PROVE  /\ s \o t \in Seq(Byte)
         /\ Len(s) \in Nat /\ Len(t) \in Nat
         /\ Len(s \o t) = Len(s) + Len(t)
BY ConcatProperties, LenProperties

\* Where the elements of each of the two are in both.
LEMMA JoinedAt ==
  ASSUME NEW s \in Seq(Byte), NEW t \in Seq(Byte), NEW i \in Nat \ {0}
  PROVE  /\ i <= Len(s) => (s \o t)[i] = s[i]
         /\ i <= Len(t) => (s \o t)[Len(s) + i] = t[i]
<1>1. /\ Len(s) \in Nat /\ Len(t) \in Nat
      /\ \A k \in 1..(Len(s) + Len(t)) : (s \o t)[k] = IF k <= Len(s) THEN s[k] ELSE t[k - Len(s)]
  BY ConcatProperties, LenProperties
<1>2. ASSUME i <= Len(s) PROVE (s \o t)[i] = s[i]
  <2>1. i \in 1..(Len(s) + Len(t))
    BY <1>1, <1>2
  <2> QED BY <1>1, <1>2, <2>1
<1>3. ASSUME i <= Len(t) PROVE (s \o t)[Len(s) + i] = t[i]
  <2>1. Len(s) + i \in 1..(Len(s) + Len(t)) /\ ~(Len(s) + i <= Len(s)) /\ Len(s) + i - Len(s) = i
    BY <1>1, <1>3
  <2> QED BY <1>1, <2>1
<1> QED BY <1>2, <1>3

\* What lies within a string of bytes, of length n from after place a on.
LEMMA Within ==
  ASSUME NEW s \in Seq(Byte), NEW a \in Nat, NEW n \in Nat, a + n <= Len(s)
  PROVE  /\ SubSeq(s, a + 1, a + n) \in Seq(Byte)
         /\ Len(SubSeq(s, a + 1, a + n)) = n
         /\ \A i \in 1..n : SubSeq(s, a + 1, a + n)[i] = s[a + i]
<1>1. Len(s) \in Nat /\ a + 1 \in Int /\ a + n \in Int
  BY LenProperties
<1>2. \A i \in (a + 1)..(a + n) : s[i] \in Byte
  BY <1>1, ElementOfSeq
<1>3. /\ SubSeq(s, a + 1, a + n) \in Seq(Byte)
      /\ Len(SubSeq(s, a + 1, a + n)) = IF a + 1 <= a + n THEN a + n - (a + 1) + 1 ELSE 0
      /\ \A i \in 1..(a + n - (a + 1) + 1) : SubSeq(s, a + 1, a + n)[i] = s[a + 1 + i - 1]
  BY <1>1, <1>2, SubSeqProperties
<1>4. a + n - (a + 1) + 1 = n /\ \A i \in 1..n : a + 1 + i - 1 = a + i
  OBVIOUS
<1> QED BY <1>3, <1>4

\* A part that is written somewhere is found there.
LEMMA PartFound ==
  ASSUME NEW s \in Seq(Byte), NEW t \in Seq(Byte), NEW u \in Seq(Byte)
  PROVE  SubSeq((s \o t) \o u, Len(s) + 1, Len(s) + Len(t)) = t
<1> DEFINE w == (s \o t) \o u
           v == SubSeq(w, Len(s) + 1, Len(s) + Len(t))
<1>1. /\ Len(s) \in Nat /\ Len(t) \in Nat /\ Len(u) \in Nat
      /\ s \o t \in Seq(Byte) /\ Len(s \o t) = Len(s) + Len(t)
  BY Joining
<1>2. w \in Seq(Byte) /\ Len(w) = Len(s) + Len(t) + Len(u)
  BY <1>1, Joining
<1>3. \A i \in 1..Len(t) : w[Len(s) + i] = t[i]
  <2> TAKE i \in 1..Len(t)
  <2>1. i \in Nat \ {0} /\ Len(s) + i \in Nat \ {0} /\ i <= Len(t) /\ Len(s) + i <= Len(s \o t)
    BY <1>1
  <2>2. (s \o t)[Len(s) + i] = t[i]
    BY <2>1, JoinedAt
  <2>3. w[Len(s) + i] = (s \o t)[Len(s) + i]
    BY <1>1, <2>1, JoinedAt
  <2> QED BY <2>2, <2>3
<1>4. v \in Seq(Byte) /\ Len(v) = Len(t) /\ \A i \in 1..Len(t) : v[i] = w[Len(s) + i]
  <2> HIDE DEF w
  <2>1. Len(s) + Len(t) <= Len(w)
    BY <1>1, <1>2
  <2> QED BY <1>1, <1>2, <2>1, Within
<1> HIDE DEF w, v
<1>5. v = t
  BY <1>1, <1>3, <1>4, SeqEqual
<1> QED BY <1>5 DEF v, w

\* Two parts that meet are one part.
LEMMA PartsJoined ==
  ASSUME NEW s \in Seq(Byte), NEW a \in Nat, NEW b \in a..Len(s), NEW c \in b..Len(s)
  PROVE  SubSeq(s, a + 1, b) \o SubSeq(s, b + 1, c) = SubSeq(s, a + 1, c)
<1>1. Len(s) \in Nat
  BY LenProperties
<1>2. a + 1 \in 1..(Len(s) + 1) /\ b \in (a + 1 - 1)..Len(s) /\ c \in b..Len(s)
  BY <1>1
<1> QED BY <1>2, ConcatAdjacentSubSeq

-----------------------------------------------------------------------------
\* The two bytes of a length.
LEMMA BytesToLength ==
  ASSUME NEW x \in Byte, NEW y \in Byte
  PROVE  /\ x * 256 + y \in Nat /\ x * 256 + y <= 65535
         /\ (x * 256 + y) \div 256 = x
         /\ (x * 256 + y) % 256 = y
<1>1. x \in Int /\ 0 <= x /\ x <= 255 /\ y \in Int /\ 0 <= y /\ y <= 255
  BY DEF Byte
<1>2. x * 256 + y \in Nat /\ x * 256 + y <= 65535
  BY <1>1
<1>3. (x * 256 + y) \div 256 = x
  BY <1>1
<1>4. (x * 256 + y) % 256 = y
  BY <1>1
<1> QED BY <1>2, <1>3, <1>4

\* And back: the two bytes written for a length say that length.
LEMMA LengthToBytes ==
  ASSUME NEW n \in Nat, n <= 65535
  PROVE  /\ n \div 256 \in Byte /\ n % 256 \in Byte
         /\ (n \div 256) * 256 + (n % 256) = n
<1>1. PICK x \in Byte, y \in Byte : n = x * 256 + y
  <2> DEFINE x == n \div 256
             y == n - x * 256
  <2>1. x \in Nat /\ x * 256 <= n /\ n < x * 256 + 256
    OBVIOUS
  <2> HIDE DEF x
  <2>2. x \in Byte /\ y \in Byte /\ n = x * 256 + y
    BY <2>1 DEF Byte
  <2> QED BY <2>2
<1>2. (x * 256 + y) \div 256 = x /\ (x * 256 + y) % 256 = y
  BY BytesToLength
<1>3. n \div 256 = x /\ n % 256 = y
  BY <1>1, <1>2
<1> QED BY <1>1, <1>3

\* A header of four bytes, which says how long the payload is, and the payload.
IsRecord(record, version, type, payload) ==
  \E header \in Seq(Byte) :
    /\ Len(header) = 4
    /\ header[1] = version /\ header[2] = type
    /\ header[3] \in Byte /\ header[4] \in Byte
    /\ header[3] * 256 + header[4] = Len(payload)
    /\ record = header \o payload
    /\ record \in Seq(Byte) /\ Len(record) = 4 + Len(payload)

\* That is what encode() writes.
LEMMA Encoded ==
  ASSUME WireLengths, NEW version \in Byte, NEW type \in Byte,
         NEW payload \in Seq(Byte), Len(payload) <= MaxPayloadLen
  PROVE  IsRecord(Wire!Encode(version, type, payload), version, type, payload)
<1>1. Len(payload) \in Nat /\ Len(payload) <= 65535
  BY LenProperties DEF WireLengths
<1> DEFINE high == Len(payload) \div 256
           low == Len(payload) % 256
           header == <<version, type, high, low>>
<1>2. high \in Byte /\ low \in Byte /\ high * 256 + low = Len(payload)
  BY <1>1, LengthToBytes
<1>3. Wire!Encode(version, type, payload) = header \o payload
  BY <1>1 DEF Wire!Encode, WireLengths
<1> HIDE DEF high, low
<1>4. header \in Seq(Byte) /\ Len(header) = 4
  BY <1>2
<1>5. /\ header[1] = version /\ header[2] = type /\ header[3] = high /\ header[4] = low
  OBVIOUS
<1> HIDE DEF header
<1>6. header \o payload \in Seq(Byte) /\ Len(header \o payload) = 4 + Len(payload)
  BY <1>4, Joining
<1> QED BY <1>2, <1>3, <1>4, <1>5, <1>6 DEF IsRecord

(* Wherever a reader comes to a record, whatever came before and whatever  *)
(* follows, it reads what was written and goes on right behind it.         *)
THEOREM RecordsReadBack ==
  ASSUME WireLengths, NEW version \in Byte, NEW type \in Byte,
         NEW payload \in Seq(Byte), Len(payload) <= MaxPayloadLen,
         NEW before \in Seq(Byte), NEW after \in Seq(Byte)
  PROVE  LET record == Wire!Encode(version, type, payload)
             input == (before \o record) \o after
             pos == Len(before) + 1
         IN  /\ Wire!HeaderVerdict(input, pos, version) = "Ok"
             /\ Wire!RecordAt(input, pos) = Wire!Framed(type, payload)
             /\ Wire!RecordEnd(input, pos) = Len(before \o record)
<1> DEFINE record == Wire!Encode(version, type, payload)
           input == (before \o record) \o after
           pos == Len(before) + 1
<1>1. PICK header \in Seq(Byte) :
           /\ Len(header) = 4
           /\ header[1] = version /\ header[2] = type
           /\ header[3] \in Byte /\ header[4] \in Byte
           /\ header[3] * 256 + header[4] = Len(payload)
           /\ record = header \o payload
           /\ record \in Seq(Byte) /\ Len(record) = 4 + Len(payload)
  <2>1. IsRecord(record, version, type, payload)
    BY Encoded
  <2> HIDE DEF record
  <2> QED BY <2>1 DEF IsRecord
<1> HIDE DEF record
<1>2. Len(before) \in Nat /\ Len(after) \in Nat /\ Len(payload) \in Nat
  BY LenProperties
<1>3. /\ before \o record \in Seq(Byte) /\ Len(before \o record) = Len(before) + Len(record)
      /\ input \in Seq(Byte) /\ Len(input) = Len(before) + Len(record) + Len(after)
  <2>1. before \o record \in Seq(Byte) /\ Len(before \o record) = Len(before) + Len(record)
    BY <1>1, Joining
  <2> QED BY <2>1, Joining
<1>4. \A i \in 1..4 : input[Len(before) + i] = header[i]
  <2> TAKE i \in 1..4
  <2>1. /\ i \in Nat \ {0} /\ Len(before) + i \in Nat \ {0}
        /\ i <= Len(header) /\ i <= Len(record) /\ Len(before) + i <= Len(before \o record)
    BY <1>1, <1>2, <1>3
  <2>2. record[i] = header[i]
    BY <1>1, <2>1, JoinedAt
  <2>3. (before \o record)[Len(before) + i] = record[i]
    BY <1>1, <2>1, JoinedAt
  <2>4. input[Len(before) + i] = (before \o record)[Len(before) + i]
    BY <1>3, <2>1, JoinedAt
  <2> QED BY <2>2, <2>3, <2>4
<1>5. SubSeq(input, Len(before) + 5, Len(before) + 4 + Len(payload)) = payload
  <2>1. before \o record = (before \o header) \o payload
    <3>1. before \o (header \o payload) = (before \o header) \o payload
      BY ConcatAssociative
    <3> QED BY <1>1, <3>1
  <2>2. before \o header \in Seq(Byte) /\ Len(before \o header) = Len(before) + 4
    BY <1>1, Joining
  <2>3. SubSeq(input, Len(before \o header) + 1, Len(before \o header) + Len(payload)) = payload
    BY <2>1, <2>2, PartFound
  <2>4. /\ Len(before \o header) + 1 = Len(before) + 5
        /\ Len(before \o header) + Len(payload) = Len(before) + 4 + Len(payload)
    BY <1>2, <2>2
  <2> QED BY <2>3, <2>4
<1> HIDE DEF input
<1>6. /\ input[pos] = version /\ input[pos + 1] = type
      /\ input[pos + 2] * 256 + input[pos + 3] = Len(payload)
  <2>1. /\ input[Len(before) + 1] = version /\ input[Len(before) + 2] = type
        /\ input[Len(before) + 3] = header[3] /\ input[Len(before) + 4] = header[4]
    BY <1>1, <1>4
  <2>2. pos + 1 = Len(before) + 2 /\ pos + 2 = Len(before) + 3 /\ pos + 3 = Len(before) + 4
    BY <1>2
  <2> QED BY <1>1, <2>1, <2>2
<1>7. Wire!PayloadLen(input, pos) = Len(payload)
  BY <1>6 DEF Wire!PayloadLen
<1>8. Wire!RecordEnd(input, pos) = Len(before) + 4 + Len(payload)
  <2>1. Wire!RecordEnd(input, pos) = pos + 4 + Len(payload) - 1
    BY <1>7 DEF Wire!RecordEnd, Wire!HeaderLen
  <2> QED BY <1>2, <2>1
<1>9. Wire!HeaderVerdict(input, pos, version) = "Ok"
  <2>1. Len(input) - pos + 1 = 4 + Len(payload) + Len(after)
    BY <1>1, <1>2, <1>3
  <2>2. ~(Len(input) - pos + 1 < 4) /\ ~(Len(input) - pos + 1 - 4 < Len(payload))
    BY <1>2, <2>1
  <2>3. ~(Len(payload) > MaxPayloadLen)
    BY <1>2 DEF WireLengths
  <2>4. Len(input) \in Nat /\ pos \in Nat /\ Len(payload) \in Nat /\ MaxPayloadLen \in Nat
    BY <1>2, <1>3, LenProperties DEF WireLengths
  <2> HIDE DEF pos
  <2> QED BY ONLY <1>6, <1>7, <2>2, <2>3, <2>4 DEF Wire!HeaderVerdict, Wire!HeaderLen
<1>10. Wire!RecordAt(input, pos) = Wire!Framed(type, payload)
  <2>1. pos + Wire!HeaderLen = Len(before) + 5
    BY <1>2 DEF Wire!HeaderLen
  <2> QED BY <1>5, <1>6, <1>8, <2>1 DEF Wire!RecordAt
<1> QED BY <1>1, <1>3, <1>8, <1>9, <1>10 DEF input, record

(* What is read as a record is what is written for it: no two byte strings *)
(* are the same record.                                                    *)
THEOREM RecordsWrittenOnce ==
  ASSUME WireLengths, NEW version \in Byte, NEW input \in Seq(Byte), NEW before \in Nat,
         before < Len(input), Wire!HeaderVerdict(input, before + 1, version) = "Ok"
  PROVE  LET pos == before + 1
             end == Wire!RecordEnd(input, pos)
             f == Wire!RecordAt(input, pos)
         IN  /\ f.type \in Byte /\ f.payload \in Seq(Byte) /\ Len(f.payload) <= MaxPayloadLen
             /\ Wire!Encode(version, f.type, f.payload) = SubSeq(input, pos, end)
             /\ end \in before..Len(input)
<1> DEFINE pos == before + 1
           high == input[pos + 2]
           low == input[pos + 3]
           n == Wire!PayloadLen(input, pos)
           end == Wire!RecordEnd(input, pos)
           a == before + 4
           payload == SubSeq(input, a + 1, a + n)
<1>1. Len(input) \in Nat /\ MaxPayloadLen \in Nat /\ MaxPayloadLen <= 65535
  BY LenProperties DEF WireLengths
<1>2. /\ ~(Len(input) - pos + 1 < 4)
      /\ input[pos] = version
      /\ ~(n > MaxPayloadLen)
      /\ ~(Len(input) - pos + 1 - 4 < n)
  BY DEF Wire!HeaderVerdict, Wire!HeaderLen
<1>3. input[pos + 1] \in Byte /\ high \in Byte /\ low \in Byte
  <2>1. /\ pos + 1 \in 1..Len(input)
        /\ pos + 2 \in 1..Len(input) /\ pos + 3 \in 1..Len(input)
    BY <1>1, <1>2
  <2> QED BY <2>1, ElementOfSeq
<1>4. n = high * 256 + low
  BY DEF Wire!PayloadLen
<1>5. end = pos + 4 + n - 1 /\ pos + 4 = a + 1
  BY DEF Wire!RecordEnd, Wire!HeaderLen
<1>6. Wire!RecordAt(input, pos) = Wire!Framed(input[pos + 1], SubSeq(input, pos + 4, end))
  BY DEF Wire!RecordAt, Wire!HeaderLen
<1> DEFINE header == <<version, input[pos + 1], n \div 256, n % 256>>
<1>7. /\ header[1] = input[before + 1] /\ header[2] = input[before + 2]
      /\ high = input[before + 3] /\ low = input[before + 4]
      /\ header[3] = n \div 256 /\ header[4] = n % 256
  <2>1. pos = before + 1 /\ pos + 1 = before + 2 /\ pos + 2 = before + 3 /\ pos + 3 = before + 4
    OBVIOUS
  <2> QED BY <1>2, <2>1
<1> HIDE DEF n, end, high, low
<1>8. n \in Nat /\ n \div 256 = high /\ n % 256 = low
  BY <1>3, <1>4, BytesToLength
<1>9. n <= MaxPayloadLen /\ a + n <= Len(input) /\ a \in Nat
  <2>1. n \in Nat /\ n <= MaxPayloadLen
    BY <1>1, <1>2, <1>8
  <2> QED BY <1>1, <1>2, <2>1
<1>10. end = a + n
  BY <1>5, <1>8
<1>11. header \in Seq(Byte) /\ Len(header) = 4
  BY <1>3, <1>8
<1> DEFINE whole == SubSeq(input, before + 1, before + (4 + n))
<1>12. /\ whole \in Seq(Byte) /\ Len(whole) = 4 + n
       /\ \A i \in 1..(4 + n) : whole[i] = input[before + i]
  <2>1. 4 + n \in Nat /\ before + (4 + n) <= Len(input)
    BY <1>1, <1>8, <1>9
  <2> QED BY <2>1, Within
<1>13. before + (4 + n) = a + n /\ \A i \in Nat : a + i = before + (4 + i)
  BY <1>8
<1> HIDE DEF a
<1>14. payload \in Seq(Byte) /\ Len(payload) = n /\ \A i \in 1..n : payload[i] = input[a + i]
  BY <1>8, <1>9, Within
<1>15. Wire!RecordAt(input, pos) = Wire!Framed(input[pos + 1], payload)
  BY <1>5, <1>6, <1>10
<1>16. Wire!Encode(version, input[pos + 1], payload) = header \o payload
  <2> HIDE DEF payload
  <2>1. ~(Len(payload) > MaxPayloadLen)
    BY <1>1, <1>8, <1>9, <1>14
  <2> QED BY <1>14, <2>1 DEF Wire!Encode
<1> HIDE DEF header, payload, whole
<1>17. header \o payload = whole
  <2>1. header \o payload \in Seq(Byte) /\ Len(header \o payload) = 4 + n
    BY <1>11, <1>14, Joining
  <2>2. ASSUME NEW i \in 1..(4 + n) PROVE (header \o payload)[i] = whole[i]
    <3>1. CASE i \in 1..4
      <4>1. i \in Nat \ {0} /\ i <= Len(header)
        BY <1>11, <3>1
      <4>2. (header \o payload)[i] = header[i]
        BY <1>11, <1>14, <4>1, JoinedAt
      <4>3. header[i] = input[before + i]
        BY <1>7, <1>8, <3>1
      <4> QED BY <1>12, <4>2, <4>3
    <3>2. CASE i \notin 1..4
      <4>1. PICK k \in 1..n : i = 4 + k
        <5>1. i - 4 \in 1..n /\ i = 4 + (i - 4)
          BY <1>8, <3>2
        <5> QED BY <5>1
      <4>2. k \in Nat \ {0} /\ k <= Len(payload)
        BY <1>8, <1>14, <4>1
      <4>3. (header \o payload)[Len(header) + k] = payload[k]
        BY <1>11, <1>14, <4>2, JoinedAt
      <4>4. payload[k] = input[before + (4 + k)]
        BY <1>13, <1>14, <4>1, <4>2
      <4> QED BY <1>11, <1>12, <4>1, <4>3, <4>4
    <3> QED BY <3>1, <3>2
  <2> QED BY <1>12, <2>1, <2>2, SeqEqual
<1>18. /\ Wire!Framed(input[pos + 1], payload).type = input[pos + 1]
       /\ Wire!Framed(input[pos + 1], payload).payload = payload
  BY DEF Wire!Framed
<1>19. end \in before..Len(input)
  BY <1>1, <1>8, <1>9, <1>10 DEF a
<1>20. Wire!Encode(version, input[pos + 1], payload) = SubSeq(input, pos, end)
  BY <1>10, <1>13, <1>16, <1>17 DEF whole
<1> HIDE DEF pos
<1> QED BY <1>3, <1>9, <1>14, <1>15, <1>18, <1>19, <1>20 DEF end, pos

-----------------------------------------------------------------------------
(* What is asked of a relay. *)

WireRequest ==
  [kind : {"Register"}, queue : BytesOf(QueueIdLen), write : BytesOf(KeyLen), read : BytesOf(KeyLen)]
    \cup [kind : {"ChallengeRequest"}, queue : BytesOf(QueueIdLen), right : {"Write", "Read"}]
    \cup [kind : {"Write"}, queue : BytesOf(QueueIdLen), proof : BytesOf(ProofLen), blob : Seq(Byte)]
    \cup [kind : {"Read"}, queue : BytesOf(QueueIdLen), proof : BytesOf(ProofLen)]
    \cup [kind : {"Delete"}, queue : BytesOf(QueueIdLen), proof : BytesOf(ProofLen),
          blobId : BytesOf(BlobIdLen)]

\* The byte of every type of request, both ways.
LEMMA RequestTypes ==
  /\ Wire!RequestType["Register"] = 0 /\ Wire!RequestType["ChallengeRequest"] = 1
  /\ Wire!RequestType["Write"] = 3 /\ Wire!RequestType["Read"] = 4 /\ Wire!RequestType["Delete"] = 6
  /\ Wire!NameOf(Wire!RequestType, 0) = "Register"
  /\ Wire!NameOf(Wire!RequestType, 1) = "ChallengeRequest"
  /\ Wire!NameOf(Wire!RequestType, 3) = "Write"
  /\ Wire!NameOf(Wire!RequestType, 4) = "Read"
  /\ Wire!NameOf(Wire!RequestType, 6) = "Delete"
  /\ \A byte : Wire!IsByteOf(Wire!RequestType, byte) <=> byte \in {0, 1, 3, 4, 6}
<1>1. DOMAIN Wire!RequestType = {"Register", "ChallengeRequest", "Write", "Read", "Delete"}
  BY DEF Wire!RequestType
<1>2. /\ Wire!RequestType["Register"] = 0 /\ Wire!RequestType["ChallengeRequest"] = 1
      /\ Wire!RequestType["Write"] = 3 /\ Wire!RequestType["Read"] = 4
      /\ Wire!RequestType["Delete"] = 6
  BY DEF Wire!RequestType
<1>3. ASSUME NEW name \in DOMAIN Wire!RequestType
      PROVE  Wire!NameOf(Wire!RequestType, Wire!RequestType[name]) = name
  BY <1>1, <1>2 DEF Wire!NameOf
<1>4. \A byte : Wire!IsByteOf(Wire!RequestType, byte) <=> byte \in {0, 1, 3, 4, 6}
  BY <1>1, <1>2 DEF Wire!IsByteOf
<1> QED BY <1>1, <1>2, <1>3, <1>4

\* The byte of each right, both ways.
LEMMA Rights ==
  /\ Wire!RightByte["Write"] = 0 /\ Wire!RightByte["Read"] = 1
  /\ Wire!NameOf(Wire!RightByte, 0) = "Write" /\ Wire!NameOf(Wire!RightByte, 1) = "Read"
  /\ \A byte : Wire!IsByteOf(Wire!RightByte, byte) <=> byte \in {0, 1}
<1>1. DOMAIN Wire!RightByte = {"Write", "Read"}
  BY DEF Wire!RightByte
<1>2. Wire!RightByte["Write"] = 0 /\ Wire!RightByte["Read"] = 1
  BY DEF Wire!RightByte
<1>3. ASSUME NEW name \in DOMAIN Wire!RightByte
      PROVE  Wire!NameOf(Wire!RightByte, Wire!RightByte[name]) = name
  BY <1>1, <1>2 DEF Wire!NameOf
<1>4. \A byte : Wire!IsByteOf(Wire!RightByte, byte) <=> byte \in {0, 1}
  BY <1>1, <1>2 DEF Wire!IsByteOf
<1> QED BY <1>1, <1>2, <1>3, <1>4

\* What is made of the one record of a request, type by type.
RequestIn(type, payload) ==
  LET queue == Wire!Field(payload, 0, QueueIdLen)
      proof == Wire!Field(payload, QueueIdLen, ProofLen)
      length == Len(payload)
      right == payload[QueueIdLen + 1]
  IN
  IF type = 0 /\ length = QueueIdLen + 2 * KeyLen
    THEN [kind |-> "Register", queue |-> queue, write |-> Wire!Field(payload, QueueIdLen, KeyLen),
          read |-> Wire!Field(payload, QueueIdLen + KeyLen, KeyLen)]
  ELSE IF type = 1 /\ length = QueueIdLen + 1 /\ right \in {0, 1}
    THEN [kind |-> "ChallengeRequest", queue |-> queue, right |-> Wire!NameOf(Wire!RightByte, right)]
  ELSE IF type = 3 /\ length >= QueueIdLen + ProofLen
    THEN [kind |-> "Write", queue |-> queue, proof |-> proof,
          blob |-> SubSeq(payload, QueueIdLen + ProofLen + 1, length)]
  ELSE IF type = 4 /\ length = QueueIdLen + ProofLen
    THEN [kind |-> "Read", queue |-> queue, proof |-> proof]
  ELSE IF type = 6 /\ length = QueueIdLen + ProofLen + BlobIdLen
    THEN [kind |-> "Delete", queue |-> queue, proof |-> proof,
          blobId |-> Wire!Field(payload, QueueIdLen + ProofLen, BlobIdLen)]
  ELSE Wire!Malformed

\* decode_request() after single().
LEMMA RequestDecoded ==
  ASSUME NEW input, NEW type, NEW payload, Wire!Single(input),
         Wire!RecordAt(input, 1) = Wire!Framed(type, payload)
  PROVE  Wire!DecodeRequest(input) = RequestIn(type, payload)
<1>1. Wire!RecordAt(input, 1).type = type /\ Wire!RecordAt(input, 1).payload = payload
  BY DEF Wire!Framed
<1>2. CASE type \notin {0, 1, 3, 4, 6}
  <2>1. ~Wire!IsByteOf(Wire!RequestType, type)
    BY <1>2, RequestTypes
  <2> QED BY <1>1, <1>2, <2>1 DEF Wire!DecodeRequest, RequestIn
<1>3. CASE type = 0
  BY <1>1, <1>3, RequestTypes DEF Wire!DecodeRequest, RequestIn
<1>4. CASE type = 1
  BY <1>1, <1>4, RequestTypes, Rights DEF Wire!DecodeRequest, RequestIn
<1>5. CASE type = 3
  BY <1>1, <1>5, RequestTypes DEF Wire!DecodeRequest, RequestIn
<1>6. CASE type = 4
  BY <1>1, <1>6, RequestTypes DEF Wire!DecodeRequest, RequestIn
<1>7. CASE type = 6
  BY <1>1, <1>7, RequestTypes DEF Wire!DecodeRequest, RequestIn
<1> QED BY <1>2, <1>3, <1>4, <1>5, <1>6, <1>7

\* A record on its own is taken by single().
LEMMA SingleRead ==
  ASSUME WireLengths, NEW type \in Byte, NEW payload \in Seq(Byte), Len(payload) <= MaxPayloadLen
  PROVE  /\ Wire!Single(Wire!Encode(Wire!RelayVersion, type, payload))
         /\ Wire!RecordAt(Wire!Encode(Wire!RelayVersion, type, payload), 1) = Wire!Framed(type, payload)
<1> DEFINE record == Wire!Encode(Wire!RelayVersion, type, payload)
<1>1. Wire!RelayVersion \in Byte /\ Len(payload) \in Nat
  BY LenProperties DEF Byte, Wire!RelayVersion
<1>2. record \in Seq(Byte) /\ Len(record) = 4 + Len(payload)
  <2>1. IsRecord(record, Wire!RelayVersion, type, payload)
    BY <1>1, Encoded
  <2> QED BY <2>1 DEF IsRecord
<1>3. <<>> \in Seq(Byte) /\ Len(<<>>) = 0
  BY EmptySeq
<1>4. LET input == (<<>> \o record) \o <<>>
          pos == Len(<<>>) + 1
      IN  /\ Wire!HeaderVerdict(input, pos, Wire!RelayVersion) = "Ok"
          /\ Wire!RecordAt(input, pos) = Wire!Framed(type, payload)
          /\ Wire!RecordEnd(input, pos) = Len(<<>> \o record)
  <2> HIDE DEF record
  <2> QED BY <1>1, <1>3, RecordsReadBack DEF record
<1> HIDE DEF record
<1>5. <<>> \o record = record /\ record \o <<>> = record
  BY <1>2, ConcatEmptySeq
<1>6. Len(<<>>) + 1 = 1
  BY <1>3
<1>7. record # <<>>
  BY <1>1, <1>2, <1>3
<1> QED BY <1>4, <1>5, <1>6, <1>7 DEF record, Wire!Single

\* What single() takes is one record, written as it is.
LEMMA SingleWritten ==
  ASSUME WireLengths, NEW input \in Seq(Byte), Wire!Single(input)
  PROVE  \E type \in Byte, payload \in Seq(Byte) :
           /\ Len(payload) <= MaxPayloadLen
           /\ Wire!RecordAt(input, 1) = Wire!Framed(type, payload)
           /\ Wire!Encode(Wire!RelayVersion, type, payload) = input
<1> DEFINE f == Wire!RecordAt(input, 1)
<1>1. /\ input # <<>> /\ Wire!HeaderVerdict(input, 1, Wire!RelayVersion) = "Ok"
      /\ Wire!RecordEnd(input, 1) = Len(input)
  BY DEF Wire!Single
<1>2. Len(input) \in Nat \ {0} /\ Wire!RelayVersion \in Byte
  BY <1>1, EmptySeq DEF Byte, Wire!RelayVersion
<1>3. 0 \in Nat /\ 0 < Len(input) /\ 0 + 1 = 1
  BY <1>2
<1>4. /\ f.type \in Byte /\ f.payload \in Seq(Byte) /\ Len(f.payload) <= MaxPayloadLen
      /\ Wire!Encode(Wire!RelayVersion, f.type, f.payload) = SubSeq(input, 1, Wire!RecordEnd(input, 1))
  <2>1. ASSUME NEW before, before = 0
        PROVE  LET pos == before + 1
                   end == Wire!RecordEnd(input, pos)
                   g == Wire!RecordAt(input, pos)
               IN  /\ g.type \in Byte /\ g.payload \in Seq(Byte) /\ Len(g.payload) <= MaxPayloadLen
                   /\ Wire!Encode(Wire!RelayVersion, g.type, g.payload) = SubSeq(input, pos, end)
    <3>1. before \in Nat /\ before < Len(input) /\ before + 1 = 1
      BY <1>3, <2>1
    <3>2. Wire!HeaderVerdict(input, before + 1, Wire!RelayVersion) = "Ok"
      BY <1>1, <3>1
    <3> QED BY <1>2, <3>1, <3>2, RecordsWrittenOnce
  <2> QED BY <1>3, <2>1
<1>5. SubSeq(input, 1, Wire!RecordEnd(input, 1)) = input
  BY <1>1, SubSeqFull
<1>6. f = Wire!Framed(f.type, f.payload)
  BY DEF Wire!RecordAt, Wire!Framed
<1> HIDE DEF f
<1>7. /\ Len(f.payload) <= MaxPayloadLen
      /\ f = Wire!Framed(f.type, f.payload)
      /\ Wire!Encode(Wire!RelayVersion, f.type, f.payload) = input
  BY <1>4, <1>5, <1>6
<1> QED BY <1>4, <1>7 DEF f

-----------------------------------------------------------------------------
(* The fields of a payload, each found again and each a part of it. *)

\* Of three fields written one after the other, each is found in its place.
LEMMA FieldsFound ==
  ASSUME NEW a \in Nat, NEW b \in Nat, NEW c \in Nat,
         NEW s \in BytesOf(a), NEW t \in BytesOf(b), NEW u \in BytesOf(c)
  PROVE  LET payload == (s \o t) \o u IN
         /\ payload \in Seq(Byte) /\ Len(payload) = a + b + c
         /\ Wire!Field(payload, 0, a) = s
         /\ Wire!Field(payload, a, b) = t
         /\ Wire!Field(payload, a + b, c) = u
         /\ Rest(payload, a + b) = u
<1> DEFINE payload == (s \o t) \o u
<1>1. /\ s \in Seq(Byte) /\ t \in Seq(Byte) /\ u \in Seq(Byte)
      /\ Len(s) = a /\ Len(t) = b /\ Len(u) = c
  BY DEF BytesOf
<1>2. /\ Len(s) \in Nat /\ Len(t) \in Nat /\ Len(u) \in Nat
      /\ s \o t \in Seq(Byte) /\ Len(s \o t) = Len(s) + Len(t)
  BY <1>1, Joining
<1>3. /\ payload \in Seq(Byte) /\ Len(payload) = Len(s) + Len(t) + Len(u)
  BY <1>1, <1>2, Joining
<1>4. <<>> \in Seq(Byte) /\ Len(<<>>) = 0 /\ <<>> \o s = s /\ payload \o <<>> = payload
  BY <1>1, <1>3, EmptySeq, ConcatEmptySeq
<1>5. SubSeq(payload, Len(s) + 1, Len(s) + Len(t)) = t
  BY <1>1, PartFound
<1>6. SubSeq(payload, Len(s) + Len(t) + 1, Len(s) + Len(t) + Len(u)) = u
  <2>1. SubSeq(((s \o t) \o u) \o <<>>, Len(s \o t) + 1, Len(s \o t) + Len(u)) = u
    BY <1>1, <1>2, <1>4, PartFound
  <2> QED BY <1>2, <1>4, <2>1
<1>7. SubSeq(payload, 0 + 1, 0 + Len(s)) = s
  <2>1. t \o u \in Seq(Byte) /\ s \o (t \o u) = payload
    BY <1>1, Joining, ConcatAssociative
  <2>2. SubSeq((<<>> \o s) \o (t \o u), Len(<<>>) + 1, Len(<<>>) + Len(s)) = s
    BY <1>1, <1>4, <2>1, PartFound
  <2> HIDE DEF payload
  <2> QED BY <1>4, <2>1, <2>2
<1> HIDE DEF payload
<1>8. SubSeq(payload, Len(s) + Len(t) + 1, Len(payload)) = u
  BY <1>3, <1>6
<1> QED BY <1>1, <1>3, <1>5, <1>6, <1>7, <1>8 DEF payload, Wire!Field, Rest

\* The same of two.
LEMMA TwoFieldsFound ==
  ASSUME NEW a \in Nat, NEW b \in Nat, NEW s \in BytesOf(a), NEW t \in BytesOf(b)
  PROVE  /\ s \o t \in Seq(Byte) /\ Len(s \o t) = a + b
         /\ Wire!Field(s \o t, 0, a) = s
         /\ Wire!Field(s \o t, a, b) = t
<1>1. PICK none, zero : none = <<>> /\ zero = 0
  OBVIOUS
<1>2. /\ s \o t \in Seq(Byte) /\ Len(s \o t) = a + b
      /\ (s \o t) \o none = s \o t
  BY <1>1, Joining, ConcatEmptySeq DEF BytesOf
<1>3. zero \in Nat /\ none \in BytesOf(zero)
  BY <1>1, EmptySeq DEF BytesOf
<1>4. /\ Wire!Field((s \o t) \o none, 0, a) = s
      /\ Wire!Field((s \o t) \o none, a, b) = t
  BY ONLY <1>3, FieldsFound, a \in Nat, b \in Nat, s \in BytesOf(a), t \in BytesOf(b)
<1> QED BY <1>2, <1>4

\* A payload is its fields of a, b and c bytes.
IsFields(payload, a, b, c) ==
  LET s == Wire!Field(payload, 0, a)
      t == Wire!Field(payload, a, b)
      u == Wire!Field(payload, a + b, c)
  IN  /\ s \in BytesOf(a) /\ t \in BytesOf(b) /\ u \in BytesOf(c)
      /\ (s \o t) \o u = payload
      /\ Rest(payload, a + b) = u

\* A payload of that length is its fields, one after the other.
LEMMA FieldsJoined ==
  ASSUME NEW payload \in Seq(Byte), NEW a \in Nat, NEW b \in Nat, NEW c \in Nat,
         Len(payload) = a + b + c
  PROVE  IsFields(payload, a, b, c)
<1> DEFINE s == SubSeq(payload, 0 + 1, 0 + a)
           t == SubSeq(payload, a + 1, a + b)
           u == SubSeq(payload, a + b + 1, a + b + c)
<1>1. s \in BytesOf(a)
  <2>1. 0 \in Nat /\ 0 + a <= Len(payload)
    OBVIOUS
  <2> QED BY <2>1, Within DEF BytesOf
<1>2. t \in BytesOf(b)
  <2>1. a + b <= Len(payload)
    OBVIOUS
  <2> QED BY <2>1, Within DEF BytesOf
<1>3. u \in BytesOf(c)
  <2>1. a + b \in Nat /\ (a + b) + c <= Len(payload)
    OBVIOUS
  <2> QED BY <2>1, Within DEF BytesOf
<1>4. s \o t = SubSeq(payload, 0 + 1, a + b)
  <2>1. 0 \in Nat /\ 0 + a = a /\ a \in 0..Len(payload) /\ a + b \in a..Len(payload)
    OBVIOUS
  <2>2. SubSeq(payload, 0 + 1, a) \o SubSeq(payload, a + 1, a + b) = SubSeq(payload, 0 + 1, a + b)
    BY ONLY <2>1, PartsJoined, payload \in Seq(Byte)
  <2> QED BY <2>1, <2>2
<1>5. SubSeq(payload, 0 + 1, a + b) \o u = SubSeq(payload, 0 + 1, a + b + c)
  <2>1. 0 \in Nat /\ a + b \in 0..Len(payload) /\ a + b + c \in (a + b)..Len(payload)
    OBVIOUS
  <2> QED BY ONLY <2>1, PartsJoined, payload \in Seq(Byte)
<1>6. SubSeq(payload, 0 + 1, a + b + c) = payload
  <2>1. 0 + 1 = 1
    OBVIOUS
  <2> QED BY <2>1, SubSeqFull
<1> QED BY <1>1, <1>2, <1>3, <1>4, <1>5, <1>6 DEF IsFields, Wire!Field, Rest

\* The same of two.
LEMMA TwoFieldsJoined ==
  ASSUME NEW payload \in Seq(Byte), NEW a \in Nat, NEW b \in Nat, Len(payload) = a + b
  PROVE  LET s == Wire!Field(payload, 0, a)
             t == Wire!Field(payload, a, b)
         IN  s \in BytesOf(a) /\ t \in BytesOf(b) /\ s \o t = payload
<1> DEFINE s == Wire!Field(payload, 0, a)
           t == Wire!Field(payload, a, b)
           u == Wire!Field(payload, a + b, 0)
<1>1. PICK zero : zero = 0
  OBVIOUS
<1>2. zero \in Nat /\ Len(payload) = a + b + zero
  BY <1>1
<1>3. /\ s \in BytesOf(a) /\ t \in BytesOf(b) /\ Wire!Field(payload, a + b, zero) \in BytesOf(zero)
      /\ (s \o t) \o Wire!Field(payload, a + b, zero) = payload
  <2>1. IsFields(payload, a, b, zero)
    BY <1>2, FieldsJoined
  <2> QED BY <2>1 DEF IsFields
<1>4. /\ s \in Seq(Byte) /\ t \in Seq(Byte) /\ u \in Seq(Byte) /\ Len(u) = 0
      /\ (s \o t) \o u = payload
  BY <1>1, <1>3 DEF BytesOf
<1> HIDE DEF s, t, u
<1>5. u = <<>> /\ (s \o t) \o <<>> = s \o t
  BY <1>4, Joining, EmptySeq, ConcatEmptySeq
<1> QED BY <1>3, <1>4, <1>5 DEF s, t

-----------------------------------------------------------------------------
\* The payload written for a request means that request.
LEMMA RequestWritten ==
  ASSUME WireLengths, NEW r \in WireRequest
  PROVE  /\ Wire!RequestPayload(r) \in Seq(Byte)
         /\ Wire!RequestType[r.kind] \in Byte
         /\ RequestIn(Wire!RequestType[r.kind], Wire!RequestPayload(r)) = r
<1>1. /\ QueueIdLen \in Nat \ {0} /\ KeyLen \in Nat \ {0}
      /\ ProofLen \in Nat \ {0} /\ BlobIdLen \in Nat \ {0}
  BY DEF WireLengths
<1>2. CASE r.kind = "Register"
  <2>1. /\ r = [kind |-> "Register", queue |-> r.queue, write |-> r.write, read |-> r.read]
        /\ r.queue \in BytesOf(QueueIdLen)
        /\ r.write \in BytesOf(KeyLen)
        /\ r.read \in BytesOf(KeyLen)
    BY <1>2 DEF WireRequest, BytesOf
  <2>2. Wire!RequestPayload(r) = (r.queue \o r.write) \o r.read
    BY <1>2 DEF Wire!RequestPayload
  <2> DEFINE payload == (r.queue \o r.write) \o r.read
  <2>3. /\ payload \in Seq(Byte) /\ Len(payload) = QueueIdLen + KeyLen + KeyLen
        /\ Wire!Field(payload, 0, QueueIdLen) = r.queue
        /\ Wire!Field(payload, QueueIdLen, KeyLen) = r.write
        /\ Wire!Field(payload, QueueIdLen + KeyLen, KeyLen) = r.read
    BY <1>1, <2>1, FieldsFound
  <2> HIDE DEF payload
  <2>4. Len(payload) = QueueIdLen + 2 * KeyLen
    BY <1>1, <2>3
  <2>5. RequestIn(0, payload) = r
    BY <2>1, <2>3, <2>4 DEF RequestIn
  <2> QED BY <1>2, <2>2, <2>3, <2>5, RequestTypes DEF payload, Byte
<1>3. CASE r.kind = "ChallengeRequest"
  <2>1. /\ r = [kind |-> "ChallengeRequest", queue |-> r.queue, right |-> r.right]
        /\ r.queue \in BytesOf(QueueIdLen) /\ r.right \in {"Write", "Read"}
    BY <1>3 DEF WireRequest, BytesOf
  <2> DEFINE byte == Wire!RightByte[r.right]
             payload == Append(r.queue, byte)
  <2>2. Wire!RequestPayload(r) = payload
    BY <1>3 DEF Wire!RequestPayload
  <2>3. byte \in {0, 1} /\ byte \in Byte /\ Wire!NameOf(Wire!RightByte, byte) = r.right
    BY <2>1, Rights DEF Byte
  <2> HIDE DEF byte
  <2>4. payload \in Seq(Byte) /\ Len(payload) = QueueIdLen + 1 /\ payload[QueueIdLen + 1] = byte
    BY <2>1, <2>3, AppendProperties DEF BytesOf
  <2>5. Wire!Field(payload, 0, QueueIdLen) = r.queue
    <3>1. <<byte>> \in BytesOf(1) /\ payload = r.queue \o <<byte>>
      BY <2>1, <2>3, AppendIsConcat DEF BytesOf
    <3>2. PICK one, n : one = <<byte>> /\ n = 1
      OBVIOUS
    <3>3. n \in Nat /\ one \in BytesOf(n) /\ payload = r.queue \o one
      BY <3>1, <3>2
    <3>4. Wire!Field(r.queue \o one, 0, QueueIdLen) = r.queue
      <4>1. QueueIdLen \in Nat
        BY <1>1
      <4> QED BY ONLY <2>1, <3>3, <4>1, TwoFieldsFound
    <3> QED BY <3>3, <3>4
  <2> HIDE DEF payload
  <2>6. RequestIn(1, payload) = r
    BY <2>1, <2>3, <2>4, <2>5 DEF RequestIn
  <2> QED BY <1>3, <2>2, <2>4, <2>6, RequestTypes DEF Byte
<1>4. CASE r.kind = "Write"
  <2> DEFINE n == Len(r.blob)
  <2>1. /\ r = [kind |-> "Write", queue |-> r.queue, proof |-> r.proof, blob |-> r.blob]
        /\ r.queue \in BytesOf(QueueIdLen)
        /\ r.proof \in BytesOf(ProofLen)
        /\ r.blob \in BytesOf(n) /\ n \in Nat
    BY <1>4, LenProperties DEF WireRequest, BytesOf
  <2> HIDE DEF n
  <2>2. Wire!RequestPayload(r) = (r.queue \o r.proof) \o r.blob
    BY <1>4 DEF Wire!RequestPayload
  <2> DEFINE payload == (r.queue \o r.proof) \o r.blob
  <2>3. /\ payload \in Seq(Byte) /\ Len(payload) = QueueIdLen + ProofLen + n
        /\ Wire!Field(payload, 0, QueueIdLen) = r.queue
        /\ Wire!Field(payload, QueueIdLen, ProofLen) = r.proof
        /\ Rest(payload, QueueIdLen + ProofLen) = r.blob
    BY <1>1, <2>1, FieldsFound
  <2> HIDE DEF payload
  <2>4. Len(payload) >= QueueIdLen + ProofLen
    BY <1>1, <2>1, <2>3
  <2>5. RequestIn(3, payload) = r
    BY <2>1, <2>3, <2>4 DEF RequestIn, Rest
  <2> QED BY <1>4, <2>2, <2>3, <2>5, RequestTypes DEF payload, Byte
<1>5. CASE r.kind = "Read"
  <2>1. /\ r = [kind |-> "Read", queue |-> r.queue, proof |-> r.proof]
        /\ r.queue \in BytesOf(QueueIdLen)
        /\ r.proof \in BytesOf(ProofLen)
    BY <1>5 DEF WireRequest, BytesOf
  <2>2. Wire!RequestPayload(r) = r.queue \o r.proof
    BY <1>5 DEF Wire!RequestPayload
  <2> DEFINE payload == r.queue \o r.proof
  <2>3. /\ payload \in Seq(Byte) /\ Len(payload) = QueueIdLen + ProofLen
        /\ Wire!Field(payload, 0, QueueIdLen) = r.queue
        /\ Wire!Field(payload, QueueIdLen, ProofLen) = r.proof
    BY <1>1, <2>1, TwoFieldsFound
  <2> HIDE DEF payload
  <2>5. RequestIn(4, payload) = r
    BY <2>1, <2>3 DEF RequestIn
  <2> QED BY <1>5, <2>2, <2>3, <2>5, RequestTypes DEF payload, Byte
<1>6. CASE r.kind = "Delete"
  <2>1. /\ r = [kind |-> "Delete", queue |-> r.queue, proof |-> r.proof, blobId |-> r.blobId]
        /\ r.queue \in BytesOf(QueueIdLen)
        /\ r.proof \in BytesOf(ProofLen)
        /\ r.blobId \in BytesOf(BlobIdLen)
    BY <1>6 DEF WireRequest, BytesOf
  <2>2. Wire!RequestPayload(r) = (r.queue \o r.proof) \o r.blobId
    BY <1>6 DEF Wire!RequestPayload
  <2> DEFINE payload == (r.queue \o r.proof) \o r.blobId
  <2>3. /\ payload \in Seq(Byte) /\ Len(payload) = QueueIdLen + ProofLen + BlobIdLen
        /\ Wire!Field(payload, 0, QueueIdLen) = r.queue
        /\ Wire!Field(payload, QueueIdLen, ProofLen) = r.proof
        /\ Wire!Field(payload, QueueIdLen + ProofLen, BlobIdLen) = r.blobId
    BY <1>1, <2>1, FieldsFound
  <2> HIDE DEF payload
  <2>5. RequestIn(6, payload) = r
    BY <2>1, <2>3 DEF RequestIn
  <2> QED BY <1>6, <2>2, <2>3, <2>5, RequestTypes DEF payload, Byte
<1> QED BY <1>2, <1>3, <1>4, <1>5, <1>6 DEF WireRequest

(* What a user asks of a relay is what the relay reads, however long the   *)
(* identifiers, keys, proofs and blobs are, if a record holds it           *)
(* (encode_request() and decode_request() in api.rs).                      *)
THEOREM RequestsReadBack ==
  ASSUME WireLengths, NEW r \in WireRequest, Len(Wire!RequestPayload(r)) <= MaxPayloadLen
  PROVE  Wire!DecodeRequest(Wire!EncodeRequest(r)) = r
<1> DEFINE type == Wire!RequestType[r.kind]
           payload == Wire!RequestPayload(r)
<1>1. payload \in Seq(Byte) /\ type \in Byte /\ RequestIn(type, payload) = r
  BY RequestWritten
<1>2. Wire!EncodeRequest(r) = Wire!Encode(Wire!RelayVersion, type, payload)
  BY DEF Wire!EncodeRequest
<1> HIDE DEF type, payload
<1>3. Len(payload) <= MaxPayloadLen
  BY DEF payload
<1>4. /\ Wire!Single(Wire!EncodeRequest(r))
      /\ Wire!RecordAt(Wire!EncodeRequest(r), 1) = Wire!Framed(type, payload)
  BY <1>1, <1>2, <1>3, SingleRead
<1> QED BY <1>1, <1>4, RequestDecoded

\* A payload that means a request is the one written for it.
LEMMA RequestRead ==
  ASSUME WireLengths, NEW type \in Byte, NEW payload \in Seq(Byte),
         RequestIn(type, payload) # Wire!Malformed
  PROVE  /\ RequestIn(type, payload) \in WireRequest
         /\ Wire!RequestType[RequestIn(type, payload).kind] = type
         /\ Wire!RequestPayload(RequestIn(type, payload)) = payload
<1> DEFINE length == Len(payload)
           queue == Wire!Field(payload, 0, QueueIdLen)
           proof == Wire!Field(payload, QueueIdLen, ProofLen)
           r == RequestIn(type, payload)
<1>1. /\ QueueIdLen \in Nat /\ KeyLen \in Nat /\ ProofLen \in Nat /\ BlobIdLen \in Nat
      /\ length \in Nat
  BY LenProperties DEF WireLengths
<1>2. CASE type = 0 /\ length = QueueIdLen + 2 * KeyLen
  <2> DEFINE write == Wire!Field(payload, QueueIdLen, KeyLen)
             read == Wire!Field(payload, QueueIdLen + KeyLen, KeyLen)
  <2>1. r = [kind |-> "Register", queue |-> queue, write |-> write, read |-> read]
    BY <1>2 DEF RequestIn
  <2>2. Len(payload) = QueueIdLen + KeyLen + KeyLen
    BY <1>1, <1>2
  <2>3. /\ queue \in BytesOf(QueueIdLen) /\ write \in BytesOf(KeyLen) /\ read \in BytesOf(KeyLen)
        /\ (queue \o write) \o read = payload
    <3>1. IsFields(payload, QueueIdLen, KeyLen, KeyLen)
      BY <1>1, <2>2, FieldsJoined
    <3> QED BY <3>1 DEF IsFields
  <2> HIDE DEF r, queue, write, read
  <2>4. r.kind = "Register" /\ r.queue = queue /\ r.write = write /\ r.read = read
    BY <2>1
  <2>5. Wire!RequestPayload(r) = payload
    BY <2>3, <2>4 DEF Wire!RequestPayload
  <2>6. r \in WireRequest
    BY <2>1, <2>3 DEF WireRequest
  <2> QED BY <1>2, <2>4, <2>5, <2>6, RequestTypes DEF r
<1>3. CASE type = 1 /\ length = QueueIdLen + 1 /\ payload[QueueIdLen + 1] \in {0, 1}
  <2> DEFINE byte == payload[QueueIdLen + 1]
             right == Wire!NameOf(Wire!RightByte, byte)
  <2>1. r = [kind |-> "ChallengeRequest", queue |-> queue, right |-> right]
    BY <1>3 DEF RequestIn
  <2>2. right \in {"Write", "Read"} /\ Wire!RightByte[right] = byte /\ byte \in Byte
    BY <1>3, Rights DEF Byte
  <2>3. queue \in BytesOf(QueueIdLen) /\ Append(queue, byte) = payload
    <3>1. PICK one, zero : one = 1 /\ zero = 0
      OBVIOUS
    <3>2. one \in Nat /\ zero \in Nat /\ Len(payload) = QueueIdLen + one + zero
      BY <1>1, <1>3, <3>1
    <3>3. queue \in BytesOf(QueueIdLen)
      <4>1. IsFields(payload, QueueIdLen, one, zero)
        BY <1>1, <3>2, FieldsJoined
      <4> QED BY <4>1 DEF IsFields
    <3> HIDE DEF queue
    <3>4. Append(queue, byte) \in Seq(Byte) /\ Len(Append(queue, byte)) = Len(payload)
          /\ Append(queue, byte)[QueueIdLen + 1] = byte
          /\ \A i \in 1..QueueIdLen : Append(queue, byte)[i] = queue[i]
      BY <1>1, <1>3, <2>2, <3>3, AppendProperties DEF BytesOf
    <3>5. \A i \in 1..QueueIdLen : queue[i] = payload[i]
      <4>1. 0 \in Nat /\ 0 + QueueIdLen <= Len(payload) /\ \A i \in 1..QueueIdLen : 0 + i = i
        BY <1>1, <1>3
      <4>2. \A i \in 1..QueueIdLen : SubSeq(payload, 0 + 1, 0 + QueueIdLen)[i] = payload[0 + i]
        BY <1>1, <4>1, Within
      <4> QED BY <4>1, <4>2 DEF queue, Wire!Field
    <3>6. \A i \in 1..Len(payload) : Append(queue, byte)[i] = payload[i]
      <4> TAKE i \in 1..Len(payload)
      <4>1. i \in 1..QueueIdLen \/ i = QueueIdLen + 1
        BY <1>1, <1>3
      <4> QED BY <3>4, <3>5, <4>1
    <3> QED BY <3>3, <3>4, <3>6, SeqEqual
  <2> HIDE DEF r, queue, byte, right
  <2>4. r.kind = "ChallengeRequest" /\ r.queue = queue /\ r.right = right
    BY <2>1
  <2>5. Wire!RequestPayload(r) = payload
    BY <2>2, <2>3, <2>4 DEF Wire!RequestPayload
  <2>6. r \in WireRequest
    BY <2>1, <2>2, <2>3 DEF WireRequest
  <2> QED BY <1>3, <2>4, <2>5, <2>6, RequestTypes DEF r
<1>4. CASE type = 3 /\ length >= QueueIdLen + ProofLen
  <2> DEFINE n == length - (QueueIdLen + ProofLen)
             blob == Rest(payload, QueueIdLen + ProofLen)
  <2>1. r = [kind |-> "Write", queue |-> queue, proof |-> proof, blob |-> blob]
    BY <1>4 DEF RequestIn, Rest
  <2>2. n \in Nat /\ Len(payload) = QueueIdLen + ProofLen + n
    BY <1>1, <1>4
  <2> HIDE DEF n
  <2>3. /\ queue \in BytesOf(QueueIdLen) /\ proof \in BytesOf(ProofLen)
        /\ blob \in BytesOf(n) /\ (queue \o proof) \o blob = payload
    <3>1. IsFields(payload, QueueIdLen, ProofLen, n)
      BY <1>1, <2>2, FieldsJoined
    <3> QED BY <3>1 DEF IsFields
  <2> HIDE DEF r, queue, proof, blob
  <2>4. r.kind = "Write" /\ r.queue = queue /\ r.proof = proof /\ r.blob = blob
    BY <2>1
  <2>5. Wire!RequestPayload(r) = payload
    BY <2>3, <2>4 DEF Wire!RequestPayload
  <2>6. r \in WireRequest
    BY <2>1, <2>3 DEF WireRequest, BytesOf
  <2> QED BY <1>4, <2>4, <2>5, <2>6, RequestTypes DEF r
<1>5. CASE type = 4 /\ length = QueueIdLen + ProofLen
  <2>1. r = [kind |-> "Read", queue |-> queue, proof |-> proof]
    BY <1>5 DEF RequestIn
  <2>2. Len(payload) = QueueIdLen + ProofLen
    BY <1>5
  <2>3. queue \in BytesOf(QueueIdLen) /\ proof \in BytesOf(ProofLen) /\ queue \o proof = payload
    BY <1>1, <2>2, TwoFieldsJoined
  <2> HIDE DEF r, queue, proof
  <2>4. r.kind = "Read" /\ r.queue = queue /\ r.proof = proof
    BY <2>1
  <2>5. Wire!RequestPayload(r) = payload
    BY <2>3, <2>4 DEF Wire!RequestPayload
  <2>6. r \in WireRequest
    BY <2>1, <2>3 DEF WireRequest
  <2> QED BY <1>5, <2>4, <2>5, <2>6, RequestTypes DEF r
<1>6. CASE type = 6 /\ length = QueueIdLen + ProofLen + BlobIdLen
  <2> DEFINE blobId == Wire!Field(payload, QueueIdLen + ProofLen, BlobIdLen)
  <2>1. r = [kind |-> "Delete", queue |-> queue, proof |-> proof, blobId |-> blobId]
    BY <1>6 DEF RequestIn
  <2>2. Len(payload) = QueueIdLen + ProofLen + BlobIdLen
    BY <1>6
  <2>3. /\ queue \in BytesOf(QueueIdLen) /\ proof \in BytesOf(ProofLen)
        /\ blobId \in BytesOf(BlobIdLen) /\ (queue \o proof) \o blobId = payload
    <3>1. IsFields(payload, QueueIdLen, ProofLen, BlobIdLen)
      BY <1>1, <2>2, FieldsJoined
    <3> QED BY <3>1 DEF IsFields
  <2> HIDE DEF r, queue, proof, blobId
  <2>4. r.kind = "Delete" /\ r.queue = queue /\ r.proof = proof /\ r.blobId = blobId
    BY <2>1
  <2>5. Wire!RequestPayload(r) = payload
    BY <2>3, <2>4 DEF Wire!RequestPayload
  <2>6. r \in WireRequest
    BY <2>1, <2>3 DEF WireRequest
  <2> QED BY <1>6, <2>4, <2>5, <2>6, RequestTypes DEF r
<1> QED BY <1>2, <1>3, <1>4, <1>5, <1>6 DEF RequestIn

(* No two byte strings are the same request: what the relay reads as one   *)
(* is what a user writes for it, with nothing left over (decode_request()  *)
(* and single() in api.rs).                                                *)
THEOREM RequestsWrittenOnce ==
  ASSUME WireLengths, NEW input \in Seq(Byte), Wire!DecodeRequest(input) # Wire!Malformed
  PROVE  /\ Wire!DecodeRequest(input) \in WireRequest
         /\ Wire!EncodeRequest(Wire!DecodeRequest(input)) = input
<1>1. Wire!Single(input)
  BY DEF Wire!DecodeRequest
<1>2. PICK type \in Byte, payload \in Seq(Byte) :
           /\ Wire!RecordAt(input, 1) = Wire!Framed(type, payload)
           /\ Wire!Encode(Wire!RelayVersion, type, payload) = input
  BY <1>1, SingleWritten
<1>3. Wire!DecodeRequest(input) = RequestIn(type, payload)
  BY <1>1, <1>2, RequestDecoded
<1>4. /\ RequestIn(type, payload) \in WireRequest
      /\ Wire!RequestType[RequestIn(type, payload).kind] = type
      /\ Wire!RequestPayload(RequestIn(type, payload)) = payload
  BY <1>3, RequestRead
<1>5. Wire!EncodeRequest(RequestIn(type, payload)) = input
  BY <1>2, <1>4 DEF Wire!EncodeRequest
<1> QED BY <1>3, <1>4, <1>5

-----------------------------------------------------------------------------
(* What a relay answers. *)

WireResponse ==
  [kind : {"Challenge"}, challenge : BytesOf(KeyLen)]
    \cup [kind : {"Blob"}, blobId : BytesOf(BlobIdLen), blob : Seq(Byte)]
    \cup [kind : {"Ok", "Empty"}]
    \cup [kind : {"Refused"}, why : Refusal]

\* The byte of every type of response, both ways.
LEMMA ResponseTypes ==
  /\ Wire!ResponseType["Challenge"] = 2 /\ Wire!ResponseType["Blob"] = 5
  /\ Wire!ResponseType["Ok"] = 7 /\ Wire!ResponseType["Empty"] = 8
  /\ Wire!ResponseType["Refused"] = 9
  /\ Wire!NameOf(Wire!ResponseType, 2) = "Challenge"
  /\ Wire!NameOf(Wire!ResponseType, 5) = "Blob"
  /\ Wire!NameOf(Wire!ResponseType, 7) = "Ok"
  /\ Wire!NameOf(Wire!ResponseType, 8) = "Empty"
  /\ Wire!NameOf(Wire!ResponseType, 9) = "Refused"
  /\ \A byte : Wire!IsByteOf(Wire!ResponseType, byte) <=> byte \in {2, 5, 7, 8, 9}
<1>1. DOMAIN Wire!ResponseType = {"Challenge", "Blob", "Ok", "Empty", "Refused"}
  BY DEF Wire!ResponseType
<1>2. /\ Wire!ResponseType["Challenge"] = 2 /\ Wire!ResponseType["Blob"] = 5
      /\ Wire!ResponseType["Ok"] = 7 /\ Wire!ResponseType["Empty"] = 8
      /\ Wire!ResponseType["Refused"] = 9
  BY DEF Wire!ResponseType
<1>3. ASSUME NEW name \in DOMAIN Wire!ResponseType
      PROVE  Wire!NameOf(Wire!ResponseType, Wire!ResponseType[name]) = name
  BY <1>1, <1>2 DEF Wire!NameOf
<1>4. \A byte : Wire!IsByteOf(Wire!ResponseType, byte) <=> byte \in {2, 5, 7, 8, 9}
  BY <1>1, <1>2 DEF Wire!IsByteOf
<1> QED BY <1>1, <1>2, <1>3, <1>4

\* The byte of every refusal, both ways.
LEMMA Refusals ==
  /\ \A why \in Refusal : /\ Wire!RefusalByte[why] \in Byte
                          /\ Wire!IsByteOf(Wire!RefusalByte, Wire!RefusalByte[why])
                          /\ Wire!NameOf(Wire!RefusalByte, Wire!RefusalByte[why]) = why
  /\ \A byte : Wire!IsByteOf(Wire!RefusalByte, byte) =>
                 /\ Wire!NameOf(Wire!RefusalByte, byte) \in Refusal
                 /\ Wire!RefusalByte[Wire!NameOf(Wire!RefusalByte, byte)] = byte
<1>1. DOMAIN Wire!RefusalByte = Refusal
  BY DEF Wire!RefusalByte, Refusal
<1>2. /\ Wire!RefusalByte["UnknownQueue"] = 0 /\ Wire!RefusalByte["BadProof"] = 1
      /\ Wire!RefusalByte["TooLarge"] = 2 /\ Wire!RefusalByte["QueueFull"] = 3
      /\ Wire!RefusalByte["UnknownChallenge"] = 4
  BY DEF Wire!RefusalByte
<1>3. ASSUME NEW why \in Refusal
      PROVE  /\ Wire!RefusalByte[why] \in Byte
             /\ Wire!IsByteOf(Wire!RefusalByte, Wire!RefusalByte[why])
             /\ Wire!NameOf(Wire!RefusalByte, Wire!RefusalByte[why]) = why
  <2>1. Wire!RefusalByte[why] \in Byte
    BY <1>2 DEF Refusal, Byte
  <2>2. \A other \in Refusal : Wire!RefusalByte[other] = Wire!RefusalByte[why] => other = why
    BY <1>2 DEF Refusal
  <2> QED BY <1>1, <2>1, <2>2 DEF Wire!IsByteOf, Wire!NameOf
<1>4. ASSUME NEW byte, Wire!IsByteOf(Wire!RefusalByte, byte)
      PROVE  /\ Wire!NameOf(Wire!RefusalByte, byte) \in Refusal
             /\ Wire!RefusalByte[Wire!NameOf(Wire!RefusalByte, byte)] = byte
  BY <1>1, <1>4 DEF Wire!IsByteOf, Wire!NameOf
<1> QED BY <1>3, <1>4

\* What is made of the one record of a response, type by type.
ResponseIn(type, payload) ==
  LET length == Len(payload) IN
  IF type = 2 /\ length = KeyLen THEN [kind |-> "Challenge", challenge |-> payload]
  ELSE IF type = 5 /\ length >= BlobIdLen
    THEN [kind |-> "Blob", blobId |-> Wire!Field(payload, 0, BlobIdLen),
          blob |-> Rest(payload, BlobIdLen)]
  ELSE IF type = 7 /\ length = 0 THEN [kind |-> "Ok"]
  ELSE IF type = 8 /\ length = 0 THEN [kind |-> "Empty"]
  ELSE IF type = 9 /\ length = 1 /\ Wire!IsByteOf(Wire!RefusalByte, payload[1])
    THEN [kind |-> "Refused", why |-> Wire!NameOf(Wire!RefusalByte, payload[1])]
  ELSE Wire!Malformed

\* decode_response() after single().
LEMMA ResponseDecoded ==
  ASSUME NEW input, NEW type, NEW payload, Wire!Single(input),
         Wire!RecordAt(input, 1) = Wire!Framed(type, payload)
  PROVE  Wire!DecodeResponse(input) = ResponseIn(type, payload)
<1>1. Wire!RecordAt(input, 1).type = type /\ Wire!RecordAt(input, 1).payload = payload
  BY DEF Wire!Framed
<1>2. CASE type \notin {2, 5, 7, 8, 9}
  <2>1. ~Wire!IsByteOf(Wire!ResponseType, type)
    BY <1>2, ResponseTypes
  <2> QED BY <1>1, <1>2, <2>1 DEF Wire!DecodeResponse, ResponseIn
<1>3. CASE type = 2
  BY <1>1, <1>3, ResponseTypes DEF Wire!DecodeResponse, ResponseIn
<1>4. CASE type = 5
  BY <1>1, <1>4, ResponseTypes DEF Wire!DecodeResponse, ResponseIn, Rest
<1>5. CASE type = 7
  BY <1>1, <1>5, ResponseTypes DEF Wire!DecodeResponse, ResponseIn
<1>6. CASE type = 8
  BY <1>1, <1>6, ResponseTypes DEF Wire!DecodeResponse, ResponseIn
<1>7. CASE type = 9
  BY <1>1, <1>7, ResponseTypes DEF Wire!DecodeResponse, ResponseIn
<1> QED BY <1>2, <1>3, <1>4, <1>5, <1>6, <1>7

\* The payload written for a response means that response.
LEMMA ResponseWritten ==
  ASSUME WireLengths, NEW r \in WireResponse
  PROVE  /\ Wire!ResponsePayload(r) \in Seq(Byte)
         /\ Wire!ResponseType[r.kind] \in Byte
         /\ ResponseIn(Wire!ResponseType[r.kind], Wire!ResponsePayload(r)) = r
<1>1. KeyLen \in Nat \ {0} /\ BlobIdLen \in Nat \ {0}
  BY DEF WireLengths
<1>2. CASE r.kind = "Challenge"
  <2>1. /\ r = [kind |-> "Challenge", challenge |-> r.challenge]
        /\ r.challenge \in Seq(Byte) /\ Len(r.challenge) = KeyLen
    BY <1>2 DEF WireResponse, BytesOf
  <2>2. Wire!ResponsePayload(r) = r.challenge
    BY <1>2 DEF Wire!ResponsePayload
  <2>3. ResponseIn(2, r.challenge) = r
    BY <2>1 DEF ResponseIn
  <2> QED BY <1>2, <2>1, <2>2, <2>3, ResponseTypes DEF Byte
<1>3. CASE r.kind = "Blob"
  <2> DEFINE n == Len(r.blob)
             payload == r.blobId \o r.blob
  <2>1. /\ r = [kind |-> "Blob", blobId |-> r.blobId, blob |-> r.blob]
        /\ r.blobId \in BytesOf(BlobIdLen) /\ r.blob \in BytesOf(n) /\ n \in Nat
    BY <1>3, LenProperties DEF WireResponse, BytesOf
  <2> HIDE DEF n
  <2>2. Wire!ResponsePayload(r) = payload
    BY <1>3 DEF Wire!ResponsePayload
  <2>3. /\ payload \in Seq(Byte) /\ Len(payload) = BlobIdLen + n
        /\ Wire!Field(payload, 0, BlobIdLen) = r.blobId
        /\ Wire!Field(payload, BlobIdLen, n) = r.blob
    BY <1>1, <2>1, TwoFieldsFound
  <2> HIDE DEF payload
  <2>4. Rest(payload, BlobIdLen) = r.blob /\ Len(payload) >= BlobIdLen
    BY <1>1, <2>1, <2>3 DEF Rest, Wire!Field
  <2>5. ResponseIn(5, payload) = r
    BY <2>1, <2>3, <2>4 DEF ResponseIn
  <2> QED BY <1>3, <2>2, <2>3, <2>5, ResponseTypes DEF Byte
<1>4. CASE r.kind \in {"Ok", "Empty"}
  <2>1. r = [kind |-> r.kind]
    BY <1>4 DEF WireResponse
  <2>2. Wire!ResponsePayload(r) = <<>>
    BY <1>4 DEF Wire!ResponsePayload
  <2>3. ResponseIn(7, <<>>) = [kind |-> "Ok"] /\ ResponseIn(8, <<>>) = [kind |-> "Empty"]
    BY EmptySeq DEF ResponseIn
  <2> QED BY <1>4, <2>1, <2>2, <2>3, EmptySeq, ResponseTypes DEF Byte
<1>5. CASE r.kind = "Refused"
  <2> DEFINE byte == Wire!RefusalByte[r.why]
             payload == <<byte>>
  <2>1. r = [kind |-> "Refused", why |-> r.why] /\ r.why \in Refusal
    BY <1>5 DEF WireResponse
  <2>2. /\ byte \in Byte /\ Wire!IsByteOf(Wire!RefusalByte, byte)
        /\ Wire!NameOf(Wire!RefusalByte, byte) = r.why
    BY <2>1, Refusals
  <2>3. Wire!ResponsePayload(r) = payload
    BY <1>5 DEF Wire!ResponsePayload
  <2> HIDE DEF byte
  <2>4. payload \in Seq(Byte) /\ Len(payload) = 1 /\ payload[1] = byte
    BY <2>2
  <2> HIDE DEF payload
  <2>5. ResponseIn(9, payload) = r
    BY <2>1, <2>2, <2>4 DEF ResponseIn
  <2> QED BY <1>5, <2>3, <2>4, <2>5, ResponseTypes DEF Byte
<1> QED BY <1>2, <1>3, <1>4, <1>5 DEF WireResponse

(* What a relay answers is what the user reads (encode_response() and      *)
(* decode_response() in api.rs).                                           *)
THEOREM ResponsesReadBack ==
  ASSUME WireLengths, NEW r \in WireResponse, Len(Wire!ResponsePayload(r)) <= MaxPayloadLen
  PROVE  Wire!DecodeResponse(Wire!EncodeResponse(r)) = r
<1> DEFINE type == Wire!ResponseType[r.kind]
           payload == Wire!ResponsePayload(r)
<1>1. payload \in Seq(Byte) /\ type \in Byte /\ ResponseIn(type, payload) = r
  BY ResponseWritten
<1>2. Wire!EncodeResponse(r) = Wire!Encode(Wire!RelayVersion, type, payload)
  BY DEF Wire!EncodeResponse
<1> HIDE DEF type, payload
<1>3. Len(payload) <= MaxPayloadLen
  BY DEF payload
<1>4. /\ Wire!Single(Wire!EncodeResponse(r))
      /\ Wire!RecordAt(Wire!EncodeResponse(r), 1) = Wire!Framed(type, payload)
  BY <1>1, <1>2, <1>3, SingleRead
<1> QED BY <1>1, <1>4, ResponseDecoded

\* A payload that means a response is the one written for it.
LEMMA ResponseRead ==
  ASSUME WireLengths, NEW type \in Byte, NEW payload \in Seq(Byte),
         ResponseIn(type, payload) # Wire!Malformed
  PROVE  /\ ResponseIn(type, payload) \in WireResponse
         /\ Wire!ResponseType[ResponseIn(type, payload).kind] = type
         /\ Wire!ResponsePayload(ResponseIn(type, payload)) = payload
<1> DEFINE length == Len(payload)
           r == ResponseIn(type, payload)
<1>1. KeyLen \in Nat /\ BlobIdLen \in Nat /\ length \in Nat
  BY LenProperties DEF WireLengths
<1>2. CASE type = 2 /\ length = KeyLen
  <2>1. r = [kind |-> "Challenge", challenge |-> payload]
    BY <1>2 DEF ResponseIn
  <2>2. payload \in BytesOf(KeyLen)
    BY <1>2 DEF BytesOf
  <2> HIDE DEF r
  <2>3. r \in WireResponse /\ r.kind = "Challenge" /\ Wire!ResponsePayload(r) = payload
    BY <2>1, <2>2 DEF WireResponse, Wire!ResponsePayload
  <2> QED BY <1>2, <2>3, ResponseTypes DEF r
<1>3. CASE type = 5 /\ length >= BlobIdLen
  <2> DEFINE n == length - BlobIdLen
             blobId == Wire!Field(payload, 0, BlobIdLen)
             blob == Rest(payload, BlobIdLen)
  <2>1. r = [kind |-> "Blob", blobId |-> blobId, blob |-> blob]
    BY <1>3 DEF ResponseIn
  <2>2. n \in Nat /\ Len(payload) = BlobIdLen + n
    BY <1>1, <1>3
  <2> HIDE DEF n
  <2>3. /\ blobId \in BytesOf(BlobIdLen) /\ Wire!Field(payload, BlobIdLen, n) \in BytesOf(n)
        /\ blobId \o Wire!Field(payload, BlobIdLen, n) = payload
    BY <1>1, <2>2, TwoFieldsJoined
  <2>4. Wire!Field(payload, BlobIdLen, n) = blob
    BY <2>2 DEF Rest, Wire!Field
  <2> HIDE DEF r, blobId, blob
  <2>5. r.kind = "Blob" /\ r.blobId = blobId /\ r.blob = blob
    BY <2>1
  <2>6. Wire!ResponsePayload(r) = payload
    BY <2>3, <2>4, <2>5 DEF Wire!ResponsePayload
  <2>7. r \in WireResponse
    BY <2>1, <2>3, <2>4 DEF WireResponse, BytesOf
  <2> QED BY <1>3, <2>5, <2>6, <2>7, ResponseTypes DEF r
<1>4. CASE type \in {7, 8} /\ length = 0
  <2>1. payload = <<>>
    BY <1>4, EmptySeq
  <2>2. r = [kind |-> IF type = 7 THEN "Ok" ELSE "Empty"]
    BY <1>4 DEF ResponseIn
  <2> HIDE DEF r
  <2>3. r.kind = (IF type = 7 THEN "Ok" ELSE "Empty")
    BY <2>2
  <2>4. Wire!ResponsePayload(r) = payload
    BY <2>1, <2>3 DEF Wire!ResponsePayload
  <2>5. r \in WireResponse
    BY <2>2 DEF WireResponse
  <2>6. Wire!ResponseType[r.kind] = type
    BY <1>4, <2>3, ResponseTypes
  <2> QED BY <2>4, <2>5, <2>6 DEF r
<1>5. CASE type = 9 /\ length = 1 /\ Wire!IsByteOf(Wire!RefusalByte, payload[1])
  <2> DEFINE why == Wire!NameOf(Wire!RefusalByte, payload[1])
  <2>1. r = [kind |-> "Refused", why |-> why]
    BY <1>5 DEF ResponseIn
  <2>2. why \in Refusal /\ Wire!RefusalByte[why] = payload[1]
    BY <1>5, Refusals
  <2>3. payload = <<payload[1]>>
    BY <1>5
  <2> HIDE DEF r, why
  <2>4. r \in WireResponse /\ r.kind = "Refused" /\ r.why = why
    BY <2>1, <2>2 DEF WireResponse
  <2>5. Wire!ResponsePayload(r) = payload
    BY <2>2, <2>3, <2>4 DEF Wire!ResponsePayload
  <2> QED BY <1>5, <2>4, <2>5, ResponseTypes DEF r
<1> QED BY <1>2, <1>3, <1>4, <1>5 DEF ResponseIn

(* No two byte strings are the same response (decode_response() and        *)
(* single() in api.rs).                                                    *)
THEOREM ResponsesWrittenOnce ==
  ASSUME WireLengths, NEW input \in Seq(Byte), Wire!DecodeResponse(input) # Wire!Malformed
  PROVE  /\ Wire!DecodeResponse(input) \in WireResponse
         /\ Wire!EncodeResponse(Wire!DecodeResponse(input)) = input
<1>1. Wire!Single(input)
  BY DEF Wire!DecodeResponse
<1>2. PICK type \in Byte, payload \in Seq(Byte) :
           /\ Wire!RecordAt(input, 1) = Wire!Framed(type, payload)
           /\ Wire!Encode(Wire!RelayVersion, type, payload) = input
  BY <1>1, SingleWritten
<1>3. Wire!DecodeResponse(input) = ResponseIn(type, payload)
  BY <1>1, <1>2, ResponseDecoded
<1>4. /\ ResponseIn(type, payload) \in WireResponse
      /\ Wire!ResponseType[ResponseIn(type, payload).kind] = type
      /\ Wire!ResponsePayload(ResponseIn(type, payload)) = payload
  BY <1>3, ResponseRead
<1>5. Wire!EncodeResponse(ResponseIn(type, payload)) = input
  BY <1>2, <1>4 DEF Wire!EncodeResponse
<1> QED BY <1>3, <1>4, <1>5
=============================================================================
