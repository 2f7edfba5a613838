---------------------------- MODULE RelayDaemon ----------------------------
(***************************************************************************)
(* The relay daemon: one thread per connection over a store and a map of   *)
(* outstanding challenges behind one lock (crates/relayd/src/lib.rs), and  *)
(* the handler that answers one request (crates/relay/src/api.rs).         *)
(*                                                                         *)
(* A thread reads a record, reads the clock and only then takes the lock:  *)
(* Receive is the part before the lock, an Answer action the part under    *)
(* it.  A stamp may therefore be older than stamps already applied.  Lag   *)
(* bounds how far a stamp trails the clock when it is applied, whether the *)
(* thread was kept waiting or the system clock was set back.               *)
(***************************************************************************)
EXTENDS RelayStore

CONSTANTS Conn,       \* connections
          Challenge,  \* challenge values
          Lag,        \* the bound on late stamps
          MaxClock, MaxStarts  \* bounds of an instance

ASSUME LagAssumption == Lag \in Nat /\ QueueLife >= BlobLife + Lag

ASSUME DaemonBoundAssumption == MaxClock \in Nat /\ MaxStarts \in Nat

VARIABLES store,       \* Shared.store
          challenges,  \* Shared.challenges, a map from <<queue, right>>
          conn,        \* what each connection's thread is doing
          clock,       \* the time of day
          starts       \* how often the process was started again

daemonVars == <<store, challenges, conn, clock, starts>>

-----------------------------------------------------------------------------
Right == {"Write", "Read"}

Proof == [key : Key, right : Right, challenge : Challenge]

Request ==
  [kind : {"Register"}, queue : Queue, registration : Registration]
    \cup [kind : {"ChallengeRequest"}, queue : Queue, right : Right]
    \cup [kind : {"Write"}, queue : Queue, proof : Proof, blob : Blob]
    \cup [kind : {"Read"}, queue : Queue, proof : Proof]
    \cup [kind : {"Delete"}, queue : Queue, proof : Proof, blob : Blob]
    \cup [kind : {"Malformed"}]

Refusal == {"UnknownQueue", "BadProof", "TooLarge", "QueueFull", "UnknownChallenge"}

Response ==
  [kind : {"Ok", "Empty"}]
    \cup [kind : {"Challenge"}, challenge : Challenge]
    \cup [kind : {"Blob"}, blob : Blob]
    \cup [kind : {"Refused"}, why : Refusal]

IsChallenges(m) ==
  DOMAIN m \subseteq Queue \X Right /\ m \in [DOMAIN m -> Challenge]

ConnState ==
  [phase : {"closed", "reading"}]
    \cup [phase : {"answering"}, request : Request, stamp : Nat]
    \cup [phase : {"replied"}, reply : Response]

DaemonTypeOK ==
  /\ IsStore(store)
  /\ IsChallenges(challenges)
  /\ conn \in [Conn -> ConnState]
  /\ clock \in Nat
  /\ starts \in Nat

DaemonInit ==
  /\ store = EmptyStore
  /\ challenges = [k \in {} |-> {}]
  /\ conn = [c \in Conn |-> [phase |-> "closed"]]
  /\ clock = 0
  /\ starts = 0

-----------------------------------------------------------------------------
(* The thread of a connection, outside the lock. *)

Accept(c) ==
  /\ conn[c].phase = "closed"
  /\ conn' = [conn EXCEPT ![c] = [phase |-> "reading"]]
  /\ UNCHANGED <<store, challenges, clock, starts>>

\* A whole record is in and the clock is read.
Receive(c, r) ==
  /\ conn[c].phase = "reading"
  /\ \E t \in {u \in 0..clock : clock <= u + Lag} :
       conn' = [conn EXCEPT ![c] = [phase |-> "answering", request |-> r, stamp |-> t]]
  /\ UNCHANGED <<store, challenges, clock, starts>>

\* The reply reached the client; the thread reads again.
Reply(c) ==
  /\ conn[c].phase = "replied"
  /\ conn' = [conn EXCEPT ![c] = [phase |-> "reading"]]
  /\ UNCHANGED <<store, challenges, clock, starts>>

\* The client is gone: a read or the writing of a reply fails.
Hangup(c) ==
  /\ conn[c].phase \in {"reading", "replied"}
  /\ conn' = [conn EXCEPT ![c] = [phase |-> "closed"]]
  /\ UNCHANGED <<store, challenges, clock, starts>>

-----------------------------------------------------------------------------
(* The answer, under the lock. *)

Answering(c, kinds) == conn[c].phase = "answering" /\ conn[c].request.kind \in kinds

Answer(c, reply) ==
  /\ conn' = [conn EXCEPT ![c] = [phase |-> "replied", reply |-> reply]]
  /\ UNCHANGED <<clock, starts>>

Refuse(c, why) == Answer(c, [kind |-> "Refused", why |-> why])

\* The store as the handler finds it: answer() expires it first.
Current(c) == Expired(store, conn[c].stamp)

\* The generator failed before the lock was taken.
AnswerWithoutRandomness(c) ==
  /\ conn[c].phase = "answering"
  /\ Answer(c, [kind |-> "Empty"])
  /\ UNCHANGED <<store, challenges>>

AnswerMalformed(c) ==
  /\ Answering(c, {"Malformed"})
  /\ Answer(c, [kind |-> "Empty"])
  /\ store' = Current(c)
  /\ UNCHANGED challenges

AnswerRegister(c) ==
  LET r == conn[c].request IN
  /\ Answering(c, {"Register"})
  /\ Answer(c, [kind |-> "Ok"])
  /\ store' = Registered(Current(c), r.queue, r.registration, conn[c].stamp)
  /\ UNCHANGED challenges

\* A new challenge takes the place of the one outstanding for that right.
Outstanding(q, right, fresh) ==
  LET k == <<q, right>> IN
  [x \in DOMAIN challenges \cup {k} |-> IF x = k THEN fresh ELSE challenges[x]]

AnswerChallengeRequest(c, fresh) ==
  LET r == conn[c].request IN
  /\ Answering(c, {"ChallengeRequest"})
  /\ store' = Current(c)
  /\ \/ /\ r.queue \notin DOMAIN store'
        /\ Refuse(c, "UnknownQueue")
        /\ UNCHANGED challenges
     \/ /\ r.queue \in DOMAIN store'
        /\ Answer(c, [kind |-> "Challenge", challenge |-> fresh])
        /\ challenges' = Outstanding(r.queue, r.right, fresh)

-----------------------------------------------------------------------------
(* spend(): the outstanding challenge is taken, then the proof is checked. *)

\* The right a request needs: deleting is a reader's business.
RightFor(r) == IF r.kind = "Write" THEN "Write" ELSE "Read"

ChallengeKey(r) == <<r.queue, RightFor(r)>>

\* Registration::check: the registered key of that right signed that challenge.
Verifies(reg, right, challenge, proof) ==
  /\ proof.key = (IF right = "Write" THEN reg.write ELSE reg.read)
  /\ proof.right = right
  /\ proof.challenge = challenge

\* A plausible slip: the challenge left in the map.
SpentKeepsChallenge(r) == challenges

\* A plausible slip: everything outstanding for the queue taken at once.
SpentForQueue(r) ==
  [k \in {x \in DOMAIN challenges : x[1] # r.queue} |-> challenges[k]]

Spent(r) == [k \in DOMAIN challenges \ {ChallengeKey(r)} |-> challenges[k]]

\* There is a challenge to take.
Spends(c) ==
  LET r == conn[c].request IN
  /\ Answering(c, {"Write", "Read", "Delete"})
  /\ r.queue \in DOMAIN Current(c)
  /\ ChallengeKey(r) \in DOMAIN challenges

ProofGood(c) ==
  LET r == conn[c].request IN
  Verifies(Current(c)[r.queue].registration, RightFor(r),
           challenges[ChallengeKey(r)], r.proof)

\* spend() refuses before it takes anything.
AnswerNothingToSpend(c) ==
  LET r == conn[c].request IN
  /\ Answering(c, {"Write", "Read", "Delete"})
  /\ ~Spends(c)
  /\ Refuse(c, IF r.queue \in DOMAIN Current(c)
               THEN "UnknownChallenge" ELSE "UnknownQueue")
  /\ store' = Current(c)
  /\ UNCHANGED challenges

\* A bad proof spends the challenge too.
AnswerBadProof(c) ==
  /\ Spends(c)
  /\ ~ProofGood(c)
  /\ Refuse(c, "BadProof")
  /\ store' = Current(c)
  /\ challenges' = Spent(conn[c].request)

AnswerWrite(c) ==
  LET r == conn[c].request IN
  /\ Answering(c, {"Write"})
  /\ Spends(c)
  /\ ProofGood(c)
  /\ challenges' = Spent(r)
  /\ \/ /\ Size[r.blob] > MaxBlobLen
        /\ Refuse(c, "TooLarge")
        /\ store' = Current(c)
     \/ /\ Size[r.blob] <= MaxBlobLen
        /\ ~Fits(Current(c), r.queue, r.blob)
        /\ Refuse(c, "QueueFull")
        /\ store' = Current(c)
     \/ /\ Size[r.blob] <= MaxBlobLen
        /\ Fits(Current(c), r.queue, r.blob)
        /\ Answer(c, [kind |-> "Ok"])
        /\ store' = Written(Current(c), r.queue, r.blob, conn[c].stamp)

AnswerRead(c) ==
  LET r == conn[c].request IN
  /\ Answering(c, {"Read"})
  /\ Spends(c)
  /\ ProofGood(c)
  /\ challenges' = Spent(r)
  /\ store' = Current(c)
  /\ \/ /\ Current(c)[r.queue].blobs = {}
        /\ Answer(c, [kind |-> "Empty"])
     \/ /\ Current(c)[r.queue].blobs # {}
        /\ Answer(c, [kind |-> "Blob", blob |-> Oldest(Current(c), r.queue).blob])

AnswerDelete(c) ==
  LET r == conn[c].request IN
  /\ Answering(c, {"Delete"})
  /\ Spends(c)
  /\ ProofGood(c)
  /\ challenges' = Spent(r)
  /\ Answer(c, [kind |-> "Ok"])
  /\ store' = Deleted(Current(c), r.queue, r.blob)

-----------------------------------------------------------------------------
\* The process ends and is started again: main() begins with an empty relay.
Restart ==
  /\ starts < MaxStarts
  /\ starts' = starts + 1
  /\ store' = EmptyStore
  /\ challenges' = [k \in {} |-> {}]
  /\ conn' = [c \in Conn |-> [phase |-> "closed"]]
  /\ UNCHANGED clock

\* Time passes, but no stamp waiting for the lock grows older than Lag.
Tick ==
  /\ clock < MaxClock
  /\ \A c \in Conn : conn[c].phase = "answering" => clock < conn[c].stamp + Lag
  /\ clock' = clock + 1
  /\ UNCHANGED <<store, challenges, conn, starts>>
=============================================================================
