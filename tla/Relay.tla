-------------------------------- MODULE Relay --------------------------------
(***************************************************************************)
(* The relay daemon before any client at all: a request may ask anything,  *)
(* with a proof by any key over any challenge that was ever handed out.    *)
(* Two history variables remember what the daemon forgets.  Each challenge *)
(* value is drawn once (32 bytes of getrandom), so Challenge bounds the    *)
(* challenge requests of a behaviour.                                      *)
(***************************************************************************)
EXTENDS RelayDaemon

VARIABLES issued,    \* who each challenge was handed to: its queue, right and connection
          accepted   \* how often a proof over each challenge was accepted

vars == <<store, challenges, conn, clock, starts, issued, accepted>>

Issue == [queue : Queue, right : Right, conn : Conn]

TypeOK ==
  /\ DaemonTypeOK
  /\ DOMAIN issued \subseteq Challenge /\ issued \in [DOMAIN issued -> Issue]
  /\ accepted \in [Challenge -> Nat]

Init ==
  /\ DaemonInit
  /\ issued = [c \in {} |-> {}]
  /\ accepted = [ch \in Challenge |-> 0]

-----------------------------------------------------------------------------
\* The requests a client can write down: it signs only what it has been given,
\* for the right it asked for, with any key and for use in any request.
Writable ==
  {r \in Request :
     "proof" \in DOMAIN r =>
        /\ r.proof.challenge \in DOMAIN issued
        /\ r.proof.right = issued[r.proof.challenge].right}

\* The challenge of the request a connection is answering was accepted.
Accepted(c) ==
  [accepted EXCEPT ![conn[c].request.proof.challenge] = @ + 1]

Unrecorded == UNCHANGED <<issued, accepted>>

IssueChallenge(c) ==
  \E fresh \in Challenge \ DOMAIN issued :
    /\ AnswerChallengeRequest(c, fresh)
    /\ issued' =
         IF conn'[c].reply.kind # "Challenge" THEN issued
         ELSE [ch \in DOMAIN issued \cup {fresh} |->
                 IF ch # fresh THEN issued[ch]
                 ELSE [queue |-> conn[c].request.queue,
                       right |-> conn[c].request.right, conn |-> c]]
    /\ UNCHANGED accepted

\* The three requests a good proof opens.
Serve(c) ==
  /\ AnswerWrite(c) \/ AnswerRead(c) \/ AnswerDelete(c)
  /\ accepted' = Accepted(c)
  /\ UNCHANGED issued

Thread(c) ==
  \/ Accept(c) /\ Unrecorded
  \/ (\E r \in Writable : Receive(c, r)) /\ Unrecorded
  \/ Reply(c) /\ Unrecorded
  \/ Hangup(c) /\ Unrecorded
  \/ AnswerWithoutRandomness(c) /\ Unrecorded
  \/ AnswerMalformed(c) /\ Unrecorded
  \/ AnswerRegister(c) /\ Unrecorded
  \/ AnswerNothingToSpend(c) /\ Unrecorded
  \/ AnswerBadProof(c) /\ Unrecorded
  \/ IssueChallenge(c)
  \/ Serve(c)

Next ==
  \/ \E c \in Conn : Thread(c)
  \/ Tick /\ Unrecorded
  \/ Restart /\ Unrecorded

Spec == Init /\ [][Next]_vars

-----------------------------------------------------------------------------
(* Every challenge is good once: however requests race for the lock, are   *)
(* sent again or replayed on another connection, no challenge carries two  *)
(* accepted proofs (spend() in api.rs).                                    *)
ChallengeGoodOnce == \A ch \in Challenge : accepted[ch] <= 1

(* A challenge is outstanding only under the queue and the right it was    *)
(* asked for, and not once a proof over it has been accepted.              *)
OutstandingAsIssued ==
  \A k \in DOMAIN challenges :
    LET ch == challenges[k] IN
    /\ ch \in DOMAIN issued
    /\ issued[ch].queue = k[1]
    /\ issued[ch].right = k[2]
    /\ accepted[ch] = 0

(* A client that was handed a challenge can count on it: the challenge     *)
(* stays until a request for the same queue and right takes it or asks for *)
(* another, whatever other queues and rights are used for, or until the    *)
(* process ends (handle() and spend() in api.rs).                          *)
CalledFor(k) ==
  \E c \in Conn :
    LET r == conn[c].request IN
    /\ conn[c].phase = "answering"
    /\ \/ r.kind = "ChallengeRequest" /\ <<r.queue, r.right>> = k
       \/ r.kind \in {"Write", "Read", "Delete"} /\ ChallengeKey(r) = k
    /\ conn'[c].phase = "replied"

AllKeptUntilCalledFor ==
  \A k \in DOMAIN challenges :
    \/ k \in DOMAIN challenges' /\ challenges'[k] = challenges[k]
    \/ CalledFor(k)
    \/ starts' # starts

ChallengeKeptUntilCalledFor == [][AllKeptUntilCalledFor]_vars

(* An accepted blob leaves its queue only by a delete that names it, by    *)
(* outliving BlobLife on the real clock, or with the process.  Late and    *)
(* out-of-order stamps move last_write_ms back, and still no queue is      *)
(* dropped from under a blob that has time left (expire() in store.rs).    *)
Deletes(c, q, b) ==
  /\ AnswerDelete(c)
  /\ conn[c].request.queue = q
  /\ conn[c].request.blob = b

LeavesOnlyWhenDue(q, e) ==
  \/ q \in DOMAIN store' /\ e \in store'[q].blobs
  \/ \E c \in Conn : Deletes(c, q, e.blob)
  \/ e.at + BlobLife < clock
  \/ starts' # starts

AllLeaveOnlyWhenDue ==
  \A q \in DOMAIN store : \A e \in store[q].blobs : LeavesOnlyWhenDue(q, e)

NoUnexpiredLoss == [][AllLeaveOnlyWhenDue]_vars

(* Why that holds: a stamp waiting for the lock trails the clock by at most *)
(* Lag, so last_write_ms, though it may move back, stays within Lag of the  *)
(* youngest blob, and QueueLife exceeds BlobLife by Lag (answer() in        *)
(* relayd, write() in store.rs).                                            *)
StampsInTime ==
  \A c \in Conn : conn[c].phase = "answering" =>
    conn[c].stamp <= clock /\ clock <= conn[c].stamp + Lag

Covered(s, now) ==
  \A q \in DOMAIN s :
    /\ s[q].lastWrite <= now
    /\ \A e \in s[q].blobs : e.at <= now /\ e.at <= s[q].lastWrite + Lag

LateStampsCovered == StampsInTime /\ Covered(store, clock)

(* The keys of a queue never change under it: a registration gives way     *)
(* only when the queue went QueueLife without a write (register() and      *)
(* expire() in store.rs, which one locked step may run one after the       *)
(* other).                                                                 *)
KeysChangeOnlyAfterLapse ==
  \A q \in DOMAIN store \cap DOMAIN store' :
    \/ store'[q].registration = store[q].registration
    \/ store[q].lastWrite + QueueLife < clock

KeysPinned == [][KeysChangeOnlyAfterLapse]_vars

(* spec/60-relay.md section 4a of a challenge: "the relay forgets it when   *)
(* it is used or when the connection ends".  The map in handle() knows no  *)
(* connections.                                                            *)
ForgottenAtHangup ==
  \A k \in DOMAIN challenges : conn[issued[challenges[k]].conn].phase # "closed"
=============================================================================
