---------------------------- MODULE SyncSession ----------------------------
(***************************************************************************)
(* Two devices that synchronise the messages they share (plan() in         *)
(* crates/sync/src/session.rs, the state it works on in peer.rs).  Records *)
(* travel over a transport that loses, repeats and reorders them.          *)
(*                                                                         *)
(* The caller is external: it keeps the entries, tells the clock and feeds *)
(* what arrives to the handlers of PeerMessageState, and it writes what    *)
(* plan() returns with encode_record(), which refuses a list of more       *)
(* identifiers than a record has room for.  An identifier record is one    *)
(* record here for each of its identifiers.  max_latency is written and    *)
(* never read, and is left out.                                            *)
(***************************************************************************)
EXTENDS Integers, FiniteSets

CONSTANTS Message,       \* message identifiers
          RecordCapacity, \* identifiers in one record: MAX_PAYLOAD_LEN / HASH_LEN
          Latency,       \* transport_latency_ms, in ticks of the clock
          MaxDoublings,  \* MAX_BACKOFF_DOUBLINGS
          MaxSendCount   \* u32::MAX, where the count of sendings stops

ASSUME CapacityAssumption == RecordCapacity \in Nat \ {0}
ASSUME LatencyAssumption == Latency \in Nat
ASSUME DoublingsAssumption == MaxDoublings \in Nat
ASSUME SendCountAssumption == MaxSendCount \in Nat \ {0}

Device == {"a", "b"}
Other(d) == IF d = "a" THEN "b" ELSE "a"

Mode == {"Interactive", "Batch", "Eager"}

\* "none": no entry.  "gone": shared, and the body deleted.
Holding == {"none", "held", "gone"}

SyncRecord ==
  [type : {"Ack", "Message", "Offer", "Request", "Unavailable"}, id : Message]

\* What the delay grows to, however high the count.
LongestDelay == IF Latency = 0 THEN 1 ELSE Latency * 2^MaxDoublings

\* next_send_time is kept as the wait until then.
PeerMessageState ==
  [seen : BOOLEAN, ackPending : BOOLEAN, requested : BOOLEAN,
   sendCount : 0..MaxSendCount, wait : 0..LongestDelay]

VARIABLES holds,      \* what a device holds of each message
          state,      \* its PeerMessageState for the other device
          offered,    \* offered_by_peer: offered, not held, not yet requested
          awaiting,   \* what it requested and has had no answer for
          inFlight    \* records on their way to a device

vars == <<holds, state, offered, awaiting, inFlight>>

TypeOK ==
  /\ holds \in [Device -> [Message -> Holding]]
  /\ state \in [Device -> [Message -> PeerMessageState]]
  /\ offered \in [Device -> SUBSET Message]
  /\ awaiting \in [Device -> SUBSET Message]
  /\ inFlight \in [Device -> SUBSET SyncRecord]

-----------------------------------------------------------------------------
(* PeerMessageState. *)

NewState ==
  [seen |-> FALSE, ackPending |-> FALSE, requested |-> FALSE,
   sendCount |-> 0, wait |-> 0]

AtLeastOne(n) == IF n < 1 THEN 1 ELSE n
AtMost(n, bound) == IF n > bound THEN bound ELSE n

\* A plausible slip: no limit to the doublings.
BackoffUncapped(count) == AtLeastOne(Latency * 2^(count - 1))

\* The delay after the count-th time.
Backoff(count) == AtLeastOne(Latency * 2^AtMost(count - 1, MaxDoublings))

\* A plausible slip: what was sent is taken to have arrived.
OnSentAndSeen(s) ==
  [s EXCEPT !.seen = TRUE, !.requested = FALSE]

\* The count saturates; only the delay has a limit of its own.
OnSent(s) ==
  LET count == AtMost(s.sendCount + 1, MaxSendCount)
  IN  [s EXCEPT !.sendCount = count, !.requested = FALSE, !.wait = Backoff(count)]

OnPeerAcked(s) == [s EXCEPT !.seen = TRUE]

\* A plausible slip: the flag read as "we have acknowledged".
OnPeerOfferedUnowed(s) == [s EXCEPT !.seen = TRUE, !.ackPending = FALSE]

OnPeerOffered(s) == [s EXCEPT !.seen = TRUE, !.ackPending = TRUE]

OnAcknowledged(s) == [s EXCEPT !.ackPending = FALSE]

OnPeerRequested(s) == [s EXCEPT !.requested = TRUE]

-----------------------------------------------------------------------------
(* plan(): what one entry contributes, then the whole opportunity. *)

Ready(s, mode) == mode = "Eager" \/ s.wait = 0

\* A plausible slip: what is unseen is offered even when it was asked for.
ChosenOfferFirst(s, mode) ==
  CASE Ready(s, mode) /\ mode = "Interactive" /\ ~s.seen -> "offer"
    [] Ready(s, mode) /\ (s.seen \/ mode # "Interactive") /\ (~s.seen \/ s.requested) -> "send"
    [] OTHER -> "nothing"

Chosen(s, mode) ==
  CASE Ready(s, mode) /\ (s.requested \/ (mode # "Interactive" /\ ~s.seen)) -> "send"
    [] Ready(s, mode) /\ mode = "Interactive" /\ ~s.requested /\ ~s.seen -> "offer"
    [] OTHER -> "nothing"

\* A plausible slip: a request that has to wait is forgotten.
PlannedImpatient(s, mode) ==
  IF Chosen(s, mode) = "nothing"
    THEN [OnAcknowledged(s) EXCEPT !.requested = FALSE]
    ELSE OnSent(OnAcknowledged(s))

Planned(s, mode) ==
  IF Chosen(s, mode) = "nothing" THEN OnAcknowledged(s) ELSE OnSent(OnAcknowledged(s))

Shared(d) == {m \in Message : holds[d][m] # "none"}

Records(type, ids) == [type : {type}, id : ids]

\* encode_record() of one list: all of it or, too long for a record, nothing.
Encodable(ids) == IF Cardinality(ids) <= RecordCapacity THEN ids ELSE {}

\* A plausible slip: silence for a message that is gone.
PlannedRecordsSilent(d, mode) ==
  LET sending == {m \in Shared(d) : Chosen(state[d][m], mode) = "send"}
  IN  Records("Ack", Encodable({m \in Shared(d) : state[d][m].ackPending}))
        \cup Records("Request", Encodable(offered[d]))
        \cup Records("Message", {m \in sending : holds[d][m] = "held"})
        \cup Records("Offer", Encodable({m \in Shared(d) : Chosen(state[d][m], mode) = "offer"}))

\* What goes out of plan()'s records: a message is a record of its own.
PlannedRecords(d, mode) ==
  LET sending == {m \in Shared(d) : Chosen(state[d][m], mode) = "send"}
  IN  Records("Ack", Encodable({m \in Shared(d) : state[d][m].ackPending}))
        \cup Records("Request", Encodable(offered[d]))
        \cup Records("Unavailable", Encodable({m \in sending : holds[d][m] = "gone"}))
        \cup Records("Message", {m \in sending : holds[d][m] = "held"})
        \cup Records("Offer", Encodable({m \in Shared(d) : Chosen(state[d][m], mode) = "offer"}))

\* The caller takes what it requested off its list of offers.
Plan(d, mode) ==
  LET asked == Encodable(offered[d]) IN
  /\ state' = [state EXCEPT ![d] =
       [m \in Message |->
         IF m \in Shared(d) THEN Planned(state[d][m], mode) ELSE state[d][m]]]
  /\ inFlight' = [inFlight EXCEPT ![Other(d)] = @ \cup PlannedRecords(d, mode)]
  /\ offered' = [offered EXCEPT ![d] = @ \ asked]
  /\ awaiting' = [awaiting EXCEPT ![d] = @ \cup asked]
  /\ UNCHANGED holds

-----------------------------------------------------------------------------
(* What the caller does with a record that arrives. *)

\* A record that arrives may arrive again.
Arrives(d, r) ==
  /\ r \in inFlight[d]
  /\ \/ inFlight' = [inFlight EXCEPT ![d] = @ \ {r}]
     \/ UNCHANGED inFlight

Updates(d, m, s) == state' = [state EXCEPT ![d][m] = s]

ReceiveAck(d, m) ==
  /\ Arrives(d, [type |-> "Ack", id |-> m])
  /\ m \in Shared(d)
  /\ Updates(d, m, OnPeerAcked(state[d][m]))
  /\ UNCHANGED <<holds, offered, awaiting>>

ReceiveRequest(d, m) ==
  /\ Arrives(d, [type |-> "Request", id |-> m])
  /\ m \in Shared(d)
  /\ Updates(d, m, OnPeerRequested(state[d][m]))
  /\ UNCHANGED <<holds, offered, awaiting>>

\* A device acknowledges what it has, and notes what it does not know.
ReceiveOffer(d, m) ==
  /\ Arrives(d, [type |-> "Offer", id |-> m])
  /\ IF m \in Shared(d)
       THEN Updates(d, m, OnPeerOffered(state[d][m])) /\ UNCHANGED offered
       ELSE offered' = [offered EXCEPT ![d] = @ \cup {m}] /\ UNCHANGED state
  /\ UNCHANGED <<holds, awaiting>>

\* What was deleted stays deleted.
ReceiveMessage(d, m) ==
  /\ Arrives(d, [type |-> "Message", id |-> m])
  /\ holds' = IF m \in Shared(d) THEN holds ELSE [holds EXCEPT ![d][m] = "held"]
  /\ Updates(d, m, OnPeerOffered(state[d][m]))
  /\ offered' = [offered EXCEPT ![d] = @ \ {m}]
  /\ awaiting' = [awaiting EXCEPT ![d] = @ \ {m}]

ReceiveUnavailable(d, m) ==
  /\ Arrives(d, [type |-> "Unavailable", id |-> m])
  /\ awaiting' = [awaiting EXCEPT ![d] = @ \ {m}]
  /\ UNCHANGED <<holds, state, offered>>

Receive(d, m) ==
  \/ ReceiveAck(d, m) \/ ReceiveRequest(d, m) \/ ReceiveOffer(d, m)
  \/ ReceiveMessage(d, m) \/ ReceiveUnavailable(d, m)

Lose(d, r) ==
  /\ r \in inFlight[d]
  /\ inFlight' = [inFlight EXCEPT ![d] = @ \ {r}]
  /\ UNCHANGED <<holds, state, offered, awaiting>>

\* The client deletes a body, the position in the graph stays.
Delete(d, m) ==
  /\ holds[d][m] = "held"
  /\ holds' = [holds EXCEPT ![d][m] = "gone"]
  /\ UNCHANGED <<state, offered, awaiting, inFlight>>

Ticked(s) == [s EXCEPT !.wait = IF s.wait = 0 THEN 0 ELSE s.wait - 1]

Tick ==
  /\ \E d \in Device, m \in Message : state[d][m].wait > 0
  /\ state' = [d \in Device |-> [m \in Message |-> Ticked(state[d][m])]]
  /\ UNCHANGED <<holds, offered, awaiting, inFlight>>

-----------------------------------------------------------------------------
Init ==
  /\ holds \in [Device -> [Message -> Holding]]
  /\ state = [d \in Device |-> [m \in Message |-> NewState]]
  /\ offered = [d \in Device |-> {}]
  /\ awaiting = [d \in Device |-> {}]
  /\ inFlight = [d \in Device |-> {}]

Next ==
  \/ \E d \in Device, mode \in Mode : Plan(d, mode)
  \/ \E d \in Device, m \in Message : Receive(d, m) \/ Delete(d, m)
  \/ \E d \in Device : \E r \in inFlight[d] : Lose(d, r)
  \/ Tick

\* A device gets to send again and again, the clock goes on, and a kind of
\* record that is sent again and again arrives sometimes.  Acknowledgements
\* concern who has a message, "unavailable" who has not, and what a device has
\* it has for good: together they stand for fairness to each of the two.
Fairness ==
  /\ \A d \in Device : WF_vars(\E mode \in Mode : Plan(d, mode))
  /\ WF_vars(Tick)
  /\ \A d \in Device, m \in Message :
       /\ SF_vars(ReceiveAck(d, m) \/ (m \notin Shared(d) /\ ReceiveUnavailable(d, m)))
       /\ SF_vars(ReceiveRequest(d, m))
       /\ SF_vars(ReceiveOffer(d, m))
       /\ SF_vars(ReceiveMessage(d, m))

Spec == Init /\ [][Next]_vars /\ Fairness

-----------------------------------------------------------------------------
(* A device takes a message for seen only when the peer has it or had it:  *)
(* what a sent record, a lost one or a deletion says is never mistaken for *)
(* an acknowledgement (`seen` in peer.rs).                                 *)
SeenIsTrue ==
  \A d \in Device, m \in Message : state[d][m].seen => m \in Shared(Other(d))

(* A request is dropped only in the step that answers it, with the message *)
(* or with UNAVAILABLE: neither the backoff nor an offer of the same       *)
(* message swallows it (plan() and on_sent()).                             *)
RequestKeptUntilAnswered ==
  [][\A d \in Device, m \in Message :
       state[d][m].requested /\ ~state'[d][m].requested =>
         \E type \in {"Message", "Unavailable"} :
           [type |-> type, id |-> m] \in inFlight'[Other(d)]]_vars

(* A message one device keeps reaches the other, whatever modes the two    *)
(* choose at each opportunity and whatever is lost on the way.             *)
EventuallyReceived ==
  \A d \in Device, m \in Message :
    <>[](holds[d][m] = "held") => <>(holds[Other(d)][m] # "none")

(* Once both keep a message each comes to know it of the other, so that    *)
(* the offering and sending end: no acknowledgement stays owed for ever    *)
(* (on_peer_offered(), the acknowledgements of plan()).                    *)
BothComeToKnow ==
  \A m \in Message :
    <>[](\A d \in Device : holds[d][m] = "held") => <>(\A d \in Device : state[d][m].seen)

(* A device that asked for a message is not left waiting for good: it gets *)
(* it or is told it is unavailable, even when the message is deleted       *)
(* meanwhile, which is the wait UNAVAILABLE is there to close (session.rs, *)
(* the answer for an entry whose body is gone).                            *)
RequestAnswered ==
  \A d \in Device, m \in Message : []<>(m \notin awaiting[d])

(* spec/50-sync.md section 9, of every mode: "ACK everything with           *)
(* `ack_pending`".  What plan() no longer counts as owed has gone out.     *)
AckOwedUntilSent ==
  [][\A d \in Device, m \in Message :
       state[d][m].ackPending /\ ~state'[d][m].ackPending =>
         [type |-> "Ack", id |-> m] \in inFlight'[Other(d)]]_vars
=============================================================================
