------------------------------- MODULE Channel -------------------------------
(***************************************************************************)
(* Streams from device A to device B over one transport, through the time  *)
(* periods: keys that rotate with each side's own clock, a stream counter  *)
(* and a window for every period, and frames inside each stream.           *)
(*                                                                         *)
(* The caller that puts the parts together is external and does what       *)
(* spec/20-transport.md sections 4 to 7 ask: before it sends or receives   *)
(* it rotates to the period of its clock, counts streams from zero in each *)
(* period, keeps the keys and windows of the previous, the current and the *)
(* next period, and gives the contact up when rotate_to says TooFarAhead.  *)
(* Stopping and storing is the subject of Streams.                         *)
(*                                                                         *)
(* now is the time.  A clock that is read shows anything from now to       *)
(* now + MaxClockDifference, so two readings may disagree, and a later     *)
(* reading may be the smaller one.  The transport loses, repeats, reorders *)
(* and damages streams; MaxLatency is how long one takes that is on time.  *)
(***************************************************************************)
EXTENDS TransportKeys, Wire, ReorderWindow, FiniteSets

CONSTANTS MaxClockDifference, \* D of the table of periods, in ms
          MaxLatency,         \* L, in ms
          Agreed,             \* the timestamp the handshake agreed on
          Contents,           \* what a stream may carry: sequences of frames
          MaxNow, MaxStreams  \* bounds of an instance

\* A period lasts D + L; the time agreed on is not in period zero.
ASSUME ClockAssumption ==
  /\ MaxClockDifference \in Nat /\ MaxLatency \in Nat
  /\ MaxClockDifference + MaxLatency <= PeriodMs
  /\ Agreed \in Nat /\ ~TooEarly(Agreed)
  /\ MaxNow \in Nat /\ MaxStreams \in Nat

Frame == [data : Seq(Nat), padding : Nat]

ASSUME ContentsAssumption == Contents \subseteq Seq(Frame)

VARIABLES now,
          sender,   \* A's [keys, next]: PeriodKeys, and the number of the next stream
          held,     \* B's [keys, window] for every period it holds
          lost,     \* the devices whose keys are too far behind
          network,  \* the streams sent, in order
          handedOn  \* what B read of each, every time it recognised it

vars == <<now, sender, held, lost, network, handedOn>>

-----------------------------------------------------------------------------
Readings == now..(now + MaxClockDifference)

Init ==
  /\ now = Agreed
  /\ sender = [keys |-> InitialKeys("A", Agreed), next |-> 0]
  /\ held = [p \in {PeriodAt(Agreed) - 1} |->
               [keys |-> InitialKeys("B", Agreed), window |-> NewWindow]]
  /\ lost = {}
  /\ network = << >>
  /\ handedOn = << >>

-----------------------------------------------------------------------------
\* A's keys, taken to the period of a reading. A clock that went back leaves them.
SenderLost(t) == "TooFarAhead" \in RotationRefusal(sender.keys, PeriodAt(t))

SenderTurned(t) ==
  IF RotationRefusal(sender.keys, PeriodAt(t)) = {} /\ PeriodAt(t) # sender.keys.period
  THEN [keys |-> Rotated(sender.keys, PeriodAt(t)), next |-> 0]
  ELSE sender

Oldest == CHOOSE p \in DOMAIN held : \A q \in DOMAIN held : p <= q
Newest == CHOOSE p \in DOMAIN held : \A q \in DOMAIN held : q <= p

\* The oldest period B keeps at a reading: the previous one, and never one that is gone.
Lowest(t) ==
  IF "PeriodInThePast" \in RotationRefusal(held[Oldest].keys, PeriodAt(t) - 1)
  THEN Oldest ELSE PeriodAt(t) - 1

Highest(t) == IF PeriodAt(t) + 1 > Newest THEN PeriodAt(t) + 1 ELSE Newest

RecipientLost(t) == "TooFarAhead" \in RotationRefusal(held[Oldest].keys, Lowest(t))

HeldTurned(t) ==
  LET base == Rotated(held[Oldest].keys, Lowest(t))
  IN  [p \in Lowest(t)..Highest(t) |->
         IF p \in DOMAIN held THEN held[p]
         ELSE [keys |-> Rotated(base, p), window |-> NewWindow]]

-----------------------------------------------------------------------------
Tick == now < MaxNow /\ now' = now + 1 /\ UNCHANGED <<sender, held, lost, network, handedOn>>

\* A device that finds its keys too far behind gives the contact up.
GiveUp(t) ==
  /\ lost' = lost \cup {d \in Role : (d = "A" /\ SenderLost(t)) \/ (d = "B" /\ RecipientLost(t))}
  /\ lost' # lost
  /\ UNCHANGED <<now, sender, held, network, handedOn>>

\* What goes out as one stream: tag, header, frames under a key of its own.
NewStream(s, content) ==
  [tag     |-> Tag(s.keys.outgoing.tag_key, s.next),
   header  |-> SealedStreamHeader(s.keys.outgoing.header_key, s.next, Len(network) + 1),
   frames  |-> SealedFrames(Len(network) + 1, content),
   period  |-> s.keys.period,
   content |-> content,
   sentAt  |-> now]

Send(t, content) ==
  /\ "A" \notin lost /\ ~SenderLost(t) /\ Len(network) < MaxStreams
  /\ network' = Append(network, NewStream(SenderTurned(t), content))
  /\ sender' = [SenderTurned(t) EXCEPT !.next = @ + 1]
  /\ handedOn' = Append(handedOn, << >>)
  /\ UNCHANGED <<now, held, lost>>

\* B rotates although nothing has come.
Turn(t) ==
  /\ "B" \notin lost /\ ~RecipientLost(t)
  /\ held' = HeldTurned(t)
  /\ UNCHANGED <<now, sender, lost, network, handedOn>>

\* The tags B looks a stream up by.
Recognised(h, tag) ==
  {r \in {<<p, n>> : p \in DOMAIN h, n \in Number} :
     /\ r[2] \in Expected(h[r[1]].window)
     /\ tag = Tag(h[r[1]].keys.incoming.tag_key, r[2])
     /\ MarkRefusal(h[r[1]].window, r[2]) = {}}

\* The stream header is opened, and its number must be the one the tag was looked
\* up by; then the frames, as they arrived.
ReadStream(keys, number, header, arrived) ==
  IF /\ Opens(header, keys.incoming.header_key, NoNonce)
     /\ header.plain.stream_number = number
  THEN Read(header.plain.cipher_key, arrived)
  ELSE [data |-> << >>, whole |-> FALSE]

\* What may arrive under a tag: any header that was sent, whole or damaged, ...
Stream == DOMAIN network
Headers == UNION {{network[j].header, Altered(network[j].header)} : j \in Stream}

\* ... and then frames of any streams, in any places and as often as it happens,
\* heads and bodies that do not belong together, bodies that were damaged.
Sent == UNION {{network[j].frames[k] : k \in DOMAIN network[j].frames} : j \in Stream}
Mixed == {[head |-> f.head, body |-> g.body] : f, g \in Sent}
Damaged(frames) == {[frames EXCEPT ![k].body = Altered(@)] : k \in DOMAIN frames}

Arrivals ==
  (UNION {Damaged(network[j].frames) : j \in Stream})
    \cup (UNION {[1..k -> Mixed] : k \in UNION {0..Len(network[j].frames) : j \in Stream}})

\* All that reading can come to under a tag that was recognised.
MayBeRead(keys, number) ==
  {ReadStream(keys, number, header, arrived) : header \in Headers, arrived \in Arrivals}

\* The tag of stream i reaches B, for the first time or once more.
Receive(t, i) ==
  /\ "B" \notin lost /\ ~RecipientLost(t)
  /\ LET h == HeldTurned(t)
     IN  \/ /\ Recognised(h, network[i].tag) = {}
            /\ held' = h
            /\ UNCHANGED handedOn
         \/ \E r \in Recognised(h, network[i].tag) :
              \E read \in MayBeRead(h[r[1]].keys, r[2]) :
                /\ held' = [h EXCEPT ![r[1]].window = Marked(@, r[2])]
                /\ handedOn' = [handedOn EXCEPT ![i] = Append(@, read)]
  /\ UNCHANGED <<now, sender, lost, network>>

Next ==
  \/ Tick
  \/ \E t \in Readings : GiveUp(t)
  \/ \E t \in Readings, content \in Contents : Send(t, content)
  \/ \E t \in Readings : Turn(t)
  \/ \E t \in Readings, i \in Stream : Receive(t, i)

Spec == Init /\ [][Next]_vars

-----------------------------------------------------------------------------
\* Types, and one window and one set of keys for every period from the oldest
\* held to the newest.
TypeOK ==
  /\ now \in Nat
  /\ sender \in [keys : PeriodKeys, next : Nat]
  /\ Oldest \in Nat /\ Newest \in Nat /\ Oldest <= Newest /\ DOMAIN held = Oldest..Newest
  /\ \A p \in DOMAIN held : held[p] \in [keys : PeriodKeys, window : Window]
  /\ lost \subseteq Role
  /\ DOMAIN handedOn = Stream

\* Both sides hold the same keys for the same period, in both directions,
\* however many periods each of them took in one call of rotate_to.
KeysAgree ==
  \A p \in DOMAIN held :
    /\ held[p].keys.period = p
    /\ p = sender.keys.period =>
         /\ held[p].keys.incoming = sender.keys.outgoing
         /\ held[p].keys.outgoing = sender.keys.incoming

\* Three periods are enough: whatever the two clocks show, B has the keys of
\* a stream that is not late (spec/20-transport.md section 4).
ThreePeriodsEnough ==
  "B" \notin lost =>
    \A i \in Stream, t \in Readings :
      now <= network[i].sentAt + MaxLatency /\ ~RecipientLost(t)
        => network[i].period \in DOMAIN HeldTurned(t)

\* What B has read of the streams of a period.
ReadOf(p) == {j \in Stream : network[j].period = p /\ handedOn[j] # << >>}

\* Nothing that is half a window ahead of the stream was read, nor is it a whole
\* window from the start of the period or half a window ahead of all that was read.
WithinTheWindow(i) ==
  LET n == network[i].tag.number IN
  /\ n < Top
  /\ \A j \in ReadOf(network[i].period) : network[j].tag.number < n + WindowLen \div 2
  /\ \/ n < WindowLen
     \/ \E j \in ReadOf(network[i].period) : n <= network[j].tag.number + WindowLen \div 2

\* And B recognises it, if it has not read it before, whatever else of the period
\* was lost or came out of order: as far as half a window goes
\* (spec/20-transport.md section 5, mark_seen()).
OnTimeIsRecognised ==
  "B" \notin lost =>
    \A i \in Stream, t \in Readings :
      now <= network[i].sentAt + MaxLatency /\ ~RecipientLost(t) /\ handedOn[i] = << >>
        /\ WithinTheWindow(i) => Recognised(HeldTurned(t), network[i].tag) # {}

\* From what is held no key of an earlier period can be derived: what a
\* device had of a period is of no use once the period's keys are gone.
PassedKeysAreGone ==
  \A i \in Stream :
    /\ network[i].period < sender.keys.period =>
         /\ ~Reaches(sender.keys.outgoing.tag_key, network[i].tag.key)
         /\ ~Reaches(sender.keys.outgoing.header_key, network[i].header.key)
    /\ \A p \in DOMAIN held :
         network[i].period < p =>
           /\ ~Reaches(held[p].keys.incoming.tag_key, network[i].tag.key)
           /\ ~Reaches(held[p].keys.incoming.header_key, network[i].header.key)

\* No stream is read twice, whether it comes again at once or periods later,
\* and although windows are dropped and clocks go back.
ReadOnce == \A i \in Stream : Len(handedOn[i]) <= 1

\* No two streams have the same tag, over all periods and although the
\* sender's clock goes back.
NoTagTwice == \A i, j \in Stream : network[i].tag = network[j].tag => i = j

\* No key seals two pieces under one nonce: neither two frames nor the header
\* and the body of one.
NoNonceTwice ==
  \A i, j \in Stream :
    \A k \in DOMAIN network[i].frames, l \in DOMAIN network[j].frames :
      LET a == network[i].frames[k] b == network[j].frames[l] IN
      /\ ~Opens(a.head, b.body.key, b.body.nonce)
      /\ Opens(a.head, b.head.key, b.head.nonce) => i = j /\ k = l
      /\ Opens(a.body, b.body.key, b.body.nonce) => i = j /\ k = l

\* What is read of a stream is how it began, as it was sent and without the
\* padding, and it is taken for whole only if nothing is missing.
ReadAsSent ==
  \A i \in Stream : \A r \in {handedOn[i][k] : k \in DOMAIN handedOn[i]} :
    /\ Len(r.data) <= Len(network[i].content)
    /\ \A k \in DOMAIN r.data : r.data[k] = network[i].content[k].data
    /\ r.whole => Len(r.data) = Len(network[i].content)
=============================================================================
