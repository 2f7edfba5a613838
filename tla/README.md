# Onestein in TLA+

Models, model-checking runs and proofs for the Onestein crates: a messaging
stack in which devices exchange immutable messages over transports that lose,
repeat and reorder, and over relays that hold blobs for devices that are
offline. The crates keep almost no state of their own: they take numbers and
records in and hand numbers and records back, and the application stores them.
What is hard is therefore not in one function but in what happens between
calls: a crash between taking a number and storing it, two threads that race
for one challenge, an acknowledgement that is lost, a message deleted while it
is being asked for. That is what is modelled here.

## Inventory

| Part (crate) | State | Operations | What is hard | What makes it right |
|---|---|---|---|---|
| relay store (`relay/store.rs`) | queues: keys, blobs with times, time of the last write | register, write, read, delete, expire | stamps that arrive late, expiry in the same step as the request | a blob is kept its time, a queue keeps its keys and its limit |
| relay requests (`relay/api.rs`) | outstanding challenges by queue and right | `handle`, `spend` | requests that race, replayed proofs | a challenge is good once and stays until called for |
| relay daemon (`relayd`) | one lock over store and challenges, a thread per connection | accept, read, answer, hang up | the clock is read before the lock is taken; everything is lost with the process | as above, for any number of threads |
| stream window and counter (`transport/window.rs`) | base and seen bits; next number and `exhausted` | `mark_seen`, `expected`, `take`, `peek`, `restore` | crashes before or after storing, reordering, the topmost number | no tag goes out twice, no stream is handed on twice |
| transport keys (`transport/lib.rs`) | keys of a period | `initial`, `rotate_to` | clocks that differ and jump back, the bound on rotations | two peers meet in a period; keys that were left are gone; no tag comes back |
| transport frames (`transport/wire.rs`) | none | seal and open headers and bodies | one word for number and header flag; headers and frames lost, swapped, cut off, put together from several streams | no nonce comes back; what is read is how the stream began |
| sync session (`sync/session.rs`, `sync/peer.rs`) | six fields per message and peer | `plan`, `on_sent`, `on_peer_*`, `on_acknowledged` | loss, crossing records, deletion, backoff | messages arrive, requests are answered, beliefs about the peer are true |
| delivery (`sync/records.rs`) | delivered messages and marks, the horizon (kept by the caller) | `deliverability` | order of arrival, gaps, the horizon | truthful marks, nothing waits for ever |
| retention (`sync/retention.rs`) | none: the client keeps what it received when | `droppable`, encoding | ties, clocks that jump | at least what the policy names is kept |
| sync messages (`sync/message.rs`, `sync/lib.rs`, `sync/records.rs`) | none | records, layout of a message; identifiers, signatures | lists and bodies at their limits | what is written comes back; no second encoding |
| identity (`identity`) | the highest epoch per identity (kept by the caller) | certificates, revocations, `accept_epoch`, recovery | replayed and reordered certificates | nothing begins with a revoked device once its epoch is recorded |
| handshake (`handshake`) | none: key pairs and secrets are the caller's | key agreement, transcript, confirmation, records | messages of earlier attempts, reflected or damaged ones; `decapsulate` cannot fail | who finishes shares one fresh root key with the other side |
| contact (`contact`) | none | bundles and commitments; links, fingerprints, base32 | a bundle from somebody else | the root keys are those of the link; encodings are inverse |
| records, BDF (`record`, `bdf`) | a cursor | framing, encoding, lenient and strict reading | signed lengths, limits, order of keys, inputs cut short | encodings are inverse and, where they are hashed, unique; no verdict is taken back |
| crypto, facade, scripts | none | | | |

A device reaches its peer through these layers: a sync session plans records,
they are framed (`record`), put into a stream (`transport`), which is
recognised by its tag, and carried directly or as a blob in a relay's queue.
The relay talks to nobody but its clients; the clients share no state except
through it.

## Modules

| Module | Models | State and steps |
|---|---|---|
| `RelayStore` | `relay/store.rs` | no variables: each operation is an operator on a store, because the daemon runs it under one lock |
| `RelayDaemon` | `relayd/lib.rs`, `handle()` and `spend()` of `relay/api.rs` | `store`, `challenges` (the two fields of `Shared`), a thread per connection, the clock; one action per request and outcome |
| `Relay` | the daemon before arbitrary clients | composes the above with two history variables (`issued`, `accepted`) and states the properties |
| `Mailbox` | the abstract specification of the relay | open boxes of posts, and who asked what: a request is answered in the step that does it |
| `RelayMailbox` | the refinement mapping | reads a mailbox off the daemon's state; `ImplementsMailbox` |
| `ReorderWindow` | `Window` of `transport/window.rs` | operators on a window |
| `Streams` | `StreamCounter`, `Window` and the application that stores them | both ends, crashes of both, a transport that loses, repeats and reorders |
| `TransportKeys` | `PeriodKeys`, `initial`, `rotate_to`, `period_at` of `transport/lib.rs` | operators on the keys of a period |
| `Wire` | `transport/wire.rs`: stream headers, frames, nonces, reading to the final frame | operators on sealed pieces |
| `Channel` | streams over the periods, composed of the three above | both ends with their clocks, a network that loses, repeats, reorders and damages |
| `Identity` | `identity`, and the bundle of `contact/lib.rs` | operators: keys of a seed, certificates, revocations, what refuses them, the epoch rule |
| `Handshake` | `handshake` | operators: secrets of either side, transcript, root key, confirmation |
| `Meeting` | from a link to a root key, composed of the two above | owners that certify and revoke, devices that learn of it and agree on keys, everything ever sent |
| `DeviceSets` | the abstract specification of an identity's devices | the sets an owner goes through, and the devices of contacts, each somewhere behind |
| `MeetingDevices` | the refinement mapping | reads the sets off the statements that were signed; `ImplementsDeviceSets` |
| `SyncSession` | `plan()` and `PeerMessageState` | two devices, what each holds, its state for the other, records in flight |
| `Delivery` | `deliverability()` | a graph, a horizon, what was received, delivered and marked |
| `Retention` | `Retention::droppable` and the client that asks it | the messages held with their stamps, a clock that may be set, the time that really passes |
| `Bdf` | `bdf` | operators: values, `to_bytes`, the reader in both modes |
| `RecordFraming` | `record` | operators: `encode`, the reader |
| `SyncWire`, `RelayWire`, `HandshakeWire` | the records of `sync`, `relay`, `handshake` | operators on top of `RecordFraming` |
| `ContactText` | `contact/base32.rs`, `ContactLink` | operators on characters and bits |
| `RetentionPolicy` | `Retention::encode`, `decode` | operators on top of `Bdf` |
| `Codecs` | bytes before all of these readers | the reader, what was written, the bytes so far |
| `RelayProofs`, `WindowProofs`, `StreamsProofs`, `ChannelProofs`, `MeetingProofs`, `SyncProofs`, `DeliveryProofs`, `RetentionProofs` | | theorems and proofs |
| `MCRelay`, `MCStreams`, `MCChannel`, `MCMeeting`, `MCSync`, `MCDelivery`, `MCCodecs`, `MCRetention` | | instances for TLC |

### The relay

A thread of the daemon reads a record, reads the clock and only then takes the
lock (`answer()`), so `Receive` fixes a stamp and one of the `Answer...`
actions applies it later. Stamps are applied out of order, and a system clock
may be set back: `Lag` bounds how far a stamp trails the clock when it is
applied. Each answer first expires the store, as `answer()` does, and then does
what `handle()` does, with every refusal a disjunct of its own. A failing
generator answers before the lock is taken and expires nothing
(`AnswerWithoutRandomness`).

Blobs stand for their own names (a name is a hash of the blob). A proof is the
triple of what `Registration::check` tells apart: the key, the right and the
challenge signed. Clients may use any proof over any challenge that was ever
handed out, in any request and on any connection.

What bounds an instance: `Challenge` (each value is drawn once, so it bounds
the challenge requests), `MaxClock`, `MaxStarts`, `Conn`. With lives of one and
two ticks and a clock of three, blobs expire, queues lapse, are registered
anew by another party and meet old challenges.

`Mailbox` says what all this is for. It has no threads, lock, stamps or
challenges: a client asks, and in one step what it asked for is done and it is
told so. It may turn anything down, and then nothing was done. It forgets a
post only when that is due and closes a box only when everything in it is due;
a post is dated at most `Lag` before the moment it was put. `RelayMailbox` maps
a connection with a request to one that asked and a connection with a reply to
one that was told, and drops the dates of last writes and the challenges.
That the mapped daemon is a mailbox says that each reply was true at one moment
and that what it promises was done then, whatever other threads did between the
arrival of the request and the lock. Which refusal is given when is not part of
it: that is for `ChallengeKeptUntilCalledFor`.

The run `mailbox` has blobs of three sizes and a queue of three, so that
`TooLarge` and `QueueFull` happen and two writers race for the last place, and
leaves time out, which multiplies the states. So that late stamps and expiry are
nothing but what a mailbox may do is shown by the theorem
`RelayImplementsMailbox` and not by this run.

### Streams

A tag is a pseudo-random function of the stream number, so the number stands
for it. The application is external and does what the documentation asks: it
writes the counter down before a stream is sent and the window before a stream
is handed on. What it writes down is what `peek()` gives after `take()`. Either
side stops anywhere and comes back with what was stored. A window of four and
nine numbers let the window slide by both of its loops, reach the topmost number
and saturate; the proofs are for every length.

### The channel

`Channel` is one direction of a contact over one transport. The code gives keys
for a period, a counter, a window and sealed pieces; the caller that puts them
together is external and does what `spec/20-transport.md` sections 4 to 7 ask:
rotate to the period of the clock before anything else, count from zero in each
period, hold the keys and windows of three periods, give up when `rotate_to`
says `TooFarAhead`. Keys are symbolic: a label and the periods of the
derivations a key went through, so two keys are equal if and only if they were
derived alike, and `Reaches` says what can be derived from a key.

`now` is the time; a reading of a clock is anything from `now` to
`now + MaxClockDifference`, so clocks differ and go back. A stream is on time
if it arrives within `MaxLatency`, and `ClockAssumption` says what the periods
of the specification's table are chosen for: a period lasts at least as long as
both together. The network keeps everything and delivers any of it, once more
or for the first time. Under a tag comes any stream header that was sent, its
own, another stream's or a damaged one, and after it any frames: of one stream
or of several, cut off, swapped, repeated, heads with the bodies of others, or
damaged. A header opens under its header key whatever tag it came behind, and
`open_stream_header()` hands the number in it to its caller. The caller of the
model compares that number with the one the tag stands for (`ReadStream`), and
this is what `ReadAsSent` rests on: without it, header and frames of one stream
behind the tag of another of the same period are read as that other stream. No
document says so in words; a caller has the number for nothing else.

The nonce of a frame is one word, as in `frame_nonce()`: the number, plus
`HeaderBit` (2^63 in the code) for a header. A body whose number reached that
bit would be sealed under the nonce of a header, and the refusal of numbers
above `MaxFrameNumber` is what prevents it.

The instance has periods of two ticks and four of them, two streams of up to
three pieces (one padding only, one refused for its length, one cut short at
its third frame, as `HeaderBit` is 2), a window of six and at most two rotations
in one call, so that devices are left behind. Stopping and storing is the
subject of `Streams`.

### The meeting

Hashes, signatures, agreements and encapsulations are symbolic. A secret is
known by the key pairs each of which gives it and by its ciphertext, so a
damaged ciphertext decapsulates to another secret, as in `decapsulate()`, and
what is still derivable from the key pairs someone holds can be stated.
The callers are external and follow `spec/35-contact.md`,
`spec/40-identity.md` section 5 and `spec/30-handshake.md` section 4: a device
keeps the bundle of its link, the highest epoch, the devices it knows to be
revoked and one unfinished handshake, which it may replace at any time and
drops when the peer is revoked. An owner raises the epoch with each revocation,
as the tests of `identity` do.

The instance: identity A with one device meets identity B, whose two devices
are certified and revoked over three epochs (`MaxEpoch`) by at most four
statements (`MaxSigned`), so that a revocation may come after a later
certificate of the other device and be refused as being in the past; A begins
up to two handshakes, and only A starts over: that either may is for the
theorems. A
third identity's bundle is offered as well. Every message and statement that
was ever sent reaches anybody at any time, also with another key (one of small
order among them), another device, another ciphertext or another confirmation
in it. Left out: `CERTIFICATE_ID` and `CERTIFICATE_REQUEST`, which save bytes,
times of certification, and of `contact` all but the bundle. The encodings of
the records and of links are in `Codecs`.

`DeviceSets` says what certificates, revocations and the one number a device
records of its contact come to. An owner goes through one device set after the
other: it admits a device to the last set or to a new one, and removes one for
good, which starts an empty set. A contact goes by one of these sets, some way
behind, follows forward and never back, and may skip sets. It takes up only
with a device of the set it comes to go by, and finishes with whom it took up
or with nobody. When it is told that a device is removed it leaves that device
and goes by a set from which on the device is in none. `MeetingDevices` takes
the devices certified in one epoch for a set and the recorded epoch for its
place. What the abstraction does not promise is that a contact keeps up: nobody
tells it of a set it never hears of, and until it does it may take up with a
device that has been removed.

`RevokedStaysOut` is about what a device may begin. It takes up no handshake
with a device that is revoked as of the epoch it has recorded, even if all it
ever got was a later certificate of a third device. When the revocation itself
reaches it, a handshake with that device ends. A handshake that was taken up in
time is a different matter: if only another statement of a later epoch comes
before it is finished, or the revocation comes after one and is refused as
being in the past, it is finished all the same. One number does not say who was
revoked, and nothing in the code or in `spec/40-identity.md` has the caller look
at the peer's certificate again.

### Sync sessions

`Plan(d, mode)` is one call of `plan()`: acknowledgements, requests,
UNAVAILABLE, messages and offers in one step, the mode chosen anew each time,
as `spec/50-sync.md` section 9 lets it. The caller is external: `Receive...`
feeds what arrives to the handlers, an offer of an unknown message goes on the
list `offered_by_peer`, a message that arrives is held. What `plan()` returns
the caller writes with `encode_record()`, which refuses a list that does not
fit a record (`Encodable`); a caller whose requests were refused has asked for
nothing and keeps its offers. `next_send_time` is kept as the wait until then,
`max_latency` is never read and left out. An identifier record with several
identifiers is several records here, so single identifiers may be lost where
the code would lose the whole record; that only adds behaviours.

Where every list fits its record, what `plan()` does with one entry does not
depend on the others, so one message is enough. `sync_lists` has two messages
and records with room for one.

### Delivery

The caller delivers what `deliverability()` finds ready. The runs take every
acyclic graph on four messages, every horizon and every order of arrival.

### Retention

`droppable()` looks at what the caller hands it: pairs of a message and the
time at which it was received, in the caller's order. The client is external:
it stamps what arrives with its clock, asks now and then and drops what it may.
The time that really passes and the order of arrival are in the model only to say what "the last days" and
"most recently received" mean. The order in which the client names what it holds
is any (`Orders`), at each call another: the sort is stable, so it decides which
of several messages with one stamp a count drops.

The clock goes with the time, and anybody may set it back or forward. What can
be promised depends on which: a clock set forward makes all that is held look
older, so an age drops it; a clock set back lets what is held pass for newer
than what comes, so a count drops what comes. `KeepsWhatThePolicyNames` states
the other half of each: setting it back does an age no harm, setting it forward
does a count none. Which of several messages received at one moment a count
keeps is not promised (`Latest` counts all of them before each).

The instance has days of two ticks, three messages, five ticks of time and a
clock set to anything up to three, with counts and ages of none, one and two: a
message is half a day, a day and more than a day old, two of three messages
have one stamp, and the number kept is reached and passed.

### Codecs

Nine readers: BDF lenient and strict, the policy on top of it, bare frames and
the records of sync, relay requests, relay responses and handshake on top of
those, and contact links. Their input is what the writer wrote for values at
the edges of every width and limit, whole, cut short or with any byte changed,
or what anybody sends: every string of up to six bytes over the bytes that
open, size and end things, grown byte by byte until the reader decides.

The lengths of keys, proofs and signatures are one to three bytes and differ
where fields are neighbours, so a wrong offset shows; the payload limit is ten
bytes instead of 49152, the nesting limit two and a message body at most one
byte, so that the limits of a body and of a payload are reached by different
values. Widths of integers and of length
prefixes are the code's (one, two, four and eight bytes, signed). Of UTF-8 it
is kept that a byte from 128 on does not stand alone. Verifying a signature and
hashing have no part in reading and are left out.

## Runs

| Run | Shows |
|---|---|
| `relay` | no challenge is good twice (`ChallengeGoodOnce`); a client can count on a challenge (`ChallengeKeptUntilCalledFor`); blobs are kept their time in spite of late stamps (`NoUnexpiredLoss`); a live queue keeps its keys (`KeysPinned`) |
| `mailbox` | the daemon with its threads, lock and challenges is a mailbox that does what it is asked in one step, or turns it down (`ImplementsMailbox`) |
| `streams` | no stream handed on twice (`HandedOnOnce`), no tag twice below the last number (`NoTagTwice`), the window forgets only what is far behind (`ToleratesReordering`) |
| `channel` | both sides come to the same keys (`KeysAgree`); three periods suffice (`ThreePeriodsEnough`, `OnTimeIsRecognised`); keys of a period that was left are gone (`PassedKeysAreGone`); nothing read twice (`ReadOnce`), no tag and no nonce used twice (`NoTagTwice`, `NoNonceTwice`); what is read is how the stream began, whatever headers and frames come under its tag (`ReadAsSent`) |
| `meeting` | who finishes shares its root key with the other side (`FinishedAgree`), no root key is used twice (`KeyUsedOnce`) or can be derived once all is over (`PastIsClosed`); bundles, epochs, revocations and peers are the owner's (`AsTheOwnerSaid`); no handshake is taken up with a device that is revoked as of the epoch recorded (`RevokedStaysOut`); one number per contact does no more than device sets that are followed forward (`ImplementsDeviceSets`) |
| `sync` | beliefs about the peer are true (`SeenIsTrue`); only an answer ends a request (`RequestKeptUntilAnswered`); messages arrive (`EventuallyReceived`), resending ends (`BothComeToKnow`), who asks is answered (`RequestAnswered`) |
| `delivery` | truthful marks through all ancestors (`UnmarkedIsWellFounded`, `MarkedRestsOnHorizon`), nothing waits for ever (`EventuallyDelivered`) |
| `codecs` | what is written comes back (`ReadsBackAsWritten`), nothing has two encodings where it is hashed, signed or framed (`OneEncoding`), more bytes take no verdict back (`VerdictsStand`) |
| `retention` | an age keeps the last days unless the clock is set forward, a count the last to arrive unless it is set back, whatever the order messages are named in (`KeepsWhatThePolicyNames`) |
| `relay_hangup` | finding: a challenge outlives its connection |
| `sync_lists` | finding: acknowledgements that fill more than a record are never sent |
| `retention_count` | finding: after the clock was set back a count drops what has just arrived |

No run looks for deadlock: clients may all have gone, clocks reach their bound,
and everything may have been sent and delivered.

**Fairness.** Only `SyncSession` and `Delivery` state it. A device gets to send
again and again (`plan()` is called whenever it can send), the clock goes on,
and a kind of record that is sent again and again arrives sometimes: strong
fairness on each `Receive...`, which allows any finite run of losses. For
acknowledgements and UNAVAILABLE it is one formula: the first concern who has
the message, the second who has not, and what a device has had stays in what it
shares, so the fairness to both follows. Nothing is
assumed of deletions, of the order of arrival or of the mode chosen. In
`Delivery` the caller is asked to deliver what stays ready.

`RequestAnswered` says that a device is again and again not waiting, which for
a state it enters by asking is the same as that every wait ends.

**The backoff.** The count of sendings saturates (`MaxSendCount`, `u32::MAX` in
the code) and the doublings of the delay have a limit of their own
(`MaxDoublings`, 10 in the code). The two are independent parameters. In the
run `sync` the count saturates at two and no doubling is allowed, so the second
sending already meets the limit, and without it waits grow beyond their type.
A delay that really doubles multiplies the states beyond what the temporal
properties can be checked on; what `plan()` does depends on whether a wait is
over, not on its length. The theorems hold for every latency, every number of
doublings and every bound of the count.

## Findings

* **Challenges outlive connections** (`relay_hangup`). `spec/60-relay.md`
  section 4a says the relay forgets a challenge "when it is used or when the
  connection ends". The map is shared and no code tells it that a connection
  ended. It also keeps the challenges of queues that have expired, so it grows
  with every queue ever asked about.
* **Acknowledgements too many for a record** (`sync_lists`). `plan()` puts all
  that is owed into one list and takes each for acknowledged. A list of more
  than 1536 identifiers is refused by `encode_record()` as malformed, so nothing
  is sent and nothing is owed. `spec/50-sync.md` section 9 has every mode "ACK
  everything with `ack_pending`". While every list fits, what is no longer owed
  has been sent: `AcksOwedUntilSent` is proved under that assumption.
* **A count after the clock was set back** (`retention_count`).
  `Retention::Count` is to keep "at least the most recently received `n`
  messages". `droppable()` orders by what the clock said, so a message that has
  just arrived counts as older than those held. For `Age` the code thought of
  it ("a clock that jumped backwards must not empty a group").

## Observations

Seen while modelling, and checked by no run of its own:

* `restore()` clears `exhausted`, which is not stored, so after a restart the
  topmost number is handed out once more; `NoTagTwice` excepts it. The window's
  `expected()` ends below the topmost number and never recognises it, so such a
  stream is lost and not read twice.
* The comment of `peek()` says what it gives is "to be stored before it is
  used". Stored before `take()`, it is used again after a crash. Stored after
  `take()`, as in `Streams`, it is safe, and proved so.
* `plan()` offers entries without looking at the body. When it is gone the peer
  asks, is told UNAVAILABLE, and is offered it again at the next backoff; nobody
  can acknowledge such a message, so this does not end. It has a good side:
  `RequestAnswered` holds although a lost UNAVAILABLE is not remembered, because
  the repetition makes up for it.
* `relayd` answers `Empty` when the generator fails and when a record is
  malformed, as if a queue had nothing in it.
* `MAX_BLOB_LEN` is 64 KiB, a record's payload at most 48 KiB, so `TooLarge`
  cannot be reached over a connection.
* `decode` of base32 takes a lone `A` for nothing, as the five bits left over
  are zero. Links have a fixed length and cannot end so.
* `ContactBundle::decode` ignores fields it does not know.

## Proofs

All proofs are checked by TLAPS for every value of the constants that meets the
named assumptions.

* **Relay** (`RelayProofs`). Types first. `LateStampsCovered` is inductive with
  them: a stamp waiting for the lock trails the clock by at most `Lag`, so
  `last_write_ms`, which may move back, stays within `Lag` of the youngest
  blob. From it and `LagAssumption` (a queue lives at least `BlobLife + Lag`;
  60 days and 30 in `relay/lib.rs`) follows `NoUnexpiredLoss`: when a queue is
  dropped, all its blobs are past their time. `KeysPinned` follows likewise.
  `ChallengeGoodOnce` is not inductive by itself; with `OutstandingAsIssued`
  (what is outstanding has not been accepted yet) it is.
  `ChallengeKeptUntilCalledFor` looks at each answer of the daemon: only a
  request of the same right for the same queue touches an outstanding challenge.
  `QueuesKeepTheirOrder`: the entries of a queue stay numbered in the order of
  their pushes, whatever is deleted or expires in between, so that a set of
  numbered entries stands for the `Vec`.
* **The relay is a mailbox** (`RelayImplementsMailbox`). The initial state maps
  to the empty mailbox, and each step to one of the mailbox or to a stutter:
  hearing a request is asking, each refusal turns down, an answer that expires
  and then serves is one step of the mailbox that forgets what is due and
  serves. A post is dated by a stamp that may be late, and the mailbox allows a
  date up to `Lag` old; `LateStampsCovered` is what lets a queue that is
  dropped be closed, as everything in it is due.
* **What is said to a relay** (end of `RelayProofs`). Lengths are parameters
  here, under `WireLengths`: fields are not empty and a payload fits the two
  bytes its length is written in. A record is a header of four bytes and its
  payload, so a reader that comes to it anywhere finds it (`RecordsReadBack`),
  and the other way round: what it accepts determines the header, byte by byte
  (`RecordsWrittenOnce`; the two bytes of a length and the length determine each
  other, `BytesToLength` and `LengthToBytes`). On it rest the same two facts for
  requests and for responses. `RequestIn` and `ResponseIn` state what
  `decode_request()` and `decode_response()` make of a payload, type by type;
  fields written one after the other are found at their offsets
  (`FieldsFound`), and a payload of the right length is nothing but its fields
  (`FieldsJoined`). A length check too lax would break the second, an offset
  that is wrong the first.
* **Streams** (`StreamsProofs`). The recipient's invariant says that all that
  was handed on is refused by the stored window and by the one in memory, and
  that the latter refuses all the former does; marking and sliding keep what is
  refused. The sender's says that every number sent or taken lies below the
  stored counter or is the topmost. `StreamsTolerateReordering` is about one
  step and any reachable window: sliding goes no further than marking asks for
  and stops at half a window below what was marked. That a loop of `mark_seen()` has a first
  window to stop at rests on `LeastExists` of `WindowProofs`.
* **Channel** (`ChannelProofs`, with `WindowProofs` for the window). The
  invariant `ChannelInv` has three parts. `DevicesInv`: keys are the ones their
  period determines (`rotate_to` in one call or in many comes to the same), the
  recipient holds a run of consecutive periods, and neither device is further
  ahead of the time than its clock may be. `NetworkInv`: a stream is of a
  period the sender's clock had shown, carries that period's keys and a number
  below the next one, and a later stream has a later period or a larger number.
  `ReadInv`: what was read is refused by its window, or of a period that is
  gone for good. `ThreePeriodsEnough` is where `ClockAssumption` is needed: a
  period lasts as long as the clocks differ and a stream takes.
  Two properties need more. `OnTimeIsRecognised` rests on `WindowsInv`, which
  ties each window to the numbers read with it (`Tracks`): it has seen no
  other, reaches half a window beyond each, and what it has left behind was
  read or lies half a window below one that was. How far the two loops of
  `mark_seen()` slide is in the reach lemmas of `WindowProofs`
  (`TopHalfReach`, `LowestReach`, `MarkedReach`). `ReadAsSent` rests on
  `FramesInv`: the frames on the network are what was sent, sealed under the
  stream's own key and numbered by place, and the header tells that key and the
  number of the stream. A header that opens under the keys of a period and has
  the number of the tag is the one of that stream (`HeaderBelongs`, with
  `NoTagTwice`), so the cipher key is its own; a piece that opens under it is
  the one of its place (`FramesOfStream`), so what opens in a row is how the
  stream began. Both this and `NoNonceTwice` need that a nonce tells number and
  flag (`NonceTells`), which is true of numbers below `HeaderBit` only, and all
  that were sealed are, as the others were refused.
* **Meeting** (`MeetingProofs`), for any identities, devices, epochs and key
  pairs, with symbolic cryptography: a container whose signatures hold is one
  that was signed (`SignaturesBind`), a bundle that meets the commitment is the
  one of the link, and root keys are equal only if all that went into them is.
  The invariant has a part for each actor. `SignedInv` and `RevokedLast`: every
  statement is of an epoch its owner has reached, and no device is certified in
  the epoch of its revocation or later; for the latter the owner must raise the
  epoch with every revocation. `ContactInv`: what a device holds of its contact
  the owner has said. `NetworkInv`: a confirmation of B was sent when B had
  finished. `HalfInv` and `DoneInv`: an unfinished handshake is with a certified
  device not known to be revoked, and in each root key is an ephemeral pair of
  the device's own that is not in use any more. `RevokedStaysOut` follows from
  `RevokedLast`: a certificate that is not refused is of no earlier epoch than
  the recorded one, and none is of the epoch of its device's revocation or a
  later one, so the revocation is of an epoch that is not recorded yet
  (`NotRefusedNotRevoked`, `TakenUpStaysOut`).
  `PastIsClosed` and `KeyUsedOnce` follow from the pair, `FinishedAgree` from
  the confirmations, as damage makes no confirmation of another root key.
  `RootIsSharedByTwo` speaks of all devices at once: two that finished with one
  root key took it for shared with each other, and no third has it.
* **The epochs are device sets** (`MeetingImplementsDeviceSets`), from the same
  invariant. `InSetMeans`: what is in a set has a certificate of that epoch,
  and no epoch is one the owner has not reached, so a new epoch begins with an
  empty set (`AfterSigning`). `NotRefusedTakesUp`: a certificate that is not
  refused puts its device in a set that is not behind the one gone by.
  `LearnRevocationTells` is where `RevokedLast` is needed: from the epoch of a
  revocation on its device is in no set, so following forward never leads back
  to it. `FinishMeets`: whom a device finishes with it was meeting.
* **Sync** (`SyncProofs`). Among the types is that waits stay within the
  latency times the largest power of two the code allows (`BackoffIsBounded`),
  although the count of sendings goes on to a bound that has nothing to do with
  it;
  powers of two grow because the subsets of a longer interval are more
  (`DoublingGrows`). `SeenIsTrue` is inductive with `RecordsTellTruth`:
  acknowledgements, offers and messages on their way were sent by a device
  that has an entry for the message, and entries are never removed.
  `RequestKeptUntilAnswered` and `AckOwedUntilSent` need the types only, and
  look at each handler; both are proved under `EveryListFits`, without which
  the second is false (`sync_lists`) and the first is for UNAVAILABLE.
  `NobodyAsksInVain` needs no such assumption: what a device was offered, waits
  for or asks for, the other has an entry for, so a request is never the one of
  an unknown message that `on_peer_requested` has no state for.
* **Delivery** (`DeliveryProofs`). `UnmarkedIsWellFounded` speaks of all
  ancestors. What is inductive is one step of it: an unmarked message points to
  delivered, unmarked ones. These are then a set closed under dependencies, and
  ancestors stay inside such a set. `MarkedRestsOnHorizon` is inductive, since
  the ancestors of a dependency are ancestors. `NeverAtAStandstill` is what is
  true in every state for `EventuallyDelivered` to hold: if a message is
  undelivered although it arrived with all it rests on, something it rests on,
  or itself, is ready. It assumes that graphs have no cycles (`Acyclic`, which
  the instance meets by its choice of graphs): a message contains the hashes
  of those it points to.
* **Retention** (`RetentionProofs`). Each way of setting the clock has its half
  of the invariant (`StampsAreHonest`). While nobody set it forward, no message
  looks older than it is (`NoOlderThanItIs`), which is all `Age` needs. While
  nobody set it back, what came later has no earlier stamp (`StampsFollowTime`),
  so whatever a stable sort puts before a message came no earlier than it, in
  whatever order the client names them, and that is no more than what `Latest`
  counts.

Only model-checked: the liveness properties `EventuallyReceived`,
`BothComeToKnow`, `RequestAnswered` and `EventuallyDelivered` (fairness is
beyond the prover), and the properties of `Codecs`, which speak of all nine
readers: that of BDF is `RECURSIVE`, which the prover does not take, and a
stream of any number of records, like the text of a link, needs induction over
data. What the wire theorems above prove is the part of these properties for
one record and for the relay's requests and responses. Every other property of
a passing run is a theorem. Only proved: the type invariant of `Delivery`.

## Plan

Done: the relay and its mailbox, streams, periods and frames, sync sessions,
delivery, retention, identity with its device sets and handshake, and the
readers and writers.

Left: clients of the relay that read, crash and delete, on top of `Mailbox`.

## Not modelled

* **Crypto primitives**: bindings to libraries and self-contained functions;
  hashes, signatures, agreements and tags are symbolic wherever they are used.
* **What only computes a hash or a key from its inputs**: identifiers of
  messages and groups, fingerprints, rendezvous keys and addresses, key
  derivation labels. There is no state, and a symbolic hash says nothing of it
  but that it is injective.
* **The facade crate** re-exports the others. **Repository scripts** run tools.
* **Sockets, files and the command line of `relayd`**: a connection is a thread
  that has a record or has none.
