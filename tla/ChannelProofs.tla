---------------------------- MODULE ChannelProofs ----------------------------
(***************************************************************************)
(* Proofs about the channel, for every length of a period that is at least *)
(* the clocks' difference and the latency together, every bound on         *)
(* rotations, every window and whatever the streams carry.                 *)
(***************************************************************************)
EXTENDS Channel, WindowProofs, SequenceTheorems

-----------------------------------------------------------------------------
(* Periods. *)

(* A quotient is the number of times the divisor fits.                     *)
LEMMA Quotient ==
  ASSUME NEW x \in Nat, NEW d \in Nat \ {0}
  PROVE  /\ x \div d \in Nat
         /\ (x \div d) * d <= x
         /\ x < (x \div d) * d + d
OBVIOUS

(* Periods are numbers, later times are not in earlier periods, and within *)
(* the length of a period no more than one period passes.                  *)
LEMMA PeriodType ==
  ASSUME NEW x \in Nat
  PROVE  PeriodAt(x) \in Nat
<1>1. x \div MsPerSecond \in Nat
  BY Quotient, PeriodAssumption
<1> QED BY <1>1, Quotient, PeriodAssumption DEF PeriodAt

LEMMA QuotientGrows ==
  ASSUME NEW x \in Nat, NEW y \in Nat, NEW n \in Nat, NEW d \in Nat \ {0}, x <= y + n * d
  PROVE  x \div d <= (y \div d) + n
<1> DEFINE qx == x \div d
           qy == y \div d
<1>1. /\ qx \in Nat /\ qx * d <= x
      /\ qy \in Nat /\ y < qy * d + d
  BY Quotient
<1> HIDE DEF qx, qy
<1>2. SUFFICES ASSUME qx >= qy + n + 1 PROVE FALSE
  BY <1>1 DEF qx, qy
<1>3. qx * d >= (qy + n + 1) * d
  BY <1>1, <1>2
<1>4. (qy + n + 1) * d = qy * d + n * d + d
  BY <1>1
<1>5. qx * d \in Nat /\ qy * d \in Nat /\ n * d \in Nat
  BY <1>1
<1> QED BY <1>1, <1>3, <1>4, <1>5

LEMMA PeriodGrows ==
  ASSUME NEW x \in Nat, NEW y \in Nat, NEW n \in {0, 1}, x <= y + n * PeriodMs
  PROVE  PeriodAt(x) <= PeriodAt(y) + n
<1>1. n * PeriodMs = (n * PeriodSeconds) * MsPerSecond /\ n * PeriodSeconds \in Nat
  BY PeriodAssumption DEF PeriodMs
<1>2. x \div MsPerSecond \in Nat /\ y \div MsPerSecond \in Nat
  BY Quotient, PeriodAssumption
<1>3. x \div MsPerSecond <= (y \div MsPerSecond) + n * PeriodSeconds
  BY <1>1, QuotientGrows, PeriodAssumption
<1> QED BY <1>2, <1>3, QuotientGrows, PeriodAssumption DEF PeriodAt

LEMMA PeriodLater ==
  ASSUME NEW x \in Nat, NEW y \in Nat
  PROVE  /\ x <= y => PeriodAt(x) <= PeriodAt(y)
         /\ x <= y + PeriodMs => PeriodAt(x) <= PeriodAt(y) + 1
<1>1. PeriodMs \in Nat /\ PeriodAt(x) \in Nat /\ PeriodAt(y) \in Nat
  BY PeriodAssumption, PeriodType DEF PeriodMs
<1>2. y + 0 * PeriodMs = y /\ y + 1 * PeriodMs = y + PeriodMs
  BY <1>1
<1>3. ASSUME x <= y PROVE PeriodAt(x) <= PeriodAt(y)
  <2>1. PeriodAt(x) <= PeriodAt(y) + 0
    BY <1>2, <1>3, PeriodGrows
  <2> QED BY <1>1, <2>1
<1>4. ASSUME x <= y + PeriodMs PROVE PeriodAt(x) <= PeriodAt(y) + 1
  BY <1>2, <1>4, PeriodGrows
<1> QED BY <1>3, <1>4

-----------------------------------------------------------------------------
(* Keys. *)

LEMMA TurnsType ==
  ASSUME NEW a \in Nat, NEW b \in Nat, a <= b
  PROVE  Turns(a, b) \in Seq(Nat) /\ Len(Turns(a, b)) = b - a
BY DEF Turns

(* Turning to one period and from there to a later one comes to the same   *)
(* as turning there at once.                                               *)
LEMMA TurnsTwice ==
  ASSUME NEW a \in Nat, NEW b \in Nat, NEW c \in Nat, a <= b, b <= c
  PROVE  Turns(a, b) \o Turns(b, c) = Turns(a, c)
<1> DEFINE s == Turns(a, b)
           t == Turns(b, c)
           u == Turns(a, c)
<1>0. a <= c
  OBVIOUS
<1>1. /\ s \in Seq(Nat) /\ Len(s) = b - a
      /\ t \in Seq(Nat) /\ Len(t) = c - b
      /\ u \in Seq(Nat) /\ Len(u) = c - a
  <2>1. s \in Seq(Nat) /\ Len(s) = b - a
    BY TurnsType
  <2>2. t \in Seq(Nat) /\ Len(t) = c - b
    BY TurnsType
  <2>3. u \in Seq(Nat) /\ Len(u) = c - a
    BY <1>0, TurnsType
  <2> QED BY <2>1, <2>2, <2>3
<1>2. /\ \A i \in 1..(b - a) : s[i] = a + i
      /\ \A i \in 1..(c - b) : t[i] = b + i
      /\ \A i \in 1..(c - a) : u[i] = a + i
  BY DEF Turns
<1> HIDE DEF s, t, u
<1>3. /\ s \o t \in Seq(Nat) /\ Len(s \o t) = c - a
      /\ \A i \in 1..(c - a) : (s \o t)[i] = IF i <= b - a THEN s[i] ELSE t[i - (b - a)]
  <2>1. Len(s) + Len(t) = c - a
    BY <1>1
  <2>2. /\ s \o t \in Seq(Nat) /\ Len(s \o t) = Len(s) + Len(t)
        /\ \A i \in 1..(Len(s) + Len(t)) :
             (s \o t)[i] = IF i <= Len(s) THEN s[i] ELSE t[i - Len(s)]
    BY <1>1, ConcatProperties
  <2> QED BY <1>1, <2>1, <2>2
<1>4. \A i \in 1..(c - a) : (s \o t)[i] = u[i]
  <2> SUFFICES ASSUME NEW i \in 1..(c - a) PROVE (s \o t)[i] = u[i]
    OBVIOUS
  <2>1. CASE i <= b - a
    <3>1. i \in 1..(b - a) /\ (s \o t)[i] = s[i]
      BY <1>3, <2>1
    <3> QED BY <1>2, <3>1
  <2>2. CASE ~ (i <= b - a)
    <3>1. (s \o t)[i] = t[i - (b - a)]
      BY <1>3, <2>2
    <3>2. i - (b - a) \in 1..(c - b) /\ b + (i - (b - a)) = a + i
      BY <2>2
    <3>3. t[i - (b - a)] = b + (i - (b - a))
      BY <1>2, <3>2
    <3> QED BY <1>2, <3>1, <3>2, <3>3
  <2> QED BY <2>1, <2>2
<1>5. s \o t = u
  BY <1>1, <1>3, <1>4, SeqEqual
<1> QED BY <1>5 DEF s, t, u

\* The period of the first keys.
Base == PeriodAt(Agreed) - 1

\* The keys of one direction and of both in a period.
DirectionAt(role, period) ==
  [tag_key    |-> [label |-> TagLabel[role], turned |-> Turns(Base, period)],
   header_key |-> [label |-> HeaderLabel[role], turned |-> Turns(Base, period)]]

KeysAt(role, period) ==
  [period   |-> period,
   outgoing |-> DirectionAt(role, period),
   incoming |-> DirectionAt(Peer(role), period)]

LEMMA BaseType == Base \in Nat
BY PeriodType, ClockAssumption DEF Base, TooEarly

(* Rotating the keys of one period gives the keys of the other.            *)
LEMMA RotatedKeys ==
  ASSUME NEW role \in Role, NEW p \in Nat, NEW q \in Nat, Base <= p, p <= q
  PROVE  Rotated(KeysAt(role, p), q) = KeysAt(role, q)
<1>1. Turns(Base, p) \o Turns(p, q) = Turns(Base, q)
  BY BaseType, TurnsTwice
<1>2. \A r \in Role : BothTurned(DirectionAt(r, p), p, q) = DirectionAt(r, q)
  <2>1. ASSUME NEW l
        PROVE  Turned([label |-> l, turned |-> Turns(Base, p)], p, q)
                 = [label |-> l, turned |-> Turns(Base, q)]
    <3> DEFINE k == [label |-> l, turned |-> Turns(Base, p)]
    <3>1. k.turned = Turns(Base, p)
      OBVIOUS
    <3>2. Turned(k, p, q) = [k EXCEPT !.turned = Turns(Base, q)]
      BY <1>1, <3>1, Zenon DEF Turned
    <3>3. [k EXCEPT !.turned = Turns(Base, q)] = [label |-> l, turned |-> Turns(Base, q)]
      OBVIOUS
    <3> QED BY <3>2, <3>3
  <2> QED BY <2>1 DEF DirectionAt, BothTurned
<1>3. Peer(role) \in Role
  BY DEF Peer, Role
<1> QED BY <1>2, <1>3 DEF Rotated, KeysAt

LEMMA FirstKeysAt ==
  ASSUME NEW role \in Role
  PROVE  InitialKeys(role, Agreed) = KeysAt(role, Base)
<1>1. Turns(Base, Base) = << >>
  BY BaseType DEF Turns
<1> QED BY <1>1 DEF InitialKeys, KeysAt, DirectionAt, FirstKeys, Base

LEMMA KeysType ==
  ASSUME NEW role \in Role, NEW p \in Nat, Base <= p
  PROVE  KeysAt(role, p) \in PeriodKeys
<1>1. Turns(Base, p) \in Seq(Nat)
  BY BaseType, TurnsType
<1>2. \A r \in Role : DirectionAt(r, p) \in DirectionKeys
  BY <1>1 DEF DirectionAt, DirectionKeys, Key, TagLabel, HeaderLabel, Role
<1>3. Peer(role) \in Role
  BY DEF Peer, Role
<1> QED BY <1>2, <1>3 DEF KeysAt, PeriodKeys

(* Keys of different periods are different, and none of a later period     *)
(* leads to one of an earlier.                                             *)
LEMMA KeysApart ==
  ASSUME NEW r \in Role, NEW p \in Nat, NEW q \in Nat, Base <= p, Base <= q
  PROVE  /\ DirectionAt(r, p).tag_key = DirectionAt(r, q).tag_key => p = q
         /\ DirectionAt(r, p).header_key = DirectionAt(r, q).header_key => p = q
         /\ p < q =>
              /\ ~Reaches(DirectionAt(r, q).tag_key, DirectionAt(r, p).tag_key)
              /\ ~Reaches(DirectionAt(r, q).header_key, DirectionAt(r, p).header_key)
<1>1. Len(Turns(Base, p)) = p - Base /\ Len(Turns(Base, q)) = q - Base
  BY BaseType, TurnsType
<1> QED BY <1>1, BaseType DEF DirectionAt, Reaches

-----------------------------------------------------------------------------
(* The invariant. *)

IsSequence(s) == \E S : s \in Seq(S)

(* B holds the keys of the periods from lo to hi, each with a window.      *)
Holds(h, lo, hi) ==
  /\ lo \in Nat /\ hi \in Nat /\ Base <= lo /\ lo <= hi
  /\ h = [p \in lo..hi |-> [keys |-> KeysAt("B", p), window |-> h[p].window]]
  /\ \A p \in lo..hi : Clear(h[p].window)

(* Keys are those of their period, and a device is ahead of the time by no *)
(* more than its clock may be.                                             *)
DevicesInv ==
  /\ now \in Nat /\ Agreed <= now
  /\ sender = [keys |-> KeysAt("A", sender.keys.period), next |-> sender.next]
  /\ sender.keys.period \in Nat /\ Base <= sender.keys.period /\ sender.next \in Nat
  /\ sender.keys.period <= PeriodAt(now + MaxClockDifference)
  /\ \E lo, hi : Holds(held, lo, hi) /\ lo + 1 <= PeriodAt(now + MaxClockDifference)
  /\ lost \subseteq Role

(* A stream is of the period its sender's clock showed, or of a later one  *)
(* the clock had shown before.                                             *)
SentInPeriod(s) ==
  /\ s.sentAt \in Nat /\ s.sentAt <= now
  /\ s.period \in Nat /\ Base <= s.period /\ s.period <= sender.keys.period
  /\ PeriodAt(s.sentAt) <= s.period
  /\ s.period <= PeriodAt(s.sentAt + MaxClockDifference)

(* It is sealed with the keys of that period, under a number that is not   *)
(* used again.                                                             *)
SealedForPeriod(s) ==
  /\ s.tag = Tag(DirectionAt("A", s.period).tag_key, s.tag.number)
  /\ s.header.key = DirectionAt("A", s.period).header_key
  /\ s.tag.number \in Nat
  /\ s.period = sender.keys.period => s.tag.number < sender.next

(* A later stream is of a later period or has a larger number.             *)
Before(s, t) ==
  s.period < t.period \/ (s.period = t.period /\ s.tag.number < t.tag.number)

NetworkInv ==
  /\ IsSequence(network)
  /\ \A i \in Stream : SentInPeriod(network[i]) /\ SealedForPeriod(network[i])
  /\ \A i, j \in Stream : i < j => Before(network[i], network[j])

(* What was read is of a period that is gone, or its window refuses it.    *)
Behind(s) ==
  IF s.period \in DOMAIN held
  THEN s.tag.number \in Number /\ Refuses(held[s.period].window, s.tag.number)
  ELSE \A p \in DOMAIN held : s.period < p

ReadInv ==
  /\ IsSequence(handedOn) /\ Len(handedOn) = Len(network)
  /\ \A i \in Stream :
       handedOn[i] = << >> \/ (IsSequence(handedOn[i]) /\ Len(handedOn[i]) = 1 /\ Behind(network[i]))

ChannelInv == DevicesInv /\ NetworkInv /\ ReadInv

-----------------------------------------------------------------------------
(* Sequences that grow or change in one place. *)

LEMMA Appended ==
  ASSUME NEW s, IsSequence(s), NEW e
  PROVE  /\ IsSequence(Append(s, e))
         /\ Len(s) \in Nat /\ DOMAIN s = 1..Len(s)
         /\ Len(Append(s, e)) = Len(s) + 1
         /\ DOMAIN Append(s, e) = 1..(Len(s) + 1)
         /\ \A i \in 1..Len(s) : Append(s, e)[i] = s[i]
         /\ Append(s, e)[Len(s) + 1] = e
<1>1. PICK S : s \in Seq(S)
  BY DEF IsSequence
<1>2. s \in Seq(S \cup {e}) /\ e \in S \cup {e}
  BY <1>1
<1>3. /\ Append(s, e) \in Seq(S \cup {e})
      /\ Len(Append(s, e)) = Len(s) + 1
      /\ \A i \in 1..Len(s) : Append(s, e)[i] = s[i]
      /\ Append(s, e)[Len(s) + 1] = e
  BY <1>2, AppendProperties
<1> QED BY <1>1, <1>3 DEF IsSequence

LEMMA Replaced ==
  ASSUME NEW s, IsSequence(s), NEW i \in DOMAIN s, NEW e
  PROVE  /\ IsSequence([s EXCEPT ![i] = e])
         /\ Len([s EXCEPT ![i] = e]) = Len(s)
<1>1. PICK S : s \in Seq(S)
  BY DEF IsSequence
<1>2. s \in Seq(S \cup {e}) /\ e \in S \cup {e} /\ i \in 1..Len(s)
  BY <1>1
<1>3. [s EXCEPT ![i] = e] \in Seq(S \cup {e}) /\ Len([s EXCEPT ![i] = e]) = Len(s)
  BY <1>2, ExceptSeq
<1> QED BY <1>3 DEF IsSequence

LEMMA NetworkDomain == NetworkInv => Len(network) \in Nat /\ Stream = 1..Len(network)
BY Appended DEF NetworkInv, Stream

-----------------------------------------------------------------------------
(* What the two devices hold after turning. *)

LEMMA Readable ==
  ASSUME DevicesInv, NEW t \in Readings
  PROVE  /\ t \in Nat /\ now <= t /\ t <= now + MaxClockDifference
         /\ PeriodAt(t) \in Nat /\ Base + 1 <= PeriodAt(t)
         /\ PeriodAt(t) <= PeriodAt(now + MaxClockDifference)
<1>1. t \in Nat /\ now <= t /\ t <= now + MaxClockDifference /\ now + MaxClockDifference \in Nat
  BY ClockAssumption DEF DevicesInv, Readings
<1>2. Agreed \in Nat /\ Agreed <= t
  BY <1>1, ClockAssumption DEF DevicesInv
<1>3. /\ PeriodAt(t) \in Nat /\ PeriodAt(Agreed) \in Nat
      /\ PeriodAt(now + MaxClockDifference) \in Nat
  BY <1>1, <1>2, PeriodType
<1>4. PeriodAt(t) <= PeriodAt(now + MaxClockDifference)
  BY <1>1, PeriodLater
<1>5. PeriodAt(Agreed) <= PeriodAt(t)
  BY <1>1, <1>2, PeriodLater
<1> QED BY <1>1, <1>3, <1>4, <1>5 DEF Base

LEMMA SenderTurns ==
  ASSUME DevicesInv, NEW t \in Readings, ~SenderLost(t)
  PROVE  LET s == SenderTurned(t) IN
         /\ s = [keys |-> KeysAt("A", s.keys.period), next |-> s.next]
         /\ s.keys.period \in Nat /\ s.next \in Nat
         /\ sender.keys.period <= s.keys.period /\ PeriodAt(t) <= s.keys.period
         /\ s.keys.period <= PeriodAt(now + MaxClockDifference)
         /\ s.keys.period = sender.keys.period => s.next = sender.next
<1>1. PeriodAt(t) \in Nat /\ PeriodAt(t) <= PeriodAt(now + MaxClockDifference)
  BY Readable
<1>2. RotationRefusal(sender.keys, PeriodAt(t)) = {} <=> ~ (PeriodAt(t) < sender.keys.period)
  BY DEF RotationRefusal, SenderLost
<1>3. CASE PeriodAt(t) <= sender.keys.period
  <2>1. SenderTurned(t) = sender
    BY <1>1, <1>2, <1>3 DEF SenderTurned, DevicesInv
  <2> QED BY <1>1, <1>3, <2>1 DEF DevicesInv
<1>4. CASE PeriodAt(t) > sender.keys.period
  <2>1. SenderTurned(t) = [keys |-> Rotated(sender.keys, PeriodAt(t)), next |-> 0]
    BY <1>1, <1>2, <1>4 DEF SenderTurned, DevicesInv
  <2>2. Rotated(sender.keys, PeriodAt(t)) = KeysAt("A", PeriodAt(t))
    <3>1. sender.keys = KeysAt("A", sender.keys.period)
      BY DEF DevicesInv
    <3>2. "A" \in Role
      BY DEF Role
    <3> QED BY <1>1, <1>4, <3>1, <3>2, RotatedKeys DEF DevicesInv
  <2>3. KeysAt("A", PeriodAt(t)).period = PeriodAt(t)
    BY DEF KeysAt
  <2> QED BY <1>1, <1>4, <2>1, <2>2, <2>3 DEF DevicesInv
<1> QED BY <1>1, <1>3, <1>4 DEF DevicesInv

LEMMA Ends ==
  ASSUME NEW lo \in Nat, NEW hi \in Nat, lo <= hi, DOMAIN held = lo..hi
  PROVE  Oldest = lo /\ Newest = hi
<1>1. lo \in DOMAIN held /\ hi \in DOMAIN held
  BY SMT
<1>2. \A p \in DOMAIN held : lo <= p /\ p <= hi /\ p \in Int
  OBVIOUS
<1> QED BY <1>1, <1>2 DEF Oldest, Newest

(* The periods from the previous one or the oldest still there up to the   *)
(* next one or the newest already there; those that were there unchanged.  *)
LEMMA RecipientTurns ==
  ASSUME DevicesInv, NEW t \in Readings, NEW lo, NEW hi, Holds(held, lo, hi),
         lo + 1 <= PeriodAt(now + MaxClockDifference)
  PROVE  LET low == Lowest(t) high == Highest(t) h == HeldTurned(t) IN
         /\ Holds(h, low, high)
         /\ low = IF PeriodAt(t) - 1 < lo THEN lo ELSE PeriodAt(t) - 1
         /\ high >= hi /\ high >= PeriodAt(t) + 1
         /\ low + 1 <= PeriodAt(now + MaxClockDifference)
         /\ DOMAIN h = low..high
         /\ \A p \in low..high : p \in lo..hi => h[p] = held[p]
         /\ \A p \in low..high : p \notin lo..hi => h[p].window = NewWindow
<1> DEFINE low == Lowest(t)
           high == Highest(t)
           h == HeldTurned(t)
<1>1. /\ PeriodAt(t) \in Nat /\ Base + 1 <= PeriodAt(t)
      /\ PeriodAt(t) <= PeriodAt(now + MaxClockDifference)
  BY Readable
<1>2. /\ lo \in Nat /\ hi \in Nat /\ lo <= hi /\ Base <= lo /\ Base \in Nat
      /\ DOMAIN held = lo..hi
      /\ \A p \in lo..hi : held[p] = [keys |-> KeysAt("B", p), window |-> held[p].window]
      /\ \A p \in lo..hi : Clear(held[p].window)
  BY BaseType DEF Holds
<1>3. Oldest = lo /\ Newest = hi
  BY <1>2, Ends
<1>4. lo \in lo..hi
  BY <1>2
<1>5. held[lo].keys = KeysAt("B", lo) /\ held[lo].keys.period = lo
  <2>1. held[lo].keys = KeysAt("B", lo)
    BY <1>2, <1>4
  <2> QED BY <2>1 DEF KeysAt
<1>6. low = IF PeriodAt(t) - 1 < lo THEN lo ELSE PeriodAt(t) - 1
  BY <1>3, <1>5 DEF Lowest, RotationRefusal
<1>7. high = IF PeriodAt(t) + 1 > hi THEN PeriodAt(t) + 1 ELSE hi
  BY <1>3 DEF Highest
<1>8. low \in Nat /\ high \in Nat /\ lo <= low /\ low <= high /\ Base <= low
  BY <1>1, <1>2, <1>6, <1>7
<1>9. Rotated(held[Oldest].keys, low) = KeysAt("B", low)
  BY <1>2, <1>3, <1>5, <1>8, RotatedKeys DEF Role
<1>10. h = [p \in low..high |-> IF p \in lo..hi THEN held[p]
                               ELSE [keys |-> Rotated(KeysAt("B", low), p), window |-> NewWindow]]
  BY <1>2, <1>9 DEF HeldTurned
<1> HIDE DEF low, high, h
<1>11. ASSUME NEW p \in low..high, p \notin lo..hi
       PROVE  h[p] = [keys |-> KeysAt("B", p), window |-> NewWindow]
  <2>1. p \in Nat /\ low <= p
    BY <1>8
  <2>2. Rotated(KeysAt("B", low), p) = KeysAt("B", p)
    BY <1>8, <2>1, RotatedKeys DEF Role
  <2> QED BY <1>10, <1>11, <2>2
<1>12. ASSUME NEW p \in low..high, p \in lo..hi
       PROVE  h[p] = held[p]
  BY <1>10, <1>12
<1>13. Clear(NewWindow)
  BY WindowAssumption DEF Clear, NewWindow, Window, Number
<1>14. ASSUME NEW p \in low..high
       PROVE  h[p] = [keys |-> KeysAt("B", p), window |-> h[p].window] /\ Clear(h[p].window)
  <2>1. CASE p \in lo..hi
    <3>1. h[p] = held[p]
      BY <1>12, <2>1
    <3> QED BY <1>2, <2>1, <3>1
  <2>2. CASE p \notin lo..hi
    <3>1. h[p] = [keys |-> KeysAt("B", p), window |-> NewWindow]
      BY <1>11, <2>2
    <3> QED BY <1>13, <3>1
  <2> QED BY <2>1, <2>2
<1>15. h = [p \in low..high |-> h[p]]
  BY <1>10
<1>16. h = [p \in low..high |-> [keys |-> KeysAt("B", p), window |-> h[p].window]]
  BY <1>14, <1>15
<1>17. Holds(h, low, high)
  BY <1>8, <1>14, <1>16 DEF Holds
<1>18. DOMAIN h = low..high
  BY <1>15
<1>19. low + 1 <= PeriodAt(now + MaxClockDifference) /\ high >= hi /\ high >= PeriodAt(t) + 1
  BY <1>1, <1>2, <1>6, <1>7
<1>20. \A p \in low..high : p \notin lo..hi => h[p].window = NewWindow
  <2> SUFFICES ASSUME NEW p \in low..high, p \notin lo..hi PROVE h[p].window = NewWindow
    OBVIOUS
  <2>1. h[p] = [keys |-> KeysAt("B", p), window |-> NewWindow]
    BY <1>11
  <2> QED BY <2>1
<1> QED BY <1>6, <1>12, <1>17, <1>18, <1>19, <1>20 DEF low, high, h

-----------------------------------------------------------------------------
(* The invariant holds. *)

LEMMA InitInv == Init => ChannelInv
<1> SUFFICES ASSUME Init PROVE ChannelInv
  OBVIOUS
<1> USE DEF Init
<1>1. /\ Base \in Nat /\ PeriodAt(Agreed) = Base + 1 /\ Agreed \in Nat
      /\ Agreed + MaxClockDifference \in Nat
      /\ PeriodAt(Agreed + MaxClockDifference) \in Nat
      /\ PeriodAt(Agreed) <= PeriodAt(Agreed + MaxClockDifference)
  <2>1. Agreed \in Nat /\ Agreed + MaxClockDifference \in Nat
    BY ClockAssumption
  <2>2. /\ PeriodAt(Agreed) \in Nat /\ PeriodAt(Agreed + MaxClockDifference) \in Nat
        /\ PeriodAt(Agreed) <= PeriodAt(Agreed + MaxClockDifference)
    <3>1. Agreed <= Agreed + MaxClockDifference
      BY ClockAssumption
    <3> QED BY <2>1, <3>1, PeriodType, PeriodLater
  <2>3. Base \in Nat /\ PeriodAt(Agreed) = Base + 1
    BY <2>2, BaseType DEF Base
  <2> QED BY <2>1, <2>2, <2>3
<1>2. sender.keys = KeysAt("A", Base) /\ sender.next = 0 /\ sender.keys.period = Base
  <2>1. sender.keys = KeysAt("A", Base) /\ sender.next = 0
    BY FirstKeysAt DEF Role
  <2> QED BY <2>1 DEF KeysAt
<1>3. Holds(held, Base, Base)
  <2>1. held = [p \in Base..Base |-> [keys |-> KeysAt("B", Base), window |-> NewWindow]]
    BY <1>1, FirstKeysAt DEF Role, Base
  <2>2. Clear(NewWindow)
    BY WindowAssumption DEF Clear, NewWindow, Window, Number
  <2>3. \A p \in Base..Base : p = Base /\ held[p].window = NewWindow
    BY <1>1, <2>1
  <2>4. held = [p \in Base..Base |-> [keys |-> KeysAt("B", p), window |-> held[p].window]]
    BY <2>1, <2>3
  <2> QED BY <1>1, <2>2, <2>3, <2>4 DEF Holds
<1>4. DevicesInv
  <2>1. sender = [keys |-> KeysAt("A", Base), next |-> 0]
    BY <1>2
  <2> QED BY <1>1, <1>2, <1>3, <2>1 DEF DevicesInv
<1>5. << >> \in Seq({}) /\ Len(<< >>) = 0 /\ DOMAIN << >> = {}
  OBVIOUS
<1>6. NetworkInv /\ ReadInv
  BY <1>5 DEF NetworkInv, ReadInv, IsSequence, Stream
<1> QED BY <1>4, <1>6 DEF ChannelInv

(* Time passes: a period that was not too late is not too late now.        *)
LEMMA TickInv == ChannelInv /\ Tick => ChannelInv'
<1> SUFFICES ASSUME ChannelInv, Tick PROVE ChannelInv'
  OBVIOUS
<1>1. /\ now' = now + 1 /\ now \in Nat
      /\ sender' = sender /\ held' = held /\ lost' = lost
      /\ network' = network /\ handedOn' = handedOn
  BY DEF Tick, ChannelInv, DevicesInv
<1>2. /\ PeriodAt(now + MaxClockDifference) <= PeriodAt(now' + MaxClockDifference)
      /\ PeriodAt(now + MaxClockDifference) \in Nat
      /\ PeriodAt(now' + MaxClockDifference) \in Nat
  <2>1. /\ now + MaxClockDifference \in Nat /\ now' + MaxClockDifference \in Nat
        /\ now + MaxClockDifference <= now' + MaxClockDifference
    BY <1>1, ClockAssumption
  <2> QED BY <2>1, PeriodLater, PeriodType
<1>3. DevicesInv'
  <2>1. PICK lo, hi : Holds(held, lo, hi) /\ lo + 1 <= PeriodAt(now + MaxClockDifference)
    BY DEF ChannelInv, DevicesInv
  <2>2. lo \in Nat /\ lo + 1 <= PeriodAt(now' + MaxClockDifference)
    BY <1>2, <2>1 DEF Holds
  <2>3. Holds(held', lo, hi)
    BY <1>1, <2>1
  <2> QED BY <1>1, <1>2, <2>2, <2>3, ClockAssumption DEF ChannelInv, DevicesInv
<1>4. NetworkInv'
  <2>1. \A i \in Stream : SentInPeriod(network[i])'
    BY <1>1 DEF ChannelInv, NetworkInv, SentInPeriod
  <2> QED BY <1>1, <2>1 DEF ChannelInv, NetworkInv, SealedForPeriod, Before, Stream
<1>5. ReadInv'
  BY <1>1 DEF ChannelInv, ReadInv, Behind, Stream
<1> QED BY <1>3, <1>4, <1>5 DEF ChannelInv

LEMMA GiveUpInv ==
  ASSUME ChannelInv, NEW t \in Readings, GiveUp(t)
  PROVE  ChannelInv'
<1>1. /\ now' = now /\ sender' = sender /\ held' = held
      /\ network' = network /\ handedOn' = handedOn
  BY DEF GiveUp
<1>2. lost' \subseteq Role
  BY DEF GiveUp, ChannelInv, DevicesInv
<1>3. DevicesInv'
  BY <1>1, <1>2 DEF ChannelInv, DevicesInv
<1>4. NetworkInv' /\ ReadInv'
  BY <1>1 DEF ChannelInv, NetworkInv, ReadInv, SentInPeriod, SealedForPeriod, Before, Behind, Stream
<1> QED BY <1>3, <1>4 DEF ChannelInv

(* What was read stays behind B when it turns: a window that goes is of a  *)
(* period before all that are kept.                                        *)
LEMMA TurnKeepsBehind ==
  ASSUME DevicesInv, NEW t \in Readings, NEW s, s.period \in Nat, Behind(s)
  PROVE  LET h == HeldTurned(t) IN
         IF s.period \in DOMAIN h
         THEN s.tag.number \in Number /\ Refuses(h[s.period].window, s.tag.number)
         ELSE \A p \in DOMAIN h : s.period < p
<1> DEFINE h == HeldTurned(t)
           low == Lowest(t)
           high == Highest(t)
<1>1. PICK lo, hi : Holds(held, lo, hi) /\ lo + 1 <= PeriodAt(now + MaxClockDifference)
  BY DEF DevicesInv
<1>2. /\ Holds(h, low, high)
      /\ low = IF PeriodAt(t) - 1 < lo THEN lo ELSE PeriodAt(t) - 1
      /\ high >= hi
      /\ DOMAIN h = low..high
      /\ \A p \in low..high : p \in lo..hi => h[p] = held[p]
  BY <1>1, RecipientTurns
<1>3. /\ lo \in Nat /\ hi \in Nat /\ lo <= hi /\ DOMAIN held = lo..hi
      /\ low \in Nat /\ high \in Nat /\ PeriodAt(t) \in Nat
  BY <1>1, <1>2, Readable DEF Holds
<1> HIDE DEF h, low, high
<1>4. CASE s.period \in lo..hi
  <2>1. s.tag.number \in Number /\ Refuses(held[s.period].window, s.tag.number)
    BY <1>3, <1>4 DEF Behind
  <2>2. CASE s.period \in low..high
    <3>1. h[s.period] = held[s.period]
      BY <1>2, <1>4, <2>2
    <3> QED BY <1>2, <2>1, <2>2, <3>1 DEF h
  <2>3. CASE s.period \notin low..high
    <3>1. s.period < low
      BY <1>2, <1>3, <1>4, <2>3
    <3> QED BY <1>2, <1>3, <2>3, <3>1 DEF h
  <2> QED BY <2>2, <2>3
<1>5. CASE s.period \notin lo..hi
  <2>1. s.period < lo
    BY <1>3, <1>5 DEF Behind
  <2>2. s.period < low
    BY <1>2, <1>3, <2>1
  <2> QED BY <1>2, <1>3, <2>2 DEF h
<1> QED BY <1>4, <1>5

LEMMA TurnInv ==
  ASSUME ChannelInv, NEW t \in Readings, Turn(t)
  PROVE  ChannelInv'
<1>1. /\ now' = now /\ sender' = sender /\ held' = HeldTurned(t) /\ lost' = lost
      /\ network' = network /\ handedOn' = handedOn
  BY DEF Turn
<1>2. PICK lo, hi : Holds(held, lo, hi) /\ lo + 1 <= PeriodAt(now + MaxClockDifference)
  BY DEF ChannelInv, DevicesInv
<1>3. Holds(held', Lowest(t), Highest(t)) /\ Lowest(t) + 1 <= PeriodAt(now + MaxClockDifference)
  BY <1>1, <1>2, RecipientTurns DEF ChannelInv
<1>4. DevicesInv'
  BY <1>1, <1>3 DEF ChannelInv, DevicesInv
<1>5. NetworkInv'
  BY <1>1 DEF ChannelInv, NetworkInv, SentInPeriod, SealedForPeriod, Before, Stream
<1>6. ASSUME NEW s, s.period \in Nat, Behind(s) PROVE Behind(s)'
  BY <1>1, <1>6, TurnKeepsBehind DEF ChannelInv, Behind
<1>7. ReadInv'
  <2>1. \A i \in Stream : network[i].period \in Nat
    BY DEF ChannelInv, NetworkInv, SentInPeriod
  <2> QED BY <1>1, <1>6, <2>1 DEF ChannelInv, ReadInv, Stream, Behind
<1> QED BY <1>4, <1>5, <1>7 DEF ChannelInv

(* A new stream is of the newest period and has the largest number in it.  *)
LEMMA SendInv ==
  ASSUME ChannelInv, NEW t \in Readings, NEW content, Send(t, content)
  PROVE  ChannelInv'
<1>a. PICK s : s = SenderTurned(t)
  OBVIOUS
<1>b. PICK new : new = NewStream(s, content)
  OBVIOUS
<1>c. PICK n : n = Len(network)
  OBVIOUS
<1>1. /\ now' = now /\ held' = held /\ lost' = lost
      /\ sender' = [s EXCEPT !.next = s.next + 1]
      /\ network' = Append(network, new)
      /\ handedOn' = Append(handedOn, << >>)
      /\ ~SenderLost(t)
  BY <1>a, <1>b DEF Send
<1>2. /\ s = [keys |-> KeysAt("A", s.keys.period), next |-> s.next]
      /\ s.keys.period \in Nat /\ s.next \in Nat
      /\ sender.keys.period <= s.keys.period /\ PeriodAt(t) <= s.keys.period
      /\ s.keys.period <= PeriodAt(now + MaxClockDifference)
      /\ s.keys.period = sender.keys.period => s.next = sender.next
  BY <1>1, <1>a, SenderTurns DEF ChannelInv
<1>3. /\ now \in Nat /\ PeriodAt(now) \in Nat /\ PeriodAt(now) <= s.keys.period
      /\ sender.keys.period \in Nat /\ Base \in Nat /\ Base <= sender.keys.period
  <2>1. now \in Nat /\ t \in Nat /\ now <= t /\ PeriodAt(t) \in Nat
    BY Readable DEF ChannelInv, DevicesInv
  <2> QED BY <1>2, <2>1, PeriodType, PeriodLater, BaseType DEF ChannelInv, DevicesInv
<1>4. /\ s.keys.outgoing = DirectionAt("A", s.keys.period)
      /\ new.period = s.keys.period /\ new.sentAt = now
      /\ new.tag = Tag(DirectionAt("A", new.period).tag_key, s.next)
      /\ new.tag.number = s.next
      /\ new.header.key = DirectionAt("A", new.period).header_key
  <2>1. s.keys = KeysAt("A", s.keys.period)
    BY <1>2
  <2>2. s.keys.outgoing = DirectionAt("A", s.keys.period)
    BY <2>1 DEF KeysAt
  <2> QED BY <1>b, <2>2 DEF NewStream, Tag, SealedStreamHeader, Sealed
<1>5. sender' = [keys |-> KeysAt("A", s.keys.period), next |-> s.next + 1]
  BY <1>1, <1>2
<1>6. sender'.keys = KeysAt("A", s.keys.period) /\ sender'.next = s.next + 1
      /\ sender'.keys.period = s.keys.period
  <2>1. sender'.keys = KeysAt("A", s.keys.period) /\ sender'.next = s.next + 1
    BY <1>5
  <2> QED BY <2>1 DEF KeysAt
<1>7. /\ IsSequence(network') /\ n \in Nat /\ Stream = 1..n /\ Stream' = 1..(n + 1)
      /\ Len(network') = n + 1
      /\ \A i \in 1..n : network'[i] = network[i]
      /\ network'[n + 1] = new
  BY <1>1, <1>c, Appended DEF ChannelInv, NetworkInv, Stream
<1>8. DevicesInv'
  BY <1>1, <1>2, <1>3, <1>5, <1>6 DEF ChannelInv, DevicesInv
<1>9. NetworkInv'
  <2>1. ASSUME NEW i \in 1..n
        PROVE  SentInPeriod(network[i])' /\ SealedForPeriod(network[i])' /\ Before(network[i], new)
    <3>1. SentInPeriod(network[i]) /\ SealedForPeriod(network[i])
      BY <1>7, <2>1 DEF ChannelInv, NetworkInv
    <3>2. network'[i] = network[i]
      BY <1>7, <2>1
    <3>3. SentInPeriod(network[i])'
      BY <1>1, <1>2, <1>3, <1>6, <3>1, <3>2 DEF SentInPeriod
    <3>4. SealedForPeriod(network[i])'
      BY <1>1, <1>2, <1>3, <1>6, <3>1, <3>2 DEF SealedForPeriod, SentInPeriod
    <3>5. Before(network[i], new)
      BY <1>2, <1>3, <1>4, <3>1 DEF SealedForPeriod, SentInPeriod, Before
    <3> QED BY <3>3, <3>4, <3>5
  <2>2. SentInPeriod(network[n + 1])' /\ SealedForPeriod(network[n + 1])'
    <3>1. SentInPeriod(network[n + 1])'
      BY <1>1, <1>2, <1>3, <1>4, <1>6, <1>7 DEF SentInPeriod
    <3>2. SealedForPeriod(network[n + 1])'
      BY <1>2, <1>4, <1>6, <1>7 DEF SealedForPeriod
    <3> QED BY <3>1, <3>2
  <2>3. ASSUME NEW i \in Stream' PROVE (SentInPeriod(network[i]) /\ SealedForPeriod(network[i]))'
    <3>1. i \in 1..n \/ i = n + 1
      BY <1>7
    <3> QED BY <2>1, <2>2, <3>1
  <2>4. ASSUME NEW i \in Stream', NEW j \in Stream', i < j
        PROVE  Before(network[i], network[j])'
    <3>1. i \in 1..n /\ (j \in 1..n \/ j = n + 1)
      BY <1>7, <2>4
    <3>2. CASE j \in 1..n
      BY <1>7, <2>4, <3>1, <3>2 DEF ChannelInv, NetworkInv, Before
    <3>3. CASE j = n + 1
      BY <1>7, <2>1, <3>1, <3>3 DEF Before
    <3> QED BY <3>1, <3>2, <3>3
  <2> QED BY <1>7, <2>3, <2>4 DEF NetworkInv
<1>10. ReadInv'
  <2>1. /\ IsSequence(handedOn') /\ Len(handedOn) = n /\ Len(handedOn') = n + 1
        /\ \A i \in 1..n : handedOn'[i] = handedOn[i]
        /\ handedOn'[n + 1] = << >>
    BY <1>1, <1>c, Appended DEF ChannelInv, ReadInv
  <2>2. ASSUME NEW i \in Stream'
        PROVE  handedOn'[i] = << >>
                 \/ (IsSequence(handedOn'[i]) /\ Len(handedOn'[i]) = 1 /\ Behind(network[i])')
    <3>1. i \in 1..n \/ i = n + 1
      BY <1>7
    <3>2. CASE i \in 1..n
      BY <1>1, <1>7, <2>1, <3>2 DEF ChannelInv, ReadInv, Behind
    <3>3. CASE i = n + 1
      BY <2>1, <3>3
    <3> QED BY <3>1, <3>2, <3>3
  <2> QED BY <1>7, <2>1, <2>2 DEF ReadInv
<1> QED BY <1>8, <1>9, <1>10 DEF ChannelInv

(* A stream is recognised by the window of its own period and under its    *)
(* own number only.                                                        *)
LEMMA RecognisedByItsOwn ==
  ASSUME NEW h, NEW lo, NEW hi, Holds(h, lo, hi), NEW s, SealedForPeriod(s), SentInPeriod(s),
         NEW r \in Recognised(h, s.tag)
  PROVE  /\ r = <<s.period, s.tag.number>>
         /\ s.period \in lo..hi /\ s.tag.number \in Number
         /\ s.tag.number \in Expected(h[s.period].window)
         /\ MarkRefusal(h[s.period].window, s.tag.number) = {}
<1>1. PICK p \in DOMAIN h, n \in Number :
        /\ r = <<p, n>>
        /\ n \in Expected(h[p].window)
        /\ s.tag = Tag(h[p].keys.incoming.tag_key, n)
        /\ MarkRefusal(h[p].window, n) = {}
  BY DEF Recognised
<1>2. p \in lo..hi /\ p \in Nat /\ Base <= p
  BY <1>1, BaseType DEF Holds
<1>3. h[p].keys = KeysAt("B", p)
  BY <1>2 DEF Holds
<1>4. h[p].keys.incoming = DirectionAt("A", p)
  BY <1>3 DEF KeysAt, Peer
<1>5. /\ s.tag.key = DirectionAt("A", p).tag_key /\ s.tag.number = n
      /\ s.tag.key = DirectionAt("A", s.period).tag_key
  BY <1>1, <1>4 DEF Tag, SealedForPeriod
<1>6. p = s.period
  BY <1>2, <1>5, KeysApart DEF Role, SentInPeriod
<1> QED BY <1>1, <1>2, <1>5, <1>6

LEMMA ReceiveInv ==
  ASSUME ChannelInv, NEW t \in Readings, NEW i \in Stream, Receive(t, i)
  PROVE  ChannelInv'
<1>a. PICK h : h = HeldTurned(t)
  OBVIOUS
<1>1. /\ now' = now /\ sender' = sender /\ lost' = lost /\ network' = network
  BY DEF Receive
<1>2. PICK lo, hi : Holds(held, lo, hi) /\ lo + 1 <= PeriodAt(now + MaxClockDifference)
  BY DEF ChannelInv, DevicesInv
<1>b. PICK low, high : low = Lowest(t) /\ high = Highest(t)
  OBVIOUS
<1>3. /\ Holds(h, low, high) /\ low + 1 <= PeriodAt(now + MaxClockDifference)
      /\ DOMAIN h = low..high
  BY <1>2, <1>a, <1>b, RecipientTurns DEF ChannelInv
<1>4. \A j \in Stream : SentInPeriod(network[j]) /\ SealedForPeriod(network[j]) /\ network[j].period \in Nat
  BY DEF ChannelInv, NetworkInv, SentInPeriod
<1>5. NetworkInv'
  BY <1>1 DEF ChannelInv, NetworkInv, SentInPeriod, SealedForPeriod, Before, Stream
<1> DEFINE Passed(s) == IF s.period \in low..high
                        THEN s.tag.number \in Number /\ Refuses(h[s.period].window, s.tag.number)
                        ELSE \A p \in low..high : s.period < p
<1>6. \A j \in Stream : handedOn[j] = << >>
        \/ (IsSequence(handedOn[j]) /\ Len(handedOn[j]) = 1 /\ Passed(network[j]))
  <2> SUFFICES ASSUME NEW j \in Stream, handedOn[j] # << >>
               PROVE  IsSequence(handedOn[j]) /\ Len(handedOn[j]) = 1 /\ Passed(network[j])
    OBVIOUS
  <2>1. IsSequence(handedOn[j]) /\ Len(handedOn[j]) = 1 /\ Behind(network[j])
    BY DEF ChannelInv, ReadInv
  <2>2. Passed(network[j])
    BY <1>3, <1>4, <1>a, <2>1, TurnKeepsBehind DEF ChannelInv
  <2> QED BY <2>1, <2>2
<1>7. CASE held' = h /\ handedOn' = handedOn
  <2>1. DevicesInv'
    BY <1>1, <1>3, <1>7 DEF ChannelInv, DevicesInv
  <2>2. ReadInv'
    BY <1>1, <1>3, <1>6, <1>7 DEF ChannelInv, ReadInv, Behind, Stream
  <2> QED BY <1>5, <2>1, <2>2 DEF ChannelInv
<1>8. ASSUME NEW r \in Recognised(h, network[i].tag), NEW read,
             held' = [h EXCEPT ![r[1]].window = Marked(h[r[1]].window, r[2])],
             handedOn' = [handedOn EXCEPT ![i] = Append(handedOn[i], read)]
      PROVE  ChannelInv'
  <2>a. PICK p, n : p = network[i].period /\ n = network[i].tag.number
    OBVIOUS
  <2>1. /\ r = <<p, n>> /\ p \in low..high /\ n \in Number
        /\ n \in Expected(h[p].window) /\ MarkRefusal(h[p].window, n) = {}
    BY <1>3, <1>4, <2>a, RecognisedByItsOwn
  <2>2. Clear(h[p].window)
    BY <1>3, <2>1 DEF Holds
  <2>b. PICK w : w = Marked(h[p].window, n)
    OBVIOUS
  <2>3. /\ ~Refuses(h[p].window, n) /\ Clear(w) /\ Refuses(w, n)
        /\ \A m \in Number : Refuses(h[p].window, m) => Refuses(w, m)
    BY <2>1, <2>2, <2>b, MarkedRefuses
  <2>4. handedOn[i] = << >>
    BY <1>6, <2>1, <2>3, <2>a
  <2>5. /\ h[p] = [keys |-> KeysAt("B", p), window |-> h[p].window]
        /\ h = [q \in low..high |-> h[q]]
    BY <1>3, <2>1 DEF Holds
  <2>6. held' = [h EXCEPT ![p] = [h[p] EXCEPT !.window = w]]
    BY <1>8, <2>1, <2>b
  <2>7. /\ held'[p] = [keys |-> KeysAt("B", p), window |-> w]
        /\ held' = [q \in low..high |-> held'[q]]
        /\ \A q \in low..high : q # p => held'[q] = h[q]
    <3>1. [h[p] EXCEPT !.window = w] = [keys |-> KeysAt("B", p), window |-> w]
      BY <2>5
    <3>2. held'[p] = [h[p] EXCEPT !.window = w]
      BY <1>3, <2>1, <2>6
    <3>3. DOMAIN held' = low..high /\ held' = [q \in DOMAIN h |-> held'[q]]
      BY <1>3, <2>6
    <3>4. \A q \in low..high : q # p => held'[q] = h[q]
      BY <1>3, <2>6
    <3> QED BY <1>3, <3>1, <3>2, <3>3, <3>4
  <2>8. \A q \in low..high : held'[q] = [keys |-> KeysAt("B", q), window |-> held'[q].window]
                             /\ Clear(held'[q].window)
    <3> SUFFICES ASSUME NEW q \in low..high
                 PROVE  held'[q] = [keys |-> KeysAt("B", q), window |-> held'[q].window]
                        /\ Clear(held'[q].window)
      OBVIOUS
    <3>1. CASE q = p
      BY <2>3, <2>7, <3>1
    <3>2. CASE q # p
      <4>1. h[q] = [keys |-> KeysAt("B", q), window |-> h[q].window] /\ Clear(h[q].window)
        BY <1>3 DEF Holds
      <4> QED BY <2>7, <3>2, <4>1
    <3> QED BY <3>1, <3>2
  <2>9. Holds(held', low, high)
    <3>1. held' = [q \in low..high |-> [keys |-> KeysAt("B", q), window |-> held'[q].window]]
      BY <2>7, <2>8
    <3> QED BY <1>3, <2>8, <3>1 DEF Holds
  <2>10. DevicesInv'
    BY <1>1, <1>3, <2>9 DEF ChannelInv, DevicesInv
  <2>11. ASSUME NEW s, Passed(s) PROVE Behind(s)'
    <3>1. DOMAIN held' = low..high
      BY <2>7
    <3>2. CASE s.period = p
      BY <2>1, <2>3, <2>7, <2>11, <3>1, <3>2 DEF Behind
    <3>3. CASE s.period # p
      BY <2>7, <2>11, <3>1, <3>3 DEF Behind
    <3> QED BY <3>2, <3>3
  <2>12. Behind(network[i])'
    <3>1. DOMAIN held' = low..high /\ held'[p].window = w
      BY <2>7
    <3> QED BY <1>1, <2>1, <2>3, <2>a, <3>1 DEF Behind
  <2>13. ReadInv'
    <3>1. i \in DOMAIN handedOn
      BY Appended DEF ChannelInv, ReadInv, NetworkInv, Stream
    <3>2. IsSequence(handedOn') /\ Len(handedOn') = Len(handedOn)
      BY <1>8, <3>1, Replaced DEF ChannelInv, ReadInv
    <3>3. IsSequence(handedOn'[i]) /\ Len(handedOn'[i]) = 1
      <4>1. << >> \in Seq({}) /\ Len(<< >>) = 0
        OBVIOUS
      <4>2. IsSequence(<< >>)
        BY <4>1 DEF IsSequence
      <4>3. handedOn'[i] = Append(<< >>, read)
        BY <1>8, <2>4, <3>1
      <4>4. IsSequence(Append(<< >>, read)) /\ Len(Append(<< >>, read)) = Len(<< >>) + 1
        BY <4>2, Appended
      <4> QED BY <4>1, <4>3, <4>4
    <3>4. \A j \in Stream : j # i => handedOn'[j] = handedOn[j]
      BY <1>8
    <3>5. \A j \in Stream : handedOn'[j] = << >>
            \/ (IsSequence(handedOn'[j]) /\ Len(handedOn'[j]) = 1 /\ Behind(network[j])')
      BY <1>1, <1>6, <2>11, <2>12, <3>3, <3>4 DEF Behind
    <3> QED BY <1>1, <3>2, <3>5 DEF ChannelInv, ReadInv, Stream
  <2> QED BY <1>5, <2>10, <2>13 DEF ChannelInv
<1> QED BY <1>7, <1>8, <1>a DEF Receive

THEOREM ChannelInvariant == Spec => []ChannelInv
<1>1. ChannelInv /\ [Next]_vars => ChannelInv'
  <2> SUFFICES ASSUME ChannelInv, [Next]_vars PROVE ChannelInv'
    OBVIOUS
  <2>1. CASE UNCHANGED vars
    BY <2>1 DEF vars, ChannelInv, DevicesInv, NetworkInv, ReadInv,
                SentInPeriod, SealedForPeriod, Before, Behind, Stream
  <2>2. CASE Tick
    BY <2>2, TickInv
  <2>3. CASE \E t \in Readings : GiveUp(t)
    BY <2>3, GiveUpInv
  <2>4. CASE \E t \in Readings, content \in Contents : Send(t, content)
    BY <2>4, SendInv
  <2>5. CASE \E t \in Readings : Turn(t)
    BY <2>5, TurnInv
  <2>6. CASE \E t \in Readings, i \in Stream : Receive(t, i)
    BY <2>6, ReceiveInv
  <2> QED BY <2>1, <2>2, <2>3, <2>4, <2>5, <2>6 DEF Next
<1> QED BY <1>1, InitInv, PTL DEF Spec

-----------------------------------------------------------------------------
(* What follows from it. *)

(* What B holds of a period of A's, and where the two ends of it are.      *)
LEMMA HeldKeys ==
  ASSUME DevicesInv, NEW p \in DOMAIN held
  PROVE  /\ p \in Nat /\ Base <= p
         /\ held[p].keys = KeysAt("B", p)
         /\ held[p].keys.period = p
         /\ held[p].keys.incoming = DirectionAt("A", p)
         /\ held[p].keys.outgoing = DirectionAt("B", p)
<1>1. PICK lo, hi : Holds(held, lo, hi)
  BY DEF DevicesInv
<1>2. /\ lo \in Nat /\ hi \in Nat /\ Base <= lo
      /\ held = [q \in lo..hi |-> [keys |-> KeysAt("B", q), window |-> held[q].window]]
  BY <1>1 DEF Holds
<1>3. p \in lo..hi
  BY <1>2
<1>4. held[p].keys = KeysAt("B", p)
  BY <1>2, <1>3
<1> QED BY <1>2, <1>3, <1>4, BaseType DEF KeysAt, Peer

LEMMA SenderKeys ==
  ASSUME DevicesInv
  PROVE  /\ sender.keys = KeysAt("A", sender.keys.period)
         /\ sender.keys.outgoing = DirectionAt("A", sender.keys.period)
         /\ sender.keys.incoming = DirectionAt("B", sender.keys.period)
<1>1. sender.keys = KeysAt("A", sender.keys.period)
  BY DEF DevicesInv
<1> QED BY <1>1 DEF KeysAt, Peer

(* Types, and B's periods are one after the other.                         *)
THEOREM ChannelTypeCorrect == Spec => []TypeOK
<1>1. ChannelInv => TypeOK
  <2> SUFFICES ASSUME ChannelInv PROVE TypeOK
    OBVIOUS
  <2>1. PICK lo, hi : Holds(held, lo, hi)
    BY DEF ChannelInv, DevicesInv
  <2>2. /\ lo \in Nat /\ hi \in Nat /\ lo <= hi
        /\ DOMAIN held = lo..hi
        /\ \A p \in lo..hi : held[p] = [keys |-> KeysAt("B", p), window |-> held[p].window]
        /\ \A p \in lo..hi : held[p].window \in Window
    BY <2>1 DEF Holds, Clear
  <2>3. Oldest = lo /\ Newest = hi
    BY <2>2, Ends
  <2>4. "A" \in Role /\ "B" \in Role
    BY DEF Role
  <2>5. \A p \in DOMAIN held : held[p] \in [keys : PeriodKeys, window : Window]
    <3> SUFFICES ASSUME NEW p \in DOMAIN held
                 PROVE  held[p] \in [keys : PeriodKeys, window : Window]
      OBVIOUS
    <3>1. KeysAt("B", p) \in PeriodKeys
      BY <2>4, HeldKeys, KeysType DEF ChannelInv
    <3> QED BY <2>2, <3>1
  <2>6. sender \in [keys : PeriodKeys, next : Nat]
    <3>1. KeysAt("A", sender.keys.period) \in PeriodKeys
      BY <2>4, KeysType DEF ChannelInv, DevicesInv
    <3> QED BY <3>1 DEF ChannelInv, DevicesInv
  <2>7. DOMAIN handedOn = Stream
    BY Appended DEF ChannelInv, NetworkInv, ReadInv, Stream
  <2> QED BY <2>2, <2>3, <2>5, <2>6, <2>7 DEF TypeOK, ChannelInv, DevicesInv
<1> QED BY <1>1, ChannelInvariant, PTL

(* The two sides never hold different keys for one period.                 *)
THEOREM KeysAlwaysAgree == Spec => []KeysAgree
<1>1. ChannelInv => KeysAgree
  BY HeldKeys, SenderKeys DEF ChannelInv, KeysAgree
<1> QED BY <1>1, ChannelInvariant, PTL

(* However far apart the clocks are within their bound, B has the keys of  *)
(* a stream that is on time.                                               *)
LEMMA OnTimeIsHeld ==
  ASSUME ChannelInv, NEW i \in Stream, NEW t \in Readings,
         now <= network[i].sentAt + MaxLatency
  PROVE  network[i].period \in DOMAIN HeldTurned(t)
<1>a. PICK s : s = network[i]
  OBVIOUS
<1>1. /\ s.sentAt \in Nat /\ s.sentAt <= now /\ now <= s.sentAt + MaxLatency
      /\ s.period \in Nat /\ Base <= s.period
      /\ PeriodAt(s.sentAt) <= s.period
      /\ s.period <= PeriodAt(s.sentAt + MaxClockDifference)
      /\ s.period <= sender.keys.period
  BY <1>a DEF ChannelInv, NetworkInv, SentInPeriod
<1>2. PICK lo, hi : Holds(held, lo, hi) /\ lo + 1 <= PeriodAt(now + MaxClockDifference)
  BY DEF ChannelInv, DevicesInv
<1>3. /\ Lowest(t) = IF PeriodAt(t) - 1 < lo THEN lo ELSE PeriodAt(t) - 1
      /\ Highest(t) >= PeriodAt(t) + 1
      /\ DOMAIN HeldTurned(t) = Lowest(t)..Highest(t)
      /\ Lowest(t) \in Nat /\ Highest(t) \in Nat
  BY <1>2, RecipientTurns DEF ChannelInv, Holds
<1>4. /\ t \in Nat /\ now <= t /\ t <= now + MaxClockDifference
      /\ PeriodAt(t) \in Nat
  BY Readable DEF ChannelInv
<1>5. /\ MaxClockDifference \in Nat /\ MaxLatency \in Nat /\ PeriodMs \in Nat /\ now \in Nat
      /\ MaxClockDifference + MaxLatency <= PeriodMs
  BY ClockAssumption, PeriodAssumption DEF PeriodMs, ChannelInv, DevicesInv
<1>6. lo \in Nat
  BY <1>2 DEF Holds
<1>7. PeriodAt(now + MaxClockDifference) <= PeriodAt(s.sentAt) + 1
  BY <1>1, <1>5, PeriodLater
<1>8. PeriodAt(t) <= PeriodAt(s.sentAt) + 1
  BY <1>1, <1>4, <1>5, PeriodLater
<1>9. PeriodAt(s.sentAt + MaxClockDifference) <= PeriodAt(t) + 1
  BY <1>1, <1>4, <1>5, PeriodLater
<1>10. /\ PeriodAt(s.sentAt) \in Nat /\ PeriodAt(now + MaxClockDifference) \in Nat
       /\ PeriodAt(s.sentAt + MaxClockDifference) \in Nat
  BY <1>1, <1>5, PeriodType
<1>11. Lowest(t) <= s.period
  BY <1>1, <1>2, <1>3, <1>4, <1>6, <1>7, <1>8, <1>10
<1>12. s.period <= Highest(t)
  BY <1>1, <1>3, <1>4, <1>9, <1>10
<1> QED BY <1>1, <1>3, <1>11, <1>12, <1>a

THEOREM ThreePeriodsAreEnough == Spec => []ThreePeriodsEnough
<1>1. ChannelInv => ThreePeriodsEnough
  BY OnTimeIsHeld DEF ThreePeriodsEnough
<1> QED BY <1>1, ChannelInvariant, PTL

(* What a device still has of its keys leads to none of a period that is   *)
(* over for it.                                                            *)
THEOREM PassedKeysAreAlwaysGone == Spec => []PassedKeysAreGone
<1>1. ChannelInv => PassedKeysAreGone
  <2> SUFFICES ASSUME ChannelInv PROVE PassedKeysAreGone
    OBVIOUS
  <2>1. ASSUME NEW i \in Stream, NEW p \in Nat, network[i].period < p
        PROVE  /\ ~Reaches(DirectionAt("A", p).tag_key, network[i].tag.key)
               /\ ~Reaches(DirectionAt("A", p).header_key, network[i].header.key)
    <3>1. /\ network[i].period \in Nat /\ Base <= network[i].period
          /\ network[i].tag = Tag(DirectionAt("A", network[i].period).tag_key, network[i].tag.number)
          /\ network[i].header.key = DirectionAt("A", network[i].period).header_key
      BY DEF ChannelInv, NetworkInv, SentInPeriod, SealedForPeriod
    <3>2. network[i].tag.key = DirectionAt("A", network[i].period).tag_key
      BY <3>1 DEF Tag
    <3>3. Base <= p /\ "A" \in Role
      BY <2>1, <3>1, BaseType DEF Role
    <3> QED BY <2>1, <3>1, <3>2, <3>3, KeysApart
  <2>2. sender.keys.period \in Nat /\ sender.keys.outgoing = DirectionAt("A", sender.keys.period)
    BY SenderKeys DEF ChannelInv, DevicesInv
  <2>3. \A p \in DOMAIN held : p \in Nat /\ held[p].keys.incoming = DirectionAt("A", p)
    BY HeldKeys DEF ChannelInv
  <2> QED BY <2>1, <2>2, <2>3 DEF PassedKeysAreGone
<1> QED BY <1>1, ChannelInvariant, PTL

(* No stream is read twice, over any number of periods and repetitions.    *)
THEOREM EachStreamReadOnce == Spec => []ReadOnce
<1>1. ChannelInv => ReadOnce
  <2> SUFFICES ASSUME ChannelInv, NEW i \in Stream PROVE Len(handedOn[i]) <= 1
    BY DEF ReadOnce
  <2>1. handedOn[i] = << >> \/ Len(handedOn[i]) = 1
    BY DEF ChannelInv, ReadInv
  <2>2. CASE handedOn[i] = << >>
    BY <2>2
  <2>3. CASE Len(handedOn[i]) = 1
    BY <2>3
  <2> QED BY <2>1, <2>2, <2>3
<1> QED BY <1>1, ChannelInvariant, PTL

(* No tag is used for two streams, over any number of periods.             *)
THEOREM NoTagIsUsedTwice == Spec => []NoTagTwice
<1>1. ChannelInv => NoTagTwice
  <2> SUFFICES ASSUME ChannelInv PROVE NoTagTwice
    OBVIOUS
  <2>1. \A i \in Stream :
          /\ network[i].period \in Nat /\ Base <= network[i].period
          /\ network[i].tag.number \in Nat
          /\ network[i].tag = Tag(DirectionAt("A", network[i].period).tag_key, network[i].tag.number)
    BY DEF ChannelInv, NetworkInv, SentInPeriod, SealedForPeriod
  <2>2. ASSUME NEW i \in Stream, NEW j \in Stream, network[i].tag = network[j].tag, i < j
        PROVE  FALSE
    <3>1. network[i].tag.key = network[j].tag.key /\ network[i].tag.number = network[j].tag.number
      BY <2>2
    <3>2. ASSUME NEW k \in Stream
          PROVE  network[k].tag.key = DirectionAt("A", network[k].period).tag_key
      <4>1. network[k].tag = Tag(DirectionAt("A", network[k].period).tag_key, network[k].tag.number)
        BY <2>1
      <4> QED BY <4>1 DEF Tag
    <3>3. network[i].period = network[j].period
      BY <2>1, <3>1, <3>2, KeysApart DEF Role
    <3>4. Before(network[i], network[j])
      BY <2>2 DEF ChannelInv, NetworkInv
    <3> QED BY <2>1, <3>1, <3>3, <3>4 DEF Before
  <2>3. \A i, j \in Stream : i \in Nat /\ j \in Nat
    BY NetworkDomain DEF ChannelInv
  <2>4. \A i, j \in Stream : i # j => i < j \/ j < i
    BY <2>3
  <2> QED BY <2>2, <2>4 DEF NoTagTwice
<1> QED BY <1>1, ChannelInvariant, PTL

-----------------------------------------------------------------------------
(* Windows. *)

NumbersRead(p) == {network[j].tag.number : j \in ReadOf(p)}

(* The window of a period goes with what was read of that period.          *)
WindowsInv == \A p \in DOMAIN held : Tracks(held[p].window, NumbersRead(p))

(* It still does when B turns: of a period that B comes to hold nothing    *)
(* was read before.                                                        *)
LEMMA TurnTracks ==
  ASSUME ChannelInv, WindowsInv, NEW t \in Readings, NEW p \in DOMAIN HeldTurned(t)
  PROVE  Tracks(HeldTurned(t)[p].window, NumbersRead(p))
<1>1. PICK lo, hi : Holds(held, lo, hi) /\ lo + 1 <= PeriodAt(now + MaxClockDifference)
  BY DEF ChannelInv, DevicesInv
<1>2. /\ DOMAIN held = lo..hi /\ lo \in Nat /\ hi \in Nat /\ lo <= hi
  BY <1>1 DEF Holds
<1>3. PICK low, high, h : low = Lowest(t) /\ high = Highest(t) /\ h = HeldTurned(t)
  OBVIOUS
<1>4. /\ low \in Nat /\ high \in Nat /\ lo <= low /\ p \in low..high
      /\ p \in lo..hi => h[p] = held[p]
      /\ p \notin lo..hi => h[p].window = NewWindow
  <2>1. /\ Holds(h, low, high) /\ DOMAIN h = low..high
        /\ low = IF PeriodAt(t) - 1 < lo THEN lo ELSE PeriodAt(t) - 1
        /\ \A q \in low..high : q \in lo..hi => h[q] = held[q]
        /\ \A q \in low..high : q \notin lo..hi => h[q].window = NewWindow
    BY <1>1, <1>3, RecipientTurns DEF ChannelInv
  <2>2. PeriodAt(t) \in Nat
    BY Readable DEF ChannelInv
  <2>3. low \in Nat /\ high \in Nat
    BY <2>1 DEF Holds
  <2>4. lo <= low
    BY <1>2, <2>1, <2>2, <2>3
  <2>5. p \in low..high
    BY <1>3, <2>1
  <2> QED BY <2>1, <2>3, <2>4, <2>5
<1>5. CASE p \in lo..hi
  BY <1>2, <1>3, <1>4, <1>5 DEF WindowsInv
<1>6. CASE p \notin lo..hi
  <2>1. ReadOf(p) = {}
    <3> SUFFICES ASSUME NEW j \in ReadOf(p) PROVE FALSE
      OBVIOUS
    <3>1. network[j].period = p /\ Behind(network[j])
      BY DEF ReadOf, ChannelInv, ReadInv
    <3>2. p < lo
      BY <1>2, <1>6, <3>1 DEF Behind
    <3> QED BY <1>2, <1>4, <3>2
  <2>2. NumbersRead(p) = {}
    BY <2>1 DEF NumbersRead
  <2> QED BY <1>3, <1>4, <1>6, <2>2, NewWindowTracks
<1> QED BY <1>5, <1>6

LEMMA SendTracks ==
  ASSUME ChannelInv, WindowsInv, NEW t \in Readings, NEW content, Send(t, content)
  PROVE  WindowsInv'
<1>1. PICK new, n : new = NewStream(SenderTurned(t), content) /\ n = Len(network)
  OBVIOUS
<1>2. /\ n \in Nat /\ Stream = 1..n /\ Stream' = 1..(n + 1) /\ held' = held
      /\ \A i \in 1..n : network'[i] = network[i]
      /\ \A i \in 1..n : handedOn'[i] = handedOn[i]
      /\ handedOn'[n + 1] = << >>
  BY <1>1, Appended DEF Send, ChannelInv, NetworkInv, ReadInv, Stream
<1>3. ASSUME NEW p PROVE NumbersRead(p)' = NumbersRead(p)
  <2>1. ReadOf(p)' = ReadOf(p)
    <3>1. \A j \in Stream' : j \in 1..n \/ j = n + 1
      BY <1>2
    <3> QED BY <1>2, <3>1 DEF ReadOf
  <2>2. \A j \in ReadOf(p) : network'[j] = network[j]
    BY <1>2 DEF ReadOf
  <2> QED BY <2>1, <2>2 DEF NumbersRead
<1> QED BY <1>2, <1>3 DEF WindowsInv

LEMMA ReceiveTracks ==
  ASSUME ChannelInv, WindowsInv, NEW t \in Readings, NEW i \in Stream, Receive(t, i)
  PROVE  WindowsInv'
<1>1. PICK h, lo, hi : h = HeldTurned(t) /\ Holds(h, lo, hi)
  BY RecipientTurns DEF ChannelInv, DevicesInv
<1>2. DOMAIN h = lo..hi /\ \A q \in lo..hi : Tracks(h[q].window, NumbersRead(q))
  <2>1. DOMAIN h = lo..hi
    BY <1>1 DEF Holds
  <2> QED BY <1>1, <2>1, TurnTracks
<1>3. network' = network
  BY DEF Receive
<1>4. CASE held' = h /\ handedOn' = handedOn
  <2>1. \A q : NumbersRead(q)' = NumbersRead(q)
    BY <1>3, <1>4 DEF NumbersRead, ReadOf, Stream
  <2> QED BY <1>2, <1>4, <2>1 DEF WindowsInv
<1>5. ASSUME NEW r \in Recognised(h, network[i].tag), NEW read,
             held' = [h EXCEPT ![r[1]].window = Marked(h[r[1]].window, r[2])],
             handedOn' = [handedOn EXCEPT ![i] = Append(handedOn[i], read)]
      PROVE  WindowsInv'
  <2>1. PICK p, n : p = network[i].period /\ n = network[i].tag.number
    OBVIOUS
  <2>2. /\ r = <<p, n>> /\ p \in lo..hi /\ n \in Number
        /\ n \in Expected(h[p].window) /\ MarkRefusal(h[p].window, n) = {}
    BY <1>1, <2>1, RecognisedByItsOwn DEF ChannelInv, NetworkInv
  <2>3. /\ DOMAIN held' = lo..hi
        /\ \A q \in lo..hi : q # p => held'[q] = h[q]
        /\ held'[p].window = Marked(h[p].window, n)
    <3>1. held' = [h EXCEPT ![p].window = Marked(h[p].window, n)]
      BY <1>5, <2>2
    <3>2. h[p] = [keys |-> KeysAt("B", p), window |-> h[p].window]
      BY <1>1, <2>2 DEF Holds
    <3>3. [h[p] EXCEPT !.window = Marked(h[p].window, n)].window = Marked(h[p].window, n)
      BY <3>2
    <3> QED BY <1>2, <2>2, <3>1, <3>3
  <2>4. i \in DOMAIN handedOn /\ handedOn'[i] # << >>
    <3>1. i \in DOMAIN handedOn /\ IsSequence(handedOn[i])
      <4>1. << >> \in Seq({})
        OBVIOUS
      <4> QED BY <4>1, Appended DEF IsSequence, ChannelInv, ReadInv, NetworkInv, Stream
    <3>2. PICK x : handedOn'[i] = Append(handedOn[i], x)
      BY <1>5, <3>1
    <3>3. Len(Append(handedOn[i], x)) = Len(handedOn[i]) + 1 /\ Len(handedOn[i]) \in Nat
      BY <3>1, Appended
    <3>4. Len(handedOn'[i]) # 0 /\ Len(<< >>) = 0
      BY <3>2, <3>3
    <3> QED BY <3>1, <3>4
  <2>5. \A j \in Stream : j # i => handedOn'[j] = handedOn[j]
    BY <1>5
  <2>6. ReadOf(p)' = ReadOf(p) \cup {i} /\ \A q : q # p => ReadOf(q)' = ReadOf(q)
    BY <1>3, <2>1, <2>4, <2>5 DEF ReadOf, Stream
  <2>7. NumbersRead(p)' = NumbersRead(p) \cup {n} /\ \A q : q # p => NumbersRead(q)' = NumbersRead(q)
    BY <1>3, <2>1, <2>6 DEF NumbersRead
  <2>8. Tracks(held'[p].window, NumbersRead(p) \cup {n})
    BY <1>2, <2>2, <2>3, MarkedTracks
  <2> QED BY <1>2, <2>3, <2>7, <2>8 DEF WindowsInv
<1> QED BY <1>1, <1>4, <1>5 DEF Receive

LEMMA WindowsStep ==
  ASSUME ChannelInv, WindowsInv, [Next]_vars
  PROVE  WindowsInv'
<1>1. CASE UNCHANGED <<held, network, handedOn>>
  BY <1>1 DEF WindowsInv, NumbersRead, ReadOf, Stream
<1>2. CASE \E t \in Readings, content \in Contents : Send(t, content)
  BY <1>2, SendTracks
<1>3. CASE \E t \in Readings : Turn(t)
  <2>1. PICK t \in Readings : Turn(t)
    BY <1>3
  <2>2. held' = HeldTurned(t) /\ network' = network /\ handedOn' = handedOn
    BY <2>1 DEF Turn
  <2>3. \A p : NumbersRead(p)' = NumbersRead(p)
    BY <2>2 DEF NumbersRead, ReadOf, Stream
  <2> QED BY <2>2, <2>3, TurnTracks DEF WindowsInv
<1>4. CASE \E t \in Readings, i \in Stream : Receive(t, i)
  BY <1>4, ReceiveTracks
<1> QED BY <1>1, <1>2, <1>3, <1>4 DEF Next, vars, Tick, GiveUp

(* A stream that comes in time is read, however much of its period was     *)
(* lost or overtook it, as far as half a window goes.                      *)
THEOREM OnTimeIsAlwaysRecognised == Spec => []OnTimeIsRecognised
<1>1. Init => WindowsInv
  <2> SUFFICES ASSUME Init PROVE WindowsInv
    OBVIOUS
  <2>1. \A p : NumbersRead(p) = {}
    BY DEF Init, NumbersRead, ReadOf, Stream
  <2>2. \A p \in DOMAIN held : held[p].window = NewWindow
    BY DEF Init
  <2> QED BY <2>1, <2>2, NewWindowTracks DEF WindowsInv
<1>2. ChannelInv /\ WindowsInv /\ [Next]_vars => WindowsInv'
  BY WindowsStep
<1>3. ChannelInv /\ WindowsInv => OnTimeIsRecognised
  <2> SUFFICES ASSUME ChannelInv, WindowsInv, NEW i \in Stream, NEW t \in Readings,
                      now <= network[i].sentAt + MaxLatency, handedOn[i] = << >>,
                      WithinTheWindow(i)
               PROVE  Recognised(HeldTurned(t), network[i].tag) # {}
    BY DEF OnTimeIsRecognised
  <2>1. PICK h, lo, hi : h = HeldTurned(t) /\ Holds(h, lo, hi)
    BY RecipientTurns DEF ChannelInv, DevicesInv
  <2>2. PICK p, n : p = network[i].period /\ n = network[i].tag.number
    OBVIOUS
  <2>3. p \in DOMAIN h
    BY <2>1, <2>2, OnTimeIsHeld
  <2>4. /\ network[i].tag = Tag(DirectionAt("A", p).tag_key, n) /\ n \in Nat
        /\ n \in Number /\ n < Top
    BY <2>2, WindowAssumption DEF ChannelInv, NetworkInv, SealedForPeriod, WithinTheWindow, Number
  <2>5. n \notin NumbersRead(p)
    <3> SUFFICES ASSUME n \in NumbersRead(p) PROVE FALSE
      OBVIOUS
    <3>1. PICK j \in Stream : network[j].period = p /\ network[j].tag.number = n /\ j # i
      BY DEF NumbersRead, ReadOf
    <3>2. i < j \/ j < i
      BY <3>1, NetworkDomain DEF ChannelInv
    <3>3. Before(network[i], network[j]) \/ Before(network[j], network[i])
      BY <3>2 DEF ChannelInv, NetworkInv
    <3>4. p \in Nat
      BY <2>2 DEF ChannelInv, NetworkInv, SentInPeriod
    <3>5. /\ ~(network[i].period < network[j].period) /\ ~(network[j].period < network[i].period)
          /\ ~(network[i].tag.number < network[j].tag.number)
          /\ ~(network[j].tag.number < network[i].tag.number)
      <4>1. network[i].period = p /\ network[j].period = p /\ ~(p < p)
        BY <2>2, <3>1, <3>4
      <4>2. network[i].tag.number = n /\ network[j].tag.number = n
        BY <2>2, <3>1
      <4>3. ~(n < n)
        BY <2>4
      <4> QED BY <4>1, <4>2, <4>3
    <3> QED BY <3>3, <3>5 DEF Before
  <2>6. /\ \A r \in NumbersRead(p) : r < n + Half
        /\ n < WindowLen \/ \E r \in NumbersRead(p) : n <= r + Half
    BY <2>2 DEF WithinTheWindow, NumbersRead, Half
  <2>7. n \in Expected(h[p].window) /\ MarkRefusal(h[p].window, n) = {}
    BY <2>1, <2>3, <2>4, <2>5, <2>6, TurnTracks, TracksTakes
  <2>8. h[p].keys.incoming = DirectionAt("A", p)
    <3>1. h[p].keys = KeysAt("B", p)
      BY <2>1, <2>3 DEF Holds
    <3> QED BY <3>1 DEF KeysAt, Peer
  <2>9. <<p, n>> \in Recognised(h, network[i].tag)
    BY <2>3, <2>4, <2>7, <2>8 DEF Recognised
  <2> QED BY <2>1, <2>9
<1> QED BY <1>1, <1>2, <1>3, ChannelInvariant, PTL DEF Spec

-----------------------------------------------------------------------------
(* Nonces. *)

(* A set of numbers up to a bound that is not empty has a greatest one.    *)
LEMMA GreatestExists ==
  ASSUME NEW N \in Nat, NEW S, S \subseteq 0..N, S # {}
  PROVE  \E n \in S : \A m \in S : m <= n
<1> DEFINE T == {N - m : m \in S}
<1>1. T \subseteq Nat /\ T # {}
  <2>1. \A m \in S : N - m \in Nat
    OBVIOUS
  <2>2. PICK m \in S : TRUE
    OBVIOUS
  <2>3. N - m \in T
    OBVIOUS
  <2> QED BY <2>1, <2>3
<1>2. PICK k \in T : \A l \in T : k <= l
  <2> HIDE DEF T
  <2> QED BY <1>1, LeastExists
<1>3. PICK n \in S : k = N - n
  OBVIOUS
<1>4. ASSUME NEW m \in S PROVE m <= n
  <2>1. N - m \in T
    OBVIOUS
  <2>2. N - n <= N - m
    BY <1>2, <1>3, <2>1
  <2>3. m \in Nat /\ n \in Nat
    OBVIOUS
  <2> QED BY <2>2, <2>3
<1> QED BY <1>4

(* The frames that go out are the first few of a stream's, and each fits   *)
(* and has a number a nonce has room for.                                  *)
LEMMA FramesGoOut ==
  ASSUME NEW i, NEW content \in Seq(Frame)
  PROVE  \E last \in 0..Len(content) :
           /\ SealedFrames(i, content)
                = [k \in 1..last |-> SealedFrame(i, k - 1, content[k], k = Len(content))]
           /\ \A k \in 1..last : ~FrameTooLong(Len(content[k].data), content[k].padding)
           /\ \A k \in 1..last : k - 1 \in Nat /\ k - 1 <= MaxFrameNumber
<1> DEFINE fine == {n \in 0..Len(content) : \A j \in 1..n : SealRefusal(j - 1, content[j]) = {}}
<1>1. PICK last : last = CHOOSE n \in fine : \A m \in fine : m <= n
  OBVIOUS
<1>2. \E n \in fine : \A m \in fine : m <= n
  <2>1. 0 \in fine /\ fine \subseteq 0..Len(content) /\ Len(content) \in Nat
    OBVIOUS
  <2> HIDE DEF fine
  <2> QED BY <2>1, GreatestExists
<1>3. last \in fine
  BY <1>1, <1>2
<1>4. SealedFrames(i, content)
        = [k \in 1..last |-> SealedFrame(i, k - 1, content[k], k = Len(content))]
  BY <1>1 DEF SealedFrames
<1>5. \A k \in 1..last : ~FrameTooLong(Len(content[k].data), content[k].padding)
  <2> SUFFICES ASSUME NEW k \in 1..last, FrameTooLong(Len(content[k].data), content[k].padding)
               PROVE  FALSE
    OBVIOUS
  <2>1. SealRefusal(k - 1, content[k]) = {}
    BY <1>3
  <2>2. "FrameTooLong" \in SealRefusal(k - 1, content[k])
    BY DEF SealRefusal
  <2> QED BY <2>1, <2>2
<1>6. \A k \in 1..last : k - 1 \in Nat /\ k - 1 <= MaxFrameNumber
  <2> SUFFICES ASSUME NEW k \in 1..last, ~(k - 1 <= MaxFrameNumber) PROVE FALSE
    OBVIOUS
  <2>1. SealRefusal(k - 1, content[k]) = {}
    BY <1>3
  <2>2. k - 1 > MaxFrameNumber
    BY WireAssumption DEF MaxFrameNumber
  <2>3. "FrameNumberTooLarge" \in SealRefusal(k - 1, content[k])
    BY <2>2 DEF SealRefusal
  <2> QED BY <2>1, <2>3
<1> QED BY <1>3, <1>4, <1>5, <1>6

(* Below the top bit a nonce tells number and flag apart: with the bit set *)
(* no number up to MaxFrameNumber is left that has it of its own.          *)
LEMMA NonceTells ==
  ASSUME NEW m \in Nat, m <= MaxFrameNumber, NEW n \in Nat, n <= MaxFrameNumber
  PROVE  /\ FrameNonce(m, TRUE) # FrameNonce(n, FALSE)
         /\ FrameNonce(m, TRUE) = FrameNonce(n, TRUE) => m = n
         /\ FrameNonce(m, FALSE) = FrameNonce(n, FALSE) => m = n
<1>1. HeaderBit \in Nat \ {0} /\ m < HeaderBit /\ n < HeaderBit
  BY WireAssumption DEF MaxFrameNumber
<1>2. ASSUME NEW x \in Nat, x < HeaderBit
      PROVE  FrameNonce(x, TRUE) = x + HeaderBit
  <2> DEFINE q == x \div HeaderBit
  <2>1. q \in Nat /\ q * HeaderBit <= x
    BY <1>1, Quotient
  <2> HIDE DEF q
  <2>2. q = 0
    <3> SUFFICES ASSUME q >= 1 PROVE FALSE
      BY <2>1
    <3>1. q * HeaderBit >= HeaderBit
      BY <1>1, <2>1
    <3> QED BY <1>1, <1>2, <2>1, <3>1
  <2>3. ~(q % 2 = 1)
    BY <2>2
  <2> QED BY <2>3 DEF q, FrameNonce, WithHeaderBit
<1>3. FrameNonce(m, TRUE) = m + HeaderBit /\ FrameNonce(n, TRUE) = n + HeaderBit
  BY <1>1, <1>2
<1>4. FrameNonce(m, FALSE) = m /\ FrameNonce(n, FALSE) = n
  BY DEF FrameNonce
<1>5. m + HeaderBit # n /\ (m + HeaderBit = n + HeaderBit => m = n)
  BY <1>1
<1> QED BY <1>3, <1>4, <1>5, Zenon

(* Stream i has a cipher key of its own, and its frames and their two      *)
(* parts have nonces of their own.                                         *)
SealedApart(i, frames) ==
  \A k \in DOMAIN frames :
    /\ k - 1 \in Nat /\ k - 1 <= MaxFrameNumber /\ k \in Int
    /\ frames[k].head.key = i /\ frames[k].head.nonce = FrameNonce(k - 1, TRUE)
    /\ frames[k].body.key = i /\ frames[k].body.nonce = FrameNonce(k - 1, FALSE)

NoncesInv == \A i \in Stream : SealedApart(i, network[i].frames)

LEMMA FramesApart ==
  ASSUME NEW i, NEW content \in Seq(Frame)
  PROVE  SealedApart(i, SealedFrames(i, content))
<1>1. PICK last \in 0..Len(content) :
        /\ SealedFrames(i, content)
             = [k \in 1..last |-> SealedFrame(i, k - 1, content[k], k = Len(content))]
        /\ \A k \in 1..last : k - 1 \in Nat /\ k - 1 <= MaxFrameNumber
  BY FramesGoOut
<1>2. ASSUME NEW k \in 1..last
      PROVE  LET f == SealedFrame(i, k - 1, content[k], k = Len(content)) IN
             /\ f.head.key = i /\ f.head.nonce = FrameNonce(k - 1, TRUE)
             /\ f.body.key = i /\ f.body.nonce = FrameNonce(k - 1, FALSE)
  BY DEF SealedFrame, Sealed
<1>3. \A k \in 1..last : k \in Int
  OBVIOUS
<1> QED BY <1>1, <1>2, <1>3 DEF SealedApart

LEMMA NoncesStep ==
  ASSUME ChannelInv, NoncesInv, [Next]_vars
  PROVE  NoncesInv'
<1>1. CASE network' = network
  BY <1>1 DEF NoncesInv, Stream
<1>2. CASE \E t \in Readings, content \in Contents : Send(t, content)
  <2>1. PICK t \in Readings, content \in Contents : Send(t, content)
    BY <1>2
  <2>2. PICK new : new = NewStream(SenderTurned(t), content)
    OBVIOUS
  <2>3. PICK n : n = Len(network)
    OBVIOUS
  <2>4. network' = Append(network, new)
    BY <2>1, <2>2 DEF Send
  <2>5. /\ n \in Nat /\ Stream = 1..n /\ Stream' = 1..(n + 1)
        /\ \A i \in 1..n : network'[i] = network[i]
        /\ network'[n + 1] = new
    BY <2>3, <2>4, Appended DEF ChannelInv, NetworkInv, Stream
  <2>6. new.frames = SealedFrames(n + 1, content)
    BY <2>2, <2>3 DEF NewStream
  <2>7. SealedApart(n + 1, new.frames)
    BY <2>6, FramesApart, ContentsAssumption
  <2>8. \A i \in 1..n : SealedApart(i, network'[i].frames)
    BY <2>5 DEF NoncesInv
  <2>9. \A i \in Stream' : i \in 1..n \/ i = n + 1
    BY <2>5
  <2> QED BY <2>5, <2>7, <2>8, <2>9 DEF NoncesInv
<1> QED BY <1>1, <1>2 DEF Next, vars, Tick, GiveUp, Turn, Receive

(* No key seals two pieces of frames under one nonce.                      *)
THEOREM NoNonceIsUsedTwice == Spec => []NoNonceTwice
<1>1. Init => NoncesInv
  BY DEF Init, NoncesInv, Stream
<1>2. ChannelInv /\ NoncesInv /\ [Next]_vars => NoncesInv'
  BY NoncesStep
<1>3. NoncesInv => NoNonceTwice
  <2> SUFFICES ASSUME NoncesInv, NEW i \in Stream, NEW j \in Stream,
                      NEW k \in DOMAIN network[i].frames, NEW l \in DOMAIN network[j].frames
               PROVE  LET a == network[i].frames[k] b == network[j].frames[l] IN
                      /\ ~Opens(a.head, b.body.key, b.body.nonce)
                      /\ Opens(a.head, b.head.key, b.head.nonce) => i = j /\ k = l
                      /\ Opens(a.body, b.body.key, b.body.nonce) => i = j /\ k = l
    BY DEF NoNonceTwice
  <2> DEFINE a == network[i].frames[k]
             b == network[j].frames[l]
  <2>1. /\ k - 1 \in Nat /\ k - 1 <= MaxFrameNumber /\ k \in Int
        /\ a.head.key = i /\ a.head.nonce = FrameNonce(k - 1, TRUE)
        /\ a.body.key = i /\ a.body.nonce = FrameNonce(k - 1, FALSE)
    BY DEF NoncesInv, SealedApart
  <2>2. /\ l - 1 \in Nat /\ l - 1 <= MaxFrameNumber /\ l \in Int
        /\ b.head.key = j /\ b.head.nonce = FrameNonce(l - 1, TRUE)
        /\ b.body.key = j /\ b.body.nonce = FrameNonce(l - 1, FALSE)
    BY DEF NoncesInv, SealedApart
  <2> HIDE DEF a, b
  <2>3. FrameNonce(k - 1, TRUE) # FrameNonce(l - 1, FALSE)
    BY <2>1, <2>2, NonceTells
  <2>4. \A h \in BOOLEAN : FrameNonce(k - 1, h) = FrameNonce(l - 1, h) => k = l
    <3>1. \A h \in BOOLEAN : FrameNonce(k - 1, h) = FrameNonce(l - 1, h) => k - 1 = l - 1
      BY <2>1, <2>2, NonceTells
    <3> QED BY <2>1, <2>2, <3>1
  <2>5. /\ ~Opens(a.head, b.body.key, b.body.nonce)
        /\ Opens(a.head, b.head.key, b.head.nonce) => i = j /\ k = l
        /\ Opens(a.body, b.body.key, b.body.nonce) => i = j /\ k = l
    BY <2>1, <2>2, <2>3, <2>4 DEF Opens
  <2> QED BY <2>5 DEF a, b
<1> QED BY <1>1, <1>2, <1>3, ChannelInvariant, PTL DEF Spec

-----------------------------------------------------------------------------
(* Frames. *)

(* The flag for the final frame and the length share one number and come   *)
(* apart again.                                                            *)
LEMMA FlagComesOff ==
  ASSUME NEW n \in Nat, n < FinalBit, NEW final \in BOOLEAN
  PROVE  /\ Flagged(n, final) % FinalBit = n
         /\ Flagged(n, final) >= FinalBit <=> final
<1>1. FinalBit \in Nat \ {0}
  BY WireAssumption
<1>2. n % FinalBit = n
  <2> DEFINE q == n \div FinalBit
  <2>1. q \in Nat /\ n = FinalBit * q + (n % FinalBit) /\ n % FinalBit \in 0..(FinalBit - 1)
    BY <1>1
  <2> HIDE DEF q
  <2>2. q = 0
    <3> SUFFICES ASSUME q >= 1 PROVE FALSE
      BY <2>1
    <3>1. FinalBit * q >= FinalBit
      BY <1>1, <2>1
    <3> QED BY <1>1, <2>1, <3>1
  <2>3. FinalBit * q = 0
    BY <1>1, <2>2
  <2> QED BY <1>1, <2>1, <2>3
<1>3. (n + FinalBit) % FinalBit = n
  <2> DEFINE q == (n + FinalBit) \div FinalBit
             r == (n + FinalBit) % FinalBit
  <2>1. q \in Nat /\ n + FinalBit = FinalBit * q + r /\ r \in 0..(FinalBit - 1)
    BY <1>1
  <2> HIDE DEF q, r
  <2>2. q # 0
    <3> SUFFICES ASSUME q = 0 PROVE FALSE
      OBVIOUS
    <3>1. FinalBit * q = 0
      BY <1>1
    <3> QED BY <1>1, <2>1, <3>1
  <2>3. ~(q >= 2)
    <3> SUFFICES ASSUME q >= 2 PROVE FALSE
      OBVIOUS
    <3>1. FinalBit * q >= FinalBit * 2
      BY <1>1, <2>1
    <3> QED BY <1>1, <2>1, <3>1
  <2>4. q = 1
    BY <2>1, <2>2, <2>3
  <2>5. FinalBit * q = FinalBit
    BY <1>1, <2>4
  <2>6. r = n
    BY <1>1, <2>1, <2>5
  <2> QED BY <2>6 DEF r
<1> QED BY <1>1, <1>2, <1>3 DEF Flagged

(* Taking the first bytes drops the padding and nothing else.              *)
LEMMA PaddingComesOff ==
  ASSUME NEW data \in Seq(Nat), NEW n \in Nat
  PROVE  SubSeq(data \o Padding(n), 1, Len(data)) = data
<1> DEFINE both == data \o Padding(n)
<1>1. Padding(n) \in Seq(Nat)
  BY IsASeq DEF Padding, Zero
<1>2. /\ Len(both) = Len(data) + Len(Padding(n))
      /\ \A i \in 1..(Len(data) + Len(Padding(n))) :
           both[i] = IF i <= Len(data) THEN data[i] ELSE Padding(n)[i - Len(data)]
  BY <1>1, ConcatProperties
<1>3. Len(data) \in Nat /\ Len(Padding(n)) \in Nat
  BY <1>1
<1>4. \A i \in 1..Len(data) : both[i] = data[i] /\ both[i] \in Nat
  BY <1>2, <1>3
<1> HIDE DEF both
<1>5. /\ SubSeq(both, 1, Len(data)) \in Seq(Nat)
      /\ Len(SubSeq(both, 1, Len(data))) = Len(data)
      /\ \A i \in 1..Len(data) : SubSeq(both, 1, Len(data))[i] = both[i]
  <2>1. /\ SubSeq(both, 1, Len(data)) \in Seq(Nat)
        /\ Len(SubSeq(both, 1, Len(data))) = IF 1 <= Len(data) THEN Len(data) - 1 + 1 ELSE 0
        /\ \A i \in 1..(Len(data) - 1 + 1) : SubSeq(both, 1, Len(data))[i] = both[1 + i - 1]
    BY <1>3, <1>4, SubSeqProperties
  <2> QED BY <1>3, <2>1
<1>6. SubSeq(both, 1, Len(data)) = data
  BY <1>4, <1>5, SeqEqual
<1> QED BY <1>6 DEF both

(* A frame that fits is read as it was sealed.                             *)
LEMMA FrameReadAsSealed ==
  ASSUME NEW i, NEW k, NEW final \in BOOLEAN, NEW frame \in Frame,
         ~FrameTooLong(Len(frame.data), frame.padding)
  PROVE  LET f == SealedFrame(i, k, frame, final) IN
         /\ FrameHeader(f.head).final_frame <=> final
         /\ OpenedBody(FrameHeader(f.head), f.body) = frame.data
<1> DEFINE f == SealedFrame(i, k, frame, final)
<1>1. frame.data \in Seq(Nat) /\ frame.padding \in Nat /\ Len(frame.data) \in Nat
  BY DEF Frame
<1>2. Len(frame.data) < FinalBit
  BY <1>1, WireAssumption DEF FrameTooLong
<1>3. /\ f.head.plain.flagged = Flagged(Len(frame.data), final)
      /\ f.body.plain = frame.data \o Padding(frame.padding)
  BY DEF SealedFrame, Sealed
<1> HIDE DEF f
<1>4. /\ FrameHeader(f.head).final_frame <=> final
      /\ FrameHeader(f.head).data_len = Len(frame.data)
  BY <1>1, <1>2, <1>3, FlagComesOff DEF FrameHeader
<1>5. OpenedBody(FrameHeader(f.head), f.body) = frame.data
  BY <1>1, <1>3, <1>4, PaddingComesOff DEF OpenedBody
<1> QED BY <1>4, <1>5 DEF f

(* Of what arrives, all that is whole and sealed under one key is of the   *)
(* frames that were sealed under it.                                       *)
MadeOf(arrived, key, frames) ==
  /\ Len(arrived) \in Nat
  /\ \A k \in 1..Len(arrived) :
       /\ arrived[k].head.key = key =>
            \E l \in DOMAIN frames : arrived[k].head = frames[l].head
       /\ arrived[k].body.key = key /\ arrived[k].body.intact =>
            \E l \in DOMAIN frames : arrived[k].body = frames[l].body

\* What is read is how the content began, and is taken for whole if it is.
AsSent(content, r) ==
  /\ Len(r.data) <= Len(content)
  /\ \A k \in DOMAIN r.data : r.data[k] = content[k].data
  /\ r.whole => Len(r.data) = Len(content)

LEMMA ReadAsItBegan ==
  ASSUME NEW i, NEW content \in Seq(Frame), NEW arrived,
         MadeOf(arrived, i, SealedFrames(i, content))
  PROVE  AsSent(content, Read(i, arrived))
<1>1. PICK last \in 0..Len(content) :
        /\ SealedFrames(i, content)
             = [k \in 1..last |-> SealedFrame(i, k - 1, content[k], k = Len(content))]
        /\ \A k \in 1..last : ~FrameTooLong(Len(content[k].data), content[k].padding)
        /\ \A k \in 1..last : k - 1 \in Nat /\ k - 1 <= MaxFrameNumber
  BY FramesGoOut
<1>2. Len(content) \in Nat /\ Len(arrived) \in Nat
  BY DEF MadeOf
<1>3. ASSUME NEW k \in 1..Len(arrived), FrameOpens(i, arrived, k)
      PROVE  /\ k \in 1..last
             /\ FrameHeader(arrived[k].head).final_frame <=> k = Len(content)
             /\ OpenedBody(FrameHeader(arrived[k].head), arrived[k].body) = content[k].data
  <2>1. /\ arrived[k].head.nonce = FrameNonce(k - 1, TRUE)
        /\ arrived[k].body.nonce = FrameNonce(k - 1, FALSE)
        /\ arrived[k].body.intact /\ arrived[k].head.key = i /\ arrived[k].body.key = i
        /\ k - 1 \in Nat /\ k - 1 <= MaxFrameNumber
    BY <1>2, <1>3 DEF FrameOpens, HeaderOpens, BodyOpens, Opens
  <2>a. PICK frames : frames = SealedFrames(i, content)
    OBVIOUS
  <2>b. /\ \E l \in DOMAIN frames : arrived[k].head = frames[l].head
        /\ \E m \in DOMAIN frames : arrived[k].body = frames[m].body
    <3>1. MadeOf(arrived, i, frames)
      BY <2>a
    <3> QED BY <2>1, <3>1 DEF MadeOf
  <2>2. PICK l \in 1..last : arrived[k].head = SealedFrame(i, l - 1, content[l], l = Len(content)).head
    BY <1>1, <2>a, <2>b
  <2>3. PICK m \in 1..last : arrived[k].body = SealedFrame(i, m - 1, content[m], m = Len(content)).body
    BY <1>1, <2>a, <2>b
  <2>4. /\ arrived[k].head.nonce = FrameNonce(l - 1, TRUE)
        /\ arrived[k].body.nonce = FrameNonce(m - 1, FALSE)
    <3>1. ASSUME NEW x \in 1..last
          PROVE  LET f == SealedFrame(i, x - 1, content[x], x = Len(content)) IN
                 f.head.nonce = FrameNonce(x - 1, TRUE) /\ f.body.nonce = FrameNonce(x - 1, FALSE)
      BY DEF SealedFrame, Sealed
    <3>2. arrived[k].head.nonce = FrameNonce(l - 1, TRUE)
      BY <2>2, <3>1, Zenon
    <3>3. arrived[k].body.nonce = FrameNonce(m - 1, FALSE)
      BY <2>3, <3>1, Zenon
    <3> QED BY <3>2, <3>3
  <2>5. l = k /\ m = k
    <3>1. l - 1 = k - 1 /\ m - 1 = k - 1
      BY <1>1, <2>1, <2>4, NonceTells
    <3> QED BY <3>1
  <2>6. content[k] \in Frame /\ ~FrameTooLong(Len(content[k].data), content[k].padding)
    BY <1>1, <1>2, <2>5
  <2>7. PICK final \in BOOLEAN : final = (k = Len(content))
    BY Zenon
  <2>8. LET f == SealedFrame(i, k - 1, content[k], final) IN
        /\ FrameHeader(f.head).final_frame <=> final
        /\ OpenedBody(FrameHeader(f.head), f.body) = content[k].data
    BY <2>6, FrameReadAsSealed
  <2>9. /\ arrived[k].head = SealedFrame(i, k - 1, content[k], final).head
        /\ arrived[k].body = SealedFrame(i, k - 1, content[k], final).body
    BY <2>2, <2>3, <2>5, <2>7, Zenon
  <2> QED BY <2>5, <2>7, <2>8, <2>9, Zenon
<1> DEFINE readable == {n \in 0..Len(arrived) :
                          \A k \in 1..n :
                            /\ FrameOpens(i, arrived, k)
                            /\ k < n => ~FrameHeader(arrived[k].head).final_frame}
<1>4. PICK n : n = FramesRead(i, arrived)
  OBVIOUS
<1>5. n \in readable
  <2>1. n = CHOOSE x \in readable : \A m \in readable : m <= x
    BY <1>4 DEF FramesRead
  <2>2. 0 \in readable /\ readable \subseteq 0..Len(arrived)
    BY <1>2
  <2> HIDE DEF readable
  <2>3. \E x \in readable : \A m \in readable : m <= x
    BY <1>2, <2>2, GreatestExists
  <2> QED BY <2>1, <2>3
<1>6. /\ n \in 0..Len(arrived)
      /\ \A k \in 1..n : k \in 1..Len(arrived) /\ FrameOpens(i, arrived, k)
  BY <1>2, <1>5
<1>7. \A k \in 1..n :
        /\ k \in 1..last
        /\ FrameHeader(arrived[k].head).final_frame <=> k = Len(content)
        /\ OpenedBody(FrameHeader(arrived[k].head), arrived[k].body) = content[k].data
  BY <1>3, <1>6
<1>8. PICK r : r = Read(i, arrived)
  OBVIOUS
<1>9. /\ r.data = [k \in 1..n |-> OpenedBody(FrameHeader(arrived[k].head), arrived[k].body)]
      /\ r.whole <=> n > 0 /\ FrameHeader(arrived[n].head).final_frame
  BY <1>4, <1>8 DEF Read
<1>10. DOMAIN r.data = 1..n /\ Len(r.data) = n
  BY <1>6, <1>9
<1>11. n <= Len(content)
  <2>1. CASE n = 0
    BY <1>2, <2>1
  <2>2. CASE n # 0
    BY <1>1, <1>2, <1>6, <1>7, <2>2
  <2> QED BY <2>1, <2>2
<1>12. \A k \in 1..n : r.data[k] = content[k].data
  BY <1>7, <1>9
<1>13. r.whole => n = Len(content)
  BY <1>6, <1>7, <1>9
<1> QED BY <1>8, <1>10, <1>11, <1>12, <1>13 DEF AsSent

(* A stream carries what it was given, under a key that only its header    *)
(* tells.                                                                  *)
FramesInv ==
  \A i \in Stream :
    /\ network[i].content \in Seq(Frame)
    /\ network[i].frames = SealedFrames(i, network[i].content)
    /\ network[i].header = SealedStreamHeader(network[i].header.key, network[i].tag.number, i)

LEMMA FramesStep ==
  ASSUME ChannelInv, FramesInv, [Next]_vars
  PROVE  FramesInv'
<1>1. CASE network' = network
  BY <1>1 DEF FramesInv, Stream
<1>2. CASE \E t \in Readings, content \in Contents : Send(t, content)
  <2>1. PICK t \in Readings, content \in Contents : Send(t, content)
    BY <1>2
  <2>2. PICK new, n : new = NewStream(SenderTurned(t), content) /\ n = Len(network)
    OBVIOUS
  <2>3. /\ n \in Nat /\ Stream = 1..n /\ Stream' = 1..(n + 1)
        /\ \A i \in 1..n : network'[i] = network[i]
        /\ network'[n + 1] = new
    BY <2>1, <2>2, Appended DEF Send, ChannelInv, NetworkInv, Stream
  <2>4. /\ new.content \in Seq(Frame) /\ new.frames = SealedFrames(n + 1, new.content)
        /\ new.header = SealedStreamHeader(new.header.key, new.tag.number, n + 1)
    BY <2>2, ContentsAssumption DEF NewStream, SealedStreamHeader, Sealed, Tag
  <2>5. \A i \in Stream' : i \in 1..n \/ i = n + 1
    BY <2>3
  <2> QED BY <2>3, <2>4, <2>5 DEF FramesInv
<1> QED BY <1>1, <1>2 DEF Next, vars, Tick, GiveUp, Turn, Receive

(* The frames of a stream are under its key, from first to last.           *)
LEMMA FramesOfStream ==
  ASSUME FramesInv, NEW j \in Stream
  PROVE  /\ SealedApart(j, network[j].frames)
         /\ Len(network[j].frames) \in Nat
         /\ DOMAIN network[j].frames = 1..Len(network[j].frames)
         /\ \A k \in DOMAIN network[j].frames :
              network[j].frames[k] = [head |-> network[j].frames[k].head,
                                      body |-> network[j].frames[k].body]
<1> DEFINE content == network[j].content
<1>1. content \in Seq(Frame) /\ network[j].frames = SealedFrames(j, content)
  BY DEF FramesInv
<1> HIDE DEF content
<1>2. PICK last \in 0..Len(content) :
        SealedFrames(j, content)
          = [k \in 1..last |-> SealedFrame(j, k - 1, content[k], k = Len(content))]
  BY <1>1, FramesGoOut
<1>3. last \in Nat
  BY <1>1
<1>4. \A k \in 1..last : SealedFrames(j, content)[k]
        = [head |-> SealedFrames(j, content)[k].head, body |-> SealedFrames(j, content)[k].body]
  BY <1>2 DEF SealedFrame
<1>5. Len(SealedFrames(j, content)) = last /\ DOMAIN SealedFrames(j, content) = 1..last
  BY <1>2, <1>3
<1>6. SealedApart(j, SealedFrames(j, content))
  BY <1>1, FramesApart
<1> QED BY <1>1, <1>3, <1>4, <1>5, <1>6

(* Frames that are lost, repeated, swapped, put together from those of     *)
(* several streams or damaged: what is under a stream's key is of it.      *)
LEMMA ArrivalsMadeOf ==
  ASSUME FramesInv, NEW i \in Stream, NEW arrived \in Arrivals
  PROVE  MadeOf(arrived, i, network[i].frames)
<1>1. \/ \E j \in Stream : arrived \in Damaged(network[j].frames)
      \/ \E n \in UNION {0..Len(network[j].frames) : j \in Stream} : arrived \in [1..n -> Mixed]
  BY DEF Arrivals
<1>2. ASSUME NEW j \in Stream, NEW l \in DOMAIN network[j].frames
      PROVE  /\ network[j].frames[l].head.key = i => j = i
             /\ network[j].frames[l].body.key = i => j = i
  BY FramesOfStream DEF SealedApart
<1>3. ASSUME NEW j \in Stream, arrived \in Damaged(network[j].frames)
      PROVE  MadeOf(arrived, i, network[i].frames)
  <2>1. PICK frames : frames = network[j].frames
    OBVIOUS
  <2>2. /\ Len(frames) \in Nat /\ DOMAIN frames = 1..Len(frames)
        /\ \A k \in DOMAIN frames : frames[k] = [head |-> frames[k].head, body |-> frames[k].body]
    BY <2>1, FramesOfStream
  <2>3. PICK x \in DOMAIN frames : arrived = [frames EXCEPT ![x].body = Altered(frames[x].body)]
    BY <1>3, <2>1, Zenon DEF Damaged
  <2>4. Len(arrived) = Len(frames) /\ \A k \in DOMAIN frames : k # x => arrived[k] = frames[k]
    BY <2>2, <2>3
  <2>5. arrived[x].head = frames[x].head /\ ~arrived[x].body.intact
    <3>1. arrived[x] = [frames[x] EXCEPT !.body = Altered(frames[x].body)]
      BY <2>3
    <3>2. arrived[x].head = frames[x].head /\ arrived[x].body = Altered(frames[x].body)
      BY <2>2, <3>1
    <3>3. ~Altered(frames[x].body).intact
      <4>1. PICK content : frames = SealedFrames(j, content) /\ content \in Seq(Frame)
        BY <2>1 DEF FramesInv
      <4>2. PICK last \in 0..Len(content) :
              SealedFrames(j, content)
                = [k \in 1..last |-> SealedFrame(j, k - 1, content[k], k = Len(content))]
        BY <4>1, FramesGoOut
      <4>3. frames[x] = SealedFrame(j, x - 1, content[x], x = Len(content))
        BY <4>1, <4>2
      <4> QED BY <4>3 DEF SealedFrame, Sealed, Altered
    <3> QED BY <3>2, <3>3
  <2>6. ASSUME NEW k \in 1..Len(arrived)
        PROVE  /\ arrived[k].head = frames[k].head
               /\ arrived[k].body.intact => arrived[k].body = frames[k].body
               /\ k \in DOMAIN frames
    BY <2>2, <2>4, <2>5
  <2>7. ASSUME NEW k \in 1..Len(arrived), arrived[k].head.key = i \/ arrived[k].body.key = i,
               arrived[k].head.key = i \/ arrived[k].body.intact
        PROVE  frames = network[i].frames
    <3>1. frames[k].head.key = i \/ frames[k].body.key = i
      BY <2>6, <2>7
    <3> QED BY <1>2, <2>1, <2>6, <3>1
  <2> QED BY <2>2, <2>4, <2>6, <2>7 DEF MadeOf
<1>4. ASSUME NEW n \in UNION {0..Len(network[j].frames) : j \in Stream}, arrived \in [1..n -> Mixed]
      PROVE  MadeOf(arrived, i, network[i].frames)
  <2>1. n \in Nat
    BY FramesOfStream
  <2>2. Len(arrived) = n
    BY <1>4, <2>1
  <2>3. ASSUME NEW k \in 1..n
        PROVE  \E f, g \in Sent : arrived[k].head = f.head /\ arrived[k].body = g.body
    BY <1>4 DEF Mixed
  <2>4. ASSUME NEW f \in Sent
        PROVE  \E j \in Stream : \E l \in DOMAIN network[j].frames : f = network[j].frames[l]
    BY DEF Sent
  <2>5. ASSUME NEW f \in Sent
        PROVE  /\ f.head.key = i => \E l \in DOMAIN network[i].frames : f = network[i].frames[l]
               /\ f.body.key = i => \E l \in DOMAIN network[i].frames : f = network[i].frames[l]
    BY <1>2, <2>4
  <2> QED BY <2>1, <2>2, <2>3, <2>5 DEF MadeOf
<1> QED BY <1>1, <1>3, <1>4

(* A header that opens and has the number the tag was looked up by is that *)
(* of the stream with the tag, whatever other headers could be there.      *)
LEMMA HeaderBelongs ==
  ASSUME ChannelInv, FramesInv, NEW i \in Stream, NEW h, NEW lo, NEW hi, Holds(h, lo, hi),
         NEW r \in Recognised(h, network[i].tag), NEW header \in Headers,
         Opens(header, h[r[1]].keys.incoming.header_key, NoNonce),
         header.plain.stream_number = r[2]
  PROVE  header = network[i].header /\ header.plain.cipher_key = i
<1>1. ASSUME NEW j \in Stream
      PROVE  /\ network[j].header.plain = [stream_number |-> network[j].tag.number, cipher_key |-> j]
             /\ ~Altered(network[j].header).intact
  <2>1. ASSUME NEW k, NEW n, NEW c
        PROVE  LET s == SealedStreamHeader(k, n, c) IN
               s.plain = [stream_number |-> n, cipher_key |-> c] /\ ~Altered(s).intact
    BY DEF SealedStreamHeader, Sealed, Altered
  <2>2. PICK k, n, s : /\ n = network[j].tag.number /\ s = SealedStreamHeader(k, n, j)
                       /\ network[j].header = s
    BY DEF FramesInv
  <2>3. s.plain = [stream_number |-> n, cipher_key |-> j] /\ ~Altered(s).intact
    BY <2>1, <2>2
  <2> QED BY <2>2, <2>3
<1>2. PICK j \in Stream : header = network[j].header
  <2>1. PICK j \in Stream : header \in {network[j].header, Altered(network[j].header)}
    BY DEF Headers
  <2> QED BY <1>1, <2>1 DEF Opens
<1>3. \A k \in Stream : SentInPeriod(network[k]) /\ SealedForPeriod(network[k])
  BY DEF ChannelInv, NetworkInv
<1>4. PICK p, n : p = network[i].period /\ n = network[i].tag.number
  OBVIOUS
<1>5. r = <<p, n>> /\ p \in lo..hi
  BY <1>3, <1>4, RecognisedByItsOwn
<1>6. h[p].keys.incoming.header_key = DirectionAt("A", p).header_key
  <2>1. h[p].keys = KeysAt("B", p)
    BY <1>5 DEF Holds
  <2> QED BY <2>1 DEF KeysAt, Peer
<1>7. network[j].period = p
  <2>1. DirectionAt("A", network[j].period).header_key = DirectionAt("A", p).header_key
    BY <1>2, <1>3, <1>5, <1>6 DEF Opens, SealedForPeriod
  <2>2. /\ p \in Nat /\ Base <= p
        /\ network[j].period \in Nat /\ Base <= network[j].period
    BY <1>3, <1>4 DEF SentInPeriod
  <2> QED BY <2>1, <2>2, KeysApart DEF Role
<1>8. network[j].tag.number = n
  <2>1. PICK plain, number : plain = network[j].header.plain /\ number = network[j].tag.number
    OBVIOUS
  <2>2. plain.stream_number = n
    BY <1>2, <1>5, <2>1
  <2>3. plain = [stream_number |-> number, cipher_key |-> j]
    BY <1>1, <2>1, Zenon
  <2> QED BY <2>1, <2>2, <2>3
<1>9. j = i
  <2>1. ~(i < j) /\ ~(j < i)
    <3>1. n \in Nat /\ p \in Nat
      BY <1>3, <1>4 DEF SealedForPeriod, SentInPeriod
    <3>2. ~Before(network[i], network[j]) /\ ~Before(network[j], network[i])
      BY <1>4, <1>7, <1>8, <3>1 DEF Before
    <3> QED BY <3>2 DEF ChannelInv, NetworkInv
  <2>2. i \in Int /\ j \in Int
    BY NetworkDomain DEF ChannelInv
  <2> QED BY <2>1, <2>2
<1>10. network[i].header.plain.cipher_key = i
  <2>1. PICK plain, number : plain = network[i].header.plain /\ number = network[i].tag.number
    OBVIOUS
  <2>2. plain = [stream_number |-> number, cipher_key |-> i]
    BY <1>1, <2>1, Zenon
  <2> QED BY <2>1, <2>2
<1> QED BY <1>2, <1>9, <1>10

(* One reading under a tag that was recognised: of the frames of its       *)
(* stream, or of nothing.                                                  *)
LEMMA StreamReadAsItBegan ==
  ASSUME ChannelInv, FramesInv, NEW i \in Stream, NEW h, NEW lo, NEW hi, Holds(h, lo, hi),
         NEW r \in Recognised(h, network[i].tag), NEW read \in MayBeRead(h[r[1]].keys, r[2])
  PROVE  AsSent(network[i].content, read)
<1>1. PICK header \in Headers, arrived \in Arrivals :
        read = ReadStream(h[r[1]].keys, r[2], header, arrived)
  BY DEF MayBeRead
<1>2. network[i].content \in Seq(Frame) /\ network[i].frames = SealedFrames(i, network[i].content)
  BY DEF FramesInv
<1>3. CASE /\ Opens(header, h[r[1]].keys.incoming.header_key, NoNonce)
           /\ header.plain.stream_number = r[2]
  <2>1. header.plain.cipher_key = i
    BY <1>3, HeaderBelongs
  <2>2. read = Read(i, arrived)
    BY <1>1, <1>3, <2>1 DEF ReadStream
  <2>3. MadeOf(arrived, i, SealedFrames(i, network[i].content))
    BY <1>2, ArrivalsMadeOf
  <2> QED BY <1>2, <2>2, <2>3, ReadAsItBegan
<1>4. CASE ~ /\ Opens(header, h[r[1]].keys.incoming.header_key, NoNonce)
             /\ header.plain.stream_number = r[2]
  <2>1. read = [data |-> << >>, whole |-> FALSE]
    BY <1>1, <1>4 DEF ReadStream
  <2>2. Len(network[i].content) \in Nat
    BY <1>2
  <2> QED BY <2>1, <2>2 DEF AsSent
<1> QED BY <1>3, <1>4

LEMMA ReadAsSentStep ==
  ASSUME ChannelInv, FramesInv, ReadAsSent, [Next]_vars
  PROVE  ReadAsSent'
<1>1. CASE network' = network /\ handedOn' = handedOn
  BY <1>1 DEF ReadAsSent, Stream
<1>2. CASE \E t \in Readings, content \in Contents : Send(t, content)
  <2>1. PICK n, new : n = Len(network) /\ network' = Append(network, new)
                      /\ handedOn' = Append(handedOn, << >>)
    BY <1>2 DEF Send
  <2>2. /\ n \in Nat /\ Stream = 1..n /\ Stream' = 1..(n + 1)
        /\ \A i \in 1..n : network'[i] = network[i] /\ handedOn'[i] = handedOn[i]
        /\ handedOn'[n + 1] = << >>
    BY <2>1, Appended DEF ChannelInv, NetworkInv, ReadInv, Stream
  <2>3. ASSUME NEW i \in Stream', NEW k \in DOMAIN handedOn'[i]
        PROVE  AsSent(network'[i].content, handedOn'[i][k])
    <3>1. i \in 1..n
      BY <2>2
    <3>2. i \in Stream /\ k \in DOMAIN handedOn[i]
          /\ network'[i] = network[i] /\ handedOn'[i] = handedOn[i]
      BY <2>2, <3>1
    <3>3. AsSent(network[i].content, handedOn[i][k])
      BY <3>2 DEF ReadAsSent, AsSent
    <3> QED BY <3>2, <3>3
  <2> QED BY <2>3 DEF ReadAsSent, AsSent
<1>3. ASSUME NEW t \in Readings, NEW i \in Stream, Receive(t, i)
      PROVE  ReadAsSent'
  <2>1. network' = network
    BY <1>3 DEF Receive
  <2>2. CASE handedOn' = handedOn
    BY <2>1, <2>2 DEF ReadAsSent, Stream
  <2>4. PICK h, lo, hi : h = HeldTurned(t) /\ Holds(h, lo, hi)
    BY RecipientTurns DEF ChannelInv, DevicesInv
  <2>3. ASSUME NEW r \in Recognised(h, network[i].tag), NEW x \in MayBeRead(h[r[1]].keys, r[2]),
               handedOn' = [handedOn EXCEPT ![i] = Append(handedOn[i], x)]
        PROVE  ReadAsSent'
    <3>2. AsSent(network[i].content, x)
      BY <2>4, StreamReadAsItBegan
    <3>3. i \in DOMAIN handedOn /\ IsSequence(handedOn[i])
      <4>1. << >> \in Seq({})
        OBVIOUS
      <4> QED BY <4>1, Appended DEF IsSequence, ChannelInv, ReadInv, NetworkInv, Stream
    <3>4. /\ handedOn'[i] = Append(handedOn[i], x)
          /\ \A j \in Stream : j # i => handedOn'[j] = handedOn[j]
      BY <2>3, <3>3
    <3>5. ASSUME NEW k \in DOMAIN handedOn'[i]
          PROVE  AsSent(network[i].content, handedOn'[i][k])
      <4>1. /\ Len(handedOn[i]) \in Nat /\ DOMAIN handedOn[i] = 1..Len(handedOn[i])
            /\ k \in 1..(Len(handedOn[i]) + 1)
            /\ \A l \in 1..Len(handedOn[i]) : handedOn'[i][l] = handedOn[i][l]
            /\ handedOn'[i][Len(handedOn[i]) + 1] = x
        BY <3>3, <3>4, Appended
      <4>2. CASE k \in 1..Len(handedOn[i])
        BY <4>1, <4>2 DEF ReadAsSent, AsSent
      <4>3. CASE k = Len(handedOn[i]) + 1
        BY <3>2, <4>1, <4>3
      <4> QED BY <4>1, <4>2, <4>3
    <3>6. \A j \in Stream : \A k \in DOMAIN handedOn'[j] : AsSent(network[j].content, handedOn'[j][k])
      <4> SUFFICES ASSUME NEW j \in Stream, NEW k \in DOMAIN handedOn'[j]
                   PROVE  AsSent(network[j].content, handedOn'[j][k])
        OBVIOUS
      <4>1. CASE j = i
        BY <3>5, <4>1
      <4>2. CASE j # i
        BY <3>4, <4>2 DEF ReadAsSent, AsSent
      <4> QED BY <4>1, <4>2
    <3> QED BY <2>1, <3>6 DEF ReadAsSent, AsSent, Stream
  <2> QED BY <1>3, <2>2, <2>3, <2>4 DEF Receive
<1> QED BY <1>1, <1>2, <1>3 DEF Next, vars, Tick, GiveUp, Turn, Stream

(* What is read of a stream is how it began, as it was sent and without    *)
(* the padding, and it is taken for whole only if nothing is missing,      *)
(* whatever headers and frames the transport puts behind its tag.          *)
THEOREM WhatIsReadIsAsSent == Spec => []ReadAsSent
<1>1. Init => FramesInv /\ ReadAsSent
  BY DEF Init, FramesInv, ReadAsSent, Stream
<1>2. ChannelInv /\ FramesInv /\ [Next]_vars => FramesInv'
  BY FramesStep
<1>3. ChannelInv /\ FramesInv /\ ReadAsSent /\ [Next]_vars => ReadAsSent'
  BY ReadAsSentStep
<1> QED BY <1>1, <1>2, <1>3, ChannelInvariant, PTL DEF Spec
=============================================================================
