---------------------------- MODULE StreamsProofs ----------------------------
(***************************************************************************)
(* Proofs about both sides, for every window length and every width of the *)
(* numbers: no stream is handed on twice, one is forgotten only once one   *)
(* half a window ahead of it was accepted, and below the last number no    *)
(* tag goes out twice.                                                     *)
(***************************************************************************)
EXTENDS Streams, WindowProofs, TLAPS

-----------------------------------------------------------------------------
(* The recipient. *)

(* What was handed on is behind the stored window or seen in it: what      *)
(* makes a replay after a restart recognisable.                            *)
HandedOnIsRefused ==
  \A n \in Number : delivered[n] > 0 => Refuses(savedWindow, n) /\ Refuses(window, n)

(* What was handed on is refused, now and after a restart, and a stream    *)
(* marked and not yet handed on is refused and was never handed on.  The   *)
(* stored window lags the one in memory and never refuses more.            *)
RecipientInv ==
  /\ Clear(window) /\ Clear(savedWindow)
  /\ \A n \in Number : Refuses(savedWindow, n) => Refuses(window, n)
  /\ HandedOnIsRefused
  /\ marked # NoNumber => Refuses(window, marked) /\ delivered[marked] = 0
  /\ HandedOnOnce

LEMMA RecipientTypes ==
  ASSUME TypeOK, [Next]_vars, RecipientInv
  PROVE  TypeOK'
<1> USE DEF TypeOK
<1>1. CASE UNCHANGED vars
  BY <1>1 DEF vars
<1>2. CASE Take
  <2>1. counter.next \in Number /\ counter' = Following(counter) /\ taken' = counter.next
    BY <1>2 DEF Take
  <2>2. Following(counter) \in [next : Number, exhausted : BOOLEAN]
    <3>1. CASE counter.next < Top
      <4>1. counter.next + 1 \in Number
        BY <2>1, <3>1, WindowAssumption DEF Number
      <4>2. Following(counter) = [counter EXCEPT !.next = counter.next + 1]
        BY <3>1 DEF Following
      <4>3. counter \in [next : Number, exhausted : BOOLEAN]
        OBVIOUS
      <4> QED BY <4>1, <4>2, <4>3, Zenon
    <3>2. CASE ~(counter.next < Top)
      BY <3>2 DEF Following
    <3> QED BY <3>1, <3>2
  <2> QED BY <1>2, <2>1, <2>2 DEF Take, recipientVars
<1>3. CASE StoreCounter
  BY <1>3 DEF StoreCounter, recipientVars
<1>4. CASE Send
  BY <1>4 DEF Send, recipientVars
<1>5. CASE SenderRestarts
  BY <1>5 DEF SenderRestarts, RestoredCounter, recipientVars
<1>6. ASSUME NEW n \in Number, Arrive(n)
      PROVE  TypeOK'
  <2>1. Clear(Marked(window, n))
    BY <1>6, MarkedRefuses DEF Arrive, RecipientInv
  <2> QED BY <1>6, <2>1 DEF Arrive, Clear, senderVars
<1>7. CASE StoreWindow
  BY <1>7 DEF StoreWindow, senderVars
<1>8. CASE HandOn
  BY <1>8 DEF HandOn, senderVars
<1>9. CASE RecipientRestarts
  BY <1>9 DEF RecipientRestarts, senderVars
<1> QED BY <1>1, <1>2, <1>3, <1>4, <1>5, <1>6, <1>7, <1>8, <1>9 DEF Next

LEMMA RecipientStep ==
  ASSUME TypeOK, RecipientInv, [Next]_vars
  PROVE  RecipientInv'
<1> USE DEF TypeOK, RecipientInv, HandedOnIsRefused, HandedOnOnce
<1>1. CASE UNCHANGED recipientVars
  BY <1>1 DEF recipientVars
<1>2. ASSUME NEW n \in Number, Arrive(n)
      PROVE  RecipientInv'
  <2>1. /\ ~Refuses(window, n)
        /\ Clear(window')
        /\ Refuses(window', n)
        /\ \A m \in Number : Refuses(window, m) => Refuses(window', m)
    BY <1>2, MarkedRefuses DEF Arrive
  <2>2. delivered[n] = 0
    BY <2>1
  <2> QED BY <1>2, <2>1, <2>2 DEF Arrive
<1>3. CASE StoreWindow
  BY <1>3 DEF StoreWindow
<1>4. CASE HandOn
  <2>1. marked \in Number /\ delivered[marked] = 0 /\ savedWindow = window
        /\ Refuses(window, marked)
    BY <1>4 DEF HandOn
  <2>2. delivered' = [delivered EXCEPT ![marked] = 1]
    BY <1>4, <2>1 DEF HandOn
  <2> QED BY <1>4, <2>1, <2>2 DEF HandOn
<1>5. CASE RecipientRestarts
  BY <1>5 DEF RecipientRestarts
<1> QED BY <1>1, <1>2, <1>3, <1>4, <1>5
        DEF Next, vars, recipientVars, Take, StoreCounter, Send, SenderRestarts

LEMMA RecipientInit == Init => TypeOK /\ RecipientInv
<1> SUFFICES ASSUME Init PROVE TypeOK /\ RecipientInv
  OBVIOUS
<1>1. 0 \in Number /\ NewWindow \in Window /\ Clear(NewWindow)
  BY WindowAssumption DEF NewWindow, Window, Number, Clear
<1> QED BY <1>1 DEF Init, TypeOK, RecipientInv, HandedOnIsRefused, HandedOnOnce

(* The types, for every window length and number width.                    *)
THEOREM StreamsTypeCorrect == Spec => [](TypeOK /\ RecipientInv)
<1>1. TypeOK /\ RecipientInv /\ [Next]_vars => (TypeOK /\ RecipientInv)'
  BY RecipientTypes, RecipientStep
<1> QED BY <1>1, RecipientInit, PTL DEF Spec

(* No stream is handed on twice.                                           *)
THEOREM EachStreamHandedOnOnce == Spec => []HandedOnOnce
<1>1. RecipientInv => HandedOnOnce
  BY DEF RecipientInv
<1> QED BY <1>1, StreamsTypeCorrect, PTL

-----------------------------------------------------------------------------
(* Reordering. *)

(* Between two markings nothing is seen in the upper half of the window,   *)
(* in memory or stored: one marking then moves it no further than half a   *)
(* window below the number it marked.                                      *)
BothSettled == Settled(window) /\ Settled(savedWindow)

LEMMA SettledStep ==
  ASSUME TypeOK, RecipientInv, BothSettled, [Next]_vars
  PROVE  BothSettled' /\ ForgottenOnlyFarBehind
<1> USE DEF BothSettled
<1>1. CASE UNCHANGED <<window, savedWindow>>
  BY <1>1 DEF ForgottenOnlyFarBehind, Refuses, IsSeen, Covers, Settled
<1>2. ASSUME NEW n \in Number, Arrive(n)
      PROVE  BothSettled' /\ ForgottenOnlyFarBehind
  <2>1. /\ Clear(window) /\ n \in Expected(window) /\ MarkRefusal(window, n) = {}
        /\ window' = Marked(window, n) /\ marked' = n /\ savedWindow' = savedWindow
    BY <1>2 DEF Arrive, RecipientInv
  <2>2. /\ Settled(window')
        /\ \A m \in Number : IsSeen(window', m) => IsSeen(window, m) \/ m = n
        /\ \A m \in Number : m < window'.base =>
             m < window.base \/ IsSeen(window, m) \/ m = n \/ m + Half <= n
    BY <2>1, MarkedReach
  <2>3. ForgottenOnlyFarBehind
    BY <2>1, <2>2 DEF ForgottenOnlyFarBehind, Refuses, Half
  <2> QED BY <2>1, <2>2, <2>3 DEF Settled
<1>3. CASE StoreWindow
  BY <1>3 DEF StoreWindow, ForgottenOnlyFarBehind, Refuses, IsSeen, Covers, Settled
<1>4. CASE RecipientRestarts
  <2>1. \A m \in Number : Refuses(savedWindow, m) => Refuses(window, m)
    BY DEF RecipientInv
  <2>2. window' = savedWindow /\ savedWindow' = savedWindow
    BY <1>4 DEF RecipientRestarts
  <2>3. \A m \in Number : Refuses(window', m) => Refuses(savedWindow, m)
    BY <2>2
  <2> QED BY <2>1, <2>2, <2>3 DEF ForgottenOnlyFarBehind, Settled
<1> QED BY <1>1, <1>2, <1>3, <1>4
        DEF Next, vars, recipientVars, Take, StoreCounter, Send, SenderRestarts, HandOn

(* A stream is forgotten only once one half a window or more ahead of it   *)
(* was accepted, across restarts too.                                      *)
THEOREM StreamsTolerateReordering == Spec => ToleratesReordering
<1>1. Init => BothSettled
  BY DEF Init, BothSettled, Settled, NewWindow
<1>2. TypeOK /\ RecipientInv /\ BothSettled /\ [Next]_vars => BothSettled'
  BY SettledStep
<1>3. TypeOK /\ RecipientInv /\ BothSettled /\ [Next]_vars => [ForgottenOnlyFarBehind]_vars
  BY SettledStep
<1> QED BY <1>1, <1>2, <1>3, StreamsTypeCorrect, PTL DEF Spec, ToleratesReordering

-----------------------------------------------------------------------------
(* The sender. *)

(* Below the last number: a tag that went out lies below the stored        *)
(* number, which a restart resumes from, and the number in hand has not    *)
(* gone out and lies below the counter.                                    *)
SenderInv ==
  /\ saved <= counter.next
  /\ \A n \in Number \ {Top} : sent[n] > 0 => n < saved
  /\ taken \in Number \ {Top} => sent[taken] = 0 /\ taken < counter.next
  /\ NoTagTwice

LEMMA SenderStep ==
  ASSUME TypeOK, SenderInv, [Next]_vars
  PROVE  SenderInv'
<1> USE DEF TypeOK, SenderInv, NoTagTwice, Number
<1>1. CASE UNCHANGED senderVars
  BY <1>1 DEF senderVars
<1>2. CASE Take
  <2>1. CASE counter.next < Top
    BY <1>2, <2>1 DEF Take, Following, recipientVars
  <2>2. CASE ~(counter.next < Top)
    BY <1>2, <2>2, WindowAssumption DEF Take, Following, recipientVars
  <2> QED BY <2>1, <2>2
<1>3. CASE StoreCounter
  BY <1>3 DEF StoreCounter, recipientVars
<1>4. CASE Send
  <2>1. taken \in Number /\ sent' = [sent EXCEPT ![taken] = @ + 1] /\ taken' = NoNumber
        /\ saved' = saved /\ counter' = counter /\ saved = counter.next
    BY <1>4 DEF Send
  <2>2. /\ sent'[taken] = sent[taken] + 1
        /\ \A n \in Number \ {taken} : sent'[n] = sent[n]
    BY <2>1
  <2>3. taken # Top => taken < saved /\ sent[taken] = 0
    BY <2>1
  <2>4. NoNumber \notin Number
    BY WindowAssumption DEF NoNumber
  <2>5. \A n \in Number \ {Top} : (sent'[n] > 0 => n < saved) /\ sent'[n] <= 1
    BY <2>2, <2>3
  <2> QED BY <2>1, <2>4, <2>5
<1>5. CASE SenderRestarts
  BY <1>5 DEF SenderRestarts, RestoredCounter, NoNumber, recipientVars
<1> QED BY <1>1, <1>2, <1>3, <1>4, <1>5
        DEF Next, vars, senderVars, Arrive, StoreWindow, HandOn, RecipientRestarts

(* Below the last number no tag goes out twice, if the application stores  *)
(* what peek() gives after taking a number and before sending.             *)
THEOREM NoTagGoesOutTwice == Spec => []NoTagTwice
<1>1. Init => SenderInv
  BY WindowAssumption DEF Init, SenderInv, NoTagTwice, Number, NoNumber
<1>2. TypeOK /\ SenderInv /\ [Next]_vars => SenderInv'
  BY SenderStep
<1>3. SenderInv => NoTagTwice
  BY DEF SenderInv
<1> QED BY <1>1, <1>2, <1>3, StreamsTypeCorrect, PTL DEF Spec
=============================================================================
