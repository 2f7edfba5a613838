------------------------------- MODULE Streams -------------------------------
(***************************************************************************)
(* One direction of one peer and period: a sender that numbers its streams *)
(* (StreamCounter) and a recipient that recognises them by their tags      *)
(* (Window), over a transport that loses, repeats and reorders streams.    *)
(*                                                                         *)
(* Both sides stop at any moment and come back with what the application   *)
(* had stored.  The application is external: it writes the counter down    *)
(* before a stream is sent and the window before a stream is handed on.    *)
(* What it writes down is what peek() gives after take().  A tag is a PRF  *)
(* of the stream number, so the number stands for its tag.                 *)
(***************************************************************************)
EXTENDS ReorderWindow, FiniteSets

CONSTANT MaxCrashes  \* bound of an instance: stops of either side

ASSUME CrashAssumption == MaxCrashes \in Nat

NoNumber == -1

VARIABLES counter,     \* StreamCounter: [next, exhausted]
          saved,       \* the sender's stored number, restore()'s argument
          taken,       \* a number taken and not sent yet
          sent,        \* how often a stream went out under each number
          window,      \* the recipient's window
          savedWindow, \* the recipient's stored window
          marked,      \* a number marked seen whose stream is not handed on yet
          delivered,   \* how often a stream with each number was handed on
          crashes

vars == <<counter, saved, taken, sent, window, savedWindow, marked, delivered, crashes>>

senderVars == <<counter, saved, taken, sent>>
recipientVars == <<window, savedWindow, marked, delivered>>

TypeOK ==
  /\ counter \in [next : Number, exhausted : BOOLEAN]
  /\ saved \in Number
  /\ taken \in Number \cup {NoNumber}
  /\ sent \in [Number -> Nat]
  /\ window \in Window /\ savedWindow \in Window
  /\ marked \in Number \cup {NoNumber}
  /\ delivered \in [Number -> Nat]
  /\ crashes \in Nat

Init ==
  /\ counter = [next |-> 0, exhausted |-> FALSE]
  /\ saved = 0
  /\ taken = NoNumber
  /\ sent = [n \in Number |-> 0]
  /\ window = NewWindow /\ savedWindow = NewWindow
  /\ marked = NoNumber
  /\ delivered = [n \in Number |-> 0]
  /\ crashes = 0

-----------------------------------------------------------------------------
(* The sender. *)

\* A plausible slip: no check for the topmost number.
FollowingUnchecked(c) == [c EXCEPT !.next = @ + 1]

\* take(): the last number is handed out, and then none.
Following(c) ==
  IF c.next < Top THEN [c EXCEPT !.next = @ + 1] ELSE [c EXCEPT !.exhausted = TRUE]

Take ==
  /\ taken = NoNumber
  /\ ~counter.exhausted
  /\ taken' = counter.next
  /\ counter' = Following(counter)
  /\ UNCHANGED <<saved, sent, recipientVars, crashes>>

\* The application stores peek().
StoreCounter ==
  /\ saved # counter.next
  /\ saved' = counter.next
  /\ UNCHANGED <<counter, taken, sent, recipientVars, crashes>>

\* A plausible slip: the stream sent before the counter is written down.
SendUnstored ==
  /\ taken # NoNumber
  /\ sent' = [sent EXCEPT ![taken] = @ + 1]
  /\ taken' = NoNumber
  /\ UNCHANGED <<counter, saved, recipientVars, crashes>>

\* The counter is written down before the stream is sent.
Send ==
  /\ taken # NoNumber
  /\ saved = counter.next
  /\ sent' = [sent EXCEPT ![taken] = @ + 1]
  /\ taken' = NoNumber
  /\ UNCHANGED <<counter, saved, recipientVars, crashes>>

\* restore(): only the number was stored.
RestoredCounter == [next |-> saved, exhausted |-> FALSE]

SenderRestarts ==
  /\ crashes < MaxCrashes
  /\ crashes' = crashes + 1
  /\ counter' = RestoredCounter
  /\ taken' = NoNumber
  /\ UNCHANGED <<saved, sent, recipientVars>>

-----------------------------------------------------------------------------
(* The recipient.  A stream that was sent may arrive at any time, any      *)
(* number of times or never; anybody who saw it may send it again.         *)

Arrive(n) ==
  /\ marked = NoNumber
  /\ sent[n] > 0
  /\ n \in Expected(window)
  /\ MarkRefusal(window, n) = {}
  /\ window' = Marked(window, n)
  /\ marked' = n
  /\ UNCHANGED <<savedWindow, delivered, senderVars, crashes>>

StoreWindow ==
  /\ savedWindow # window
  /\ savedWindow' = window
  /\ UNCHANGED <<window, marked, delivered, senderVars, crashes>>

HandOn ==
  /\ marked # NoNumber
  /\ savedWindow = window
  /\ delivered' = [delivered EXCEPT ![marked] = @ + 1]
  /\ marked' = NoNumber
  /\ UNCHANGED <<window, savedWindow, senderVars, crashes>>

RecipientRestarts ==
  /\ crashes < MaxCrashes
  /\ crashes' = crashes + 1
  /\ window' = savedWindow
  /\ marked' = NoNumber
  /\ UNCHANGED <<savedWindow, delivered, senderVars>>

Next ==
  \/ Take \/ StoreCounter \/ Send \/ SenderRestarts
  \/ \E n \in Number : Arrive(n)
  \/ StoreWindow \/ HandOn \/ RecipientRestarts

Spec == Init /\ [][Next]_vars

-----------------------------------------------------------------------------
(* No stream is handed on twice, whatever is repeated, reordered or lost   *)
(* and wherever the recipient stops between marking, storing and handing   *)
(* on (mark_seen() and restore()).                                         *)
HandedOnOnce == \A n \in Number : delivered[n] <= 1

(* Below the last number no tag goes out twice, wherever the sender stops  *)
(* between taking a number, storing the counter and sending (take(),       *)
(* peek() and restore()).                                                  *)
NoTagTwice == \A n \in Number \ {Top} : sent[n] <= 1

(* A stream is forgotten only once one half a window or more ahead of it   *)
(* was accepted: no step makes the window refuse a number it would have    *)
(* taken and that is nearer than that to the number just marked.           *)
ForgottenOnlyFarBehind ==
  \A m \in Number :
    Refuses(window', m) =>
      \/ Refuses(window, m)
      \/ m = marked'
      \/ m + WindowLen \div 2 <= marked'

ToleratesReordering == [][ForgottenOnlyFarBehind]_vars
=============================================================================
