--------------------------- MODULE ReorderWindow ---------------------------
(***************************************************************************)
(* The recipient's reordering window (crates/transport/src/window.rs): the *)
(* numbers from base on, WindowLen of them, each seen or unseen.  The u32  *)
(* of seen bits is the set of their positions.  Numbers run up to Top, the *)
(* u64::MAX of the code, where base saturates.                             *)
(***************************************************************************)
EXTENDS Integers

CONSTANTS WindowLen, Top

ASSUME WindowAssumption ==
  /\ WindowLen \in Nat /\ WindowLen >= 2 /\ WindowLen % 2 = 0
  /\ Top \in Nat /\ Top >= WindowLen

-----------------------------------------------------------------------------
Number == 0..Top

Window == [base : Number, seen : SUBSET (0..(WindowLen - 1))]

NewWindow == [base |-> 0, seen |-> {}]

\* base.saturating_add(n)
Limit(w, n) == IF w.base + n <= Top THEN w.base + n ELSE Top

\* Window::offset: the position of a number, if the window covers it.
Covers(w, n) == w.base <= n /\ n - w.base < WindowLen

IsSeen(w, n) == Covers(w, n) /\ n - w.base \in w.seen

\* slide() n times: base moves up and saturates, the bits move down and drop out.
Slid(w, n) ==
  [base |-> Limit(w, n), seen |-> {i - n : i \in {j \in w.seen : j >= n}}]

TopHalf == (WindowLen \div 2)..(WindowLen - 1)

\* A plausible slip: the window emptied down to a quarter.
SlidTooFar(w) ==
  Slid(w, CHOOSE n \in 0..WindowLen :
            /\ Slid(w, n).seen \subseteq {0}
            /\ \A m \in 0..(n - 1) : ~(Slid(w, m).seen \subseteq {0}))

\* The windows the two while loops stop at: the first that meets the condition.
SlidUntilTopHalfUnseen(w) ==
  Slid(w, CHOOSE n \in 0..WindowLen :
            /\ Slid(w, n).seen \cap TopHalf = {}
            /\ \A m \in 0..(n - 1) : Slid(w, m).seen \cap TopHalf # {})

SlidUntilLowestUnseen(w) ==
  Slid(w, CHOOSE n \in 0..WindowLen :
            /\ 0 \notin Slid(w, n).seen
            /\ \A m \in 0..(n - 1) : 0 \in Slid(w, m).seen)

\* What mark_seen refuses a number for, if it does.
MarkRefusal(w, n) ==
  {e \in {"AlreadyPassed", "OutsideWindow", "AlreadySeen"} :
     \/ e = "AlreadyPassed" /\ n < w.base
     \/ e = "OutsideWindow" /\ w.base <= n /\ ~Covers(w, n)
     \/ e = "AlreadySeen" /\ IsSeen(w, n)}

\* A plausible slip: the window moved until the number leaves its top half,
\* without regard to what it then forgets.
MarkedAndForgotten(w, n) ==
  [base |-> Limit(w, (n - w.base) \div 2), seen |-> {}]

\* mark_seen of a number it does not refuse.
Marked(w, n) ==
  SlidUntilLowestUnseen(SlidUntilTopHalfUnseen([w EXCEPT !.seen = @ \cup {n - w.base}]))

\* Behind the window, or seen in it.
Refuses(w, n) == n < w.base \/ IsSeen(w, n)

\* expected(): an exclusive range, so the topmost number is never in it.
Expected(w) == w.base..(Limit(w, WindowLen) - 1)
=============================================================================
