---------------------------- MODULE WindowProofs ----------------------------
(***************************************************************************)
(* The reordering window, for every length and every width of the numbers: *)
(* what it refuses it goes on refusing, and within half a window of what   *)
(* it was given it takes what comes.                                       *)
(***************************************************************************)
EXTENDS ReorderWindow, WellFoundedInduction, TLAPS

(* A set of natural numbers that is not empty has a least element.         *)
LEMMA LeastExists ==
  \A S : S \subseteq Nat /\ S # {} => \E n \in S : \A m \in S : n <= m
<1> SUFFICES ASSUME NEW S, S \subseteq Nat, S # {}
             PROVE  \E n \in S : \A m \in S : n <= m
  OBVIOUS
<1> DEFINE R == {p \in Nat \X Nat : p[1] < p[2]}
<1>1. IsWellFoundedOn(R, Nat)
  <2>1. R = OpToRel(<, Nat)
    BY Zenon DEF OpToRel
  <2> QED BY <2>1, NatLessThanWellFounded
<1>2. PICK n \in S : \A m \in S : ~ (<<m, n>> \in R)
  <2> HIDE DEF R
  <2> QED BY <1>1, WFMin
<1>3. \A m \in S : n <= m
  <2> SUFFICES ASSUME NEW m \in S PROVE n <= m
    OBVIOUS
  <2>1. m \in Nat /\ n \in Nat /\ ~ (<<m, n>> \in R)
    BY <1>2
  <2> QED BY <2>1
<1> QED BY <1>3

(* A window whose seen numbers all lie below the topmost: sliding it does  *)
(* not saturate.                                                           *)
Clear(w) == w \in Window /\ \A i \in w.seen : w.base + i < Top

(* Sliding moves seen numbers below the base or keeps them seen, and it    *)
(* keeps the window clear.                                                 *)
LEMMA SlidRefuses ==
  ASSUME NEW w, Clear(w), NEW k \in 0..WindowLen, w.base + k <= Top
  PROVE  /\ Clear(Slid(w, k))
         /\ \A m \in Number : Refuses(w, m) => Refuses(Slid(w, k), m)
<1> USE WindowAssumption DEF Clear, Window, Number
<1>1. w.base \in Nat /\ w.seen \subseteq 0..(WindowLen - 1)
  OBVIOUS
<1>2. Slid(w, k).base = w.base + k
  BY <1>1 DEF Slid, Limit
<1>3. Slid(w, k).seen = {i - k : i \in {j \in w.seen : j >= k}}
  BY DEF Slid
<1>4. Clear(Slid(w, k))
  <2>1. Slid(w, k).seen \subseteq 0..(WindowLen - 1)
    BY <1>1, <1>3
  <2>2. \A i \in Slid(w, k).seen : w.base + k + i < Top
    BY <1>1, <1>3
  <2>3. Slid(w, k) \in Window
    BY <1>1, <1>2, <2>1 DEF Slid
  <2> QED BY <1>2, <2>2, <2>3
<1>5. ASSUME NEW m \in Number, Refuses(w, m)
      PROVE  Refuses(Slid(w, k), m)
  <2>1. CASE m < w.base + k
    BY <1>2, <2>1 DEF Refuses
  <2>2. CASE m >= w.base + k
    <3>1. m - w.base \in w.seen /\ m - w.base >= k
      BY <1>1, <1>5, <2>2 DEF Refuses, IsSeen, Covers
    <3>2. m - (w.base + k) = (m - w.base) - k
      BY <1>1
    <3>3. m - (w.base + k) \in Slid(w, k).seen
      BY <1>3, <3>1, <3>2
    <3>4. m - (w.base + k) < WindowLen
      BY <1>1, <3>1
    <3> QED BY <1>2, <2>2, <3>3, <3>4 DEF Refuses, IsSeen, Covers
  <2> QED BY <1>1, <2>1, <2>2
<1> QED BY <1>4, <1>5

(* The loops end: at the latest when the window is empty.                  *)
LEMMA TopHalfLoopStops ==
  ASSUME NEW w, Clear(w)
  PROVE  \E n \in 0..WindowLen : /\ Slid(w, n).seen \cap TopHalf = {}
                                 /\ \A m \in 0..(n - 1) : Slid(w, m).seen \cap TopHalf # {}
<1> DEFINE Steps == {n \in 0..WindowLen : Slid(w, n).seen \cap TopHalf = {}}
<1>1. w.seen \subseteq 0..(WindowLen - 1) /\ WindowLen \in Nat
  BY WindowAssumption DEF Clear, Window
<1>2. WindowLen \in Steps
  <2>1. Slid(w, WindowLen).seen = {}
    BY <1>1 DEF Slid
  <2> QED BY <1>1, <2>1
<1>3. PICK k \in Steps : \A n \in Steps : k <= n
  <2>1. Steps \subseteq Nat /\ Steps # {}
    BY <1>1, <1>2
  <2> HIDE DEF Steps
  <2> QED BY <2>1, LeastExists
<1> QED BY <1>1, <1>3

LEMMA LowestLoopStops ==
  ASSUME NEW w, Clear(w)
  PROVE  \E n \in 0..WindowLen : /\ 0 \notin Slid(w, n).seen
                                 /\ \A m \in 0..(n - 1) : 0 \in Slid(w, m).seen
<1> DEFINE Steps == {n \in 0..WindowLen : 0 \notin Slid(w, n).seen}
<1>1. w.seen \subseteq 0..(WindowLen - 1) /\ WindowLen \in Nat
  BY WindowAssumption DEF Clear, Window
<1>2. WindowLen \in Steps
  <2>1. Slid(w, WindowLen).seen = {}
    BY <1>1 DEF Slid
  <2> QED BY <1>1, <2>1
<1>3. PICK k \in Steps : \A n \in Steps : k <= n
  <2>1. Steps \subseteq Nat /\ Steps # {}
    BY <1>1, <1>2
  <2> HIDE DEF Steps
  <2> QED BY <2>1, LeastExists
<1> QED BY <1>1, <1>3

(* What the loops stop at, and that the window still has room for it: the  *)
(* slide before the last had a seen number to get rid of.                  *)
LEMMA TopHalfLoop ==
  ASSUME NEW w, Clear(w)
  PROVE  /\ Clear(SlidUntilTopHalfUnseen(w))
         /\ SlidUntilTopHalfUnseen(w).seen \cap TopHalf = {}
         /\ \A m \in Number : Refuses(w, m) => Refuses(SlidUntilTopHalfUnseen(w), m)
<1> DEFINE Done(n) == Slid(w, n).seen \cap TopHalf = {}
<1>1. w.base \in Nat /\ w.base <= Top /\ w.seen \subseteq 0..(WindowLen - 1) /\ WindowLen \in Nat
  BY WindowAssumption DEF Clear, Window, Number
<1>2. PICK n \in 0..WindowLen : /\ Done(n) /\ \A m \in 0..(n - 1) : ~Done(m)
                                /\ SlidUntilTopHalfUnseen(w) = Slid(w, n)
  BY TopHalfLoopStops DEF SlidUntilTopHalfUnseen
<1>3. w.base + n <= Top
  <2>1. CASE n = 0
    BY <1>1, <2>1
  <2>2. CASE n # 0
    <3>1. n - 1 \in 0..(n - 1)
      BY <2>2
    <3>2. PICK i \in Slid(w, n - 1).seen : TRUE
      BY <1>2, <3>1
    <3>3. PICK j \in w.seen : j >= n - 1
      BY <3>2 DEF Slid
    <3> QED BY <1>1, <3>3, WindowAssumption DEF Clear
  <2> QED BY <2>1, <2>2
<1> QED BY <1>2, <1>3, SlidRefuses

LEMMA LowestLoop ==
  ASSUME NEW w, Clear(w)
  PROVE  /\ Clear(SlidUntilLowestUnseen(w))
         /\ 0 \notin SlidUntilLowestUnseen(w).seen
         /\ \A m \in Number : Refuses(w, m) => Refuses(SlidUntilLowestUnseen(w), m)
<1> DEFINE Done(n) == 0 \notin Slid(w, n).seen
<1>1. w.base \in Nat /\ w.base <= Top /\ w.seen \subseteq 0..(WindowLen - 1) /\ WindowLen \in Nat
  BY WindowAssumption DEF Clear, Window, Number
<1>2. PICK n \in 0..WindowLen : /\ Done(n) /\ \A m \in 0..(n - 1) : ~Done(m)
                                /\ SlidUntilLowestUnseen(w) = Slid(w, n)
  BY LowestLoopStops DEF SlidUntilLowestUnseen
<1>3. w.base + n <= Top
  <2>1. CASE n = 0
    BY <1>1, <2>1
  <2>2. CASE n # 0
    <3>1. 0 \in Slid(w, n - 1).seen
      BY <1>2, <2>2
    <3>2. PICK j \in w.seen : j >= n - 1
      BY <3>1 DEF Slid
    <3> QED BY <1>1, <3>2, WindowAssumption DEF Clear
  <2> QED BY <2>1, <2>2
<1> QED BY <1>2, <1>3, SlidRefuses

(* Marking a number the window takes leaves a settled window that refuses  *)
(* it and all it refused before.                                           *)
LEMMA MarkedRefuses ==
  ASSUME NEW w, Clear(w), NEW n \in Number, n \in Expected(w), MarkRefusal(w, n) = {}
  PROVE  /\ ~Refuses(w, n)
         /\ Clear(Marked(w, n))
         /\ 0 \notin Marked(w, n).seen
         /\ Refuses(Marked(w, n), n)
         /\ \A m \in Number : Refuses(w, m) => Refuses(Marked(w, n), m)
<1> DEFINE bit == [w EXCEPT !.seen = w.seen \cup {n - w.base}]
<1>1. /\ w.base \in Nat /\ w.seen \subseteq 0..(WindowLen - 1) /\ WindowLen \in Nat
      /\ n \in Nat /\ n < Top /\ w.base <= n
  BY WindowAssumption DEF Clear, Window, Number, Expected, Limit
<1>2. Covers(w, n) /\ ~IsSeen(w, n) /\ ~ (n < w.base)
  <2>1. /\ "AlreadyPassed" \notin MarkRefusal(w, n)
        /\ "OutsideWindow" \notin MarkRefusal(w, n)
        /\ "AlreadySeen" \notin MarkRefusal(w, n)
    OBVIOUS
  <2> QED BY <1>1, <2>1 DEF MarkRefusal
<1>3. bit.base = w.base /\ bit.seen = w.seen \cup {n - w.base}
  BY DEF Clear, Window
<1>4. Clear(bit)
  <2>1. n - w.base \in 0..(WindowLen - 1)
    BY <1>1, <1>2 DEF Covers
  <2>2. bit \in Window
    BY <2>1 DEF Clear, Window
  <2> QED BY <1>1, <1>3, <2>2 DEF Clear
<1>5. \A m \in Number : Refuses(w, m) \/ m = n => Refuses(bit, m)
  BY <1>1, <1>2, <1>3 DEF Refuses, IsSeen, Covers
<1>6. Marked(w, n) = SlidUntilLowestUnseen(SlidUntilTopHalfUnseen(bit))
  BY DEF Marked
<1> HIDE DEF bit
<1>7. /\ Clear(SlidUntilTopHalfUnseen(bit))
      /\ \A m \in Number : Refuses(bit, m) => Refuses(SlidUntilTopHalfUnseen(bit), m)
  BY <1>4, TopHalfLoop
<1>8. /\ Clear(Marked(w, n)) /\ 0 \notin Marked(w, n).seen
      /\ \A m \in Number : Refuses(SlidUntilTopHalfUnseen(bit), m) => Refuses(Marked(w, n), m)
  BY <1>6, <1>7, LowestLoop
<1> QED BY <1>2, <1>5, <1>7, <1>8 DEF Refuses

-----------------------------------------------------------------------------
(* How far the window reaches. *)

Half == WindowLen \div 2

LEMMA HalfType == Half \in Nat /\ Half >= 1 /\ Half + Half = WindowLen
BY WindowAssumption DEF Half

\* Nothing is seen in the upper half, as mark_seen leaves a window.
Settled(w) == \A i \in w.seen : i < Half

(* What a slide within the numbers leaves seen.                            *)
LEMMA SlidSeen ==
  ASSUME NEW w, Clear(w), NEW k \in 0..WindowLen, w.base + k <= Top, NEW m \in Number
  PROVE  /\ Slid(w, k).base = w.base + k
         /\ IsSeen(Slid(w, k), m) <=> IsSeen(w, m) /\ w.base + k <= m
<1> USE WindowAssumption DEF Clear, Window, Number
<1>1. w.base \in Nat /\ w.seen \subseteq 0..(WindowLen - 1) /\ m \in Nat /\ k \in Nat
  OBVIOUS
<1>2. Slid(w, k).base = w.base + k
  BY <1>1 DEF Slid, Limit
<1>3. Slid(w, k).seen = {i - k : i \in {j \in w.seen : j >= k}}
  BY DEF Slid
<1>4. ASSUME IsSeen(Slid(w, k), m) PROVE IsSeen(w, m) /\ w.base + k <= m
  <2>1. w.base + k <= m /\ m - (w.base + k) \in Slid(w, k).seen
    BY <1>2, <1>4 DEF IsSeen, Covers
  <2>2. PICK i \in w.seen : m - (w.base + k) = i - k
    BY <1>3, <2>1
  <2>3. i \in 0..(WindowLen - 1) /\ m - w.base = i
    BY <1>1, <2>2
  <2> QED BY <1>1, <2>1, <2>2, <2>3 DEF IsSeen, Covers
<1>5. ASSUME IsSeen(w, m), w.base + k <= m PROVE IsSeen(Slid(w, k), m)
  <2>1. m - w.base \in w.seen /\ m - w.base >= k /\ m - w.base < WindowLen
    BY <1>1, <1>5 DEF IsSeen, Covers
  <2>2. m - (w.base + k) = (m - w.base) - k
    BY <1>1
  <2>3. m - (w.base + k) \in Slid(w, k).seen
    BY <1>3, <2>1, <2>2
  <2> QED BY <1>1, <1>2, <1>5, <2>1, <2>3 DEF IsSeen, Covers
<1> QED BY <1>2, <1>4, <1>5

(* The first loop moves the base no further than half a window below what  *)
(* is seen.                                                                *)
LEMMA TopHalfReach ==
  ASSUME NEW w, Clear(w)
  PROVE  LET v == SlidUntilTopHalfUnseen(w) IN
         /\ v.base \in Nat /\ w.base <= v.base
         /\ \A m \in Number : IsSeen(v, m) <=> IsSeen(w, m) /\ v.base <= m
         /\ v.base = w.base
              \/ \E m \in Number : IsSeen(w, m) /\ v.base + Half <= m + 1
<1> DEFINE Done(n) == Slid(w, n).seen \cap TopHalf = {}
<1>1. w.base \in Nat /\ w.base <= Top /\ w.seen \subseteq 0..(WindowLen - 1) /\ WindowLen \in Nat
  BY WindowAssumption DEF Clear, Window, Number
<1>2. PICK n \in 0..WindowLen : /\ Done(n) /\ \A m \in 0..(n - 1) : ~Done(m)
                                /\ SlidUntilTopHalfUnseen(w) = Slid(w, n)
  BY TopHalfLoopStops DEF SlidUntilTopHalfUnseen
<1>3. CASE n = 0
  <2>1. w.base + n <= Top /\ w.base + n = w.base /\ 0 \in Number
    BY <1>1, <1>3, WindowAssumption DEF Number
  <2>2. /\ Slid(w, n).base = w.base + n
        /\ \A m \in Number : IsSeen(Slid(w, n), m) <=> IsSeen(w, m) /\ w.base + n <= m
    BY <2>1, SlidSeen
  <2> QED BY <1>1, <1>2, <2>1, <2>2
<1>4. CASE n # 0
  <2>1. n \in Nat /\ n - 1 \in 0..(n - 1)
    BY <1>1, <1>4
  <2>2. PICK i \in Slid(w, n - 1).seen : i \in TopHalf
    BY <1>2, <2>1
  <2>3. PICK j \in w.seen : j >= n - 1 /\ i = j - (n - 1)
    BY <2>2 DEF Slid
  <2>4. j \in Nat /\ j < WindowLen /\ w.base + j < Top /\ Half <= i
    BY <1>1, <2>2, <2>3 DEF Clear, TopHalf, Half
  <2>5. w.base + n <= Top
    BY <1>1, <2>1, <2>3, <2>4, WindowAssumption
  <2>6. w.base + j \in Number /\ IsSeen(w, w.base + j)
    BY <1>1, <2>3, <2>4, WindowAssumption DEF Number, IsSeen, Covers
  <2>7. w.base + n + Half <= w.base + j + 1
    BY <1>1, <2>3, <2>4, HalfType
  <2>8. /\ Slid(w, n).base = w.base + n
        /\ \A m \in Number : IsSeen(Slid(w, n), m) <=> IsSeen(w, m) /\ w.base + n <= m
    BY <2>5, <2>6, SlidSeen
  <2> QED BY <1>1, <1>2, <2>6, <2>7, <2>8
<1> QED BY <1>3, <1>4

(* The second loop moves the base past numbers that are seen.              *)
LEMMA LowestReach ==
  ASSUME NEW w, Clear(w)
  PROVE  LET v == SlidUntilLowestUnseen(w) IN
         /\ v.base \in Nat /\ w.base <= v.base
         /\ \A m \in Number : IsSeen(v, m) <=> IsSeen(w, m) /\ v.base <= m
         /\ \A m \in Number : w.base <= m /\ m < v.base => IsSeen(w, m)
<1> DEFINE Done(n) == 0 \notin Slid(w, n).seen
<1>1. w.base \in Nat /\ w.base <= Top /\ w.seen \subseteq 0..(WindowLen - 1) /\ WindowLen \in Nat
  BY WindowAssumption DEF Clear, Window, Number
<1>2. PICK n \in 0..WindowLen : /\ Done(n) /\ \A m \in 0..(n - 1) : ~Done(m)
                                /\ SlidUntilLowestUnseen(w) = Slid(w, n)
  BY LowestLoopStops DEF SlidUntilLowestUnseen
<1>3. ASSUME NEW i \in 0..(n - 1) PROVE i \in w.seen
  <2>1. 0 \in Slid(w, i).seen
    BY <1>2, <1>3
  <2>2. PICK j \in w.seen : j >= i /\ 0 = j - i
    BY <2>1 DEF Slid
  <2> QED BY <1>1, <2>2
<1>4. w.base + n <= Top
  <2>1. CASE n = 0
    BY <1>1, <2>1
  <2>2. CASE n # 0
    <3>1. n - 1 \in w.seen
      BY <1>3, <2>2
    <3> QED BY <1>1, <3>1, WindowAssumption DEF Clear
  <2> QED BY <2>1, <2>2
<1>5. 0 \in Number
  BY WindowAssumption DEF Number
<1>6. /\ Slid(w, n).base = w.base + n
      /\ \A m \in Number : IsSeen(Slid(w, n), m) <=> IsSeen(w, m) /\ w.base + n <= m
  BY <1>4, <1>5, SlidSeen
<1>7. ASSUME NEW m \in Number, w.base <= m, m < w.base + n PROVE IsSeen(w, m)
  <2>1. m - w.base \in 0..(n - 1)
    BY <1>1, <1>7 DEF Number
  <2>2. m - w.base \in w.seen
    BY <1>3, <2>1
  <2> QED BY <1>1, <1>7, <2>2 DEF IsSeen, Covers, Number
<1> QED BY <1>1, <1>2, <1>6, <1>7

(* mark_seen leaves a window whose lower half reaches beyond the number it *)
(* marked, in which nothing else is newly seen, and which has left behind  *)
(* only what was seen or is half a window or more below that number.       *)
LEMMA MarkedReach ==
  ASSUME NEW w, Clear(w), Settled(w),
         NEW n \in Number, n \in Expected(w), MarkRefusal(w, n) = {}
  PROVE  LET v == Marked(w, n) IN
         /\ v.base \in Nat /\ w.base <= v.base /\ Settled(v)
         /\ n < v.base + Half
         /\ \A m \in Number : IsSeen(v, m) => IsSeen(w, m) \/ m = n
         /\ \A m \in Number : m < v.base =>
              m < w.base \/ IsSeen(w, m) \/ m = n \/ m + Half <= n
<1> DEFINE bit == [w EXCEPT !.seen = w.seen \cup {n - w.base}]
           mid == SlidUntilTopHalfUnseen(bit)
           v == SlidUntilLowestUnseen(mid)
<1>1. /\ w.base \in Nat /\ w.seen \subseteq 0..(WindowLen - 1) /\ WindowLen \in Nat
      /\ n \in Nat /\ n < Top /\ w.base <= n
  BY WindowAssumption DEF Clear, Window, Number, Expected, Limit
<1>2. Covers(w, n)
  <2>1. "OutsideWindow" \notin MarkRefusal(w, n)
    OBVIOUS
  <2> QED BY <1>1, <2>1 DEF MarkRefusal
<1>3. bit.base = w.base /\ bit.seen = w.seen \cup {n - w.base}
  BY DEF Clear, Window
<1>4. Clear(bit)
  <2>1. n - w.base \in 0..(WindowLen - 1)
    BY <1>1, <1>2 DEF Covers
  <2>2. bit \in Window
    BY <2>1 DEF Clear, Window
  <2> QED BY <1>1, <1>3, <2>2 DEF Clear
<1>5. Marked(w, n) = v
  BY DEF Marked
<1>6. \A m \in Number : IsSeen(bit, m) <=> IsSeen(w, m) \/ m = n
  BY <1>1, <1>2, <1>3 DEF IsSeen, Covers, Number
<1> HIDE DEF bit
<1>7. /\ mid.base \in Nat /\ bit.base <= mid.base
      /\ \A m \in Number : IsSeen(mid, m) <=> IsSeen(bit, m) /\ mid.base <= m
      /\ mid.base = bit.base \/ \E m \in Number : IsSeen(bit, m) /\ mid.base + Half <= m + 1
      /\ Clear(mid) /\ mid.seen \cap TopHalf = {}
  BY <1>4, TopHalfReach, TopHalfLoop
<1> HIDE DEF mid
<1>8. /\ v.base \in Nat /\ mid.base <= v.base
      /\ \A m \in Number : IsSeen(v, m) <=> IsSeen(mid, m) /\ v.base <= m
      /\ \A m \in Number : mid.base <= m /\ m < v.base => IsSeen(mid, m)
      /\ Clear(v)
  BY <1>7, LowestReach, LowestLoop
<1> HIDE DEF v
<1>9. \A m \in Number : IsSeen(mid, m) => m < mid.base + Half
  <2> SUFFICES ASSUME NEW m \in Number, IsSeen(mid, m), ~(m < mid.base + Half) PROVE FALSE
    OBVIOUS
  <2>1. m - mid.base \in mid.seen /\ m \in Nat
    BY DEF IsSeen, Number
  <2>2. m - mid.base \in 0..(WindowLen - 1)
    BY <1>7, <2>1 DEF Clear, Window
  <2>3. m - mid.base \in TopHalf
    BY <1>7, <2>1, <2>2, HalfType DEF TopHalf, Half
  <2> QED BY <1>7, <2>1, <2>3
<1>10. Settled(v)
  <2> SUFFICES ASSUME NEW i \in v.seen PROVE i < Half
    BY DEF Settled
  <2>1. i \in 0..(WindowLen - 1) /\ v.base + i < Top /\ WindowLen \in Nat
    BY <1>1, <1>8 DEF Clear, Window
  <2>2. v.base + i \in Number /\ IsSeen(v, v.base + i)
    BY <1>8, <2>1, WindowAssumption DEF Number, IsSeen, Covers
  <2>3. v.base + i < mid.base + Half
    BY <1>8, <1>9, <2>2
  <2> QED BY <1>7, <1>8, <2>1, <2>3, HalfType
<1>11. n < v.base + Half
  <2>1. CASE n < mid.base
    BY <1>1, <1>7, <1>8, <2>1, HalfType
  <2>2. CASE mid.base <= n
    <3>1. n < mid.base + Half
      BY <1>6, <1>7, <1>9, <2>2
    <3> QED BY <1>1, <1>7, <1>8, <3>1, HalfType
  <2> QED BY <1>1, <1>7, <2>1, <2>2
<1>12. ASSUME NEW m \in Number, m < v.base
       PROVE  m < w.base \/ IsSeen(w, m) \/ m = n \/ m + Half <= n
  <2>0. m \in Nat
    BY DEF Number
  <2>1. CASE mid.base <= m
    BY <1>6, <1>7, <1>8, <1>12, <2>1
  <2>2. CASE m < mid.base /\ mid.base # bit.base
    <3>1. PICK s \in Number : IsSeen(bit, s) /\ mid.base + Half <= s + 1
      BY <1>7, <2>2
    <3>2. s \in Nat
      BY DEF Number
    <3>3. CASE s = n
      BY <1>1, <1>7, <2>0, <2>2, <3>1, <3>3, HalfType
    <3>4. CASE s # n
      <4>1. s - w.base \in w.seen
        BY <1>6, <3>1, <3>4 DEF IsSeen
      <4>2. s < w.base + Half
        BY <1>1, <3>2, <4>1, HalfType DEF Settled
      <4> QED BY <1>1, <1>3, <1>7, <2>2, <3>1, <3>2, <4>2, HalfType
    <3> QED BY <3>3, <3>4
  <2>3. CASE m < mid.base /\ mid.base = bit.base
    BY <1>3, <2>3
  <2> QED BY <1>7, <2>0, <2>1, <2>2, <2>3
<1> QED BY <1>1, <1>3, <1>5, <1>6, <1>7, <1>8, <1>10, <1>11, <1>12

-----------------------------------------------------------------------------
(* What a window knows of the numbers R that were marked in it: it has     *)
(* seen no other, it reaches half a window beyond each, and of what it has *)
(* left behind each is one of them or half a window below one.             *)
Tracks(w, R) ==
  /\ R \subseteq Number
  /\ Clear(w) /\ Settled(w)
  /\ \A m \in Number : IsSeen(w, m) => m \in R
  /\ \A m \in R : m < w.base + Half
  /\ \A m \in Number : m < w.base => m \in R \/ \E r \in R : m + Half <= r

LEMMA NewWindowTracks == Tracks(NewWindow, {})
<1>1. NewWindow.base = 0 /\ NewWindow.seen = {} /\ Clear(NewWindow)
  BY WindowAssumption DEF Clear, NewWindow, Window, Number
<1> QED BY <1>1 DEF Tracks, Settled, IsSeen, Number

LEMMA MarkedTracks ==
  ASSUME NEW w, NEW R, Tracks(w, R),
         NEW n \in Number, n \in Expected(w), MarkRefusal(w, n) = {}
  PROVE  Tracks(Marked(w, n), R \cup {n})
<1> DEFINE v == Marked(w, n)
<1>1. Clear(w) /\ Settled(w) /\ w.base \in Nat
  BY DEF Tracks, Clear, Window, Number
<1>2. Clear(v)
  BY <1>1, MarkedRefuses
<1>3. /\ v.base \in Nat /\ w.base <= v.base /\ Settled(v)
      /\ n < v.base + Half
      /\ \A m \in Number : IsSeen(v, m) => IsSeen(w, m) \/ m = n
      /\ \A m \in Number : m < v.base =>
           m < w.base \/ IsSeen(w, m) \/ m = n \/ m + Half <= n
  BY <1>1, MarkedReach
<1> HIDE DEF v
<1>4. \A m \in R \cup {n} : m < v.base + Half
  BY <1>1, <1>3, HalfType DEF Tracks, Number
<1>5. \A m \in Number : m < v.base =>
        m \in R \cup {n} \/ \E r \in R \cup {n} : m + Half <= r
  BY <1>3 DEF Tracks
<1> QED BY <1>2, <1>3, <1>4, <1>5 DEF Tracks, v

(* Such a window takes a number it was not given yet, if it is within half *)
(* a window of those it was given.                                         *)
LEMMA TracksTakes ==
  ASSUME NEW w, NEW R, Tracks(w, R), NEW n \in Number, n \notin R, n < Top,
         \A r \in R : r < n + Half,
         n < WindowLen \/ \E r \in R : n <= r + Half
  PROVE  n \in Expected(w) /\ MarkRefusal(w, n) = {}
<1>1. w.base \in Nat /\ n \in Nat /\ WindowLen \in Nat /\ Top \in Nat
  BY WindowAssumption DEF Tracks, Clear, Window, Number
<1>2. w.base <= n
  <2> SUFFICES ASSUME n < w.base PROVE FALSE
    BY <1>1
  <2>1. PICK r \in R : n + Half <= r
    BY DEF Tracks
  <2>2. r \in Nat /\ r < n + Half
    BY DEF Tracks, Number
  <2> QED BY <1>1, <2>1, <2>2, HalfType
<1>3. n - w.base < WindowLen
  <2>1. CASE n < WindowLen
    BY <1>1, <2>1
  <2>2. CASE \E r \in R : n <= r + Half
    <3>1. PICK r \in R : n <= r + Half
      BY <2>2
    <3>2. r \in Nat /\ r < w.base + Half
      BY DEF Tracks, Number
    <3> QED BY <1>1, <3>1, <3>2, HalfType
  <2> QED BY <2>1, <2>2
<1>4. n \in Expected(w)
  BY <1>1, <1>2, <1>3 DEF Expected, Limit
<1>5. MarkRefusal(w, n) = {}
  BY <1>1, <1>2, <1>3 DEF MarkRefusal, Covers, Tracks
<1> QED BY <1>4, <1>5
=============================================================================
