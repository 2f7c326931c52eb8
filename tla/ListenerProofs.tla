--------------------------- MODULE ListenerProofs ----------------------------
(***************************************************************************)
(* Theorems about Listener and the Estimator in it, for buffers of every    *)
(* size, every tree of frames and every motion of robot and frames.         *)
(***************************************************************************)
EXTENDS Listener, PlanarTransformsProofs, SequenceTheorems, NaturalsInduction,
        WellFoundedInduction, FiniteSetTheorems, TLAPS

-----------------------------------------------------------------------------
(* The Estimator by itself.                                                 *)

(* A piece of a sequence. *)
LEMMA Piece ==
  ASSUME NEW S, NEW b \in Seq(S), NEW m \in 1..Len(b) + 1, NEW n \in 0..Len(b)
  PROVE  LET p == SubSeq(b, m, n)
         IN /\ p \in Seq(S)
            /\ Len(p) = IF m <= n THEN n - m + 1 ELSE 0
            /\ \A k \in DOMAIN p : k + m - 1 \in m..n /\ p[k] = b[k + m - 1]
            /\ \A x \in Range(p) : \E j \in m..n : x = b[j]
            /\ \A j \in m..n : b[j] \in Range(p)
<1> DEFINE p == SubSeq(b, m, n)
<1>1. /\ p \in Seq(S)
      /\ Len(p) = IF m <= n THEN n - m + 1 ELSE 0
      /\ \A k \in 1..(n - m + 1) : p[k] = b[m + k - 1]
  BY SubSeqProperties
<1> HIDE DEF p
<1>2. DOMAIN p = 1..Len(p)
  BY <1>1
<1>3. \A k \in DOMAIN p : k + m - 1 \in m..n /\ p[k] = b[k + m - 1]
  BY <1>1, <1>2
<1>4. \A x \in Range(p) : \E j \in m..n : x = b[j]
  BY <1>3 DEF Range
<1>5. ASSUME NEW j \in m..n
      PROVE  b[j] \in Range(p)
  <2>1. j - m + 1 \in DOMAIN p /\ m + (j - m + 1) - 1 = j
    BY <1>1, <1>2
  <2>2. p[j - m + 1] = b[m + (j - m + 1) - 1]
    BY <1>1, <1>2, <2>1
  <2> QED  BY <2>1, <2>2 DEF Range
<1> QED  BY <1>1, <1>3, <1>4, <1>5 DEF p

LEMMA PieceRange ==
  ASSUME NEW S, NEW b \in Seq(S), NEW m \in 1..Len(b) + 1, NEW n \in 0..Len(b)
  PROVE  Range(SubSeq(b, m, n)) = {b[j] : j \in m..n}
<1> DEFINE p == SubSeq(b, m, n)
<1>1. /\ \A x \in Range(p) : \E j \in m..n : x = b[j]
      /\ \A j \in m..n : b[j] \in Range(p)
  BY Piece
<1> HIDE DEF p
<1>2. Range(p) = {b[j] : j \in m..n}
  BY <1>1
<1> QED  BY <1>2 DEF p

(* Two sequences put together. *)
LEMMA Together ==
  ASSUME NEW S, NEW a \in Seq(S), NEW c \in Seq(S)
  PROVE  /\ a \o c \in Seq(S)
         /\ Len(a \o c) = Len(a) + Len(c)
         /\ Range(a \o c) = Range(a) \cup Range(c)
         /\ \A k \in DOMAIN (a \o c) :
              \/ k \in DOMAIN a /\ (a \o c)[k] = a[k]
              \/ /\ k \notin DOMAIN a
                 /\ k - Len(a) \in DOMAIN c /\ (a \o c)[k] = c[k - Len(a)]
<1> DEFINE t == a \o c
<1>1. /\ t \in Seq(S) /\ Len(t) = Len(a) + Len(c)
      /\ \A k \in 1..Len(t) : t[k] = IF k <= Len(a) THEN a[k] ELSE c[k - Len(a)]
  BY ConcatProperties
<1>2. DOMAIN a = 1..Len(a) /\ DOMAIN c = 1..Len(c) /\ DOMAIN t = 1..Len(t)
        /\ Len(a) \in Nat /\ Len(c) \in Nat
  BY <1>1
<1> HIDE DEF t
<1>3. \A k \in DOMAIN t :
        \/ k \in DOMAIN a /\ t[k] = a[k]
        \/ k \notin DOMAIN a /\ k - Len(a) \in DOMAIN c /\ t[k] = c[k - Len(a)]
  BY <1>1, <1>2
<1>4. Range(t) \subseteq Range(a) \cup Range(c)
  BY <1>3 DEF Range
<1>5. Range(a) \subseteq Range(t)
  BY <1>1, <1>2 DEF Range
<1>6. Range(c) \subseteq Range(t)
  <2>1. ASSUME NEW k \in DOMAIN c
        PROVE  k + Len(a) \in DOMAIN t /\ t[k + Len(a)] = c[k]
    <3>1. k + Len(a) \in 1..Len(t) /\ ~(k + Len(a) <= Len(a)) /\ (k + Len(a)) - Len(a) = k
      BY <1>1, <1>2
    <3> QED  BY <1>1, <1>2, <3>1
  <2> QED  BY <2>1 DEF Range
<1> QED  BY <1>1, <1>3, <1>4, <1>5, <1>6 DEF t

(* A sequence of one element. *)
LEMMA Single ==
  ASSUME NEW S, NEW x \in S
  PROVE  <<x>> \in Seq(S) /\ Len(<<x>>) = 1 /\ Range(<<x>>) = {x}
<1>1. <<x>> \in Seq(S) /\ Len(<<x>>) = 1 /\ DOMAIN <<x>> = {1} /\ <<x>>[1] = x
  OBVIOUS
<1> QED  BY <1>1 DEF Range

-----------------------------------------------------------------------------
(* Order.                                                                  *)

Ordered(b) == \A i, j \in DOMAIN b : i < j => b[i].time <= b[j].time

LEMMA OrderedPiece ==
  ASSUME NEW S, NEW b \in Seq(S), Ordered(b),
         NEW m \in 1..Len(b) + 1, NEW n \in 0..Len(b)
  PROVE  Ordered(SubSeq(b, m, n))
<1> DEFINE p == SubSeq(b, m, n)
<1>1. /\ p \in Seq(S)
      /\ \A k \in DOMAIN p : k + m - 1 \in m..n /\ p[k] = b[k + m - 1]
  BY Piece
<1> HIDE DEF p
<1>2. ASSUME NEW k \in DOMAIN p, NEW l \in DOMAIN p, k < l
      PROVE  p[k].time <= p[l].time
  <2>1. k \in Nat /\ l \in Nat /\ m \in Nat /\ n \in Nat
    BY <1>1
  <2>2. k + m - 1 \in DOMAIN b /\ l + m - 1 \in DOMAIN b /\ k + m - 1 < l + m - 1
    BY <1>1, <1>2, <2>1
  <2> QED  BY <1>1, <2>2 DEF Ordered
<1> QED  BY <1>2 DEF Ordered, p

LEMMA OrderedTogether ==
  ASSUME NEW S, NEW a \in Seq(S), NEW c \in Seq(S), Ordered(a), Ordered(c),
         \A x \in Range(a), y \in Range(c) : x.time <= y.time
  PROVE  Ordered(a \o c)
<1> DEFINE t == a \o c
<1>1. \A k \in DOMAIN t :
        \/ k \in DOMAIN a /\ t[k] = a[k]
        \/ /\ k \notin DOMAIN a
           /\ k - Len(a) \in DOMAIN c /\ t[k] = c[k - Len(a)]
  BY Together
<1>2. t \in Seq(S)
  BY Together
<1> HIDE DEF t
<1>3. ASSUME NEW k \in DOMAIN t, NEW l \in DOMAIN t, k < l
      PROVE  t[k].time <= t[l].time
  <2>1. k \in Nat /\ l \in Nat /\ Len(a) \in Nat /\ DOMAIN a = 1..Len(a)
          /\ k > 0 /\ l > 0
    BY <1>2
  <2>2. CASE k \in DOMAIN a /\ l \in DOMAIN a
    BY <1>1, <1>3, <2>2 DEF Ordered
  <2>3. CASE k \in DOMAIN a /\ l \notin DOMAIN a
    <3>1. t[k] \in Range(a) /\ t[l] \in Range(c)
      BY <1>1, <2>3 DEF Range
    <3> QED  BY <3>1
  <2>4. CASE k \notin DOMAIN a
    <3>1. l \notin DOMAIN a
      BY <1>3, <2>1, <2>4
    <3>2. /\ k - Len(a) \in DOMAIN c /\ t[k] = c[k - Len(a)]
          /\ l - Len(a) \in DOMAIN c /\ t[l] = c[l - Len(a)]
      BY <1>1, <2>4, <3>1
    <3>3. k - Len(a) < l - Len(a)
      BY <1>3, <2>1
    <3> QED  BY <3>2, <3>3 DEF Ordered
  <2> QED  BY <2>2, <2>3, <2>4
<1> QED  BY <1>3 DEF Ordered, t

-----------------------------------------------------------------------------
(* The least of a set of numbers, and the greatest of a bounded one.       *)

LEMMA Least ==
  ASSUME NEW T, T \subseteq Nat, T # {}
  PROVE  \E x \in T : \A y \in T : x <= y
<1> DEFINE R == {ss \in Nat \X Nat : ss[1] < ss[2]}
<1>1. IsWellFoundedOn(R, Nat)
  BY NatLessThanWellFounded DEF OpToRel
<1>2. \A m, n \in Nat : n < m => <<n, m>> \in R
  OBVIOUS
<1> HIDE DEF R
<1>3. PICK x \in T : \A y \in T : ~(<<y, x>> \in R)
  BY <1>1, WFMin
<1>4. ASSUME NEW y \in T
      PROVE  x <= y
  <2>1. x \in Nat /\ y \in Nat
    OBVIOUS
  <2>2. y < x => <<y, x>> \in R
    BY <1>2, <2>1
  <2>3. ~(y < x)
    BY <1>3, <2>2
  <2> QED  BY <2>1, <2>3
<1> QED  BY <1>4

LEMMA Greatest ==
  ASSUME NEW n \in Nat, NEW T, T \subseteq 1..n, T # {}
  PROVE  \E x \in T : \A y \in T : y <= x
<1> DEFINE D == {n - j : j \in T}
<1>1. D \subseteq Nat
  OBVIOUS
<1>2. \A j \in T : n - j \in D
  OBVIOUS
<1>3. \A d \in D : \E j \in T : d = n - j
  OBVIOUS
<1> HIDE DEF D
<1>4. PICK d \in D : \A e \in D : d <= e
  <2>1. D # {}
    BY <1>2
  <2> QED  BY <1>1, <2>1, Least
<1>5. PICK x \in T : d = n - x
  BY <1>3
<1>6. ASSUME NEW y \in T
      PROVE  y <= x
  <2>1. n - x <= n - y
    BY <1>2, <1>4, <1>5
  <2>2. x \in Int /\ y \in Int
    OBVIOUS
  <2> QED  BY <2>1, <2>2
<1> QED  BY <1>6

-----------------------------------------------------------------------------
(* What the ring buffer does with one more state.                          *)

LEMMA StateTimes ==
  /\ \A s \in EstimatorState : s.time \in Nat
  /\ Times \subseteq Nat /\ Capacities \subseteq Nat
BY BoundsAssumption, CapacityAssumption DEF EstimatorState, Times

(* Only the first element of a full buffer makes room for another. *)
OneMore(b, s) ==
  /\ b \in Seq(EstimatorState)
  /\ Len(b) = IF Full THEN Len(stateBuffer) ELSE Len(stateBuffer) + 1
  /\ Ordered(b)
  /\ s \in Range(b)
  /\ Range(b) \subseteq Range(stateBuffer) \cup {s}
  /\ \A j \in 1..Len(stateBuffer) : stateBuffer[j] \in Range(b) \/ (Full /\ j = 1)
  /\ Full => stateBuffer # <<>> /\ stateBuffer[1].time <= s.time

LEMMA InsertOneMore ==
  ASSUME TypeOK, Ordered(stateBuffer), NEW s \in EstimatorState,
         NEW i \in DOMAIN stateBuffer, Place(i, s), ~(Full /\ i = 1)
  PROVE  OneMore(Insert(i, s), s)
<1> DEFINE n == Len(stateBuffer)
           before == SubSeq(stateBuffer, Room, i - 1)
           after == SubSeq(stateBuffer, i, n)
           upTo == before \o <<s>>
<1>1. /\ stateBuffer \in Seq(EstimatorState)
      /\ n \in Nat /\ i \in 1..n /\ Room \in 1..2 /\ Room <= i
      /\ (Room = 2 <=> Full)
      /\ Room \in 1..n + 1 /\ i - 1 \in 0..n /\ i \in 1..n + 1 /\ n \in 0..n
  BY DEF TypeOK, Room
<1>2. /\ \A j \in 1..(i - 1) : stateBuffer[j].time <= s.time
      /\ \A j \in i..n : s.time <= stateBuffer[j].time
  <2>1. /\ \A j \in 1..(i - 1) : stateBuffer[j].time <= s.time
        /\ s.time < stateBuffer[i].time
    BY DEF Place
  <2>2. ASSUME NEW j \in i..n
        PROVE  s.time <= stateBuffer[j].time
    <3>1. /\ j \in DOMAIN stateBuffer /\ s.time \in Nat
          /\ stateBuffer[i].time \in Nat /\ stateBuffer[j].time \in Nat
      BY <1>1, StateTimes
    <3>2. stateBuffer[i].time <= stateBuffer[j].time
      BY <1>1, <3>1 DEF Ordered
    <3> QED  BY <2>1, <3>1, <3>2
  <2> QED  BY <2>1, <2>2
<1>3. /\ before \in Seq(EstimatorState)
      /\ Len(before) = i - Room
      /\ \A x \in Range(before) : \E j \in Room..(i - 1) : x = stateBuffer[j]
      /\ \A j \in Room..(i - 1) : stateBuffer[j] \in Range(before)
  <2>1. Len(before) = IF Room <= i - 1 THEN (i - 1) - Room + 1 ELSE 0
    BY <1>1, Piece
  <2>2. /\ before \in Seq(EstimatorState)
        /\ \A x \in Range(before) : \E j \in Room..(i - 1) : x = stateBuffer[j]
        /\ \A j \in Room..(i - 1) : stateBuffer[j] \in Range(before)
    BY <1>1, Piece
  <2>3. Len(before) = i - Room
    BY <1>1, <2>1
  <2> QED  BY <2>2, <2>3
<1>3a. Ordered(before)
  BY <1>1, OrderedPiece
<1>4. /\ after \in Seq(EstimatorState)
      /\ Len(after) = n - i + 1
      /\ \A x \in Range(after) : \E j \in i..n : x = stateBuffer[j]
      /\ \A j \in i..n : stateBuffer[j] \in Range(after)
  <2>1. Len(after) = IF i <= n THEN n - i + 1 ELSE 0
    BY <1>1, Piece
  <2>2. after \in Seq(EstimatorState)
    BY <1>1, Piece
  <2>3. Range(after) = {stateBuffer[j] : j \in i..n}
    BY <1>1, PieceRange
  <2>4. Len(after) = n - i + 1
    BY <1>1, <2>1
  <2> HIDE DEF after
  <2> QED  BY <2>2, <2>3, <2>4
<1>4a. Ordered(after)
  BY <1>1, OrderedPiece
<1>5. Insert(i, s) = upTo \o after
  BY DEF Insert
<1> HIDE DEF before, after
<1>6. /\ <<s>> \in Seq(EstimatorState) /\ Len(<<s>>) = 1 /\ Range(<<s>>) = {s}
      /\ Ordered(<<s>>)
  BY Single DEF Ordered
<1>7. \A x \in Range(before) : x.time <= s.time
  BY <1>1, <1>2, <1>3
<1>8. /\ upTo \in Seq(EstimatorState)
      /\ Len(upTo) = i - Room + 1
      /\ Range(upTo) = Range(before) \cup {s}
      /\ Ordered(upTo)
  <2>1. /\ upTo \in Seq(EstimatorState)
        /\ Len(upTo) = Len(before) + Len(<<s>>)
        /\ Range(upTo) = Range(before) \cup Range(<<s>>)
    BY <1>3, <1>6, Together
  <2>2. \A x \in Range(before), y \in Range(<<s>>) : x.time <= y.time
    BY <1>6, <1>7
  <2>3. Ordered(upTo)
    BY <1>3, <1>3a, <1>6, <2>2, OrderedTogether
  <2> QED  BY <1>1, <1>3, <1>6, <2>1, <2>3
<1> HIDE DEF upTo
<1>9. \A x \in Range(upTo), y \in Range(after) : x.time <= y.time
  <2>1. \A x \in Range(upTo) : x.time <= s.time /\ x.time \in Nat
    <3>1. \A x \in Range(before) : x.time \in Nat
      BY <1>3, StateTimes DEF Range
    <3> QED  BY <1>7, <1>8, <3>1, StateTimes
  <2>2. \A y \in Range(after) : s.time <= y.time /\ y.time \in Nat
    <3>1. \A y \in Range(after) : y.time \in Nat
      BY <1>4, StateTimes DEF Range
    <3> QED  BY <1>2, <1>4, <3>1
  <2> QED  BY <2>1, <2>2, StateTimes
<1>10. /\ upTo \o after \in Seq(EstimatorState)
       /\ Len(upTo \o after) = Len(upTo) + Len(after)
       /\ Range(upTo \o after) = Range(upTo) \cup Range(after)
  BY <1>4, <1>8, Together
<1>10a. Ordered(upTo \o after)
  BY <1>4, <1>4a, <1>8, <1>9, OrderedTogether
<1>11. Len(upTo \o after) = IF Full THEN n ELSE n + 1
  <2>1. Len(upTo \o after) = (i - Room + 1) + (n - i + 1)
    BY <1>4, <1>8, <1>10
  <2>2. Room = IF Full THEN 2 ELSE 1
    BY DEF Room
  <2>3. \A k, l \in Int :
          (k - 2 + 1) + (l - k + 1) = l /\ (k - 1 + 1) + (l - k + 1) = l + 1
    OBVIOUS
  <2>4. i \in Int /\ n \in Int
    BY <1>1
  <2> QED  BY <2>1, <2>2, <2>3, <2>4
<1>12. Range(upTo \o after) \subseteq Range(stateBuffer) \cup {s}
  <2>1. \A j \in 1..n : stateBuffer[j] \in Range(stateBuffer)
    BY <1>1 DEF Range
  <2>2. Room..(i - 1) \subseteq 1..n /\ i..n \subseteq 1..n
    BY <1>1
  <2>3. /\ Range(before) \subseteq Range(stateBuffer)
        /\ Range(after) \subseteq Range(stateBuffer)
    BY <1>3, <1>4, <2>1, <2>2
  <2> QED  BY <1>8, <1>10, <2>3
<1>13. ASSUME NEW j \in 1..n
       PROVE  \/ stateBuffer[j] \in Range(upTo \o after)
              \/ Full /\ j = 1
  <2>1. CASE j \in Room..(i - 1) \/ j \in i..n
    BY <1>3, <1>4, <1>8, <1>10, <2>1
  <2>2. CASE ~(j \in Room..(i - 1) \/ j \in i..n)
    BY <1>1, <2>2
  <2> QED  BY <2>1, <2>2
<1>14. Full => stateBuffer # <<>> /\ stateBuffer[1].time <= s.time
  <2>1. Full => 1 \in 1..(i - 1)
    BY <1>1
  <2> QED  BY <1>1, <1>2, <2>1
<1> QED  BY <1>5, <1>8, <1>10, <1>10a, <1>11, <1>12, <1>13, <1>14 DEF OneMore

LEMMA PushOneMore ==
  ASSUME TypeOK, Ordered(stateBuffer), NEW s \in EstimatorState,
         capacity # 0, LaterThanAll(s)
  PROVE  OneMore(PushBack(s), s)
<1> DEFINE n == Len(stateBuffer)
           kept == SubSeq(stateBuffer, Room, n)
<1>1. /\ stateBuffer \in Seq(EstimatorState)
      /\ n \in Nat /\ Room \in 1..2 /\ (Room = 2 <=> Full)
      /\ Room \in 1..n + 1 /\ n \in 0..n /\ (Full => n > 0)
  BY StateTimes DEF TypeOK, Room, Full
<1>2. \A j \in 1..n : stateBuffer[j].time <= s.time
  <2>1. ASSUME NEW j \in 1..n
        PROVE  stateBuffer[j].time <= s.time
    <3>1. /\ s.time > stateBuffer[n].time /\ s.time \in Nat
          /\ stateBuffer[n].time \in Nat /\ stateBuffer[j].time \in Nat
      BY <1>1, StateTimes DEF LaterThanAll, Newest
    <3>2. j = n \/ stateBuffer[j].time <= stateBuffer[n].time
      BY <1>1 DEF Ordered
    <3> QED  BY <3>1, <3>2
  <2> QED  BY <2>1
<1>3. /\ kept \in Seq(EstimatorState)
      /\ Len(kept) = n - Room + 1
      /\ \A x \in Range(kept) : \E j \in Room..n : x = stateBuffer[j]
      /\ \A j \in Room..n : stateBuffer[j] \in Range(kept)
  <2>1. Len(kept) = IF Room <= n THEN n - Room + 1 ELSE 0
    BY <1>1, Piece
  <2>2. /\ kept \in Seq(EstimatorState)
        /\ \A x \in Range(kept) : \E j \in Room..n : x = stateBuffer[j]
        /\ \A j \in Room..n : stateBuffer[j] \in Range(kept)
    BY <1>1, Piece
  <2>3. Len(kept) = n - Room + 1
    BY <1>1, <2>1
  <2> QED  BY <2>2, <2>3
<1>3a. Ordered(kept)
  BY <1>1, OrderedPiece
<1> HIDE DEF kept
<1>4. PushBack(s) = kept \o <<s>>
  BY <1>3, AppendIsConcat DEF PushBack, kept
<1>5. /\ <<s>> \in Seq(EstimatorState) /\ Len(<<s>>) = 1 /\ Range(<<s>>) = {s}
      /\ Ordered(<<s>>)
  BY Single DEF Ordered
<1>6. \A x \in Range(kept) : x.time <= s.time
  <2>1. Room..n \subseteq 1..n
    BY <1>1
  <2> QED  BY <1>2, <1>3, <2>1
<1>7. /\ kept \o <<s>> \in Seq(EstimatorState)
      /\ Len(kept \o <<s>>) = n - Room + 2
      /\ Range(kept \o <<s>>) = Range(kept) \cup {s}
      /\ Ordered(kept \o <<s>>)
  <2>1. /\ kept \o <<s>> \in Seq(EstimatorState)
        /\ Len(kept \o <<s>>) = Len(kept) + Len(<<s>>)
        /\ Range(kept \o <<s>>) = Range(kept) \cup Range(<<s>>)
    BY <1>3, <1>5, Together
  <2>2. \A x \in Range(kept), y \in Range(<<s>>) : x.time <= y.time
    BY <1>5, <1>6
  <2>3. Ordered(kept \o <<s>>)
    BY <1>3, <1>3a, <1>5, <2>2, OrderedTogether
  <2> QED  BY <1>1, <1>3, <1>5, <2>1, <2>3
<1>8. Range(kept) \subseteq Range(stateBuffer)
  <2>1. \A j \in 1..n : stateBuffer[j] \in Range(stateBuffer)
    BY <1>1 DEF Range
  <2> QED  BY <1>1, <1>3, <2>1
<1>9. ASSUME NEW j \in 1..n
      PROVE  \/ stateBuffer[j] \in Range(kept)
             \/ Full /\ j = 1
  <2>1. CASE j \in Room..n
    BY <1>3, <2>1
  <2>2. CASE j \notin Room..n
    BY <1>1, <2>2
  <2> QED  BY <2>1, <2>2
<1>10. Full => stateBuffer # <<>> /\ stateBuffer[1].time <= s.time
  BY <1>1, <1>2
<1> DEFINE b == kept \o <<s>>
<1>11. /\ b \in Seq(EstimatorState) /\ Range(b) = Range(kept) \cup {s} /\ Ordered(b)
       /\ Len(b) = IF Full THEN n ELSE n + 1
  BY <1>1, <1>7
<1>12. PushBack(s) = b
  BY <1>4
<1> HIDE DEF b, n
<1>13. OneMore(b, s)
  BY <1>8, <1>9, <1>10, <1>11 DEF OneMore, n
<1> QED  BY <1>12, <1>13

(* The place that Add looks for is there, unless another state has the stamp. *)
LEMMA PlaceOrTwin ==
  ASSUME TypeOK, NEW s \in EstimatorState, ~LaterThanAll(s),
         \A i \in DOMAIN stateBuffer : ~Place(i, s)
  PROVE  \E other \in Range(stateBuffer) : other.time = s.time
<1> DEFINE n == Len(stateBuffer)
           L == {i \in 1..n : s.time < stateBuffer[i].time}
<1>1. /\ stateBuffer \in Seq(EstimatorState) /\ n \in Nat
      /\ DOMAIN stateBuffer = 1..n /\ n \in 1..n /\ ~(s.time > stateBuffer[n].time)
  BY DEF TypeOK, LaterThanAll, Newest
<1>2. /\ s.time \in Nat
      /\ \A i \in 1..n : stateBuffer[i].time \in Nat /\ stateBuffer[i] \in Range(stateBuffer)
  BY <1>1, StateTimes DEF Range
<1>3. SUFFICES ASSUME stateBuffer[n].time # s.time
              PROVE  FALSE
  BY <1>1, <1>2
<1>4. n \in L /\ L \subseteq Nat
  BY <1>1, <1>2, <1>3
<1>5. PICK i \in L : \A j \in L : i <= j
  BY <1>4, Least
<1>6. ASSUME NEW j \in 1..(i - 1)
      PROVE  stateBuffer[j].time <= s.time
  <2>1. j \in 1..n /\ j \notin L
    BY <1>1, <1>5
  <2> QED  BY <1>2, <2>1
<1>7. Place(i, s)
  BY <1>5, <1>6 DEF Place
<1> QED  BY <1>1, <1>5, <1>7

(* What setState does: the state is in the buffer afterwards, or there is a
   reason why it is not. *)
LEMMA AddOutcome ==
  ASSUME TypeOK, Ordered(stateBuffer), NEW s \in EstimatorState, Add(s)
  PROVE  \/ OneMore(stateBuffer', s)
         \/ /\ UNCHANGED stateBuffer
            /\ \/ Full /\ (stateBuffer # <<>> => s.time <= stateBuffer[1].time)
               \/ \E other \in Range(stateBuffer) : other.time = s.time
<1>1. CASE LaterThanAll(s) /\ stateBuffer' = PushBack(s)
  <2>1. CASE capacity = 0
    <3>1. stateBuffer = <<>> /\ Full
      BY <2>1 DEF TypeOK, Full
    <3> QED  BY <1>1, <2>1, <3>1 DEF PushBack
  <2>2. CASE capacity # 0
    BY <1>1, <2>2, PushOneMore
  <2> QED  BY <2>1, <2>2
<1>2. ASSUME NEW i \in DOMAIN stateBuffer, Place(i, s), stateBuffer' = Insert(i, s)
      PROVE  \/ OneMore(stateBuffer', s)
             \/ UNCHANGED stateBuffer /\ Full /\ s.time <= stateBuffer[1].time
  <2>1. CASE Full /\ i = 1
    <3>1. s.time < stateBuffer[1].time
      BY <1>2, <2>1 DEF Place
    <3>2. s.time \in Nat /\ stateBuffer[1].time \in Nat
      BY <2>1, StateTimes DEF TypeOK
    <3> QED  BY <1>2, <2>1, <3>1, <3>2 DEF Insert
  <2>2. CASE ~(Full /\ i = 1)
    BY <1>2, <2>2, InsertOneMore
  <2> QED  BY <2>1, <2>2
<1>3. CASE /\ ~LaterThanAll(s)
           /\ \A i \in DOMAIN stateBuffer : ~Place(i, s)
           /\ UNCHANGED stateBuffer
  BY <1>3, PlaceOrTwin
<1> QED  BY <1>1, <1>2, <1>3 DEF Add

-----------------------------------------------------------------------------
(* Order, for buffers of every size. *)

Inv == TypeOK /\ Ordered(stateBuffer)

LEMMA InitInv == Init => Inv
<1> SUFFICES ASSUME Init PROVE Inv
  OBVIOUS
<1>1. stateBuffer = <<>> /\ stateBuffer \in Seq(EstimatorState) /\ Len(stateBuffer) = 0
      /\ DOMAIN stateBuffer = {}
  BY DEF Init
<1>2. capacity \in Capacities /\ capacity \in Nat
  BY StateTimes DEF Init
<1>3. 0 \in 0..MaxStates
  BY BoundsAssumption
<1>4. TypeOK
  BY <1>1, <1>2, <1>3 DEF Init, TypeOK
<1> QED  BY <1>1, <1>4 DEF Inv, Ordered

LEMMA SetStateInv == Inv /\ SetState => Inv'
<1> SUFFICES ASSUME Inv, SetState PROVE Inv'
  OBVIOUS
<1>1. PICK t \in Times : LET s == [time |-> t, id |-> states + 1]
                         IN Add(s) /\ received' = received \cup {s}
  BY DEF SetState
<1> DEFINE s == [time |-> t, id |-> states + 1]
<1>2. states + 1 \in 1..MaxStates /\ states' = states + 1 /\ states' \in 0..MaxStates
  BY BoundsAssumption DEF SetState, Inv, TypeOK
<1>3. s \in EstimatorState
  BY <1>2 DEF EstimatorState
<1>4. Add(s) /\ received' = received \cup {s}
  BY <1>1
<1> HIDE DEF s
<1>5. \/ OneMore(stateBuffer', s)
      \/ UNCHANGED stateBuffer
  BY <1>3, <1>4, AddOutcome DEF Inv
<1>6. capacity' = capacity /\ capacity \in Nat /\ Len(stateBuffer) \in Nat
      /\ Len(stateBuffer) <= capacity
  BY StateTimes DEF SetState, Inv, TypeOK
<1>7. stateBuffer' \in Seq(EstimatorState) /\ Len(stateBuffer') <= capacity /\ Ordered(stateBuffer')
  BY <1>5, <1>6 DEF OneMore, Full, Inv, TypeOK
<1> QED  BY <1>2, <1>3, <1>4, <1>6, <1>7 DEF Inv, TypeOK

LEMMA ShrunkInv ==
  ASSUME Inv, NEW c \in Capacities
  PROVE  Shrunk(c) \in Seq(EstimatorState) /\ Len(Shrunk(c)) <= c /\ Ordered(Shrunk(c))
<1>1. c \in Nat /\ stateBuffer \in Seq(EstimatorState) /\ Ordered(stateBuffer)
      /\ Len(stateBuffer) \in Nat
  BY StateTimes DEF Inv, TypeOK
<1>2. CASE c < Len(stateBuffer)
  <2>1. c \in 0..Len(stateBuffer) /\ 1 \in 1..Len(stateBuffer) + 1
    BY <1>1, <1>2
  <2>2. SubSeq(stateBuffer, 1, c) \in Seq(EstimatorState)
    BY <1>1, <2>1, Piece
  <2>3. Len(SubSeq(stateBuffer, 1, c)) = IF 1 <= c THEN c - 1 + 1 ELSE 0
    BY <1>1, <2>1, Piece
  <2>4. Len(SubSeq(stateBuffer, 1, c)) <= c
    BY <1>1, <2>3
  <2>5. Ordered(SubSeq(stateBuffer, 1, c))
    BY <1>1, <2>1, OrderedPiece
  <2> QED  BY <1>2, <2>2, <2>4, <2>5 DEF Shrunk
<1>3. CASE ~(c < Len(stateBuffer))
  BY <1>1, <1>3 DEF Shrunk
<1> QED  BY <1>2, <1>3

LEMMA NextInv == Inv /\ [Next]_vars => Inv'
<1> SUFFICES ASSUME Inv, [Next]_vars PROVE Inv'
  OBVIOUS
<1>1. CASE SetState
  BY <1>1, SetStateInv
<1>2. CASE ClearBuffer
  <2>1. stateBuffer' = <<>> /\ stateBuffer' \in Seq(EstimatorState) /\ Len(stateBuffer') = 0
        /\ DOMAIN stateBuffer' = {}
    BY <1>2 DEF ClearBuffer
  <2>2. capacity \in Nat
    BY StateTimes DEF Inv, TypeOK
  <2> QED  BY <1>2, <2>1, <2>2 DEF ClearBuffer, Inv, TypeOK, Ordered
<1>3. CASE SetBufferCapacity
  <2>1. /\ stateBuffer' \in Seq(EstimatorState) /\ capacity' \in Capacities
        /\ Len(stateBuffer') <= capacity' /\ Ordered(stateBuffer')
    BY <1>3, ShrunkInv DEF SetBufferCapacity, Inv, TypeOK
  <2>2. Range(stateBuffer') \subseteq EstimatorState
    BY <2>1 DEF Range
  <2> QED  BY <1>3, <2>1, <2>2 DEF SetBufferCapacity, Inv, TypeOK
<1>4. CASE UNCHANGED vars
  BY <1>4 DEF vars, Inv, TypeOK, Ordered
<1> QED  BY <1>1, <1>2, <1>3, <1>4 DEF Next

LEMMA Invariance == Spec => []Inv
<1>1. Init => Inv
  BY InitInv
<1>2. Inv /\ [Next]_vars => Inv'
  BY NextInv
<1> QED  BY <1>1, <1>2, PTL DEF Spec

(* Whatever is set, cleared and resized, the buffer holds states, no more of
   them than its capacity (setState, clearBuffer, setBufferCapacity). *)
THEOREM EstimatorTypeCorrect == Spec => []TypeOK
<1>1. Inv => TypeOK
  BY DEF Inv
<1> QED  BY <1>1, Invariance, PTL

(* Whatever the order in which states arrive, the buffer stays ordered by time,
   also when it drops its first states or is made smaller (setState). *)
THEOREM BufferStaysOrdered == Spec => []BufferIsOrdered
<1>1. Inv => BufferIsOrdered
  BY DEF Inv, Ordered, BufferIsOrdered
<1> QED  BY <1>1, Invariance, PTL

-----------------------------------------------------------------------------
(* What is missing.                                                        *)

LEMMA OneMoreMissing ==
  ASSUME Inv, MissingIsOld, NEW s \in EstimatorState, OneMore(stateBuffer', s),
         capacity' = capacity, received' = received \cup {s}
  PROVE  MissingIsOld'
<1>1. /\ stateBuffer \in Seq(EstimatorState) /\ stateBuffer' \in Seq(EstimatorState)
      /\ received \subseteq EstimatorState
      /\ s \in Range(stateBuffer') /\ Range(stateBuffer') \subseteq Range(stateBuffer) \cup {s}
  BY DEF Inv, TypeOK, OneMore
<1>2. \A x \in Range(stateBuffer) : x \in EstimatorState /\ x.time \in Nat
  BY <1>1, StateTimes DEF Range
<1>3. s.time \in Nat /\ \A x \in received : x.time \in Nat
  BY <1>1, StateTimes
<1>4. ASSUME Full
      PROVE  /\ Full' /\ stateBuffer # <<>> /\ stateBuffer[1] \in Range(stateBuffer)
             /\ stateBuffer'[1] \in Range(stateBuffer')
             /\ stateBuffer[1].time <= stateBuffer'[1].time
  <2>1. Full' /\ stateBuffer # <<>> /\ stateBuffer[1].time <= s.time
    BY <1>4 DEF OneMore, Full
  <2>2. /\ 1 \in DOMAIN stateBuffer /\ stateBuffer[1] \in Range(stateBuffer)
    BY <1>1, <2>1 DEF Range
  <2>3. 1 \in DOMAIN stateBuffer' /\ stateBuffer'[1] \in Range(stateBuffer')
    BY <1>1, <2>2, <1>4 DEF Range, OneMore
  <2>4. \A x \in Range(stateBuffer) : stateBuffer[1].time <= x.time
    <3>1. ASSUME NEW j \in DOMAIN stateBuffer
          PROVE  stateBuffer[1].time <= stateBuffer[j].time
      <4>1. j = 1 \/ 1 < j
        BY <1>1
      <4>2. stateBuffer[1].time \in Nat
        BY <1>2, <2>2
      <4> QED  BY <2>2, <4>1, <4>2 DEF Inv, Ordered
    <3> QED  BY <3>1 DEF Range
  <2> QED  BY <1>1, <2>1, <2>2, <2>3, <2>4
<1>5. ASSUME NEW x \in received', x \notin Range(stateBuffer')
      PROVE  \/ Full' /\ (stateBuffer' # <<>> => x.time <= stateBuffer'[1].time)
             \/ \E other \in Range(stateBuffer') : other.time = x.time
  <2>1. x \in received
    BY <1>1, <1>5
  <2>2. \A y \in Range(stateBuffer) :
          y \in Range(stateBuffer') \/ (Full /\ y = stateBuffer[1])
    BY <1>1 DEF OneMore, Range
  <2>3. \/ Full /\ (stateBuffer # <<>> => x.time <= stateBuffer[1].time)
        \/ \E other \in Range(stateBuffer) : other.time = x.time
    BY <2>1 DEF MissingIsOld
  <2>4. CASE Full /\ (stateBuffer # <<>> => x.time <= stateBuffer[1].time)
    <3>1. x.time <= stateBuffer'[1].time
      <4>1. x.time <= stateBuffer[1].time /\ stateBuffer[1].time <= stateBuffer'[1].time
        BY <1>4, <2>4
      <4>2. x.time \in Nat /\ stateBuffer[1].time \in Nat /\ stateBuffer'[1].time \in Nat
        BY <1>1, <1>2, <1>3, <1>4, <2>1, <2>4
      <4> QED  BY <4>1, <4>2
    <3> QED  BY <1>4, <2>4, <3>1
  <2>5. ASSUME NEW other \in Range(stateBuffer), other.time = x.time
        PROVE  \/ Full' /\ (stateBuffer' # <<>> => x.time <= stateBuffer'[1].time)
               \/ \E twin \in Range(stateBuffer') : twin.time = x.time
    <3>1. CASE other \in Range(stateBuffer')
      BY <2>5, <3>1
    <3>2. CASE Full /\ other = stateBuffer[1]
      BY <1>4, <2>5, <3>2
    <3> QED  BY <2>2, <3>1, <3>2
  <2> QED  BY <2>3, <2>4, <2>5
<1> QED  BY <1>5 DEF MissingIsOld

LEMMA SetStateMissing == Inv /\ MissingIsOld /\ SetState => MissingIsOld'
<1> SUFFICES ASSUME Inv, MissingIsOld, SetState PROVE MissingIsOld'
  OBVIOUS
<1>1. PICK t \in Times : LET s == [time |-> t, id |-> states + 1]
                         IN Add(s) /\ received' = received \cup {s}
  BY DEF SetState
<1> DEFINE s == [time |-> t, id |-> states + 1]
<1>2. states + 1 \in 1..MaxStates
  BY BoundsAssumption DEF SetState, Inv, TypeOK
<1>3. s \in EstimatorState
  BY <1>2 DEF EstimatorState
<1>4. Add(s) /\ received' = received \cup {s} /\ capacity' = capacity
  BY <1>1 DEF SetState
<1> HIDE DEF s
<1>5. CASE OneMore(stateBuffer', s)
  BY <1>3, <1>4, <1>5, OneMoreMissing
<1>6. CASE /\ UNCHANGED stateBuffer
           /\ \/ Full /\ (stateBuffer # <<>> => s.time <= stateBuffer[1].time)
              \/ \E other \in Range(stateBuffer) : other.time = s.time
  BY <1>4, <1>6 DEF MissingIsOld, Full
<1> QED  BY <1>3, <1>4, <1>5, <1>6, AddOutcome DEF Inv

(* A state that was set and is not in the buffer was too old for a full buffer,
   or has the stamp of one that is there: no other state is ever lost, in
   whatever order they come (setState). *)
THEOREM NothingElseIsLost == Spec => []MissingIsOld
<1>1. Init => MissingIsOld
  BY DEF Init, MissingIsOld
<1>2. Inv /\ Inv' /\ MissingIsOld /\ [Next]_vars => MissingIsOld'
  <2> SUFFICES ASSUME Inv, Inv', MissingIsOld, [Next]_vars PROVE MissingIsOld'
    OBVIOUS
  <2>1. CASE SetState
    BY <2>1, SetStateMissing
  <2>2. CASE ClearBuffer
    BY <2>2 DEF ClearBuffer, MissingIsOld
  <2>3. CASE SetBufferCapacity
    <3>1. received' = Range(stateBuffer')
      BY <2>3 DEF SetBufferCapacity
    <3> QED  BY <3>1 DEF MissingIsOld
  <2>4. CASE UNCHANGED vars
    BY <2>4 DEF vars, MissingIsOld, Full
  <2> QED  BY <2>1, <2>2, <2>3, <2>4 DEF Next
<1> QED  BY <1>1, <1>2, Invariance, PTL DEF Spec

-----------------------------------------------------------------------------
(* Answers.                                                                *)

LEMMA BufferFacts ==
  ASSUME Inv
  PROVE  /\ Len(stateBuffer) \in Nat /\ DOMAIN stateBuffer = 1..Len(stateBuffer)
         /\ \A j \in DOMAIN stateBuffer : stateBuffer[j].time \in Nat
         /\ \A j, k \in DOMAIN stateBuffer :
              j <= k => stateBuffer[j].time <= stateBuffer[k].time
<1>1. stateBuffer \in Seq(EstimatorState)
  BY DEF Inv, TypeOK
<1>2. /\ Len(stateBuffer) \in Nat /\ DOMAIN stateBuffer = 1..Len(stateBuffer)
      /\ \A j \in DOMAIN stateBuffer : stateBuffer[j].time \in Nat
  BY <1>1, StateTimes
<1>3. ASSUME NEW j \in DOMAIN stateBuffer, NEW k \in DOMAIN stateBuffer, j <= k
      PROVE  stateBuffer[j].time <= stateBuffer[k].time
  <2>1. j < k \/ j = k
    BY <1>2, <1>3
  <2> QED  BY <1>2, <2>1 DEF Inv, Ordered
<1> QED  BY <1>2, <1>3

(* Without a last state up to a time, that time is before all of them. *)
LEMMA NoneUpTo ==
  ASSUME Inv, NEW t \in Times, \A i \in DOMAIN stateBuffer : ~LastUpTo(i, t)
  PROVE  \A j \in DOMAIN stateBuffer : t < stateBuffer[j].time
<1> DEFINE n == Len(stateBuffer)
           U == {j \in 1..n : stateBuffer[j].time <= t}
<1>1. n \in Nat /\ DOMAIN stateBuffer = 1..n /\ t \in Nat
      /\ \A j \in 1..n : stateBuffer[j].time \in Nat
  BY BufferFacts, StateTimes
<1>2. U = {}
  <2> SUFFICES ASSUME U # {} PROVE FALSE
    OBVIOUS
  <2>1. PICK g \in U : \A j \in U : j <= g
    BY <1>1, Greatest
  <2>2. ASSUME NEW j \in (g + 1)..n
        PROVE  stateBuffer[j].time > t
    <3>1. j \in 1..n /\ j \notin U
      BY <1>1, <2>1
    <3> QED  BY <1>1, <3>1
  <2>3. LastUpTo(g, t)
    BY <2>1, <2>2 DEF LastUpTo
  <2> QED  BY <1>1, <2>1, <2>3
<1> QED  BY <1>1, <1>2

(* The two ways in which getState finds the state to start from. *)
LEMMA TwoWays ==
  ASSUME Inv, stateBuffer # <<>>, NEW t \in Times
  PROVE  \/ \E i \in DOMAIN stateBuffer :
              /\ GetState(t) = Answer(IF stateBuffer[i].time = t THEN "Exact"
                                      ELSE IF i < Len(stateBuffer) THEN "Interpolation"
                                      ELSE "ExtrapolationIntoFuture", i)
              /\ LastUpTo(i, t)
              /\ \A j \in DOMAIN stateBuffer :
                   \/ j <= i /\ stateBuffer[j].time <= stateBuffer[i].time
                   \/ j > i /\ t < stateBuffer[j].time
         \/ /\ GetState(t) = Answer("ExtrapolationIntoPast", 1)
            /\ 1 \in DOMAIN stateBuffer
            /\ \A j \in DOMAIN stateBuffer : t < stateBuffer[j].time
<1>1. CASE \E i \in DOMAIN stateBuffer : LastUpTo(i, t)
  <2> DEFINE i == CHOOSE k \in DOMAIN stateBuffer : LastUpTo(k, t)
  <2>1. i \in DOMAIN stateBuffer /\ LastUpTo(i, t)
    BY <1>1
  <2>2. GetState(t) = Answer(IF stateBuffer[i].time = t THEN "Exact"
                             ELSE IF i < Len(stateBuffer) THEN "Interpolation"
                             ELSE "ExtrapolationIntoFuture", i)
    BY <1>1 DEF GetState
  <2> HIDE DEF i
  <2>3. ASSUME NEW j \in DOMAIN stateBuffer
        PROVE  \/ j <= i /\ stateBuffer[j].time <= stateBuffer[i].time
               \/ j > i /\ t < stateBuffer[j].time
    <3>1. CASE j <= i
      BY <2>1, <3>1, BufferFacts
    <3>2. CASE ~(j <= i)
      <4>1. j > i /\ j \in (i + 1)..Len(stateBuffer)
        BY <2>1, <3>2, BufferFacts
      <4>2. stateBuffer[j].time > t /\ stateBuffer[j].time \in Nat /\ t \in Nat
        BY <2>1, <4>1, BufferFacts, StateTimes DEF LastUpTo
      <4> QED  BY <4>1, <4>2
    <3> QED  BY <3>1, <3>2
  <2> QED  BY <2>1, <2>2, <2>3
<1>2. CASE \A i \in DOMAIN stateBuffer : ~LastUpTo(i, t)
  <2>1. 1 \in DOMAIN stateBuffer
    BY DEF Inv, TypeOK
  <2> QED  BY <1>2, <2>1, NoneUpTo DEF GetState
<1> QED  BY <1>1, <1>2

LEMMA OrderGivesNames == Inv => AnswersAreNamed
<1> SUFFICES ASSUME Inv, stateBuffer # <<>>, NEW t \in Times
             PROVE  LET a == GetState(t)
                    IN /\ a.how = "Exact" <=> \E s \in Range(stateBuffer) : s.time = t
                       /\ a.how = "ExtrapolationIntoFuture" <=> Newest.time < t
                       /\ a.how = "ExtrapolationIntoPast" <=> t < stateBuffer[1].time
  BY DEF AnswersAreNamed
<1> DEFINE n == Len(stateBuffer)
           how == GetState(t).how
<1>1. /\ n \in Nat /\ DOMAIN stateBuffer = 1..n /\ t \in Nat
      /\ 1 \in 1..n /\ n \in 1..n /\ Newest = stateBuffer[n]
      /\ \A j \in 1..n : stateBuffer[j].time \in Nat
  BY BufferFacts, StateTimes DEF Inv, TypeOK, Newest
<1>2. (\E s \in Range(stateBuffer) : s.time = t) <=> \E j \in 1..n : stateBuffer[j].time = t
  BY <1>1 DEF Range
<1>3. ASSUME NEW i \in 1..n, LastUpTo(i, t),
             how = (IF stateBuffer[i].time = t THEN "Exact"
                    ELSE IF i < n THEN "Interpolation" ELSE "ExtrapolationIntoFuture"),
             \A j \in 1..n : \/ j <= i /\ stateBuffer[j].time <= stateBuffer[i].time
                             \/ j > i /\ t < stateBuffer[j].time
      PROVE  /\ how = "Exact" <=> \E j \in 1..n : stateBuffer[j].time = t
             /\ how = "ExtrapolationIntoFuture" <=> stateBuffer[n].time < t
             /\ how = "ExtrapolationIntoPast" <=> t < stateBuffer[1].time
  <2>1. stateBuffer[i].time <= t
    BY <1>3 DEF LastUpTo
  <2>2. how = "Exact" <=> stateBuffer[i].time = t
    BY <1>3
  <2>3. (\E j \in 1..n : stateBuffer[j].time = t) => stateBuffer[i].time = t
    BY <1>1, <1>3, <2>1
  <2>4. stateBuffer[1].time <= t
    BY <1>1, <1>3, <2>1
  <2>5. how # "ExtrapolationIntoPast" /\ ~(t < stateBuffer[1].time)
    BY <1>1, <1>3, <2>4
  <2> HIDE DEF how, n
  <2>6. CASE i = n
    BY <1>1, <1>3, <2>1, <2>2, <2>3, <2>5, <2>6
  <2>7. CASE i < n
    <3>1. t < stateBuffer[n].time
      BY <1>1, <1>3, <2>7
    <3> QED  BY <1>1, <1>3, <2>2, <2>3, <2>5, <2>7, <3>1
  <2>8. i = n \/ i < n
    BY <1>1
  <2> QED  BY <2>6, <2>7, <2>8
<1>4. ASSUME how = "ExtrapolationIntoPast", \A j \in 1..n : t < stateBuffer[j].time
      PROVE  /\ how = "Exact" <=> \E j \in 1..n : stateBuffer[j].time = t
             /\ how = "ExtrapolationIntoFuture" <=> stateBuffer[n].time < t
             /\ how = "ExtrapolationIntoPast" <=> t < stateBuffer[1].time
  BY <1>1, <1>4
<1>5. \/ \E i \in 1..n :
           /\ LastUpTo(i, t)
           /\ how = (IF stateBuffer[i].time = t THEN "Exact"
                     ELSE IF i < n THEN "Interpolation" ELSE "ExtrapolationIntoFuture")
           /\ \A j \in 1..n : \/ j <= i /\ stateBuffer[j].time <= stateBuffer[i].time
                              \/ j > i /\ t < stateBuffer[j].time
      \/ how = "ExtrapolationIntoPast" /\ \A j \in 1..n : t < stateBuffer[j].time
  <2>1. \A h, i : Answer(h, i).how = h
    BY DEF Answer
  <2>2. CASE \E i \in DOMAIN stateBuffer :
              /\ GetState(t) = Answer(IF stateBuffer[i].time = t THEN "Exact"
                                      ELSE IF i < Len(stateBuffer) THEN "Interpolation"
                                      ELSE "ExtrapolationIntoFuture", i)
              /\ LastUpTo(i, t)
              /\ \A j \in DOMAIN stateBuffer :
                   \/ j <= i /\ stateBuffer[j].time <= stateBuffer[i].time
                   \/ j > i /\ t < stateBuffer[j].time
    BY <1>1, <2>1, <2>2
  <2>3. CASE /\ GetState(t) = Answer("ExtrapolationIntoPast", 1)
             /\ 1 \in DOMAIN stateBuffer
             /\ \A j \in DOMAIN stateBuffer : t < stateBuffer[j].time
    BY <1>1, <2>1, <2>3
  <2> QED  BY <2>2, <2>3, TwoWays
<1> HIDE DEF how
<1>6. /\ how = "Exact" <=> \E j \in 1..n : stateBuffer[j].time = t
      /\ how = "ExtrapolationIntoFuture" <=> stateBuffer[n].time < t
      /\ how = "ExtrapolationIntoPast" <=> t < stateBuffer[1].time
  BY <1>3, <1>4, <1>5
<1> QED  BY <1>1, <1>2, <1>6 DEF how

LEMMA OldIsEnough == Inv /\ MissingIsOld => AnswerIsNearest
<1> SUFFICES ASSUME Inv, MissingIsOld, stateBuffer # <<>>, NEW t \in Times
             PROVE  LET from == GetState(t).from
                    IN IF from.time <= t
                       THEN \A s \in received : s.time <= from.time \/ t < s.time
                       ELSE ~Full => \A s \in received : t < s.time /\ from.time <= s.time
  BY DEF AnswerIsNearest
<1> DEFINE n == Len(stateBuffer)
           from == GetState(t).from
<1>1. /\ n \in Nat /\ DOMAIN stateBuffer = 1..n /\ t \in Nat /\ 1 \in 1..n
      /\ \A j \in 1..n : stateBuffer[j].time \in Nat
      /\ \A j \in 1..n : stateBuffer[1].time <= stateBuffer[j].time
  BY BufferFacts, StateTimes DEF Inv, TypeOK
<1>2. ASSUME NEW s \in received
      PROVE  \/ \E j \in 1..n : s.time = stateBuffer[j].time
             \/ Full /\ s.time <= stateBuffer[1].time
  BY <1>1 DEF MissingIsOld, Range
<1>3. \A s \in received : s.time \in Nat
  BY StateTimes DEF Inv, TypeOK
<1>4. ASSUME NEW i \in 1..n, LastUpTo(i, t), from = stateBuffer[i],
             \A j \in 1..n : \/ j <= i /\ stateBuffer[j].time <= stateBuffer[i].time
                             \/ j > i /\ t < stateBuffer[j].time
      PROVE  /\ from.time <= t
             /\ \A s \in received : s.time <= from.time \/ t < s.time
  <2>1. from.time <= t
    BY <1>4 DEF LastUpTo
  <2>2. ASSUME NEW s \in received
        PROVE  s.time <= from.time \/ t < s.time
    <3>1. CASE \E j \in 1..n : s.time = stateBuffer[j].time
      BY <1>4, <3>1
    <3>2. CASE s.time <= stateBuffer[1].time
      <4>1. stateBuffer[1].time <= from.time
        BY <1>1, <1>4
      <4>2. from.time \in Nat
        BY <1>1, <1>4
      <4> HIDE DEF from
      <4> QED  BY <1>1, <1>3, <3>2, <4>1, <4>2
    <3> QED  BY <1>2, <3>1, <3>2
  <2> QED  BY <2>1, <2>2
<1>5. ASSUME from = stateBuffer[1], \A j \in 1..n : t < stateBuffer[j].time
      PROVE  /\ ~(from.time <= t)
             /\ ~Full => \A s \in received : t < s.time /\ from.time <= s.time
  <2>1. ~(from.time <= t)
    BY <1>1, <1>5
  <2>2. ASSUME ~Full, NEW s \in received
        PROVE  t < s.time /\ stateBuffer[1].time <= s.time
    <3>1. PICK j \in 1..n : s.time = stateBuffer[j].time
      BY <1>2, <2>2
    <3> QED  BY <1>1, <1>5, <3>1
  <2> QED  BY <1>5, <2>1, <2>2
<1>6. \/ \E i \in 1..n :
           /\ LastUpTo(i, t) /\ from = stateBuffer[i]
           /\ \A j \in 1..n : \/ j <= i /\ stateBuffer[j].time <= stateBuffer[i].time
                              \/ j > i /\ t < stateBuffer[j].time
      \/ from = stateBuffer[1] /\ \A j \in 1..n : t < stateBuffer[j].time
  BY <1>1, TwoWays DEF Answer
<1> HIDE DEF from
<1>7. IF from.time <= t
      THEN \A s \in received : s.time <= from.time \/ t < s.time
      ELSE ~Full => \A s \in received : t < s.time /\ from.time <= s.time
  BY <1>4, <1>5, <1>6
<1> QED  BY <1>7 DEF from

(* An answer is called what it is: exact when a state has the requested stamp,
   extrapolated when the time is after all states or before them (getState). *)
THEOREM AnswersAreCalledRight == Spec => []AnswersAreNamed
<1>1. Inv => AnswersAreNamed
  BY OrderGivesNames
<1> QED  BY <1>1, Invariance, PTL

(* An answer starts from the nearest of all the states set since the buffer was
   last cleared or given a size, although it drops and rejects some of them
   (setState, getState). *)
THEOREM AnswersAreNearest == Spec => []AnswerIsNearest
<1>1. Inv /\ MissingIsOld => AnswerIsNearest
  BY OldIsEnough
<1>2. Spec => []MissingIsOld
  BY NothingElseIsLost
<1> QED  BY <1>1, <1>2, Invariance, PTL

-----------------------------------------------------------------------------
(* The tree of frames. *)

LEMMA Trees ==
  ASSUME NEW f \in Frames
  PROVE  /\ Ancestors[f] \subseteq Frames /\ f \notin Ancestors[f]
         /\ Up(f) \subseteq Frames /\ f \in Up(f)
         /\ \A g \in Ancestors[f] : Ancestors[g] \subseteq Ancestors[f]
  BY TreeAssumption DEF Up

LEMMA AboveItself == ASSUME NEW f \in Frames PROVE f \in Above(f) /\ Above(f) \subseteq Up(f)
<1>1. ASSUME NEW h \in Up(f) PROVE f \notin Ancestors[h]
  BY Trees DEF Up
<1> QED  BY <1>1, Trees DEF Above

(* Two frames are not below each other. *)
LEMMA OneWay ==
  ASSUME NEW f \in Frames, NEW g \in Frames, f \in Above(g), g \in Above(f)
  PROVE  f = g
<1>1. f \in Up(g) /\ g \in Up(f)
  BY AboveItself
<1>2. f \in Ancestors[g] => g \notin Ancestors[f]
  BY Trees
<1> QED  BY <1>1, <1>2 DEF Up

(* What is known of the tree stays known. *)
LEMMA AboveGrows ==
  ASSUME \A f \in Frames : tf[f] > 0 => tf'[f] > 0, NEW f \in Frames, NEW g \in Above(f)
  PROVE  g \in Above(f)'
<1>1. g \in Up(f) /\ \A h \in Up(f) : g \in Ancestors[h] => tf[h] > 0
  BY DEF Above
<1>2. Up(f) \subseteq Frames
  BY Trees
<1>3. \A h \in Up(f) : g \in Ancestors[h] => tf'[h] > 0
  BY <1>1, <1>2
<1> QED  BY <1>1, <1>3 DEF Above, Up

(* A frame that is known to hang with one that is not below the base is itself
   not below it, unless that is known too. *)
LEMMA NotBelow ==
  ASSUME NEW f \in Frames, NEW w \in Frames, Above(f) \cap Above(w) # {},
         Base \notin Above(f), Base \notin Up(w)
  PROVE  Base \notin Up(f)
<1> SUFFICES ASSUME Base \in Up(f) PROVE FALSE
  OBVIOUS
<1>1. PICK c \in Frames : c \in Above(f) /\ c \in Up(f) /\ c \in Up(w)
  BY AboveItself, Trees
<1>2. Base \notin Up(c) /\ Base # c
  BY <1>1, Trees DEF Up
<1>3. Base # f
  BY AboveItself
<1>4. c # f
  BY <1>2
<1>5. c \in Ancestors[Base]
  <2>1. Base \in Ancestors[f] /\ c \in Ancestors[f]
    BY <1>1, <1>3, <1>4 DEF Up
  <2>2. Base = c \/ Base \in Ancestors[c] \/ c \in Ancestors[Base]
    BY <2>1, TreeAssumption
  <2> QED  BY <1>2, <2>2 DEF Up
<1>6. ASSUME NEW h \in Up(f), Base \in Ancestors[h] PROVE tf[h] > 0
  <2>1. h \in Frames /\ c \in Ancestors[h]
    BY <1>5, <1>6, Trees
  <2> QED  BY <1>1, <2>1 DEF Above
<1>7. Base \in Above(f)
  BY <1>6 DEF Above
<1> QED  BY <1>7

-----------------------------------------------------------------------------
(* Times. *)

LEMMA FloorIs ==
  ASSUME NEW n \in Nat
  PROVE  Floor(n) \in 0..n /\ n < Floor(n) + TicksPerSecond
<1>1. TicksPerSecond \in Nat /\ TicksPerSecond > 0
  BY NumbersAssumption
<1> DEFINE q == n \div TicksPerSecond
           r == n % TicksPerSecond
<1>2. q \in Int /\ r \in 0..(TicksPerSecond - 1) /\ n = TicksPerSecond * q + r
  BY <1>1
<1>3. q >= 0
  BY <1>1
<1> HIDE DEF q, r
<1>4. q * TicksPerSecond = TicksPerSecond * q /\ TicksPerSecond * q \in Int
  BY <1>1, <1>2
<1>5. TicksPerSecond * q >= 0
  BY <1>1, <1>2, <1>3
<1>6. q * TicksPerSecond \in 0..n /\ n < q * TicksPerSecond + TicksPerSecond
  BY <1>1, <1>2, <1>4, <1>5
<1> QED  BY <1>6 DEF q, Floor

LEMMA Bounds ==
  /\ MaxTime \in Nat /\ MaxStates \in Nat /\ MaxTime <= MaxStates
  /\ TicksPerSecond \in Nat /\ TicksPerSecond > 0
  /\ LastIntTick \in Nat /\ Turn \in Int
  BY NumbersAssumption, BoundsAssumption

LEMMA Moment ==
  /\ Times \subseteq Moments /\ Overflows \subseteq Moments
  /\ \A t \in Times : t..(t + TicksPerSecond - 1) \subseteq Moments
<1>1. ASSUME NEW t \in Times
      PROVE  t..(t + TicksPerSecond - 1) \subseteq 0..(MaxTime + TicksPerSecond)
  BY Bounds DEF Times
<1>2. Times \subseteq 0..(MaxTime + TicksPerSecond)
  BY Bounds DEF Times
<1> QED  BY <1>1, <1>2 DEF Moments

-----------------------------------------------------------------------------
(* Where the frames are. *)

LEMMA BetweenIs ==
  ASSUME NEW a \in Frames, NEW b \in Frames, NEW t \in Moments
  PROVE  Between(a, b, t) \in Transform /\ Between(a, a, t) = Identity
<1>1. PoseAt(a, t) \in Transform /\ PoseAt(b, t) \in Transform
  BY PosesAssumption
<1>2. InverseOf[PoseAt(a, t)] \in Transform
  BY <1>1, InverseType
<1>3. Mult(InverseOf[PoseAt(a, t)], PoseAt(b, t)) \in Transform
  BY <1>1, <1>2, MultType
<1>4. Mult(InverseOf[PoseAt(a, t)], PoseAt(a, t)) = Identity
  BY <1>1, InverseLeft
<1> QED  BY <1>3, <1>4 DEF Between

(* A pose of b in a that is right for a time, if nothing moves at all or the
   time is one that a lookup keeps. *)
SeenAt(pose, a, b, time) ==
  /\ pose \in Transform
  /\ Path(a, b) \cap Moving = {} \/ time \in 1..LastIntTick => pose = Between(a, b, time)

LEMMA LatestIs ==
  ASSUME tf \in [Frames -> Times], NEW a \in Frames, NEW b \in Frames
  PROVE  /\ Latest(a, b) \in Times
         /\ Path(a, b) \cap Moving = {} => Latest(a, b) = 0
<1>1. 0 \in Times /\ Times \subseteq Nat
  BY Bounds DEF Times
<1>2. CASE Path(a, b) \cap Moving = {}
  BY <1>1, <1>2 DEF Latest
<1>3. CASE Path(a, b) \cap Moving # {}
  <2> DEFINE T == {tf[f] : f \in Path(a, b) \cap Moving}
  <2>1. Path(a, b) \subseteq Frames
    BY Trees DEF Path
  <2>2. T \subseteq Times /\ T # {}
    BY <1>3, <2>1
  <2>3. \E t \in T : \A u \in T : t <= u
    BY <1>1, <2>2, Least
  <2>4. \E t \in T : \A f \in Path(a, b) \cap Moving : t <= tf[f]
    BY <2>3
  <2>5. Latest(a, b) = CHOOSE t \in T : \A f \in Path(a, b) \cap Moving : t <= tf[f]
    BY <1>3 DEF Latest
  <2> HIDE DEF T
  <2>6. Latest(a, b) \in T
    BY <2>4, <2>5
  <2> QED  BY <1>3, <2>2, <2>6
<1> QED  BY <1>2, <1>3

LEMMA Seen ==
  ASSUME tf \in [Frames -> Times], NEW a \in Frames, NEW b \in Frames,
         NEW time \in Times, NEW tick \in LookupTicks(time)
  PROVE  SeenAt(PoseIn(a, b, tick), a, b, time)
<1> DEFINE t == IF tick = 0 THEN Latest(a, b) ELSE tick
<1>1. tick \in Moments /\ time \in Moments
  BY Moment DEF LookupTicks
<1>2. t \in Moments
  BY <1>1, LatestIs, Moment
<1>3. PoseIn(a, b, tick) = Between(a, b, t)
  BY DEF PoseIn
<1>4. time \in 1..LastIntTick => t = time
  BY Bounds DEF LookupTicks, Times
<1> HIDE DEF t
<1>5. Path(a, b) \cap Moving = {} => Between(a, b, t) = Between(a, b, time)
  BY <1>1, <1>2, RigidAssumption
<1>6. Between(a, b, t) \in Transform
  BY <1>2, BetweenIs
<1> QED  BY <1>3, <1>4, <1>5, <1>6 DEF SeenAt

-----------------------------------------------------------------------------
(* Velocities. *)

LEMMA SumIs ==
  ASSUME NEW a \in Transform, NEW b \in Transform
  PROVE  /\ Sum(a, b) \in Transform
         /\ Sum(a, b).x = a.x + b.x /\ Sum(a, b).y = a.y + b.y /\ Sum(a, b).yaw = 0
<1>1. a.x + b.x \in Int /\ a.y + b.y \in Int
  BY FieldsOf
<1>2. At(a.x + b.x, a.y + b.y) \in Transform
  BY <1>1, AtIs
<1> QED  BY <1>2 DEF Sum, At

LEMMA SpinIs ==
  ASSUME NEW p \in Transform
  PROVE  /\ Spin(Turn, p) \in Transform
         /\ Spin(Turn, p).x = -(Turn * p.y) /\ Spin(Turn, p).y = Turn * p.x
<1>1. Turn \in Int /\ p.x \in Int /\ p.y \in Int
  BY Bounds, FieldsOf
<1>2. Turn * p.y \in Int /\ Turn * p.x \in Int
  BY <1>1
<1>3. -Turn * p.y = -(Turn * p.y)
  BY <1>1
<1>4. At(-(Turn * p.y), Turn * p.x) \in Transform
  BY <1>2, AtIs
<1> QED  BY <1>3, <1>4 DEF Spin, At

(* A vector that is turned and the velocity that a turn gives it. *)
LEMMA SpinTurns ==
  ASSUME NEW yaw \in Yaws, NEW v \in Transform, NEW p \in Transform
  PROVE  Rotate(yaw, Sum(v, Spin(Turn, p))) = Sum(Rotate(yaw, v), Spin(Turn, Rotate(yaw, p)))
<1> DEFINE s == Spin(Turn, p)
           l == Sum(v, s)
           rp == Rotate(yaw, p)
           rv == Rotate(yaw, v)
           t == Spin(Turn, rp)
           r == Sum(rv, t)
<1>1. s \in Transform /\ s.x = -(Turn * p.y) /\ s.y = Turn * p.x
  BY SpinIs
<1>2. l \in Transform /\ l.x = v.x + s.x /\ l.y = v.y + s.y
  BY <1>1, SumIs
<1>3. /\ rp \in Transform /\ rp.x = Cos(yaw) * p.x - Sin(yaw) * p.y
      /\ rp.y = Sin(yaw) * p.x + Cos(yaw) * p.y
  BY RotateIs
<1>4. /\ rv \in Transform /\ rv.x = Cos(yaw) * v.x - Sin(yaw) * v.y
      /\ rv.y = Sin(yaw) * v.x + Cos(yaw) * v.y
  BY RotateIs
<1>5. t \in Transform /\ t.x = -(Turn * rp.y) /\ t.y = Turn * rp.x
  BY <1>3, SpinIs
<1>6. r \in Transform /\ r.x = rv.x + t.x /\ r.y = rv.y + t.y /\ r.yaw = 0
  BY <1>4, <1>5, SumIs
<1>7. /\ Rotate(yaw, l) \in Transform /\ Rotate(yaw, l).yaw = 0
      /\ Rotate(yaw, l).x = Cos(yaw) * l.x - Sin(yaw) * l.y
      /\ Rotate(yaw, l).y = Sin(yaw) * l.x + Cos(yaw) * l.y
  BY <1>2, RotateIs
<1> DEFINE u == Rotate(yaw, l)
<1>8. /\ v.x \in Int /\ v.y \in Int /\ p.x \in Int /\ p.y \in Int /\ Turn \in Int
      /\ Turn * p.x \in Int /\ Turn * p.y \in Int
  BY Bounds, FieldsOf
<1>8a. u \in Transform /\ u.yaw = 0 /\ u.x = Cos(yaw) * l.x - Sin(yaw) * l.y
       /\ u.y = Sin(yaw) * l.x + Cos(yaw) * l.y
  BY <1>7
<1> HIDE DEF s, l, rp, rv, t, r, u
<1>9. u.x = r.x /\ u.y = r.y
  <2>1. CASE yaw = 0
    <3>1. Cos(yaw) = 1 /\ Sin(yaw) = 0
      BY <2>1 DEF Cos, Sin
    <3>2. rp.x = p.x /\ rp.y = p.y /\ rv.x = v.x /\ rv.y = v.y
      BY <1>3, <1>4, <1>8, <3>1
    <3> QED  BY <1>1, <1>2, <1>5, <1>6, <1>8, <1>8a, <3>1, <3>2
  <2>2. CASE yaw = 1
    <3>1. Cos(yaw) = 0 /\ Sin(yaw) = 1
      BY <2>2 DEF Cos, Sin
    <3>2. rp.x = -p.y /\ rp.y = p.x /\ rv.x = -v.y /\ rv.y = v.x
      BY <1>3, <1>4, <1>8, <3>1
    <3>3. Turn * rp.x = -(Turn * p.y)
      BY <1>8, <3>2
    <3> QED  BY <1>1, <1>2, <1>5, <1>6, <1>8, <1>8a, <3>1, <3>2, <3>3
  <2>3. CASE yaw = 2
    <3>1. Cos(yaw) = -1 /\ Sin(yaw) = 0
      BY <2>3 DEF Cos, Sin
    <3>2. rp.x = -p.x /\ rp.y = -p.y /\ rv.x = -v.x /\ rv.y = -v.y
      BY <1>3, <1>4, <1>8, <3>1
    <3>3. Turn * rp.x = -(Turn * p.x) /\ Turn * rp.y = -(Turn * p.y)
      BY <1>8, <3>2
    <3> QED  BY <1>1, <1>2, <1>5, <1>6, <1>8, <1>8a, <3>1, <3>2, <3>3
  <2>4. CASE yaw = 3
    <3>1. Cos(yaw) = 0 /\ Sin(yaw) = -1
      BY <2>4 DEF Cos, Sin
    <3>2. rp.x = p.y /\ rp.y = -p.x /\ rv.x = v.y /\ rv.y = -v.x
      BY <1>3, <1>4, <1>8, <3>1
    <3>3. Turn * rp.y = -(Turn * p.x)
      BY <1>8, <3>2
    <3> QED  BY <1>1, <1>2, <1>5, <1>6, <1>8, <1>8a, <3>1, <3>2, <3>3
  <2> QED  BY <2>1, <2>2, <2>3, <2>4 DEF Yaws
<1>10. u = r
  BY <1>6, <1>8a, <1>9, SameTransform
<1> QED  BY <1>10 DEF u, r, l, s, rv, t, rp

LEMMA TurnedBack ==
  \A a, b \in Yaws : Clamp(-b) \in Yaws /\ Clamp(Clamp(a + b) + Clamp(-b)) = a
  BY DEF Clamp, Yaws

(* The velocity that a frame at target has is the rigid body's. *)
LEMMA TwistOf ==
  ASSUME NEW tick, RobotAt(tick) \in Transform, VelocityAt(tick) \in Transform,
         NEW target \in Transform
  PROVE  LET base == RobotAt(tick)
             pose == Mult(base, target)
         IN Rotate(pose.yaw, TargetVelocity(tick, target)) =
              Sum(Rotate(base.yaw, VelocityAt(tick)),
                  Spin(Turn, At(pose.x - base.x, pose.y - base.y)))
<1> DEFINE base == RobotAt(tick)
           v == VelocityAt(tick)
           pose == Mult(base, target)
           s == Sum(v, Spin(Turn, target))
           arm == At(pose.x - base.x, pose.y - base.y)
<1>1. s \in Transform
  BY SpinIs, SumIs
<1>2. /\ pose \in Transform /\ pose.yaw = Clamp(base.yaw + target.yaw)
      /\ pose.x = base.x + Cos(base.yaw) * target.x - Sin(base.yaw) * target.y
      /\ pose.y = base.y + Sin(base.yaw) * target.x + Cos(base.yaw) * target.y
  BY ProductFields
<1>3. base.yaw \in Yaws /\ target.yaw \in Yaws /\ base.x \in Int /\ base.y \in Int
      /\ target.x \in Int /\ target.y \in Int /\ pose.yaw \in Yaws
  BY <1>2, FieldsOf
<1>4. TargetVelocity(tick, target) = Rotate(Clamp(-target.yaw), s)
  BY DEF TargetVelocity
<1>5. /\ Clamp(-target.yaw) \in Yaws
      /\ Clamp(Clamp(base.yaw + target.yaw) + Clamp(-target.yaw)) = base.yaw
  BY <1>3, TurnedBack
<1>6. arm = Rotate(base.yaw, target)
  <2>1. Rotate(base.yaw, target) = At(Cos(base.yaw) * target.x - Sin(base.yaw) * target.y,
                                      Sin(base.yaw) * target.x + Cos(base.yaw) * target.y)
    BY <1>3, RotateIs
  <2>2. /\ Cos(base.yaw) * target.x \in Int /\ Sin(base.yaw) * target.y \in Int
        /\ Sin(base.yaw) * target.x \in Int /\ Cos(base.yaw) * target.y \in Int
    BY <1>3 DEF Cos, Sin
  <2>3. /\ pose.x - base.x = Cos(base.yaw) * target.x - Sin(base.yaw) * target.y
        /\ pose.y - base.y = Sin(base.yaw) * target.x + Cos(base.yaw) * target.y
    BY <1>2, <1>3, <2>2
  <2> QED  BY <2>1, <2>3
<1> HIDE DEF base, v, pose, s, arm
<1>7. Rotate(pose.yaw, Rotate(Clamp(-target.yaw), s)) = Rotate(base.yaw, s)
  <2>1. Rotate(pose.yaw, Rotate(Clamp(-target.yaw), s))
          = Rotate(Clamp(pose.yaw + Clamp(-target.yaw)), s)
    BY <1>1, <1>3, <1>5, RotateTwice
  <2> QED  BY <1>2, <1>5, <2>1
<1>8. Rotate(base.yaw, s) = Sum(Rotate(base.yaw, v), Spin(Turn, Rotate(base.yaw, target)))
  BY <1>3, SpinTurns DEF v, s
<1> QED  BY <1>4, <1>6, <1>7, <1>8 DEF base, v, pose, arm

(* The base itself. *)
LEMMA TwistOfBase ==
  ASSUME NEW base \in Transform, NEW v \in Transform
  PROVE  Rotate(base.yaw, v) =
           Sum(Rotate(base.yaw, v), Spin(Turn, At(base.x - base.x, base.y - base.y)))
<1> DEFINE r == Rotate(base.yaw, v)
           arm == At(base.x - base.x, base.y - base.y)
<1>1. arm = At(0, 0) /\ arm \in Transform
  BY FieldsOf, AtIs
<1>2. arm.x = 0 /\ arm.y = 0
  BY <1>1 DEF At
<1>3. /\ Spin(Turn, arm) \in Transform
      /\ Spin(Turn, arm).x = -(Turn * arm.y) /\ Spin(Turn, arm).y = Turn * arm.x
  BY <1>1, SpinIs
<1>4. r \in Transform /\ r.yaw = 0
  BY FieldsOf, RotateIs
<1> DEFINE s == Spin(Turn, arm)
<1> HIDE DEF r, arm
<1>5. s \in Transform /\ s.x = 0 /\ s.y = 0
  BY <1>2, <1>3, Bounds
<1> HIDE DEF s
<1>6. Sum(r, s) \in Transform /\ Sum(r, s).x = r.x + s.x /\ Sum(r, s).y = r.y + s.y
      /\ Sum(r, s).yaw = 0
  BY <1>4, <1>5, SumIs
<1>7. r.x \in Int /\ r.y \in Int
  BY <1>4, FieldsOf
<1>8. Sum(r, s) = r
  BY <1>4, <1>5, <1>6, <1>7, SameTransform
<1> QED  BY <1>8 DEF r, s, arm

-----------------------------------------------------------------------------
(* The pairs of messages: their stamps become later and later, so that there  *)
(* are no more states than stamps.                                            *)

LastStamp == IF stampOf = <<>> THEN 0 ELSE stampOf[Len(stampOf)]

PairInv ==
  /\ now \in Times /\ published \in 0..now
  /\ stampOf \in Seq(Times) /\ Len(stampOf) = states
  /\ states <= LastStamp /\ LastStamp <= published
  /\ inbox \in [Topics -> Times \cup {None}] /\ tuples \subseteq Waiting
  /\ \A topic \in Topics : inbox[topic] # None => inbox[topic] \in (LastStamp + 1)..published
  /\ \A t \in tuples :
       /\ t.stamp \in (LastStamp + 1)..published
       /\ inbox[t.topic] # None => t.stamp < inbox[t.topic]

LEMMA PairNumbers ==
  ASSUME PairInv
  PROVE  /\ now \in Nat /\ published \in Nat /\ published <= now /\ now <= MaxTime
         /\ LastStamp \in Times /\ LastStamp \in Nat /\ states \in Nat
         /\ Times \subseteq Nat
<1>1. Times \subseteq Nat /\ 0 \in Times /\ now \in 0..MaxTime
  BY Bounds DEF PairInv, Times
<1>2. stampOf # <<>> => Len(stampOf) \in DOMAIN stampOf
  BY DEF PairInv
<1>3. LastStamp \in Times
  BY <1>1, <1>2 DEF LastStamp, PairInv
<1>4. states \in Nat
  BY DEF PairInv
<1>5. published \in 0..now
  BY DEF PairInv
<1> QED  BY <1>1, <1>3, <1>4, <1>5, Bounds

(* A stamp at the end. *)
LEMMA StampAppended ==
  ASSUME PairInv, NEW stamp \in Times, stampOf' = Append(stampOf, stamp)
  PROVE  /\ stampOf' \in Seq(Times) /\ Len(stampOf') = states + 1
         /\ LastStamp' = stamp
         /\ stampOf'[states + 1] = stamp
         /\ \A i \in 1..states : stampOf'[i] = stampOf[i]
<1>1. stampOf \in Seq(Times) /\ Len(stampOf) = states /\ states \in Nat
  BY DEF PairInv
<1>2. /\ stampOf' \in Seq(Times) /\ Len(stampOf') = states + 1
      /\ stampOf'[states + 1] = stamp
      /\ \A i \in 1..states : stampOf'[i] = stampOf[i]
  BY <1>1
<1>3. stampOf' # <<>>
  BY <1>1, <1>2
<1> QED  BY <1>2, <1>3 DEF LastStamp

(* What a message does: it makes a pair with one that waits, or waits itself. *)
Heard(topic) == tuples \cup {[stamp |-> inbox[topic], topic |-> topic]}

Pairs(topic) ==
  /\ \A o \in Topics : o # topic => [stamp |-> inbox[topic], topic |-> o] \in tuples
  /\ OdomAndAccelCallback(inbox[topic])
  /\ tuples' = {t \in Heard(topic) : inbox[topic] < t.stamp}

Waits(topic) ==
  /\ UNCHANGED <<stateBuffer, capacity, states, received, baseFrameId, worldFrameId, stampOf>>
  /\ tuples' \subseteq Heard(topic)

LEMMA Delivered ==
  ASSUME PairInv, NEW topic \in Topics, Deliver(topic)
  PROVE  /\ inbox[topic] \in Times /\ inbox[topic] \in (LastStamp + 1)..published
         /\ inbox' = [inbox EXCEPT ![topic] = None]
         /\ Pairs(topic) \/ Waits(topic)
         /\ query = None
         /\ UNCHANGED <<now, standalone, phase, tf, publishesAccel, header, published,
                        ancestorMap, descendantMap, query, answer, served>>
<1> DEFINE stamp == inbox[topic]
           heard == Heard(topic)
<1>1. stamp # None /\ stamp \in (LastStamp + 1)..published
  BY DEF Deliver, PairInv
<1>2. stamp \in Times
  BY <1>1 DEF PairInv
<1>3. \/ /\ {t.topic : t \in {u \in heard : u.stamp = stamp}} = Topics
         /\ tuples' = {t \in heard : stamp < t.stamp}
         /\ OdomAndAccelCallback(stamp)
      \/ /\ tuples' = WithinQueue(heard)
         /\ UNCHANGED <<vars, baseFrameId, worldFrameId, stampOf>>
  BY DEF Deliver, Heard
<1>4. ASSUME {t.topic : t \in {u \in heard : u.stamp = stamp}} = Topics,
             NEW o \in Topics, o # topic
      PROVE  [stamp |-> stamp, topic |-> o] \in tuples
  <2>1. PICK u \in heard : u.stamp = stamp /\ u.topic = o
    BY <1>4
  <2>2. u \in tuples
    BY <1>4, <2>1 DEF Heard
  <2>3. u = [stamp |-> stamp, topic |-> o]
    BY <2>1, <2>2 DEF PairInv, Waiting
  <2> QED  BY <2>2, <2>3
<1>5. WithinQueue(heard) \subseteq heard
  BY DEF WithinQueue
<1>6. Pairs(topic) \/ Waits(topic)
  <2>1. CASE /\ {t.topic : t \in {u \in heard : u.stamp = stamp}} = Topics
             /\ tuples' = {t \in heard : stamp < t.stamp}
             /\ OdomAndAccelCallback(stamp)
    BY <1>4, <2>1 DEF Pairs
  <2>2. CASE /\ tuples' = WithinQueue(heard)
             /\ UNCHANGED <<vars, baseFrameId, worldFrameId, stampOf>>
    BY <1>5, <2>2 DEF Waits, vars
  <2> QED  BY <1>3, <2>1, <2>2
<1>7. /\ inbox' = [inbox EXCEPT ![topic] = None] /\ query = None
      /\ UNCHANGED <<now, standalone, phase, tf, publishesAccel, header, published,
                     ancestorMap, descendantMap, query, answer, served>>
  BY DEF Deliver, cacheVars, requestVars
<1> QED  BY <1>1, <1>2, <1>6, <1>7

LEMMA DeliverPair ==
  ASSUME PairInv, NEW topic \in Topics, Deliver(topic)
  PROVE  PairInv'
<1> DEFINE stamp == inbox[topic]
<1>1. /\ stamp \in Times /\ stamp \in (LastStamp + 1)..published
      /\ inbox' = [inbox EXCEPT ![topic] = None]
      /\ Pairs(topic) \/ Waits(topic)
      /\ now' = now /\ published' = published
  BY Delivered
<1>2. /\ LastStamp \in Nat /\ published \in Nat /\ states \in Nat /\ stamp \in Nat
      /\ LastStamp < stamp /\ stamp <= published
  BY <1>1, PairNumbers
<1>3. /\ inbox \in [Topics -> Times \cup {None}] /\ tuples \subseteq Waiting
      /\ states <= LastStamp /\ LastStamp <= published
      /\ stampOf \in Seq(Times) /\ Len(stampOf) = states
      /\ now \in Times /\ published \in 0..now
  BY DEF PairInv
<1>4. /\ inbox' \in [Topics -> Times \cup {None}]
      /\ inbox'[topic] = None
      /\ \A o \in Topics : o # topic => inbox'[o] = inbox[o]
  BY <1>1, <1>3
<1>5. Heard(topic) \subseteq Waiting
  BY <1>1, <1>3 DEF Heard, Waiting
<1>6. \A t \in Heard(topic) : t \in tuples \/ (t.topic = topic /\ t.stamp = stamp)
  BY DEF Heard
<1>7. \A t \in tuples : /\ t.stamp \in (LastStamp + 1)..published /\ t.topic \in Topics
                        /\ inbox[t.topic] # None => t.stamp < inbox[t.topic]
  BY <1>3 DEF PairInv, Waiting
<1>8. \A t \in Heard(topic) :
        /\ t.stamp \in (LastStamp + 1)..published
        /\ inbox'[t.topic] # None => t.stamp < inbox'[t.topic]
  BY <1>1, <1>4, <1>6, <1>7
<1> HIDE DEF stamp
<1>9. CASE Pairs(topic)
  <2>1. /\ stampOf' = Append(stampOf, stamp) /\ states' = states + 1
        /\ tuples' = {t \in Heard(topic) : stamp < t.stamp}
    BY <1>9 DEF Pairs, OdomAndAccelCallback, stamp
  <2>2. stampOf' \in Seq(Times) /\ Len(stampOf') = states + 1 /\ LastStamp' = stamp
    BY <1>1, <2>1, StampAppended
  <2>3. states' <= LastStamp' /\ LastStamp' <= published'
    BY <1>1, <1>2, <1>3, <2>1, <2>2
  <2>4. ASSUME NEW o \in Topics, inbox'[o] # None
        PROVE  inbox'[o] \in (stamp + 1)..published
    <3>1. o # topic /\ inbox'[o] = inbox[o]
      BY <1>4, <2>4
    <3> DEFINE w == [stamp |-> stamp, topic |-> o]
    <3>2. w \in tuples
      BY <1>9, <3>1 DEF Pairs, stamp
    <3>3. w.stamp < inbox[w.topic]
      BY <1>7, <2>4, <3>1, <3>2
    <3>4. inbox[o] \in (LastStamp + 1)..published
      BY <2>4, <3>1 DEF PairInv
    <3> QED  BY <1>2, <3>1, <3>3, <3>4
  <2>5. ASSUME NEW t \in tuples'
        PROVE  /\ t.stamp \in (stamp + 1)..published
               /\ inbox'[t.topic] # None => t.stamp < inbox'[t.topic]
    <3>1. t \in Heard(topic) /\ stamp < t.stamp
      BY <2>1, <2>5
    <3>2. /\ t.stamp \in (LastStamp + 1)..published
          /\ inbox'[t.topic] # None => t.stamp < inbox'[t.topic]
      BY <1>8, <3>1
    <3> QED  BY <1>2, <3>1, <3>2
  <2>6. tuples' \subseteq Waiting
    BY <1>5, <2>1
  <2> QED  BY <1>1, <1>3, <1>4, <2>1, <2>2, <2>3, <2>4, <2>5, <2>6 DEF PairInv
<1>10. CASE Waits(topic)
  <2>1. stampOf' = stampOf /\ states' = states /\ tuples' \subseteq Heard(topic)
    BY <1>10 DEF Waits
  <2>2. LastStamp' = LastStamp
    BY <2>1 DEF LastStamp
  <2>3. \A o \in Topics : inbox'[o] # None => inbox'[o] \in (LastStamp + 1)..published
    BY <1>4 DEF PairInv
  <2>4. \A t \in tuples' :
          /\ t.stamp \in (LastStamp + 1)..published
          /\ inbox'[t.topic] # None => t.stamp < inbox'[t.topic]
    BY <1>8, <2>1
  <2>5. tuples' \subseteq Waiting
    BY <1>5, <2>1
  <2> QED  BY <1>1, <1>3, <1>4, <2>1, <2>2, <2>3, <2>4, <2>5 DEF PairInv
<1> QED  BY <1>1, <1>9, <1>10

pairInvVars == <<now, published, stampOf, states, inbox, tuples>>

(* Only time, a publication and a delivery concern the pairs. *)
LEMMA PairStep ==
  ASSUME PairInv, [ListenerNext]_listenerVars
  PROVE  PairInv'
<1>1. CASE Tick
  <2>1. now' = now + 1 /\ now < MaxTime /\ published = now
        /\ UNCHANGED <<published, stampOf, states, inbox, tuples>>
    BY <1>1 DEF Tick, vars, pairVars
  <2>2. now' \in Times /\ published' \in 0..now'
    BY <2>1, PairNumbers, Bounds DEF Times
  <2> QED  BY <2>1, <2>2 DEF PairInv, LastStamp
<1>2. CASE Publish
  <2>1. /\ published < now /\ published' = now /\ now' = now
        /\ inbox' = [topic \in Topics |->
                       IF topic = "accel" /\ ~publishesAccel THEN None ELSE now]
        /\ UNCHANGED <<stampOf, states, tuples>>
    BY <1>2 DEF Publish, vars
  <2>2. LastStamp' = LastStamp
    BY <2>1 DEF LastStamp
  <2>3. now \in Nat /\ published \in Nat /\ LastStamp \in Nat /\ LastStamp <= published
        /\ now \in Times /\ states <= LastStamp
    BY PairNumbers DEF PairInv
  <2>4. inbox' \in [Topics -> Times \cup {None}]
    BY <2>1, <2>3
  <2>5. \A topic \in Topics : inbox'[topic] # None => inbox'[topic] = now
    BY <2>1
  <2>6. now \in (LastStamp + 1)..published' /\ published' \in 0..now' /\ LastStamp <= published'
    BY <2>1, <2>3
  <2>7. ASSUME NEW t \in tuples
        PROVE  /\ t.stamp \in (LastStamp + 1)..published'
               /\ inbox'[t.topic] # None => t.stamp < inbox'[t.topic]
    <3>1. t.stamp \in (LastStamp + 1)..published /\ t.topic \in Topics
      BY <2>7 DEF PairInv, Waiting
    <3> QED  BY <2>1, <2>3, <2>5, <3>1
  <2> QED  BY <2>1, <2>2, <2>3, <2>4, <2>5, <2>6, <2>7 DEF PairInv
<1>3. ASSUME NEW topic \in Topics, Deliver(topic) PROVE PairInv'
  BY <1>3, DeliverPair
<1>4. CASE UNCHANGED pairInvVars
  BY <1>4 DEF pairInvVars, PairInv, LastStamp
<1>5. ASSUME NEW f \in Frames, Broadcast(f) PROVE UNCHANGED pairInvVars
  BY <1>5 DEF Broadcast, pairInvVars, vars, pairVars
<1>6. Return \/ Crash \/ UNCHANGED listenerVars => UNCHANGED pairInvVars
  BY DEF Return, Crash, pairInvVars, vars, pairVars, listenerVars
<1>7. Ask \/ LookUpWorld \/ LookUpTarget \/ TimeOut => UNCHANGED pairInvVars
  BY DEF Ask, LookUpWorld, LookUpTarget, TimeOut, pairInvVars, vars, pairVars
<1> QED  BY <1>1, <1>2, <1>3, <1>4, <1>5, <1>6, <1>7 DEF ListenerNext

-----------------------------------------------------------------------------
(* What is true of the Estimator by itself is true of the listener's: a pair  *)
(* of messages is one setState, and there are states enough.                  *)

LEMMA PairIsSetState ==
  ASSUME PairInv, NEW topic \in Topics, Deliver(topic), Pairs(topic)
  PROVE  SetState
<1> DEFINE stamp == inbox[topic]
           s == [time |-> Floor(stamp), id |-> states + 1]
<1>1. stamp \in Times /\ stamp \in (LastStamp + 1)..published
  BY Delivered
<1>2. states < MaxStates
  <2>1. states <= LastStamp
    BY DEF PairInv
  <2> QED  BY <1>1, <2>1, PairNumbers, Bounds
<1>3. Floor(stamp) \in Times
  <2>1. stamp \in Nat /\ stamp <= MaxTime
    BY <1>1, Bounds DEF Times
  <2>2. Floor(stamp) \in 0..stamp
    BY <2>1, FloorIs
  <2> QED  BY <2>1, <2>2, Bounds DEF Times
<1>4. Add(s) /\ received' = received \cup {s} /\ states' = states + 1 /\ capacity' = capacity
  BY DEF Pairs, OdomAndAccelCallback, StateTime
<1> QED  BY <1>2, <1>3, <1>4 DEF SetState

LEMMA EstimatorStep ==
  ASSUME PairInv, [ListenerNext]_listenerVars
  PROVE  [Next]_vars
<1>1. ASSUME NEW topic \in Topics, Deliver(topic) PROVE [Next]_vars
  <2>1. Pairs(topic) \/ Waits(topic)
    BY <1>1, Delivered
  <2>2. CASE Pairs(topic)
    BY <1>1, <2>2, PairIsSetState DEF Next
  <2>3. CASE Waits(topic)
    BY <2>3 DEF Waits, vars
  <2> QED  BY <2>1, <2>2, <2>3
<1>2. Tick \/ Publish \/ Return \/ Crash \/ UNCHANGED listenerVars => UNCHANGED vars
  BY DEF Tick, Publish, Return, Crash, listenerVars
<1>3. ASSUME NEW f \in Frames, Broadcast(f) PROVE UNCHANGED vars
  BY <1>3 DEF Broadcast
<1>4. Ask \/ LookUpWorld \/ LookUpTarget \/ TimeOut => UNCHANGED vars
  BY DEF Ask, LookUpWorld, LookUpTarget, TimeOut
<1> QED  BY <1>1, <1>2, <1>3, <1>4 DEF ListenerNext

LEMMA PairInit == ListenerInit => PairInv
<1> SUFFICES ASSUME ListenerInit PROVE PairInv
  OBVIOUS
<1>1. /\ now = 0 /\ published = 0 /\ stampOf = <<>> /\ states = 0 /\ tuples = {}
      /\ inbox = [topic \in Topics |-> None]
  BY DEF ListenerInit, Init
<1>2. LastStamp = 0 /\ Len(stampOf) = 0 /\ stampOf \in Seq(Times)
  BY <1>1 DEF LastStamp
<1>3. 0 \in Times
  BY Bounds DEF Times
<1> QED  BY <1>1, <1>2, <1>3 DEF PairInv

-----------------------------------------------------------------------------
(* What the estimator's states stand for, and the names of the frames.       *)

StampsInv ==
  /\ \A s \in received : s.id \in 1..states /\ s.time = Floor(stampOf[s.id])
  /\ Range(stateBuffer) \subseteq received
  /\ states > 0 => stateBuffer # <<>>

NamesInv ==
  /\ header \in Headers
  /\ baseFrameId \in {Base, Blank}
  /\ worldFrameId # Blank => worldFrameId \in Frames /\ Base \notin Up(worldFrameId)
  /\ FramesKnown => states > 0

(* The buffer after a pair: it is not empty, and holds what was there before
   or has just come. *)
LEMMA BufferAfterPair ==
  ASSUME Inv, NEW s \in EstimatorState, Add(s)
  PROVE  stateBuffer' # <<>> /\ Range(stateBuffer') \subseteq Range(stateBuffer) \cup {s}
<1>1. \/ OneMore(stateBuffer', s)
      \/ UNCHANGED stateBuffer
  BY AddOutcome DEF Inv
<1>2. CASE OneMore(stateBuffer', s)
  <2>1. /\ s \in Range(stateBuffer') /\ Range(stateBuffer') \subseteq Range(stateBuffer) \cup {s}
    BY <1>2 DEF OneMore
  <2>2. stateBuffer' # <<>>
    BY <2>1 DEF Range
  <2> QED  BY <2>1, <2>2
<1>3. CASE UNCHANGED stateBuffer
  <2>1. stateBuffer # <<>>
    <3> SUFFICES ASSUME stateBuffer = <<>> PROVE FALSE
      OBVIOUS
    <3>1. LaterThanAll(s) /\ DOMAIN stateBuffer = {}
      BY DEF LaterThanAll
    <3>2. stateBuffer' = PushBack(s)
      BY <3>1 DEF Add
    <3>3. capacity # 0 /\ stateBuffer \in Seq(EstimatorState)
      BY NumbersAssumption DEF Inv, TypeOK
    <3>4. OneMore(PushBack(s), s)
      BY <3>1, <3>3, PushOneMore DEF Inv
    <3>5. s \in Range(stateBuffer)
      BY <1>3, <3>2, <3>4 DEF OneMore
    <3> QED  BY <3>1, <3>5 DEF Range
  <2> QED  BY <1>3, <2>1
<1> QED  BY <1>1, <1>2, <1>3

LEMMA DeliverStamps ==
  ASSUME Inv, PairInv, StampsInv, NEW topic \in Topics, Deliver(topic)
  PROVE  StampsInv'
<1>1. Pairs(topic) \/ Waits(topic)
  BY Delivered
<1>2. CASE Waits(topic)
  BY <1>2 DEF Waits, StampsInv
<1>3. CASE Pairs(topic)
  <2> DEFINE stamp == inbox[topic]
             s == [time |-> Floor(stamp), id |-> states + 1]
  <2>1. /\ Add(s) /\ received' = received \cup {s} /\ states' = states + 1
        /\ stampOf' = Append(stampOf, stamp)
    BY <1>3 DEF Pairs, OdomAndAccelCallback, StateTime
  <2>2. stamp \in Times /\ states \in Nat /\ states' \in 1..MaxStates
    <3>1. states < MaxStates
      BY <1>3, PairIsSetState DEF SetState
    <3> QED  BY <2>1, <3>1, Delivered, PairNumbers, Bounds
  <2>3. Floor(stamp) \in Times
    <3>1. stamp \in Nat /\ stamp <= MaxTime
      BY <2>2, Bounds DEF Times
    <3>2. Floor(stamp) \in 0..stamp
      BY <3>1, FloorIs
    <3> QED  BY <3>1, <3>2, Bounds DEF Times
  <2>4. s \in EstimatorState
    BY <2>1, <2>2, <2>3 DEF EstimatorState
  <2>5. /\ stampOf'[states + 1] = stamp
        /\ \A i \in 1..states : stampOf'[i] = stampOf[i]
    BY <2>1, <2>2, StampAppended
  <2>6. s.id = states + 1 /\ s.time = Floor(stamp)
    OBVIOUS
  <2> HIDE DEF s, stamp
  <2>7. stateBuffer' # <<>> /\ Range(stateBuffer') \subseteq Range(stateBuffer) \cup {s}
    BY <2>1, <2>4, BufferAfterPair
  <2>8. ASSUME NEW r \in received'
        PROVE  r.id \in 1..states' /\ r.time = Floor(stampOf'[r.id])
    <3>1. CASE r = s
      <4>1. r.id = states + 1 /\ r.time = Floor(stamp)
        BY <2>6, <3>1
      <4>2. states + 1 \in 1..states'
        BY <2>1, <2>2
      <4> QED  BY <2>5, <4>1, <4>2
    <3>2. CASE r \in received
      <4>1. r.id \in 1..states /\ r.time = Floor(stampOf[r.id])
        BY <3>2 DEF StampsInv
      <4>2. stampOf'[r.id] = stampOf[r.id]
        BY <2>5, <4>1
      <4>3. r.id \in 1..states'
        BY <2>1, <2>2, <4>1
      <4> QED  BY <4>1, <4>2, <4>3
    <3> QED  BY <2>1, <3>1, <3>2
  <2>9. Range(stateBuffer') \subseteq received'
    BY <2>1, <2>7 DEF StampsInv
  <2> QED  BY <2>7, <2>8, <2>9 DEF StampsInv
<1> QED  BY <1>1, <1>2, <1>3

LEMMA DeliverNames ==
  ASSUME PairInv, NamesInv, NEW topic \in Topics, Deliver(topic)
  PROVE  /\ NamesInv'
         /\ baseFrameId # Blank => baseFrameId' = baseFrameId
         /\ worldFrameId # Blank => worldFrameId' = worldFrameId
<1>1. (Pairs(topic) \/ Waits(topic)) /\ header' = header
  BY Delivered
<1>2. CASE Waits(topic)
  BY <1>1, <1>2 DEF Waits, NamesInv, FramesKnown
<1>3. CASE Pairs(topic)
  <2>1. /\ baseFrameId' = First(baseFrameId, header.base)
        /\ worldFrameId' = First(worldFrameId, header.world)
        /\ states' = states + 1
    BY <1>3 DEF Pairs, OdomAndAccelCallback
  <2>2. states' > 0
    BY <2>1, PairNumbers
  <2>3. /\ header.base \in {Base, Blank}
        /\ header.world # Blank => header.world \in Frames /\ Base \notin Up(header.world)
    BY FramesAssumption DEF NamesInv
  <2>4. baseFrameId' \in {Base, Blank}
    BY <2>1, <2>3 DEF First, NamesInv
  <2>5. worldFrameId' # Blank => worldFrameId' \in Frames /\ Base \notin Up(worldFrameId')
    BY <2>1, <2>3 DEF First, NamesInv
  <2>6. NamesInv'
    BY <1>1, <2>2, <2>4, <2>5 DEF NamesInv, Up
  <2> QED  BY <2>1, <2>6 DEF First
<1> QED  BY <1>1, <1>2, <1>3

namesVars == <<stateBuffer, states, received, stampOf, header, baseFrameId, worldFrameId>>

(* Only a delivery concerns them. *)
LEMMA OnlyDelivery ==
  ASSUME [ListenerNext]_listenerVars, \A topic \in Topics : ~Deliver(topic)
  PROVE  UNCHANGED namesVars
<1>1. Tick \/ Publish \/ Return \/ Crash \/ UNCHANGED listenerVars => UNCHANGED namesVars
  BY DEF Tick, Publish, Return, Crash, listenerVars, vars, pairVars, namesVars
<1>2. ASSUME NEW f \in Frames, Broadcast(f) PROVE UNCHANGED namesVars
  BY <1>2 DEF Broadcast, vars, pairVars, namesVars
<1>3. Ask \/ LookUpWorld \/ LookUpTarget \/ TimeOut => UNCHANGED namesVars
  BY DEF Ask, LookUpWorld, LookUpTarget, TimeOut, vars, pairVars, namesVars
<1> QED  BY <1>1, <1>2, <1>3 DEF ListenerNext

LEMMA StampsAndNames ==
  ASSUME Inv, PairInv, StampsInv, NamesInv, [ListenerNext]_listenerVars
  PROVE  /\ StampsInv' /\ NamesInv'
         /\ baseFrameId # Blank => baseFrameId' = baseFrameId
         /\ worldFrameId # Blank => worldFrameId' = worldFrameId
<1>1. CASE \A topic \in Topics : ~Deliver(topic)
  <2>1. UNCHANGED namesVars
    BY <1>1, OnlyDelivery
  <2> QED  BY <2>1 DEF namesVars, StampsInv, NamesInv, FramesKnown
<1>2. ASSUME NEW topic \in Topics, Deliver(topic)
      PROVE  /\ StampsInv' /\ NamesInv'
             /\ baseFrameId # Blank => baseFrameId' = baseFrameId
             /\ worldFrameId # Blank => worldFrameId' = worldFrameId
  BY <1>2, DeliverStamps, DeliverNames
<1> QED  BY <1>1, <1>2

(* The stamp of a state stays what it is. *)
LEMMA StampsStay ==
  ASSUME PairInv, [ListenerNext]_listenerVars
  PROVE  \A k \in DOMAIN stampOf : k \in DOMAIN stampOf' /\ stampOf'[k] = stampOf[k]
<1>1. CASE \A topic \in Topics : ~Deliver(topic)
  BY <1>1, OnlyDelivery DEF namesVars
<1>2. ASSUME NEW topic \in Topics, Deliver(topic)
      PROVE  \A k \in DOMAIN stampOf : k \in DOMAIN stampOf' /\ stampOf'[k] = stampOf[k]
  <2>1. (Pairs(topic) \/ Waits(topic)) /\ inbox[topic] \in Times
    BY <1>2, Delivered
  <2>2. CASE Waits(topic)
    BY <2>2 DEF Waits
  <2>3. CASE Pairs(topic)
    <3>1. stampOf' = Append(stampOf, inbox[topic])
      BY <2>3 DEF Pairs, OdomAndAccelCallback
    <3>2. stampOf \in Seq(Times)
      BY DEF PairInv
    <3> QED  BY <2>1, <3>1, <3>2
  <2> QED  BY <2>1, <2>2, <2>3
<1> QED  BY <1>1, <1>2

LEMMA StampsInit == ListenerInit => StampsInv /\ NamesInv
<1> SUFFICES ASSUME ListenerInit PROVE StampsInv /\ NamesInv
  OBVIOUS
<1>1. /\ received = {} /\ stateBuffer = <<>> /\ states = 0 /\ header \in Headers
      /\ baseFrameId = Blank /\ worldFrameId = Blank
  BY DEF ListenerInit, Init
<1>2. Range(stateBuffer) = {}
  BY <1>1 DEF Range
<1> QED  BY <1>1, <1>2 DEF StampsInv, NamesInv, FramesKnown

-----------------------------------------------------------------------------
(* The caches: what they say of two frames is known, though more may be known *)
(* by now.                                                                    *)

CacheInv ==
  /\ tf \in [Frames -> Times]
  /\ ancestorMap \subseteq Frames \X Frames /\ descendantMap \subseteq Frames \X Frames
  /\ \A f, g \in Frames : <<f, g>> \in ancestorMap => g \in Above(f)
  /\ \A f, g \in Frames : <<f, g>> \in descendantMap => f \in Above(g)
  /\ \A f \in Frames : <<f, f>> \in descendantMap => <<f, f>> \in ancestorMap

LEMMA Found ==
  ASSUME CacheInv, NEW source \in Frames, NEW target \in Frames, NEW found \in BOOLEAN,
         FindAncestor(source, target, found), tf' = tf
  PROVE  /\ CacheInv'
         /\ found <=> target \in Above(source)
<1> DEFINE pair == <<source, target>>
           cached == pair \in ancestorMap \cup descendantMap
<1>1. /\ found = IF cached THEN pair \in ancestorMap ELSE target \in Above(source)
      /\ ancestorMap' = ancestorMap \cup IF target \in Above(source) /\ ~cached THEN {pair} ELSE {}
      /\ descendantMap' = descendantMap
           \cup IF source \in Above(target) /\ ~cached THEN {pair} ELSE {}
  BY DEF FindAncestor
<1>2. pair \in ancestorMap => target \in Above(source)
  BY DEF CacheInv
<1>3. pair \in descendantMap => source \in Above(target)
  BY DEF CacheInv
<1>4. pair \in descendantMap /\ source = target => pair \in ancestorMap
  BY DEF CacheInv
<1>5. target \in Above(source) /\ source \in Above(target) => source = target
  BY OneWay
<1>6. found <=> target \in Above(source)
  BY <1>1, <1>2, <1>3, <1>4, <1>5
<1>7. \A f, g \in Frames : g \in Above(f)' <=> g \in Above(f)
  BY DEF Above, Up
<1>8. /\ ancestorMap' \subseteq Frames \X Frames /\ descendantMap' \subseteq Frames \X Frames
      /\ tf' \in [Frames -> Times]
  BY <1>1 DEF CacheInv
<1>9. \A f, g \in Frames : <<f, g>> \in ancestorMap' => g \in Above(f)
  BY <1>1 DEF CacheInv
<1>10. \A f, g \in Frames : <<f, g>> \in descendantMap' => f \in Above(g)
  BY <1>1 DEF CacheInv
<1>11. \A f \in Frames : <<f, f>> \in descendantMap' => <<f, f>> \in ancestorMap'
  BY <1>1 DEF CacheInv
<1>12. CacheInv'
  BY <1>7, <1>8, <1>9, <1>10, <1>11 DEF CacheInv
<1> QED  BY <1>6, <1>12

LEMMA CacheInit == ListenerInit => CacheInv
<1>1. 0 \in Times
  BY Bounds DEF Times
<1> QED  BY <1>1 DEF ListenerInit, CacheInv

(* A transform is not heard of before it is, and never forgotten. *)
LEMMA BroadcastKeeps ==
  ASSUME CacheInv, PairInv, NEW b \in Frames, Broadcast(b)
  PROVE  /\ CacheInv'
         /\ \A f \in Frames : tf[f] > 0 => tf'[f] > 0
<1>1. /\ 0 < now /\ tf' = [tf EXCEPT ![b] = IF b \in Moving THEN now ELSE 1]
      /\ ancestorMap' = ancestorMap /\ descendantMap' = descendantMap
  BY DEF Broadcast, cacheVars
<1>2. tf \in [Frames -> Times] /\ now \in Times /\ now \in Nat /\ now <= MaxTime
  BY PairNumbers DEF CacheInv, PairInv
<1>3. 1 \in Times
  BY <1>1, <1>2, Bounds DEF Times
<1>4. tf' \in [Frames -> Times]
  BY <1>1, <1>2, <1>3
<1>5. \A f \in Frames : tf[f] > 0 => tf'[f] > 0
  BY <1>1, <1>2
<1>6. \A f \in Frames : \A g \in Above(f) : g \in Above(f)'
  BY <1>5, AboveGrows
<1>7. CacheInv'
  BY <1>1, <1>4, <1>6 DEF CacheInv
<1> QED  BY <1>5, <1>7

cacheInvVars == <<tf, ancestorMap, descendantMap>>

LEMMA CachesKeep ==
  ASSUME CacheInv, UNCHANGED cacheInvVars
  PROVE  CacheInv' /\ \A f \in Frames : tf[f] > 0 => tf'[f] > 0
  BY DEF cacheInvVars, CacheInv, Above, Up

-----------------------------------------------------------------------------
(* A request in progress, and its answer.                                    *)

AskedIn(r, w) == IF r.world \in {Blank, w} THEN w ELSE r.world

WholeSecond(r, for) == IF r.rounded THEN Floor(for) ELSE for

TimesAgree(q, time) ==
  /\ q.for \in Times /\ time \in Times /\ time = WholeSecond(q.request, q.for)
  /\ q.at \in time..(time + TicksPerSecond - 1)
  /\ \E late \in CutOff : q.at = time + late

QueryInv ==
  query # None =>
    /\ FramesKnown /\ query.request \in Requests
    /\ TimesAgree(query, query.time)
    /\ query.world = None => query.request.world \notin {Blank, worldFrameId}
    /\ query.world # None =>
         /\ SeenAt(query.world, AskedIn(query.request, worldFrameId), worldFrameId, query.time)
         /\ IF query.request.world \in {Blank, worldFrameId} THEN query.world = Identity
            ELSE Base \notin Up(query.request.world)

(* The state that a prediction starts from is one whose stamp, less the part
   of a second, is its time. *)
LEMMA Predicted ==
  ASSUME Inv, PairInv, StampsInv, states > 0, NEW time \in Times
  PROVE  /\ PredictedTick(time) \in time..(time + TicksPerSecond - 1)
         /\ \E late \in CutOff : PredictedTick(time) = time + late
<1> DEFINE from == GetState(time).from
<1>1. stateBuffer # <<>>
  BY DEF StampsInv
<1>2. \E i \in DOMAIN stateBuffer : from = stateBuffer[i]
  <2>1. \A i : \A how : GetState(time) = Answer(how, i) => from = stateBuffer[i]
    BY DEF Answer
  <2> HIDE DEF from
  <2> QED  BY <1>1, <2>1, TwoWays
<1> HIDE DEF from
<1>3. from \in received
  BY <1>2 DEF StampsInv, Range
<1>4. from.id \in 1..states /\ from.time = Floor(stampOf[from.id])
  BY <1>3 DEF StampsInv
<1> DEFINE stamp == stampOf[from.id]
<1>5. stamp \in Nat /\ time \in Nat
  <2>1. stamp \in Times
    BY <1>4 DEF PairInv
  <2> QED  BY <2>1, PairNumbers
<1>6. Floor(stamp) \in 0..stamp /\ stamp < Floor(stamp) + TicksPerSecond
  BY <1>5, FloorIs
<1>7. PredictedTick(time) = stamp + (time - Floor(stamp))
  BY <1>4 DEF PredictedTick, from
<1>7a. stamp - Floor(stamp) \in CutOff
  BY <1>4 DEF PairInv, CutOff
<1> HIDE DEF stamp
<1>8. stamp + (time - Floor(stamp)) \in time..(time + TicksPerSecond - 1)
  BY <1>5, <1>6, Bounds
<1>9. stamp + (time - Floor(stamp)) = time + (stamp - Floor(stamp))
  BY <1>5, <1>6
<1> QED  BY <1>7, <1>7a, <1>8, <1>9

LEMMA AskedIs ==
  ASSUME Inv, PairInv, StampsInv, states > 0, NEW r \in Requests
  PROVE  /\ Asked(r).request = r /\ TimesAgree(Asked(r), Asked(r).time)
         /\ r.frame \in Frames /\ r.world \in Frames \cup {Blank}
         /\ Asked(r).for \in Times
         /\ Asked(r).time \in Times
<1>1. r.frame \in Frames /\ r.world \in Frames \cup {Blank} /\ r.time \in Times
      /\ r.rounded \in BOOLEAN
  BY RequestsAssumption
<1> DEFINE for == MeantTime(r)
           time == RequestTime(r)
<1>2. for \in Times
  BY <1>1 DEF MeantTime, PairInv
<1>3. for \in Nat /\ for <= MaxTime
  BY <1>2, Bounds DEF Times
<1>4. Floor(for) \in 0..for /\ for < Floor(for) + TicksPerSecond
  BY <1>3, FloorIs
<1>5. time = IF r.rounded THEN Floor(for) ELSE for
  BY DEF RequestTime, MeantTime
<1>6. time \in Times /\ time = WholeSecond(r, for)
  <2> HIDE DEF for, time
  <2>1. Floor(for) \in Times
    BY <1>3, <1>4, Bounds DEF Times
  <2> QED  BY <1>2, <1>5, <2>1 DEF WholeSecond
<1>7. /\ PredictedTick(time) \in time..(time + TicksPerSecond - 1)
      /\ \E late \in CutOff : PredictedTick(time) = time + late
  BY <1>6, Predicted
<1>8. /\ Asked(r).request = r /\ Asked(r).for = for /\ Asked(r).time = time
      /\ Asked(r).at = PredictedTick(time)
  BY DEF Asked
<1> HIDE DEF for, time
<1> QED  BY <1>1, <1>2, <1>6, <1>7, <1>8 DEF TimesAgree

(* What AnswersWereTrue and TwistIsRigid say of an answer in a world. *)
TrueIn(a, w) ==
  LET r == a.request
      time == WholeSecond(r, a.for)
      move == \/ Path(Base, r.frame) \cap Moving # {}
              \/ Path(AskedIn(r, w), w) \cap Moving # {}
  IN (move => time \in 1..LastIntTick) =>
       \E late \in CutOff :
         a.pose = Mult(Between(AskedIn(r, w), w, time),
                    Mult(RobotAt(time + late), Between(Base, r.frame, time)))

RigidIn(a, w) ==
  a.request.world \in {Blank, w} =>
    LET base == RobotAt(a.at)
        arm == At(a.pose.x - base.x, a.pose.y - base.y)
    IN Rotate(a.pose.yaw, a.velocity) = Sum(Rotate(base.yaw, VelocityAt(a.at)), Spin(Turn, arm))

RightIn(a, w) ==
  /\ a.request \in Requests
  /\ a.request.world \in {Blank, w} \/ Base \notin Up(a.request.world)
  /\ TrueIn(a, w) /\ RigidIn(a, w)

AnswerInv ==
  Good =>
    /\ FramesKnown
    /\ Base \in Above(answer.request.frame)
    /\ RightIn(answer, worldFrameId)

LEMMA IdentityRight == ASSUME NEW a \in Transform PROVE Mult(a, Identity) = a
<1>1. Mult(a, Mult(InverseOf[a], a)) = a
  BY InverseTakesOff
<1>2. Mult(InverseOf[a], a) = Identity
  BY InverseLeft
<1> QED  BY <1>1, <1>2

(* An answer made of what was seen for one time is true for it. *)
LEMMA SeenIsTrue ==
  ASSUME NEW w \in Frames, NEW a, NEW time, TimesAgree(a, time),
         NEW world, NEW target,
         SeenAt(world, AskedIn(a.request, w), w, time),
         SeenAt(target, Base, a.request.frame, time),
         a.pose = Mult(world, Mult(RobotAt(a.at), target))
  PROVE  TrueIn(a, w)
<1> DEFINE r == a.request
           move == \/ Path(Base, r.frame) \cap Moving # {}
                   \/ Path(AskedIn(r, w), w) \cap Moving # {}
<1>1. time = WholeSecond(r, a.for) /\ \E late \in CutOff : a.at = time + late
  BY DEF TimesAgree
<1>2. PICK late \in CutOff : a.at = time + late
  BY <1>1
<1>3. SUFFICES ASSUME move => time \in 1..LastIntTick
               PROVE  a.pose = Mult(Between(AskedIn(r, w), w, time),
                                 Mult(RobotAt(time + late), Between(Base, r.frame, time)))
  BY <1>1, <1>2 DEF TrueIn
<1>4. world = Between(AskedIn(r, w), w, time)
  BY <1>3 DEF SeenAt
<1>5. target = Between(Base, r.frame, time)
  BY <1>3 DEF SeenAt
<1> QED  BY <1>2, <1>4, <1>5

LEMMA RobotIs ==
  ASSUME NEW a, NEW time, TimesAgree(a, time)
  PROVE  RobotAt(a.at) \in Transform /\ VelocityAt(a.at) \in Transform
<1>1. a.at \in Moments
  BY Moment DEF TimesAgree
<1> QED  BY <1>1, PosesAssumption

(* The base in its own world is seen at once. *)
LEMMA SeenAtHome ==
  ASSUME NEW f \in Frames, NEW time \in Times
  PROVE  SeenAt(Identity, f, f, time)
<1>1. time \in Moments
  BY Moment
<1> QED  BY <1>1, BetweenIs, IdentityType DEF SeenAt

LEMMA BaseIsRight ==
  ASSUME NEW w \in Frames, NEW a, NEW time, TimesAgree(a, time), a.request \in Requests,
         a.request.frame = Base, a.request.world \in {Blank, w},
         a.pose = RobotAt(a.at), a.velocity = VelocityAt(a.at)
  PROVE  RightIn(a, w)
<1>1. RobotAt(a.at) \in Transform /\ VelocityAt(a.at) \in Transform /\ time \in Times
  BY RobotIs DEF TimesAgree
<1>2. AskedIn(a.request, w) = w /\ Base \in Frames
  BY FramesAssumption DEF AskedIn
<1>3. SeenAt(Identity, w, w, time) /\ SeenAt(Identity, Base, Base, time)
  BY <1>1, <1>2, SeenAtHome
<1>4. Mult(Identity, Mult(RobotAt(a.at), Identity)) = RobotAt(a.at)
  BY <1>1, IdentityRight, IdentityLeft
<1>5. TrueIn(a, w)
  BY <1>2, <1>3, <1>4, SeenIsTrue
<1>6. Rotate(RobotAt(a.at).yaw, VelocityAt(a.at)) =
        Sum(Rotate(RobotAt(a.at).yaw, VelocityAt(a.at)),
            Spin(Turn, At(RobotAt(a.at).x - RobotAt(a.at).x, RobotAt(a.at).y - RobotAt(a.at).y)))
  BY <1>1, TwistOfBase
<1>7. RigidIn(a, w)
  BY <1>6 DEF RigidIn
<1> QED  BY <1>5, <1>7 DEF RightIn

LEMMA TargetIsRight ==
  ASSUME NEW w \in Frames, NEW a, NEW time, TimesAgree(a, time), a.request \in Requests,
         NEW world, NEW target,
         SeenAt(world, AskedIn(a.request, w), w, time),
         SeenAt(target, Base, a.request.frame, time),
         IF a.request.world \in {Blank, w} THEN world = Identity
         ELSE Base \notin Up(a.request.world),
         a.pose = Mult(world, Mult(RobotAt(a.at), target)),
         a.velocity = TargetVelocity(a.at, target)
  PROVE  RightIn(a, w)
<1>1. RobotAt(a.at) \in Transform /\ VelocityAt(a.at) \in Transform
  BY RobotIs
<1>2. target \in Transform
  BY DEF SeenAt
<1>3. TrueIn(a, w)
  BY SeenIsTrue
<1>4. ASSUME a.request.world \in {Blank, w}
      PROVE  a.pose = Mult(RobotAt(a.at), target)
  <2>1. Mult(RobotAt(a.at), target) \in Transform
    BY <1>1, <1>2, MultType
  <2>2. Mult(Identity, Mult(RobotAt(a.at), target)) = Mult(RobotAt(a.at), target)
    BY <2>1, IdentityLeft
  <2> QED  BY <1>4, <2>2
<1>5. LET base == RobotAt(a.at)
          pose == Mult(base, target)
      IN Rotate(pose.yaw, TargetVelocity(a.at, target)) =
           Sum(Rotate(base.yaw, VelocityAt(a.at)), Spin(Turn, At(pose.x - base.x, pose.y - base.y)))
  BY <1>1, <1>2, TwistOf
<1>6. RigidIn(a, w)
  BY <1>4, <1>5 DEF RigidIn
<1> QED  BY <1>3, <1>6 DEF RightIn

-----------------------------------------------------------------------------
(* The steps of a request.                                                    *)

LEMMA KnownNames ==
  ASSUME NamesInv, FramesKnown
  PROVE  baseFrameId = Base /\ worldFrameId \in Frames /\ Base \notin Up(worldFrameId)
           /\ states > 0 /\ Base \in Frames
  BY FramesAssumption DEF NamesInv, FramesKnown

LEMMA RequestIs ==
  ASSUME NEW r \in Requests
  PROVE  /\ r.frame \in Frames
         /\ r.world \in Frames \cup {Blank}
  BY RequestsAssumption

LEMMA NoAnswer == ASSUME answer' = None \/ ~answer'.ok PROVE AnswerInv'
  BY DEF AnswerInv, Good

LEMMA NewAnswer ==
  ASSUME NEW a, answer' = a, UNCHANGED <<baseFrameId, worldFrameId, tf, stampOf>>,
         FramesKnown, Base \in Above(a.request.frame), RightIn(a, worldFrameId)
  PROVE  AnswerInv'
<1>1. Above(a.request.frame)' = Above(a.request.frame)
  BY DEF Above, Up
<1>2. FramesKnown'
  BY DEF FramesKnown
<1>3. RightIn(a, worldFrameId)'
  BY DEF RightIn, TrueIn, RigidIn, CutOff
<1> QED  BY <1>1, <1>2, <1>3 DEF AnswerInv

LEMMA AskStep ==
  ASSUME Inv, PairInv, StampsInv, NamesInv, CacheInv, QueryInv, AnswerInv, Ask
  PROVE  QueryInv' /\ AnswerInv'
<1>1. /\ query = None
      /\ UNCHANGED <<baseFrameId, worldFrameId, tf, stampOf>>
  BY DEF Ask, pairVars
<1>2. PICK r \in Clients :
        \/ /\ answer' = [ok |-> FALSE, request |-> r, for |-> Asked(r).for]
           /\ UNCHANGED query
        \/ /\ FramesKnown /\ r.frame = baseFrameId /\ r.world \in {Blank, worldFrameId}
           /\ answer' = [ok |-> TRUE, request |-> r, for |-> Asked(r).for, at |-> Asked(r).at,
                         pose |-> RobotAt(Asked(r).at), velocity |-> VelocityAt(Asked(r).at),
                         turn |-> Turn]
           /\ UNCHANGED query
        \/ /\ FramesKnown
           /\ query' = [Asked(r) EXCEPT !.world =
                          IF r.world \in {Blank, worldFrameId} THEN Identity ELSE None]
           /\ answer' = None
  BY DEF Ask
<1>3. r \in Requests
  BY DEF Clients
<1>4. CASE /\ answer' = [ok |-> FALSE, request |-> r, for |-> Asked(r).for]
           /\ UNCHANGED query
  <2>1. ~answer'.ok /\ query' = None
    BY <1>1, <1>4
  <2> QED  BY <2>1, NoAnswer DEF QueryInv
<1>5. CASE /\ FramesKnown /\ r.frame = baseFrameId /\ r.world \in {Blank, worldFrameId}
           /\ answer' = [ok |-> TRUE, request |-> r, for |-> Asked(r).for, at |-> Asked(r).at,
                         pose |-> RobotAt(Asked(r).at), velocity |-> VelocityAt(Asked(r).at),
                         turn |-> Turn]
           /\ UNCHANGED query
  <2> DEFINE a == [ok |-> TRUE, request |-> r, for |-> Asked(r).for, at |-> Asked(r).at,
                   pose |-> RobotAt(Asked(r).at), velocity |-> VelocityAt(Asked(r).at),
                   turn |-> Turn]
  <2>1. baseFrameId = Base /\ worldFrameId \in Frames /\ states > 0 /\ Base \in Frames
    BY <1>5, KnownNames
  <2>2. TimesAgree(Asked(r), Asked(r).time) /\ Asked(r).request = r
    BY <1>3, <2>1, AskedIs
  <2>3. /\ a.request = r /\ a.for = Asked(r).for /\ a.at = Asked(r).at
        /\ a.pose = RobotAt(a.at) /\ a.velocity = VelocityAt(a.at)
    OBVIOUS
  <2>3a. answer' = a
    BY <1>5
  <2> HIDE DEF a
  <2>4. TimesAgree(a, Asked(r).time)
    BY <2>2, <2>3 DEF TimesAgree
  <2>5. a.request.frame = Base
    BY <1>5, <2>1, <2>3
  <2>6. RightIn(a, worldFrameId)
    BY <1>3, <1>5, <2>1, <2>3, <2>4, <2>5, BaseIsRight
  <2>7. Base \in Above(a.request.frame)
    BY <2>1, <2>5, AboveItself
  <2>8. AnswerInv'
    BY <1>1, <1>5, <2>3a, <2>6, <2>7, NewAnswer
  <2> QED  BY <1>1, <1>5, <2>8 DEF QueryInv
<1>6. CASE /\ FramesKnown
           /\ query' = [Asked(r) EXCEPT !.world =
                          IF r.world \in {Blank, worldFrameId} THEN Identity ELSE None]
           /\ answer' = None
  <2> DEFINE q == [Asked(r) EXCEPT !.world =
                     IF r.world \in {Blank, worldFrameId} THEN Identity ELSE None]
  <2>1. worldFrameId \in Frames /\ states > 0
    BY <1>6, KnownNames
  <2>2. TimesAgree(Asked(r), Asked(r).time) /\ Asked(r).request = r /\ Asked(r).time \in Times
    BY <1>3, <2>1, AskedIs
  <2>3. /\ q.request = Asked(r).request /\ q.for = Asked(r).for /\ q.at = Asked(r).at
        /\ q.time = Asked(r).time
        /\ q.world = IF r.world \in {Blank, worldFrameId} THEN Identity ELSE None
    BY DEF Asked
  <2>4. query' = q
    BY <1>6
  <2> HIDE DEF q
  <2>5. TimesAgree(q, q.time) /\ q.request \in Requests
    BY <1>3, <2>2, <2>3 DEF TimesAgree
  <2>6. None # Identity
    BY PosesAssumption, IdentityType
  <2>7. r.world \in {Blank, worldFrameId} =>
          SeenAt(q.world, AskedIn(q.request, worldFrameId), worldFrameId, q.time)
    <3>1. SeenAt(Identity, worldFrameId, worldFrameId, q.time)
      BY <2>1, <2>2, <2>3, SeenAtHome
    <3> QED  BY <2>2, <2>3, <3>1 DEF AskedIn
  <2>8. FramesKnown'
    BY <1>1, <1>6 DEF FramesKnown
  <2>9. TimesAgree(query, query.time)'
    <3>1. CutOff' = CutOff
      BY <1>1 DEF CutOff
    <3> QED  BY <2>4, <2>5, <3>1 DEF TimesAgree
  <2>10. QueryInv'
    BY <1>1, <2>2, <2>3, <2>4, <2>5, <2>6, <2>7, <2>8, <2>9 DEF QueryInv
  <2> QED  BY <1>6, <2>10, NoAnswer
<1> QED  BY <1>2, <1>4, <1>5, <1>6

LEMMA WorldStep ==
  ASSUME PairInv, NamesInv, CacheInv, QueryInv, AnswerInv, LookUpWorld
  PROVE  CacheInv' /\ QueryInv' /\ AnswerInv'
<1> DEFINE f == query.request.world
<1>1. /\ query # None /\ query.world = None
      /\ UNCHANGED <<baseFrameId, worldFrameId, tf, stampOf>>
  BY DEF LookUpWorld, pairVars
<1>2. /\ FramesKnown /\ query.request \in Requests /\ TimesAgree(query, query.time)
      /\ f \notin {Blank, worldFrameId}
  BY <1>1 DEF QueryInv
<1>3. baseFrameId = Base /\ worldFrameId \in Frames /\ Base \notin Up(worldFrameId)
      /\ Base \in Frames
  BY <1>2, KnownNames
<1>4. f \in Frames /\ query.time \in Times
  BY <1>2, RequestIs DEF TimesAgree
<1>5. PICK tick \in LookupTicks(query.time), below \in BOOLEAN :
        /\ Available(f, worldFrameId, tick)
        /\ FindAncestor(f, baseFrameId, below)
        /\ \/ below /\ Answered(Refused)
           \/ /\ ~below
              /\ query' = [query EXCEPT !.world = PoseIn(f, worldFrameId, tick)]
              /\ UNCHANGED answer
  BY DEF LookUpWorld
<1> HIDE DEF f
<1>6. CacheInv' /\ (below <=> Base \in Above(f))
  BY <1>1, <1>3, <1>4, <1>5, Found
<1>7. CASE Answered(Refused)
  <2>1. query' = None /\ ~answer'.ok
    BY <1>7 DEF Answered, Refused
  <2> QED  BY <1>6, <2>1, NoAnswer DEF QueryInv
<1>8. CASE /\ ~below /\ query' = [query EXCEPT !.world = PoseIn(f, worldFrameId, tick)]
           /\ UNCHANGED answer
  <2>1. Base \notin Up(f)
    <3>1. Above(f) \cap Above(worldFrameId) # {}
      BY <1>5 DEF Available
    <3> QED  BY <1>3, <1>4, <1>6, <1>8, <3>1, NotBelow
  <2>2. SeenAt(PoseIn(f, worldFrameId, tick), f, worldFrameId, query.time)
    BY <1>3, <1>4, Seen DEF CacheInv
  <2>3. AskedIn(query.request, worldFrameId) = f
    BY <1>2 DEF AskedIn, f
  <2>4. FramesKnown'
    BY <1>1, <1>2 DEF FramesKnown
  <2>5. QueryInv'
    <3>1. /\ query'.request = query.request /\ query'.for = query.for /\ query'.at = query.at
          /\ query'.time = query.time
          /\ query'.world = PoseIn(f, worldFrameId, tick) \/ query'.world = query.world
      BY <1>8
    <3> QED  BY <1>1, <1>2, <1>8, <2>1, <2>2, <2>3, <2>4, <3>1
             DEF QueryInv, TimesAgree, CutOff, f
  <2>6. AnswerInv'
    BY <1>1, <1>8 DEF AnswerInv, Good, FramesKnown, Above, Up, RightIn, TrueIn, CutOff
  <2> QED  BY <1>6, <2>5, <2>6
<1> QED  BY <1>5, <1>7, <1>8

LEMMA TargetStep ==
  ASSUME PairInv, NamesInv, CacheInv, QueryInv, AnswerInv, LookUpTarget
  PROVE  CacheInv' /\ QueryInv' /\ AnswerInv'
<1> DEFINE f == query.request.frame
<1>1. /\ query # None /\ query.world # None
      /\ UNCHANGED <<baseFrameId, worldFrameId, tf, stampOf>>
  BY DEF LookUpTarget, pairVars
<1>2. /\ FramesKnown /\ query.request \in Requests /\ TimesAgree(query, query.time)
      /\ SeenAt(query.world, AskedIn(query.request, worldFrameId), worldFrameId, query.time)
      /\ IF query.request.world \in {Blank, worldFrameId} THEN query.world = Identity
         ELSE Base \notin Up(query.request.world)
  BY <1>1 DEF QueryInv
<1>3. baseFrameId = Base /\ worldFrameId \in Frames /\ Base \in Frames
  BY <1>2, KnownNames
<1>4. f \in Frames /\ query.time \in Times
  BY <1>2, RequestIs DEF TimesAgree
<1>5. PICK tick \in LookupTicks(query.time), below \in BOOLEAN :
        /\ FindAncestor(f, baseFrameId, below)
        /\ Answered(IF below THEN TargetState(PoseIn(baseFrameId, f, tick)) ELSE Refused)
  BY DEF LookUpTarget
<1>6. CacheInv' /\ (below <=> Base \in Above(f))
  BY <1>1, <1>3, <1>4, <1>5, Found
<1>7. query' = None
  BY <1>5 DEF Answered
<1>8. CASE ~below
  <2>1. ~answer'.ok
    BY <1>5, <1>8 DEF Answered, Refused
  <2> QED  BY <1>6, <1>7, <2>1, NoAnswer DEF QueryInv
<1>9. CASE below
  <2> DEFINE target == PoseIn(baseFrameId, f, tick)
             a == TargetState(target)
  <2>1. answer' = a
    BY <1>5, <1>9 DEF Answered
  <2>2. /\ a.request = query.request /\ a.for = query.for /\ a.at = query.at
        /\ a.pose = Mult(query.world, Mult(RobotAt(a.at), target))
        /\ a.velocity = TargetVelocity(a.at, target)
    BY DEF TargetState
  <2>3. SeenAt(target, Base, f, query.time)
    BY <1>3, <1>4, Seen DEF CacheInv
  <2> HIDE DEF target, a
  <2>4. TimesAgree(a, query.time)
    BY <1>2, <2>2 DEF TimesAgree
  <2>5. RightIn(a, worldFrameId)
    BY <1>2, <1>3, <2>2, <2>3, <2>4, TargetIsRight
  <2>6. Base \in Above(a.request.frame)
    BY <1>6, <1>9, <2>2
  <2>7. AnswerInv'
    BY <1>1, <1>2, <2>1, <2>5, <2>6, NewAnswer
  <2> QED  BY <1>6, <1>7, <2>7 DEF QueryInv
<1> QED  BY <1>8, <1>9

(* Every other step leaves the request and the answer alone, or gives up. *)
LEMMA OtherStep ==
  ASSUME QueryInv, AnswerInv,
         baseFrameId # Blank => baseFrameId' = baseFrameId,
         worldFrameId # Blank => worldFrameId' = worldFrameId,
         \A f \in Frames : tf[f] > 0 => tf'[f] > 0, CutOff \subseteq CutOff',
         UNCHANGED answer, query' = query \/ query' = None
  PROVE  QueryInv' /\ AnswerInv'
<1>1. FramesKnown => FramesKnown' /\ worldFrameId' = worldFrameId
  BY DEF FramesKnown
<1>2. QueryInv'
  BY <1>1 DEF QueryInv, TimesAgree
<1>3. ASSUME Good' PROVE FramesKnown' /\ RightIn(answer, worldFrameId)
                           /\ Base \in Above(answer.request.frame)' /\ worldFrameId' = worldFrameId
  <2>1. FramesKnown /\ RightIn(answer, worldFrameId) /\ Base \in Above(answer.request.frame)
    BY <1>3 DEF AnswerInv, Good
  <2>2. answer.request.frame \in Frames
    BY <2>1, RequestIs DEF RightIn
  <2>3. Base \in Above(answer.request.frame)'
    BY <2>1, <2>2, AboveGrows
  <2> QED  BY <1>1, <2>1, <2>3
<1>4. AnswerInv'
  BY <1>3 DEF AnswerInv, Above, RightIn, TrueIn, RigidIn
<1> QED  BY <1>2, <1>4

-----------------------------------------------------------------------------
(* The invariant of the listener, and its theorems. *)

PhaseInv ==
  /\ phase \in {"constructing", "broken", "ready", "crashed"}
  /\ served \in 0..MaxRequests

ListenerInv ==
  /\ Inv /\ PairInv /\ StampsInv /\ NamesInv
  /\ CacheInv /\ QueryInv /\ AnswerInv /\ PhaseInv

LEMMA PhaseStep ==
  ASSUME PhaseInv, [ListenerNext]_listenerVars
  PROVE  PhaseInv'
<1>1. CASE Ask
  <2>1. phase' = phase /\ served < MaxRequests /\ served' = served + 1
    BY <1>1 DEF Ask
  <2>2. MaxRequests \in Nat
    BY NumbersAssumption
  <2> QED  BY <2>1, <2>2 DEF PhaseInv
<1>2. Return => PhaseInv'
  BY DEF Return, PhaseInv, requestVars
<1>3. Crash => PhaseInv'
  BY DEF Crash, PhaseInv, requestVars
<1>4. UNCHANGED <<phase, served>> => PhaseInv'
  BY DEF PhaseInv
<1>5. Tick \/ Publish \/ UNCHANGED listenerVars => UNCHANGED <<phase, served>>
  BY DEF Tick, Publish, listenerVars, requestVars
<1>6. ASSUME NEW f \in Frames, Broadcast(f) PROVE UNCHANGED <<phase, served>>
  BY <1>6 DEF Broadcast, requestVars
<1>7. ASSUME NEW topic \in Topics, Deliver(topic) PROVE UNCHANGED <<phase, served>>
  BY <1>7 DEF Deliver, requestVars
<1>8. LookUpWorld \/ LookUpTarget \/ TimeOut => UNCHANGED <<phase, served>>
  BY DEF LookUpWorld, LookUpTarget, TimeOut
<1> QED  BY <1>1, <1>2, <1>3, <1>4, <1>5, <1>6, <1>7, <1>8 DEF ListenerNext

LEMMA RequestsStep ==
  ASSUME ListenerInv, [ListenerNext]_listenerVars
  PROVE  CacheInv' /\ QueryInv' /\ AnswerInv'
<1>1. /\ Inv /\ PairInv /\ StampsInv /\ NamesInv /\ CacheInv /\ QueryInv /\ AnswerInv
      /\ baseFrameId # Blank => baseFrameId' = baseFrameId
      /\ worldFrameId # Blank => worldFrameId' = worldFrameId
  BY StampsAndNames DEF ListenerInv
<1>2. UNCHANGED cacheInvVars => CacheInv' /\ \A f \in Frames : tf[f] > 0 => tf'[f] > 0
  BY <1>1, CachesKeep
<1>2a. CutOff \subseteq CutOff'
  BY <1>1, StampsStay DEF CutOff
<1>3. ASSUME UNCHANGED <<cacheInvVars, query, answer>>
      PROVE  CacheInv' /\ QueryInv' /\ AnswerInv'
  BY <1>1, <1>2, <1>2a, <1>3, OtherStep
<1>4. CASE Ask
  <2>1. UNCHANGED cacheInvVars
    BY <1>4 DEF Ask, cacheVars, cacheInvVars
  <2> QED  BY <1>1, <1>2, <1>4, <2>1, AskStep
<1>5. CASE LookUpWorld
  BY <1>1, <1>5, WorldStep
<1>6. CASE LookUpTarget
  BY <1>1, <1>6, TargetStep
<1>7. CASE TimeOut
  <2>1. UNCHANGED cacheInvVars /\ query' = None /\ ~answer'.ok
    BY <1>7 DEF TimeOut, Answered, Refused, cacheVars, cacheInvVars
  <2> QED  BY <1>2, <2>1, NoAnswer DEF QueryInv
<1>8. ASSUME NEW f \in Frames, Broadcast(f) PROVE CacheInv' /\ QueryInv' /\ AnswerInv'
  <2>1. CacheInv' /\ \A g \in Frames : tf[g] > 0 => tf'[g] > 0
    BY <1>1, <1>8, BroadcastKeeps
  <2>2. UNCHANGED <<query, answer>>
    BY <1>8 DEF Broadcast, requestVars
  <2> QED  BY <1>1, <1>2a, <2>1, <2>2, OtherStep
<1>9. ASSUME NEW topic \in Topics, Deliver(topic) PROVE UNCHANGED <<cacheInvVars, query, answer>>
  BY <1>9 DEF Deliver, cacheInvVars, cacheVars, requestVars
<1>10. Tick \/ Publish \/ Return \/ Crash \/ UNCHANGED listenerVars
         => UNCHANGED <<cacheInvVars, query, answer>>
  BY DEF Tick, Publish, Return, Crash, listenerVars, cacheInvVars, cacheVars, requestVars
<1> QED  BY <1>3, <1>4, <1>5, <1>6, <1>7, <1>8, <1>9, <1>10 DEF ListenerNext

LEMMA ListenerInitInv == ListenerInit => ListenerInv
<1> SUFFICES ASSUME ListenerInit PROVE ListenerInv
  OBVIOUS
<1>1. Inv
  BY InitInv DEF ListenerInit
<1>2. PairInv /\ StampsInv /\ NamesInv /\ CacheInv
  BY PairInit, StampsInit, CacheInit
<1>3. query = None /\ answer = None /\ served = 0 /\ phase \in {"constructing", "broken"}
  BY DEF ListenerInit
<1>4. PhaseInv
  BY <1>3, NumbersAssumption DEF PhaseInv
<1> QED  BY <1>1, <1>2, <1>3, <1>4 DEF ListenerInv, QueryInv, AnswerInv, Good

LEMMA ListenerNextInv == ListenerInv /\ [ListenerNext]_listenerVars => ListenerInv'
<1> SUFFICES ASSUME ListenerInv, [ListenerNext]_listenerVars PROVE ListenerInv'
  OBVIOUS
<1>1. Inv /\ PairInv /\ StampsInv /\ NamesInv /\ PhaseInv
  BY DEF ListenerInv
<1>2. PairInv' /\ StampsInv' /\ NamesInv' /\ PhaseInv'
  BY <1>1, PairStep, StampsAndNames, PhaseStep
<1>3. Inv'
  BY <1>1, EstimatorStep, NextInv
<1>4. CacheInv' /\ QueryInv' /\ AnswerInv'
  BY RequestsStep
<1> QED  BY <1>2, <1>3, <1>4 DEF ListenerInv

LEMMA ListenerInvariance == ListenerSpec => []ListenerInv
<1>1. ListenerInit => ListenerInv
  BY ListenerInitInv
<1>2. ListenerInv /\ [ListenerNext]_listenerVars => ListenerInv'
  BY ListenerNextInv
<1> QED  BY <1>1, <1>2, PTL DEF ListenerSpec

(* Every variable keeps to its type, the estimator's included, and each state
   has a stamp that it was made of (odomAndAccelCallback). *)
THEOREM ListenerTypeCorrect == ListenerSpec => []ListenerTypeOK
<1>1. ListenerInv => ListenerTypeOK
  <2> SUFFICES ASSUME ListenerInv PROVE ListenerTypeOK
    OBVIOUS
  <2>1. Inv /\ PairInv /\ NamesInv /\ CacheInv /\ PhaseInv
    BY DEF ListenerInv
  <2>2. published \in Times /\ now \in Times
    BY <2>1, PairNumbers, Bounds DEF Times
  <2>3. worldFrameId \in Frames \cup {Blank} /\ TypeOK
    BY <2>1 DEF NamesInv, Inv
  <2>4. ancestorMap \cup descendantMap \subseteq Frames \X Frames /\ tf \in [Frames -> Times]
    BY <2>1 DEF CacheInv
  <2>5. /\ inbox \in [Topics -> Times \cup {None}] /\ tuples \subseteq Waiting
        /\ Len(stampOf) = states /\ stampOf \in Seq(Times)
    BY <2>1 DEF PairInv
  <2>6. header \in Headers /\ baseFrameId \in {Base, Blank}
    BY <2>1 DEF NamesInv
  <2> QED  BY <2>1, <2>2, <2>3, <2>4, <2>5, <2>6 DEF ListenerTypeOK, PhaseInv
<1> QED  BY <1>1, ListenerInvariance, PTL

(* An answer is the true state at the requested time but for what the two cuts
   to whole seconds do, for every motion of the robot and of the frames and
   every state that the prediction may start from (getState,
   odomAndAccelCallback). *)
THEOREM AnswersStayTrue == ListenerSpec => []AnswersWereTrue
<1>1. ListenerInv => AnswersWereTrue
  BY DEF ListenerInv, AnswerInv, RightIn, TrueIn, AnswersWereTrue, AskedIn, WorldAsked,
         DefaultWorld, PathsMove, AnsweredFor, WholeSecond
<1> QED  BY <1>1, ListenerInvariance, PTL

(* The velocity that is answered is that of a point of the rigid body, wherever
   the frame is and however robot and frame are turned (getState). *)
THEOREM TwistStaysRigid == ListenerSpec => []TwistIsRigid
<1>1. ListenerInv => TwistIsRigid
  BY DEF ListenerInv, AnswerInv, RightIn, RigidIn, TwistIsRigid, DefaultWorld
<1> QED  BY <1>1, ListenerInvariance, PTL

(* Whatever the caches were filled with while less of the tree was known, an
   answer is only given for a frame below the base, in a world that is not
   (findAncestor, getState). *)
THEOREM AnswersStayBelowBase == ListenerSpec => []OnlyBelowBase
<1>1. ListenerInv => OnlyBelowBase
  <2> SUFFICES ASSUME ListenerInv, Good PROVE OnlyBelowBase
    BY DEF OnlyBelowBase
  <2>1. /\ Base \in Above(answer.request.frame)
        /\ answer.request \in Requests
        /\ DefaultWorld \/ Base \notin Up(answer.request.world)
    BY DEF ListenerInv, AnswerInv, RightIn, DefaultWorld
  <2>2. Base \notin Up(answer.request.world) => Base \notin Above(answer.request.world)
    BY DEF Above
  <2> QED  BY <2>1, <2>2 DEF OnlyBelowBase
<1> QED  BY <1>1, ListenerInvariance, PTL

-----------------------------------------------------------------------------
(* The first pair of a second.  Pairs come in the order of their stamps, so   *)
(* that the newest state is of the second of the last pair, and a pair of the *)
(* same second is not later to the estimator.                                 *)

FirstsInv ==
  /\ \A k \in DOMAIN stampOf : stampOf[k] <= LastStamp
  /\ stateBuffer # <<>> => Newest.time = Floor(LastStamp)
  /\ FirstOfSecondIsKept

LEMMA FloorGrows ==
  ASSUME NEW m \in Nat, NEW n \in Nat, m <= n
  PROVE  Floor(m) <= Floor(n)
<1> DEFINE p == m \div TicksPerSecond
           q == n \div TicksPerSecond
<1>1. TicksPerSecond \in Nat /\ TicksPerSecond > 0
  BY Bounds
<1>2. p \in Int /\ q \in Int /\ Floor(m) = p * TicksPerSecond /\ Floor(n) = q * TicksPerSecond
  BY <1>1 DEF Floor
<1>3. /\ Floor(m) \in 0..m /\ n < Floor(n) + TicksPerSecond
      /\ Floor(m) \in Int /\ Floor(n) \in Int
  BY FloorIs
<1> HIDE DEF p, q
<1>4. ASSUME q + 1 <= p
      PROVE  FALSE
  <2>1. (q + 1) * TicksPerSecond <= p * TicksPerSecond
    BY <1>1, <1>2, <1>4
  <2>2. (q + 1) * TicksPerSecond = q * TicksPerSecond + TicksPerSecond
    BY <1>1, <1>2
  <2>3. Floor(n) + TicksPerSecond <= Floor(m)
    BY <1>2, <2>1, <2>2
  <2> QED  BY <1>1, <1>3, <2>3
<1>5. p <= q
  BY <1>2, <1>4
<1>6. p * TicksPerSecond <= q * TicksPerSecond
  BY <1>1, <1>2, <1>5
<1> QED  BY <1>2, <1>6

LEMMA PairKeepsFirsts ==
  ASSUME Inv, PairInv, StampsInv, FirstsInv, NEW topic \in Topics, Deliver(topic), Pairs(topic)
  PROVE  FirstsInv'
<1> DEFINE stamp == inbox[topic]
           s == [time |-> Floor(stamp), id |-> states + 1]
<1>1. /\ stamp \in Times /\ stamp \in Nat /\ states \in Nat /\ stampOf \in Seq(Times)
      /\ Len(stampOf) = states /\ LastStamp \in Nat /\ LastStamp < stamp /\ stamp <= MaxTime
  <2>1. stamp \in Times /\ stamp \in (LastStamp + 1)..published
    BY Delivered
  <2> QED  BY <2>1, PairNumbers, Bounds DEF PairInv, Times
<1>2. Add(s) /\ stampOf' = Append(stampOf, stamp)
  BY DEF Pairs, OdomAndAccelCallback, StateTime
<1>3. /\ DOMAIN stampOf = 1..states /\ DOMAIN stampOf' = 1..(states + 1)
      /\ LastStamp' = stamp /\ stampOf'[states + 1] = stamp
      /\ \A k \in 1..states : stampOf'[k] = stampOf[k] /\ stampOf[k] \in Nat
  <2>1. /\ stampOf' \in Seq(Times) /\ Len(stampOf') = states + 1
        /\ LastStamp' = stamp /\ stampOf'[states + 1] = stamp
        /\ \A k \in 1..states : stampOf'[k] = stampOf[k]
    BY <1>1, <1>2, StampAppended
  <2>2. \A k \in 1..states : stampOf[k] \in Nat
    BY <1>1, Bounds DEF Times
  <2> QED  BY <1>1, <2>1, <2>2
<1>4. s \in EstimatorState /\ s.time = Floor(stamp) /\ s.id = states + 1
  <2>1. SetState
    BY PairIsSetState
  <2>2. states + 1 \in 1..MaxStates
    BY <1>1, <2>1, Bounds DEF SetState
  <2>3. Floor(stamp) \in Times
    <3>1. Floor(stamp) \in 0..stamp
      BY <1>1, FloorIs
    <3> QED  BY <1>1, <3>1, Bounds DEF Times
  <2> QED  BY <2>2, <2>3 DEF EstimatorState
<1> HIDE DEF stamp, s
<1>5. /\ \A k \in 1..states : stampOf[k] <= LastStamp
      /\ stateBuffer # <<>> => Newest.time = Floor(LastStamp)
  BY <1>3 DEF FirstsInv
<1>6. \A k \in 1..(states + 1) : stampOf'[k] <= stamp
  BY <1>1, <1>3, <1>5
<1>7. Floor(LastStamp) <= Floor(stamp) /\ Floor(stamp) \in Nat /\ Floor(LastStamp) \in Nat
  BY <1>1, FloorGrows, FloorIs
<1>8. ASSUME NEW r \in Range(stateBuffer), NEW k \in 1..(states + 1),
             Floor(stampOf'[k]) = r.time
      PROVE  stampOf'[r.id] <= stampOf'[k]
  <2>1. r.id \in 1..states
    BY DEF StampsInv
  <2>2. CASE k = states + 1
    <3>1. stampOf'[r.id] <= stamp
      BY <1>1, <1>6, <2>1
    <3> QED  BY <1>3, <2>2, <3>1
  <2>3. CASE k \in 1..states
    BY <1>3, <1>8, <2>1, <2>3 DEF FirstsInv, FirstOfSecondIsKept
  <2> QED  BY <1>1, <2>2, <2>3
<1>9. CASE LaterThanAll(s)
  <2>1. stateBuffer' = PushBack(s)
    BY <1>2, <1>9 DEF Add
  <2>2. Newest' = s
    <3> DEFINE kept == SubSeq(stateBuffer, Room, Len(stateBuffer))
    <3>1. stateBuffer' = Append(kept, s)
      BY <2>1, NumbersAssumption DEF PushBack, Inv, TypeOK
    <3>2. kept \in Seq(EstimatorState)
      <4>1. stateBuffer \in Seq(EstimatorState) /\ Len(stateBuffer) \in Nat /\ capacity \in Nat
            /\ capacity # 0
        BY NumbersAssumption DEF Inv, TypeOK
      <4>2. Room \in 1..Len(stateBuffer) + 1 /\ Len(stateBuffer) \in 0..Len(stateBuffer)
        BY <4>1 DEF Room, Full
      <4> QED  BY <4>1, <4>2, Piece
    <3> HIDE DEF kept
    <3>3. Len(Append(kept, s)) = Len(kept) + 1 /\ Append(kept, s)[Len(kept) + 1] = s
      BY <1>4, <3>2
    <3> QED  BY <3>1, <3>3 DEF Newest
  <2>3. Range(stateBuffer') \subseteq Range(stateBuffer) \cup {s}
    BY <1>2, <1>4, BufferAfterPair
  <2>4. ASSUME NEW k \in 1..(states + 1), Floor(stampOf'[k]) = s.time
        PROVE  stampOf'[s.id] <= stampOf'[k]
    <3>1. CASE k = states + 1
      BY <1>1, <1>3, <1>4, <3>1
    <3>2. CASE k \in 1..states
      <4>1. stateBuffer # <<>>
        BY <1>1, <3>2 DEF StampsInv
      <4>2. s.time > Floor(LastStamp)
        BY <1>5, <1>9, <4>1 DEF LaterThanAll
      <4>3. Floor(stampOf[k]) <= Floor(LastStamp) /\ Floor(stampOf[k]) \in Nat
        <5>1. stampOf[k] \in Nat /\ stampOf[k] <= LastStamp
          BY <1>3, <1>5, <3>2
        <5>2. Floor(stampOf[k]) <= Floor(LastStamp)
          BY <1>1, <5>1, FloorGrows
        <5>3. Floor(stampOf[k]) \in 0..stampOf[k]
          BY <5>1, FloorIs
        <5> QED  BY <5>1, <5>2, <5>3
      <4> QED  BY <1>3, <1>4, <1>7, <2>4, <3>2, <4>2, <4>3
    <3> QED  BY <1>1, <3>1, <3>2
  <2>5. FirstOfSecondIsKept'
    BY <1>3, <1>8, <2>3, <2>4 DEF FirstOfSecondIsKept, Floor
  <2> QED  BY <1>3, <1>4, <1>6, <2>2, <2>5 DEF FirstsInv, Floor
<1>10. CASE ~LaterThanAll(s)
  <2>1. /\ stateBuffer # <<>> /\ ~(s.time > Newest.time)
        /\ Newest.time = Floor(LastStamp)
    BY <1>5, <1>10 DEF LaterThanAll
  <2>2. s.time = Newest.time /\ Floor(stamp) = Floor(LastStamp)
    BY <1>4, <1>7, <2>1
  <2>3. \A i \in DOMAIN stateBuffer : ~Place(i, s)
    <3> SUFFICES ASSUME NEW i \in DOMAIN stateBuffer PROVE ~(s.time < stateBuffer[i].time)
      BY DEF Place
    <3>1. stateBuffer \in Seq(EstimatorState) /\ Ordered(stateBuffer)
      BY DEF Inv, TypeOK
    <3>2. Len(stateBuffer) \in DOMAIN stateBuffer /\ i \in Nat /\ i <= Len(stateBuffer)
      BY <2>1, <3>1
    <3>3. stateBuffer[i].time <= Newest.time
      <4>1. CASE i = Len(stateBuffer)
        <5>1. stateBuffer[i] = Newest
          BY <4>1 DEF Newest
        <5> QED  BY <5>1, <1>7, <2>1
      <4>2. CASE i < Len(stateBuffer)
        <5>1. stateBuffer[i].time <= stateBuffer[Len(stateBuffer)].time
          BY <3>1, <3>2, <4>2 DEF Ordered
        <5> QED  BY <5>1 DEF Newest
      <4> QED  BY <3>1, <3>2, <4>1, <4>2
    <3>4. stateBuffer[i].time \in Nat /\ Newest.time \in Nat
      BY <3>1, <1>7, <2>1, StateTimes
    <3> QED  BY <2>2, <3>3, <3>4
  <2>4. stateBuffer' = stateBuffer
    BY <1>2, <1>10, <2>3 DEF Add
  <2>5. FirstOfSecondIsKept'
    BY <1>3, <1>8, <2>4 DEF FirstOfSecondIsKept, Floor
  <2> QED  BY <1>3, <1>6, <2>1, <2>2, <2>4, <2>5 DEF FirstsInv, Floor, Newest
<1> QED  BY <1>9, <1>10

LEMMA FirstsStep ==
  ASSUME Inv, PairInv, StampsInv, FirstsInv, [ListenerNext]_listenerVars
  PROVE  FirstsInv'
<1>1. CASE \A topic \in Topics : ~Deliver(topic)
  BY <1>1, OnlyDelivery DEF namesVars, FirstsInv, FirstOfSecondIsKept, LastStamp, Newest
<1>2. ASSUME NEW topic \in Topics, Deliver(topic)
      PROVE  FirstsInv'
  <2>1. Pairs(topic) \/ Waits(topic)
    BY <1>2, Delivered
  <2>2. CASE Waits(topic)
    BY <2>2 DEF Waits, FirstsInv, FirstOfSecondIsKept, LastStamp, Newest
  <2> QED  BY <1>2, <2>1, <2>2, PairKeepsFirsts
<1> QED  BY <1>1, <1>2

(* Of the pairs of a second the estimator keeps the first, however many follow
   and whichever are lost on the way (odomAndAccelCallback, setState). *)
THEOREM FirstsAreKept == ListenerSpec => []FirstOfSecondIsKept
<1>1. ListenerInit => FirstsInv
  BY DEF ListenerInit, Init, FirstsInv, FirstOfSecondIsKept, Range
<1>2. ListenerInv /\ FirstsInv /\ [ListenerNext]_listenerVars => FirstsInv'
  BY FirstsStep DEF ListenerInv
<1>3. FirstsInv => FirstOfSecondIsKept
  BY DEF FirstsInv
<1> QED  BY <1>1, <1>2, <1>3, ListenerInvariance, PTL DEF ListenerSpec

=============================================================================
