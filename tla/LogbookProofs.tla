---------------------------- MODULE LogbookProofs ----------------------------
(***************************************************************************)
(* What holds of the timing logs for any number of logs, editors, runs and *)
(* combinations, and for every rule.                                       *)
(*                                                                         *)
(* The invariant is that of the types (TypeInv); with it, every property   *)
(* of the standings is one of a finite set of typed runs, in any state.    *)
(* They rest on what sort.Slice is given: an order that decides between    *)
(* any two elements, and never goes round in a circle, sorts them one way. *)
(***************************************************************************)
EXTENDS Logbook, TLAPS, FiniteSetTheorems, SequenceTheorems

-----------------------------------------------------------------------------
(* What Standing computes.                                                 *)
Standings == [ combo : Combos, invalid : BOOLEAN, best : Int, bestAt : Int,
               hasSecond : BOOLEAN, second : Int ]

(* What the levels compare is typed.                                       *)
LEMMA CombosAreNumbers ==
  ASSUME NEW c \in Combos
  PROVE  c \in Nat /\ ConvertedCC[c] \in Nat
BY StandingsConstants

(* Two second times, absent or not, are comparable.                        *)
LEMMA SecondTrichotomy ==
  ASSUME NEW a \in Standings, NEW b \in Standings
  PROVE  /\ LessSecond(a, b) \/ LessSecond(b, a) \/ SameSecond(a, b)
         /\ ~(LessSecond(a, b) /\ LessSecond(b, a))
         /\ SameSecond(a, b) => ~LessSecond(a, b) /\ SameSecond(b, a)
BY DEF Standings, LessSecond, SameSecond

LEMMA SecondTransitive ==
  ASSUME NEW a \in Standings, NEW b \in Standings, NEW c \in Standings
  PROVE  /\ LessSecond(a, b) /\ LessSecond(b, c) => LessSecond(a, c)
         /\ LessSecond(a, b) /\ SameSecond(b, c) => LessSecond(a, c)
         /\ SameSecond(a, b) /\ LessSecond(b, c) => LessSecond(a, c)
         /\ SameSecond(a, b) /\ SameSecond(b, c) => SameSecond(a, c)
BY DEF Standings, LessSecond, SameSecond

(* So are two displacements, electric or not.                              *)
LEMMA CCTrichotomy ==
  ASSUME NEW c \in Combos, NEW d \in Combos
  PROVE  /\ LessCC(c, d) \/ LessCC(d, c) \/ SameCC(c, d)
         /\ ~(LessCC(c, d) /\ LessCC(d, c))
         /\ SameCC(c, d) => ~LessCC(c, d) /\ SameCC(d, c)
BY CombosAreNumbers DEF LessCC, SameCC

LEMMA CCTransitive ==
  ASSUME NEW c \in Combos, NEW d \in Combos, NEW e \in Combos
  PROVE  /\ LessCC(c, d) /\ LessCC(d, e) => LessCC(c, e)
         /\ LessCC(c, d) /\ SameCC(d, e) => LessCC(c, e)
         /\ SameCC(c, d) /\ LessCC(d, e) => LessCC(c, e)
         /\ SameCC(c, d) /\ SameCC(d, e) => SameCC(c, e)
BY CombosAreNumbers DEF LessCC, SameCC

-----------------------------------------------------------------------------
(* The levels one after the other.                                         *)

LEMMA ValidTrichotomy ==
  ASSUME NEW a \in Standings, NEW b \in Standings, a.combo # b.combo
  PROVE  LessValid(a, b) <=> ~LessValid(b, a)
<1>1. /\ a.combo \in Combos /\ b.combo \in Combos
      /\ a.best \in Int /\ b.best \in Int /\ a.bestAt \in Int /\ b.bestAt \in Int
  BY DEF Standings
<1>2. a.combo \in Nat /\ b.combo \in Nat
  BY <1>1, CombosAreNumbers
<1>3. /\ LessSecond(a, b) \/ LessSecond(b, a) \/ SameSecond(a, b)
      /\ ~(LessSecond(a, b) /\ LessSecond(b, a))
      /\ SameSecond(a, b) => ~LessSecond(a, b) /\ ~LessSecond(b, a)
      /\ SameSecond(a, b) <=> SameSecond(b, a)
  BY SecondTrichotomy
<1>4. /\ LessCC(a.combo, b.combo) \/ LessCC(b.combo, a.combo) \/ SameCC(a.combo, b.combo)
      /\ ~(LessCC(a.combo, b.combo) /\ LessCC(b.combo, a.combo))
      /\ SameCC(a.combo, b.combo) => ~LessCC(a.combo, b.combo) /\ ~LessCC(b.combo, a.combo)
      /\ SameCC(a.combo, b.combo) <=> SameCC(b.combo, a.combo)
  BY <1>1, CCTrichotomy
<1> QED BY <1>1, <1>2, <1>3, <1>4 DEF LessValid

LEMMA ValidTransitive ==
  ASSUME NEW a \in Standings, NEW b \in Standings, NEW c \in Standings,
         LessValid(a, b), LessValid(b, c)
  PROVE  LessValid(a, c)
<1>1. /\ a.combo \in Combos /\ b.combo \in Combos /\ c.combo \in Combos
      /\ a.best \in Int /\ b.best \in Int /\ c.best \in Int
      /\ a.bestAt \in Int /\ b.bestAt \in Int /\ c.bestAt \in Int
  BY DEF Standings
<1>2. a.combo \in Nat /\ b.combo \in Nat /\ c.combo \in Nat
  BY <1>1, CombosAreNumbers
<1>3. /\ LessSecond(a, b) /\ LessSecond(b, c) => LessSecond(a, c)
      /\ LessSecond(a, b) /\ SameSecond(b, c) => LessSecond(a, c)
      /\ SameSecond(a, b) /\ LessSecond(b, c) => LessSecond(a, c)
      /\ SameSecond(a, b) /\ SameSecond(b, c) => SameSecond(a, c)
  BY SecondTransitive
<1>4. /\ LessCC(a.combo, b.combo) /\ LessCC(b.combo, c.combo) => LessCC(a.combo, c.combo)
      /\ LessCC(a.combo, b.combo) /\ SameCC(b.combo, c.combo) => LessCC(a.combo, c.combo)
      /\ SameCC(a.combo, b.combo) /\ LessCC(b.combo, c.combo) => LessCC(a.combo, c.combo)
      /\ SameCC(a.combo, b.combo) /\ SameCC(b.combo, c.combo) => SameCC(a.combo, c.combo)
  BY <1>1, CCTransitive
<1> QED BY <1>1, <1>2, <1>3, <1>4 DEF LessValid

-----------------------------------------------------------------------------
(* lessStanding decides between any two combinations, and only one way.    *)
THEOREM RankingDecides ==
  ASSUME NEW a \in Standings, NEW b \in Standings, a.combo # b.combo
  PROVE  LessStanding(a, b) <=> ~LessStanding(b, a)
<1>1. /\ a.combo \in Nat /\ b.combo \in Nat
      /\ a.invalid \in BOOLEAN /\ b.invalid \in BOOLEAN
  BY CombosAreNumbers DEF Standings
<1>2. LessValid(a, b) <=> ~LessValid(b, a)
  BY ValidTrichotomy
<1>3. CASE a.invalid # b.invalid
  BY <1>1, <1>3 DEF LessStanding
<1>4. CASE a.invalid = b.invalid /\ a.invalid
  <2>1. a.combo < b.combo <=> ~(b.combo < a.combo)
    BY <1>1
  <2>2. /\ LessStanding(a, b) <=> a.combo < b.combo
        /\ LessStanding(b, a) <=> b.combo < a.combo
    BY Zenon, <1>4 DEF LessStanding
  <2> QED BY <2>1, <2>2
<1>5. CASE a.invalid = b.invalid /\ ~a.invalid
  BY <1>2, <1>5 DEF LessStanding
<1> QED BY <1>3, <1>4, <1>5

(* lessStanding never goes round in a circle: with RankingDecides, Rank    *)
(* sorts the standings of an event one way only (internal/domain/rank.go). *)
THEOREM RankingIsTransitive ==
  ASSUME NEW a \in Standings, NEW b \in Standings, NEW c \in Standings,
         LessStanding(a, b), LessStanding(b, c)
  PROVE  LessStanding(a, c)
<1>1. /\ a.combo \in Nat /\ b.combo \in Nat /\ c.combo \in Nat
      /\ a.invalid \in BOOLEAN /\ b.invalid \in BOOLEAN /\ c.invalid \in BOOLEAN
  BY CombosAreNumbers DEF Standings
<1>2. LessValid(a, b) /\ LessValid(b, c) => LessValid(a, c)
  BY ValidTransitive
<1>3. CASE ~a.invalid /\ c.invalid
  BY <1>3 DEF LessStanding
<1>4. CASE a.invalid
  <2>1. b.invalid /\ a.combo < b.combo
    BY Zenon, <1>1, <1>4 DEF LessStanding
  <2>2. c.invalid /\ b.combo < c.combo
    BY Zenon, <1>1, <2>1 DEF LessStanding
  <2>3. a.combo < c.combo
    BY <1>1, <2>1, <2>2
  <2> QED BY Zenon, <1>1, <1>4, <2>2, <2>3 DEF LessStanding
<1>5. CASE ~a.invalid /\ ~c.invalid
  <2>1. ~b.invalid
    BY <1>1, <1>5 DEF LessStanding
  <2> QED BY <1>1, <1>2, <1>5, <2>1 DEF LessStanding
<1> QED BY <1>3, <1>4, <1>5

-----------------------------------------------------------------------------
(* What InOrder returns, by counting: an element's place is one more than  *)
(* the number of those that come before it.  The order is a set of pairs.  *)

Decides(order, S) ==
  /\ \A x \in S : <<x, x>> \notin order
  /\ \A x, y \in S : x # y => <<x, y>> \in order \/ <<y, x>> \in order
  /\ \A x, y, z \in S : <<x, y>> \in order /\ <<y, z>> \in order => <<x, z>> \in order

SortedBy(order, S) ==
  { s \in [ 1 .. Cardinality(S) -> S ] :
      \A i, j \in 1 .. Cardinality(S) : i < j => s[i] # s[j] /\ <<s[j], s[i]>> \notin order }

Before(order, S, x) == { y \in S : <<y, x>> \in order }

LEMMA CountTo ==
  ASSUME NEW n \in Nat
  PROVE  IsFiniteSet(1 .. n) /\ Cardinality(1 .. n) = n
<1>1. IsFiniteSet(1 .. n) /\ Cardinality(1 .. n) = IF 1 > n THEN 0 ELSE n - 1 + 1
  BY FS_Interval, 1 \in Int, n \in Int
<1> QED BY <1>1

LEMMA FewerBefore ==
  ASSUME NEW S, IsFiniteSet(S), NEW order, Decides(order, S), NEW x \in S
  PROVE  /\ Cardinality(Before(order, S, x)) \in Nat
         /\ Cardinality(Before(order, S, x)) < Cardinality(S)
         /\ \A y \in S : <<y, x>> \in order =>
              Cardinality(Before(order, S, y)) < Cardinality(Before(order, S, x))
<1>1. Cardinality(S) \in Nat
  BY FS_CardinalityType
<1>2. \A y \in S : /\ Before(order, S, y) \in SUBSET S
                   /\ y \notin Before(order, S, y)
                   /\ IsFiniteSet(Before(order, S, y))
                   /\ Cardinality(Before(order, S, y)) \in Nat
  <2> SUFFICES ASSUME NEW y \in S
      PROVE /\ Before(order, S, y) \in SUBSET S
            /\ y \notin Before(order, S, y)
            /\ IsFiniteSet(Before(order, S, y))
            /\ Cardinality(Before(order, S, y)) \in Nat
    OBVIOUS
  <2>1. Before(order, S, y) \in SUBSET S /\ y \notin Before(order, S, y)
    BY DEF Before, Decides
  <2>2. IsFiniteSet(Before(order, S, y))
    BY <2>1, FS_Subset
  <2> QED BY <2>1, <2>2, FS_CardinalityType
<1>3. Cardinality(Before(order, S, x)) < Cardinality(S)
  <2>1. /\ Cardinality(Before(order, S, x)) <= Cardinality(S)
        /\ Cardinality(S) = Cardinality(Before(order, S, x)) => S = Before(order, S, x)
    BY <1>2, FS_Subset
  <2> QED BY <1>1, <1>2, <2>1
<1>4. ASSUME NEW y \in S, <<y, x>> \in order
      PROVE  Cardinality(Before(order, S, y)) < Cardinality(Before(order, S, x))
  <2>1. Before(order, S, y) \in SUBSET Before(order, S, x) /\ y \in Before(order, S, x)
    BY <1>4 DEF Before, Decides
  <2>2. /\ Cardinality(Before(order, S, y)) <= Cardinality(Before(order, S, x))
        /\ Cardinality(Before(order, S, x)) = Cardinality(Before(order, S, y))
             => Before(order, S, x) = Before(order, S, y)
    BY <1>2, <2>1, FS_Subset
  <2>3. y \notin Before(order, S, y)
    BY <1>2
  <2>4. Cardinality(Before(order, S, x)) # Cardinality(Before(order, S, y))
    BY <2>1, <2>2, <2>3
  <2> QED BY <1>2, <2>2, <2>4
<1> QED BY <1>2, <1>3, <1>4

LEMMA CanBeSorted ==
  ASSUME NEW S, IsFiniteSet(S), NEW order, Decides(order, S)
  PROVE  \E s \in SortedBy(order, S) : TRUE
<1> DEFINE n     == Cardinality(S)
           place == [ x \in S |-> Cardinality(Before(order, S, x)) + 1 ]
           s     == [ i \in 1 .. n |-> CHOOSE x \in S : place[x] = i ]
<1>1. n \in Nat /\ IsFiniteSet(1 .. n) /\ Cardinality(1 .. n) = n
  BY FS_CardinalityType, CountTo
<1>2. place \in [ S -> 1 .. n ]
  <2>1. \A x \in S : Cardinality(Before(order, S, x)) + 1 \in 1 .. n
    BY <1>1, FewerBefore
  <2> QED BY <2>1
<1>3. \A x, y \in S : <<y, x>> \in order => place[y] < place[x]
  <2> SUFFICES ASSUME NEW x \in S, NEW y \in S, <<y, x>> \in order PROVE place[y] < place[x]
    OBVIOUS
  <2>1. /\ Cardinality(Before(order, S, y)) < Cardinality(Before(order, S, x))
        /\ Cardinality(Before(order, S, y)) \in Nat /\ Cardinality(Before(order, S, x)) \in Nat
    BY FewerBefore
  <2> QED BY <2>1
<1> HIDE DEF place
<1>4. place \in Injection(S, 1 .. n)
  <2>1. ASSUME NEW x \in S, NEW y \in S, place[x] = place[y] PROVE x = y
    <3>1. place[x] \in Int /\ place[y] \in Int
      BY <1>1, <1>2
    <3>2. <<x, y>> \notin order /\ <<y, x>> \notin order
      BY <1>3, <2>1, <3>1
    <3> QED BY <3>2 DEF Decides
  <2> QED BY <1>2, <2>1 DEF Injection, IsInjective
<1>5. place \in Surjection(S, 1 .. n)
  BY <1>1, <1>4, FS_Injection
<1>6. \A i \in 1 .. n : s[i] \in S /\ place[s[i]] = i
  <2> SUFFICES ASSUME NEW i \in 1 .. n PROVE s[i] \in S /\ place[s[i]] = i
    OBVIOUS
  <2>1. \E x \in S : place[x] = i
    BY <1>5 DEF Surjection
  <2> QED BY <2>1
<1>7. s \in [ 1 .. n -> S ]
  BY <1>6
<1> HIDE DEF s
<1>8. \A i, j \in 1 .. n : i < j => s[i] # s[j] /\ <<s[j], s[i]>> \notin order
  <2> SUFFICES ASSUME NEW i \in 1 .. n, NEW j \in 1 .. n, i < j
      PROVE s[i] # s[j] /\ <<s[j], s[i]>> \notin order
    OBVIOUS
  <2>1. /\ s[i] \in S /\ place[s[i]] = i /\ i \in Nat
        /\ s[j] \in S /\ place[s[j]] = j /\ j \in Nat
    BY <1>1, <1>6
  <2>2. <<s[j], s[i]>> \in order => place[s[j]] < place[s[i]]
    BY <1>3, <2>1
  <2> QED BY <2>1, <2>2
<1>9. s \in SortedBy(order, S)
  BY <1>7, <1>8 DEF SortedBy
<1> QED BY <1>9

(* All of the set is there, each element at one place, and an element      *)
(* comes before another if the order says so.                              *)
LEMMA SortedListsAll ==
  ASSUME NEW S, IsFiniteSet(S), NEW order, Decides(order, S), NEW s \in SortedBy(order, S)
  PROVE  /\ s \in [ 1 .. Cardinality(S) -> S ]
         /\ Cardinality(S) \in Nat
         /\ \A x \in S : \E i \in 1 .. Cardinality(S) : s[i] = x
         /\ \A i, j \in 1 .. Cardinality(S) : s[i] = s[j] => i = j
         /\ \A i, j \in 1 .. Cardinality(S) : i < j <=> <<s[i], s[j]>> \in order
<1> DEFINE n == Cardinality(S)
<1>1. n \in Nat /\ IsFiniteSet(1 .. n) /\ Cardinality(1 .. n) = n
  BY FS_CardinalityType, CountTo
<1>2. s \in [ 1 .. n -> S ]
  BY DEF SortedBy
<1>3. \A i, j \in 1 .. n : i < j => s[i] # s[j] /\ <<s[j], s[i]>> \notin order
  BY DEF SortedBy
<1> HIDE DEF n
<1>4. \A i, j \in 1 .. n : s[i] = s[j] => i = j
  <2> SUFFICES ASSUME NEW i \in 1 .. n, NEW j \in 1 .. n, s[i] = s[j] PROVE i = j
    OBVIOUS
  <2>1. i \in Int /\ j \in Int
    BY <1>1
  <2>2. ~(i < j) /\ ~(j < i)
    BY <1>3
  <2> QED BY <2>1, <2>2
<1>5. s \in Injection(1 .. n, S)
  BY <1>2, <1>4 DEF Injection, IsInjective
<1>6. s \in Surjection(1 .. n, S)
  BY <1>1, <1>5, FS_Injection DEF n
<1>7. \A x \in S : \E i \in 1 .. n : s[i] = x
  BY <1>6 DEF Surjection
<1>8. \A i, j \in 1 .. n : i < j <=> <<s[i], s[j]>> \in order
  <2> SUFFICES ASSUME NEW i \in 1 .. n, NEW j \in 1 .. n PROVE i < j <=> <<s[i], s[j]>> \in order
    OBVIOUS
  <2>1. i \in Int /\ j \in Int /\ s[i] \in S /\ s[j] \in S
    BY <1>1, <1>2
  <2>2. CASE i < j
    BY <1>3, <2>1, <2>2 DEF Decides
  <2>3. CASE j < i
    BY <1>3, <2>1, <2>3
  <2>4. CASE i = j
    BY <2>1, <2>4 DEF Decides
  <2> QED BY <2>1, <2>2, <2>3, <2>4
<1> QED BY <1>1, <1>2, <1>4, <1>7, <1>8 DEF n

-----------------------------------------------------------------------------
(* The types.                                                              *)

TypeInv == TypeOK /\ DOMAIN request = Requests

LEMMA RowsEdited ==
  ASSUME NEW row \in Rows, NEW combo \in Combos \cup {Nobody}, NEW body \in Bodies
  PROVE  /\ Edited(row, combo, body) \in Rows
         /\ Edited(row, combo, body).deleted = row.deleted
         /\ row.body \in Bodies
         /\ [ row EXCEPT !.deleted = TRUE ] \in Rows
         /\ [ row EXCEPT !.deleted = TRUE ].deleted
BY DEF Edited, Rows

LEMMA RemovedAt ==
  ASSUME NEW S, NEW s \in Seq(S), NEW i \in 1 .. Len(s)
  PROVE  /\ RemoveAt(s, i) \in Seq(S)
         /\ Len(RemoveAt(s, i)) = Len(s) - 1
         /\ \A k \in 1 .. Len(s) - 1 : RemoveAt(s, i)[k] = IF k < i THEN s[k] ELSE s[k + 1]
<1> DEFINE front == SubSeq(s, 1, i - 1)
           back  == SubSeq(s, i + 1, Len(s))
<1>1. /\ front \in Seq(S) /\ Len(front) = i - 1
      /\ \A k \in 1 .. i - 1 : front[k] = s[k]
  OBVIOUS
<1>2. /\ back \in Seq(S) /\ Len(back) = Len(s) - i
      /\ \A k \in 1 .. Len(s) - i : back[k] = s[k + i]
  OBVIOUS
<1>3. RemoveAt(s, i) = front \o back
  BY DEF RemoveAt
<1> HIDE DEF front, back
<1>4. /\ front \o back \in Seq(S) /\ Len(front \o back) = Len(front) + Len(back)
      /\ \A k \in 1 .. Len(front) + Len(back) :
           (front \o back)[k] = IF k <= Len(front) THEN front[k] ELSE back[k - Len(front)]
  BY <1>1, <1>2, ConcatProperties
<1>5. Len(s) \in Nat /\ i \in Int /\ 1 <= i /\ i <= Len(s)
  OBVIOUS
<1>6. ASSUME NEW k \in 1 .. Len(s) - 1
      PROVE  (front \o back)[k] = IF k < i THEN s[k] ELSE s[k + 1]
  <2>1. k \in 1 .. Len(front) + Len(back)
    BY <1>1, <1>2, <1>5
  <2>2. (front \o back)[k] = IF k <= i - 1 THEN front[k] ELSE back[k - (i - 1)]
    BY <1>1, <1>4, <2>1
  <2>3. CASE k < i
    BY <1>1, <1>5, <2>2, <2>3
  <2>4. CASE ~(k < i)
    <3>1. k - (i - 1) \in 1 .. Len(s) - i /\ k - (i - 1) + i = k + 1
      BY <1>5, <2>4
    <3> QED BY <1>2, <1>5, <2>2, <2>4, <3>1
  <2> QED BY <2>3, <2>4
<1>7. Len(front \o back) = Len(s) - 1
  BY <1>1, <1>2, <1>4, <1>5
<1> QED BY <1>3, <1>4, <1>6, <1>7

(* A set of places has a first one.                                        *)
LEMMA Least ==
  ASSUME NEW n \in Nat, NEW I \in SUBSET (1 .. n), I # {}
  PROVE  Min(I) \in I /\ \A k \in I : Min(I) <= k
<1> DEFINE order == { p \in I \X I : p[1] < p[2] }
<1>1. IsFiniteSet(I) /\ I \subseteq Int
  <2>1. IsFiniteSet(1 .. n)
    BY CountTo
  <2>2. IsFiniteSet(I)
    BY <2>1, FS_Subset
  <2>3. \A x \in I : x \in Int
    OBVIOUS
  <2> QED BY <2>2, <2>3
<1>2. Decides(order, I)
  BY <1>1 DEF Decides
<1>3. \A x, y \in I : <<x, y>> \in order <=> x < y
  OBVIOUS
<1> HIDE DEF order
<1>4. PICK s \in SortedBy(order, I) : TRUE
  BY <1>1, <1>2, CanBeSorted
<1>5. /\ s \in [ 1 .. Cardinality(I) -> I ] /\ Cardinality(I) \in Nat
      /\ \A x \in I : \E i \in 1 .. Cardinality(I) : s[i] = x
      /\ \A i, j \in 1 .. Cardinality(I) : i < j <=> <<s[i], s[j]>> \in order
  BY <1>1, <1>2, <1>4, SortedListsAll
<1>6. 1 \in 1 .. Cardinality(I) /\ s[1] \in I
  <2>1. \E i \in 1 .. Cardinality(I) : TRUE
    BY <1>5
  <2> HIDE DEF order
  <2>2. 1 \in 1 .. Cardinality(I)
    BY <1>5, <2>1
  <2> QED BY <1>5, <2>2
<1>7. ASSUME NEW k \in I PROVE s[1] <= k
  <2>1. PICK j \in 1 .. Cardinality(I) : s[j] = k
    BY <1>5
  <2>2. CASE j = 1
    BY <1>1, <2>1, <2>2
  <2>3. CASE j # 1
    <3>1. 1 < j
      BY <1>5, <2>3
    <3>2. <<s[1], s[j]>> \in order
      BY <1>5, <1>6, <3>1
    <3>3. s[1] < k
      BY <1>3, <1>6, <2>1, <3>2
    <3>4. \A x \in I : x \in Int
      BY <1>1
    <3>5. s[1] \in Int /\ k \in Int
      BY <1>6, <3>4
    <3> QED BY <3>3, <3>5
  <2> QED BY <2>2, <2>3
<1> QED BY <1>6, <1>7 DEF Min

(* The first warning about a log: the place removeByLogID finds.           *)
LEMMA FirstOf ==
  ASSUME NEW S, NEW s \in Seq(S), NEW e, \E i \in 1 .. Len(s) : s[i] = e
  PROVE  LET i == SelectInSeq(s, LAMBDA v : v = e) IN i \in 1 .. Len(s) /\ s[i] = e
<1> DEFINE I == { i \in 1 .. Len(s) : s[i] = e }
<1>1. I # {} /\ I \in SUBSET (1 .. Len(s)) /\ Len(s) \in Nat
  OBVIOUS
<1>2. SelectInSeq(s, LAMBDA v : v = e) = Min(I)
  BY <1>1 DEF SelectInSeq
<1>3. Min(I) \in I
  <2> HIDE DEF I
  <2> QED BY <1>1, Least
<1> QED BY <1>2, <1>3

LEMMA RemovedFirst ==
  ASSUME NEW S, NEW s \in Seq(S), NEW e
  PROVE  \/ /\ RemoveFirst(s, e) = s
            /\ e \notin ToSet(s)
         \/ \E i \in 1 .. Len(s) : s[i] = e /\ RemoveFirst(s, e) = RemoveAt(s, i)
<1>1. CASE \E i \in 1 .. Len(s) : s[i] = e
  <2> DEFINE i == SelectInSeq(s, LAMBDA v : v = e)
  <2>1. i \in 1 .. Len(s) /\ s[i] = e
    BY <1>1, FirstOf
  <2>2. RemoveFirst(s, e) = RemoveAt(s, i)
    BY <1>1 DEF RemoveFirst
  <2> HIDE DEF i
  <2> QED BY <2>1, <2>2
<1>2. CASE ~\E i \in 1 .. Len(s) : s[i] = e
  BY <1>2 DEF RemoveFirst, ToSet
<1> QED BY <1>1, <1>2

-----------------------------------------------------------------------------
LEMMA Requested ==
  ASSUME TypeInv, NEW q \in Requests
  PROVE  \/ request[q] = Idle /\ request[q].does = "nothing"
         \/ /\ request[q] \in [ does : {"update", "assign"}, log : 1 .. lastId, row : Rows ]
            /\ request[q].does \in {"update", "assign"}
            /\ request[q].log \in 1 .. lastId
            /\ request[q].row \in Rows
         \/ /\ request[q] \in [ does : {"unwarn"}, log : 1 .. lastId ]
            /\ request[q].does = "unwarn"
            /\ request[q].log \in 1 .. lastId
<1>1. \/ request[q] = Idle
      \/ request[q] \in [ does : {"update", "assign"}, log : 1 .. lastId, row : Rows ]
      \/ request[q] \in [ does : {"unwarn"}, log : 1 .. lastId ]
  BY DEF TypeInv, TypeOK
<1>2. CASE request[q] = Idle
  BY <1>2 DEF Idle
<1>3. CASE request[q] \in [ does : {"update", "assign"}, log : 1 .. lastId, row : Rows ]
  BY <1>3
<1>4. CASE request[q] \in [ does : {"unwarn"}, log : 1 .. lastId ]
  BY <1>4
<1> QED BY <1>1, <1>2, <1>3, <1>4

(* A request's step changes that request alone.                            *)
LEMMA OneRequest ==
  ASSUME TypeInv, NEW q \in Requests, NEW next, request' = [ request EXCEPT ![q] = next ]
  PROVE  /\ DOMAIN request' = Requests
         /\ request'[q] = next
         /\ \A p \in Requests : p # q => request'[p] = request[p]
<1>1. DOMAIN request = Requests
  BY DEF TypeInv
<1> QED BY <1>1

(* More rows, no other: what insertLog does.                               *)
LEMMA Inserted ==
  ASSUME TypeInv, NEW row \in Rows, InsertLog(row)
  PROVE  /\ lastId' = lastId + 1 /\ lastId' \in 1 .. MaxLogs
         /\ lastId' \notin DOMAIN logs
         /\ DOMAIN logs' = DOMAIN logs \cup {lastId'}
         /\ logs'[lastId'] = row
         /\ \A id \in DOMAIN logs : logs'[id] = logs[id]
         /\ DOMAIN logs' \subseteq 1 .. lastId'
         /\ \A id \in DOMAIN logs' : logs'[id] \in Rows
<1>1. /\ lastId \in 0 .. MaxLogs /\ MaxLogs \in Nat /\ DOMAIN logs \subseteq 1 .. lastId
      /\ \A id \in DOMAIN logs : logs[id] \in Rows
  BY LogbookConstants DEF TypeInv, TypeOK
<1>2. lastId' = lastId + 1 /\ lastId < MaxLogs
  BY DEF InsertLog
<1>3. lastId' \in 1 .. MaxLogs /\ lastId' \notin DOMAIN logs
  BY <1>1, <1>2
<1>4. logs' = [ id \in DOMAIN logs \cup {lastId'} |-> IF id = lastId' THEN row ELSE logs[id] ]
  BY DEF InsertLog
<1>5. /\ DOMAIN logs' = DOMAIN logs \cup {lastId'}
      /\ logs'[lastId'] = row
      /\ \A id \in DOMAIN logs : logs'[id] = logs[id]
  BY <1>3, <1>4
<1>6. DOMAIN logs' \subseteq 1 .. lastId'
  BY <1>1, <1>2, <1>5
<1>7. \A id \in DOMAIN logs' : logs'[id] \in Rows
  BY <1>1, <1>5
<1> QED BY <1>2, <1>3, <1>5, <1>6, <1>7

LEMMA LaterIds ==
  ASSUME TypeInv, lastId' \in Nat, lastId <= lastId'
  PROVE  /\ warnings \in Seq(1 .. lastId')
         /\ \A q \in Requests :
              \/ request[q] = Idle
              \/ request[q] \in [ does : {"update", "assign"}, log : 1 .. lastId', row : Rows ]
              \/ request[q] \in [ does : {"unwarn"}, log : 1 .. lastId' ]
         /\ goal \in 0 .. lastId'
         /\ lastId \in Nat
<1>1. lastId \in Nat /\ 1 .. lastId \subseteq 1 .. lastId'
  BY LogbookConstants DEF TypeInv, TypeOK
<1>2. warnings \in Seq(1 .. lastId')
  <2>1. warnings \in Seq(1 .. lastId)
    BY DEF TypeInv, TypeOK
  <2> QED BY <1>1, <2>1, SeqMonotonic
<1>3. goal \in 0 .. lastId'
  BY <1>1 DEF TypeInv, TypeOK
<1>4. ASSUME NEW q \in Requests
      PROVE  \/ request[q] = Idle
             \/ request[q] \in [ does : {"update", "assign"}, log : 1 .. lastId', row : Rows ]
             \/ request[q] \in [ does : {"unwarn"}, log : 1 .. lastId' ]
  <2>1. \/ request[q] = Idle
        \/ request[q] \in [ does : {"update", "assign"}, log : 1 .. lastId, row : Rows ]
        \/ request[q] \in [ does : {"unwarn"}, log : 1 .. lastId ]
    BY DEF TypeInv, TypeOK
  <2> QED BY <1>1, <2>1
<1> QED BY <1>1, <1>2, <1>3, <1>4

LEMMA NewRow ==
  ASSUME NEW combo \in Combos \cup {Nobody}, NEW body \in Bodies, NEW at \in Instants
  PROVE  [ combo |-> combo, body |-> body, at |-> at, deleted |-> FALSE ] \in Rows
BY DEF Rows

LEMMA InitTypes == Init => TypeInv
<1> SUFFICES ASSUME Init PROVE TypeInv
  OBVIOUS
<1>1. logs = << >> /\ DOMAIN logs = {} /\ lastId = 0 /\ goal = 0 /\ inGrace = {} /\ changes = 0
  BY DEF Init, NoLog
<1>5. removed \subseteq Combos
  BY DEF Init
<1>2. warnings \in Seq(1 .. lastId)
  BY DEF Init
<1>3. DOMAIN request = Requests /\ \A q \in Requests : request[q] = Idle
  BY DEF Init
<1>4. 0 \in 0 .. MaxLogs /\ 0 \in 0 .. MaxChanges /\ 0 \in 0 .. 0
  BY LogbookConstants
<1> QED BY <1>1, <1>2, <1>3, <1>4, <1>5 DEF TypeInv, TypeOK

LEMMA NextTypes == TypeInv /\ [Next]_vars => TypeInv'
<1> SUFFICES ASSUME TypeInv, [Next]_vars PROVE TypeInv'
  OBVIOUS
<1>a. /\ DOMAIN logs \subseteq 1 .. lastId
      /\ \A id \in DOMAIN logs : logs[id] \in Rows
      /\ lastId \in 0 .. MaxLogs /\ removed \subseteq Combos
      /\ warnings \in Seq(1 .. lastId)
      /\ goal \in 0 .. lastId
      /\ inGrace \subseteq DOMAIN logs
      /\ changes \in 0 .. MaxChanges
      /\ DOMAIN request = Requests
  BY DEF TypeInv, TypeOK
<1>r. \A q \in Requests :
        \/ request[q] = Idle
        \/ request[q] \in [ does : {"update", "assign"}, log : 1 .. lastId, row : Rows ]
        \/ request[q] \in [ does : {"unwarn"}, log : 1 .. lastId ]
  BY DEF TypeInv, TypeOK
<1>c. Change => changes' \in 0 .. MaxChanges
  BY <1>a, LogbookConstants DEF Change
<1>i. ASSUME NEW row \in Rows, InsertLog(row), Change, request' = request, warnings' = warnings,
             removed' = removed, goal' \in {goal, lastId'}, inGrace' \in {inGrace, inGrace \cup {lastId'}}
      PROVE  TypeInv'
  <2>1. /\ lastId' = lastId + 1 /\ lastId' \in 1 .. MaxLogs
        /\ DOMAIN logs' = DOMAIN logs \cup {lastId'}
        /\ DOMAIN logs' \subseteq 1 .. lastId'
        /\ \A id \in DOMAIN logs' : logs'[id] \in Rows
    BY <1>i, Inserted
  <2>2. lastId' \in Nat /\ lastId <= lastId'
    BY <1>a, <2>1, LogbookConstants
  <2>3. /\ warnings \in Seq(1 .. lastId')
        /\ \A q \in Requests :
              \/ request[q] = Idle
              \/ request[q] \in [ does : {"update", "assign"}, log : 1 .. lastId', row : Rows ]
              \/ request[q] \in [ does : {"unwarn"}, log : 1 .. lastId' ]
        /\ goal \in 0 .. lastId'
    BY <2>2, LaterIds
  <2>4. goal' \in 0 .. lastId' /\ lastId' \in 0 .. MaxLogs
    BY <1>i, <2>1, <2>2, <2>3, LogbookConstants
  <2>5. inGrace' \subseteq DOMAIN logs'
    BY <1>a, <1>i, <2>1
  <2>6. changes' \in 0 .. MaxChanges
    BY <1>c, <1>i
  <2>7. /\ warnings' \in Seq(1 .. lastId')
        /\ \A q \in Requests :
              \/ request'[q] = Idle
              \/ request'[q] \in [ does : {"update", "assign"}, log : 1 .. lastId', row : Rows ]
              \/ request'[q] \in [ does : {"unwarn"}, log : 1 .. lastId' ]
        /\ DOMAIN request' = Requests
    BY <1>a, <1>i, <2>3
  <2>8. removed' \subseteq Combos
    BY <1>a, <1>i
  <2> QED BY <2>1, <2>4, <2>5, <2>6, <2>7, <2>8 DEF TypeInv, TypeOK, Idle, Rows
<1>q. ASSUME NEW q \in Requests, NEW next, request' = [ request EXCEPT ![q] = next ],
             \/ next = Idle
             \/ next \in [ does : {"update", "assign"}, log : 1 .. lastId, row : Rows ]
             \/ next \in [ does : {"unwarn"}, log : 1 .. lastId ]
      PROVE  /\ DOMAIN request' = Requests
             /\ \A p \in Requests :
                  \/ request'[p] = Idle
                  \/ request'[p] \in [ does : {"update", "assign"}, log : 1 .. lastId, row : Rows ]
                  \/ request'[p] \in [ does : {"unwarn"}, log : 1 .. lastId ]
  <2>1. /\ DOMAIN request' = Requests
        /\ request'[q] = next
        /\ \A p \in Requests : p # q => request'[p] = request[p]
    BY <1>q, OneRequest
  <2> QED BY Zenon, <1>r, <1>q, <2>1
(* What is left to show of a step that inserts nothing.                    *)
<1>s. ASSUME lastId' = lastId, removed' \subseteq Combos, goal' \in {goal, NoLog},
             DOMAIN logs' \subseteq DOMAIN logs, \A id \in DOMAIN logs' : logs'[id] \in Rows,
             inGrace' \subseteq DOMAIN logs', warnings' \in Seq(1 .. lastId),
             changes' \in 0 .. MaxChanges, DOMAIN request' = Requests,
             \A p \in Requests :
               \/ request'[p] = Idle
               \/ request'[p] \in [ does : {"update", "assign"}, log : 1 .. lastId, row : Rows ]
               \/ request'[p] \in [ does : {"unwarn"}, log : 1 .. lastId ]
      PROVE  TypeInv'
  <2>1. goal' \in 0 .. lastId'
    BY <1>a, <1>s DEF NoLog
  <2>2. /\ DOMAIN logs' \subseteq 1 .. lastId' /\ lastId' \in 0 .. MaxLogs
        /\ warnings' \in Seq(1 .. lastId')
    BY <1>a, <1>s
  <2>3. \A p \in Requests :
          \/ request'[p] = Idle
          \/ request'[p] \in [ does : {"update", "assign"}, log : 1 .. lastId', row : Rows ]
          \/ request'[p] \in [ does : {"unwarn"}, log : 1 .. lastId' ]
    BY <1>s
  <2> QED BY <1>s, <2>1, <2>2, <2>3 DEF TypeInv, TypeOK, Idle, Rows
<1>1. CASE CreateLog
  <2>1. PICK combo \in Combos, body \in Bodies, at \in Instants :
          /\ Change
          /\ InsertLog([ combo |-> combo, body |-> body, at |-> at, deleted |-> FALSE ])
          /\ UNCHANGED <<removed, warnings, request, goal, inGrace>>
    BY <1>1 DEF CreateLog
  <2> QED BY <1>i, <2>1, NewRow
<1>2. CASE Finish
  <2>1. PICK combo \in Combos, body \in Bodies, at \in Instants :
          /\ Change
          /\ InsertLog([ combo |-> combo, body |-> body, at |-> at, deleted |-> FALSE ])
          /\ inGrace' = inGrace \cup {lastId'}
          /\ UNCHANGED <<removed, warnings, request, goal>>
    BY <1>2 DEF Finish
  <2> QED BY <1>i, <2>1, NewRow
<1>3. CASE ConfirmFinish
  BY <1>3, <1>a, <1>r, <1>s DEF ConfirmFinish
<1>4. CASE UndoGoal
  <2>1. PICK id \in inGrace :
          /\ inGrace' = inGrace \ {id}
          /\ logs' = Restrict(logs, DOMAIN logs \ {id})
          /\ UNCHANGED <<removed, lastId, warnings, request, goal, changes>>
    BY <1>4 DEF UndoGoal
  <2>2. /\ DOMAIN logs' = DOMAIN logs \ {id}
        /\ \A i \in DOMAIN logs' : logs'[i] = logs[i]
    BY <2>1 DEF Restrict
  <2> QED BY <1>a, <1>r, <1>s, <2>1, <2>2
<1>5. CASE GoalOfNobody
  <2>1. PICK body \in Bodies, at \in Instants :
          /\ Change
          /\ InsertLog([ combo |-> Nobody, body |-> body, at |-> at, deleted |-> FALSE ])
          /\ goal' = lastId'
          /\ UNCHANGED <<removed, warnings, request, inGrace>>
    BY <1>5 DEF GoalOfNobody
  <2> QED BY <1>i, <2>1, NewRow
<1>6. CASE Warn
  <2>1. goal # NoLog /\ warnings' = Append(warnings, goal) /\ goal' = NoLog
        /\ UNCHANGED <<removed, logs, lastId, request, inGrace, changes>>
    BY <1>6 DEF Warn
  <2>2. goal \in 1 .. lastId
    BY <1>a, <2>1 DEF NoLog
  <2>3. warnings' \in Seq(1 .. lastId)
    BY <1>a, <2>1, <2>2
  <2> QED BY <1>a, <1>r, <1>s, <2>1, <2>3
<1>7. ASSUME NEW q \in Requests, BeginUpdate(q) PROVE TypeInv'
  <2>1. PICK id \in DOMAIN logs, combo \in Combos \cup {Nobody}, body \in Bodies :
          /\ Change
          /\ request' = [ request EXCEPT ![q] =
                 [ does |-> "update", log |-> id, row |-> Edited(logs[id], combo, body) ] ]
          /\ UNCHANGED <<removed, logs, lastId, warnings, goal, inGrace>>
    BY <1>7 DEF BeginUpdate
  <2>2. Edited(logs[id], combo, body) \in Rows
    BY <1>a, RowsEdited
  <2>3. [ does |-> "update", log |-> id, row |-> Edited(logs[id], combo, body) ]
          \in [ does : {"update", "assign"}, log : 1 .. lastId, row : Rows ]
    BY <1>a, <2>2
  <2> QED BY <1>a, <1>c, <1>q, <1>s, <2>1, <2>3
<1>8. ASSUME NEW q \in Requests, BeginAssign(q) PROVE TypeInv'
  <2>1. PICK id \in DOMAIN logs, combo \in Combos :
          /\ Change
          /\ request' = [ request EXCEPT ![q] =
                 [ does |-> "assign", log |-> id, row |-> Edited(logs[id], combo, logs[id].body) ] ]
          /\ UNCHANGED <<removed, logs, lastId, warnings, goal, inGrace>>
    BY <1>8 DEF BeginAssign
  <2>2. logs[id] \in Rows /\ logs[id].body \in Bodies
    BY <1>a DEF Rows
  <2>3. Edited(logs[id], combo, logs[id].body) \in Rows
    BY <2>2, RowsEdited
  <2>4. [ does |-> "assign", log |-> id, row |-> Edited(logs[id], combo, logs[id].body) ]
          \in [ does : {"update", "assign"}, log : 1 .. lastId, row : Rows ]
    BY <1>a, <2>3
  <2> QED BY <1>a, <1>c, <1>q, <1>s, <2>1, <2>4
<1>9. ASSUME NEW q \in Requests, WriteLog(q) PROVE TypeInv'
  <2> DEFINE id   == request[q].log
             next == IF request[q].does = "assign" THEN [ does |-> "unwarn", log |-> id ] ELSE Idle
  <2>1. /\ request[q].does \in {"update", "assign"}
        /\ logs' = IF id \in DOMAIN logs THEN [ logs EXCEPT ![id] = request[q].row ] ELSE logs
        /\ request' = [ request EXCEPT ![q] = next ]
        /\ UNCHANGED <<removed, lastId, warnings, goal, inGrace, changes>>
    BY <1>9 DEF WriteLog
  <2>2. id \in 1 .. lastId /\ request[q].row \in Rows
    BY <2>1, Requested
  <2>3. /\ DOMAIN logs' = DOMAIN logs
        /\ \A i \in DOMAIN logs' : logs'[i] \in Rows
    BY <1>a, <2>1, <2>2
  <2>4. next = Idle \/ next \in [ does : {"unwarn"}, log : 1 .. lastId ]
    BY <2>2
  <2> HIDE DEF next, id
  <2>5. /\ DOMAIN request' = Requests
        /\ \A p \in Requests :
             \/ request'[p] = Idle
             \/ request'[p] \in [ does : {"update", "assign"}, log : 1 .. lastId, row : Rows ]
             \/ request'[p] \in [ does : {"unwarn"}, log : 1 .. lastId ]
    BY <1>q, <2>1, <2>4
  <2> QED BY <1>a, <1>s, <2>1, <2>3, <2>5
<1>10. ASSUME NEW q \in Requests, DeleteLog(q) PROVE TypeInv'
  <2>1. PICK id \in DOMAIN logs :
          /\ Change
          /\ logs' = [ logs EXCEPT ![id].deleted = TRUE ]
          /\ request' = [ request EXCEPT ![q] = [ does |-> "unwarn", log |-> id ] ]
          /\ UNCHANGED <<removed, lastId, warnings, goal, inGrace>>
    BY <1>10 DEF DeleteLog
  <2>2. [ logs[id] EXCEPT !.deleted = TRUE ] \in Rows
    BY <1>a DEF Rows
  <2>3. /\ DOMAIN logs' = DOMAIN logs
        /\ \A i \in DOMAIN logs' : logs'[i] \in Rows
    BY <1>a, <2>1, <2>2
  <2>4. [ does |-> "unwarn", log |-> id ] \in [ does : {"unwarn"}, log : 1 .. lastId ]
    BY <1>a
  <2>5. /\ DOMAIN request' = Requests
        /\ \A p \in Requests :
             \/ request'[p] = Idle
             \/ request'[p] \in [ does : {"update", "assign"}, log : 1 .. lastId, row : Rows ]
             \/ request'[p] \in [ does : {"unwarn"}, log : 1 .. lastId ]
    BY <1>q, <2>1, <2>4
  <2> QED BY <1>a, <1>c, <1>s, <2>1, <2>3, <2>5
<1>11. ASSUME NEW q \in Requests, Unwarn(q) PROVE TypeInv'
  <2>1. /\ warnings' = RemoveFirst(warnings, request[q].log)
        /\ request' = [ request EXCEPT ![q] = Idle ]
        /\ UNCHANGED <<removed, logs, lastId, goal, inGrace, changes>>
    BY <1>11 DEF Unwarn
  <2>2. warnings' \in Seq(1 .. lastId)
    <3>1. \/ warnings' = warnings
          \/ \E i \in 1 .. Len(warnings) : warnings' = RemoveAt(warnings, i)
      BY <1>a, <2>1, RemovedFirst
    <3>2. \A i \in 1 .. Len(warnings) : RemoveAt(warnings, i) \in Seq(1 .. lastId)
      BY <1>a, RemovedAt
    <3> QED BY Zenon, <1>a, <3>1, <3>2
  <2>5. /\ DOMAIN request' = Requests
        /\ \A p \in Requests :
             \/ request'[p] = Idle
             \/ request'[p] \in [ does : {"update", "assign"}, log : 1 .. lastId, row : Rows ]
             \/ request'[p] \in [ does : {"unwarn"}, log : 1 .. lastId ]
    BY <1>q, <2>1
  <2> QED BY <1>a, <1>s, <2>1, <2>2, <2>5
<1>12. CASE Dismiss
  <2>1. /\ \/ \E i \in DOMAIN warnings : warnings' = RemoveAt(warnings, i)
           \/ warnings' = <<>>
        /\ UNCHANGED <<removed, logs, lastId, request, goal, inGrace, changes>>
    BY <1>12 DEF Dismiss
  <2>2. \A i \in DOMAIN warnings : RemoveAt(warnings, i) \in Seq(1 .. lastId)
    BY <1>a, RemovedAt
  <2>3. << >> \in Seq(1 .. lastId)
    OBVIOUS
  <2>4. warnings' \in Seq(1 .. lastId)
    BY Zenon, <2>1, <2>2, <2>3
  <2> QED BY <1>a, <1>r, <1>s, <2>1, <2>4
<1>13. CASE Restart
  <2>1. /\ warnings' = <<>> /\ request' = [ q \in Requests |-> Idle ] /\ goal' = NoLog
        /\ inGrace' = {} /\ UNCHANGED <<removed, logs, lastId, changes>>
    BY <1>13 DEF Restart
  <2>2. warnings' \in Seq(1 .. lastId)
    BY <2>1
  <2>3. DOMAIN request' = Requests /\ \A p \in Requests : request'[p] = Idle
    BY <2>1
  <2> QED BY <1>a, <1>s, <2>1, <2>2, <2>3
<1>14. CASE RemoveDriverOrVehicle
  <2>1. PICK gone \in Removable :
          /\ Change
          /\ removed' = removed \cup gone
          /\ UNCHANGED <<logs, lastId, warnings, request, goal, inGrace>>
    BY <1>14 DEF RemoveDriverOrVehicle
  <2>2. removed' \subseteq Combos
    BY <1>a, <2>1, LogbookConstants
  <2> QED BY <1>a, <1>c, <1>r, <1>s, <2>1, <2>2
<1>15. CASE UNCHANGED vars
  BY <1>15 DEF vars, TypeInv, TypeOK, Idle, Rows
<1> QED BY <1>1, <1>2, <1>3, <1>4, <1>5, <1>6, <1>7, <1>8, <1>9, <1>10, <1>11, <1>12, <1>13, <1>14, <1>15
         DEF Next

(* The types of the logbook: a run that can still be undone has its row,   *)
(* and nobody writes to, or warns of, a log that never was.                *)
THEOREM LogbookTypes == Spec => []TypeOK
<1>1. TypeInv => TypeOK
  BY DEF TypeInv
<1> QED BY <1>1, InitTypes, NextTypes, PTL DEF Spec

-----------------------------------------------------------------------------
(* Deletions.                                                              *)

(* A request that is about to write the row.                               *)
Writes(q, id) == request[q].does \in {"update", "assign"} /\ request[q].log = id

(* No request is about to bring the row back.                              *)
StaysDeleted(id) ==
  /\ logs[id].deleted
  /\ \A q \in Requests : Writes(q, id) => request[q].row.deleted

LEMMA StillDeleted ==
  ASSUME TypeInv, [Next]_vars, NEW id \in DOMAIN logs, StaysDeleted(id), id \in DOMAIN logs'
  PROVE  StaysDeleted(id)'
<1>a. /\ DOMAIN logs \subseteq 1 .. lastId
      /\ \A i \in DOMAIN logs : logs[i] \in Rows
      /\ DOMAIN request = Requests
  BY DEF TypeInv, TypeOK
<1>d. logs[id].deleted
  BY DEF StaysDeleted
<1>w. \A q \in Requests : Writes(q, id) => request[q].row.deleted
  BY DEF StaysDeleted
<1>r. logs[id] \in Rows
  BY <1>a
(* The requests do not change, and the row does not either.                *)
<1>u. ASSUME request' = request, logs'[id] = logs[id] PROVE StaysDeleted(id)'
  BY <1>d, <1>u, <1>w DEF StaysDeleted, Writes
<1>i. ASSUME NEW row \in Rows, InsertLog(row) PROVE logs'[id] = logs[id]
  BY <1>i, Inserted
<1>q. ASSUME NEW q \in Requests, NEW next, request' = [ request EXCEPT ![q] = next ],
             logs'[id].deleted,
             next.does \in {"update", "assign"} /\ next.log = id => next.row.deleted
      PROVE  StaysDeleted(id)'
  <2>1. /\ request'[q] = next
        /\ \A p \in Requests : p # q => request'[p] = request[p]
    BY <1>q, OneRequest
  <2>2. ASSUME NEW p \in Requests, Writes(p, id)' PROVE request'[p].row.deleted
    <3>1. CASE p = q
      BY <1>q, <2>1, <2>2, <3>1 DEF Writes
    <3>2. CASE p # q
      <4>1. request'[p] = request[p]
        BY <2>1, <3>2
      <4>2. Writes(p, id)
        BY <2>2, <4>1 DEF Writes
      <4> QED BY Zenon, <1>w, <4>1, <4>2
    <3> QED BY <3>1, <3>2
  <2> QED BY <1>q, <2>2 DEF StaysDeleted
<1>1. CASE CreateLog
  <2>1. PICK combo \in Combos, body \in Bodies, at \in Instants :
          /\ InsertLog([ combo |-> combo, body |-> body, at |-> at, deleted |-> FALSE ])
          /\ UNCHANGED <<removed, warnings, request, goal, inGrace>>
    BY <1>1 DEF CreateLog
  <2> QED BY <1>i, <1>u, <2>1, NewRow
<1>2. CASE Finish
  <2>1. PICK combo \in Combos, body \in Bodies, at \in Instants :
          /\ InsertLog([ combo |-> combo, body |-> body, at |-> at, deleted |-> FALSE ])
          /\ UNCHANGED <<removed, warnings, request, goal>>
    BY <1>2 DEF Finish
  <2> QED BY <1>i, <1>u, <2>1, NewRow
<1>3. CASE ConfirmFinish
  BY <1>3, <1>u DEF ConfirmFinish
<1>4. CASE UndoGoal
  <2>1. PICK i \in inGrace :
          /\ logs' = Restrict(logs, DOMAIN logs \ {i})
          /\ UNCHANGED <<removed, lastId, warnings, request, goal, changes>>
    BY <1>4 DEF UndoGoal
  <2>2. logs'[id] = logs[id]
    BY <2>1 DEF Restrict
  <2> QED BY <1>u, <2>1, <2>2
<1>5. CASE GoalOfNobody
  <2>1. PICK body \in Bodies, at \in Instants :
          /\ InsertLog([ combo |-> Nobody, body |-> body, at |-> at, deleted |-> FALSE ])
          /\ UNCHANGED <<removed, warnings, request, inGrace>>
    BY <1>5 DEF GoalOfNobody
  <2> QED BY <1>i, <1>u, <2>1, NewRow
<1>6. CASE Warn \/ Dismiss \/ RemoveDriverOrVehicle
  BY <1>6, <1>u DEF Warn, Dismiss, RemoveDriverOrVehicle
<1>7. ASSUME NEW q \in Requests, BeginUpdate(q) PROVE StaysDeleted(id)'
  <2>1. PICK i \in DOMAIN logs, combo \in Combos \cup {Nobody}, body \in Bodies :
          /\ request' = [ request EXCEPT ![q] =
                 [ does |-> "update", log |-> i, row |-> Edited(logs[i], combo, body) ] ]
          /\ UNCHANGED <<removed, logs, lastId, warnings, goal, inGrace>>
    BY <1>7 DEF BeginUpdate
  <2> DEFINE next == [ does |-> "update", log |-> i, row |-> Edited(logs[i], combo, body) ]
  <2>2. Edited(logs[i], combo, body).deleted = logs[i].deleted
    BY <1>a, RowsEdited, ZenonT(30)
  <2>3. next.log = id => next.row.deleted
    BY <1>d, <2>2
  <2>4. request' = [ request EXCEPT ![q] = next ] /\ logs'[id].deleted
    BY <1>d, <2>1
  <2> HIDE DEF next
  <2> QED BY <1>q, <2>3, <2>4
<1>8. ASSUME NEW q \in Requests, BeginAssign(q) PROVE StaysDeleted(id)'
  <2>1. PICK i \in DOMAIN logs, combo \in Combos :
          /\ request' = [ request EXCEPT ![q] =
                 [ does |-> "assign", log |-> i, row |-> Edited(logs[i], combo, logs[i].body) ] ]
          /\ UNCHANGED <<removed, logs, lastId, warnings, goal, inGrace>>
    BY <1>8 DEF BeginAssign
  <2> DEFINE next == [ does |-> "assign", log |-> i, row |-> Edited(logs[i], combo, logs[i].body) ]
  <2>2. Edited(logs[i], combo, logs[i].body).deleted = logs[i].deleted
    <3>1. logs[i] \in Rows /\ logs[i].body \in Bodies
      BY <1>a DEF Rows
    <3>2. combo \in Combos \cup {Nobody}
      OBVIOUS
    <3> QED BY <3>1, <3>2, RowsEdited
  <2>3. next.log = id => next.row.deleted
    BY <1>d, <2>2
  <2>4. request' = [ request EXCEPT ![q] = next ] /\ logs'[id].deleted
    BY <1>d, <2>1
  <2> HIDE DEF next
  <2> QED BY <1>q, <2>3, <2>4
<1>9. ASSUME NEW q \in Requests, WriteLog(q) PROVE StaysDeleted(id)'
  <2> DEFINE log  == request[q].log
             next == IF request[q].does = "assign" THEN [ does |-> "unwarn", log |-> log ] ELSE Idle
  <2>1. /\ request[q].does \in {"update", "assign"}
        /\ logs' = IF log \in DOMAIN logs THEN [ logs EXCEPT ![log] = request[q].row ] ELSE logs
        /\ request' = [ request EXCEPT ![q] = next ]
    BY <1>9 DEF WriteLog
  <2>2. logs'[id].deleted
    <3>1. CASE log = id
      <4>1. request[q].row.deleted
        BY <1>w, <2>1, <3>1 DEF Writes
      <4>2. logs'[id] = request[q].row
        BY <2>1, <3>1
      <4> QED BY <4>1, <4>2
    <3>2. CASE log # id
      <4>1. logs'[id] = logs[id]
        BY <2>1, <3>2
      <4> QED BY <1>d, <4>1
    <3> QED BY <3>1, <3>2
  <2>3. next.does \notin {"update", "assign"}
    BY DEF Idle
  <2> HIDE DEF next
  <2> QED BY <1>q, <2>1, <2>2, <2>3
<1>10. ASSUME NEW q \in Requests, DeleteLog(q) PROVE StaysDeleted(id)'
  <2>1. PICK i \in DOMAIN logs :
          /\ logs' = [ logs EXCEPT ![i].deleted = TRUE ]
          /\ request' = [ request EXCEPT ![q] = [ does |-> "unwarn", log |-> i ] ]
    BY <1>10 DEF DeleteLog
  <2>2. logs'[id].deleted
    <3>1. CASE i = id
      <4>1. logs'[id] = [ logs[id] EXCEPT !.deleted = TRUE ]
        BY <2>1, <3>1
      <4>2. [ logs[id] EXCEPT !.deleted = TRUE ].deleted
        BY <1>r DEF Rows
      <4> QED BY <4>1, <4>2
    <3>2. CASE i # id
      <4>1. logs'[id] = logs[id]
        BY <2>1, <3>2
      <4> QED BY <1>d, <4>1
    <3> QED BY <3>1, <3>2
  <2>3. [ does |-> "unwarn", log |-> i ].does \notin {"update", "assign"}
    OBVIOUS
  <2> QED BY <1>q, <2>1, <2>2, <2>3
<1>11. ASSUME NEW q \in Requests, Unwarn(q) PROVE StaysDeleted(id)'
  <2>1. request' = [ request EXCEPT ![q] = Idle ] /\ logs' = logs
    BY <1>11 DEF Unwarn
  <2>2. Idle.does \notin {"update", "assign"}
    BY DEF Idle
  <2> QED BY <1>d, <1>q, <2>1, <2>2
<1>12. CASE Restart
  <2>1. logs' = logs /\ \A q \in Requests : request'[q] = Idle
    BY <1>12 DEF Restart
  <2>2. \A q \in Requests : ~Writes(q, id)'
    BY <2>1 DEF Writes, Idle
  <2> QED BY <1>d, <2>1, <2>2 DEF StaysDeleted
<1>13. CASE UNCHANGED vars
  BY <1>13, <1>u DEF vars
<1>14. Next =>
         \/ CreateLog \/ Finish \/ ConfirmFinish \/ UndoGoal \/ GoalOfNobody \/ Warn \/ Dismiss
         \/ \E q \in Requests : BeginUpdate(q) \/ BeginAssign(q) \/ WriteLog(q)
                                 \/ DeleteLog(q) \/ Unwarn(q)
         \/ RemoveDriverOrVehicle \/ Restart
  BY Zenon DEF Next
<1> QED BY <1>1, <1>2, <1>3, <1>4, <1>5, <1>6, <1>7, <1>8, <1>9, <1>10, <1>11, <1>12, <1>13, <1>14

(* A deleted log comes back only through an edit that had read it before   *)
(* it was deleted (handleAdminLogUpdate, handleAdminLogAssign).            *)
THEOREM OverlapAloneRevives == Spec => OnlyOverlapRevives
<1>1. TypeInv /\ [Next]_vars =>
        [ \A id \in DOMAIN logs :
            /\ logs[id].deleted
            /\ \A q \in Requests : request[q].does \in {"update", "assign"} /\ request[q].log = id
                                   => request[q].row.deleted
            /\ id \in DOMAIN logs'
            => /\ logs'[id].deleted
               /\ \A q \in Requests : request'[q].does \in {"update", "assign"} /\ request'[q].log = id
                                      => request'[q].row.deleted ]_vars
  <2> SUFFICES ASSUME TypeInv, [Next]_vars, NEW id \in DOMAIN logs,
                      logs[id].deleted,
                      \A q \in Requests : Writes(q, id) => request[q].row.deleted,
                      id \in DOMAIN logs'
               PROVE  /\ logs'[id].deleted
                      /\ \A q \in Requests : Writes(q, id)' => request'[q].row.deleted
    BY Zenon DEF Writes
  <2>1. StaysDeleted(id)
    BY Zenon DEF StaysDeleted
  <2>2. StaysDeleted(id)'
    BY <2>1, StillDeleted
  <2> QED BY <2>2 DEF StaysDeleted
<1> QED BY <1>1, InitTypes, NextTypes, PTL DEF Spec, OnlyOverlapRevives

-----------------------------------------------------------------------------
(* Warnings.                                                               *)

(* Nobody has warned of a log twice, nor will.                             *)
WarnedOnce ==
  /\ \A i, j \in 1 .. Len(warnings) : warnings[i] = warnings[j] => i = j
  /\ goal \notin ToSet(warnings)

WarnInv == TypeInv /\ WarnedOnce

LEMMA InitWarned == Init => WarnInv
<1> SUFFICES ASSUME Init PROVE WarnInv
  OBVIOUS
<1>1. warnings = << >>
  BY DEF Init
<1> QED BY <1>1, InitTypes DEF WarnInv, WarnedOnce, ToSet

LEMMA RemovedOnce ==
  ASSUME NEW S, NEW s \in Seq(S), NEW k \in 1 .. Len(s),
         \A i, j \in 1 .. Len(s) : s[i] = s[j] => i = j
  PROVE  LET t == RemoveAt(s, k)
         IN /\ \A i, j \in 1 .. Len(t) : t[i] = t[j] => i = j
            /\ ToSet(t) \subseteq ToSet(s)
            /\ s[k] \notin ToSet(t)
<1> DEFINE t    == RemoveAt(s, k)
           p(i) == IF i < k THEN i ELSE i + 1
<1>1. /\ t \in Seq(S) /\ Len(t) = Len(s) - 1 /\ Len(s) \in Nat /\ k \in Int
      /\ \A i \in 1 .. Len(s) - 1 : t[i] = IF i < k THEN s[i] ELSE s[i + 1]
  BY RemovedAt
<1> HIDE DEF t
<1>2. \A i \in 1 .. Len(t) : t[i] = s[p(i)] /\ p(i) \in 1 .. Len(s) /\ p(i) # k /\ i \in Int
  BY <1>1
<1>3. \A i, j \in 1 .. Len(t) : p(i) = p(j) => i = j
  BY <1>1, <1>2
<1> HIDE DEF p
<1>4. \A i, j \in 1 .. Len(t) : t[i] = t[j] => i = j
  <2> SUFFICES ASSUME NEW i \in 1 .. Len(t), NEW j \in 1 .. Len(t), t[i] = t[j] PROVE i = j
    OBVIOUS
  <2>1. s[p(i)] = s[p(j)] /\ p(i) \in 1 .. Len(s) /\ p(j) \in 1 .. Len(s)
    BY <1>2
  <2>2. p(i) = p(j)
    BY Zenon, <2>1
  <2> QED BY Zenon, <1>3, <2>2
<1>5. /\ DOMAIN t = 1 .. Len(t) /\ DOMAIN s = 1 .. Len(s)
  BY <1>1
<1>6. \A x \in ToSet(t) : \E i \in 1 .. Len(t) : x = t[i]
  BY <1>5 DEF ToSet
<1>7. \A x \in ToSet(t) : x \in ToSet(s) /\ x # s[k]
  <2> SUFFICES ASSUME NEW x \in ToSet(t) PROVE x \in ToSet(s) /\ x # s[k]
    OBVIOUS
  <2>1. PICK i \in 1 .. Len(t) : x = t[i]
    BY <1>6
  <2>2. x = s[p(i)] /\ p(i) \in 1 .. Len(s) /\ p(i) # k
    BY <1>2, <2>1
  <2>3. x \in ToSet(s)
    BY <1>5, <2>2 DEF ToSet
  <2>4. x # s[k]
    BY <2>2
  <2> QED BY <2>3, <2>4
<1> QED BY <1>4, <1>7 DEF t

LEMMA NextWarned == WarnInv /\ [Next]_vars => WarnedOnce'
<1> SUFFICES ASSUME WarnInv, [Next]_vars PROVE WarnedOnce'
  OBVIOUS
<1>a. /\ warnings \in Seq(1 .. lastId) /\ goal \in 0 .. lastId /\ TypeInv
      /\ lastId \in Nat /\ DOMAIN warnings = 1 .. Len(warnings) /\ Len(warnings) \in Nat
  BY LogbookConstants DEF WarnInv, TypeInv, TypeOK
<1>b. /\ \A i, j \in 1 .. Len(warnings) : warnings[i] = warnings[j] => i = j
      /\ goal \notin ToSet(warnings)
  BY DEF WarnInv, WarnedOnce
<1>u. ASSUME warnings' = warnings, goal' = goal PROVE WarnedOnce'
  BY <1>b, <1>u DEF WarnedOnce
<1>k. ASSUME NEW k \in 1 .. Len(warnings), warnings' = RemoveAt(warnings, k), goal' = goal
      PROVE  WarnedOnce'
  <2>1. LET t == RemoveAt(warnings, k)
        IN /\ \A i, j \in 1 .. Len(t) : t[i] = t[j] => i = j
           /\ ToSet(t) \subseteq ToSet(warnings)
    BY <1>a, <1>b, RemovedOnce
  <2>2. /\ \A i, j \in 1 .. Len(warnings') : warnings'[i] = warnings'[j] => i = j
        /\ ToSet(warnings') \subseteq ToSet(warnings)
    BY <1>k, <2>1
  <2> QED BY <1>b, <1>k, <2>2 DEF WarnedOnce
<1>e. ASSUME warnings' = << >> PROVE WarnedOnce'
  <2>1. Len(warnings') = 0 /\ ToSet(warnings') = {}
    BY <1>e DEF ToSet
  <2> QED BY <2>1 DEF WarnedOnce
<1>1. CASE CreateLog \/ Finish \/ ConfirmFinish \/ UndoGoal \/ RemoveDriverOrVehicle
  BY <1>1, <1>u DEF CreateLog, Finish, ConfirmFinish, UndoGoal, RemoveDriverOrVehicle
<1>2. CASE GoalOfNobody
  <2>1. lastId' = lastId + 1 /\ warnings' = warnings /\ goal' = lastId'
    BY <1>2 DEF GoalOfNobody, InsertLog
  <2>2. goal' \notin ToSet(warnings')
    <3>1. \A i \in 1 .. Len(warnings) : warnings[i] \in 1 .. lastId
      BY <1>a
    <3> QED BY <1>a, <2>1, <3>1 DEF ToSet
  <2> QED BY <1>b, <2>1, <2>2 DEF WarnedOnce
<1>3. CASE Warn
  <2>1. goal # NoLog /\ warnings' = Append(warnings, goal) /\ goal' = NoLog
    BY <1>3 DEF Warn
  <2>2. goal \in 1 .. lastId
    BY <1>a, <2>1 DEF NoLog
  <2>3. /\ Len(warnings') = Len(warnings) + 1
        /\ DOMAIN warnings' = 1 .. Len(warnings')
        /\ \A i \in 1 .. Len(warnings) : warnings'[i] = warnings[i]
        /\ warnings'[Len(warnings) + 1] = goal
    BY <1>a, <2>1, <2>2
  <2>4. \A i \in 1 .. Len(warnings) : warnings[i] # goal /\ warnings[i] \in 1 .. lastId
    BY <1>a, <1>b DEF ToSet
  <2>5. ASSUME NEW i \in 1 .. Len(warnings'), NEW j \in 1 .. Len(warnings'), warnings'[i] = warnings'[j]
        PROVE i = j
    <3>1. /\ i \in 1 .. Len(warnings) \/ i = Len(warnings) + 1
          /\ j \in 1 .. Len(warnings) \/ j = Len(warnings) + 1
      BY <1>a, <2>3
    <3>2. CASE i \in 1 .. Len(warnings) /\ j \in 1 .. Len(warnings)
      BY Zenon, <1>b, <2>3, <2>5, <3>2
    <3>3. CASE i \in 1 .. Len(warnings) /\ j = Len(warnings) + 1
      BY Zenon, <2>3, <2>4, <2>5, <3>3
    <3>4. CASE i = Len(warnings) + 1 /\ j \in 1 .. Len(warnings)
      BY Zenon, <2>3, <2>4, <2>5, <3>4
    <3> QED BY <3>1, <3>2, <3>3, <3>4
  <2>6. \A i \in 1 .. Len(warnings') : warnings'[i] # NoLog
    <3> SUFFICES ASSUME NEW i \in 1 .. Len(warnings') PROVE warnings'[i] # NoLog
      OBVIOUS
    <3>1. i \in 1 .. Len(warnings) \/ i = Len(warnings) + 1
      BY <1>a, <2>3
    <3>2. warnings'[i] \in 1 .. lastId
      BY <2>2, <2>3, <2>4, <3>1
    <3> QED BY <1>a, <3>2 DEF NoLog
  <2>7. goal' \notin ToSet(warnings')
    BY <2>1, <2>3, <2>6 DEF ToSet
  <2> QED BY <2>5, <2>7 DEF WarnedOnce
<1>4. CASE \E q \in Requests : BeginUpdate(q) \/ BeginAssign(q) \/ WriteLog(q) \/ DeleteLog(q)
  BY <1>4, <1>u DEF BeginUpdate, BeginAssign, WriteLog, DeleteLog
<1>5. ASSUME NEW q \in Requests, Unwarn(q) PROVE WarnedOnce'
  <2>1. warnings' = RemoveFirst(warnings, request[q].log) /\ goal' = goal
    BY <1>5 DEF Unwarn
  <2>2. \/ warnings' = warnings
        \/ \E i \in 1 .. Len(warnings) : warnings' = RemoveAt(warnings, i)
    BY <1>a, <2>1, RemovedFirst
  <2> QED BY <1>k, <1>u, <2>1, <2>2
<1>6. CASE Dismiss
  <2>1. \/ \E i \in DOMAIN warnings : warnings' = RemoveAt(warnings, i)
        \/ warnings' = << >>
    BY <1>6 DEF Dismiss
  <2>2. goal' = goal
    BY <1>6 DEF Dismiss
  <2> QED BY <1>a, <1>e, <1>k, <2>1, <2>2
<1>7. CASE Restart
  BY <1>7, <1>e DEF Restart
<1>8. CASE UNCHANGED vars
  BY <1>8, <1>u DEF vars
<1> QED BY <1>1, <1>2, <1>3, <1>4, <1>5, <1>6, <1>7, <1>8 DEF Next

LEMMA Unwarned ==
  ASSUME WarnInv, [Next]_vars, NEW q \in Requests, request[q].does = "unwarn", request'[q] = Idle
  PROVE  request[q].log \notin ToSet(warnings')
<1>a. /\ warnings \in Seq(1 .. lastId) /\ TypeInv
  BY DEF WarnInv, TypeInv, TypeOK
<1>b. \A i, j \in 1 .. Len(warnings) : warnings[i] = warnings[j] => i = j
  BY DEF WarnInv, WarnedOnce
<1>n. request'[q] # request[q]
  BY DEF Idle
<1>1. ASSUME request' = request PROVE FALSE
  BY <1>1, <1>n
<1>2. ASSUME NEW p \in Requests, p # q, NEW next, request' = [ request EXCEPT ![p] = next ]
      PROVE FALSE
  BY <1>2, <1>a, <1>n, OneRequest
<1>3. CASE CreateLog \/ Finish \/ ConfirmFinish \/ UndoGoal \/ GoalOfNobody \/ Warn \/ Dismiss
             \/ RemoveDriverOrVehicle
  BY <1>3, <1>1 DEF CreateLog, Finish, ConfirmFinish, UndoGoal, GoalOfNobody, Warn, Dismiss, RemoveDriverOrVehicle
<1>4. ASSUME NEW p \in Requests, BeginUpdate(p) \/ BeginAssign(p) \/ WriteLog(p) \/ DeleteLog(p)
      PROVE  FALSE
  <2>1. p # q
    BY <1>4 DEF BeginUpdate, BeginAssign, WriteLog, DeleteLog, Idle
  <2>2. \E next : request' = [ request EXCEPT ![p] = next ]
    BY Zenon, <1>4 DEF BeginUpdate, BeginAssign, WriteLog, DeleteLog
  <2> QED BY <1>2, <2>1, <2>2
<1>5. ASSUME NEW p \in Requests, Unwarn(p) PROVE request[q].log \notin ToSet(warnings')
  <2>1. /\ warnings' = RemoveFirst(warnings, request[p].log)
        /\ request' = [ request EXCEPT ![p] = Idle ]
    BY <1>5 DEF Unwarn
  <2>2. p = q
    BY <1>2, <2>1
  <2>3. CASE warnings' = warnings /\ request[q].log \notin ToSet(warnings)
    BY <2>3
  <2>4. CASE \E i \in 1 .. Len(warnings) :
               warnings[i] = request[q].log /\ warnings' = RemoveAt(warnings, i)
    <3>1. PICK i \in 1 .. Len(warnings) :
               warnings[i] = request[q].log /\ warnings' = RemoveAt(warnings, i)
      BY <2>4
    <3>2. warnings[i] \notin ToSet(RemoveAt(warnings, i))
      BY <1>a, <1>b, RemovedOnce
    <3> QED BY <3>1, <3>2
  <2> QED BY <1>a, <2>1, <2>2, <2>3, <2>4, RemovedFirst
<1>6. CASE Restart
  BY <1>6 DEF Restart, ToSet
<1>7. CASE UNCHANGED vars
  BY <1>7, <1>1 DEF vars
<1> QED BY <1>3, <1>4, <1>5, <1>6, <1>7 DEF Next

(* The warning about a log that is settled is gone: although removeByLogID *)
(* takes away the first one it finds, there is no second                   *)
(* (internal/web/sensor.go).                                               *)
THEOREM SettledLogsAreUnwarned == Spec => SettledIsUnwarned
<1>1. WarnInv /\ [Next]_vars => WarnInv'
  BY NextTypes, NextWarned DEF WarnInv
<1>2. WarnInv /\ [Next]_vars =>
        [ \A q \in Requests :
            request[q].does = "unwarn" /\ request'[q] = Idle
              => request[q].log \notin ToSet(warnings') ]_vars
  BY Unwarned
<1> QED BY <1>1, <1>2, InitWarned, PTL DEF Spec, SettledIsUnwarned

-----------------------------------------------------------------------------
(* The runs.                                                               *)

LEMMA LogsAreFinite ==
  ASSUME TypeInv
  PROVE  IsFiniteSet(DOMAIN logs) /\ \A id \in DOMAIN logs : id \in Nat /\ logs[id] \in Rows
<1>1. DOMAIN logs \in SUBSET (1 .. lastId) /\ lastId \in Nat
  BY LogbookConstants DEF TypeInv, TypeOK
<1>2. IsFiniteSet(1 .. lastId)
  BY <1>1, CountTo
<1>3. IsFiniteSet(DOMAIN logs)
  BY <1>1, <1>2, FS_Subset
<1>4. \A id \in DOMAIN logs : id \in Nat /\ logs[id] \in Rows
  BY <1>1 DEF TypeInv, TypeOK
<1> QED BY <1>3, <1>4

LEMMA RunTypes ==
  ASSUME TypeInv, NEW r \in Runs
  PROVE  /\ r.id \in DOMAIN logs /\ r.id \in Nat /\ IsRun(r.id) /\ r = RunOf(r.id)
         /\ r.combo \in Combos /\ r.combo \in Nat
         /\ r.at \in Int /\ r.at = logs[r.id].at
         /\ r.raw \in Int /\ r.pt \in Int /\ r.mc \in BOOLEAN
<1>1. PICK id \in DOMAIN logs : IsRun(id) /\ r = RunOf(id)
  BY DEF Runs
<1>2. r.id = id /\ r.combo = logs[id].combo /\ r.at = logs[id].at
      /\ r.raw = logs[id].body.raw /\ r.pt = logs[id].body.pt /\ r.mc = logs[id].body.mc
  BY <1>1 DEF RunOf
<1>3. id \in Nat /\ logs[id] \in Rows
  BY LogsAreFinite
<1>4. /\ logs[id].combo \in Combos
      /\ logs[id].body \in Bodies /\ logs[id].at \in Instants
  BY <1>1, <1>3 DEF Rows, IsRun
<1>5. logs[id].body \in [ raw : Int, pt : Int, mc : BOOLEAN ] /\ logs[id].at \in Int
  BY <1>4, LogbookConstants
<1>6. logs[id].combo \in Nat
  BY <1>4, StandingsConstants
<1> QED BY <1>1, <1>2, <1>3, <1>4, <1>5, <1>6

LEMMA RunsAreFinite ==
  ASSUME TypeInv
  PROVE  /\ IsFiniteSet(Runs)
         /\ \A r, s \in Runs : r.id = s.id => r = s
<1> DEFINE D == { i \in DOMAIN logs : IsRun(i) }
           f == [ i \in D |-> RunOf(i) ]
<1>1. IsFiniteSet(D)
  <2>1. IsFiniteSet(DOMAIN logs) /\ D \in SUBSET DOMAIN logs
    BY LogsAreFinite
  <2> QED BY <2>1, FS_Subset
<1>2. f \in Surjection(D, Runs)
  <2>1. f \in [ D -> Runs ]
    BY DEF Runs
  <2>2. \A r \in Runs : \E i \in D : f[i] = r
    BY DEF Runs
  <2> QED BY <2>1, <2>2 DEF Surjection
<1>3. IsFiniteSet(Runs)
  <2> HIDE DEF D, f
  <2> QED BY <1>1, <1>2, FS_Surjection
<1>4. \A r, s \in Runs : r.id = s.id => r = s
  BY RunTypes
<1> QED BY <1>3, <1>4

-----------------------------------------------------------------------------
(* Heat numbers.                                                           *)

DrivenOrder(S) == { p \in S \X S : DrivenBefore(p[1], p[2]) }

LEMMA DrivenDecides ==
  ASSUME TypeInv, NEW S \in SUBSET Runs
  PROVE  Decides(DrivenOrder(S), S) /\ IsFiniteSet(S)
<1>1. \A r \in S : r.id \in Int /\ r.at \in Int
  BY RunTypes
<1>2. \A r, s \in S : r.id = s.id => r = s
  BY RunsAreFinite
<1>3. \A r, s \in S : <<r, s>> \in DrivenOrder(S) <=> DrivenBefore(r, s)
  BY DEF DrivenOrder
<1>4. \A r \in S : ~DrivenBefore(r, r)
  BY <1>1 DEF DrivenBefore
<1>5. \A r, s \in S : r # s => DrivenBefore(r, s) \/ DrivenBefore(s, r)
  BY <1>1, <1>2 DEF DrivenBefore
<1>6. \A r, s, t \in S : DrivenBefore(r, s) /\ DrivenBefore(s, t) => DrivenBefore(r, t)
  BY <1>1 DEF DrivenBefore
<1>7. IsFiniteSet(S)
  BY RunsAreFinite, FS_Subset
<1> QED BY <1>3, <1>4, <1>5, <1>6, <1>7 DEF Decides

LEMMA DrivenInOrder ==
  ASSUME TypeInv, NEW S \in SUBSET Runs
  PROVE  InOrder(S, DrivenBefore) \in SortedBy(DrivenOrder(S), S)
<1> DEFINE n    == Cardinality(S)
           P(s) == \A i, j \in 1 .. n : i < j => s[i] # s[j] /\ ~DrivenBefore(s[j], s[i])
           own  == CHOOSE s \in [ 1 .. n -> S ] : P(s)
<1>1. \A s \in [ 1 .. n -> S ] : P(s) <=> s \in SortedBy(DrivenOrder(S), S)
  BY DEF SortedBy, DrivenOrder
<1>2. \E s \in SortedBy(DrivenOrder(S), S) : TRUE
  BY DrivenDecides, CanBeSorted
<1>3. \E s \in [ 1 .. n -> S ] : P(s)
  BY <1>1, <1>2 DEF SortedBy
<1>4. own \in [ 1 .. n -> S ] /\ P(own)
  <2> HIDE DEF P
  <2> QED BY <1>3
<1>5. own \in SortedBy(DrivenOrder(S), S)
  BY <1>1, <1>4
<1> QED BY <1>5 DEF InOrder

(* A run's heat number is its place among the runs of its combination.     *)
LEMMA HeatIsPlace ==
  ASSUME TypeInv, NEW combo \in Combos, NEW own,
         own = InOrder(OfCombo(Runs, combo), DrivenBefore)
  PROVE  LET n == Cardinality(OfCombo(Runs, combo))
         IN /\ n \in Nat /\ own \in [ 1 .. n -> OfCombo(Runs, combo) ]
            /\ \A i, j \in 1 .. n : i < j <=> DrivenBefore(own[i], own[j])
            /\ \A r \in OfCombo(Runs, combo) :
                 /\ HeatNumbers(Runs)[r.id] \in 1 .. n
                 /\ own[HeatNumbers(Runs)[r.id]] = r
            /\ \A i \in 1 .. n : HeatNumbers(Runs)[own[i].id] = i
<1> DEFINE S == OfCombo(Runs, combo)
           n == Cardinality(S)
<1>1. S \in SUBSET Runs
  BY DEF OfCombo
<1>2. own \in SortedBy(DrivenOrder(S), S) /\ Decides(DrivenOrder(S), S) /\ IsFiniteSet(S)
  BY <1>1, DrivenInOrder, DrivenDecides
<1>3. /\ own \in [ 1 .. n -> S ] /\ n \in Nat
      /\ \A x \in S : \E i \in 1 .. n : own[i] = x
      /\ \A i, j \in 1 .. n : own[i] = own[j] => i = j
      /\ \A i, j \in 1 .. n : i < j <=> <<own[i], own[j]>> \in DrivenOrder(S)
  BY <1>2, SortedListsAll
<1>4. \A i, j \in 1 .. n : i < j <=> DrivenBefore(own[i], own[j])
  BY <1>3 DEF DrivenOrder
<1>5. ASSUME NEW r \in S
      PROVE  HeatNumbers(Runs)[r.id] = CHOOSE i \in DOMAIN own : own[i].id = r.id
  <2>1. r \in Runs /\ r.combo = combo
    BY DEF OfCombo
  <2>2. (CHOOSE x \in Runs : x.id = r.id) = r
    BY <2>1, RunsAreFinite
  <2>3. HeatNumbers(Runs)[r.id] =
          LET run  == CHOOSE x \in Runs : x.id = r.id
              list == InOrder(OfCombo(Runs, run.combo), DrivenBefore)
          IN CHOOSE i \in DOMAIN list : list[i].id = r.id
    BY <2>1 DEF HeatNumbers
  <2> QED BY <2>1, <2>2, <2>3
<1>6. ASSUME NEW r \in S
      PROVE  /\ HeatNumbers(Runs)[r.id] \in 1 .. n
             /\ own[HeatNumbers(Runs)[r.id]] = r
  <2> DEFINE h == HeatNumbers(Runs)[r.id]
  <2>1. \E i \in DOMAIN own : own[i].id = r.id
    BY <1>3
  <2>2. h \in DOMAIN own /\ own[h].id = r.id
    BY <1>5, <2>1
  <2> HIDE DEF h
  <2>3. h \in 1 .. n /\ own[h] \in S
    BY <1>3, <2>2
  <2>4. own[h] = r
    <3>1. own[h] \in Runs /\ r \in Runs
      BY <1>1, <2>3
    <3> QED BY <2>2, <3>1, RunsAreFinite
  <2> QED BY <2>3, <2>4 DEF h
<1>7. ASSUME NEW i \in 1 .. n PROVE HeatNumbers(Runs)[own[i].id] = i
  <2>1. own[i] \in S
    BY <1>3
  <2> QED BY <1>3, <1>6, <2>1
<1> HIDE DEF S
<1> QED BY <1>3, <1>4, <1>6, <1>7 DEF S

(* Whatever the editors do, the heats of a combination count 1, 2, ... in  *)
(* the order of the timestamps (internal/domain/heat.go).                  *)
THEOREM HeatsHaveNoGap == Spec => []HeatsAreGapFree
<1>1. ASSUME TypeInv PROVE HeatsAreGapFree
  <2> SUFFICES ASSUME NEW combo \in Combos
      PROVE LET own  == OfCombo(Runs, combo)
                heat == HeatNumbers(Runs)
            IN /\ { heat[r.id] : r \in own } = 1 .. Cardinality(own)
               /\ \A r, s \in own : <<r.at, r.id>> # <<s.at, s.id>> =>
                    (heat[r.id] < heat[s.id] <=> r.at < s.at \/ (r.at = s.at /\ r.id < s.id))
    BY DEF HeatsAreGapFree
  <2> DEFINE S    == OfCombo(Runs, combo)
             n    == Cardinality(S)
             list == InOrder(S, DrivenBefore)
             heat == HeatNumbers(Runs)
  <2>1. /\ n \in Nat /\ list \in [ 1 .. n -> S ]
        /\ \A i, j \in 1 .. n : i < j <=> DrivenBefore(list[i], list[j])
        /\ \A r \in S : heat[r.id] \in 1 .. n /\ list[heat[r.id]] = r
        /\ \A i \in 1 .. n : heat[list[i].id] = i
    BY <1>1, HeatIsPlace
  <2> HIDE DEF S, n, list, heat
  <2>2. { heat[r.id] : r \in S } = 1 .. n
    <3>1. \A r \in S : heat[r.id] \in 1 .. n
      BY <2>1
    <3>2. \A i \in 1 .. n : \E r \in S : i = heat[r.id]
      BY <2>1
    <3> QED BY <3>1, <3>2
  <2>3. ASSUME NEW r \in S, NEW s \in S
        PROVE  heat[r.id] < heat[s.id] <=> DrivenBefore(r, s)
    <3>1. /\ heat[r.id] \in 1 .. n /\ list[heat[r.id]] = r
          /\ heat[s.id] \in 1 .. n /\ list[heat[s.id]] = s
      BY <2>1
    <3>2. heat[r.id] < heat[s.id] <=> DrivenBefore(list[heat[r.id]], list[heat[s.id]])
      BY Zenon, <2>1, <3>1
    <3> QED BY Zenon, <3>1, <3>2
  <2> QED BY <2>2, <2>3 DEF S, n, heat, DrivenBefore
<1>2. TypeInv => HeatsAreGapFree
  BY <1>1
<1> QED BY <1>2, InitTypes, NextTypes, PTL DEF Spec

-----------------------------------------------------------------------------
(* Recent runs.                                                            *)

NewerOrder == { p \in (DOMAIN logs) \X (DOMAIN logs) : Newer(p[1], p[2]) }

LEMMA NewestInOrder ==
  ASSUME TypeInv
  PROVE  LET n == Cardinality(DOMAIN logs)
         IN /\ n \in Nat /\ Newest \in [ 1 .. n -> DOMAIN logs ]
            /\ \A id \in DOMAIN logs : \E i \in 1 .. n : Newest[i] = id
            /\ \A i, j \in 1 .. n : i < j <=> Newer(Newest[i], Newest[j])
<1> DEFINE S    == DOMAIN logs
           n    == Cardinality(S)
           P(s) == \A i, j \in 1 .. n : i < j => s[i] # s[j] /\ ~Newer(s[j], s[i])
           list == CHOOSE s \in [ 1 .. n -> S ] : P(s)
<1>1. /\ IsFiniteSet(S)
      /\ \A i \in S : i \in Int /\ logs[i].at \in Int
  <2>1. \A i \in S : logs[i] \in Rows /\ i \in Nat
    BY LogsAreFinite
  <2>2. \A i \in S : logs[i].at \in Int
    BY <2>1, LogbookConstants DEF Rows
  <2> QED BY <2>1, <2>2, LogsAreFinite
<1>2. \A i, j \in S : <<i, j>> \in NewerOrder <=> Newer(i, j)
  BY DEF NewerOrder
<1>3. Decides(NewerOrder, S)
  <2>1. \A i \in S : ~Newer(i, i)
    BY <1>1 DEF Newer
  <2>2. \A i, j \in S : i # j => Newer(i, j) \/ Newer(j, i)
    BY <1>1 DEF Newer
  <2>3. \A i, j, k \in S : Newer(i, j) /\ Newer(j, k) => Newer(i, k)
    BY <1>1 DEF Newer
  <2> QED BY <1>2, <2>1, <2>2, <2>3 DEF Decides
<1>4. \A s \in [ 1 .. n -> S ] : P(s) <=> s \in SortedBy(NewerOrder, S)
  BY <1>2 DEF SortedBy
<1>5. \E s \in SortedBy(NewerOrder, S) : TRUE
  BY <1>1, <1>3, CanBeSorted
<1>6. \E s \in [ 1 .. n -> S ] : P(s)
  BY <1>4, <1>5 DEF SortedBy
<1>7. list \in [ 1 .. n -> S ] /\ P(list)
  <2> HIDE DEF P
  <2> QED BY <1>6
<1>8. Newest = list
  BY DEF Newest, InOrder
<1>9. Newest \in SortedBy(NewerOrder, S)
  BY <1>4, <1>7, <1>8
<1>10. /\ Newest \in [ 1 .. n -> S ] /\ n \in Nat
       /\ \A id \in S : \E i \in 1 .. n : Newest[i] = id
       /\ \A i, j \in 1 .. n : i < j <=> <<Newest[i], Newest[j]>> \in NewerOrder
  BY <1>1, <1>3, <1>9, SortedListsAll
<1>11. \A i, j \in 1 .. n : i < j <=> Newer(Newest[i], Newest[j])
  BY <1>2, <1>10
<1> QED BY <1>10, <1>11

(* Of the drivers and vehicles that are not deleted, the board leaves out  *)
(* no run that is newer than one it shows, although it filters the page    *)
(* after it has been cut (buildRecent).                                    *)
THEOREM RecentRunsHaveNoGap == Spec => []RecentHasNoGap
<1>1. ASSUME TypeInv, NEW i \in Recent(Newest), NEW r \in Runs, r.combo \in Present, r.at > logs[Newest[i]].at
      PROVE  \E j \in Recent(Newest) : j < i /\ Newest[j] = r.id
  <2> DEFINE n == Cardinality(DOMAIN logs)
  <2>1. /\ n \in Nat /\ Newest \in [ 1 .. n -> DOMAIN logs ]
        /\ \A id \in DOMAIN logs : \E k \in 1 .. n : Newest[k] = id
        /\ \A k, l \in 1 .. n : k < l <=> Newer(Newest[k], Newest[l])
    BY <1>1, NewestInOrder
  <2> HIDE DEF n
  <2>2. i \in 1 .. n /\ i <= Limit
    BY <2>1 DEF Recent
  <2>3. /\ r.id \in DOMAIN logs /\ IsRun(r.id) /\ r.at = logs[r.id].at
        /\ logs[r.id].combo \in Present
    <3>1. r.id \in DOMAIN logs /\ IsRun(r.id) /\ r.at = logs[r.id].at /\ r = RunOf(r.id)
      BY <1>1, RunTypes
    <3>2. RunOf(r.id).combo = logs[r.id].combo
      BY DEF RunOf
    <3> QED BY <1>1, <3>1, <3>2
  <2>4. PICK j \in 1 .. n : Newest[j] = r.id
    BY <2>1, <2>3
  <2>5. Newer(Newest[j], Newest[i])
    BY <1>1, <2>3, <2>4 DEF Newer
  <2>6. j < i
    BY <2>1, <2>2, <2>5
  <2>7. j <= Limit
    BY <2>1, <2>2, <2>6, LogbookConstants
  <2>8. j \in Recent(Newest)
    BY <2>1, <2>3, <2>4, <2>7 DEF Recent
  <2> QED BY <2>4, <2>6, <2>8
<1>2. TypeInv => RecentHasNoGap
  BY <1>1 DEF RecentHasNoGap
<1> QED BY <1>2, InitTypes, NextTypes, PTL DEF Spec

-----------------------------------------------------------------------------
(* The standing of a combination.                                          *)

ValidOf(combo, rule)   == Valid(OfCombo(Runs, combo), rule)
Fastest(S, rule)       == InOrder(S, LAMBDA r, s : Faster(r, s, rule))
FasterOrder(S, rule)   == { p \in S \X S : Faster(p[1], p[2], rule) }

LEMMA TimesAreInt ==
  ASSUME TypeInv, NEW rule \in Rules, NEW r \in Runs
  PROVE  FinalMS(r, rule) \in Int
<1>1. r.raw \in Int /\ r.pt \in Int /\ rule.penalty \in Int
  BY RunTypes, LogbookConstants
<1> QED BY <1>1 DEF FinalMS

LEMMA FasterDecides ==
  ASSUME TypeInv, NEW rule \in Rules, NEW S \in SUBSET Runs
  PROVE  Decides(FasterOrder(S, rule), S) /\ IsFiniteSet(S)
<1>1. \A r \in S : FinalMS(r, rule) \in Int
  BY TimesAreInt
<1>2. /\ \A r \in S : ~DrivenBefore(r, r)
      /\ \A r, s \in S : r # s => DrivenBefore(r, s) \/ DrivenBefore(s, r)
      /\ \A r, s, t \in S : DrivenBefore(r, s) /\ DrivenBefore(s, t) => DrivenBefore(r, t)
      /\ IsFiniteSet(S)
  <2>1. Decides(DrivenOrder(S), S) /\ IsFiniteSet(S)
    BY DrivenDecides
  <2>2. \A r, s \in S : <<r, s>> \in DrivenOrder(S) <=> DrivenBefore(r, s)
    BY DEF DrivenOrder
  <2> QED BY <2>1, <2>2 DEF Decides
<1>3. \A r, s \in S : <<r, s>> \in FasterOrder(S, rule) <=> Faster(r, s, rule)
  BY DEF FasterOrder
<1>4. \A r \in S : ~Faster(r, r, rule)
  BY <1>1, <1>2 DEF Faster
<1>5. \A r, s \in S : r # s => Faster(r, s, rule) \/ Faster(s, r, rule)
  BY <1>1, <1>2 DEF Faster
<1>6. \A r, s, t \in S : Faster(r, s, rule) /\ Faster(s, t, rule) => Faster(r, t, rule)
  BY <1>1, <1>2 DEF Faster
<1> QED BY <1>2, <1>3, <1>4, <1>5, <1>6 DEF Decides

LEMMA FastestFirst ==
  ASSUME TypeInv, NEW rule \in Rules, NEW S \in SUBSET Runs, NEW list,
         list = Fastest(S, rule)
  PROVE  /\ Cardinality(S) \in Nat /\ list \in [ 1 .. Cardinality(S) -> S ]
         /\ Cardinality(S) = 0 <=> S = {}
         /\ \A r \in S : FinalMS(list[1], rule) <= FinalMS(r, rule)
<1> DEFINE n    == Cardinality(S)
           P(s) == \A i, j \in 1 .. n : i < j => s[i] # s[j] /\ ~Faster(s[j], s[i], rule)
           own  == CHOOSE s \in [ 1 .. n -> S ] : P(s)
<1>1. Decides(FasterOrder(S, rule), S) /\ IsFiniteSet(S)
  BY FasterDecides
<1>2. \A r, s \in S : <<r, s>> \in FasterOrder(S, rule) <=> Faster(r, s, rule)
  BY DEF FasterOrder
<1>3. \A s \in [ 1 .. n -> S ] : P(s) <=> s \in SortedBy(FasterOrder(S, rule), S)
  BY <1>2 DEF SortedBy
<1>4. \E s \in SortedBy(FasterOrder(S, rule), S) : TRUE
  BY <1>1, CanBeSorted
<1>5. \E s \in [ 1 .. n -> S ] : P(s)
  BY <1>3, <1>4 DEF SortedBy
<1>6. own \in [ 1 .. n -> S ] /\ P(own)
  <2> HIDE DEF P
  <2> QED BY <1>5
<1>7. list = own
  BY DEF InOrder, Fastest
<1>8. list \in SortedBy(FasterOrder(S, rule), S)
  BY <1>3, <1>6, <1>7
<1> HIDE DEF own, P
<1>9. /\ list \in [ 1 .. n -> S ] /\ n \in Nat
      /\ \A x \in S : \E i \in 1 .. n : list[i] = x
      /\ \A i, j \in 1 .. n : i < j <=> <<list[i], list[j]>> \in FasterOrder(S, rule)
  BY <1>1, <1>8, SortedListsAll
<1>10. n = 0 <=> S = {}
  BY <1>1, FS_EmptySet
<1>11. ASSUME NEW r \in S PROVE FinalMS(list[1], rule) <= FinalMS(r, rule)
  <2>1. PICK i \in 1 .. n : list[i] = r
    BY <1>9
  <2>2. 1 \in 1 .. n /\ list[1] \in S
    BY <1>9, <2>1
  <2>3. FinalMS(list[1], rule) \in Int /\ FinalMS(r, rule) \in Int
    BY <2>2, TimesAreInt
  <2>4. CASE i = 1
    BY <2>1, <2>3, <2>4
  <2>5. CASE 1 < i
    <3>1. <<list[1], list[i]>> \in FasterOrder(S, rule)
      BY <1>9, <2>2, <2>5
    <3>2. Faster(list[1], r, rule)
      BY <1>2, <2>1, <2>2, <3>1
    <3> QED BY <2>3, <3>2 DEF Faster
  <2> QED BY <1>9, <2>4, <2>5
<1> QED BY <1>9, <1>10, <1>11

(* What applyOverallBest computes: the best time is one of a valid run,    *)
(* and no valid run took less.                                             *)
LEMMA StandingTypes ==
  ASSUME TypeInv, NEW rule \in Rules, NEW combo \in Combos, NEW st,
         st = Standing(Runs, combo, rule)
  PROVE  /\ st \in Standings /\ st.combo = combo
         /\ st.invalid <=> ValidOf(combo, rule) = {}
         /\ ~st.invalid => \E r \in ValidOf(combo, rule) : FinalMS(r, rule) = st.best
         /\ \A r \in ValidOf(combo, rule) : st.best <= FinalMS(r, rule)
<1> DEFINE V     == ValidOf(combo, rule)
           n     == Cardinality(V)
           valid == Fastest(V, rule)
<1>1. V \in SUBSET Runs
  BY DEF ValidOf, Valid, OfCombo
<1>2. st = [ combo     |-> combo,
             invalid   |-> n = 0,
             best      |-> IF n > 0 THEN FinalMS(valid[1], rule) ELSE 0,
             bestAt    |-> IF n > 0 THEN valid[1].at ELSE 0,
             hasSecond |-> n > 1,
             second    |-> IF n > 1 THEN FinalMS(valid[2], rule) ELSE 0 ]
  BY DEF Standing, ValidOf, Fastest
<1>3. /\ n \in Nat /\ valid \in [ 1 .. n -> V ]
      /\ n = 0 <=> V = {}
      /\ \A r \in V : FinalMS(valid[1], rule) <= FinalMS(r, rule)
  BY <1>1, FastestFirst
<1> HIDE DEF V, n, valid
<1>4. n > 0 => /\ valid[1] \in V
               /\ FinalMS(valid[1], rule) \in Int
               /\ valid[1].at \in Int
  <2> SUFFICES ASSUME n > 0 PROVE /\ valid[1] \in V
                                  /\ FinalMS(valid[1], rule) \in Int
                                  /\ valid[1].at \in Int
    OBVIOUS
  <2>1. valid[1] \in V
    BY <1>3
  <2>2. valid[1] \in Runs
    BY <1>1, <2>1
  <2> QED BY <2>1, <2>2, TimesAreInt, RunTypes
<1>5. n > 1 => FinalMS(valid[2], rule) \in Int
  <2> SUFFICES ASSUME n > 1 PROVE FinalMS(valid[2], rule) \in Int
    OBVIOUS
  <2>1. valid[2] \in V
    BY <1>3
  <2>2. valid[2] \in Runs
    BY <1>1, <2>1
  <2> QED BY <2>2, TimesAreInt
<1>6. st \in Standings
  <2>1. /\ (IF n > 0 THEN FinalMS(valid[1], rule) ELSE 0) \in Int
        /\ (IF n > 0 THEN valid[1].at ELSE 0) \in Int
        /\ (IF n > 1 THEN FinalMS(valid[2], rule) ELSE 0) \in Int
    BY <1>4, <1>5
  <2> QED BY <1>2, <2>1 DEF Standings
<1>7. /\ st.combo = combo
      /\ st.invalid <=> n = 0
      /\ st.best = IF n > 0 THEN FinalMS(valid[1], rule) ELSE 0
  <2>1. st.combo = combo
    BY <1>2
  <2>3. st.invalid = (n = 0)
    BY <1>2
  <2>2. st.best = IF n > 0 THEN FinalMS(valid[1], rule) ELSE 0
    BY <1>2
  <2> QED BY <2>1, <2>2, <2>3
<1>8. st.invalid <=> V = {}
  BY <1>3, <1>7
<1>9. ~st.invalid => \E r \in V : FinalMS(r, rule) = st.best
  BY <1>3, <1>4, <1>7
<1>10. \A r \in V : st.best <= FinalMS(r, rule)
  <2> SUFFICES ASSUME NEW r \in V PROVE st.best <= FinalMS(r, rule)
    OBVIOUS
  <2>1. n > 0
    BY <1>3
  <2> QED BY <1>3, <1>7, <2>1
<1> QED BY <1>6, <1>7, <1>8, <1>9, <1>10 DEF V

-----------------------------------------------------------------------------
(* The ranking.                                                            *)

LEMMA StandingsTyped ==
  ASSUME TypeInv, NEW rule \in Rules
  PROVE  /\ IsFiniteSet(StandingsOf(Runs, rule))
         /\ \A a \in StandingsOf(Runs, rule) :
              /\ a \in Standings /\ a.combo \in Combos
              /\ a = Standing(Runs, a.combo, rule)
         /\ \A a, b \in StandingsOf(Runs, rule) : a.combo = b.combo => a = b
         /\ \A r \in Runs : Standing(Runs, r.combo, rule) \in StandingsOf(Runs, rule)
<1> DEFINE T == StandingsOf(Runs, rule)
           f == [ r \in Runs |-> Standing(Runs, r.combo, rule) ]
<1>1. f \in Surjection(Runs, T)
  <2>1. f \in [ Runs -> T ]
    BY DEF StandingsOf
  <2>2. \A a \in T : \E r \in Runs : f[r] = a
    BY DEF StandingsOf
  <2> QED BY <2>1, <2>2 DEF Surjection
<1>2. IsFiniteSet(T)
  <2> HIDE DEF T, f
  <2> QED BY <1>1, RunsAreFinite, FS_Surjection
<1>3. ASSUME NEW a \in T
      PROVE  /\ a \in Standings /\ a.combo \in Combos
             /\ a = Standing(Runs, a.combo, rule)
  <2>1. PICK r \in Runs : a = Standing(Runs, r.combo, rule)
    BY DEF StandingsOf
  <2>2. r.combo \in Combos
    BY RunTypes
  <2>3. a \in Standings /\ a.combo = r.combo
    BY <2>1, <2>2, StandingTypes
  <2> QED BY <2>1, <2>2, <2>3
<1>4. \A a, b \in T : a.combo = b.combo => a = b
  BY <1>3
<1>5. \A r \in Runs : Standing(Runs, r.combo, rule) \in T
  BY DEF StandingsOf
<1> HIDE DEF T
<1> QED BY <1>2, <1>3, <1>4, <1>5 DEF T

(* Whatever the logs, and whatever the rule is changed to, lessStanding    *)
(* decides between any two standings of the event, and only one way        *)
(* (internal/domain/rank.go).                                              *)
THEOREM RankingIsAlwaysDecided == Spec => []RankingIsDecided
<1>1. ASSUME TypeInv, NEW rule \in Rules, NEW a \in StandingsOf(Runs, rule),
             NEW b \in StandingsOf(Runs, rule), a # b
      PROVE  LessStanding(a, b) <=> ~LessStanding(b, a)
  <2>1. a \in Standings /\ b \in Standings /\ a.combo # b.combo
    BY <1>1, StandingsTyped
  <2> QED BY <2>1, RankingDecides
<1>2. TypeInv => RankingIsDecided
  BY <1>1 DEF RankingIsDecided
<1> QED BY <1>2, InitTypes, NextTypes, PTL DEF Spec

RankOrder(T) == { p \in T \X T : LessStanding(p[1], p[2]) }

LEMMA NotLessThanItself ==
  ASSUME NEW a \in Standings
  PROVE  ~LessStanding(a, a)
<1>1. /\ a.combo \in Combos /\ a.combo \in Nat /\ a.best \in Int /\ a.bestAt \in Int
  BY CombosAreNumbers DEF Standings
<1>2. ~LessSecond(a, a)
  BY SecondTrichotomy
<1>3. ~LessCC(a.combo, a.combo)
  BY <1>1, CCTrichotomy
<1>4. ~LessValid(a, a)
  BY <1>1, <1>2, <1>3 DEF LessValid
<1>5. ~(a.combo < a.combo)
  BY <1>1
<1> QED BY Zenon, <1>4, <1>5 DEF LessStanding

LEMMA RankInOrder ==
  ASSUME TypeInv, NEW rule \in Rules, NEW table, table = Rank(Runs, rule)
  PROVE  LET T == StandingsOf(Runs, rule)
             n == Cardinality(T)
         IN /\ n \in Nat /\ table \in [ 1 .. n -> T ]
            /\ \A a \in T : \E i \in 1 .. n : table[i] = a
            /\ \A i, j \in 1 .. n : i < j <=> LessStanding(table[i], table[j])
<1> DEFINE T    == StandingsOf(Runs, rule)
           n    == Cardinality(T)
           P(s) == \A i, j \in 1 .. n : i < j => s[i] # s[j] /\ ~LessStanding(s[j], s[i])
           list == CHOOSE s \in [ 1 .. n -> T ] : P(s)
<1>1. IsFiniteSet(T) /\ \A a \in T : a \in Standings
  BY StandingsTyped
<1>2. \A a, b \in T : a.combo = b.combo => a = b
  BY StandingsTyped
<1>3. table = list
  BY DEF Rank, InOrder
<1>4. \A a, b \in T : <<a, b>> \in RankOrder(T) <=> LessStanding(a, b)
  BY DEF RankOrder
<1>5. Decides(RankOrder(T), T)
  <2>1. \A a \in T : ~LessStanding(a, a)
    BY <1>1, NotLessThanItself
  <2>2. \A a, b \in T : a # b => LessStanding(a, b) \/ LessStanding(b, a)
    BY <1>1, <1>2, RankingDecides
  <2>3. \A a, b, c \in T : LessStanding(a, b) /\ LessStanding(b, c) => LessStanding(a, c)
    BY <1>1, RankingIsTransitive
  <2> HIDE DEF T
  <2> QED BY <1>4, <2>1, <2>2, <2>3 DEF Decides
<1>6. \A s \in [ 1 .. n -> T ] : P(s) <=> s \in SortedBy(RankOrder(T), T)
  <2> HIDE DEF T
  <2> QED BY <1>4 DEF SortedBy
<1>7. \E s \in SortedBy(RankOrder(T), T) : TRUE
  BY <1>1, <1>5, CanBeSorted
<1>8. \E s \in [ 1 .. n -> T ] : P(s)
  <2> HIDE DEF T, P
  <2> QED BY <1>6, <1>7 DEF SortedBy
<1>9. list \in [ 1 .. n -> T ] /\ P(list)
  <2> HIDE DEF P, T
  <2> QED BY <1>8
<1>10. table \in SortedBy(RankOrder(T), T)
  BY <1>3, <1>6, <1>9
<1> HIDE DEF list, P
<1>11. /\ table \in [ 1 .. n -> T ] /\ n \in Nat
       /\ \A a \in T : \E i \in 1 .. n : table[i] = a
       /\ \A i, j \in 1 .. n : i < j <=> <<table[i], table[j]>> \in RankOrder(T)
  BY <1>1, <1>5, <1>10, SortedListsAll
<1>12. \A i, j \in 1 .. n : i < j <=> LessStanding(table[i], table[j])
  <2> HIDE DEF T
  <2> QED BY <1>4, <1>11
<1> QED BY <1>11, <1>12

-----------------------------------------------------------------------------
(* The drill-down.                                                         *)

All(rule)         == Population(Runs, Present, rule)
Under(time, rule) == { r \in All(rule) : FinalMS(r, rule) < time }

(* The place of a combination: one more than the runs that took less than  *)
(* its best time.                                                          *)
PlaceOf(a, rule) == 1 + Cardinality(Under(a.best, rule))

LEMMA UnderIsMonotonic ==
  ASSUME TypeInv, NEW rule \in Rules, NEW s \in Int, NEW t \in Int, s <= t
  PROVE  /\ Cardinality(Under(s, rule)) \in Nat /\ Cardinality(Under(t, rule)) \in Nat
         /\ Cardinality(Under(s, rule)) <= Cardinality(Under(t, rule))
<1>1. Under(s, rule) \in SUBSET Runs /\ Under(t, rule) \in SUBSET Runs
  BY DEF Under, All, Population, Valid
<1>2. IsFiniteSet(Under(s, rule)) /\ IsFiniteSet(Under(t, rule))
  BY <1>1, RunsAreFinite, FS_Subset
<1>3. Under(s, rule) \in SUBSET Under(t, rule)
  <2>1. \A r \in Under(s, rule) : FinalMS(r, rule) \in Int
    BY <1>1, TimesAreInt
  <2> QED BY <2>1 DEF Under
<1> QED BY <1>2, <1>3, FS_Subset, FS_CardinalityType

LEMMA AllOfCombo ==
  ASSUME TypeInv, NEW rule \in Rules
  PROVE  /\ All(rule) \in SUBSET Runs
         /\ \A combo \in Present : OfCombo(All(rule), combo) = ValidOf(combo, rule)
         /\ \A r \in All(rule) : r \in ValidOf(r.combo, rule) /\ r.combo \in Present
<1>1. All(rule) = { r \in Valid(Runs, rule) : r.combo \in Present }
  BY DEF All, Population
<1>2. \A combo \in Present : OfCombo(All(rule), combo) = ValidOf(combo, rule)
  BY <1>1 DEF OfCombo, ValidOf, Valid
<1>3. All(rule) \in SUBSET Runs
  BY <1>1 DEF Valid
<1>4. \A r \in All(rule) : r \in ValidOf(r.combo, rule) /\ r.combo \in Present
  BY <1>1 DEF ValidOf, Valid, OfCombo
<1> QED BY <1>2, <1>3, <1>4

(* The lowest rank of the combination's runs is that of its best one.      *)
LEMMA LowestRank ==
  ASSUME TypeInv, NEW rule \in Rules, NEW a \in StandingsOf(Runs, rule), ~a.invalid,
         a.combo \in Present
  PROVE  /\ Min({ RankInFilter(All(rule), r, rule) : r \in OfCombo(All(rule), a.combo) })
              = PlaceOf(a, rule)
         /\ PlaceOf(a, rule) \in Nat
<1> DEFINE V  == ValidOf(a.combo, rule)
           rk(r) == RankInFilter(All(rule), r, rule)
           K  == { rk(r) : r \in V }
           m  == PlaceOf(a, rule)
<1>1. a \in Standings /\ a.combo \in Combos /\ a = Standing(Runs, a.combo, rule)
  BY StandingsTyped
<1>2. a.best \in Int
  BY <1>1 DEF Standings
<1>3. /\ \E r \in V : FinalMS(r, rule) = a.best
      /\ \A r \in V : a.best <= FinalMS(r, rule)
  BY <1>1, StandingTypes
<1>4. \A r \in V : FinalMS(r, rule) \in Int
  <2>1. \A r \in V : r \in Runs
    BY DEF ValidOf, Valid, OfCombo
  <2> QED BY <2>1, TimesAreInt
<1>5. \A r : rk(r) = 1 + Cardinality(Under(FinalMS(r, rule), rule))
  BY DEF RankInFilter, Under
<1>6. m \in Nat
  <2>1. Cardinality(Under(a.best, rule)) \in Nat
    BY <1>2, UnderIsMonotonic
  <2> QED BY <2>1 DEF PlaceOf
<1>7. ASSUME NEW r \in V PROVE rk(r) \in Nat /\ m <= rk(r)
  <2>1. a.best <= FinalMS(r, rule) /\ FinalMS(r, rule) \in Int
    BY <1>3, <1>4
  <2>2. /\ Cardinality(Under(a.best, rule)) \in Nat
        /\ Cardinality(Under(FinalMS(r, rule), rule)) \in Nat
        /\ Cardinality(Under(a.best, rule)) <= Cardinality(Under(FinalMS(r, rule), rule))
    BY <1>2, <2>1, UnderIsMonotonic
  <2>3. rk(r) = 1 + Cardinality(Under(FinalMS(r, rule), rule))
    BY <1>5
  <2>4. m = 1 + Cardinality(Under(a.best, rule))
    BY DEF PlaceOf
  <2> HIDE DEF rk, m
  <2> QED BY <2>2, <2>3, <2>4
<1>8. \E r \in V : rk(r) = m
  <2>1. PICK r \in V : FinalMS(r, rule) = a.best
    BY <1>3
  <2>2. rk(r) = m
    BY <1>5, <2>1 DEF PlaceOf
  <2> QED BY <2>2
<1> HIDE DEF rk, m, V
<1>9. m \in K /\ \A k \in K : m <= k /\ k \in Nat
  BY <1>7, <1>8
<1>10. Min(K) = m
  <2>1. Min(K) \in K /\ \A k \in K : Min(K) <= k
    <3> HIDE DEF K
    <3> QED BY <1>9 DEF Min
  <2> HIDE DEF K
  <2>2. Min(K) \in Nat /\ m <= Min(K)
    BY <1>9, <2>1
  <2>3. Min(K) <= m
    BY <1>9, <2>1
  <2> QED BY <1>6, <2>2, <2>3
<1>11. OfCombo(All(rule), a.combo) = V
  BY AllOfCombo DEF V
<1>12. K = { RankInFilter(All(rule), r, rule) : r \in V }
  BY DEF rk
<1> HIDE DEF K
<1> QED BY <1>6, <1>10, <1>11, <1>12 DEF m

LEMMA Agreement ==
  ASSUME TypeInv, NEW rule \in Rules, NEW table, table = Rank(Runs, rule)
  PROVE  /\ \A i \in DOMAIN table : table[i] \in StandingsOf(Runs, rule)
         /\ \A i \in DOMAIN table : ~table[i].invalid =>
              \A j \in 1 .. i :
                /\ j \in DOMAIN table /\ ~table[j].invalid
                /\ PlaceOf(table[j], rule) <= PlaceOf(table[i], rule)
         /\ \A i \in ShownRows(table) :
              ~table[i].invalid /\ (\A j \in ShownRows(table) : i <= j) => PlaceOf(table[i], rule) = 1
<1> DEFINE T == StandingsOf(Runs, rule)
           n == Cardinality(T)
<1>1. /\ n \in Nat /\ table \in [ 1 .. n -> T ]
      /\ \A a \in T : \E i \in 1 .. n : table[i] = a
      /\ \A i, j \in 1 .. n : i < j <=> LessStanding(table[i], table[j])
  BY RankInOrder
<1>2. \A a \in T : a \in Standings /\ a.combo \in Combos /\ a = Standing(Runs, a.combo, rule)
  BY StandingsTyped
<1>3. \A r \in Runs : Standing(Runs, r.combo, rule) \in T
  BY StandingsTyped
<1> HIDE DEF T, n
<1>4. DOMAIN table = 1 .. n /\ \A i \in 1 .. n : table[i] \in T
  BY <1>1
<1>5. ASSUME NEW i \in 1 .. n, NEW j \in 1 .. n, j <= i, ~table[i].invalid
      PROVE  ~table[j].invalid /\ table[j].best <= table[i].best
  <2>1. table[i] \in Standings /\ table[j] \in Standings
    BY <1>2, <1>4
  <2>2. /\ table[i].best \in Int /\ table[j].best \in Int
        /\ table[i].invalid \in BOOLEAN /\ table[j].invalid \in BOOLEAN
    BY <2>1 DEF Standings
  <2>3. CASE j = i
    BY <1>5, <2>2, <2>3
  <2>4. CASE j < i
    <3>1. LessStanding(table[j], table[i])
      BY <1>1, <2>4
    <3>2. ~table[j].invalid
      BY Zenon, <1>5, <2>2, <3>1 DEF LessStanding
    <3>3. LessValid(table[j], table[i])
      <4>1. table[i].invalid = table[j].invalid
        BY <1>5, <2>2, <3>2
      <4> QED BY Zenon, <3>1, <3>2, <4>1 DEF LessStanding
    <3>4. table[j].best <= table[i].best
      BY <2>2, <3>3 DEF LessValid
    <3> QED BY <3>2, <3>4
  <2> QED BY <1>1, <1>5, <2>3, <2>4
<1>6. ASSUME NEW i \in 1 .. n, NEW j \in 1 .. n, j <= i, ~table[i].invalid
      PROVE  PlaceOf(table[j], rule) <= PlaceOf(table[i], rule)
  <2>1. table[j].best <= table[i].best
    BY <1>5, <1>6
  <2>2. table[i].best \in Int /\ table[j].best \in Int
    BY <1>2, <1>4 DEF Standings
  <2>3. /\ Cardinality(Under(table[j].best, rule)) \in Nat
        /\ Cardinality(Under(table[i].best, rule)) \in Nat
        /\ Cardinality(Under(table[j].best, rule)) <= Cardinality(Under(table[i].best, rule))
    BY <2>1, <2>2, UnderIsMonotonic
  <2> QED BY <2>3 DEF PlaceOf
<1>7. ASSUME NEW i \in 1 .. n, ~table[i].invalid,
             \A j \in 1 .. n : table[j].combo \in Present => i <= j
      PROVE  PlaceOf(table[i], rule) = 1
  <2>1. table[i].best \in Int
    BY <1>2, <1>4, <1>7 DEF Standings
  <2>2. ASSUME NEW r \in Under(table[i].best, rule) PROVE FALSE
    <3>1. r \in All(rule) /\ FinalMS(r, rule) < table[i].best
      BY <2>2 DEF Under
    <3>2. r \in Runs /\ r.combo \in Combos /\ r \in ValidOf(r.combo, rule)
          /\ FinalMS(r, rule) \in Int /\ r.combo \in Present
      <4>1. r \in Runs /\ r \in ValidOf(r.combo, rule) /\ r.combo \in Present
        BY <3>1, AllOfCombo
      <4> QED BY <4>1, RunTypes, TimesAreInt
    <3> DEFINE st == Standing(Runs, r.combo, rule)
    <3>3. st \in T
      BY <1>3, <3>2
    <3>4. /\ st.invalid <=> ValidOf(r.combo, rule) = {}
          /\ st.best <= FinalMS(r, rule)
          /\ st \in Standings /\ st.combo = r.combo
      BY <3>2, StandingTypes
    <3> HIDE DEF st
    <3>5. ~st.invalid /\ st.best \in Int
      BY <3>2, <3>4 DEF Standings
    <3>6. PICK k \in 1 .. n : table[k] = st
      BY <1>1, <3>3
    <3>7. i <= k
      BY <1>7, <3>2, <3>4, <3>6
    <3>8. table[i].best <= table[k].best
      BY <1>5, <1>7, <3>5, <3>6, <3>7
    <3> QED BY <2>1, <3>1, <3>2, <3>4, <3>5, <3>6, <3>8
  <2>3. Under(table[i].best, rule) = {}
    BY <2>2
  <2>4. Cardinality(Under(table[i].best, rule)) = 0
    BY <2>3, FS_EmptySet
  <2> QED BY <2>4 DEF PlaceOf
<1>8. ASSUME NEW i \in 1 .. n, ~table[i].invalid, NEW j \in 1 .. i
      PROVE  /\ j \in 1 .. n /\ ~table[j].invalid
             /\ PlaceOf(table[j], rule) <= PlaceOf(table[i], rule)
  <2>1. j \in 1 .. n /\ j <= i
    BY <1>1
  <2> QED BY <1>5, <1>6, <1>8, <2>1
<1>9. \A i \in DOMAIN table : table[i] \in StandingsOf(Runs, rule)
  BY <1>4 DEF T
<1>10. ASSUME NEW i \in ShownRows(table), ~table[i].invalid, \A j \in ShownRows(table) : i <= j
       PROVE  PlaceOf(table[i], rule) = 1
  <2>1. i \in 1 .. n /\ \A j \in 1 .. n : table[j].combo \in Present => i <= j
    BY <1>4, <1>10 DEF ShownRows
  <2> QED BY <1>7, <1>10, <2>1
<1> QED BY <1>4, <1>8, <1>9, <1>10

(* The ranking and the drill-down, computed apart, and with deleted        *)
(* drivers and vehicles left out in different places, agree on who is      *)
(* ahead: the best time of the leader on the board has rank 1, and a       *)
(* combination that is shown before another has no higher rank             *)
(* (internal/snapshot/ranking.go, internal/snapshot/combination.go).       *)
THEOREM DrilldownAgrees == Spec => []RankingAgreesWithDrilldown
<1>1. ASSUME TypeInv, NEW rule \in Rules
      PROVE  LET all      == Population(Runs, Present, rule)
                 table    == Rank(Runs, rule)
                 rows     == ShownRows(table)
                 ranked   == { i \in rows : ~table[i].invalid }
                 place(i) == Min({ RankInFilter(all, r, rule) : r \in OfCombo(all, table[i].combo) })
             IN \A i \in ranked :
                  /\ (\A j \in rows : i <= j) => place(i) = 1
                  /\ \A j \in rows : j < i => j \in ranked /\ place(j) <= place(i)
  <2> DEFINE all      == Population(Runs, Present, rule)
             table    == Rank(Runs, rule)
             rows     == ShownRows(table)
             ranked   == { i \in rows : ~table[i].invalid }
             place(i) == Min({ RankInFilter(all, r, rule) : r \in OfCombo(all, table[i].combo) })
  <2>1. /\ \A i \in DOMAIN table : table[i] \in StandingsOf(Runs, rule)
        /\ \A i \in DOMAIN table : ~table[i].invalid =>
             \A j \in 1 .. i :
               /\ j \in DOMAIN table /\ ~table[j].invalid
               /\ PlaceOf(table[j], rule) <= PlaceOf(table[i], rule)
        /\ \A i \in rows : ~table[i].invalid /\ (\A j \in rows : i <= j) => PlaceOf(table[i], rule) = 1
    BY <1>1, Agreement
  <2>2. all = All(rule)
    BY DEF All
  <2>3. \A i \in rows : i \in DOMAIN table /\ i \in Nat \ {0} /\ table[i].combo \in Present
    <3>1. DOMAIN table = 1 .. Cardinality(StandingsOf(Runs, rule)) /\ Cardinality(StandingsOf(Runs, rule)) \in Nat
      BY <1>1, RankInOrder
    <3> HIDE DEF table
    <3> QED BY <3>1 DEF ShownRows
  <2> HIDE DEF table, all, rows
  <2>4. ASSUME NEW i \in ranked PROVE place(i) = PlaceOf(table[i], rule)
    <3>1. table[i] \in StandingsOf(Runs, rule) /\ ~table[i].invalid /\ table[i].combo \in Present
      BY <2>1, <2>3
    <3>2. Min({ RankInFilter(All(rule), r, rule) : r \in OfCombo(All(rule), table[i].combo) })
            = PlaceOf(table[i], rule)
      BY <1>1, <3>1, LowestRank
    <3> QED BY <2>2, <3>2
  <2> HIDE DEF place
  <2>5. ASSUME NEW i \in ranked, \A j \in rows : i <= j PROVE place(i) = 1
    BY <2>1, <2>4, <2>5
  <2>6. ASSUME NEW i \in ranked, NEW j \in rows, j < i PROVE j \in ranked /\ place(j) <= place(i)
    <3>1. j \in 1 .. i /\ i \in DOMAIN table
      BY <2>3, <2>6
    <3>2. j \in ranked /\ PlaceOf(table[j], rule) <= PlaceOf(table[i], rule)
      BY <2>1, <3>1
    <3> QED BY <2>4, <3>2
  <2> QED BY <2>5, <2>6 DEF table, all, rows, place
<1>2. TypeInv => RankingAgreesWithDrilldown
  BY <1>1 DEF RankingAgreesWithDrilldown
<1> QED BY <1>2, InitTypes, NextTypes, PTL DEF Spec
=============================================================================
