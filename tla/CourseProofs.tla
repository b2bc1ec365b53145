---------------------------- MODULE CourseProofs ----------------------------
(***************************************************************************)
(* Type correctness of the course, for any number of handlers, cars,       *)
(* crashes and failed writes.  It rests on what the statements of the      *)
(* queue table return and preserve, for every table: each keeps a table a  *)
(* table, Enqueue adds at the back, an undone launch comes back in front,  *)
(* and renumbering the waiting list changes no car's turn.                 *)
(*                                                                         *)
(* TypeInv adds to TypeOK what the types leave open about a handler        *)
(* between two steps: that the row or entry it reads next is there, and    *)
(* that a check it has made still holds of what it carries.                *)
(***************************************************************************)
EXTENDS CourseProperties, TLAPS, FiniteSetTheorems, SequenceTheorems

-----------------------------------------------------------------------------
(* A finite nonempty set of integers has a least and a greatest element.   *)

LEMMA LeastNatural ==
  ASSUME NEW S \in SUBSET Nat, S # {}
  PROVE  \E n \in S : \A m \in S : n <= m
<1>. DEFINE less == OpToRel(<, Nat)
<1>1. IsWellFoundedOn(less, Nat)
  BY NatLessThanWellFounded
<1>2. PICK n \in S : \A m \in S : <<m, n>> \notin less
  <2>. HIDE DEF less
  <2>. QED BY <1>1, WFMin
<1>3. \A m \in S : ~(m < n)
  BY <1>2 DEF OpToRel
<1>. QED BY <1>3

LEMMA LeastInteger ==
  ASSUME NEW S \in SUBSET Int, S # {}, IsFiniteSet(S)
  PROVE  \E p \in S : \A s \in S : p <= s
<1>. DEFINE Below(p) == { s \in S : s <= p }
            Sizes    == { Cardinality(Below(p)) : p \in S }
<1>1. \A p \in S : IsFiniteSet(Below(p)) /\ Cardinality(Below(p)) \in Nat
  BY FS_Subset, FS_CardinalityType
<1>2. PICK p \in S : \A s \in S : Cardinality(Below(p)) <= Cardinality(Below(s))
  <2>1. Sizes \in SUBSET Nat /\ Sizes # {}
    BY <1>1
  <2>2. PICK n \in Sizes : \A m \in Sizes : n <= m
    <3>. HIDE DEF Sizes
    <3>. QED BY <2>1, LeastNatural
  <2>. QED BY <2>2
<1>3. ASSUME NEW s \in S, s < p
      PROVE  FALSE
  <2>1. s \in Int /\ p \in Int
    OBVIOUS
  <2>2. p \in Below(p) /\ p \notin Below(s)
    BY <1>3, <2>1
  <2>3. \A x \in Below(s) : x \in Below(p)
    BY <1>3, <2>1
  <2>4. Cardinality(Below(s)) <= Cardinality(Below(p))
        /\ Cardinality(Below(s)) # Cardinality(Below(p))
    <3>. HIDE DEF Below
    <3>. QED BY <1>1, <2>2, <2>3, FS_Subset
  <2>. QED BY <1>1, <1>2, <2>4
<1>. QED BY <1>3

LEMMA GreatestInteger ==
  ASSUME NEW S \in SUBSET Int, S # {}, IsFiniteSet(S)
  PROVE  \E p \in S : \A s \in S : s <= p
<1>. DEFINE T == { -s : s \in S }
            f == [ s \in S |-> -s ]
<1>1. f \in Surjection(S, T)
  BY DEF Surjection
<1>2. T \in SUBSET Int /\ T # {} /\ IsFiniteSet(T)
  <2>. HIDE DEF f
  <2>. QED BY <1>1, FS_Surjection
<1>3. PICK m \in T : \A t \in T : m <= t
  <2>. HIDE DEF T
  <2>. QED BY <1>2, LeastInteger
<1>. QED BY <1>3

-----------------------------------------------------------------------------
(* The rows ListQueue returns.                                             *)

LEMMA ListedRows ==
  ASSUME NEW q \in Seq(QueueRow), NEW ev, NEW status
  PROVE  /\ ListQueue(q, ev, status) \in SUBSET QueueRow
         /\ IsFiniteSet(ListQueue(q, ev, status))
<1>. DEFINE I == { i \in DOMAIN q : q[i].ev = ev /\ q[i].status = status }
            f == [ i \in I |-> q[i] ]
<1>1. I \in SUBSET (1 .. Len(q)) /\ Len(q) \in Nat /\ q \in [1 .. Len(q) -> QueueRow]
  BY LenProperties
<1>2. IsFiniteSet(I)
  <2>1. IsFiniteSet(1 .. Len(q))
    BY <1>1, FS_Interval
  <2>. HIDE DEF I
  <2>. QED BY <1>1, <2>1, FS_Subset
<1>3. f \in Surjection(I, ListQueue(q, ev, status))
  BY DEF Surjection, ListQueue
<1>4. IsFiniteSet(ListQueue(q, ev, status))
  <2>. HIDE DEF f, I
  <2>. QED BY <1>2, <1>3, FS_Surjection
<1>. QED BY <1>1, <1>4 DEF ListQueue

LEMMA Positions ==
  ASSUME NEW rows \in SUBSET QueueRow, IsFiniteSet(rows)
  PROVE  { s.pos : s \in rows } \in SUBSET Int /\ IsFiniteSet({ s.pos : s \in rows })
<1>. DEFINE P == { s.pos : s \in rows }
            f == [ s \in rows |-> s.pos ]
<1>1. f \in Surjection(rows, P)
  BY DEF Surjection
<1>2. IsFiniteSet(P)
  <2>. HIDE DEF f, P
  <2>. QED BY <1>1, FS_Surjection
<1>. QED BY <1>2 DEF QueueRow

(* Enqueue's position is behind everything that waits (MAX(position) + 1). *)
LEMMA BackIsBehind ==
  ASSUME NEW rows \in SUBSET QueueRow, IsFiniteSet(rows)
  PROVE  /\ BackPosition(rows) \in Int
         /\ \A s \in rows : s.pos < BackPosition(rows)
<1>. DEFINE P == { s.pos : s \in rows }
            m == CHOOSE p \in P : \A s \in rows : s.pos <= p
<1>1. CASE rows = {}
  BY <1>1 DEF BackPosition
<1>2. CASE rows # {}
  <2>1. P \in SUBSET Int /\ IsFiniteSet(P) /\ P # {}
    BY <1>2, Positions
  <2>2. \E p \in P : \A s \in P : s <= p
    <3>. HIDE DEF P
    <3>. QED BY <2>1, GreatestInteger
  <2>3. m \in P /\ \A s \in rows : s.pos <= m
    BY <2>2
  <2>4. BackPosition(rows) = 1 + m
    BY <1>2 DEF BackPosition
  <2>5. m \in Int
    BY <2>1, <2>3
  <2>6. \A s \in rows : s.pos \in Int
    BY DEF QueueRow
  <2>. HIDE DEF m
  <2>. QED BY <2>3, <2>4, <2>5, <2>6
<1>. QED BY <1>1, <1>2

(* frontOfWaitingPosition is before everything that waits.                 *)
LEMMA FrontIsAhead ==
  ASSUME NEW rows \in SUBSET QueueRow, IsFiniteSet(rows)
  PROVE  /\ FrontPosition(rows) \in Int
         /\ \A s \in rows : FrontPosition(rows) < s.pos
<1>. DEFINE P == { s.pos : s \in rows }
            m == CHOOSE p \in P : \A s \in rows : p <= s.pos
<1>1. CASE rows = {}
  BY <1>1 DEF FrontPosition
<1>2. CASE rows # {}
  <2>1. P \in SUBSET Int /\ IsFiniteSet(P) /\ P # {}
    BY <1>2, Positions
  <2>2. \E p \in P : \A s \in P : p <= s
    <3>. HIDE DEF P
    <3>. QED BY <2>1, LeastInteger
  <2>3. m \in P /\ \A s \in rows : m <= s.pos
    BY <2>2
  <2>4. FrontPosition(rows) = m - 1
    BY <1>2 DEF FrontPosition
  <2>5. m \in Int
    BY <2>1, <2>3
  <2>6. \A s \in rows : s.pos \in Int
    BY DEF QueueRow
  <2>. HIDE DEF m
  <2>. QED BY <2>3, <2>4, <2>5, <2>6
<1>. QED BY <1>1, <1>2

-----------------------------------------------------------------------------
(* Every statement maps a table to a table.                                *)

(* The statements that write one column of one row, and their values.      *)
LEMMA ColumnWrites ==
  ASSUME NEW q \in Seq(QueueRow), NEW r
  PROVE  /\ \A status \in QueueStatus :
              SetQueueStatus(q, r, status) \in Seq(QueueRow)
         /\ \A t \in Times \cup {NoTime} : SetStart(q, r, t) \in Seq(QueueRow)
         /\ \A on \in BOOLEAN : SetMC(q, r, on) \in Seq(QueueRow)
         /\ \A delta \in Int :
              (r \in DOMAIN q => q[r].pt + delta >= 0)
              => SetPT(q, r, delta) \in Seq(QueueRow)
<1>1. CASE r \in 1 .. Len(q)
  <2>1. q[r] \in QueueRow /\ DOMAIN q = 1 .. Len(q)
    BY <1>1, LenProperties, ElementOfSeq
  <2>2. \A row \in QueueRow : [q EXCEPT ![r] = row] \in Seq(QueueRow)
    BY <1>1, ExceptSeq
  <2>3. ASSUME NEW status \in QueueStatus
        PROVE  SetQueueStatus(q, r, status) \in Seq(QueueRow)
    <3>1. [q[r] EXCEPT !.status = status] \in QueueRow
      BY <2>1 DEF QueueRow
    <3>. QED BY <2>2, <3>1 DEF SetQueueStatus
  <2>4. ASSUME NEW t \in Times \cup {NoTime}
        PROVE  SetStart(q, r, t) \in Seq(QueueRow)
    <3>1. [q[r] EXCEPT !.tStart = t] \in QueueRow
      BY <2>1 DEF QueueRow
    <3>. QED BY <2>2, <3>1 DEF SetStart
  <2>5. ASSUME NEW on \in BOOLEAN
        PROVE  SetMC(q, r, on) \in Seq(QueueRow)
    <3>1. [q[r] EXCEPT !.mc = on] \in QueueRow
      BY <2>1 DEF QueueRow
    <3>. QED BY <2>2, <3>1 DEF SetMC
  <2>6. ASSUME NEW delta \in Int, r \in DOMAIN q => q[r].pt + delta >= 0
        PROVE  SetPT(q, r, delta) \in Seq(QueueRow)
    <3>1. q[r].pt \in Nat /\ q[r].pt + delta \in Nat
      BY <1>1, <2>1, <2>6 DEF QueueRow
    <3>2. [q[r] EXCEPT !.pt = @ + delta] \in QueueRow
      BY <2>1, <3>1 DEF QueueRow
    <3>. QED BY <2>2, <3>2 DEF SetPT
  <2>. QED BY <2>3, <2>4, <2>5, <2>6
<1>2. CASE r \notin 1 .. Len(q)
  <2>1. q \in [1 .. Len(q) -> QueueRow] /\ DOMAIN q = 1 .. Len(q)
    BY LenProperties
  <2>. QED BY <1>2, <2>1 DEF SetQueueStatus, SetStart, SetMC, SetPT
<1>. QED BY <1>1, <1>2

LEMMA EnqueueType ==
  ASSUME NEW q \in Seq(QueueRow), NEW ev \in Events, NEW entry \in Entries
  PROVE  Enqueue(q, ev, entry) \in Seq(QueueRow)
<1>. DEFINE waiting == ListQueue(q, ev, "waiting")
            new == [ id |-> Len(q) + 1, ev |-> ev, entry |-> entry,
                     pos |-> BackPosition(waiting), status |-> "waiting",
                     tStart |-> NoTime, pt |-> 0, mc |-> FALSE ]
<1>1. BackPosition(waiting) \in Int
  <2>1. waiting \in SUBSET QueueRow /\ IsFiniteSet(waiting)
    BY ListedRows
  <2>. HIDE DEF waiting
  <2>. QED BY <2>1, BackIsBehind
<1>2. new \in QueueRow
  <2>1. Len(q) + 1 \in Nat
    BY LenProperties
  <2>. HIDE DEF waiting
  <2>. QED BY <1>1, <2>1 DEF QueueRow, QueueStatus
<1>3. Enqueue(q, ev, entry) = Append(q, new)
  BY DEF Enqueue
<1>. HIDE DEF new
<1>. QED BY <1>2, <1>3, AppendProperties

(* A table rewritten row by row.                                           *)
LEMMA Rewritten ==
  ASSUME NEW q \in Seq(QueueRow), NEW f, DOMAIN f = DOMAIN q,
         f = [ i \in DOMAIN q |-> f[i] ],
         \A i \in DOMAIN q : f[i] \in QueueRow
  PROVE  f \in Seq(QueueRow)
<1>1. Len(q) \in Nat /\ DOMAIN q = 1 .. Len(q)
  BY LenProperties
<1>2. f \in [1 .. Len(q) -> QueueRow]
  BY <1>1
<1>. QED BY <1>1, <1>2, SeqDef

LEMMA CancelWaitingType ==
  ASSUME NEW q \in Seq(QueueRow), NEW ev
  PROVE  CancelWaiting(q, ev) \in Seq(QueueRow)
<1>. DEFINE f == CancelWaiting(q, ev)
<1>1. DOMAIN f = DOMAIN q /\ f = [ i \in DOMAIN q |-> f[i] ]
  BY DEF CancelWaiting
<1>2. ASSUME NEW i \in DOMAIN q
      PROVE  f[i] \in QueueRow
  <2>1. q[i] \in QueueRow
    BY LenProperties
  <2>2. [q[i] EXCEPT !.status = "canceled"] \in QueueRow
    BY <2>1 DEF QueueRow, QueueStatus
  <2>. QED BY <2>1, <2>2 DEF CancelWaiting
<1>3. f \in Seq(QueueRow)
  <2>. HIDE DEF f
  <2>. QED BY <1>1, <1>2, Rewritten
<1>. QED BY <1>3

-----------------------------------------------------------------------------
(* The waiting list and its renumbering.                                   *)

LEMMA RankIsNatural ==
  ASSUME NEW rows, IsFiniteSet(rows), NEW row
  PROVE  Rank(row, rows) \in Nat
<1>1. { s \in rows : Ahead(s, row) } \in SUBSET rows
  OBVIOUS
<1>. QED BY <1>1, FS_Subset, FS_CardinalityType DEF Rank

(***************************************************************************)
(* Reorder's renumbering gives every waiting row the place it already had: *)
(* of two rows, the one listed first has the smaller number.               *)
(***************************************************************************)
THEOREM RenumberingKeepsOrder ==
  ASSUME NEW rows \in SUBSET QueueRow, IsFiniteSet(rows),
         NEW s \in rows, NEW t \in rows, s.id # t.id, Ahead(s, t)
  PROVE  Rank(s, rows) < Rank(t, rows)
<1>. DEFINE Before(x) == { y \in rows : Ahead(y, x) }
<1>1. \A x \in rows : x.pos \in Int /\ x.id \in Int
  BY DEF QueueRow
<1>2. \A y \in Before(s) : y \in Before(t)
  BY <1>1 DEF Ahead
<1>3. t \in Before(t) /\ t \notin Before(s)
  BY <1>1 DEF Ahead
<1>4. \A x : Rank(x, rows) = Cardinality(Before(x))
  BY DEF Rank
<1>5. Before(s) \in SUBSET Before(t) /\ Before(t) \in SUBSET rows
  BY <1>2
<1>6. IsFiniteSet(Before(t))
  <2>. HIDE DEF Before
  <2>. QED BY <1>5, FS_Subset
<1>7. Cardinality(Before(s)) <= Cardinality(Before(t))
      /\ Cardinality(Before(s)) # Cardinality(Before(t))
  <2>. HIDE DEF Before
  <2>. QED BY <1>3, <1>5, <1>6, FS_Subset
<1>8. Rank(s, rows) \in Nat /\ Rank(t, rows) \in Nat
  BY RankIsNatural
<1>. QED BY <1>4, <1>7, <1>8

LEMMA ReorderType ==
  ASSUME NEW q \in Seq(QueueRow), NEW r, NEW pos \in Int
  PROVE  Reorder(q, r, pos) \in Seq(QueueRow)
<1>. DEFINE moved == [q EXCEPT ![r].pos = pos]
            waiting == ListQueue(moved, q[r].ev, "waiting")
            f == [ i \in DOMAIN q |->
                     IF moved[i] \in waiting
                     THEN [moved[i] EXCEPT !.pos = Rank(moved[i], waiting)]
                     ELSE moved[i] ]
<1>1. DOMAIN moved = DOMAIN q /\ moved = [ i \in DOMAIN q |-> moved[i] ]
  OBVIOUS
<1>2. ASSUME NEW i \in DOMAIN q
      PROVE  moved[i] \in QueueRow
  <2>1. q[i] \in QueueRow
    BY LenProperties
  <2>2. [q[i] EXCEPT !.pos = pos] \in QueueRow
    BY <2>1 DEF QueueRow
  <2>. QED BY <2>1, <2>2
<1>3. moved \in Seq(QueueRow)
  <2>. HIDE DEF moved
  <2>. QED BY <1>1, <1>2, Rewritten
<1>4. IsFiniteSet(waiting)
  <2>. HIDE DEF moved
  <2>. QED BY <1>3, ListedRows
<1>5. ASSUME NEW i \in DOMAIN q
      PROVE  f[i] \in QueueRow
  <2>. HIDE DEF moved, waiting
  <2>1. moved[i] \in QueueRow /\ Rank(moved[i], waiting) \in Int
    BY <1>2, <1>4, RankIsNatural
  <2>2. [moved[i] EXCEPT !.pos = Rank(moved[i], waiting)] \in QueueRow
    BY <2>1 DEF QueueRow
  <2>. QED BY <2>1, <2>2
<1>6. DOMAIN f = DOMAIN q /\ f = [ i \in DOMAIN q |-> f[i] ]
  OBVIOUS
<1>7. f \in Seq(QueueRow)
  <2>. HIDE DEF f
  <2>. QED BY <1>5, <1>6, Rewritten
<1>8. Reorder(q, r, pos) = IF Crowded(waiting) THEN f ELSE moved
  BY DEF Reorder
<1>. HIDE DEF f, moved, waiting
<1>. QED BY <1>3, <1>7, <1>8

-----------------------------------------------------------------------------
(* The steps at which a handler counts on its car, or on its entry.        *)
CarSteps   == {"finish", "insert_log", "check_undo", "clear_start", "undo_pt", "mc"}
EntrySteps == {"my_waiting", "my_away", "enqueue"}

CallOK(c) ==
  /\ c.pc \in CarSteps => c.car \in QueueRow
  /\ c.pc \in EntrySteps => c.ev \in Events /\ c.entry \in Entries
  /\ c.pc = "insert_log" => c.t >= c.car.tStart
  /\ c.pc = "log_orphan" => c.t >= c.run.tStart

CallsOK  == call \in [Actors -> Call] /\ \A a \in Actors : CallOK(call[a])

StoreOK  == /\ event \in [Events -> EventRow]
            /\ queue \in Seq(QueueRow)
            /\ logs \subseteq LogRow
            /\ logSeq \in Nat

MemoryOK == /\ pending \subseteq Finish
            /\ timers \subseteq Finish
            /\ confirming \subseteq Finish
            /\ orphanRuns \in Seq(OrphanRun)
            /\ orphanSeq \in Nat

SpentOK  == spent \in [ requests : Nat, triggers : Nat, crashes : Nat ]

TypeInv  == StoreOK /\ MemoryOK /\ CallsOK /\ SpentOK

-----------------------------------------------------------------------------
(* Kept drops runs and keeps the order of the others.                      *)

LEMMA KeptRuns ==
  ASSUME NEW S, NEW runs \in Seq(S), NEW I \in SUBSET (DOMAIN runs)
  PROVE  /\ Kept(runs, I) \in Seq(S)
         /\ \E at \in [DOMAIN Kept(runs, I) -> I] :
              /\ \A n \in DOMAIN Kept(runs, I) : Kept(runs, I)[n] = runs[at[n]]
              /\ \A m, n \in DOMAIN Kept(runs, I) : m < n => at[m] < at[n]
<1>. DEFINE UpTo(i) == { j \in I : j <= i }
            N == Cardinality(I)
            rank == [ i \in I |-> Cardinality(UpTo(i)) ]
            at == [ n \in 1 .. N |-> CHOOSE i \in I : n = Cardinality(UpTo(i)) ]
<1>1. Len(runs) \in Nat /\ DOMAIN runs = 1 .. Len(runs)
      /\ runs \in [1 .. Len(runs) -> S] /\ \A i \in I : i \in Nat
  BY LenProperties
<1>2. IsFiniteSet(I) /\ N \in Nat
  <2>1. IsFiniteSet(DOMAIN runs)
    BY <1>1, FS_Interval
  <2>. QED BY <2>1, FS_Subset, FS_CardinalityType
<1>3. \A i \in I : IsFiniteSet(UpTo(i)) /\ rank[i] \in 1 .. N
  <2>1. SUFFICES ASSUME NEW i \in I
                 PROVE  IsFiniteSet(UpTo(i)) /\ Cardinality(UpTo(i)) \in 1 .. N
    OBVIOUS
  <2>2. UpTo(i) \in SUBSET I /\ i \in UpTo(i)
    BY <1>1
  <2>. HIDE DEF UpTo
  <2>3. IsFiniteSet(UpTo(i)) /\ Cardinality(UpTo(i)) <= N
    BY <1>2, <2>2, FS_Subset
  <2>4. Cardinality(UpTo(i)) \in Nat /\ Cardinality(UpTo(i)) # 0
    BY <2>2, <2>3, FS_CardinalityType, FS_EmptySet
  <2>. QED BY <1>2, <2>3, <2>4
<1>4. ASSUME NEW i \in I, NEW k \in I, i < k
      PROVE  rank[i] < rank[k]
  <2>1. UpTo(i) \in SUBSET UpTo(k) /\ k \in UpTo(k) /\ k \notin UpTo(i)
    <3>1. i \in Nat /\ k \in Nat
      BY <1>1
    <3>2. k \in UpTo(k) /\ k \notin UpTo(i)
      BY <1>4, <3>1
    <3>3. \A j \in UpTo(i) : j \in UpTo(k)
      BY <1>1, <1>4, <3>1
    <3>. QED BY <3>2, <3>3
  <2>2. Cardinality(UpTo(i)) <= Cardinality(UpTo(k))
        /\ Cardinality(UpTo(i)) # Cardinality(UpTo(k))
    <3>1. IsFiniteSet(UpTo(k))
      BY <1>3
    <3>. HIDE DEF UpTo
    <3>. QED BY <2>1, <3>1, FS_Subset
  <2>3. rank[i] = Cardinality(UpTo(i)) /\ rank[k] = Cardinality(UpTo(k))
    OBVIOUS
  <2>4. rank[i] \in Nat /\ rank[k] \in Nat
    <3>. HIDE DEF rank, N, UpTo
    <3>. QED BY <1>2, <1>3
  <2>. HIDE DEF rank, UpTo
  <2>. QED BY <2>2, <2>3, <2>4
<1>5. rank \in Injection(I, 1 .. N)
  <2>1. rank \in [I -> 1 .. N]
    BY <1>3
  <2>2. ASSUME NEW i \in I, NEW k \in I, rank[i] = rank[k]
        PROVE  i = k
    <3>1. i \in Nat /\ k \in Nat /\ rank[i] \in Nat /\ rank[k] \in Nat
      <4>. HIDE DEF rank, N, UpTo
      <4>. QED BY <1>1, <1>2, <1>3
    <3>. HIDE DEF rank
    <3>. QED BY <1>4, <2>2, <3>1
  <2>. HIDE DEF rank
  <2>. QED BY <2>1, <2>2 DEF Injection, IsInjective
<1>6. rank \in Surjection(I, 1 .. N)
  <2>1. IsFiniteSet(1 .. N) /\ Cardinality(1 .. N) = N
    BY <1>2, FS_Interval
  <2>. HIDE DEF rank, N
  <2>2. Cardinality(I) = Cardinality(1 .. N)
    BY <2>1 DEF N
  <2>. QED BY <1>5, <2>1, <2>2, FS_Injection
<1>7. \A n \in 1 .. N : at[n] \in I /\ rank[at[n]] = n
  <2>1. ASSUME NEW n \in 1 .. N
        PROVE  \E i \in I : n = Cardinality(UpTo(i))
    <3>1. PICK i \in I : rank[i] = n
      <4>. HIDE DEF rank, N
      <4>. QED BY <1>6, <2>1 DEF Surjection
    <3>. QED BY <3>1
  <2>. HIDE DEF UpTo, N
  <2>. QED BY <2>1
<1>8. ASSUME NEW m \in 1 .. N, NEW n \in 1 .. N, m < n
      PROVE  at[m] < at[n]
  <2>. HIDE DEF at, rank
  <2>1. at[m] \in I /\ at[n] \in I /\ at[m] \in Nat /\ at[n] \in Nat
        /\ rank[at[m]] = m /\ rank[at[n]] = n /\ m \in Nat /\ n \in Nat
    BY <1>1, <1>2, <1>7
  <2>2. ~(at[n] < at[m]) /\ at[n] # at[m]
    BY <1>4, <1>8, <2>1
  <2>. QED BY <2>1, <2>2
<1>9. Kept(runs, I) = [ n \in 1 .. N |-> runs[at[n]] ]
  BY DEF Kept
<1>10. at \in [1 .. N -> I]
  <2>. HIDE DEF rank, N, UpTo
  <2>. QED BY <1>7
<1>. HIDE DEF at, rank, N
<1>11. Kept(runs, I) \in [1 .. N -> S] /\ DOMAIN Kept(runs, I) = 1 .. N
  BY <1>1, <1>9, <1>10
<1>12. Kept(runs, I) \in Seq(S)
  BY <1>2, <1>11, SeqDef
<1>. QED BY <1>8, <1>9, <1>10, <1>11, <1>12

(* restoreOrphanRun finds a place for every run: after runs with smaller   *)
(* ids only, and before one that has not.                                  *)
LEMMA ReinsertPlace ==
  ASSUME NEW runs \in Seq(OrphanRun), NEW run \in OrphanRun
  PROVE  \E n \in 0 .. Len(runs) :
           /\ \A j \in 1 .. n : runs[j].id < run.id
           /\ n < Len(runs) => runs[n + 1].id >= run.id
           /\ Reinsert(runs, run)
                = SubSeq(runs, 1, n) \o <<run>> \o SubSeq(runs, n + 1, Len(runs))
<1>. DEFINE Stop(i) == i < Len(runs) => runs[i + 1].id >= run.id
            Fits(i) == (\A j \in 1 .. i : runs[j].id < run.id) /\ Stop(i)
            n == CHOOSE i \in 0 .. Len(runs) : Fits(i)
            S == { i \in 0 .. Len(runs) : Stop(i) }
<1>1. Len(runs) \in Nat /\ \A i \in 1 .. Len(runs) : runs[i] \in OrphanRun
  BY LenProperties, ElementOfSeq
<1>2. \E i \in 0 .. Len(runs) : Fits(i)
  <2>1. S \in SUBSET Nat /\ Len(runs) \in S
    BY <1>1
  <2>2. PICK i \in S : \A m \in S : i <= m
    <3>. HIDE DEF S
    <3>. QED BY <2>1, LeastNatural
  <2>3. ASSUME NEW j \in 1 .. i
        PROVE  runs[j].id < run.id
    <3>1. j - 1 \in 0 .. Len(runs) /\ j - 1 < i /\ j \in 1 .. Len(runs)
      BY <1>1
    <3>2. j - 1 \notin S
      <4>. HIDE DEF S
      <4>. QED BY <1>1, <2>1, <2>2, <3>1
    <3>3. ~(runs[j].id >= run.id)
      BY <1>1, <3>1, <3>2
    <3>. QED BY <1>1, <3>1, <3>3 DEF OrphanRun
  <2>. QED BY <2>3
<1>3. n \in 0 .. Len(runs) /\ Fits(n)
  <2>. HIDE DEF Fits
  <2>. QED BY <1>2
<1>4. Reinsert(runs, run)
        = SubSeq(runs, 1, n) \o <<run>> \o SubSeq(runs, n + 1, Len(runs))
  BY DEF Reinsert
<1>. HIDE DEF n
<1>. QED BY <1>3, <1>4

LEMMA ReinsertType ==
  ASSUME NEW runs \in Seq(OrphanRun), NEW run \in OrphanRun
  PROVE  Reinsert(runs, run) \in Seq(OrphanRun)
<1>1. Len(runs) \in Nat /\ \A i \in 1 .. Len(runs) : runs[i] \in OrphanRun
  BY LenProperties, ElementOfSeq
<1>4. PICK n \in 0 .. Len(runs) :
        Reinsert(runs, run)
          = SubSeq(runs, 1, n) \o <<run>> \o SubSeq(runs, n + 1, Len(runs))
  BY ReinsertPlace
<1>3. n \in 0 .. Len(runs)
  OBVIOUS
<1>5. SubSeq(runs, 1, n) \in Seq(OrphanRun)
      /\ SubSeq(runs, n + 1, Len(runs)) \in Seq(OrphanRun)
  <2>1. 1 \in Int /\ n \in Int /\ n + 1 \in Int /\ Len(runs) \in Int
    BY <1>1, <1>3
  <2>2. \A i \in 1 .. n : runs[i] \in OrphanRun
    BY <1>1, <1>3
  <2>3. \A i \in n + 1 .. Len(runs) : runs[i] \in OrphanRun
    BY <1>1, <1>3
  <2>. QED BY <2>1, <2>2, <2>3, SubSeqProperties
<1>6. <<run>> \in Seq(OrphanRun)
  OBVIOUS
<1>. QED BY <1>4, <1>5, <1>6, ConcatProperties

-----------------------------------------------------------------------------
(* How a handler's record changes.                                         *)

LEMMA BeginTypes ==
  ASSUME CallsOK, NEW a \in Actors, NEW c \in Call, CallOK(c),
         call' = [call EXCEPT ![a] = c]
  PROVE  CallsOK'
BY DEF CallsOK, CallOK

LEMMA NoCallIsCall == NoCall \in Call /\ CallOK(NoCall)
  BY DEF NoCall, Call, CallOK, CarSteps, EntrySteps, NoRun, OrphanRun, NoCar,
         NoRow, Steps, WriteSteps

LEMMA ReturnTypes ==
  ASSUME CallsOK, NEW a \in Actors, Return(a)
  PROVE  CallsOK'
BY NoCallIsCall, BeginTypes DEF Return

LEMMA GotoTypes ==
  ASSUME CallsOK, NEW a \in Actors, NEW pc \in Steps, Goto(a, pc),
         CallOK([call[a] EXCEPT !.pc = pc])
  PROVE  CallsOK'
<1>1. [call[a] EXCEPT !.pc = pc] \in Call
  BY DEF CallsOK, Call
<1>2. call' = [call EXCEPT ![a] = [call[a] EXCEPT !.pc = pc]]
  BY DEF Goto
<1>. QED BY <1>1, <1>2, BeginTypes

(* A step to a point where CallOK asks for nothing.                        *)
LEMMA GotoAnywhere ==
  ASSUME CallsOK, NEW a \in Actors, NEW pc \in Steps, Goto(a, pc),
         pc \notin CarSteps \cup EntrySteps \cup {"log_orphan"}
  PROVE  CallsOK'
<1>1. [call[a] EXCEPT !.pc = pc].pc = pc
  BY DEF CallsOK, Call
<1>2. CallOK([call[a] EXCEPT !.pc = pc])
  BY <1>1 DEF CallOK, CarSteps
<1>. QED BY <1>2, GotoTypes

LEMMA ReadTypes ==
  ASSUME TypeInv, OnlyCall, CallsOK'
  PROVE  TypeInv'
BY DEF TypeInv, OnlyCall, StoreOK, MemoryOK, SpentOK, store, memory

LEMMA QueueWriteTypes ==
  ASSUME TypeInv, OnlyQueue, queue' \in Seq(QueueRow), CallsOK'
  PROVE  TypeInv'
BY DEF TypeInv, OnlyQueue, StoreOK, MemoryOK, SpentOK, memory

LEMMA ArriveTypes ==
  ASSUME TypeInv, NEW a, NEW kind, NEW c \in Call, CallOK(c), Arrive(a, kind, c)
  PROVE  TypeInv'
<1>1. a \in Actors /\ CallsOK
  BY DEF Arrive, Admit, Actors, TypeInv
<1>2. CallsOK'
  BY <1>1, BeginTypes DEF Arrive
<1>3. SpentOK'
  BY DEF TypeInv, SpentOK, Arrive, Admit
<1>. QED BY <1>2, <1>3 DEF TypeInv, Arrive, StoreOK, MemoryOK, store, memory

LEMMA TriggerTypes ==
  ASSUME TypeInv, NEW c \in Call, CallOK(c), TriggerArrives(c)
  PROVE  TypeInv'
<1>1. Dispatcher \in Actors /\ CallsOK
  BY DEF Actors, TypeInv
<1>2. CallsOK'
  BY <1>1, BeginTypes DEF TriggerArrives
<1>3. SpentOK'
  BY DEF TypeInv, SpentOK, TriggerArrives
<1>. QED BY <1>2, <1>3 DEF TypeInv, TriggerArrives, StoreOK, MemoryOK, store, memory

-----------------------------------------------------------------------------
(* Arrivals: a request starts with the record its first read leaves it.    *)

LEMMA RequestTypes ==
  ASSUME TypeInv, NEW a,
         \/ BeginLaunch(a) \/ BeginMyLaunch(a) \/ BeginStartOldest(a)
         \/ BeginFinishOldest(a) \/ BeginFinishByID(a) \/ BeginCancel(a)
         \/ BeginUndoStart(a) \/ BeginMyLaunchUndo(a) \/ BeginPT(a)
         \/ BeginMC(a) \/ BeginQueueAdd(a) \/ BeginMyQueueAdd(a)
         \/ BeginQueueCancel(a) \/ BeginMyQueueCancel(a) \/ BeginReorder(a)
         \/ BeginAdopt(a) \/ BeginClose(a) \/ BeginSettings(a)
  PROVE  TypeInv'
<1>1. CASE BeginLaunch(a)
  <2>. DEFINE Begun(e, t) ==
            [NoCall EXCEPT !.pc = "list_head", !.ev = e,
                !.t = IF event[e].mode = "sensor" THEN NoTime ELSE t]
  <2>1. PICK e \in Events, t \in Times : Arrive(a, "launch", Begun(e, t))
    BY <1>1 DEF BeginLaunch
  <2>2. e \in Nat
    BY QueueConstants
  <2>3. "list_head" \in Steps
    BY DEF Steps, WriteSteps
  <2>4. Begun(e, t) \in Call
    BY <2>2, <2>3, NoCallIsCall DEF Call
  <2>5. CallOK(Begun(e, t))
    BY <2>2, NoCallIsCall DEF Call, CallOK, CarSteps, EntrySteps
  <2>. HIDE DEF Begun
  <2>. QED BY <2>1, <2>4, <2>5, ArriveTypes
<1>2. CASE BeginMyLaunch(a)
  <2>. DEFINE Begun(e, entry) ==
            [NoCall EXCEPT !.pc = "my_course", !.ev = e, !.entry = entry]
  <2>1. PICK e \in Events, entry \in Entries : Arrive(a, "my_launch", Begun(e, entry))
    BY <1>2 DEF BeginMyLaunch
  <2>2. e \in Nat
    BY QueueConstants
  <2>3. "my_course" \in Steps
    BY DEF Steps, WriteSteps
  <2>4. Begun(e, entry) \in Call
    BY <2>2, <2>3, NoCallIsCall DEF Call
  <2>5. CallOK(Begun(e, entry))
    BY <2>2, NoCallIsCall DEF Call, CallOK, CarSteps, EntrySteps
  <2>. HIDE DEF Begun
  <2>. QED BY <2>1, <2>4, <2>5, ArriveTypes
<1>3. CASE BeginStartOldest(a)
  <2>. DEFINE Begun(e, t) ==
            [NoCall EXCEPT !.pc = "list_ready", !.ev = e, !.t = t]
  <2>1. PICK e \in Events, t \in Times : Arrive(a, "start", Begun(e, t))
    BY <1>3 DEF BeginStartOldest
  <2>2. e \in Nat
    BY QueueConstants
  <2>3. "list_ready" \in Steps
    BY DEF Steps, WriteSteps
  <2>4. Begun(e, t) \in Call
    BY <2>2, <2>3, NoCallIsCall DEF Call
  <2>5. CallOK(Begun(e, t))
    BY <2>2, NoCallIsCall DEF Call, CallOK, CarSteps, EntrySteps
  <2>. HIDE DEF Begun
  <2>. QED BY <2>1, <2>4, <2>5, ArriveTypes
<1>4. CASE BeginFinishOldest(a)
  <2>. DEFINE Begun(e, t) ==
            [NoCall EXCEPT !.pc = "list_course", !.ev = e, !.t = t]
  <2>1. PICK e \in Events, t \in Times : Arrive(a, "finish", Begun(e, t))
    BY <1>4 DEF BeginFinishOldest
  <2>2. e \in Nat
    BY QueueConstants
  <2>3. "list_course" \in Steps
    BY DEF Steps, WriteSteps
  <2>4. Begun(e, t) \in Call
    BY <2>2, <2>3, NoCallIsCall DEF Call
  <2>5. CallOK(Begun(e, t))
    BY <2>2, NoCallIsCall DEF Call, CallOK, CarSteps, EntrySteps
  <2>. HIDE DEF Begun
  <2>. QED BY <2>1, <2>4, <2>5, ArriveTypes
<1>5. CASE BeginFinishByID(a)
  <2>. DEFINE Begun(r, t) ==
            [NoCall EXCEPT !.pc = "finish", !.car = queue[r], !.t = t]
  <2>1. PICK r \in DOMAIN queue, t \in Times : Arrive(a, "finish_by_id", Begun(r, t))
    BY <1>5 DEF BeginFinishByID
  <2>2. queue[r] \in QueueRow
    BY LenProperties DEF TypeInv, StoreOK
  <2>3. "finish" \in Steps
    BY DEF Steps, WriteSteps
  <2>4. Begun(r, t) \in Call
    BY <2>2, <2>3, NoCallIsCall DEF Call
  <2>5. CallOK(Begun(r, t))
    BY <2>2, NoCallIsCall DEF Call, CallOK, CarSteps, EntrySteps
  <2>. HIDE DEF Begun
  <2>. QED BY <2>1, <2>4, <2>5, ArriveTypes
<1>6. CASE BeginCancel(a)
  <2>. DEFINE Begun(r) ==
            [NoCall EXCEPT !.pc = "check_cancel", !.car = queue[r]]
  <2>1. PICK r \in DOMAIN queue : Arrive(a, "cancel", Begun(r))
    BY <1>6 DEF BeginCancel
  <2>2. queue[r] \in QueueRow
    BY LenProperties DEF TypeInv, StoreOK
  <2>3. "check_cancel" \in Steps
    BY DEF Steps, WriteSteps
  <2>4. Begun(r) \in Call
    BY <2>2, <2>3, NoCallIsCall DEF Call
  <2>5. CallOK(Begun(r))
    BY <2>2, NoCallIsCall DEF Call, CallOK, CarSteps, EntrySteps
  <2>. HIDE DEF Begun
  <2>. QED BY <2>1, <2>4, <2>5, ArriveTypes
<1>7. CASE BeginUndoStart(a)
  <2>. DEFINE Begun(r) ==
            [NoCall EXCEPT !.pc = "check_undo", !.car = queue[r]]
  <2>1. PICK r \in DOMAIN queue : Arrive(a, "undo_start", Begun(r))
    BY <1>7 DEF BeginUndoStart
  <2>2. queue[r] \in QueueRow
    BY LenProperties DEF TypeInv, StoreOK
  <2>3. "check_undo" \in Steps
    BY DEF Steps, WriteSteps
  <2>4. Begun(r) \in Call
    BY <2>2, <2>3, NoCallIsCall DEF Call
  <2>5. CallOK(Begun(r))
    BY <2>2, NoCallIsCall DEF Call, CallOK, CarSteps, EntrySteps
  <2>. HIDE DEF Begun
  <2>. QED BY <2>1, <2>4, <2>5, ArriveTypes
<1>8. CASE BeginMyLaunchUndo(a)
  <2>. DEFINE Begun(e, entry) ==
            [NoCall EXCEPT !.pc = "list_mine", !.ev = e, !.entry = entry]
  <2>1. PICK e \in Events, entry \in Entries : Arrive(a, "my_launch_undo", Begun(e, entry))
    BY <1>8 DEF BeginMyLaunchUndo
  <2>2. e \in Nat
    BY QueueConstants
  <2>3. "list_mine" \in Steps
    BY DEF Steps, WriteSteps
  <2>4. Begun(e, entry) \in Call
    BY <2>2, <2>3, NoCallIsCall DEF Call
  <2>5. CallOK(Begun(e, entry))
    BY <2>2, NoCallIsCall DEF Call, CallOK, CarSteps, EntrySteps
  <2>. HIDE DEF Begun
  <2>. QED BY <2>1, <2>4, <2>5, ArriveTypes
<1>9. CASE BeginPT(a)
  <2>. DEFINE Begun(r, delta) ==
            [NoCall EXCEPT !.pc = "pt", !.car = queue[r], !.n = delta]
  <2>1. PICK r \in DOMAIN queue, delta \in {-1, 1} : Arrive(a, "pt", Begun(r, delta))
    BY <1>9 DEF BeginPT
  <2>2. queue[r] \in QueueRow /\ delta \in Int
    BY LenProperties DEF TypeInv, StoreOK
  <2>3. "pt" \in Steps
    BY DEF Steps, WriteSteps
  <2>4. Begun(r, delta) \in Call
    BY <2>2, <2>3, NoCallIsCall DEF Call
  <2>5. CallOK(Begun(r, delta))
    BY <2>2, NoCallIsCall DEF Call, CallOK, CarSteps, EntrySteps
  <2>. HIDE DEF Begun
  <2>. QED BY <2>1, <2>4, <2>5, ArriveTypes
<1>10. CASE BeginMC(a)
  <2>. DEFINE Begun(r) ==
            [NoCall EXCEPT !.pc = "mc", !.car = queue[r]]
  <2>1. PICK r \in DOMAIN queue : Arrive(a, "mc", Begun(r))
    BY <1>10 DEF BeginMC
  <2>2. queue[r] \in QueueRow
    BY LenProperties DEF TypeInv, StoreOK
  <2>3. "mc" \in Steps
    BY DEF Steps, WriteSteps
  <2>4. Begun(r) \in Call
    BY <2>2, <2>3, NoCallIsCall DEF Call
  <2>5. CallOK(Begun(r))
    BY <2>2, NoCallIsCall DEF Call, CallOK, CarSteps, EntrySteps
  <2>. HIDE DEF Begun
  <2>. QED BY <2>1, <2>4, <2>5, ArriveTypes
<1>11. CASE BeginQueueAdd(a)
  <2>. DEFINE Begun(e, entry) ==
            [NoCall EXCEPT !.pc = "enqueue", !.ev = e, !.entry = entry]
  <2>1. PICK e \in Events, entry \in Entries : Arrive(a, "queue_add", Begun(e, entry))
    BY <1>11 DEF BeginQueueAdd
  <2>2. e \in Nat
    BY QueueConstants
  <2>3. "enqueue" \in Steps
    BY DEF Steps, WriteSteps
  <2>4. Begun(e, entry) \in Call
    BY <2>2, <2>3, NoCallIsCall DEF Call
  <2>5. CallOK(Begun(e, entry))
    BY <2>2, NoCallIsCall DEF Call, CallOK, CarSteps, EntrySteps
  <2>. HIDE DEF Begun
  <2>. QED BY <2>1, <2>4, <2>5, ArriveTypes
<1>12. CASE BeginMyQueueAdd(a)
  <2>. DEFINE Begun(e, entry) ==
            [NoCall EXCEPT !.pc = "my_waiting", !.ev = e, !.entry = entry]
  <2>1. PICK e \in Events, entry \in Entries : Arrive(a, "my_queue_add", Begun(e, entry))
    BY <1>12 DEF BeginMyQueueAdd
  <2>2. e \in Nat
    BY QueueConstants
  <2>3. "my_waiting" \in Steps
    BY DEF Steps, WriteSteps
  <2>4. Begun(e, entry) \in Call
    BY <2>2, <2>3, NoCallIsCall DEF Call
  <2>5. CallOK(Begun(e, entry))
    BY <2>2, NoCallIsCall DEF Call, CallOK, CarSteps, EntrySteps
  <2>. HIDE DEF Begun
  <2>. QED BY <2>1, <2>4, <2>5, ArriveTypes
<1>13. CASE BeginQueueCancel(a)
  <2>. DEFINE Begun(r) ==
            [NoCall EXCEPT !.pc = "cancel", !.car = queue[r]]
  <2>1. PICK r \in DOMAIN queue : Arrive(a, "queue_cancel", Begun(r))
    BY <1>13 DEF BeginQueueCancel
  <2>2. queue[r] \in QueueRow
    BY LenProperties DEF TypeInv, StoreOK
  <2>3. "cancel" \in Steps
    BY DEF Steps, WriteSteps
  <2>4. Begun(r) \in Call
    BY <2>2, <2>3, NoCallIsCall DEF Call
  <2>5. CallOK(Begun(r))
    BY <2>2, NoCallIsCall DEF Call, CallOK, CarSteps, EntrySteps
  <2>. HIDE DEF Begun
  <2>. QED BY <2>1, <2>4, <2>5, ArriveTypes
<1>14. CASE BeginMyQueueCancel(a)
  <2>. DEFINE Begun(e, entry) ==
            [NoCall EXCEPT !.pc = "my_cancel", !.ev = e, !.entry = entry]
  <2>1. PICK e \in Events, entry \in Entries : Arrive(a, "my_queue_cancel", Begun(e, entry))
    BY <1>14 DEF BeginMyQueueCancel
  <2>2. e \in Nat
    BY QueueConstants
  <2>3. "my_cancel" \in Steps
    BY DEF Steps, WriteSteps
  <2>4. Begun(e, entry) \in Call
    BY <2>2, <2>3, NoCallIsCall DEF Call
  <2>5. CallOK(Begun(e, entry))
    BY <2>2, NoCallIsCall DEF Call, CallOK, CarSteps, EntrySteps
  <2>. HIDE DEF Begun
  <2>. QED BY <2>1, <2>4, <2>5, ArriveTypes
<1>15. CASE BeginReorder(a)
  <2>. DEFINE Begun(r, pos) ==
            [NoCall EXCEPT !.pc = "reorder", !.car = queue[r], !.n = pos]
  <2>1. PICK r \in DOMAIN queue, pos \in ReorderTo : Arrive(a, "reorder", Begun(r, pos))
    BY <1>15 DEF BeginReorder
  <2>2. queue[r] \in QueueRow
    BY LenProperties DEF TypeInv, StoreOK
  <2>3. "reorder" \in Steps
    BY DEF Steps, WriteSteps
  <2>4. Begun(r, pos) \in Call
    BY <2>2, <2>3, NoCallIsCall, CourseConstants DEF Call
  <2>5. CallOK(Begun(r, pos))
    BY <2>2, NoCallIsCall DEF Call, CallOK, CarSteps, EntrySteps
  <2>. HIDE DEF Begun
  <2>. QED BY <2>1, <2>4, <2>5, ArriveTypes
<1>16. CASE BeginAdopt(a)
  <2>. DEFINE Begun(e, id) ==
            [NoCall EXCEPT !.pc = "list_head", !.ev = e, !.run = [NoRun EXCEPT !.id = id]]
  <2>1. PICK e \in Events, id \in 1 .. orphanSeq : Arrive(a, "adopt", Begun(e, id))
    BY <1>16 DEF BeginAdopt
  <2>2. e \in Nat /\ [NoRun EXCEPT !.id = id] \in OrphanRun
    BY QueueConstants DEF NoRun, OrphanRun, TypeInv, MemoryOK
  <2>3. "list_head" \in Steps
    BY DEF Steps, WriteSteps
  <2>4. Begun(e, id) \in Call
    BY <2>2, <2>3, NoCallIsCall DEF Call
  <2>5. CallOK(Begun(e, id))
    BY <2>2, NoCallIsCall DEF Call, CallOK, CarSteps, EntrySteps
  <2>. HIDE DEF Begun
  <2>. QED BY <2>1, <2>4, <2>5, ArriveTypes
<1>17. CASE BeginClose(a)
  <2>. DEFINE Begun(e) ==
            [NoCall EXCEPT !.pc = "close_waiting", !.ev = e]
  <2>1. PICK e \in Events : Arrive(a, "close", Begun(e))
    BY <1>17 DEF BeginClose
  <2>2. e \in Nat
    BY QueueConstants
  <2>3. "close_waiting" \in Steps
    BY DEF Steps, WriteSteps
  <2>4. Begun(e) \in Call
    BY <2>2, <2>3, NoCallIsCall DEF Call
  <2>5. CallOK(Begun(e))
    BY <2>2, NoCallIsCall DEF Call, CallOK, CarSteps, EntrySteps
  <2>. HIDE DEF Begun
  <2>. QED BY <2>1, <2>4, <2>5, ArriveTypes
<1>18. CASE BeginSettings(a)
  <2>. DEFINE Begun(e) ==
            [NoCall EXCEPT !.pc = "put_settings", !.ev = e]
  <2>1. PICK e \in Events : Arrive(a, "settings", Begun(e))
    BY <1>18 DEF BeginSettings
  <2>2. e \in Nat
    BY QueueConstants
  <2>3. "put_settings" \in Steps
    BY DEF Steps, WriteSteps
  <2>4. Begun(e) \in Call
    BY <2>2, <2>3, NoCallIsCall DEF Call
  <2>5. CallOK(Begun(e))
    BY <2>2, NoCallIsCall DEF Call, CallOK, CarSteps, EntrySteps
  <2>. HIDE DEF Begun
  <2>. QED BY <2>1, <2>4, <2>5, ArriveTypes
<1>. QED BY <1>1, <1>2, <1>3, <1>4, <1>5, <1>6, <1>7, <1>8, <1>9, <1>10, <1>11, <1>12, <1>13, <1>14, <1>15, <1>16, <1>17, <1>18

LEMMA RowsInOrder ==
  ASSUME TypeInv, NEW e, NEW status
  PROVE  Listed(e, status) \in SUBSET QueueRow
BY ListedRows DEF Listed, TypeInv, StoreOK

-----------------------------------------------------------------------------
(* The steps that only read.                                               *)

LEMMA ListTypes ==
  ASSUME TypeInv, NEW a \in Actors,
         \/ ListHead(a) \/ MyTurn(a) \/ ListReady(a) \/ ListCourse(a)
         \/ ScanNext(a) \/ ListMine(a) \/ FindFront(a) \/ MyQueueCancel(a)
  PROVE  TypeInv'
<1>. DEFINE With(car, pc) == [call[a] EXCEPT !.car = car, !.pc = pc]
            Todo(rows, pc) == [call[a] EXCEPT !.todo = rows, !.pc = pc]
<1>0. /\ CallsOK /\ call[a] \in Call /\ CallOK(call[a])
      /\ \A e, status : Listed(e, status) \in SUBSET QueueRow
  BY RowsInOrder DEF TypeInv, CallsOK
<1>s. {"claim", "adopt_take", "try_start", "scan", "finish", "check_undo",
       "reorder", "cancel"} \in SUBSET Steps
  BY DEF Steps, WriteSteps
<1>a. ASSUME NEW car \in QueueRow, NEW pc \in Steps,
             pc \notin EntrySteps \cup {"insert_log", "log_orphan"},
             call' = [call EXCEPT ![a] = With(car, pc)]
      PROVE  CallsOK'
  <2>1. With(car, pc) \in Call
    BY <1>0 DEF Call
  <2>2. CallOK(With(car, pc))
    BY <1>0, <1>a DEF CallOK, Call
  <2>. HIDE DEF With
  <2>. QED BY <1>0, <1>a, <2>1, <2>2, BeginTypes
<1>b. ASSUME NEW rows \in SUBSET QueueRow, NEW pc \in Steps,
             pc \notin CarSteps \cup EntrySteps \cup {"log_orphan"},
             call' = [call EXCEPT ![a] = Todo(rows, pc)]
      PROVE  CallsOK'
  <2>1. Todo(rows, pc) \in Call
    BY <1>0 DEF Call
  <2>2. CallOK(Todo(rows, pc))
    BY <1>0, <1>b DEF CallOK, Call, CarSteps
  <2>. HIDE DEF Todo
  <2>. QED BY <1>0, <1>b, <2>1, <2>2, BeginTypes
<1>1. CASE ListHead(a)
  <2>1. CASE Return(a)
    BY <1>0, <1>1, <2>1, ReturnTypes, ReadTypes DEF ListHead
  <2>2. CASE ~Return(a)
    <3>1. PICK row \in Listed(call[a].ev, "waiting") :
            call' = [call EXCEPT
              ![a].car = row,
              ![a].pc = IF call[a].run = NoRun THEN "claim" ELSE "adopt_take"]
      BY <1>1, <2>2 DEF ListHead
    <3>2. PICK pc \in {"claim", "adopt_take"} :
            call' = [call EXCEPT ![a] = With(row, pc)]
      BY <1>0, <3>1 DEF CallsOK, Call
    <3>3. row \in QueueRow /\ pc \in Steps
          /\ pc \notin EntrySteps \cup {"insert_log", "log_orphan"}
      BY <1>0, <1>s DEF EntrySteps
    <3>. HIDE DEF With
    <3>4. CallsOK'
      BY <1>a, <3>2, <3>3
    <3>. QED BY <1>1, <3>4, ReadTypes DEF ListHead
  <2>. QED BY <2>1, <2>2
<1>2. CASE MyTurn(a)
  <2>1. CASE Return(a)
    BY <1>0, <1>2, <2>1, ReturnTypes, ReadTypes DEF MyTurn
  <2>2. CASE ~Return(a)
    <3>1. PICK row \in Listed(call[a].ev, "waiting") :
            call' = [call EXCEPT ![a].car = row, ![a].pc = "claim"]
      BY <1>2, <2>2 DEF MyTurn
    <3>2. call' = [call EXCEPT ![a] = With(row, "claim")]
      BY <1>0, <3>1 DEF CallsOK, Call
    <3>3. row \in QueueRow /\ "claim" \in Steps
          /\ "claim" \notin EntrySteps \cup {"insert_log", "log_orphan"}
      BY <1>0, <1>s DEF EntrySteps
    <3>. HIDE DEF With
    <3>4. CallsOK'
      BY <1>a, <3>2, <3>3
    <3>. QED BY <1>2, <3>4, ReadTypes DEF MyTurn
  <2>. QED BY <2>1, <2>2
<1>3. CASE ListReady(a)
  <2>1. PICK rows \in SUBSET Listed(call[a].ev, "on_course") :
          call' = [call EXCEPT ![a].pc = "try_start", ![a].todo = rows]
    BY <1>3 DEF ListReady
  <2>2. call' = [call EXCEPT ![a] = Todo(rows, "try_start")]
    BY <1>0, <2>1 DEF CallsOK, Call
  <2>3. rows \in SUBSET QueueRow /\ "try_start" \in Steps
        /\ "try_start" \notin CarSteps \cup EntrySteps \cup {"log_orphan"}
    BY <1>0, <1>s DEF EntrySteps, CarSteps
  <2>. HIDE DEF Todo
  <2>4. CallsOK'
    BY <1>b, <2>2, <2>3
  <2>. QED BY <1>3, <2>4, ReadTypes DEF ListReady
<1>4. CASE ListCourse(a)
  <2>. DEFINE rows == Listed(call[a].ev, "on_course")
  <2>1. call' = [call EXCEPT ![a].pc = "scan", ![a].todo = rows]
    BY <1>4 DEF ListCourse
  <2>2. call' = [call EXCEPT ![a] = Todo(rows, "scan")]
    BY <1>0, <2>1 DEF CallsOK, Call
  <2>3. rows \in SUBSET QueueRow /\ "scan" \in Steps
        /\ "scan" \notin CarSteps \cup EntrySteps \cup {"log_orphan"}
    BY <1>0, <1>s DEF EntrySteps, CarSteps
  <2>. HIDE DEF Todo, rows
  <2>4. CallsOK'
    BY <1>b, <2>2, <2>3
  <2>. QED BY <1>4, <2>4, ReadTypes DEF ListCourse
<1>5. CASE ScanNext(a)
  <2>0. call[a].todo \in SUBSET QueueRow /\ call[a].pc = "scan"
    BY <1>0, <1>5 DEF Call, ScanNext, At
  <2>1. PICK row \in call[a].todo :
          IF row.tStart = NoTime \/ IsPending(row.id)
          THEN call' = [call EXCEPT ![a].todo = @ \ {row}]
          ELSE call' = [call EXCEPT ![a].todo = {}, ![a].car = row,
                                    ![a].pc = "finish"]
    BY <1>5 DEF ScanNext
  <2>2. CASE call' = [call EXCEPT ![a].todo = @ \ {row}]
    <3>. DEFINE rows == call[a].todo \ {row}
    <3>1. call' = [call EXCEPT ![a] = Todo(rows, "scan")]
      BY <1>0, <2>0, <2>2 DEF CallsOK, Call
    <3>2. rows \in SUBSET QueueRow /\ "scan" \in Steps
          /\ "scan" \notin CarSteps \cup EntrySteps \cup {"log_orphan"}
      BY <1>s, <2>0 DEF EntrySteps, CarSteps
    <3>. HIDE DEF Todo, rows
    <3>3. CallsOK'
      BY <1>b, <3>1, <3>2
    <3>. QED BY <1>5, <3>3, ReadTypes DEF ScanNext
  <2>3. CASE call' = [call EXCEPT ![a].todo = {}, ![a].car = row,
                                  ![a].pc = "finish"]
    <3>. DEFINE c == [call[a] EXCEPT !.todo = {}, !.car = row, !.pc = "finish"]
    <3>1. call' = [call EXCEPT ![a] = c]
      BY <1>0, <2>3 DEF CallsOK, Call
    <3>2. row \in QueueRow /\ "finish" \in Steps
      BY <1>s, <2>0
    <3>3. c \in Call
      BY <1>0, <3>2 DEF Call
    <3>4. CallOK(c)
      BY <1>0, <3>2 DEF Call, CallOK, EntrySteps
    <3>. HIDE DEF c
    <3>5. CallsOK'
      BY <1>0, <3>1, <3>3, <3>4, BeginTypes
    <3>. QED BY <1>5, <3>5, ReadTypes DEF ScanNext
  <2>. QED BY <2>1, <2>2, <2>3
<1>6. CASE ListMine(a)
  <2>1. CASE Return(a)
    BY <1>0, <1>6, <2>1, ReturnTypes, ReadTypes DEF ListMine
  <2>2. CASE ~Return(a)
    <3>1. PICK row \in Listed(call[a].ev, "on_course") :
            call' = [call EXCEPT ![a].car = row, ![a].pc = "check_undo"]
      BY <1>6, <2>2 DEF ListMine
    <3>2. call' = [call EXCEPT ![a] = With(row, "check_undo")]
      BY <1>0, <3>1 DEF CallsOK, Call
    <3>3. row \in QueueRow /\ "check_undo" \in Steps
          /\ "check_undo" \notin EntrySteps \cup {"insert_log", "log_orphan"}
      BY <1>0, <1>s DEF EntrySteps
    <3>. HIDE DEF With
    <3>4. CallsOK'
      BY <1>a, <3>2, <3>3
    <3>. QED BY <1>6, <3>4, ReadTypes DEF ListMine
  <2>. QED BY <2>1, <2>2
<1>7. CASE FindFront(a)
  <2>. DEFINE n == FrontPosition(Listed(call[a].car.ev, "waiting"))
              c == [call[a] EXCEPT !.pc = "reorder", !.n = n]
  <2>1. call' = [call EXCEPT ![a] = c]
    BY <1>0, <1>7 DEF FindFront, CallsOK, Call
  <2>2. n \in Int
    BY ListedRows, FrontIsAhead DEF Listed, TypeInv, StoreOK
  <2>. HIDE DEF n
  <2>3. c \in Call
    BY <1>0, <1>s, <2>2 DEF Call
  <2>4. CallOK(c)
    BY <1>0, <2>2 DEF Call, CallOK, CarSteps, EntrySteps
  <2>. HIDE DEF c
  <2>5. CallsOK'
    BY <1>0, <2>1, <2>3, <2>4, BeginTypes
  <2>. QED BY <1>7, <2>5, ReadTypes DEF FindFront
<1>8. CASE MyQueueCancel(a)
  <2>1. CASE Return(a)
    BY <1>0, <1>8, <2>1, ReturnTypes, ReadTypes DEF MyQueueCancel
  <2>2. CASE ~Return(a)
    <3>1. PICK row \in Listed(call[a].ev, "waiting") :
            call' = [call EXCEPT ![a].car = row, ![a].pc = "cancel"]
      BY <1>8, <2>2 DEF MyQueueCancel
    <3>2. call' = [call EXCEPT ![a] = With(row, "cancel")]
      BY <1>0, <3>1 DEF CallsOK, Call
    <3>3. row \in QueueRow /\ "cancel" \in Steps
          /\ "cancel" \notin EntrySteps \cup {"insert_log", "log_orphan"}
      BY <1>0, <1>s DEF EntrySteps
    <3>. HIDE DEF With
    <3>4. CallsOK'
      BY <1>a, <3>2, <3>3
    <3>. QED BY <1>8, <3>4, ReadTypes DEF MyQueueCancel
  <2>. QED BY <2>1, <2>2
<1>. QED BY <1>1, <1>2, <1>3, <1>4, <1>5, <1>6, <1>7, <1>8

LEMMA CheckTypes ==
  ASSUME TypeInv, NEW a \in Actors,
         \/ MyNotOnCourse(a) \/ NoReadyCar(a) \/ NoRunningCar(a)
         \/ CheckFinish(a) \/ CheckCancel(a) \/ CheckUndoStart(a)
         \/ UndoMode(a) \/ MyNotWaiting(a) \/ MyNotRunning(a)
         \/ StoreError(a) \/ OrphanStoreError(a)
  PROVE  TypeInv'
<1>0. CallsOK /\ call[a] \in Call /\ CallOK(call[a])
  BY DEF TypeInv, CallsOK
<1>1. ASSUME OnlyCall, NEW pc \in Steps, Goto(a, pc),
             pc \notin CarSteps \cup EntrySteps \cup {"log_orphan"}
      PROVE  TypeInv'
  BY <1>0, <1>1, GotoAnywhere, ReadTypes
<1>2. ASSUME OnlyCall, Return(a)
      PROVE  TypeInv'
  BY <1>0, <1>2, ReturnTypes, ReadTypes
<1>3. ASSUME OnlyCall, NEW pc \in Steps, Goto(a, pc),
             CallOK([call[a] EXCEPT !.pc = pc])
      PROVE  TypeInv'
  BY <1>0, <1>3, GotoTypes, ReadTypes
<1>s. /\ {"my_head", "push_orphan", "pop_orphan", "insert_log", "cancel",
          "clear_start", "requeue", "my_away", "enqueue", "restore",
          "adopt_rollback"} \in SUBSET Steps
      /\ {"my_head", "push_orphan", "pop_orphan", "cancel", "requeue",
          "restore", "adopt_rollback"}
           \cap (CarSteps \cup EntrySteps \cup {"log_orphan"}) = {}
  BY DEF Steps, WriteSteps, CarSteps, EntrySteps
<1>4. CASE MyNotOnCourse(a)
  BY <1>1, <1>2, <1>4, <1>s DEF MyNotOnCourse
<1>5. CASE NoReadyCar(a)
  BY <1>1, <1>2, <1>5, <1>s DEF NoReadyCar
<1>6. CASE NoRunningCar(a)
  BY <1>1, <1>2, <1>6, <1>s DEF NoRunningCar
<1>7. CASE CheckFinish(a)
  <2>1. CASE Return(a)
    BY <1>2, <1>7, <2>1 DEF CheckFinish
  <2>2. CASE ~Return(a)
    <3>1. Goto(a, "insert_log") /\ call[a].t >= call[a].car.tStart
          /\ call[a].pc = "finish" /\ OnlyCall
      BY <1>7, <2>2 DEF CheckFinish, At
    <3>2. CallOK([call[a] EXCEPT !.pc = "insert_log"])
      BY <1>0, <3>1 DEF CallOK, Call, CarSteps, EntrySteps
    <3>. QED BY <1>3, <1>s, <3>1, <3>2
  <2>. QED BY <2>1, <2>2
<1>8. CASE CheckCancel(a)
  BY <1>1, <1>2, <1>8, <1>s DEF CheckCancel
<1>9. CASE CheckUndoStart(a)
  <2>1. CASE Return(a)
    BY <1>2, <1>9, <2>1 DEF CheckUndoStart
  <2>2. CASE ~Return(a)
    <3>1. Goto(a, "clear_start") /\ call[a].pc = "check_undo" /\ OnlyCall
      BY <1>9, <2>2 DEF CheckUndoStart, At
    <3>2. CallOK([call[a] EXCEPT !.pc = "clear_start"])
      BY <1>0, <3>1 DEF CallOK, Call, CarSteps, EntrySteps
    <3>. QED BY <1>3, <1>s, <3>1, <3>2
  <2>. QED BY <2>1, <2>2
<1>10. CASE UndoMode(a)
  BY <1>1, <1>2, <1>10, <1>s DEF UndoMode
<1>11. CASE MyNotWaiting(a)
  <2>1. CASE Return(a)
    BY <1>2, <1>11, <2>1 DEF MyNotWaiting
  <2>2. CASE ~Return(a)
    <3>1. Goto(a, "my_away") /\ call[a].pc = "my_waiting" /\ OnlyCall
      BY <1>11, <2>2 DEF MyNotWaiting, At
    <3>2. CallOK([call[a] EXCEPT !.pc = "my_away"])
      BY <1>0, <3>1 DEF CallOK, Call, CarSteps, EntrySteps
    <3>. QED BY <1>3, <1>s, <3>1, <3>2
  <2>. QED BY <2>1, <2>2
<1>12. CASE MyNotRunning(a)
  <2>1. CASE Return(a)
    BY <1>2, <1>12, <2>1 DEF MyNotRunning
  <2>2. CASE ~Return(a)
    <3>1. Goto(a, "enqueue") /\ call[a].pc = "my_away" /\ OnlyCall
      BY <1>12, <2>2 DEF MyNotRunning, At
    <3>2. CallOK([call[a] EXCEPT !.pc = "enqueue"])
      BY <1>0, <3>1 DEF CallOK, Call, CarSteps, EntrySteps
    <3>. QED BY <1>3, <1>s, <3>1, <3>2
  <2>. QED BY <2>1, <2>2
<1>13. CASE StoreError(a)
  BY <1>2, <1>13 DEF StoreError
<1>14. CASE OrphanStoreError(a)
  BY <1>1, <1>14, <1>s DEF OrphanStoreError
<1>. QED
  BY <1>4, <1>5, <1>6, <1>7, <1>8, <1>9, <1>10, <1>11, <1>12, <1>13, <1>14

-----------------------------------------------------------------------------
(* The steps that write the queue table.                                   *)

LEMMA QueueStepTypes ==
  ASSUME TypeInv, NEW a \in Actors,
         \/ Claim(a) \/ LaunchStamp(a) \/ TryStart(a) \/ AdoptClaim(a)
         \/ AdoptStamp(a) \/ AdoptRollback(a) \/ Cancel(a) \/ ClearStart(a)
         \/ UndoPT(a) \/ UndoMC(a) \/ Requeue(a) \/ ReorderRow(a)
         \/ AddPT(a) \/ ToggleMC(a) \/ EnqueueRow(a) \/ CloseWaiting(a)
  PROVE  TypeInv'
<1>0. /\ CallsOK /\ call[a] \in Call /\ CallOK(call[a])
      /\ queue \in Seq(QueueRow) /\ queue \in [DOMAIN queue -> QueueRow]
  BY LenProperties DEF TypeInv, CallsOK, StoreOK
<1>1. ASSUME OnlyQueue, queue' \in Seq(QueueRow), NEW pc \in Steps, Goto(a, pc),
             pc \notin CarSteps \cup EntrySteps \cup {"log_orphan"}
      PROVE  TypeInv'
  BY <1>0, <1>1, GotoAnywhere, QueueWriteTypes
<1>2. ASSUME OnlyQueue, queue' \in Seq(QueueRow), Return(a)
      PROVE  TypeInv'
  BY <1>0, <1>2, ReturnTypes, QueueWriteTypes
<1>s. /\ {"stamp", "adopt_stamp", "restore", "undo_mc", "undo_mode",
          "undo_front", "close_event", "undo_pt"} \in SUBSET Steps
      /\ {"stamp", "adopt_stamp", "restore", "undo_mc", "undo_mode",
          "undo_front", "close_event"}
           \cap (CarSteps \cup EntrySteps \cup {"log_orphan"}) = {}
      /\ {"waiting", "on_course", "done", "canceled"} \in SUBSET QueueStatus
  BY DEF Steps, WriteSteps, CarSteps, EntrySteps, QueueStatus
<1>w. /\ \A r : \A status \in QueueStatus :
            SetQueueStatus(queue, r, status) \in Seq(QueueRow)
      /\ \A r : \A t \in Times \cup {NoTime} : SetStart(queue, r, t) \in Seq(QueueRow)
      /\ \A r : \A on \in BOOLEAN : SetMC(queue, r, on) \in Seq(QueueRow)
      /\ \A r : \A delta \in Int :
           (r \in DOMAIN queue => queue[r].pt + delta >= 0)
           => SetPT(queue, r, delta) \in Seq(QueueRow)
  BY <1>0, ColumnWrites
<1>t. call[a].t \in Times \cup {NoTime} /\ call[a].run.tStart \in Times \cup {NoTime}
      /\ call[a].n \in Int
  BY <1>0 DEF Call, OrphanRun
<1>3. CASE Claim(a)
  BY <1>0, <1>1, <1>2, <1>3, <1>s, <1>w DEF Claim
<1>4. CASE LaunchStamp(a)
  BY <1>2, <1>4, <1>t, <1>w DEF LaunchStamp
<1>5. CASE TryStart(a)
  <2>1. PICK row \in call[a].todo :
          IF StartIsUnset(queue, row.id)
          THEN queue' = SetStart(queue, row.id, call[a].t) /\ Return(a)
          ELSE queue' = queue /\ call' = [call EXCEPT ![a].todo = @ \ {row}]
    BY <1>5 DEF TryStart
  <2>2. OnlyQueue
    BY <1>5 DEF TryStart
  <2>3. CASE queue' = SetStart(queue, row.id, call[a].t) /\ Return(a)
    BY <1>2, <1>t, <1>w, <2>2, <2>3
  <2>4. CASE queue' = queue /\ call' = [call EXCEPT ![a].todo = @ \ {row}]
    <3>. DEFINE c == [call[a] EXCEPT !.todo = call[a].todo \ {row}]
    <3>1. call' = [call EXCEPT ![a] = c]
      BY <1>0, <2>4 DEF CallsOK, Call
    <3>2. c \in Call
      BY <1>0 DEF Call
    <3>3. CallOK(c)
      BY <1>0 DEF Call, CallOK
    <3>. HIDE DEF c
    <3>4. CallsOK'
      BY <1>0, <3>1, <3>2, <3>3, BeginTypes
    <3>. QED BY <1>0, <2>2, <2>4, <3>4, QueueWriteTypes
  <2>. QED BY <2>1, <2>3, <2>4
<1>6. CASE AdoptClaim(a)
  BY <1>0, <1>1, <1>6, <1>s, <1>w DEF AdoptClaim
<1>7. CASE AdoptStamp(a)
  BY <1>2, <1>7, <1>t, <1>w DEF AdoptStamp
<1>8. CASE AdoptRollback(a)
  BY <1>0, <1>1, <1>8, <1>s, <1>w DEF AdoptRollback
<1>9. CASE Cancel(a)
  BY <1>2, <1>9, <1>s, <1>w DEF Cancel
<1>10. CASE ClearStart(a)
  <2>1. queue' \in Seq(QueueRow) /\ OnlyQueue /\ Goto(a, "undo_pt")
        /\ call[a].pc = "clear_start"
    BY <1>10, <1>w DEF ClearStart, At
  <2>2. CallOK([call[a] EXCEPT !.pc = "undo_pt"])
    BY <1>0, <2>1 DEF Call, CallOK, CarSteps, EntrySteps
  <2>3. CallsOK'
    BY <1>0, <1>s, <2>1, <2>2, GotoTypes
  <2>. QED BY <2>1, <2>3, QueueWriteTypes
<1>11. CASE UndoPT(a)
  <2>1. call[a].car.pt \in Nat
    BY <1>0, <1>11 DEF UndoPT, At, CallOK, CarSteps, QueueRow
  <2>2. \A r \in DOMAIN queue : queue[r].pt \in Nat
    BY <1>0 DEF QueueRow
  <2>3. queue[call[a].car.id].pt >= call[a].car.pt
        => SetPT(queue, call[a].car.id, -call[a].car.pt) \in Seq(QueueRow)
    BY <1>w, <2>1, <2>2
  <2>. QED BY <1>0, <1>1, <1>2, <1>11, <1>s, <2>3 DEF UndoPT
<1>12. CASE UndoMC(a)
  BY <1>0, <1>1, <1>12, <1>s, <1>w DEF UndoMC
<1>13. CASE Requeue(a)
  BY <1>1, <1>13, <1>s, <1>w DEF Requeue
<1>14. CASE ReorderRow(a)
  BY <1>0, <1>2, <1>14, <1>t, ReorderType DEF ReorderRow
<1>15. CASE AddPT(a)
  <2>1. \A r \in DOMAIN queue : queue[r].pt \in Nat
    BY <1>0 DEF QueueRow
  <2>2. ~(queue[call[a].car.id].pt + call[a].n < 0)
        => SetPT(queue, call[a].car.id, call[a].n) \in Seq(QueueRow)
    BY <1>t, <1>w, <2>1
  <2>. QED BY <1>0, <1>2, <1>15, <2>2 DEF AddPT
<1>16. CASE ToggleMC(a)
  <2>1. (~call[a].car.mc) \in BOOLEAN
    BY <1>0, <1>16 DEF ToggleMC, At, CallOK, CarSteps, QueueRow
  <2>. QED BY <1>2, <1>16, <1>w, <2>1 DEF ToggleMC
<1>17. CASE EnqueueRow(a)
  <2>1. call[a].ev \in Events /\ call[a].entry \in Entries
    BY <1>0, <1>17 DEF EnqueueRow, At, CallOK, EntrySteps
  <2>2. Enqueue(queue, call[a].ev, call[a].entry) \in Seq(QueueRow)
    BY <1>0, <2>1, EnqueueType
  <2>. QED BY <1>0, <1>2, <1>17, <2>2 DEF EnqueueRow
<1>18. CASE CloseWaiting(a)
  BY <1>0, <1>1, <1>18, <1>s, CancelWaitingType DEF CloseWaiting
<1>. QED
  BY <1>3, <1>4, <1>5, <1>6, <1>7, <1>8, <1>9, <1>10, <1>11, <1>12, <1>13,
     <1>14, <1>15, <1>16, <1>17, <1>18

-----------------------------------------------------------------------------
(* The finishes, the orphan runs, the events, and the failures.            *)

LEMMA FinishTypes ==
  ASSUME TypeInv, NEW a \in Actors,
         \/ InsertLog(a) \/ Register(a) \/ BeginUndoGoal(a)
         \/ UndoGoalStop(a) \/ UndoGoalDelete(a)
  PROVE  TypeInv'
<1>0. /\ CallsOK /\ call[a] \in Call /\ CallOK(call[a])
      /\ StoreOK /\ MemoryOK /\ SpentOK
  BY DEF TypeInv, CallsOK
<1>s. /\ {"register", "undo_stop", "undo_delete"} \in SUBSET Steps
      /\ {"register", "undo_stop", "undo_delete"}
           \cap (CarSteps \cup EntrySteps \cup {"log_orphan"}) = {}
  BY DEF Steps, WriteSteps, CarSteps, EntrySteps
<1>1. CASE InsertLog(a)
  <2>. DEFINE car == call[a].car
              g == [ id |-> logSeq + 1, row |-> car.id,
                     raw |-> call[a].t - car.tStart, pt |-> car.pt, mc |-> car.mc ]
              c == [call[a] EXCEPT !.pc = "register", !.log = logSeq + 1]
  <2>1. /\ car \in QueueRow /\ call[a].t >= car.tStart
        /\ logSeq \in Nat /\ logSeq + 1 \in Nat
    BY <1>0, <1>1 DEF InsertLog, At, CallOK, CarSteps, StoreOK
  <2>2. call[a].t \in Nat /\ car.tStart \in Nat
    <3>1. Times \cup {NoTime} \subseteq Nat
      BY QueueConstants DEF NoTime
    <3>2. call[a].t \in Times \cup {NoTime} /\ car.tStart \in Times \cup {NoTime}
      BY <1>0, <2>1 DEF Call, QueueRow
    <3>. QED BY <3>1, <3>2
  <2>3. g \in LogRow
    BY <2>1, <2>2 DEF LogRow, QueueRow
  <2>4. c \in Call
    <3>. HIDE DEF car, g
    <3>. QED BY <1>0, <1>s, <2>1 DEF Call
  <2>5. CallOK(c)
    BY <1>0, <1>s DEF Call, CallOK
  <2>6. call' = [call EXCEPT ![a] = c] /\ logs' = logs \cup {g}
        /\ logSeq' = logSeq + 1
    BY <1>0, <1>1 DEF InsertLog, CallsOK, Call
  <2>. HIDE DEF c, g
  <2>7. CallsOK'
    BY <1>0, <2>4, <2>5, <2>6, BeginTypes
  <2>. QED BY <1>0, <1>1, <2>1, <2>3, <2>6, <2>7
           DEF InsertLog, TypeInv, StoreOK, MemoryOK, SpentOK, memory
<1>2. CASE Register(a)
  <2>1. [row |-> call[a].car.id, log |-> call[a].log] \in Finish
    BY <1>0 DEF Finish, Call, QueueRow, NoCar, NoRow
  <2>2. CallsOK'
    BY <1>0, <1>2, ReturnTypes DEF Register
  <2>. QED BY <1>0, <1>2, <2>1, <2>2
           DEF Register, TypeInv, StoreOK, MemoryOK, SpentOK, store
<1>3. CASE BeginUndoGoal(a)
  <2>1. PICK p \in pending :
          /\ Admit(a, "undo_goal")
          /\ pending' = pending \ {p}
          /\ call' = [call EXCEPT ![a] =
               [NoCall EXCEPT !.pc = "undo_stop", !.log = p.log]]
          /\ UNCHANGED <<store, timers, confirming, orphanRuns, orphanSeq>>
    BY <1>3 DEF BeginUndoGoal
  <2>. DEFINE c == [NoCall EXCEPT !.pc = "undo_stop", !.log = p.log]
  <2>2. p.log \in Nat
    BY <1>0 DEF MemoryOK, Finish
  <2>3. c \in Call
    BY <1>s, <2>2, NoCallIsCall DEF Call
  <2>4. CallOK(c)
    BY <1>s, NoCallIsCall DEF Call, CallOK
  <2>. HIDE DEF c
  <2>5. CallsOK'
    BY <1>0, <2>1, <2>3, <2>4, BeginTypes DEF c
  <2>6. SpentOK'
    BY <1>0, <2>1 DEF Admit, SpentOK
  <2>. QED BY <1>0, <2>1, <2>5, <2>6 DEF TypeInv, StoreOK, MemoryOK, store
<1>4. CASE UndoGoalStop(a)
  <2>1. CallsOK'
    BY <1>0, <1>s, <1>4, GotoAnywhere DEF UndoGoalStop
  <2>. QED BY <1>0, <1>4, <2>1
           DEF UndoGoalStop, TypeInv, StoreOK, MemoryOK, SpentOK, store
<1>5. CASE UndoGoalDelete(a)
  <2>1. CallsOK'
    BY <1>0, <1>5, ReturnTypes DEF UndoGoalDelete
  <2>. QED BY <1>0, <1>5, <2>1
           DEF UndoGoalDelete, TypeInv, StoreOK, MemoryOK, SpentOK, memory
<1>. QED BY <1>1, <1>2, <1>3, <1>4, <1>5

LEMMA GraceTypes ==
  ASSUME TypeInv, Grace
  PROVE  TypeInv'
<1>0. StoreOK /\ MemoryOK /\ CallsOK /\ SpentOK
  BY DEF TypeInv
<1>1. ASSUME NEW timer \in timers, TimerFires(timer)
      PROVE  TypeInv'
  BY <1>0, <1>1 DEF TimerFires, TypeInv, StoreOK, MemoryOK, CallsOK, SpentOK, store
<1>2. ASSUME NEW finish \in confirming, Confirm(finish)
      PROVE  TypeInv'
  <2>1. SetQueueStatus(queue, finish.row, "done") \in Seq(QueueRow)
    BY <1>0, ColumnWrites DEF StoreOK, QueueStatus
  <2>. QED BY <1>0, <1>2, <2>1
           DEF Confirm, TypeInv, StoreOK, MemoryOK, CallsOK, SpentOK
<1>3. ASSUME NEW finish \in confirming, ConfirmError(finish)
      PROVE  TypeInv'
  BY <1>0, <1>3
     DEF ConfirmError, TypeInv, StoreOK, MemoryOK, CallsOK, SpentOK, store
<1>. QED BY <1>1, <1>2, <1>3 DEF Grace

LEMMA EventTypes ==
  ASSUME TypeInv, NEW a \in Actors,
         CreateEvent(a) \/ CloseEvent(a) \/ PutSettings(a)
  PROVE  TypeInv'
<1>0. StoreOK /\ MemoryOK /\ CallsOK /\ SpentOK
  BY DEF TypeInv
<1>1. CASE CreateEvent(a)
  <2>1. SpentOK' /\ event' \in [Events -> EventRow]
    BY <1>0, <1>1 DEF CreateEvent, Admit, SpentOK, StoreOK, EventRow
  <2>. QED BY <1>0, <1>1, <2>1
           DEF CreateEvent, TypeInv, StoreOK, MemoryOK, CallsOK, memory
<1>2. CASE CloseEvent(a)
  <2>1. event' \in [Events -> EventRow]
    BY <1>0, <1>2 DEF CloseEvent, StoreOK, EventRow
  <2>2. CallsOK'
    BY <1>0, <1>2, ReturnTypes DEF CloseEvent
  <2>. QED BY <1>0, <1>2, <2>1, <2>2
           DEF CloseEvent, TypeInv, StoreOK, MemoryOK, SpentOK, memory
<1>3. CASE PutSettings(a)
  <2>1. event' \in [Events -> EventRow]
    BY <1>0, <1>3 DEF PutSettings, StoreOK, EventRow
  <2>2. CallsOK'
    BY <1>0, <1>3, ReturnTypes DEF PutSettings
  <2>. QED BY <1>0, <1>3, <2>1, <2>2
           DEF PutSettings, TypeInv, StoreOK, MemoryOK, SpentOK, memory
<1>. QED BY <1>1, <1>2, <1>3

LEMMA OrphanTypes ==
  ASSUME TypeInv,
         \/ \E a \in Actors : AdoptTake(a) \/ RestoreOrphan(a) \/ DismissOrphan(a)
         \/ DispatcherSteps
  PROVE  TypeInv'
<1>0. /\ StoreOK /\ MemoryOK /\ CallsOK /\ SpentOK
      /\ orphanRuns \in Seq(OrphanRun) /\ orphanSeq \in Nat
      /\ DOMAIN orphanRuns = 1 .. Len(orphanRuns)
      /\ orphanRuns \in [DOMAIN orphanRuns -> OrphanRun]
  BY LenProperties DEF TypeInv, MemoryOK
<1>d. Dispatcher \in Actors
  BY DEF Actors
<1>s. /\ {"adopt_claim", "log_orphan"} \in SUBSET Steps
      /\ "adopt_claim" \notin CarSteps \cup EntrySteps \cup {"log_orphan"}
      /\ "log_orphan" \notin CarSteps \cup EntrySteps
  BY DEF Steps, WriteSteps, CarSteps, EntrySteps
<1>u. \A t : Unexpired(orphanRuns, t) \in Seq(OrphanRun)
  BY <1>0, KeptRuns DEF Unexpired
<1>w. \A id : Without(orphanRuns, id) \in Seq(OrphanRun)
  BY <1>0, KeptRuns DEF Without
<1>1. ASSUME NEW a \in Actors, AdoptTake(a)
      PROVE  TypeInv'
  <2>1. CASE Return(a)
    <3>1. CallsOK'
      BY <1>0, <2>1, ReturnTypes
    <3>. QED BY <1>0, <1>1, <1>w, <3>1
             DEF AdoptTake, TypeInv, StoreOK, MemoryOK, SpentOK, store
  <2>2. CASE ~Return(a)
    <3>1. PICK i \in DOMAIN orphanRuns :
            call' = [call EXCEPT ![a].pc = "adopt_claim", ![a].run = orphanRuns[i]]
      BY <1>1, <2>2 DEF AdoptTake
    <3>. DEFINE c == [call[a] EXCEPT !.pc = "adopt_claim", !.run = orphanRuns[i]]
    <3>2. call' = [call EXCEPT ![a] = c]
      BY <1>0, <3>1 DEF CallsOK, Call
    <3>3. c \in Call
      BY <1>0, <1>s DEF CallsOK, Call
    <3>4. CallOK(c)
      BY <1>0, <1>s DEF CallsOK, CallOK, Call
    <3>. HIDE DEF c
    <3>5. CallsOK'
      BY <1>0, <3>2, <3>3, <3>4, BeginTypes
    <3>. QED BY <1>0, <1>1, <1>w, <3>5
             DEF AdoptTake, TypeInv, StoreOK, MemoryOK, SpentOK, store
  <2>. QED BY <2>1, <2>2
<1>2. ASSUME NEW a \in Actors, RestoreOrphan(a)
      PROVE  TypeInv'
  <2>1. CallsOK'
    BY <1>0, <1>2, ReturnTypes DEF RestoreOrphan
  <2>2. Reinsert(orphanRuns, call[a].run) \in Seq(OrphanRun)
    BY <1>0, ReinsertType DEF CallsOK, Call
  <2>. QED BY <1>0, <1>2, <2>1, <2>2
           DEF RestoreOrphan, TypeInv, StoreOK, MemoryOK, SpentOK, store
<1>3. ASSUME NEW a \in Actors, DismissOrphan(a)
      PROVE  TypeInv'
  <2>1. SpentOK'
    BY <1>0, <1>3 DEF DismissOrphan, Admit, SpentOK
  <2>. QED BY <1>0, <1>3, <1>w, <2>1
           DEF DismissOrphan, TypeInv, StoreOK, MemoryOK, CallsOK, store
<1>4. CASE PushOrphan
  <2>. DEFINE t == call[Dispatcher].t
              run == [id |-> orphanSeq + 1, tStart |-> t]
  <2>1. run \in OrphanRun
    BY <1>0, <1>d DEF OrphanRun, CallsOK, Call
  <2>2. Append(Unexpired(orphanRuns, t), run) \in Seq(OrphanRun)
    <3>. HIDE DEF run
    <3>. QED BY <1>u, <2>1, AppendProperties
  <2>3. CallsOK'
    BY <1>0, <1>d, <1>4, ReturnTypes DEF PushOrphan
  <2>. QED BY <1>0, <1>4, <2>2, <2>3
           DEF PushOrphan, TypeInv, StoreOK, MemoryOK, SpentOK, store
<1>5. CASE PopOrphan
  <2>. DEFINE t == call[Dispatcher].t
              kept == Unexpired(orphanRuns, t)
  <2>1. kept \in Seq(OrphanRun)
    BY <1>u
  <2>2. orphanRuns' = IF kept = <<>> THEN <<>> ELSE Tail(kept)
    BY <1>5 DEF PopOrphan
  <2>3. orphanRuns' \in Seq(OrphanRun)
    <3>. HIDE DEF kept
    <3>. QED BY <2>1, <2>2, HeadTailProperties, EmptySeq
  <2>4. CASE Return(Dispatcher)
    <3>1. CallsOK'
      BY <1>0, <1>d, <2>4, ReturnTypes
    <3>. QED BY <1>0, <1>5, <2>3, <3>1
             DEF PopOrphan, TypeInv, StoreOK, MemoryOK, SpentOK, store
  <2>5. CASE ~Return(Dispatcher)
    <3>1. /\ kept # <<>> /\ ~(t < kept[1].tStart)
          /\ call' = [call EXCEPT ![Dispatcher].pc = "log_orphan",
                                  ![Dispatcher].run = kept[1]]
      BY <1>5, <2>5 DEF PopOrphan
    <3>. DEFINE c == [call[Dispatcher] EXCEPT !.pc = "log_orphan", !.run = kept[1]]
    <3>2. call' = [call EXCEPT ![Dispatcher] = c]
      BY <1>0, <1>d, <3>1 DEF CallsOK, Call
    <3>3. kept[1] \in OrphanRun
      <4>. HIDE DEF kept
      <4>. QED BY <2>1, <3>1, EmptySeq, ElementOfSeq
    <3>4. c \in Call
      <4>. HIDE DEF kept
      <4>. QED BY <1>0, <1>d, <1>s, <3>3 DEF CallsOK, Call
    <3>5. t >= kept[1].tStart
      <4>1. t \in Nat
        BY <1>0, <1>d, QueueConstants DEF CallsOK, Call, NoTime
      <4>2. kept[1].tStart \in Nat
        <5>. HIDE DEF kept
        <5>. QED BY <3>3, QueueConstants DEF OrphanRun, NoTime
      <4>. HIDE DEF kept, t
      <4>. QED BY <3>1, <4>1, <4>2
    <3>6. CallOK(c)
      <4>. HIDE DEF kept
      <4>. QED BY <1>0, <1>d, <1>s, <3>5 DEF CallsOK, CallOK, Call
    <3>. HIDE DEF c
    <3>7. CallsOK'
      BY <1>0, <1>d, <3>2, <3>4, <3>6, BeginTypes
    <3>. QED BY <1>0, <1>5, <2>3, <3>7
             DEF PopOrphan, TypeInv, StoreOK, MemoryOK, SpentOK, store
  <2>. QED BY <2>4, <2>5
<1>6. CASE LogOrphan
  <2>. DEFINE run == call[Dispatcher].run
              g == [ id |-> logSeq + 1, row |-> NoRow,
                     raw |-> call[Dispatcher].t - run.tStart, pt |-> 0, mc |-> FALSE ]
  <2>1. CallsOK'
    BY <1>0, <1>d, <1>6, ReturnTypes DEF LogOrphan
  <2>2. call[Dispatcher].t >= run.tStart /\ call[Dispatcher] \in Call
    BY <1>0, <1>d, <1>6 DEF LogOrphan, At, CallsOK, CallOK
  <2>3. call[Dispatcher].t \in Nat /\ run.tStart \in Nat
    <3>1. Times \cup {NoTime} \subseteq Nat
      BY QueueConstants DEF NoTime
    <3>2. call[Dispatcher].t \in Times \cup {NoTime}
          /\ run.tStart \in Times \cup {NoTime}
      BY <2>2 DEF Call, OrphanRun
    <3>. QED BY <3>1, <3>2
  <2>4. g \in LogRow
    BY <1>0, <2>2, <2>3 DEF LogRow, StoreOK, NoRow
  <2>5. logs' = logs \cup {g} /\ logSeq' = logSeq + 1
    BY <1>6 DEF LogOrphan
  <2>. HIDE DEF g
  <2>. QED BY <1>0, <1>6, <2>1, <2>4, <2>5
           DEF LogOrphan, TypeInv, StoreOK, MemoryOK, SpentOK, memory
<1>. QED BY <1>1, <1>2, <1>3, <1>4, <1>5, <1>6 DEF DispatcherSteps

LEMMA TriggersTypes ==
  ASSUME TypeInv, Triggers
  PROVE  TypeInv'
<1>. DEFINE c(pc, e, t) == [NoCall EXCEPT !.pc = pc, !.ev = e, !.t = t]
<1>1. PICK e \in Events, t \in Times, pc \in {"list_ready", "list_course"} :
        TriggerArrives(c(pc, e, t))
  BY DEF Triggers, BeginSensorStart, BeginSensorGoal
<1>2. e \in Nat /\ pc \in Steps /\ pc \notin CarSteps \cup EntrySteps
  BY QueueConstants DEF Steps, CarSteps, EntrySteps
<1>3. c(pc, e, t) \in Call
  BY <1>2, NoCallIsCall DEF Call
<1>4. CallOK(c(pc, e, t))
  BY <1>1, <1>2, NoCallIsCall DEF Call, CallOK
<1>. HIDE DEF c
<1>. QED BY <1>1, <1>3, <1>4, TriggerTypes

LEMMA RestartTypes ==
  ASSUME TypeInv, Restart
  PROVE  TypeInv'
<1>1. CallsOK'
  BY NoCallIsCall DEF Restart, CallsOK
<1>2. SpentOK'
  BY DEF Restart, TypeInv, SpentOK
<1>. QED BY <1>1, <1>2 DEF Restart, TypeInv, StoreOK, MemoryOK, store

-----------------------------------------------------------------------------
(* Every reachable state is well typed.                                    *)

LEMMA InitTypes == Init => TypeInv
<1>. SUFFICES ASSUME Init
              PROVE  TypeInv
  OBVIOUS
<1>1. event \in [Events -> EventRow]
  BY DEF Init, EventRow
<1>2. CallsOK
  BY NoCallIsCall DEF Init, CallsOK
<1>3. queue \in Seq(QueueRow)
  BY InitialTablesAreFresh DEF Init
<1>. QED BY <1>1, <1>2, <1>3 DEF Init, TypeInv, StoreOK, MemoryOK, SpentOK

LEMMA NextTypes == TypeInv /\ [Next]_vars => TypeInv'
<1>. SUFFICES ASSUME TypeInv, [Next]_vars
              PROVE  TypeInv'
  OBVIOUS
<1>1. ASSUME NEW a \in Actors, Arrivals(a)
      PROVE  TypeInv'
  BY <1>1, RequestTypes, FinishTypes, OrphanTypes, EventTypes DEF Arrivals
<1>2. ASSUME NEW a \in Actors, Proceed(a)
      PROVE  TypeInv'
  BY <1>2, ListTypes, CheckTypes, QueueStepTypes, FinishTypes, EventTypes,
     OrphanTypes
     DEF Proceed, LaunchSteps, StartSteps, FinishSteps, UndoSteps, QueueSteps,
         EventSteps, OrphanSteps
<1>3. ASSUME NEW a \in Actors, StoreError(a) \/ OrphanStoreError(a)
      PROVE  TypeInv'
  BY <1>3, CheckTypes
<1>4. CASE Triggers
  BY <1>4, TriggersTypes
<1>5. CASE DispatcherSteps
  BY <1>5, OrphanTypes
<1>6. CASE Grace
  BY <1>6, GraceTypes
<1>7. CASE Restart
  BY <1>7, RestartTypes
<1>8. CASE UNCHANGED vars
  BY <1>8 DEF vars, TypeInv, StoreOK, MemoryOK, CallsOK, SpentOK
<1>. QED BY <1>1, <1>2, <1>3, <1>4, <1>5, <1>6, <1>7, <1>8 DEF Next

LEMMA TypeInvariant == Spec => []TypeInv
<1>1. Init => TypeInv
  BY InitTypes
<1>2. TypeInv /\ [Next]_vars => TypeInv'
  BY NextTypes
<1>. QED BY <1>1, <1>2, PTL DEF Spec

(***************************************************************************)
(* Every reachable state is well typed; in particular no timing is         *)
(* negative (finishCar refuses a goal before the start, SensorGoal an      *)
(* orphan run younger than the goal) and no penalty count falls below      *)
(* zero (SetPT), however requests, triggers, timers, failures and restarts *)
(* overlap.                                                                *)
(***************************************************************************)
THEOREM TypeCorrect == Spec => []TypeOK
<1>1. TypeInv => TypeOK
  BY DEF TypeInv, TypeOK, StoreOK, MemoryOK, CallsOK, SpentOK
<1>. QED BY <1>1, TypeInvariant, PTL
=============================================================================
