----------------------------- MODULE QueueTable -----------------------------
(***************************************************************************)
(* The queue table of the store (internal/store/queue.go): one row per     *)
(* queue entry, covering both the waiting list and the cars on course.     *)
(* Every operator below is one SQL statement or one transaction; the       *)
(* store's writeMu makes each of them a single atomic step of whichever    *)
(* module uses it.                                                         *)
(*                                                                         *)
(* A table is a sequence of rows: ids are AUTOINCREMENT and rows are never *)
(* deleted, so the row with id r is the r-th row ever inserted.            *)
(*                                                                         *)
(* Abstractions.  An Entry is a (driver, vehicle) combination.  Positions  *)
(* are integers counted in units of the 1e-9 gap below which Reorder       *)
(* renumbers, so "closer than 1e-9" is "equal".  Instants are the numbers  *)
(* in Times; NoTime is SQL NULL.                                           *)
(***************************************************************************)
EXTENDS Integers, Sequences, FiniteSets

CONSTANTS
  Events,    \* ids of the events there can be
  Entries,   \* (driver, vehicle) combinations
  DriverOf,  \* the driver of each entry
  Times      \* the instants a start or a goal can be stamped with

NoTime == 0

ASSUME QueueConstants ==
  /\ Events \subseteq Nat \ {0}
  /\ Times \subseteq Nat \ {NoTime}

QueueStatus == {"waiting", "on_course", "done", "canceled"}

QueueRow ==
  [ id : Nat, ev : Events, entry : Entries, pos : Int, status : QueueStatus,
    tStart : Times \cup {NoTime}, pt : Nat, mc : BOOLEAN ]

Driver(row) == DriverOf[row.entry]

-----------------------------------------------------------------------------

(* The rows ListQueue selects; the two orders it returns them in follow.   *)
ListQueue(q, ev, status) ==
  { q[r] : r \in { i \in DOMAIN q : q[i].ev = ev /\ q[i].status = status } }

(* A plausible slip: ORDER BY id DESC.                                     *)
IsNewest(row, rows) ==
  row \in rows /\ \A s \in rows : row.id >= s.id

(* ORDER BY id: the oldest row first.                                      *)
IsOldest(row, rows) ==
  row \in rows /\ \A s \in rows : row.id <= s.id

(* ORDER BY position, id: the order of the waiting list.                   *)
Ahead(s, t) ==
  s.pos < t.pos \/ (s.pos = t.pos /\ s.id <= t.id)

IsHead(row, rows) ==
  row \in rows /\ \A s \in rows : Ahead(row, s)

-----------------------------------------------------------------------------

AlreadyWaiting(q, ev, entry) ==
  \E row \in ListQueue(q, ev, "waiting") : row.entry = entry

BackPosition(waiting) ==
  IF waiting = {}
  THEN 1
  ELSE 1 + (CHOOSE p \in { s.pos : s \in waiting } :
              \A s \in waiting : s.pos <= p)

(* Enqueue's INSERT, at the back of the event's waiting list.              *)
Enqueue(q, ev, entry) ==
  Append(q, [ id |-> Len(q) + 1, ev |-> ev, entry |-> entry,
              pos |-> BackPosition(ListQueue(q, ev, "waiting")),
              status |-> "waiting", tStart |-> NoTime,
              pt |-> 0, mc |-> FALSE ])

SetQueueStatus(q, r, status) ==
  [q EXCEPT ![r].status = status]

(* A plausible slip: SetStart without its WHERE clause.                    *)
SetEveryStart(q, r, t) ==
  [i \in DOMAIN q |-> [q[i] EXCEPT !.tStart = t]]

(* SetStart: an unconditional write; NoTime clears the stamp.              *)
SetStart(q, r, t) ==
  [q EXCEPT ![r].tStart = t]

(* The WHERE clause of SetStartIfUnset.                                    *)
StartIsUnset(q, r) ==
  q[r].status = "on_course" /\ q[r].tStart = NoTime

SetPT(q, r, delta) ==
  [q EXCEPT ![r].pt = @ + delta]

SetMC(q, r, on) ==
  [q EXCEPT ![r].mc = on]

CancelWaiting(q, ev) ==
  [ r \in DOMAIN q |->
      IF q[r].ev = ev /\ q[r].status = "waiting"
      THEN [q[r] EXCEPT !.status = "canceled"]
      ELSE q[r] ]

-----------------------------------------------------------------------------

(* Two neighbours of the waiting list with no room left between them.      *)
Crowded(waiting) ==
  \E s, t \in waiting : s.id # t.id /\ s.pos = t.pos

(* The rank of a waiting row, which renumbering makes its position.        *)
Rank(row, waiting) ==
  Cardinality({ s \in waiting : Ahead(s, row) })

(* Reorder: move row r, then renumber its event's waiting list to 1, 2,    *)
(* 3, ... in the same transaction when two positions have run together.    *)
Reorder(q, r, pos) ==
  LET moved   == [q EXCEPT ![r].pos = pos]
      waiting == ListQueue(moved, q[r].ev, "waiting")
  IN  IF Crowded(waiting)
      THEN [ i \in DOMAIN q |->
               IF moved[i] \in waiting
               THEN [moved[i] EXCEPT !.pos = Rank(moved[i], waiting)]
               ELSE moved[i] ]
      ELSE moved

(* A plausible slip: one place behind the head.                            *)
PositionAfterHead(waiting) ==
  IF waiting = {}
  THEN 0
  ELSE (CHOOSE p \in { s.pos : s \in waiting } :
          \A s \in waiting : p <= s.pos) + 1

(* frontOfWaitingPosition: one place before the head of the list, or 0.    *)
FrontPosition(waiting) ==
  IF waiting = {}
  THEN 0
  ELSE (CHOOSE p \in { s.pos : s \in waiting } :
          \A s \in waiting : p <= s.pos) - 1
=============================================================================
