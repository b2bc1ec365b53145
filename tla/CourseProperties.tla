-------------------------- MODULE CourseProperties --------------------------
(***************************************************************************)
(* What the course promises (module Course), as invariants, action         *)
(* properties and liveness, and the run lifecycle each row implements.     *)
(***************************************************************************)
EXTENDS Course

(* The handlers holding a timing on its way into the grace window, or out  *)
(* of it to be deleted.                                                    *)
Registering == { a \in Actors : At(a, "register") }

Undoing == { a \in Actors : call[a].pc \in {"undo_stop", "undo_delete"} }

(* The timings that can still be taken back.                               *)
Unsettled ==
  { p.log : p \in pending \cup confirming }
    \cup { call[a].log : a \in Registering \cup Undoing }

HasTiming(r) == \E g \in logs : g.row = r

(***************************************************************************)
(* A row that is done has a timing.  The finish is written before the row  *)
(* is confirmed "so a crash cannot lose the timing" (course_manager.go),   *)
(* and undo-goal deletes a timing only if it took the pending entry before *)
(* the timer did: whatever overlaps, fails or crashes, no row ends up done *)
(* with nothing on record.                                                 *)
(***************************************************************************)
DoneHasTiming ==
  \A r \in DOMAIN queue : queue[r].status = "done" => HasTiming(r)

(***************************************************************************)
(* The timing an entry of courseManager.pending points at is in the logs   *)
(* table and is that row's: undo-goal, which deletes it by id, can neither *)
(* miss it nor hit another row's.                                          *)
(***************************************************************************)
PendingTimingOnRecord ==
  \A p \in pending : \E g \in logs : g.id = p.log /\ g.row = p.row

(***************************************************************************)
(* An entry of courseManager.pending has its own grace timer armed, even   *)
(* where a second finish replaced the entry of a first one or an undo      *)
(* stopped a timer in between: no car stays "finished" on the boards with  *)
(* nothing left to confirm it.                                             *)
(***************************************************************************)
PendingHasTimer == pending \subseteq timers

(***************************************************************************)
(* A timing that can still be taken back is in one pair of hands: in the   *)
(* finish being registered, in the pending map, in a confirm or in an      *)
(* undo-goal.  So what undo-goal deletes nobody confirms, and what a timer *)
(* confirms nobody deletes, whichever of them gets to the map first.       *)
(***************************************************************************)
TimingHeldOnce ==
  /\ \A p \in pending, q \in confirming : p.log # q.log
  /\ \A a \in Registering \cup Undoing :
       /\ \A p \in pending \cup confirming : p.log # call[a].log
       /\ \A b \in Registering \cup Undoing :
            call[a].log = call[b].log => a = b

(***************************************************************************)
(* courseManager.orphanRuns keeps the triggers in the order they came in   *)
(* (goals pair with the oldest), and a run an operation has taken out of   *)
(* it to pair or adopt is in nobody else's hands: a start trigger is       *)
(* consumed once.                                                          *)
(***************************************************************************)
Holders ==
  { a \in Actors : call[a].pc \in {"adopt_claim", "adopt_stamp", "log_orphan",
                                   "adopt_rollback", "restore"} }

OrphansHeldOnce ==
  /\ \A i, j \in DOMAIN orphanRuns :
       i < j => orphanRuns[i].id < orphanRuns[j].id
  /\ \A a \in Holders :
       /\ \A i \in DOMAIN orphanRuns : orphanRuns[i].id # call[a].run.id
       /\ \A b \in Holders : call[a].run.id = call[b].run.id => a = b

-----------------------------------------------------------------------------

(* The run of row r as one of the phases of RunLifecycle.                  *)
Phase(r) ==
  IF r \notin DOMAIN queue THEN "absent"
  ELSE IF queue[r].status # "on_course" THEN queue[r].status
  ELSE IF \E g \in logs : g.row = r /\ g.id \in Unsettled THEN "finished"
  ELSE IF queue[r].tStart = NoTime THEN "ready"
  ELSE "running"

CONSTANT RowIDs   \* the rows whose runs are followed

ASSUME RowIDsAreRows == RowIDs \subseteq Nat \ {NoRow}

Run ==
  INSTANCE RunLifecycle WITH
    Runs <- RowIDs,
    MayForget <- Faults \/ MaxCrashes > 0,
    phase <- [ r \in RowIDs |-> Phase(r) ],
    timings <- [ r \in RowIDs |-> Cardinality({ g \in logs : g.row = r }) ]

(***************************************************************************)
(* As long as requests, triggers and timers do not overlap, every row goes *)
(* through the lifecycle of RunLifecycle: no handler, however many         *)
(* statements it is made of and wherever it is cut short, leaves a run     *)
(* between two phases, finishes it twice, or brings back one that is done  *)
(* or canceled.  A failed write or a restart can only make it forget that  *)
(* a run is in its grace window, which is held in memory.                  *)
(***************************************************************************)
RunsFollowLifecycle == Run!Spec

(***************************************************************************)
(* A finish does not stay in its grace window: it is confirmed, or undone. *)
(***************************************************************************)
GraceEnds ==
  \A r \in RowIDs : Phase(r) = "finished" ~> Phase(r) # "finished"

(***************************************************************************)
(* A row in the waiting list carries no start, so a launched car cannot    *)
(* begin its run with a stamp from an earlier attempt.                     *)
(***************************************************************************)
WaitingHasNoStart ==
  \A r \in DOMAIN queue :
    queue[r].status = "waiting" => queue[r].tStart = NoTime

-----------------------------------------------------------------------------

(***************************************************************************)
(* finishCar "records a finish for row, which must currently be on_course  *)
(* with a start time set (RUNNING) and not already pending"                *)
(* (course_manager.go:144): so a timing enters the table only for such a   *)
(* row.                                                                    *)
(***************************************************************************)
FinishOnlyRunning ==
  [][ \A g \in logs' \ logs :
        g.row # NoRow =>
          /\ queue[g.row].status = "on_course"
          /\ queue[g.row].tStart # NoTime
          /\ ~IsPending(g.row) ]_vars

(***************************************************************************)
(* SetStartIfUnset: "whichever of them (manual tap or sensor pulse)        *)
(* reaches the row first wins and the other cleanly loses the race"        *)
(* (store/queue.go:248): only an undo takes a start off a car on course,   *)
(* and nothing replaces it.                                                *)
(***************************************************************************)
FirstStartWins ==
  [][ \A r \in DOMAIN queue :
        /\ queue[r].status = "on_course" /\ queue[r].tStart # NoTime
        /\ queue'[r].tStart # queue[r].tStart
        => \E a \in Actors : At(a, "clear_start") ]_vars

(***************************************************************************)
(* "SensorStart pairs a start-sensor trigger with the oldest on_course car *)
(* that has not yet been stamped", SensorGoal one "with the oldest RUNNING *)
(* car" (web/sensor.go:55, 113), and so do the operator's start and finish *)
(* of no car in particular: the scan of the list, car by car, comes to the *)
(* one that is the oldest when it is written.                              *)
(***************************************************************************)
OldestGoesFirst ==
  [][ \A a \in Actors, r \in DOMAIN queue :
        queue[r].ev = call[a].ev /\ queue[r].status = "on_course" =>
          /\ At(a, "try_start") /\ queue[r].tStart = NoTime =>
               \A s \in DOMAIN queue :
                 queue'[s].tStart # queue[s].tStart => s <= r
          /\ /\ At(a, "insert_log") /\ logs' # logs
             /\ queue[r].tStart # NoTime /\ ~IsPending(r)
             => call[a].car.id <= r ]_vars

(***************************************************************************)
(* An undone start goes back "at the very front" of the waiting list       *)
(* (course_manager.go:350), although the place is worked out in one        *)
(* statement and taken in the next, which may renumber the list.           *)
(***************************************************************************)
UndoneIsNext ==
  [][ \A a \in Actors :
        At(a, "reorder") /\ call[a].car.status = "on_course" /\ queue' # queue =>
          LET r == call[a].car.id
          IN  IsHead(queue'[r], ListQueue(queue', queue[r].ev, "waiting")) ]_vars

(***************************************************************************)
(* cancel "aborts an on_course run with no timing log produced"            *)
(* (course_manager.go:330).                                                *)
(***************************************************************************)
CanceledHasNoTiming ==
  \A r \in DOMAIN queue : queue[r].status = "canceled" => ~HasTiming(r)

(***************************************************************************)
(* An event cannot be closed while a car is on the course (README.md:66):  *)
(* a closed event has none.                                                *)
(***************************************************************************)
ClosedCourseIsEmpty ==
  \A e \in Events :
    event[e].status = "closed" => Listed(e, "on_course") = {}
=============================================================================
