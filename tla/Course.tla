------------------------------- MODULE Course -------------------------------
(***************************************************************************)
(* The course: every operation that moves a queue row between waiting,     *)
(* on_course, done and canceled, together with the courseManager's         *)
(* in-memory state (internal/web/course_manager.go): the finishes inside   *)
(* their confirmation grace window and the FIFO of orphan start triggers.  *)
(*                                                                         *)
(* The HTTP handlers, the sensor dispatcher and the grace timers run in    *)
(* goroutines of their own.  What is atomic is one SQL statement or        *)
(* transaction (the store's writeMu), or one critical section of           *)
(* courseManager.mu; each is one action here, and between two of them any  *)
(* other goroutine may run.  A handler in flight is a record call[a]: its  *)
(* program counter and the local variables it carries from step to step,   *)
(* in particular the row it read earlier (car), which may be stale.        *)
(*                                                                         *)
(* Left out: authentication, JSON, audit rows, SSE publishing, and the     *)
(* admin's list of orphan warnings, none of which these steps read.        *)
(***************************************************************************)
EXTENDS QueueTable

CONSTANTS
  Requests,       \* HTTP handlers that can be in flight at once
  Dispatcher,     \* the goroutine that handles sensor triggers, one by one
  NoEntry,        \* no entry
  Modes,          \* timing modes in use, of "sensor" and "manual"
  Kinds,          \* the kinds of request that arrive
  ReorderTo,      \* positions an operator drags a row to
  MaxCourseTime,  \* max_course_time_sec
  InitialTables,  \* queue tables the server may start from
  Serial,         \* requests, triggers and timers do not overlap
  Faults,         \* store writes may fail
  MaxRequests, MaxTriggers, MaxCrashes   \* bounds on what arrives

VARIABLES
  event,       \* the events table: status and timing_mode
  queue,       \* the queue table
  logs,        \* the logs table
  logSeq,      \* the last log id given out
  pending,     \* courseManager.pending
  timers,      \* grace timers that are armed
  confirming,  \* confirm() calls that took their entry and have yet to write
  orphanRuns,  \* courseManager.orphanRuns, oldest first
  orphanSeq,   \* courseManager.orphanSeq
  call,        \* the handlers in flight
  spent        \* how much of the bounds is used up

store  == <<event, queue, logs, logSeq>>
memory == <<pending, timers, confirming, orphanRuns, orphanSeq>>
vars   == <<event, queue, logs, logSeq, pending, timers, confirming,
            orphanRuns, orphanSeq, call, spent>>

Actors == Requests \cup {Dispatcher}

EventRow  == [ status : {"unused", "active", "closed"}, mode : Modes ]
(* The logs table names the driver and the vehicle; row is the queue row   *)
(* whose finish that was, which the program remembers only in pending.     *)
LogRow    == [ id : Nat, row : Nat, raw : Nat, pt : Nat, mc : BOOLEAN ]
Finish    == [ row : Nat, log : Nat ]
OrphanRun == [ id : Nat, tStart : Times \cup {NoTime} ]

NoRow  == 0     \* the row of a log that is assigned to nobody
NoRun  == [ id |-> 0, tStart |-> NoTime ]
NoCar  == [ id |-> NoRow ]
NoCall == [ pc |-> "idle", ev |-> 0, entry |-> NoEntry, car |-> NoCar,
            todo |-> {}, t |-> NoTime, n |-> 0, log |-> 0, run |-> NoRun ]

(* The store writes a handler can stand before.                            *)
WriteSteps ==
  { "claim", "stamp", "try_start", "insert_log", "undo_delete", "cancel",
    "clear_start", "undo_pt", "undo_mc", "requeue", "reorder",
    "pt", "mc", "enqueue", "close_waiting", "close_event", "put_settings" }

Steps ==
  WriteSteps \cup
  { "idle", "my_course", "list_head", "my_head", "list_course", "scan",
    "finish", "register", "undo_stop", "check_cancel", "check_undo", "undo_mode",
    "undo_front", "list_mine", "list_ready", "push_orphan", "pop_orphan",
    "log_orphan", "adopt_take", "adopt_claim", "adopt_stamp",
    "adopt_rollback", "restore", "my_waiting", "my_away",
    "my_cancel" }

Call ==
  [ pc : Steps, ev : Nat, entry : Entries \cup {NoEntry},
    car : QueueRow \cup {NoCar}, todo : SUBSET QueueRow,
    t : Times \cup {NoTime}, n : Int, log : Nat, run : OrphanRun ]

TypeOK ==
  /\ event \in [Events -> EventRow]
  /\ queue \in Seq(QueueRow)
  /\ logs \subseteq LogRow
  /\ logSeq \in Nat
  /\ pending \subseteq Finish
  /\ timers \subseteq Finish
  /\ confirming \subseteq Finish
  /\ orphanRuns \in Seq(OrphanRun)
  /\ orphanSeq \in Nat
  /\ call \in [Actors -> Call]
  /\ spent \in [ requests : Nat, triggers : Nat, crashes : Nat ]

ASSUME CourseConstants ==
  /\ Dispatcher \notin Requests
  /\ Modes \subseteq {"sensor", "manual"}
  /\ ReorderTo \subseteq Int
  /\ MaxCourseTime \in Nat
  /\ {MaxRequests, MaxTriggers, MaxCrashes} \subseteq Nat
  /\ {Serial, Faults} \subseteq BOOLEAN
  /\ Events # {}

(* A database with no finished run in it: every row is waiting or on       *)
(* course, and a waiting row has no start.                                 *)
ASSUME InitialTablesAreFresh ==
  /\ InitialTables \subseteq Seq(QueueRow)
  /\ \A q \in InitialTables : \A r \in DOMAIN q :
       /\ q[r].id = r
       /\ q[r].status \in {"waiting", "on_course"}
       /\ q[r].status = "waiting" => q[r].tStart = NoTime

-----------------------------------------------------------------------------
(* Reading the state                                                       *)

IsActive(e) == e \in Events /\ event[e].status = "active"

Listed(e, status) == ListQueue(queue, e, status)

(* The participant of call[a] has a row in this status, with any vehicle.  *)
IsListed(a, status) ==
  \E row \in Listed(call[a].ev, status) :
    Driver(row) = DriverOf[call[a].entry]

IsPending(r) == \E p \in pending : p.row = r

Timing(l) == { g \in logs : g.id = l }

At(a, pc) == call[a].pc = pc

Quiet == /\ \A a \in Actors : At(a, "idle")
         /\ confirming = {}

-----------------------------------------------------------------------------
(* How a handler moves on                                                  *)

Return(a) == call' = [call EXCEPT ![a] = NoCall]

Goto(a, pc) == call' = [call EXCEPT ![a].pc = pc]

(* A request of this kind arrives on an idle slot.                         *)
Admit(a, kind) ==
  /\ a \in Requests /\ At(a, "idle")
  /\ kind \in Kinds
  /\ spent.requests < MaxRequests
  /\ Serial => Quiet
  /\ spent' = [spent EXCEPT !.requests = @ + 1]

(* It runs through its first read, after which it is the call given.       *)
Arrive(a, kind, begun) ==
  /\ Admit(a, kind)
  /\ call' = [call EXCEPT ![a] = begun]
  /\ UNCHANGED <<store, memory>>

(* A handler that only reads the store or works out its next step.         *)
OnlyCall == UNCHANGED <<store, memory, spent>>

(* A handler whose step is one write to the queue table.                   *)
OnlyQueue == UNCHANGED <<event, logs, logSeq, memory, spent>>

-----------------------------------------------------------------------------
(* Launching: POST /api/admin/course, and a participant's own launch       *)

(* SetStart's argument is settled by the timing mode read here: NULL in    *)
(* sensor mode, the client's instant in manual mode.                       *)
BeginLaunch(a) ==
  \E e \in Events, t \in Times :
    /\ IsActive(e)
    /\ Arrive(a, "launch",
         [NoCall EXCEPT !.pc = "list_head", !.ev = e,
                        !.t = IF event[e].mode = "sensor" THEN NoTime ELSE t])

(* The head of the waiting list, for a launch or for adopting an orphan.   *)
ListHead(a) ==
  /\ At(a, "list_head")
  /\ LET waiting == Listed(call[a].ev, "waiting")
     IN  \/ waiting = {} /\ Return(a)
         \/ \E row \in waiting :
              /\ IsHead(row, waiting)
              /\ call' = [call EXCEPT
                   ![a].car = row,
                   ![a].pc = IF call[a].run = NoRun THEN "claim"
                                                    ELSE "adopt_take"]
  /\ OnlyCall

BeginMyLaunch(a) ==
  \E e \in Events, entry \in Entries :
    /\ IsActive(e) /\ event[e].mode = "sensor"
    /\ Arrive(a, "my_launch",
         [NoCall EXCEPT !.pc = "my_course", !.ev = e, !.entry = entry])

MyNotOnCourse(a) ==
  /\ At(a, "my_course")
  /\ IF IsListed(a, "on_course") THEN Return(a) ELSE Goto(a, "my_head")
  /\ OnlyCall

MyTurn(a) ==
  /\ At(a, "my_head")
  /\ LET mine == { row \in Listed(call[a].ev, "waiting") :
                     /\ IsHead(row, Listed(call[a].ev, "waiting"))
                     /\ Driver(row) = DriverOf[call[a].entry] }
     IN  \/ mine = {} /\ Return(a)
         \/ \E row \in mine :
              call' = [call EXCEPT ![a].car = row, ![a].pc = "claim"]
  /\ OnlyCall

(* ClaimQueueRow(id, "waiting", "on_course"): lost races answer 409.       *)
Claim(a) ==
  /\ At(a, "claim")
  /\ LET r == call[a].car.id
     IN  IF queue[r].status = "waiting"
         THEN /\ queue' = SetQueueStatus(queue, r, "on_course")
              /\ Goto(a, "stamp")
         ELSE queue' = queue /\ Return(a)
  /\ OnlyQueue

LaunchStamp(a) ==
  /\ At(a, "stamp")
  /\ queue' = SetStart(queue, call[a].car.id, call[a].t)
  /\ Return(a)
  /\ OnlyQueue

-----------------------------------------------------------------------------
(* Starting: the start sensor, and an operator's manual start              *)

TriggerArrives(begun) ==
  /\ At(Dispatcher, "idle")
  /\ spent.triggers < MaxTriggers
  /\ Serial => Quiet
  /\ spent' = [spent EXCEPT !.triggers = @ + 1]
  /\ call' = [call EXCEPT ![Dispatcher] = begun]
  /\ UNCHANGED <<store, memory>>

BeginSensorStart ==
  \E e \in Events, t \in Times :
    /\ IsActive(e)
    /\ TriggerArrives([NoCall EXCEPT !.pc = "list_ready", !.ev = e, !.t = t])

BeginStartOldest(a) ==
  \E e \in Events, t \in Times :
    /\ IsActive(e)
    /\ Arrive(a, "start",
         [NoCall EXCEPT !.pc = "list_ready", !.ev = e, !.t = t])

(* The sensor tries every READY car, oldest first; an operator's manual    *)
(* start tries the oldest one only.                                        *)
ListReady(a) ==
  /\ At(a, "list_ready")
  /\ LET ready == { row \in Listed(call[a].ev, "on_course") :
                      row.tStart = NoTime }
     IN  call' = [call EXCEPT
           ![a].pc = "try_start",
           ![a].todo = IF a = Dispatcher
                       THEN ready
                       ELSE { row \in ready : IsOldest(row, ready) }]
  /\ OnlyCall

(* SetStartIfUnset on the next candidate.                                  *)
TryStart(a) ==
  /\ At(a, "try_start")
  /\ \E row \in call[a].todo :
       /\ IsOldest(row, call[a].todo)
       /\ IF StartIsUnset(queue, row.id)
          THEN /\ queue' = SetStart(queue, row.id, call[a].t)
               /\ Return(a)
          ELSE /\ queue' = queue
               /\ call' = [call EXCEPT ![a].todo = @ \ {row}]
  /\ OnlyQueue

NoReadyCar(a) ==
  /\ At(a, "try_start") /\ call[a].todo = {}
  /\ IF a = Dispatcher THEN Goto(a, "push_orphan") ELSE Return(a)
  /\ OnlyCall

(* The runs at these indices, in the order they have in runs.              *)
Kept(runs, indices) ==
  [ n \in 1 .. Cardinality(indices) |->
      runs[CHOOSE i \in indices :
             n = Cardinality({ j \in indices : j <= i })] ]

(* pruneOrphanRunsLocked: what is kept at instant t.                       *)
Unexpired(runs, t) ==
  Kept(runs, { i \in DOMAIN runs : t - runs[i].tStart <= MaxCourseTime })

(* No READY car: the start trigger becomes an orphan run.                  *)
PushOrphan ==
  LET t == call[Dispatcher].t
  IN  /\ At(Dispatcher, "push_orphan")
      /\ orphanSeq' = orphanSeq + 1
      /\ orphanRuns' = Append(Unexpired(orphanRuns, t),
                              [id |-> orphanSeq + 1, tStart |-> t])
      /\ Return(Dispatcher)
      /\ UNCHANGED <<store, pending, timers, confirming, spent>>

-----------------------------------------------------------------------------
(* Finishing: the goal sensor, and an operator's finish                    *)

BeginSensorGoal ==
  \E e \in Events, t \in Times :
    /\ IsActive(e)
    /\ TriggerArrives([NoCall EXCEPT !.pc = "list_course", !.ev = e, !.t = t])

BeginFinishOldest(a) ==
  \E e \in Events, t \in Times :
    /\ IsActive(e)
    /\ Arrive(a, "finish",
         [NoCall EXCEPT !.pc = "list_course", !.ev = e, !.t = t])

BeginFinishByID(a) ==
  \E r \in DOMAIN queue, t \in Times :
    Arrive(a, "finish_by_id",
      [NoCall EXCEPT !.pc = "finish", !.car = queue[r], !.t = t])

ListCourse(a) ==
  /\ At(a, "list_course")
  /\ call' = [call EXCEPT ![a].pc = "scan",
                          ![a].todo = Listed(call[a].ev, "on_course")]
  /\ OnlyCall

(* The scan for the oldest RUNNING car: the start is the one read with the *)
(* list, the pending finishes are looked up car by car.                    *)
ScanNext(a) ==
  /\ At(a, "scan")
  /\ \E row \in call[a].todo :
       /\ IsOldest(row, call[a].todo)
       /\ IF row.tStart = NoTime \/ IsPending(row.id)
          THEN call' = [call EXCEPT ![a].todo = @ \ {row}]
          ELSE call' = [call EXCEPT ![a].todo = {}, ![a].car = row,
                                    ![a].pc = "finish"]
  /\ OnlyCall

NoRunningCar(a) ==
  /\ At(a, "scan") /\ call[a].todo = {}
  /\ IF a = Dispatcher THEN Goto(a, "pop_orphan") ELSE Return(a)
  /\ OnlyCall

(* A plausible slip: no look at the pending finishes.                      *)
CheckFinishOfRow(a) ==
  LET car == call[a].car
  IN  /\ At(a, "finish")
      /\ IF /\ car.status = "on_course"
            /\ car.tStart # NoTime
            /\ call[a].t >= car.tStart
         THEN Goto(a, "insert_log")
         ELSE Return(a)
      /\ OnlyCall

(* A plausible slip: a goal before the start is let through.               *)
CheckFinishAnyTime(a) ==
  LET car == call[a].car
  IN  /\ At(a, "finish")
      /\ IF /\ car.status = "on_course"
            /\ car.tStart # NoTime
            /\ ~IsPending(car.id)
         THEN Goto(a, "insert_log")
         ELSE Return(a)
      /\ OnlyCall

(* finishCar's checks, against the row as it was read.                     *)
CheckFinish(a) ==
  LET car == call[a].car
  IN  /\ At(a, "finish")
      /\ IF /\ car.status = "on_course"
            /\ car.tStart # NoTime
            /\ ~IsPending(car.id)
            /\ call[a].t >= car.tStart
         THEN Goto(a, "insert_log")
         ELSE Return(a)
      /\ OnlyCall

(* The log takes its penalties from the row as it was read, too.           *)
InsertLog(a) ==
  LET car == call[a].car
  IN  /\ At(a, "insert_log")
      /\ logSeq' = logSeq + 1
      /\ logs' = logs \cup
           {[ id |-> logSeq + 1, row |-> car.id,
              raw |-> call[a].t - car.tStart, pt |-> car.pt, mc |-> car.mc ]}
      /\ call' = [call EXCEPT ![a].pc = "register", ![a].log = logSeq + 1]
      /\ UNCHANGED <<event, queue, memory, spent>>

(* A plausible slip: the id of the latest log, not of the log inserted.    *)
RegisterLatest(a) ==
  LET finish == [row |-> call[a].car.id, log |-> logSeq]
  IN  /\ At(a, "register")
      /\ pending' = { p \in pending : p.row # finish.row } \cup {finish}
      /\ timers' = timers \cup {finish}
      /\ Return(a)
      /\ UNCHANGED <<store, confirming, orphanRuns, orphanSeq, spent>>

(* A plausible slip: one timer for the course, not one for each entry.     *)
RegisterOneTimer(a) ==
  LET finish == [row |-> call[a].car.id, log |-> call[a].log]
  IN  /\ At(a, "register")
      /\ pending' = { p \in pending : p.row # finish.row } \cup {finish}
      /\ timers' = IF timers = {} THEN {finish} ELSE timers
      /\ Return(a)
      /\ UNCHANGED <<store, confirming, orphanRuns, orphanSeq, spent>>

(* The critical section of finishCar: the pending entry (replacing any     *)
(* that is there) and its timer.                                           *)
Register(a) ==
  LET finish == [row |-> call[a].car.id, log |-> call[a].log]
  IN  /\ At(a, "register")
      /\ pending' = { p \in pending : p.row # finish.row } \cup {finish}
      /\ timers' = timers \cup {finish}
      /\ Return(a)
      /\ UNCHANGED <<store, confirming, orphanRuns, orphanSeq, spent>>

(* A plausible slip: confirm reads the entry but leaves it in the map.     *)
TimerLeavesEntry(timer) ==
  LET taken == { p \in pending : p.row = timer.row }
  IN  /\ Serial => Quiet
      /\ timers' = timers \ {timer}
      /\ confirming' = confirming \cup taken
      /\ UNCHANGED <<store, pending, orphanRuns, orphanSeq, call, spent>>

(* A grace timer fires: confirm's critical section takes whatever entry    *)
(* the row has by now, or finds none and is a no-op.                       *)
TimerFires(timer) ==
  LET taken == { p \in pending : p.row = timer.row }
  IN  /\ Serial => Quiet
      /\ timers' = timers \ {timer}
      /\ pending' = pending \ taken
      /\ confirming' = confirming \cup taken
      /\ UNCHANGED <<store, orphanRuns, orphanSeq, call, spent>>

Confirm(finish) ==
  /\ queue' = SetQueueStatus(queue, finish.row, "done")
  /\ confirming' = confirming \ {finish}
  /\ UNCHANGED <<event, logs, logSeq, pending, timers, orphanRuns, orphanSeq,
                 call, spent>>

-----------------------------------------------------------------------------
(* A goal trigger with no RUNNING car: pairing with the oldest orphan run  *)

PopOrphan ==
  LET kept == Unexpired(orphanRuns, call[Dispatcher].t)
  IN  /\ At(Dispatcher, "pop_orphan")
      /\ orphanRuns' = IF kept = <<>> THEN <<>> ELSE Tail(kept)
      /\ IF kept = <<>> \/ call[Dispatcher].t < kept[1].tStart
         THEN Return(Dispatcher)
         ELSE call' = [call EXCEPT ![Dispatcher].pc = "log_orphan",
                                   ![Dispatcher].run = kept[1]]
      /\ UNCHANGED <<store, pending, timers, confirming, orphanSeq, spent>>

LogOrphan ==
  LET run == call[Dispatcher].run
  IN  /\ At(Dispatcher, "log_orphan")
      /\ logSeq' = logSeq + 1
      /\ logs' = logs \cup
           {[ id |-> logSeq + 1, row |-> NoRow,
              raw |-> call[Dispatcher].t - run.tStart,
              pt |-> 0, mc |-> FALSE ]}
      /\ Return(Dispatcher)
      /\ UNCHANGED <<event, queue, memory, spent>>

(* A plausible slip: back to the end of the queue.                         *)
ReinsertLast(runs, run) == Append(runs, run)

(* restoreOrphanRun: before the first run with a larger id.                *)
Reinsert(runs, run) ==
  LET n == CHOOSE i \in 0 .. Len(runs) :
             /\ \A j \in 1 .. i : runs[j].id < run.id
             /\ i < Len(runs) => runs[i + 1].id >= run.id
  IN  SubSeq(runs, 1, n) \o <<run>> \o SubSeq(runs, n + 1, Len(runs))

RestoreOrphan(a) ==
  /\ At(a, "restore")
  /\ orphanRuns' = Reinsert(orphanRuns, call[a].run)
  /\ Return(a)
  /\ UNCHANGED <<store, pending, timers, confirming, orphanSeq, spent>>

-----------------------------------------------------------------------------
(* Adopting or dismissing an orphan run                                    *)

(* run carries the id the operator asked for until takeOrphanRun fills it. *)
BeginAdopt(a) ==
  \E e \in Events, id \in 1 .. orphanSeq :
    /\ IsActive(e)
    /\ Arrive(a, "adopt", [NoCall EXCEPT !.pc = "list_head", !.ev = e,
                                         !.run = [NoRun EXCEPT !.id = id]])

Without(runs, id) == Kept(runs, { i \in DOMAIN runs : runs[i].id # id })

AdoptTake(a) ==
  LET taken == { i \in DOMAIN orphanRuns :
                   orphanRuns[i].id = call[a].run.id }
  IN  /\ At(a, "adopt_take")
      /\ orphanRuns' = Without(orphanRuns, call[a].run.id)
      /\ \/ taken = {} /\ Return(a)
         \/ \E i \in taken :
              call' = [call EXCEPT ![a].pc = "adopt_claim",
                                   ![a].run = orphanRuns[i]]
      /\ UNCHANGED <<store, pending, timers, confirming, orphanSeq, spent>>

AdoptClaim(a) ==
  /\ At(a, "adopt_claim")
  /\ LET r == call[a].car.id
     IN  IF queue[r].status = "waiting"
         THEN /\ queue' = SetQueueStatus(queue, r, "on_course")
              /\ Goto(a, "adopt_stamp")
         ELSE queue' = queue /\ Goto(a, "restore")
  /\ OnlyQueue

AdoptStamp(a) ==
  /\ At(a, "adopt_stamp")
  /\ queue' = SetStart(queue, call[a].car.id, call[a].run.tStart)
  /\ Return(a)
  /\ OnlyQueue

(* The stamp failed: ClaimQueueRow(id, "on_course", "waiting").            *)
AdoptRollback(a) ==
  /\ At(a, "adopt_rollback")
  /\ LET r == call[a].car.id
     IN  queue' = IF queue[r].status = "on_course"
                  THEN SetQueueStatus(queue, r, "waiting")
                  ELSE queue
  /\ Goto(a, "restore")
  /\ OnlyQueue

DismissOrphan(a) ==
  \E i \in DOMAIN orphanRuns :
    /\ Admit(a, "dismiss")
    /\ orphanRuns' = Without(orphanRuns, orphanRuns[i].id)
    /\ UNCHANGED <<store, pending, timers, confirming, orphanSeq, call>>

-----------------------------------------------------------------------------
(* Undoing a goal, undoing a start, and giving a run up                    *)

(* A plausible slip: the entry is looked up but stays in the map.          *)
UndoGoalLeavesEntry(a) ==
  \E p \in pending :
    Arrive(a, "undo_goal", [NoCall EXCEPT !.pc = "undo_stop", !.log = p.log])

(* The critical section of undoGoal takes the entry.                       *)
BeginUndoGoal(a) ==
  \E p \in pending :
    /\ Admit(a, "undo_goal")
    /\ pending' = pending \ {p}
    /\ call' = [call EXCEPT ![a] = [NoCall EXCEPT !.pc = "undo_stop",
                                                  !.log = p.log]]
    /\ UNCHANGED <<store, timers, confirming, orphanRuns, orphanSeq>>

(* A plausible slip: the timer looked up by its row, not by its entry.     *)
StopTimersOfRow(a) ==
  /\ At(a, "undo_stop")
  /\ timers' = { m \in timers : \A g \in Timing(call[a].log) : m.row # g.row }
  /\ Goto(a, "undo_delete")
  /\ UNCHANGED <<store, pending, confirming, orphanRuns, orphanSeq, spent>>

(* pf.timer.Stop(), outside the critical section.  It may come too late:   *)
(* the timer has expired and its confirm is at the lock.                   *)
UndoGoalStop(a) ==
  /\ At(a, "undo_stop")
  /\ \/ timers' = { m \in timers : m.log # call[a].log }
     \/ ~Serial /\ timers' = timers
  /\ Goto(a, "undo_delete")
  /\ UNCHANGED <<store, pending, confirming, orphanRuns, orphanSeq, spent>>

(* HardDeleteLog.                                                          *)
UndoGoalDelete(a) ==
  /\ At(a, "undo_delete")
  /\ logs' = logs \ Timing(call[a].log)
  /\ Return(a)
  /\ UNCHANGED <<event, queue, logSeq, memory, spent>>

BeginCancel(a) ==
  \E r \in DOMAIN queue :
    Arrive(a, "cancel",
      [NoCall EXCEPT !.pc = "check_cancel", !.car = queue[r]])

(* A plausible slip: a run in its grace window can be canceled.            *)
CheckCancelOfRow(a) ==
  /\ At(a, "check_cancel")
  /\ IF call[a].car.status = "on_course"
     THEN Goto(a, "cancel")
     ELSE Return(a)
  /\ OnlyCall

CheckCancel(a) ==
  /\ At(a, "check_cancel")
  /\ IF call[a].car.status = "on_course" /\ ~IsPending(call[a].car.id)
     THEN Goto(a, "cancel")
     ELSE Return(a)
  /\ OnlyCall

Cancel(a) ==
  /\ At(a, "cancel")
  /\ queue' = SetQueueStatus(queue, call[a].car.id, "canceled")
  /\ Return(a)
  /\ OnlyQueue

BeginUndoStart(a) ==
  \E r \in DOMAIN queue :
    Arrive(a, "undo_start",
      [NoCall EXCEPT !.pc = "check_undo", !.car = queue[r]])

BeginMyLaunchUndo(a) ==
  \E e \in Events, entry \in Entries :
    /\ IsActive(e)
    /\ Arrive(a, "my_launch_undo",
         [NoCall EXCEPT !.pc = "list_mine", !.ev = e, !.entry = entry])

(* The participant's oldest car on course, if it has not started.          *)
ListMine(a) ==
  /\ At(a, "list_mine")
  /\ LET mine == { row \in Listed(call[a].ev, "on_course") :
                     Driver(row) = DriverOf[call[a].entry] }
         armed == { row \in mine : IsOldest(row, mine)
                                   /\ row.tStart = NoTime }
     IN  \/ armed = {} /\ Return(a)
         \/ \E row \in armed :
              call' = [call EXCEPT ![a].car = row, ![a].pc = "check_undo"]
  /\ OnlyCall

CheckUndoStart(a) ==
  /\ At(a, "check_undo")
  /\ IF call[a].car.status = "on_course" /\ ~IsPending(call[a].car.id)
     THEN Goto(a, "clear_start")
     ELSE Return(a)
  /\ OnlyCall

(* A plausible slip: the stamp stays.                                      *)
ClearNothing(a) ==
  /\ At(a, "clear_start")
  /\ queue' = queue
  /\ Goto(a, "undo_pt")
  /\ OnlyQueue

ClearStart(a) ==
  /\ At(a, "clear_start")
  /\ queue' = SetStart(queue, call[a].car.id, NoTime)
  /\ Goto(a, "undo_pt")
  /\ OnlyQueue

(* SetPT(-row.PTCount) refuses to go below zero, which ends the undo.      *)
UndoPT(a) ==
  LET car == call[a].car
  IN  /\ At(a, "undo_pt")
      /\ IF queue[car.id].pt >= car.pt
         THEN /\ queue' = SetPT(queue, car.id, -car.pt)
              /\ Goto(a, "undo_mc")
         ELSE queue' = queue /\ Return(a)
      /\ OnlyQueue

UndoMC(a) ==
  LET car == call[a].car
  IN  /\ At(a, "undo_mc")
      /\ queue' = IF car.mc THEN SetMC(queue, car.id, FALSE) ELSE queue
      /\ Goto(a, "undo_mode")
      /\ OnlyQueue

(* A car that had started is re-armed in place in sensor mode; otherwise   *)
(* it goes back to the waiting list.                                       *)
UndoMode(a) ==
  LET car == call[a].car
  IN  /\ At(a, "undo_mode")
      /\ IF car.tStart # NoTime /\ event[car.ev].mode = "sensor"
         THEN Return(a)
         ELSE Goto(a, "requeue")
      /\ OnlyCall

Requeue(a) ==
  /\ At(a, "requeue")
  /\ queue' = SetQueueStatus(queue, call[a].car.id, "waiting")
  /\ Goto(a, "undo_front")
  /\ OnlyQueue

FindFront(a) ==
  /\ At(a, "undo_front")
  /\ call' = [call EXCEPT
       ![a].pc = "reorder",
       ![a].n = FrontPosition(Listed(call[a].car.ev, "waiting"))]
  /\ OnlyCall

ReorderRow(a) ==
  /\ At(a, "reorder")
  /\ queue' = Reorder(queue, call[a].car.id, call[a].n)
  /\ Return(a)
  /\ OnlyQueue

-----------------------------------------------------------------------------
(* Penalties: PUT /api/admin/course/{id}/pt and .../mc                     *)

BeginPT(a) ==
  \E r \in DOMAIN queue, delta \in {-1, 1} :
    /\ queue[r].status = "on_course"
    /\ Arrive(a, "pt", [NoCall EXCEPT !.pc = "pt", !.car = queue[r],
                                      !.n = delta])

AddPT(a) ==
  LET r == call[a].car.id
  IN  /\ At(a, "pt")
      /\ queue' = IF queue[r].pt + call[a].n < 0
                  THEN queue
                  ELSE SetPT(queue, r, call[a].n)
      /\ Return(a)
      /\ OnlyQueue

BeginMC(a) ==
  \E r \in DOMAIN queue :
    /\ queue[r].status = "on_course"
    /\ Arrive(a, "mc", [NoCall EXCEPT !.pc = "mc", !.car = queue[r]])

(* A toggle of the flag as it was read.                                    *)
ToggleMC(a) ==
  /\ At(a, "mc")
  /\ queue' = SetMC(queue, call[a].car.id, ~call[a].car.mc)
  /\ Return(a)
  /\ OnlyQueue

-----------------------------------------------------------------------------
(* The waiting list                                                        *)

BeginQueueAdd(a) ==
  \E e \in Events, entry \in Entries :
    /\ IsActive(e)
    /\ Arrive(a, "queue_add",
         [NoCall EXCEPT !.pc = "enqueue", !.ev = e, !.entry = entry])

BeginMyQueueAdd(a) ==
  \E e \in Events, entry \in Entries :
    /\ IsActive(e)
    /\ Arrive(a, "my_queue_add",
         [NoCall EXCEPT !.pc = "my_waiting", !.ev = e, !.entry = entry])

MyNotWaiting(a) ==
  /\ At(a, "my_waiting")
  /\ IF IsListed(a, "waiting") THEN Return(a) ELSE Goto(a, "my_away")
  /\ OnlyCall

MyNotRunning(a) ==
  /\ At(a, "my_away")
  /\ IF IsListed(a, "on_course") THEN Return(a) ELSE Goto(a, "enqueue")
  /\ OnlyCall

EnqueueRow(a) ==
  /\ At(a, "enqueue")
  /\ queue' = IF AlreadyWaiting(queue, call[a].ev, call[a].entry)
              THEN queue
              ELSE Enqueue(queue, call[a].ev, call[a].entry)
  /\ Return(a)
  /\ OnlyQueue

BeginQueueCancel(a) ==
  \E r \in DOMAIN queue :
    /\ queue[r].status = "waiting"
    /\ Arrive(a, "queue_cancel",
         [NoCall EXCEPT !.pc = "cancel", !.car = queue[r]])

BeginMyQueueCancel(a) ==
  \E e \in Events, entry \in Entries :
    /\ IsActive(e)
    /\ Arrive(a, "my_queue_cancel",
         [NoCall EXCEPT !.pc = "my_cancel", !.ev = e, !.entry = entry])

MyQueueCancel(a) ==
  /\ At(a, "my_cancel")
  /\ LET mine == { row \in Listed(call[a].ev, "waiting") :
                     Driver(row) = DriverOf[call[a].entry] }
     IN  \/ mine = {} /\ Return(a)
         \/ \E row \in mine :
              /\ IsHead(row, mine)
              /\ call' = [call EXCEPT ![a].car = row, ![a].pc = "cancel"]
  /\ OnlyCall

BeginReorder(a) ==
  \E r \in DOMAIN queue, pos \in ReorderTo :
    /\ queue[r].status = "waiting"
    /\ Arrive(a, "reorder", [NoCall EXCEPT !.pc = "reorder",
                                           !.car = queue[r], !.n = pos])

-----------------------------------------------------------------------------
(* Events: POST /api/admin/events, .../close, and the timing mode          *)

(* The unique index on active events refuses a second one.                 *)
CreateEvent(a) ==
  \E e \in Events, mode \in Modes :
    /\ \A f \in Events : event[f].status # "active"
    /\ event[e].status = "unused"
    /\ \A f \in Events : f < e => event[f].status # "unused"
    /\ Admit(a, "create")
    /\ event' = [event EXCEPT ![e] = [status |-> "active", mode |-> mode]]
    /\ UNCHANGED <<queue, logs, logSeq, memory, call>>

(* A plausible slip: an event is closed whatever is on its course.         *)
BeginAnyClose(a) ==
  \E e \in Events :
    /\ event[e].status # "unused"
    /\ Arrive(a, "close", [NoCall EXCEPT !.pc = "close_waiting", !.ev = e])

(* Closing needs an empty course, cancels the waiting rows, and only then  *)
(* closes; CloseEvent's WHERE clause refuses an event that is not active.  *)
BeginClose(a) ==
  \E e \in Events :
    /\ event[e].status # "unused"
    /\ Listed(e, "on_course") = {}
    /\ Arrive(a, "close", [NoCall EXCEPT !.pc = "close_waiting", !.ev = e])

CloseWaiting(a) ==
  /\ At(a, "close_waiting")
  /\ queue' = CancelWaiting(queue, call[a].ev)
  /\ Goto(a, "close_event")
  /\ OnlyQueue

CloseEvent(a) ==
  LET e == call[a].ev
  IN  /\ At(a, "close_event")
      /\ event' = IF event[e].status = "active"
                  THEN [event EXCEPT ![e].status = "closed"]
                  ELSE event
      /\ Return(a)
      /\ UNCHANGED <<queue, logs, logSeq, memory, spent>>

BeginSettings(a) ==
  \E e \in Events :
    /\ IsActive(e)
    /\ Arrive(a, "settings", [NoCall EXCEPT !.pc = "put_settings", !.ev = e])

(* UpdateEvent writes the timing mode of the request's body.               *)
PutSettings(a) ==
  \E mode \in Modes :
    /\ At(a, "put_settings")
    /\ event' = [event EXCEPT ![call[a].ev].mode = mode]
    /\ Return(a)
    /\ UNCHANGED <<queue, logs, logSeq, memory, spent>>

-----------------------------------------------------------------------------
(* Failures                                                                *)

(* A store write fails: the handler answers 500 where it stands, and what  *)
(* it wrote or took before stays as it is.  An undo skips the penalties it *)
(* has nothing to take back from.                                          *)
StoreError(a) ==
  /\ Faults
  /\ call[a].pc \in WriteSteps
  /\ At(a, "undo_pt") => call[a].car.pt # 0
  /\ At(a, "undo_mc") => call[a].car.mc
  /\ Return(a)
  /\ OnlyCall

(* The handlers that hold an orphan run put it back first.                 *)
OrphanStoreError(a) ==
  /\ Faults
  /\ \/ call[a].pc \in {"adopt_claim", "log_orphan"} /\ Goto(a, "restore")
     \/ At(a, "adopt_stamp") /\ Goto(a, "adopt_rollback")
     \/ At(a, "adopt_rollback") /\ Goto(a, "restore")
  /\ OnlyCall

(* confirm only logs that it could not write "done".                       *)
ConfirmError(finish) ==
  /\ Faults
  /\ confirming' = confirming \ {finish}
  /\ UNCHANGED <<store, pending, timers, orphanRuns, orphanSeq, call, spent>>

(* The process dies and starts again on the same database.                 *)
Restart ==
  /\ spent.crashes < MaxCrashes
  /\ spent' = [spent EXCEPT !.crashes = @ + 1]
  /\ pending' = {} /\ timers' = {} /\ confirming' = {}
  /\ orphanRuns' = <<>> /\ orphanSeq' = 0
  /\ call' = [a \in Actors |-> NoCall]
  /\ UNCHANGED store

-----------------------------------------------------------------------------
FirstEvent == CHOOSE e \in Events : \A f \in Events : e <= f

Init ==
  /\ \E mode \in Modes :
       event = [ e \in Events |->
                   [ status |-> IF e = FirstEvent THEN "active" ELSE "unused",
                     mode |-> mode ] ]
  /\ queue \in InitialTables
  /\ logs = {} /\ logSeq = 0
  /\ pending = {} /\ timers = {} /\ confirming = {}
  /\ orphanRuns = <<>> /\ orphanSeq = 0
  /\ call = [a \in Actors |-> NoCall]
  /\ spent = [requests |-> 0, triggers |-> 0, crashes |-> 0]

Arrivals(a) ==
  \/ BeginLaunch(a)       \/ BeginMyLaunch(a)     \/ BeginStartOldest(a)
  \/ BeginFinishOldest(a) \/ BeginFinishByID(a)   \/ BeginUndoGoal(a)
  \/ BeginCancel(a)       \/ BeginUndoStart(a)    \/ BeginMyLaunchUndo(a)
  \/ BeginPT(a)           \/ BeginMC(a)           \/ BeginQueueAdd(a)
  \/ BeginMyQueueAdd(a)   \/ BeginQueueCancel(a)  \/ BeginMyQueueCancel(a)
  \/ BeginReorder(a)      \/ BeginAdopt(a)        \/ DismissOrphan(a)
  \/ CreateEvent(a)       \/ BeginClose(a)        \/ BeginSettings(a)

Triggers == BeginSensorStart \/ BeginSensorGoal

LaunchSteps(a) ==
  ListHead(a) \/ MyNotOnCourse(a) \/ MyTurn(a) \/ Claim(a) \/ LaunchStamp(a)

StartSteps(a) == ListReady(a) \/ TryStart(a) \/ NoReadyCar(a)

FinishSteps(a) ==
  \/ ListCourse(a) \/ ScanNext(a) \/ NoRunningCar(a) \/ CheckFinish(a)
  \/ InsertLog(a)  \/ Register(a)

UndoSteps(a) ==
  \/ UndoGoalStop(a)   \/ UndoGoalDelete(a) \/ CheckCancel(a) \/ Cancel(a)
  \/ ListMine(a)       \/ CheckUndoStart(a) \/ ClearStart(a)  \/ UndoPT(a)
  \/ UndoMC(a)         \/ UndoMode(a)       \/ Requeue(a)     \/ FindFront(a)
  \/ ReorderRow(a)

QueueSteps(a) ==
  \/ AddPT(a) \/ ToggleMC(a) \/ MyNotWaiting(a) \/ MyNotRunning(a)
  \/ EnqueueRow(a) \/ MyQueueCancel(a)

EventSteps(a) == CloseWaiting(a) \/ CloseEvent(a) \/ PutSettings(a)

OrphanSteps(a) ==
  \/ AdoptTake(a) \/ AdoptClaim(a) \/ AdoptStamp(a) \/ AdoptRollback(a)
  \/ RestoreOrphan(a)

DispatcherSteps == PushOrphan \/ PopOrphan \/ LogOrphan

(* A handler that has arrived runs on to its end.                          *)
Proceed(a) ==
  \/ LaunchSteps(a) \/ StartSteps(a) \/ FinishSteps(a) \/ UndoSteps(a)
  \/ QueueSteps(a)  \/ EventSteps(a) \/ OrphanSteps(a)

Grace ==
  \/ \E timer \in timers : TimerFires(timer)
  \/ \E finish \in confirming : Confirm(finish) \/ ConfirmError(finish)

Next ==
  \/ \E a \in Actors :
       Arrivals(a) \/ Proceed(a) \/ StoreError(a) \/ OrphanStoreError(a)
  \/ Triggers
  \/ DispatcherSteps
  \/ Grace
  \/ Restart

Spec == Init /\ [][Next]_vars

(* Goroutines are scheduled and grace timers expire; nothing makes a       *)
(* request or a trigger arrive.                                            *)
FairSpec ==
  /\ Spec
  /\ \A a \in Actors : WF_vars(Proceed(a))
  /\ WF_vars(DispatcherSteps)
  /\ WF_vars(Grace)
=============================================================================
