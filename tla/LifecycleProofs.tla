--------------------------- MODULE LifecycleProofs ---------------------------
(***************************************************************************)
(* The course when requests, triggers and timers do not overlap (Serial),  *)
(* for any number of cars and requests.                                    *)
(*                                                                         *)
(* LifeInv is inductive given the types and FinishInv.  RunsInv is about   *)
(* the store: a timing that is unsettled is the only one of a row that is  *)
(* on course and has started.  HandInv is about what is in flight: there   *)
(* is one handler at most, and none while a finish is being confirmed; so  *)
(* what the handler has read is still so (Fresh), and between two of its   *)
(* statements the row it works on is where the first one left it.          *)
(* SightInv is about what a scan has yet to see: whoever may be started or *)
(* timed instead of the car in its hands.                                  *)
(***************************************************************************)
EXTENDS FinishProofs

Busy == { a \in Actors : ~At(a, "idle") }

(* The timings that can still be taken back.                               *)
Open      == { g \in logs : g.id \in Unsettled }
IsOpen(r) == \E g \in Open : g.row = r

IsReady(r)   == queue[r].status = "on_course" /\ queue[r].tStart = NoTime
IsRunning(r) == queue[r].status = "on_course" /\ queue[r].tStart # NoTime

(* The row is as it was read.                                              *)
Fresh(row) == row.id \in DOMAIN queue /\ queue[row.id] = row

(* What a handler can count on at each of its steps.                       *)
Knows(c) ==
  /\ c.pc = "scan" => \A row \in c.todo : Fresh(row) /\ row.status = "on_course"
  /\ c.pc \in {"finish", "check_cancel", "check_undo", "insert_log"} => Fresh(c.car)
  /\ c.pc \in {"insert_log", "register"} =>
       c.car.id \in DOMAIN queue /\ IsRunning(c.car.id) /\ ~IsPending(c.car.id)
  /\ c.pc \in {"cancel", "clear_start"} /\ c.car.id \in DOMAIN queue =>
       \/ c.pc = "cancel" /\ queue[c.car.id].status = "waiting"
       \/ queue[c.car.id].status = "on_course" /\ ~IsPending(c.car.id)
  /\ c.pc \in {"stamp", "adopt_stamp", "adopt_rollback", "undo_pt", "undo_mc",
               "undo_mode", "requeue"} /\ c.car.id \in DOMAIN queue =>
       IsReady(c.car.id)
  /\ c.pc \in EntrySteps => event[c.ev].status # "closed"
  /\ c.pc \in {"close_waiting", "close_event"} => Listed(c.ev, "on_course") = {}
  /\ c.pc = "close_event" => Listed(c.ev, "waiting") = {}

HandInv ==
  /\ \A a, b \in Busy : a = b
  /\ Busy # {} => confirming = {}
  /\ \A a \in Actors : Knows(call[a])

RowsNumbered  == \A r \in DOMAIN queue : queue[r].id = r
OpenIsRunning == \A g \in Open : g.row \in DOMAIN queue /\ IsRunning(g.row)
OpenOnce      == \A g, h \in Open : g.row = h.row => g = h
ClosedIsOver  == \A r \in DOMAIN queue :
                   queue[r].status \in {"waiting", "on_course"} =>
                     event[queue[r].ev].status # "closed"

RunsInv == /\ RowsNumbered /\ OpenIsRunning /\ OpenOnce
           /\ WaitingHasNoStart /\ ClosedIsOver /\ IsFiniteSet(logs)

LifeInv == HandInv /\ RunsInv

-----------------------------------------------------------------------------
(* What the statements do to the columns of the queue table.               *)

SameRow(r, s) == /\ s.id = r.id /\ s.ev = r.ev
                 /\ s.status = r.status /\ s.tStart = r.tStart

SameRuns(q, p) == /\ DOMAIN p = DOMAIN q
                  /\ \A i \in DOMAIN q : SameRow(q[i], p[i])

(* Row r, if there is one, gets this status and this start.                *)
OneRun(q, p, r, status, t) ==
  /\ DOMAIN p = DOMAIN q
  /\ \A i \in DOMAIN q : i # r => SameRow(q[i], p[i])
  /\ r \in DOMAIN q => /\ p[r].id = q[r].id /\ p[r].ev = q[r].ev
                       /\ p[r].status = status /\ p[r].tStart = t

LEMMA StatementColumns ==
  ASSUME NEW q \in Seq(QueueRow), NEW r
  PROVE  /\ \A status : OneRun(q, SetQueueStatus(q, r, status), r, status, q[r].tStart)
         /\ \A t : OneRun(q, SetStart(q, r, t), r, q[r].status, t)
         /\ \A delta : SameRuns(q, SetPT(q, r, delta))
         /\ \A on : SameRuns(q, SetMC(q, r, on))
         /\ SameRuns(q, q)
<1>. q \in [1 .. Len(q) -> QueueRow] /\ DOMAIN q = 1 .. Len(q)
  BY LenProperties
<1>. QED BY DEF OneRun, SameRuns, SameRow, SetQueueStatus, SetStart, SetPT, SetMC,
                QueueRow

LEMMA ReorderColumns ==
  ASSUME NEW q \in Seq(QueueRow), NEW r, NEW pos
  PROVE  SameRuns(q, Reorder(q, r, pos))
<1>. DEFINE moved == [q EXCEPT ![r].pos = pos]
            waiting == ListQueue(moved, q[r].ev, "waiting")
            f == [ i \in DOMAIN q |->
                     IF moved[i] \in waiting
                     THEN [moved[i] EXCEPT !.pos = Rank(moved[i], waiting)]
                     ELSE moved[i] ]
<1>1. q \in [1 .. Len(q) -> QueueRow] /\ DOMAIN q = 1 .. Len(q)
  BY LenProperties
<1>2. \A i \in DOMAIN q : SameRow(q[i], moved[i]) /\ DOMAIN moved[i] = DOMAIN q[i]
  BY <1>1 DEF SameRow, QueueRow
<1>3. DOMAIN moved = DOMAIN q /\ DOMAIN f = DOMAIN q
  OBVIOUS
<1>4. \A i \in DOMAIN q : SameRow(moved[i], f[i])
  <2>. HIDE DEF moved, waiting
  <2>1. \A i \in DOMAIN q : {"id", "ev", "status", "tStart"} \in SUBSET DOMAIN moved[i]
    BY <1>1, <1>2 DEF QueueRow
  <2>. QED BY <2>1 DEF SameRow
<1>5. Reorder(q, r, pos) = IF Crowded(waiting) THEN f ELSE moved
  BY DEF Reorder
<1>. HIDE DEF f, moved, waiting
<1>. QED BY <1>2, <1>3, <1>4, <1>5 DEF SameRuns, SameRow

LEMMA CancelWaitingColumns ==
  ASSUME NEW q \in Seq(QueueRow), NEW ev
  PROVE  /\ DOMAIN CancelWaiting(q, ev) = DOMAIN q
         /\ \A i \in DOMAIN q :
              LET row == CancelWaiting(q, ev)[i]
              IN  /\ row.id = q[i].id /\ row.ev = q[i].ev /\ row.tStart = q[i].tStart
                  /\ row.status = IF q[i].ev = ev /\ q[i].status = "waiting"
                                  THEN "canceled" ELSE q[i].status
<1>. q \in [1 .. Len(q) -> QueueRow] /\ DOMAIN q = 1 .. Len(q)
  BY LenProperties
<1>. QED BY DEF CancelWaiting, QueueRow

(* Row n is added, in event ev's waiting list.                             *)
Added(q, p, n, ev) ==
  /\ DOMAIN p = DOMAIN q \cup {n} /\ n \notin DOMAIN q
  /\ \A i \in DOMAIN q : p[i] = q[i]
  /\ p[n].id = n /\ p[n].ev = ev
  /\ p[n].status = "waiting" /\ p[n].tStart = NoTime

LEMMA EnqueueColumns ==
  ASSUME NEW q \in Seq(QueueRow), NEW ev, NEW entry
  PROVE  Added(q, Enqueue(q, ev, entry), Len(q) + 1, ev)
<1>. DEFINE new == [ id |-> Len(q) + 1, ev |-> ev, entry |-> entry,
                     pos |-> BackPosition(ListQueue(q, ev, "waiting")),
                     status |-> "waiting", tStart |-> NoTime,
                     pt |-> 0, mc |-> FALSE ]
<1>1. Enqueue(q, ev, entry) = Append(q, new) /\ new.status = "waiting"
      /\ new.id = Len(q) + 1 /\ new.ev = ev /\ new.tStart = NoTime
  BY DEF Enqueue
<1>. HIDE DEF new
<1>2. DOMAIN Append(q, new) = 1 .. Len(q) + 1 /\ DOMAIN q = 1 .. Len(q)
      /\ Len(q) \in Nat
  BY LenProperties
<1>3. /\ Append(q, new)[Len(q) + 1] = new
      /\ \A i \in 1 .. Len(q) : Append(q, new)[i] = q[i]
  OBVIOUS
<1>. QED BY <1>1, <1>2, <1>3 DEF Added

-----------------------------------------------------------------------------
(* The steps of the lifecycle.                                             *)

phases     == [ r \in RowIDs |-> Phase(r) ]
timingsOf  == [ r \in RowIDs |-> Cardinality({ g \in logs : g.row = r }) ]

RunStep == [Run!Next]_<<phases, timingsOf>>

(* The moves that put no timing on record and take none off it.            *)
Moves == { <<"absent", "waiting">>,   <<"waiting", "ready">>,
           <<"ready", "running">>,    <<"finished", "done">>,
           <<"running", "ready">>,    <<"ready", "waiting">>,
           <<"waiting", "canceled">>, <<"ready", "canceled">>,
           <<"running", "canceled">> }

LEMMA OneMove ==
  ASSUME NEW r,
         \A s \in RowIDs : s # r => Phase(s)' = Phase(s),
         r \in RowIDs => Phase(r)' = Phase(r) \/ <<Phase(r), Phase(r)'>> \in Moves,
         UNCHANGED logs
  PROVE  RunStep
<1>1. timingsOf' = timingsOf
  BY DEF timingsOf
<1>2. CASE r \notin RowIDs \/ Phase(r)' = Phase(r)
  <2>1. phases' = phases
    BY <1>2 DEF phases
  <2>. QED BY <1>1, <2>1 DEF RunStep
<1>3. CASE r \in RowIDs /\ <<Phase(r), Phase(r)'>> \in Moves
  <2>1. phases' = [phases EXCEPT ![r] = Phase(r)'] /\ phases[r] = Phase(r)
    BY <1>3 DEF phases
  <2>2. PICK from, to : /\ <<from, to>> \in Moves
                        /\ phases[r] = from /\ phases' = [phases EXCEPT ![r] = to]
    BY <1>3, <2>1
  <2>3. \/ Run!Enter(r) \/ Run!Launch(r) \/ Run!Start(r) \/ Run!Confirm(r)
        \/ Run!Requeue(r) \/ Run!Rearm(r) \/ Run!GiveUp(r)
    BY <2>2 DEF Moves, phases, Run!Enter, Run!Launch, Run!Start, Run!Confirm,
                Run!Requeue, Run!Rearm, Run!GiveUp, Run!Move
  <2>4. Run!Next
    BY <1>1, <1>3, <2>3 DEF Run!Next, timingsOf
  <2>. QED BY <2>4 DEF RunStep
<1>. QED BY <1>2, <1>3

LEMMA NoMove ==
  ASSUME \A r \in RowIDs : Phase(r)' = Phase(r), UNCHANGED logs
  PROVE  RunStep
BY DEF RunStep, phases, timingsOf

(* A phase by the columns of the row and its timing.                       *)
PhaseOf(r) ==
  IF r \notin DOMAIN queue THEN "absent"
  ELSE IF queue[r].status # "on_course" THEN queue[r].status
  ELSE IF IsOpen(r) THEN "finished"
  ELSE IF queue[r].tStart = NoTime THEN "ready" ELSE "running"

LEMMA PhaseByRow == \A r : Phase(r) = PhaseOf(r) /\ Phase(r)' = PhaseOf(r)'
BY DEF Phase, PhaseOf, IsOpen, Open

(* The rows whose columns and timings stay as they are stay in their phase.*)
LEMMA SamePhase ==
  ASSUME NEW r, r \in DOMAIN queue' <=> r \in DOMAIN queue,
         r \in DOMAIN queue => SameRow(queue[r], queue'[r]),
         IsOpen(r)' <=> IsOpen(r)
  PROVE  Phase(r)' = Phase(r)
BY PhaseByRow DEF PhaseOf, SameRow

LEMMA RowMoves ==
  ASSUME NEW r, NEW status, NEW t, OneRun(queue, queue', r, status, t),
         UNCHANGED logs,
         \A s : s # r => (IsOpen(s)' <=> IsOpen(s)),
         r \in DOMAIN queue =>
           Phase(r)' = Phase(r) \/ <<Phase(r), Phase(r)'>> \in Moves
  PROVE  RunStep
<1>1. \A s \in RowIDs : s # r => Phase(s)' = Phase(s)
  BY SamePhase DEF OneRun
<1>2. CASE r \in DOMAIN queue
  BY <1>1, <1>2, OneMove
<1>3. CASE r \notin DOMAIN queue
  <2>1. Phase(r)' = Phase(r)
    BY <1>3, PhaseByRow DEF PhaseOf, OneRun
  <2>. QED BY <1>1, <2>1, OneMove
<1>. QED BY <1>2, <1>3

LEMMA RunsStay ==
  ASSUME SameRuns(queue, queue'), UNCHANGED logs, \A s : IsOpen(s)' <=> IsOpen(s)
  PROVE  RunStep
BY SamePhase, NoMove DEF SameRuns

-----------------------------------------------------------------------------
(* What a step owes: the invariant, and the two action properties.         *)

StartsKept ==
  \A r \in DOMAIN queue :
    /\ queue[r].status = "on_course" /\ queue[r].tStart # NoTime
    /\ queue'[r].tStart # queue[r].tStart
    => \E a \in Actors : At(a, "clear_start")

TimingsEarned ==
  \A g \in logs' \ logs :
    g.row # NoRow => /\ queue[g.row].status = "on_course"
                     /\ queue[g.row].tStart # NoTime
                     /\ ~IsPending(g.row)

Keeps == LifeInv' /\ StartsKept /\ TimingsEarned

(* Unless it fails, each row makes a step of the lifecycle, and its one    *)
(* timing stays open until the row is done.                                *)
SettledIsDone ==
  \A g \in logs :
    g.row # NoRow /\ g \notin Open =>
      g.row \in DOMAIN queue /\ queue[g.row].status = "done"

TimedOnce == \A g, h \in logs : g.row # NoRow /\ g.row = h.row => g = h

TimingsInv == SettledIsDone /\ TimedOnce

Follows == RunStep /\ (TimingsInv => TimingsInv')

NoneCloses ==
  \A e \in Events : event'[e].status = "closed" => event[e].status = "closed"

LEMMA Sole ==
  ASSUME LifeInv, NEW a \in Actors, ~At(a, "idle")
  PROVE  Busy \subseteq {a} /\ confirming = {}
BY DEF LifeInv, HandInv, Busy

LEMMA QuietIsIdle ==
  ASSUME Quiet
  PROVE  Busy = {} /\ confirming = {}
BY DEF Quiet, Busy

(* The step of the one handler there is.                                   *)
SoleStep(a) ==
  /\ Busy \subseteq {a} /\ confirming' = {}
  /\ call' = [call EXCEPT ![a] = call'[a]]

LEMMA HandsKept ==
  ASSUME TypeInv, NEW a \in Actors, SoleStep(a), Knows(call[a])'
  PROVE  HandInv'
<1>1. \A b \in Actors : b # a => call'[b] = call[b] /\ call[b].pc = "idle"
  BY DEF SoleStep, Busy, At, TypeInv, CallsOK
<1>2. Busy' \subseteq {a}
  BY <1>1 DEF Busy, At
<1>3. ASSUME NEW b \in Actors
      PROVE  Knows(call[b])'
  <2>1. CASE b = a
    BY <2>1
  <2>2. CASE b # a
    BY <1>1, <2>2 DEF Knows, EntrySteps
  <2>. QED BY <2>1, <2>2
<1>. QED BY <1>2, <1>3 DEF HandInv, SoleStep

(* Such a step that neither takes a timing nor lets go of one.             *)
Passes(a) ==
  /\ SoleStep(a) /\ confirming = {}
  /\ UNCHANGED <<pending, logs>>
  /\ call[a].pc \notin HoldSteps /\ call'[a].pc \notin HoldSteps

LEMMA PassesOpen ==
  ASSUME TypeInv, NEW a \in Actors, Passes(a)
  PROVE  Open' = Open /\ \A r : IsOpen(r)' <=> IsOpen(r)
<1>1. \A b \in Actors : b # a => call'[b] = call[b]
  BY DEF Passes, SoleStep, TypeInv, CallsOK
<1>2. Registering' = Registering /\ Undoing' = Undoing
      /\ a \notin Registering \cup Undoing
  BY <1>1 DEF Passes, Registering, Undoing, HoldSteps, At
<1>3. Unsettled' = Unsettled
  <2>1. \A b \in Registering \cup Undoing : call'[b] = call[b]
    BY <1>1, <1>2 DEF Registering, Undoing
  <2>. QED BY <1>2, <2>1 DEF Unsettled, Passes, SoleStep
<1>4. Open' = Open
  BY <1>3 DEF Open, Passes
<1>. QED BY <1>4 DEF IsOpen

(* A row that is not pending has no timing that can still be taken back.   *)
LEMMA NotOpen ==
  ASSUME TypeInv, FinishInv, NEW a \in Actors, Busy \subseteq {a},
         confirming = {}, call[a].pc \notin HoldSteps, NEW r, ~IsPending(r)
  PROVE  ~IsOpen(r)
<1>1. Registering = {} /\ Undoing = {}
  BY DEF Registering, Undoing, Busy, At, HoldSteps
<1>2. SUFFICES ASSUME NEW g \in logs, g.row = r, g.id \in Unsettled
               PROVE  FALSE
  BY DEF IsOpen, Open
<1>3. PICK p \in pending : p.log = g.id
  BY <1>1, <1>2 DEF Unsettled
<1>4. TimingOf(g.id, p.row) /\ TimingOf(g.id, r)
  BY <1>2, <1>3 DEF FinishInv, OnRecord, TimingOf
<1>5. p.row = r
  BY <1>4, HeldIsNumbered
<1>. QED BY <1>3, <1>5 DEF IsPending

LEMMA LooksKeep ==
  ASSUME TypeInv, RunsInv, HandInv', Open' = Open, SameRuns(queue, queue'),
         UNCHANGED logs, NoneCloses
  PROVE  Keeps /\ Follows
<1>1. \A r \in DOMAIN queue : queue[r].ev \in Events
  <2>1. queue \in [DOMAIN queue -> QueueRow]
    BY LenProperties DEF TypeInv, StoreOK
  <2>. QED BY <2>1 DEF QueueRow
<1>2. RowsNumbered' /\ WaitingHasNoStart' /\ IsFiniteSet(logs)'
  BY DEF RunsInv, SameRuns, SameRow, RowsNumbered, WaitingHasNoStart
<1>3. OpenIsRunning' /\ OpenOnce'
  BY DEF RunsInv, SameRuns, SameRow, OpenIsRunning, OpenOnce, IsRunning
<1>4. ClosedIsOver'
  BY <1>1 DEF RunsInv, SameRuns, SameRow, ClosedIsOver, NoneCloses
<1>5. StartsKept /\ TimingsEarned
  BY DEF StartsKept, TimingsEarned, SameRuns, SameRow
<1>6. RunStep
  BY RunsStay DEF IsOpen
<1>7. TimingsInv => TimingsInv'
  BY DEF TimingsInv, SettledIsDone, TimedOnce, SameRuns, SameRow
<1>. QED BY <1>2, <1>3, <1>4, <1>5, <1>6, <1>7 DEF Keeps, Follows, LifeInv, RunsInv

LEMMA PassingKeeps ==
  ASSUME TypeInv, LifeInv, NEW a \in Actors, Passes(a), Knows(call[a])',
         SameRuns(queue, queue'), NoneCloses
  PROVE  Keeps /\ Follows
BY HandsKept, PassesOpen, LooksKeep DEF Passes, LifeInv

(* A handler that has only looked.                                         *)
LEMMA ReadingKeeps ==
  ASSUME TypeInv, LifeInv, NEW a \in Actors, Passes(a),
         UNCHANGED <<event, queue>>, Knows(call'[a])
  PROVE  Keeps /\ Follows
<1>1. SameRuns(queue, queue') /\ NoneCloses
  BY DEF SameRuns, SameRow, NoneCloses
<1>2. Knows(call[a])'
  BY DEF Knows, Passes, Fresh, IsRunning, IsReady, IsPending, Listed
<1>. QED BY <1>1, <1>2, PassingKeeps

(* A phase by the columns alone, of a row that is not in its grace window. *)
Stage(status, t) ==
  IF status # "on_course" THEN status ELSE IF t = NoTime THEN "ready" ELSE "running"

LEMMA RewritingKeeps ==
  ASSUME TypeInv, LifeInv, NEW a \in Actors, Passes(a), Knows(call[a])',
         UNCHANGED event, NEW r, NEW status, NEW t,
         OneRun(queue, queue', r, status, t),
         r \in DOMAIN queue =>
           /\ ~IsOpen(r)
           /\ status = "waiting" => t = NoTime
           /\ status \in {"waiting", "on_course"} =>
                queue[r].status \in {"waiting", "on_course"}
           /\ IsRunning(r) => t = queue[r].tStart \/ At(a, "clear_start")
           /\ \/ Stage(status, t) = Stage(queue[r].status, queue[r].tStart)
              \/ <<Stage(queue[r].status, queue[r].tStart), Stage(status, t)>>
                   \in Moves
  PROVE  Keeps /\ Follows
<1>1. HandInv' /\ Open' = Open /\ \A s : IsOpen(s)' <=> IsOpen(s)
  BY HandsKept, PassesOpen DEF Passes
<1>2. RowsNumbered' /\ WaitingHasNoStart' /\ IsFiniteSet(logs)'
  BY DEF LifeInv, RunsInv, OneRun, SameRow, RowsNumbered, WaitingHasNoStart, Passes
<1>3. OpenIsRunning' /\ OpenOnce'
  <2>1. \A g \in Open : g.row \in DOMAIN queue /\ IsRunning(g.row) /\ g.row # r
    BY DEF LifeInv, RunsInv, OpenIsRunning, IsOpen
  <2>. QED BY <1>1, <2>1 DEF LifeInv, RunsInv, OneRun, SameRow, OpenIsRunning,
                            OpenOnce, IsRunning
<1>4. ClosedIsOver'
  BY DEF LifeInv, RunsInv, OneRun, SameRow, ClosedIsOver
<1>5. StartsKept /\ TimingsEarned
  BY DEF StartsKept, TimingsEarned, OneRun, SameRow, IsRunning, Passes
<1>6. RunStep
  <2>1. ASSUME r \in DOMAIN queue
        PROVE  Phase(r)' = Phase(r) \/ <<Phase(r), Phase(r)'>> \in Moves
    <3>1. Phase(r) = Stage(queue[r].status, queue[r].tStart)
      BY <2>1, PhaseByRow DEF PhaseOf, Stage
    <3>2. Phase(r)' = Stage(status, t)
      BY <1>1, <2>1, PhaseByRow DEF PhaseOf, Stage, OneRun
    <3>. QED BY <2>1, <3>1, <3>2
  <2>. QED BY <1>1, <2>1, RowMoves DEF Passes
<1>7. TimingsInv => TimingsInv'
  <2>1. queue[r].status = "done" /\ r \in DOMAIN queue => status = "done"
    BY DEF Stage, Moves
  <2>. QED BY <1>1, <2>1 DEF TimingsInv, SettledIsDone, TimedOnce, OneRun, SameRow,
                            Passes
<1>. QED BY <1>1, <1>2, <1>3, <1>4, <1>5, <1>6, <1>7
         DEF Keeps, Follows, LifeInv, RunsInv

-----------------------------------------------------------------------------
(* Requests and triggers arrive where nothing else runs, and what they     *)
(* have read is so.                                                        *)

LEMMA ListedFresh ==
  ASSUME TypeInv, RowsNumbered, NEW e, NEW status, NEW row \in Listed(e, status)
  PROVE  Fresh(row) /\ row.status = status /\ row.ev = e /\ row.id \in DOMAIN queue
BY DEF RowsNumbered, Listed, ListQueue, Fresh

LEMMA ArrivingKeeps ==
  ASSUME Serial, TypeInv, LifeInv, NEW a \in Actors, NEW kind, NEW c,
         Arrive(a, kind, c), c.pc \notin HoldSteps, Knows(c)
  PROVE  Keeps /\ Follows
<1>1. /\ Busy = {} /\ confirming = {} /\ call[a].pc = "idle"
      /\ UNCHANGED <<event, queue, logs, pending, confirming>>
      /\ call'[a] = c /\ call' = [call EXCEPT ![a] = call'[a]]
  BY QuietIsIdle DEF Arrive, Admit, At, store, memory, TypeInv, CallsOK
<1>2. Passes(a)
  BY <1>1 DEF Passes, SoleStep, HoldSteps
<1>. QED BY <1>1, <1>2, ReadingKeeps

LEMMA RequestsKeep ==
  ASSUME Serial, TypeInv, LifeInv, NEW a \in Actors,
         \/ BeginLaunch(a) \/ BeginMyLaunch(a) \/ BeginStartOldest(a)
         \/ BeginFinishOldest(a) \/ BeginFinishByID(a) \/ BeginCancel(a)
         \/ BeginUndoStart(a) \/ BeginMyLaunchUndo(a) \/ BeginPT(a)
         \/ BeginMC(a) \/ BeginQueueAdd(a) \/ BeginMyQueueAdd(a)
         \/ BeginQueueCancel(a) \/ BeginMyQueueCancel(a) \/ BeginReorder(a)
         \/ BeginAdopt(a) \/ BeginClose(a) \/ BeginSettings(a)
  PROVE  Keeps /\ Follows
<1>0. \A r \in DOMAIN queue : Fresh(queue[r]) /\ queue[queue[r].id] = queue[r]
  BY DEF LifeInv, RunsInv, RowsNumbered, Fresh
<1>. SUFFICES \E kind, c : /\ Arrive(a, kind, c) /\ c.pc \notin HoldSteps /\ Knows(c)
  BY ArrivingKeeps
<1>1. CASE BeginLaunch(a)
  <2>. DEFINE c(e, t) ==
            [NoCall EXCEPT !.pc = "list_head", !.ev = e,
                !.t = IF event[e].mode = "sensor" THEN NoTime ELSE t]
  <2>1. PICK e \in Events, t \in Times :
          Arrive(a, "launch", c(e, t))
    BY <1>1 DEF BeginLaunch
  <2>2. c(e, t).pc \notin HoldSteps /\ Knows(c(e, t))
    BY <2>1 DEF NoCall, HoldSteps, Knows, EntrySteps
  <2>. HIDE DEF c
  <2>. QED BY <2>1, <2>2
<1>2. CASE BeginMyLaunch(a)
  <2>. DEFINE c(e, entry) ==
            [NoCall EXCEPT !.pc = "my_course", !.ev = e, !.entry = entry]
  <2>1. PICK e \in Events, entry \in Entries :
          Arrive(a, "my_launch", c(e, entry))
    BY <1>2 DEF BeginMyLaunch
  <2>2. c(e, entry).pc \notin HoldSteps /\ Knows(c(e, entry))
    BY <2>1 DEF NoCall, HoldSteps, Knows, EntrySteps
  <2>. HIDE DEF c
  <2>. QED BY <2>1, <2>2
<1>3. CASE BeginStartOldest(a)
  <2>. DEFINE c(e, t) ==
            [NoCall EXCEPT !.pc = "list_ready", !.ev = e, !.t = t]
  <2>1. PICK e \in Events, t \in Times :
          Arrive(a, "start", c(e, t))
    BY <1>3 DEF BeginStartOldest
  <2>2. c(e, t).pc \notin HoldSteps /\ Knows(c(e, t))
    BY <2>1 DEF NoCall, HoldSteps, Knows, EntrySteps
  <2>. HIDE DEF c
  <2>. QED BY <2>1, <2>2
<1>4. CASE BeginFinishOldest(a)
  <2>. DEFINE c(e, t) ==
            [NoCall EXCEPT !.pc = "list_course", !.ev = e, !.t = t]
  <2>1. PICK e \in Events, t \in Times :
          Arrive(a, "finish", c(e, t))
    BY <1>4 DEF BeginFinishOldest
  <2>2. c(e, t).pc \notin HoldSteps /\ Knows(c(e, t))
    BY <2>1 DEF NoCall, HoldSteps, Knows, EntrySteps
  <2>. HIDE DEF c
  <2>. QED BY <2>1, <2>2
<1>5. CASE BeginFinishByID(a)
  <2>. DEFINE c(r, t) ==
            [NoCall EXCEPT !.pc = "finish", !.car = queue[r], !.t = t]
  <2>1. PICK r \in DOMAIN queue, t \in Times :
          Arrive(a, "finish_by_id", c(r, t))
    BY <1>5 DEF BeginFinishByID
  <2>2. c(r, t).pc \notin HoldSteps /\ Knows(c(r, t))
    BY <1>0, <2>1 DEF NoCall, HoldSteps, Knows, EntrySteps
  <2>. HIDE DEF c
  <2>. QED BY <2>1, <2>2
<1>6. CASE BeginCancel(a)
  <2>. DEFINE c(r) ==
            [NoCall EXCEPT !.pc = "check_cancel", !.car = queue[r]]
  <2>1. PICK r \in DOMAIN queue :
          Arrive(a, "cancel", c(r))
    BY <1>6 DEF BeginCancel
  <2>2. c(r).pc \notin HoldSteps /\ Knows(c(r))
    BY <1>0, <2>1 DEF NoCall, HoldSteps, Knows, EntrySteps
  <2>. HIDE DEF c
  <2>. QED BY <2>1, <2>2
<1>7. CASE BeginUndoStart(a)
  <2>. DEFINE c(r) ==
            [NoCall EXCEPT !.pc = "check_undo", !.car = queue[r]]
  <2>1. PICK r \in DOMAIN queue :
          Arrive(a, "undo_start", c(r))
    BY <1>7 DEF BeginUndoStart
  <2>2. c(r).pc \notin HoldSteps /\ Knows(c(r))
    BY <1>0, <2>1 DEF NoCall, HoldSteps, Knows, EntrySteps
  <2>. HIDE DEF c
  <2>. QED BY <2>1, <2>2
<1>8. CASE BeginMyLaunchUndo(a)
  <2>. DEFINE c(e, entry) ==
            [NoCall EXCEPT !.pc = "list_mine", !.ev = e, !.entry = entry]
  <2>1. PICK e \in Events, entry \in Entries :
          Arrive(a, "my_launch_undo", c(e, entry))
    BY <1>8 DEF BeginMyLaunchUndo
  <2>2. c(e, entry).pc \notin HoldSteps /\ Knows(c(e, entry))
    BY <2>1 DEF NoCall, HoldSteps, Knows, EntrySteps
  <2>. HIDE DEF c
  <2>. QED BY <2>1, <2>2
<1>9. CASE BeginPT(a)
  <2>. DEFINE c(r, delta) ==
            [NoCall EXCEPT !.pc = "pt", !.car = queue[r], !.n = delta]
  <2>1. PICK r \in DOMAIN queue, delta \in {-1, 1} :
          Arrive(a, "pt", c(r, delta))
    BY <1>9 DEF BeginPT
  <2>2. c(r, delta).pc \notin HoldSteps /\ Knows(c(r, delta))
    BY <2>1 DEF NoCall, HoldSteps, Knows, EntrySteps
  <2>. HIDE DEF c
  <2>. QED BY <2>1, <2>2
<1>10. CASE BeginMC(a)
  <2>. DEFINE c(r) ==
            [NoCall EXCEPT !.pc = "mc", !.car = queue[r]]
  <2>1. PICK r \in DOMAIN queue :
          Arrive(a, "mc", c(r))
    BY <1>10 DEF BeginMC
  <2>2. c(r).pc \notin HoldSteps /\ Knows(c(r))
    BY <2>1 DEF NoCall, HoldSteps, Knows, EntrySteps
  <2>. HIDE DEF c
  <2>. QED BY <2>1, <2>2
<1>11. CASE BeginQueueAdd(a)
  <2>. DEFINE c(e, entry) ==
            [NoCall EXCEPT !.pc = "enqueue", !.ev = e, !.entry = entry]
  <2>1. PICK e \in Events, entry \in Entries :
          Arrive(a, "queue_add", c(e, entry)) /\ IsActive(e)
    BY <1>11 DEF BeginQueueAdd
  <2>2. c(e, entry).pc \notin HoldSteps /\ Knows(c(e, entry))
    BY <2>1 DEF NoCall, HoldSteps, Knows, EntrySteps, IsActive
  <2>. HIDE DEF c
  <2>. QED BY <2>1, <2>2
<1>12. CASE BeginMyQueueAdd(a)
  <2>. DEFINE c(e, entry) ==
            [NoCall EXCEPT !.pc = "my_waiting", !.ev = e, !.entry = entry]
  <2>1. PICK e \in Events, entry \in Entries :
          Arrive(a, "my_queue_add", c(e, entry)) /\ IsActive(e)
    BY <1>12 DEF BeginMyQueueAdd
  <2>2. c(e, entry).pc \notin HoldSteps /\ Knows(c(e, entry))
    BY <2>1 DEF NoCall, HoldSteps, Knows, EntrySteps, IsActive
  <2>. HIDE DEF c
  <2>. QED BY <2>1, <2>2
<1>13. CASE BeginQueueCancel(a)
  <2>. DEFINE c(r) ==
            [NoCall EXCEPT !.pc = "cancel", !.car = queue[r]]
  <2>1. PICK r \in DOMAIN queue :
          Arrive(a, "queue_cancel", c(r)) /\ queue[r].status = "waiting"
    BY <1>13 DEF BeginQueueCancel
  <2>2. c(r).pc \notin HoldSteps /\ Knows(c(r))
    BY <1>0, <2>1 DEF NoCall, HoldSteps, Knows, EntrySteps
  <2>. HIDE DEF c
  <2>. QED BY <2>1, <2>2
<1>14. CASE BeginMyQueueCancel(a)
  <2>. DEFINE c(e, entry) ==
            [NoCall EXCEPT !.pc = "my_cancel", !.ev = e, !.entry = entry]
  <2>1. PICK e \in Events, entry \in Entries :
          Arrive(a, "my_queue_cancel", c(e, entry))
    BY <1>14 DEF BeginMyQueueCancel
  <2>2. c(e, entry).pc \notin HoldSteps /\ Knows(c(e, entry))
    BY <2>1 DEF NoCall, HoldSteps, Knows, EntrySteps
  <2>. HIDE DEF c
  <2>. QED BY <2>1, <2>2
<1>15. CASE BeginReorder(a)
  <2>. DEFINE c(r, pos) ==
            [NoCall EXCEPT !.pc = "reorder", !.car = queue[r], !.n = pos]
  <2>1. PICK r \in DOMAIN queue, pos \in ReorderTo :
          Arrive(a, "reorder", c(r, pos))
    BY <1>15 DEF BeginReorder
  <2>2. c(r, pos).pc \notin HoldSteps /\ Knows(c(r, pos))
    BY <2>1 DEF NoCall, HoldSteps, Knows, EntrySteps
  <2>. HIDE DEF c
  <2>. QED BY <2>1, <2>2
<1>16. CASE BeginAdopt(a)
  <2>. DEFINE c(e, id) ==
            [NoCall EXCEPT !.pc = "list_head", !.ev = e, !.run = [NoRun EXCEPT !.id = id]]
  <2>1. PICK e \in Events, id \in 1 .. orphanSeq :
          Arrive(a, "adopt", c(e, id))
    BY <1>16 DEF BeginAdopt
  <2>2. c(e, id).pc \notin HoldSteps /\ Knows(c(e, id))
    BY <2>1 DEF NoCall, HoldSteps, Knows, EntrySteps
  <2>. HIDE DEF c
  <2>. QED BY <2>1, <2>2
<1>17. CASE BeginClose(a)
  <2>. DEFINE c(e) ==
            [NoCall EXCEPT !.pc = "close_waiting", !.ev = e]
  <2>1. PICK e \in Events :
          Arrive(a, "close", c(e)) /\ Listed(e, "on_course") = {}
    BY <1>17 DEF BeginClose
  <2>2. c(e).pc \notin HoldSteps /\ Knows(c(e))
    BY <2>1 DEF NoCall, HoldSteps, Knows, EntrySteps
  <2>. HIDE DEF c
  <2>. QED BY <2>1, <2>2
<1>18. CASE BeginSettings(a)
  <2>. DEFINE c(e) ==
            [NoCall EXCEPT !.pc = "put_settings", !.ev = e]
  <2>1. PICK e \in Events :
          Arrive(a, "settings", c(e))
    BY <1>18 DEF BeginSettings
  <2>2. c(e).pc \notin HoldSteps /\ Knows(c(e))
    BY <2>1 DEF NoCall, HoldSteps, Knows, EntrySteps
  <2>. HIDE DEF c
  <2>. QED BY <2>1, <2>2
<1>. QED
  BY <1>1, <1>2, <1>3, <1>4, <1>5, <1>6, <1>7, <1>8, <1>9,
     <1>10, <1>11, <1>12, <1>13, <1>14, <1>15, <1>16, <1>17, <1>18

LEMMA TriggersKeep ==
  ASSUME Serial, TypeInv, LifeInv, Triggers
  PROVE  Keeps /\ Follows
<1>. DEFINE a == Dispatcher
<1>0. a \in Actors /\ call \in [Actors -> Call]
  BY DEF Actors, TypeInv, CallsOK
<1>1. PICK c : /\ TriggerArrives(c) /\ c.pc \in {"list_ready", "list_course"}
  <2>. DEFINE begun(pc, e, t) == [NoCall EXCEPT !.pc = pc, !.ev = e, !.t = t]
  <2>1. PICK e \in Events, t \in Times, pc \in {"list_ready", "list_course"} :
          TriggerArrives(begun(pc, e, t))
    BY DEF Triggers, BeginSensorStart, BeginSensorGoal
  <2>2. begun(pc, e, t).pc = pc
    BY DEF NoCall
  <2>. HIDE DEF begun
  <2>. QED BY <2>1, <2>2
<1>2. /\ Busy = {} /\ confirming = {} /\ call[a].pc = "idle"
      /\ UNCHANGED <<event, queue, logs, pending, confirming>>
      /\ call'[a] = c /\ call' = [call EXCEPT ![a] = call'[a]]
  BY <1>0, <1>1, QuietIsIdle DEF TriggerArrives, At, store, memory
<1>3. Passes(a) /\ Knows(call'[a])
  BY <1>1, <1>2 DEF Passes, SoleStep, HoldSteps, Knows, EntrySteps
<1>. HIDE DEF a
<1>. QED BY <1>0, <1>2, <1>3, ReadingKeeps

-----------------------------------------------------------------------------
(* The steps that look at the store or at the memory, one by one: what the *)
(* handler has seen is still so at its next step.                          *)

LEMMA LookingKeeps ==
  ASSUME TypeInv, LifeInv, NEW a \in Actors, ~At(a, "idle"), OnlyCall,
         call[a].pc \notin HoldSteps, call' = [call EXCEPT ![a] = call'[a]],
         call'[a].pc \notin HoldSteps, Knows(call'[a])
  PROVE  Keeps /\ Follows
<1>1. Busy \subseteq {a} /\ confirming = {}
  BY Sole
<1>. QED BY <1>1, ReadingKeeps DEF Passes, SoleStep, OnlyCall, store, memory

LEMMA ReadsKeep ==
  ASSUME TypeInv, LifeInv, NEW a \in Actors,
         \/ ListHead(a) \/ MyNotOnCourse(a) \/ MyTurn(a)
         \/ ListReady(a) \/ NoReadyCar(a) \/ ListCourse(a)
         \/ ScanNext(a) \/ NoRunningCar(a) \/ CheckFinish(a)
         \/ CheckCancel(a) \/ ListMine(a) \/ CheckUndoStart(a)
         \/ UndoMode(a) \/ FindFront(a) \/ MyNotWaiting(a)
         \/ MyNotRunning(a) \/ MyQueueCancel(a)
  PROVE  Keeps /\ Follows
<1>0. /\ call \in [Actors -> Call] /\ call[a] \in Call /\ RowsNumbered
      /\ Knows(call[a])
  BY DEF TypeInv, CallsOK, LifeInv, RunsInv, HandInv
<1>. DEFINE Clean == /\ ~At(a, "idle") /\ OnlyCall /\ call[a].pc \notin HoldSteps
                    /\ call' = [call EXCEPT ![a] = call'[a]]
                    /\ call'[a].pc \notin HoldSteps /\ Knows(call'[a])
<1>. SUFFICES Clean
  BY LookingKeeps
<1>r. ASSUME OnlyCall, Return(a), ~At(a, "idle"), call[a].pc \notin HoldSteps
      PROVE  Clean
  BY <1>0, <1>r DEF Return, NoCall, HoldSteps, Knows, EntrySteps
<1>g. ASSUME OnlyCall, NEW pc, Goto(a, pc), pc \notin HoldSteps,
             ~At(a, "idle"), call[a].pc \notin HoldSteps,
             Knows([call[a] EXCEPT !.pc = pc])
      PROVE  Clean
  BY <1>0, <1>g DEF Goto, Call
<1>p. ASSUME OnlyCall, NEW row, NEW pc, pc \notin HoldSteps,
             ~At(a, "idle"), call[a].pc \notin HoldSteps,
             call' = [call EXCEPT ![a].car = row, ![a].pc = pc],
             Knows([call[a] EXCEPT !.car = row, !.pc = pc])
      PROVE  Clean
  BY <1>0, <1>p DEF Call
<1>. HIDE DEF Clean
<1>1. CASE ListHead(a)
  <2>1. /\ OnlyCall /\ At(a, "list_head")
        /\ Return(a) \/ \E row, pc : /\ pc \in {"claim", "adopt_take"}
                                     /\ call' = [call EXCEPT ![a].car = row, ![a].pc = pc]
    BY <1>1 DEF ListHead
  <2>2. \A row, pc : pc \in {"claim", "adopt_take"} =>
          Knows([call[a] EXCEPT !.car = row, !.pc = pc])
    BY <1>0 DEF Knows, EntrySteps, Call
  <2>3. call[a].pc \notin HoldSteps /\ ~At(a, "idle")
        /\ \A pc \in {"claim", "adopt_take"} : pc \notin HoldSteps
    BY <2>1 DEF HoldSteps, At
  <2>4. CASE Return(a)
    BY <1>r, <2>1, <2>3, <2>4
  <2>5. CASE ~Return(a)
    <3>1. PICK row, pc : /\ pc \in {"claim", "adopt_take"}
                         /\ call' = [call EXCEPT ![a].car = row, ![a].pc = pc]
      BY <2>1, <2>5
    <3>2. Knows([call[a] EXCEPT !.car = row, !.pc = pc])
      BY <2>2, <3>1
    <3>. QED BY <1>p, <2>1, <2>3, <3>1, <3>2
  <2>. QED BY <2>4, <2>5
<1>2. CASE MyNotOnCourse(a)
  <2>1. Knows([call[a] EXCEPT !.pc = "my_head"])
    BY <1>0 DEF Knows, EntrySteps, Call
  <2>. QED BY <1>2, <1>r, <1>g, <2>1 DEF MyNotOnCourse, At, HoldSteps
<1>3. CASE MyTurn(a)
  <2>1. /\ OnlyCall /\ At(a, "my_head")
        /\ Return(a) \/ \E row : call' = [call EXCEPT ![a].car = row, ![a].pc = "claim"]
    BY <1>3 DEF MyTurn
  <2>2. \A row : Knows([call[a] EXCEPT !.car = row, !.pc = "claim"])
    BY <1>0 DEF Knows, EntrySteps, Call
  <2>3. call[a].pc \notin HoldSteps /\ ~At(a, "idle") /\ "claim" \notin HoldSteps
    BY <2>1 DEF HoldSteps, At
  <2>4. CASE Return(a)
    BY <1>r, <2>1, <2>3, <2>4
  <2>5. CASE ~Return(a)
    <3>1. PICK row : call' = [call EXCEPT ![a].car = row, ![a].pc = "claim"]
      BY <2>1, <2>5
    <3>2. Knows([call[a] EXCEPT !.car = row, !.pc = "claim"])
      BY <2>2
    <3>. QED BY <1>p, <2>1, <2>3, <3>1, <3>2
  <2>. QED BY <2>4, <2>5
<1>4. CASE ListReady(a)
  <2>1. /\ call'[a].pc = "try_start" /\ call' = [call EXCEPT ![a] = call'[a]]
        /\ OnlyCall /\ At(a, "list_ready")
    BY <1>0, <1>4 DEF ListReady, Call
  <2>2. Knows(call'[a])
    BY <2>1 DEF Knows, EntrySteps
  <2>. QED BY <2>1, <2>2 DEF Clean, At, HoldSteps
<1>5. CASE NoReadyCar(a)
  <2>1. Knows([call[a] EXCEPT !.pc = "push_orphan"])
    BY <1>0 DEF Knows, EntrySteps, Call
  <2>. QED BY <1>5, <1>r, <1>g, <2>1 DEF NoReadyCar, At, HoldSteps
<1>6. CASE ListCourse(a)
  <2>1. /\ call'[a].pc = "scan" /\ call'[a].todo = Listed(call[a].ev, "on_course")
        /\ call' = [call EXCEPT ![a] = call'[a]] /\ OnlyCall /\ At(a, "list_course")
    BY <1>0, <1>6 DEF ListCourse, Call
  <2>2. Knows(call'[a])
    BY <1>0, <2>1, ListedFresh DEF Knows, EntrySteps
  <2>. QED BY <2>1, <2>2 DEF Clean, At, HoldSteps
<1>7. CASE ScanNext(a)
  <2>1. PICK row \in call[a].todo :
          IF row.tStart = NoTime \/ IsPending(row.id)
          THEN call' = [call EXCEPT ![a].todo = @ \ {row}]
          ELSE call' = [call EXCEPT ![a].todo = {}, ![a].car = row,
                                    ![a].pc = "finish"]
    BY <1>7 DEF ScanNext
  <2>2. OnlyCall /\ At(a, "scan") /\ Fresh(row)
    BY <1>0, <1>7 DEF ScanNext, Knows, At
  <2>3. /\ call' = [call EXCEPT ![a] = call'[a]]
        /\ \/ call'[a].pc = "scan" /\ call'[a].todo \subseteq call[a].todo
           \/ call'[a].pc = "finish" /\ call'[a].car = row
    BY <1>0, <2>1, <2>2 DEF At, Call
  <2>4. Knows(call'[a])
    BY <1>0, <2>2, <2>3 DEF Knows, EntrySteps, At
  <2>. QED BY <2>2, <2>3, <2>4 DEF Clean, At, HoldSteps
<1>8. CASE NoRunningCar(a)
  <2>1. Knows([call[a] EXCEPT !.pc = "pop_orphan"])
    BY <1>0 DEF Knows, EntrySteps, Call
  <2>. QED BY <1>8, <1>r, <1>g, <2>1 DEF NoRunningCar, At, HoldSteps
<1>9. CASE CheckFinish(a)
  <2>1. /\ OnlyCall /\ At(a, "finish")
        /\ \/ Return(a)
           \/ /\ Goto(a, "insert_log") /\ ~IsPending(call[a].car.id)
              /\ call[a].car.status = "on_course" /\ call[a].car.tStart # NoTime
    BY <1>9 DEF CheckFinish
  <2>2. ASSUME ~IsPending(call[a].car.id), call[a].car.status = "on_course",
               call[a].car.tStart # NoTime
        PROVE  Knows([call[a] EXCEPT !.pc = "insert_log"])
    BY <1>0, <2>1, <2>2 DEF Knows, Fresh, IsRunning, EntrySteps, Call, At
  <2>. QED BY <1>r, <1>g, <2>1, <2>2 DEF At, HoldSteps
<1>10. CASE CheckCancel(a)
  <2>1. /\ OnlyCall /\ At(a, "check_cancel")
        /\ \/ Return(a)
           \/ /\ Goto(a, "cancel") /\ ~IsPending(call[a].car.id)
              /\ call[a].car.status = "on_course"
    BY <1>10 DEF CheckCancel
  <2>2. ASSUME ~IsPending(call[a].car.id), call[a].car.status = "on_course"
        PROVE  Knows([call[a] EXCEPT !.pc = "cancel"])
    BY <1>0, <2>1, <2>2 DEF Knows, Fresh, EntrySteps, Call, At
  <2>. QED BY <1>r, <1>g, <2>1, <2>2 DEF At, HoldSteps
<1>11. CASE ListMine(a)
  <2>1. /\ OnlyCall /\ At(a, "list_mine")
        /\ Return(a) \/ \E row \in Listed(call[a].ev, "on_course") :
                          call' = [call EXCEPT ![a].car = row, ![a].pc = "check_undo"]
    BY <1>11 DEF ListMine
  <2>2. \A row : Fresh(row) => Knows([call[a] EXCEPT !.car = row, !.pc = "check_undo"])
    BY <1>0 DEF Knows, EntrySteps, Call
  <2>3. call[a].pc \notin HoldSteps /\ ~At(a, "idle") /\ "check_undo" \notin HoldSteps
    BY <2>1 DEF HoldSteps, At
  <2>4. CASE Return(a)
    BY <1>r, <2>1, <2>3, <2>4
  <2>5. CASE ~Return(a)
    <3>1. PICK row \in Listed(call[a].ev, "on_course") :
            call' = [call EXCEPT ![a].car = row, ![a].pc = "check_undo"]
      BY <2>1, <2>5
    <3>2. Fresh(row) /\ row.status = "on_course"
      BY <1>0, ListedFresh
    <3>3. Knows([call[a] EXCEPT !.car = row, !.pc = "check_undo"])
      BY <2>2, <3>2
    <3>. QED BY <1>p, <2>1, <2>3, <3>1, <3>3
  <2>. QED BY <2>4, <2>5
<1>12. CASE CheckUndoStart(a)
  <2>1. /\ OnlyCall /\ At(a, "check_undo")
        /\ \/ Return(a)
           \/ /\ Goto(a, "clear_start") /\ ~IsPending(call[a].car.id)
              /\ call[a].car.status = "on_course"
    BY <1>12 DEF CheckUndoStart
  <2>2. ASSUME ~IsPending(call[a].car.id), call[a].car.status = "on_course"
        PROVE  Knows([call[a] EXCEPT !.pc = "clear_start"])
    BY <1>0, <2>1, <2>2 DEF Knows, Fresh, EntrySteps, Call, At
  <2>. QED BY <1>r, <1>g, <2>1, <2>2 DEF At, HoldSteps
<1>13. CASE UndoMode(a)
  <2>1. OnlyCall /\ At(a, "undo_mode") /\ (Return(a) \/ Goto(a, "requeue"))
    BY <1>13 DEF UndoMode
  <2>2. Knows([call[a] EXCEPT !.pc = "requeue"])
    BY <1>0, <2>1 DEF Knows, EntrySteps, Call, At
  <2>. QED BY <1>r, <1>g, <2>1, <2>2 DEF At, HoldSteps
<1>14. CASE FindFront(a)
  <2>1. /\ call'[a].pc = "reorder" /\ call' = [call EXCEPT ![a] = call'[a]]
        /\ OnlyCall /\ At(a, "undo_front")
    BY <1>0, <1>14 DEF FindFront, Call
  <2>2. Knows(call'[a])
    BY <2>1 DEF Knows, EntrySteps
  <2>. QED BY <2>1, <2>2 DEF Clean, At, HoldSteps
<1>15. CASE MyNotWaiting(a)
  <2>1. OnlyCall /\ At(a, "my_waiting") /\ (Return(a) \/ Goto(a, "my_away"))
    BY <1>15 DEF MyNotWaiting
  <2>2. Knows([call[a] EXCEPT !.pc = "my_away"])
    BY <1>0, <2>1 DEF Knows, EntrySteps, Call, At
  <2>. QED BY <1>r, <1>g, <2>1, <2>2 DEF At, HoldSteps
<1>16. CASE MyNotRunning(a)
  <2>1. OnlyCall /\ At(a, "my_away") /\ (Return(a) \/ Goto(a, "enqueue"))
    BY <1>16 DEF MyNotRunning
  <2>2. Knows([call[a] EXCEPT !.pc = "enqueue"])
    BY <1>0, <2>1 DEF Knows, EntrySteps, Call, At
  <2>. QED BY <1>r, <1>g, <2>1, <2>2 DEF At, HoldSteps
<1>17. CASE MyQueueCancel(a)
  <2>1. /\ OnlyCall /\ At(a, "my_cancel")
        /\ Return(a) \/ \E row \in Listed(call[a].ev, "waiting") :
                          call' = [call EXCEPT ![a].car = row, ![a].pc = "cancel"]
    BY <1>17 DEF MyQueueCancel
  <2>2. \A row : Fresh(row) /\ row.status = "waiting" =>
          Knows([call[a] EXCEPT !.car = row, !.pc = "cancel"])
    BY <1>0 DEF Knows, Fresh, EntrySteps, Call
  <2>3. call[a].pc \notin HoldSteps /\ ~At(a, "idle") /\ "cancel" \notin HoldSteps
    BY <2>1 DEF HoldSteps, At
  <2>4. CASE Return(a)
    BY <1>r, <2>1, <2>3, <2>4
  <2>5. CASE ~Return(a)
    <3>1. PICK row \in Listed(call[a].ev, "waiting") :
            call' = [call EXCEPT ![a].car = row, ![a].pc = "cancel"]
      BY <2>1, <2>5
    <3>2. Fresh(row) /\ row.status = "waiting"
      BY <1>0, ListedFresh
    <3>3. Knows([call[a] EXCEPT !.car = row, !.pc = "cancel"])
      BY <2>2, <3>2
    <3>. QED BY <1>p, <2>1, <2>3, <3>1, <3>3
  <2>. QED BY <2>4, <2>5
<1>. QED
  BY <1>1, <1>2, <1>3, <1>4, <1>5, <1>6, <1>7, <1>8, <1>9,
     <1>10, <1>11, <1>12, <1>13, <1>14, <1>15, <1>16, <1>17

(* What a handler counts on when it returns, or moves on.                  *)
LEMMA ReturningKnows ==
  ASSUME TypeInv, NEW a \in Actors, Return(a)
  PROVE  /\ call' = [call EXCEPT ![a] = call'[a]]
         /\ call'[a].pc \notin HoldSteps /\ Knows(call'[a]) /\ Knows(call[a])'
         /\ call'[a].pc = "idle"
<1>1. call' = [call EXCEPT ![a] = NoCall] /\ call'[a] = NoCall
  BY DEF Return, TypeInv, CallsOK
<1>2. call'[a].pc = "idle" /\ call' = [call EXCEPT ![a] = call'[a]]
  <2>1. NoCall.pc = "idle"
    BY DEF NoCall
  <2>. QED BY <1>1, <2>1
<1>3. Knows(call'[a])
  BY <1>2 DEF Knows, EntrySteps
<1>4. Knows(call[a])'
  BY <1>2 DEF Knows, EntrySteps
<1>. QED BY <1>2, <1>3, <1>4 DEF HoldSteps

LEMMA MovingOnKnows ==
  ASSUME TypeInv, NEW a \in Actors, NEW pc, Goto(a, pc)
  PROVE  /\ call' = [call EXCEPT ![a] = call'[a]]
         /\ call'[a] = [call[a] EXCEPT !.pc = pc] /\ call'[a].pc = pc
         /\ call'[a].car = call[a].car /\ call'[a].ev = call[a].ev
         /\ call'[a].log = call[a].log /\ call'[a].run = call[a].run
BY DEF Goto, TypeInv, CallsOK, Call

(* The steps on the orphan runs, which no queue row and no timing is in.   *)
LEMMA OrphansKeep ==
  ASSUME TypeInv, LifeInv, NEW a \in Actors,
         \/ AdoptTake(a) \/ RestoreOrphan(a)
         \/ a = Dispatcher /\ (PushOrphan \/ PopOrphan)
  PROVE  Keeps /\ Follows
<1>0. call \in [Actors -> Call] /\ call[a] \in Call
  BY DEF TypeInv, CallsOK
<1>1. /\ call[a].pc \in {"adopt_take", "restore", "push_orphan", "pop_orphan"}
      /\ UNCHANGED <<event, queue, logs, pending, confirming>>
      /\ call' = [call EXCEPT ![a] = call'[a]]
      /\ call'[a].pc \in {"idle", "adopt_claim", "log_orphan"}
  <2>1. CASE AdoptTake(a)
    BY <1>0, <2>1 DEF AdoptTake, At, Return, NoCall, Call, store
  <2>2. CASE RestoreOrphan(a)
    BY <1>0, <2>2 DEF RestoreOrphan, At, Return, NoCall, Call, store
  <2>3. CASE a = Dispatcher /\ PushOrphan
    BY <1>0, <2>3 DEF PushOrphan, At, Return, NoCall, Call, store
  <2>4. CASE a = Dispatcher /\ PopOrphan
    BY <1>0, <2>4 DEF PopOrphan, At, Return, NoCall, Call, store
  <2>. QED BY <2>1, <2>2, <2>3, <2>4
<1>2. Busy \subseteq {a} /\ confirming = {}
  BY <1>1, Sole DEF At
<1>3. Passes(a) /\ Knows(call'[a])
  BY <1>1, <1>2 DEF Passes, SoleStep, HoldSteps, Knows, EntrySteps
<1>. QED BY <1>1, <1>3, ReadingKeeps

LEMMA DismissingKeeps ==
  ASSUME Serial, TypeInv, LifeInv, NEW a \in Actors, DismissOrphan(a)
  PROVE  Keeps /\ Follows
<1>1. /\ Busy = {} /\ confirming = {} /\ call[a].pc = "idle"
      /\ UNCHANGED <<event, queue, logs, pending, confirming, call>>
  BY QuietIsIdle DEF DismissOrphan, Admit, At, store
<1>2. Passes(a) /\ Knows(call'[a])
  BY <1>1 DEF Passes, SoleStep, HoldSteps, Knows, EntrySteps, TypeInv, CallsOK
<1>. QED BY <1>1, <1>2, ReadingKeeps

(* The steps on the events table.                                          *)
LEMMA EventsKeep ==
  ASSUME Serial, TypeInv, LifeInv, NEW a \in Actors,
         CreateEvent(a) \/ CloseEvent(a) \/ PutSettings(a)
  PROVE  Keeps /\ Follows
<1>0. /\ call \in [Actors -> Call] /\ call[a] \in Call /\ Knows(call[a])
      /\ event \in [Events -> EventRow] /\ RunsInv /\ queue \in [DOMAIN queue -> QueueRow]
  BY LenProperties DEF TypeInv, StoreOK, CallsOK, LifeInv, HandInv
<1>1. CASE CreateEvent(a)
  <2>1. /\ Busy = {} /\ confirming = {} /\ call[a].pc = "idle"
        /\ UNCHANGED <<queue, logs, pending, confirming, call>>
    BY <1>1, QuietIsIdle DEF CreateEvent, Admit, At, memory
  <2>2. Passes(a) /\ Knows(call[a])' /\ SameRuns(queue, queue')
    BY <1>0, <2>1 DEF Passes, SoleStep, HoldSteps, Knows, EntrySteps, SameRuns, SameRow
  <2>3. NoneCloses
    BY <1>0, <1>1 DEF CreateEvent, NoneCloses
  <2>. QED BY <2>2, <2>3, PassingKeeps
<1>2. CASE PutSettings(a)
  <2>1. /\ Busy \subseteq {a} /\ confirming = {} /\ call[a].pc = "put_settings"
        /\ UNCHANGED <<queue, logs, pending, confirming>> /\ Return(a)
    BY <1>2, Sole DEF PutSettings, At, memory
  <2>2. Passes(a) /\ Knows(call[a])' /\ SameRuns(queue, queue')
    BY <2>1, ReturningKnows DEF Passes, SoleStep, HoldSteps, SameRuns, SameRow
  <2>3. NoneCloses
    BY <1>0, <1>2 DEF PutSettings, NoneCloses, EventRow
  <2>. QED BY <2>2, <2>3, PassingKeeps
<1>3. CASE CloseEvent(a)
  <2>1. /\ Busy \subseteq {a} /\ confirming = {} /\ call[a].pc = "close_event"
        /\ UNCHANGED <<queue, logs, pending, confirming>> /\ Return(a)
    BY <1>3, Sole DEF CloseEvent, At, memory
  <2>2. Passes(a) /\ Knows(call[a])' /\ SameRuns(queue, queue')
    BY <2>1, ReturningKnows DEF Passes, SoleStep, HoldSteps, SameRuns, SameRow
  <2>3. /\ HandInv' /\ Open' = Open /\ \A r : IsOpen(r)' <=> IsOpen(r)
        /\ RowsNumbered' /\ WaitingHasNoStart' /\ IsFiniteSet(logs)'
        /\ OpenIsRunning' /\ OpenOnce' /\ StartsKept /\ TimingsEarned
    <3>1. HandInv' /\ Open' = Open /\ \A r : IsOpen(r)' <=> IsOpen(r)
      BY <2>2, HandsKept, PassesOpen DEF Passes
    <3>. QED BY <1>0, <2>1, <3>1
             DEF RunsInv, RowsNumbered, WaitingHasNoStart, OpenIsRunning, OpenOnce,
                 IsRunning, StartsKept, TimingsEarned
  <2>4. ClosedIsOver'
    <3>1. ASSUME NEW r \in DOMAIN queue, queue[r].status \in {"waiting", "on_course"}
          PROVE  event'[queue[r].ev].status # "closed"
      <4>1. queue[r].ev \in Events /\ event[queue[r].ev].status # "closed"
        BY <1>0, <3>1 DEF RunsInv, ClosedIsOver, QueueRow
      <4>2. queue[r].ev # call[a].ev
        BY <1>0, <2>1, <3>1 DEF Knows, Listed, ListQueue
      <4>. QED BY <1>0, <1>3, <4>1, <4>2 DEF CloseEvent
    <3>. QED BY <2>1, <3>1 DEF ClosedIsOver
  <2>5. RunStep /\ (TimingsInv => TimingsInv')
    BY <2>1, <2>2, <2>3, RunsStay DEF TimingsInv, SettledIsDone, TimedOnce
  <2>. QED BY <2>3, <2>4, <2>5 DEF Keeps, Follows, LifeInv, RunsInv
<1>. QED BY <1>1, <1>2, <1>3

-----------------------------------------------------------------------------
(* The statements on the queue table.                                      *)

LEMMA QueueStepsKeep ==
  ASSUME TypeInv, FinishInv, LifeInv, NEW a \in Actors,
         \/ Claim(a) \/ LaunchStamp(a) \/ TryStart(a) \/ AdoptClaim(a)
         \/ AdoptStamp(a) \/ AdoptRollback(a) \/ Cancel(a) \/ ClearStart(a)
         \/ UndoPT(a) \/ UndoMC(a) \/ Requeue(a) \/ ReorderRow(a)
         \/ AddPT(a) \/ ToggleMC(a)
  PROVE  Keeps /\ Follows
<1>. DEFINE car == call[a].car
            k == call[a].car.id
            OnlyPasses == /\ ~At(a, "idle") /\ OnlyQueue
                          /\ call' = [call EXCEPT ![a] = call'[a]]
                          /\ call[a].pc \notin HoldSteps /\ call'[a].pc \notin HoldSteps
<1>0. /\ call \in [Actors -> Call] /\ call[a] \in Call /\ Knows(call[a]) /\ RunsInv
      /\ queue \in Seq(QueueRow) /\ queue \in [DOMAIN queue -> QueueRow]
  BY LenProperties DEF TypeInv, StoreOK, CallsOK, LifeInv, HandInv
<1>o. OnlyPasses => Passes(a) /\ UNCHANGED event
  BY Sole DEF Passes, SoleStep, OnlyQueue, memory
<1>n. \A r : ~IsRunning(r) => ~IsOpen(r)
  BY <1>0 DEF RunsInv, OpenIsRunning, IsOpen
<1>s. ASSUME OnlyPasses, SameRuns(queue, queue'), Knows(call[a])'
      PROVE  Keeps /\ Follows
  BY <1>o, <1>s, PassingKeeps DEF NoneCloses
<1>c. ASSUME NEW pc, call'[a].pc = pc, pc \notin
               {"scan", "finish", "check_cancel", "check_undo", "insert_log", "register",
                "cancel", "clear_start", "stamp", "adopt_stamp", "adopt_rollback",
                "undo_pt", "undo_mc", "undo_mode", "requeue", "close_waiting",
                "close_event"} \cup EntrySteps
      PROVE  Knows(call[a])'
  BY <1>c DEF Knows, EntrySteps
<1>m. ASSUME NEW pc, Goto(a, pc), OnlyQueue, ~At(a, "idle"),
             call[a].pc \notin HoldSteps, pc \notin HoldSteps
      PROVE  OnlyPasses /\ call'[a].pc = pc /\ call'[a].car.id = k
  BY <1>m, MovingOnKnows
<1>1. CASE Claim(a)
  <2>0. PICK r : r = k
    OBVIOUS
  <2>1. CASE queue[r].status = "waiting"
    <3>1. queue' = SetQueueStatus(queue, r, "on_course") /\ Goto(a, "stamp")
          /\ OnlyQueue /\ At(a, "claim")
      BY <1>1, <2>0, <2>1 DEF Claim
    <3>2. OneRun(queue, queue', r, "on_course", queue[r].tStart)
      BY <1>0, <3>1, StatementColumns
    <3>3. r \in DOMAIN queue => queue[r].tStart = NoTime
      BY <1>0, <2>1 DEF RunsInv, WaitingHasNoStart
    <3>4. call'[a].pc = "stamp" /\ call'[a].car.id = r /\ OnlyPasses
      BY <2>0, <3>1, <1>m DEF At, HoldSteps
    <3>5. Knows(call[a])'
      BY <3>2, <3>3, <3>4 DEF Knows, EntrySteps, IsReady, OneRun
    <3>6. <<"waiting", "ready">> \in Moves
      BY DEF Moves
    <3>. HIDE DEF OnlyPasses
    <3>. QED BY <1>o, <1>n, <2>1, <3>2, <3>3, <3>4, <3>5, <3>6, RewritingKeeps
             DEF Stage, IsRunning
  <2>2. CASE queue[r].status # "waiting"
    <3>1. queue' = queue /\ Return(a) /\ OnlyQueue /\ At(a, "claim")
      BY <1>1, <2>0, <2>2 DEF Claim
    <3>2. SameRuns(queue, queue') /\ OnlyPasses /\ Knows(call[a])'
      BY <1>0, <3>1, StatementColumns, ReturningKnows DEF At, HoldSteps
    <3>. QED BY <1>s, <3>2
  <2>. QED BY <2>1, <2>2
<1>2. CASE LaunchStamp(a)
  <2>0. PICK r, t : r = k /\ t = call[a].t
    OBVIOUS
  <2>1. queue' = SetStart(queue, r, t) /\ Return(a) /\ OnlyQueue /\ At(a, "stamp")
    BY <1>2, <2>0 DEF LaunchStamp
  <2>2. OneRun(queue, queue', r, queue[r].status, t)
    BY <1>0, <2>1, StatementColumns
  <2>3. r \in DOMAIN queue => IsReady(r)
    BY <1>0, <2>0, <2>1 DEF Knows, At
  <2>4. OnlyPasses /\ Knows(call[a])'
    BY <2>1, ReturningKnows DEF At, HoldSteps
  <2>5. <<"ready", "running">> \in Moves
    BY DEF Moves
  <2>. HIDE DEF OnlyPasses
  <2>. QED BY <1>o, <1>n, <2>2, <2>3, <2>4, <2>5, RewritingKeeps
           DEF Stage, IsRunning, IsReady
<1>3. CASE TryStart(a)
  <2>1. PICK row \in call[a].todo :
          IF StartIsUnset(queue, row.id)
          THEN /\ queue' = SetStart(queue, row.id, call[a].t)
               /\ Return(a)
          ELSE /\ queue' = queue
               /\ call' = [call EXCEPT ![a].todo = @ \ {row}]
    BY <1>3 DEF TryStart
  <2>2. OnlyQueue /\ At(a, "try_start")
    BY <1>3 DEF TryStart
  <2>3. CASE StartIsUnset(queue, row.id)
    <3>0. PICK r, t : r = row.id /\ t = call[a].t
      OBVIOUS
    <3>1. queue' = SetStart(queue, r, t) /\ Return(a) /\ IsReady(r)
      BY <2>1, <2>3, <3>0 DEF StartIsUnset, IsReady
    <3>2. OneRun(queue, queue', r, queue[r].status, t)
      BY <1>0, <3>1, StatementColumns
    <3>4. OnlyPasses /\ Knows(call[a])'
      BY <2>2, <3>1, ReturningKnows DEF At, HoldSteps
    <3>5. <<"ready", "running">> \in Moves
      BY DEF Moves
    <3>. HIDE DEF OnlyPasses
    <3>. QED BY <1>o, <1>n, <3>1, <3>2, <3>4, <3>5, RewritingKeeps
             DEF Stage, IsRunning, IsReady
  <2>4. CASE ~StartIsUnset(queue, row.id)
    <3>1. queue' = queue /\ call'[a].pc = "try_start"
          /\ call' = [call EXCEPT ![a] = call'[a]]
      BY <1>0, <2>1, <2>2, <2>4 DEF At, Call
    <3>2. SameRuns(queue, queue') /\ OnlyPasses
      BY <1>0, <2>2, <3>1, StatementColumns DEF At, HoldSteps
    <3>3. Knows(call[a])'
      BY <1>c, <3>1 DEF EntrySteps
    <3>. QED BY <1>s, <3>2, <3>3
  <2>. QED BY <2>3, <2>4
<1>4. CASE AdoptClaim(a)
  <2>0. PICK r : r = k
    OBVIOUS
  <2>1. CASE queue[r].status = "waiting"
    <3>1. queue' = SetQueueStatus(queue, r, "on_course") /\ Goto(a, "adopt_stamp")
          /\ OnlyQueue /\ At(a, "adopt_claim")
      BY <1>4, <2>0, <2>1 DEF AdoptClaim
    <3>2. OneRun(queue, queue', r, "on_course", queue[r].tStart)
      BY <1>0, <3>1, StatementColumns
    <3>3. r \in DOMAIN queue => queue[r].tStart = NoTime
      BY <1>0, <2>1 DEF RunsInv, WaitingHasNoStart
    <3>4. call'[a].pc = "adopt_stamp" /\ call'[a].car.id = r /\ OnlyPasses
      BY <2>0, <3>1, <1>m DEF At, HoldSteps
    <3>5. Knows(call[a])'
      BY <3>2, <3>3, <3>4 DEF Knows, EntrySteps, IsReady, OneRun
    <3>6. <<"waiting", "ready">> \in Moves
      BY DEF Moves
    <3>. HIDE DEF OnlyPasses
    <3>. QED BY <1>o, <1>n, <2>1, <3>2, <3>3, <3>4, <3>5, <3>6, RewritingKeeps
             DEF Stage, IsRunning
  <2>2. CASE queue[r].status # "waiting"
    <3>1. queue' = queue /\ Goto(a, "restore") /\ OnlyQueue /\ At(a, "adopt_claim")
      BY <1>4, <2>0, <2>2 DEF AdoptClaim
    <3>2. SameRuns(queue, queue') /\ OnlyPasses /\ call'[a].pc = "restore"
      BY <1>0, <3>1, StatementColumns, <1>m DEF At, HoldSteps
    <3>3. Knows(call[a])'
      BY <1>c, <3>2 DEF EntrySteps
    <3>. QED BY <1>s, <3>2, <3>3
  <2>. QED BY <2>1, <2>2
<1>5. CASE AdoptStamp(a)
  <2>0. PICK r, t : r = k /\ t = call[a].run.tStart
    OBVIOUS
  <2>1. queue' = SetStart(queue, r, t) /\ Return(a) /\ OnlyQueue /\ At(a, "adopt_stamp")
    BY <1>5, <2>0 DEF AdoptStamp
  <2>2. OneRun(queue, queue', r, queue[r].status, t)
    BY <1>0, <2>1, StatementColumns
  <2>3. r \in DOMAIN queue => IsReady(r)
    BY <1>0, <2>0, <2>1 DEF Knows, At
  <2>4. OnlyPasses /\ Knows(call[a])'
    BY <2>1, ReturningKnows DEF At, HoldSteps
  <2>5. <<"ready", "running">> \in Moves
    BY DEF Moves
  <2>. HIDE DEF OnlyPasses
  <2>. QED BY <1>o, <1>n, <2>2, <2>3, <2>4, <2>5, RewritingKeeps
           DEF Stage, IsRunning, IsReady
<1>6. CASE AdoptRollback(a)
  <2>0. PICK r : r = k
    OBVIOUS
  <2>1. Goto(a, "restore") /\ OnlyQueue /\ At(a, "adopt_rollback")
    BY <1>6 DEF AdoptRollback
  <2>2. OnlyPasses /\ call'[a].pc = "restore"
    BY <2>1, <1>m DEF At, HoldSteps
  <2>3. Knows(call[a])'
    BY <1>c, <2>2 DEF EntrySteps
  <2>4. r \in DOMAIN queue => IsReady(r)
    BY <1>0, <2>0, <2>1 DEF Knows, At
  <2>5. CASE queue[r].status = "on_course"
    <3>1. queue' = SetQueueStatus(queue, r, "waiting")
      BY <1>6, <2>0, <2>5 DEF AdoptRollback
    <3>2. OneRun(queue, queue', r, "waiting", queue[r].tStart)
      BY <1>0, <3>1, StatementColumns
    <3>3. <<"ready", "waiting">> \in Moves
      BY DEF Moves
    <3>. HIDE DEF OnlyPasses
    <3>. QED BY <1>o, <1>n, <2>2, <2>3, <2>4, <3>2, <3>3, RewritingKeeps
             DEF Stage, IsRunning, IsReady
  <2>6. CASE queue[r].status # "on_course"
    <3>1. SameRuns(queue, queue')
      BY <1>0, <1>6, <2>0, <2>6, StatementColumns DEF AdoptRollback
    <3>. QED BY <1>s, <2>2, <2>3, <3>1
  <2>. QED BY <2>5, <2>6
<1>7. CASE Cancel(a)
  <2>0. PICK r : r = k
    OBVIOUS
  <2>1. queue' = SetQueueStatus(queue, r, "canceled") /\ Return(a)
        /\ OnlyQueue /\ At(a, "cancel")
    BY <1>7, <2>0 DEF Cancel
  <2>2. OneRun(queue, queue', r, "canceled", queue[r].tStart)
    BY <1>0, <2>1, StatementColumns
  <2>3. OnlyPasses /\ Knows(call[a])'
    BY <2>1, ReturningKnows DEF At, HoldSteps
  <2>4. r \in DOMAIN queue =>
          \/ queue[r].status = "waiting"
          \/ queue[r].status = "on_course" /\ ~IsPending(r)
    <3>1. call[a].pc = "cancel" /\ call[a].car.id = r /\ Knows(call[a])
      BY <1>0, <2>0, <2>1 DEF At
    <3>. QED BY <3>1 DEF Knows
  <2>5. r \in DOMAIN queue => ~IsOpen(r)
    <3>1. Busy \subseteq {a} /\ confirming = {} /\ call[a].pc \notin HoldSteps
      BY <2>1, Sole DEF At, HoldSteps
    <3>. QED BY <1>n, <2>4, <3>1, NotOpen DEF IsRunning
  <2>6. {<<"waiting", "canceled">>, <<"ready", "canceled">>, <<"running", "canceled">>}
          \in SUBSET Moves
    BY DEF Moves
  <2>. HIDE DEF OnlyPasses
  <2>7. r \in DOMAIN queue =>
          <<Stage(queue[r].status, queue[r].tStart), Stage("canceled", queue[r].tStart)>>
            \in Moves
    BY <2>4, <2>6 DEF Stage
  <2>. QED BY <1>o, <2>2, <2>3, <2>5, <2>7, RewritingKeeps
<1>8. CASE ClearStart(a)
  <2>0. PICK r : r = k
    OBVIOUS
  <2>1. queue' = SetStart(queue, r, NoTime) /\ Goto(a, "undo_pt")
        /\ OnlyQueue /\ At(a, "clear_start")
    BY <1>8, <2>0 DEF ClearStart
  <2>2. OneRun(queue, queue', r, queue[r].status, NoTime)
    BY <1>0, <2>1, StatementColumns
  <2>3. OnlyPasses /\ call'[a].pc = "undo_pt" /\ call'[a].car.id = r
    BY <2>0, <2>1, <1>m DEF At, HoldSteps
  <2>4. r \in DOMAIN queue => queue[r].status = "on_course" /\ ~IsPending(r)
    BY <1>0, <2>0, <2>1 DEF Knows, At
  <2>5. r \in DOMAIN queue => ~IsOpen(r)
    <3>1. Busy \subseteq {a} /\ confirming = {} /\ call[a].pc \notin HoldSteps
      BY <2>1, Sole DEF At, HoldSteps
    <3>. QED BY <2>4, <3>1, NotOpen
  <2>6. Knows(call[a])'
    BY <2>2, <2>3, <2>4 DEF Knows, EntrySteps, IsReady, OneRun
  <2>7. <<"running", "ready">> \in Moves
    BY DEF Moves
  <2>. HIDE DEF OnlyPasses
  <2>. QED BY <1>o, <2>1, <2>2, <2>3, <2>4, <2>5, <2>6, <2>7, RewritingKeeps DEF Stage
<1>9. CASE UndoPT(a)
  <2>1. /\ SameRuns(queue, queue') /\ OnlyQueue /\ At(a, "undo_pt")
        /\ Goto(a, "undo_mc") \/ Return(a)
    BY <1>0, <1>9, StatementColumns DEF UndoPT
  <2>2. CASE Return(a)
    <3>1. OnlyPasses /\ Knows(call[a])'
      BY <2>1, <2>2, ReturningKnows DEF At, HoldSteps
    <3>. QED BY <1>s, <2>1, <3>1
  <2>3. CASE Goto(a, "undo_mc")
    <3>0. PICK r : r = k
      OBVIOUS
    <3>1. OnlyPasses /\ call'[a].pc = "undo_mc" /\ call'[a].car.id = r
      BY <2>1, <2>3, <3>0, <1>m DEF At, HoldSteps
    <3>2. Knows(call[a])'
      BY <1>0, <2>1, <3>0, <3>1 DEF Knows, EntrySteps, IsReady, SameRuns, SameRow, At
    <3>. QED BY <1>s, <2>1, <3>1, <3>2
  <2>. QED BY <2>1, <2>2, <2>3
<1>10. CASE UndoMC(a)
  <2>1. /\ SameRuns(queue, queue') /\ OnlyQueue /\ At(a, "undo_mc")
        /\ Goto(a, "undo_mode")
    BY <1>0, <1>10, StatementColumns DEF UndoMC
  <2>2. PICK r : r = k
    OBVIOUS
  <2>3. OnlyPasses /\ call'[a].pc = "undo_mode" /\ call'[a].car.id = r
    BY <2>1, <2>2, <1>m DEF At, HoldSteps
  <2>4. Knows(call[a])'
    BY <1>0, <2>1, <2>2, <2>3 DEF Knows, EntrySteps, IsReady, SameRuns, SameRow, At
  <2>. QED BY <1>s, <2>1, <2>3, <2>4
<1>11. CASE Requeue(a)
  <2>0. PICK r : r = k
    OBVIOUS
  <2>1. queue' = SetQueueStatus(queue, r, "waiting") /\ Goto(a, "undo_front")
        /\ OnlyQueue /\ At(a, "requeue")
    BY <1>11, <2>0 DEF Requeue
  <2>2. OneRun(queue, queue', r, "waiting", queue[r].tStart)
    BY <1>0, <2>1, StatementColumns
  <2>3. r \in DOMAIN queue => IsReady(r)
    BY <1>0, <2>0, <2>1 DEF Knows, At
  <2>4. OnlyPasses /\ call'[a].pc = "undo_front"
    BY <2>1, <1>m DEF At, HoldSteps
  <2>5. Knows(call[a])'
    BY <1>c, <2>4 DEF EntrySteps
  <2>6. <<"ready", "waiting">> \in Moves
    BY DEF Moves
  <2>. HIDE DEF OnlyPasses
  <2>. QED BY <1>o, <1>n, <2>2, <2>3, <2>4, <2>5, <2>6, RewritingKeeps
           DEF Stage, IsRunning, IsReady
<1>12. CASE ReorderRow(a) \/ AddPT(a) \/ ToggleMC(a)
  <2>1. SameRuns(queue, queue')
    BY <1>0, <1>12, StatementColumns, ReorderColumns DEF ReorderRow, AddPT, ToggleMC
  <2>2. Return(a) /\ OnlyQueue /\ call[a].pc \in {"reorder", "pt", "mc"}
    BY <1>12 DEF ReorderRow, AddPT, ToggleMC, At
  <2>3. OnlyPasses /\ Knows(call[a])'
    BY <2>2, ReturningKnows DEF At, HoldSteps
  <2>. QED BY <1>s, <2>1, <2>3
<1>. QED
  BY <1>1, <1>2, <1>3, <1>4, <1>5, <1>6, <1>7, <1>8, <1>9, <1>10, <1>11, <1>12

-----------------------------------------------------------------------------
(* The waiting list: a row enters it, and closing an event empties it.     *)

LEMMA EnqueueKeeps ==
  ASSUME TypeInv, FinishInv, LifeInv, NEW a \in Actors, EnqueueRow(a)
  PROVE  Keeps /\ Follows
<1>n. PICK n : n = Len(queue) + 1
  OBVIOUS
<1>0. /\ queue \in Seq(QueueRow) /\ Knows(call[a]) /\ RunsInv
      /\ Return(a) /\ OnlyQueue /\ call[a].pc = "enqueue"
  BY DEF TypeInv, StoreOK, LifeInv, HandInv, EnqueueRow, At
<1>1. Passes(a) /\ Knows(call[a])' /\ UNCHANGED event
  BY <1>0, Sole, ReturningKnows DEF Passes, SoleStep, HoldSteps, OnlyQueue, memory, At
<1>2. PICK ev, entry : ev = call[a].ev /\ entry = call[a].entry
  OBVIOUS
<1>3. CASE queue' = queue
  BY <1>1, <1>3, PassingKeeps DEF SameRuns, SameRow, NoneCloses
<1>4. CASE queue' = Enqueue(queue, ev, entry)
  <2>1. /\ DOMAIN queue' = DOMAIN queue \cup {n} /\ n \notin DOMAIN queue
        /\ \A i \in DOMAIN queue : queue'[i] = queue[i]
        /\ queue'[n].id = n /\ queue'[n].ev = ev
        /\ queue'[n].status = "waiting" /\ queue'[n].tStart = NoTime
    <3>1. Added(queue, queue', n, ev)
      BY <1>n, <1>0, <1>4, EnqueueColumns
    <3>. QED BY <3>1 DEF Added
  <2>2. HandInv' /\ Open' = Open /\ (\A s : IsOpen(s)' <=> IsOpen(s))
        /\ UNCHANGED logs
    BY <1>1, HandsKept, PassesOpen DEF Passes
  <2>3. RowsNumbered' /\ WaitingHasNoStart' /\ IsFiniteSet(logs)'
    BY <1>0, <2>1, <2>2 DEF RunsInv, RowsNumbered, WaitingHasNoStart
  <2>4. OpenIsRunning' /\ OpenOnce'
    BY <1>0, <2>1, <2>2 DEF RunsInv, OpenIsRunning, OpenOnce, IsRunning
  <2>5. ClosedIsOver'
    <3>1. event[ev].status # "closed"
      BY <1>0, <1>2 DEF Knows, EntrySteps
    <3>. QED BY <1>0, <1>1, <2>1, <3>1 DEF RunsInv, ClosedIsOver
  <2>6. StartsKept /\ TimingsEarned
    BY <2>1, <2>2 DEF StartsKept, TimingsEarned
  <2>7. RunStep
    <3>1. \A s \in RowIDs : s # n => Phase(s)' = Phase(s)
      BY <2>1, <2>2, SamePhase DEF SameRow
    <3>2. Phase(n) = "absent" /\ Phase(n)' = "waiting"
      BY <2>1, PhaseByRow DEF PhaseOf
    <3>3. <<"absent", "waiting">> \in Moves
      BY DEF Moves
    <3>. QED BY <2>2, <3>1, <3>2, <3>3, OneMove
  <2>8. TimingsInv => TimingsInv'
    BY <2>1, <2>2 DEF TimingsInv, SettledIsDone, TimedOnce
  <2>. QED BY <2>2, <2>3, <2>4, <2>5, <2>6, <2>7, <2>8
           DEF Keeps, Follows, LifeInv, RunsInv
<1>. QED BY <1>0, <1>2, <1>3, <1>4 DEF EnqueueRow

LEMMA CloseWaitingKeeps ==
  ASSUME TypeInv, FinishInv, LifeInv, NEW a \in Actors, CloseWaiting(a)
  PROVE  Keeps /\ Follows
<1>2. PICK ev : ev = call[a].ev
  OBVIOUS
<1>0. /\ queue \in Seq(QueueRow) /\ RunsInv /\ Listed(ev, "on_course") = {}
      /\ Goto(a, "close_event") /\ OnlyQueue /\ call[a].pc = "close_waiting"
      /\ queue' = CancelWaiting(queue, ev)
  BY <1>2 DEF TypeInv, StoreOK, LifeInv, HandInv, CloseWaiting, At, Knows
<1>1. /\ Passes(a) /\ UNCHANGED event
      /\ call'[a].pc = "close_event" /\ call'[a].ev = ev
  <2>1. /\ call' = [call EXCEPT ![a] = call'[a]]
        /\ call'[a].pc = "close_event" /\ call'[a].ev = ev
    BY <1>0, <1>2, MovingOnKnows
  <2>2. Busy \subseteq {a} /\ confirming = {}
    BY <1>0, Sole DEF At
  <2>. QED BY <1>0, <2>1, <2>2 DEF Passes, SoleStep, HoldSteps, OnlyQueue, memory
<1>3. /\ DOMAIN queue' = DOMAIN queue
      /\ \A i \in DOMAIN queue :
           /\ queue'[i].id = queue[i].id /\ queue'[i].ev = queue[i].ev
           /\ queue'[i].tStart = queue[i].tStart
           /\ queue'[i].status = IF queue[i].ev = ev /\ queue[i].status = "waiting"
                                 THEN "canceled" ELSE queue[i].status
  BY <1>0, CancelWaitingColumns
<1>4. Listed(ev, "on_course")' = {} /\ Listed(ev, "waiting")' = {}
  BY <1>0, <1>3 DEF Listed, ListQueue
<1>5. Knows(call[a])'
  BY <1>1, <1>4 DEF Knows, EntrySteps
<1>6. HandInv' /\ Open' = Open /\ (\A s : IsOpen(s)' <=> IsOpen(s)) /\ UNCHANGED logs
  BY <1>1, <1>5, HandsKept, PassesOpen DEF Passes
<1>7. RowsNumbered' /\ WaitingHasNoStart' /\ IsFiniteSet(logs)'
  BY <1>0, <1>3, <1>6 DEF RunsInv, RowsNumbered, WaitingHasNoStart
<1>8. OpenIsRunning' /\ OpenOnce'
  BY <1>0, <1>3, <1>6 DEF RunsInv, OpenIsRunning, OpenOnce, IsRunning
<1>9. ClosedIsOver'
  BY <1>0, <1>1, <1>3 DEF RunsInv, ClosedIsOver
<1>10. StartsKept /\ TimingsEarned
  BY <1>3, <1>6 DEF StartsKept, TimingsEarned
<1>11. RunStep
  <2>. DEFINE S == { r \in RowIDs : /\ r \in DOMAIN queue /\ queue[r].ev = ev
                                    /\ queue[r].status = "waiting" }
  <2>1. \A r \in RowIDs : Phase(r)' = IF r \in S THEN "canceled" ELSE Phase(r)
    BY <1>3, <1>6, PhaseByRow DEF PhaseOf
  <2>2. \A r \in S : Phase(r) = "waiting"
    BY PhaseByRow DEF PhaseOf
  <2>. HIDE DEF S
  <2>3. S \subseteq RowIDs
    BY DEF S
  <2>4. phases' = [ r \in RowIDs |-> IF r \in S THEN "canceled" ELSE phases[r] ]
        /\ S \in SUBSET { r \in RowIDs : phases[r] = "waiting" }
    BY <2>1, <2>2, <2>3 DEF phases
  <2>5. timingsOf' = timingsOf
    BY <1>6 DEF timingsOf
  <2>6. Run!CloseEvent
    BY <2>4 DEF Run!CloseEvent, phases
  <2>. QED BY <2>5, <2>6 DEF RunStep, Run!Next, timingsOf
<1>12. TimingsInv => TimingsInv'
  BY <1>3, <1>6 DEF TimingsInv, SettledIsDone, TimedOnce
<1>. QED BY <1>6, <1>7, <1>8, <1>9, <1>10, <1>11, <1>12
         DEF Keeps, Follows, LifeInv, RunsInv

-----------------------------------------------------------------------------
(* The timings: put on record, held in the grace window, taken back, and   *)
(* confirmed.                                                              *)

LEMMA TimingAdded ==
  ASSUME IsFiniteSet(logs), NEW new, new \notin logs, logs' = logs \cup {new}
  PROVE  /\ IsFiniteSet(logs)'
         /\ timingsOf' = [timingsOf EXCEPT ![new.row] = @ + 1]
<1>1. IsFiniteSet(logs')
  BY FS_AddElement
<1>2. ASSUME NEW r \in RowIDs
      PROVE  Cardinality({ g \in logs' : g.row = r }) =
               IF r = new.row THEN timingsOf[r] + 1 ELSE timingsOf[r]
  <2>. DEFINE G == { g \in logs : g.row = r }
  <2>1. IsFiniteSet(G) /\ timingsOf[r] = Cardinality(G) /\ new \notin G
    BY FS_Subset DEF timingsOf
  <2>2. { g \in logs' : g.row = r } = IF r = new.row THEN G \cup {new} ELSE G
    OBVIOUS
  <2>. HIDE DEF G
  <2>3. Cardinality(G \cup {new}) = Cardinality(G) + 1
    BY <2>1, FS_AddElement
  <2>. QED BY <2>1, <2>2, <2>3
<1>3. timingsOf' = [ r \in RowIDs |-> IF r = new.row THEN timingsOf[r] + 1
                                                     ELSE timingsOf[r] ]
  BY <1>2 DEF timingsOf
<1>4. timingsOf = [ r \in RowIDs |-> timingsOf[r] ]
  BY DEF timingsOf
<1>. QED BY <1>1, <1>3, <1>4

LEMMA TimingRemoved ==
  ASSUME IsFiniteSet(logs), NEW old \in logs, logs' = logs \ {old}
  PROVE  /\ IsFiniteSet(logs)'
         /\ timingsOf' = [timingsOf EXCEPT ![old.row] = @ - 1]
<1>1. IsFiniteSet(logs')
  BY FS_RemoveElement
<1>2. ASSUME NEW r \in RowIDs
      PROVE  Cardinality({ g \in logs' : g.row = r }) =
               IF r = old.row THEN timingsOf[r] - 1 ELSE timingsOf[r]
  <2>. DEFINE G == { g \in logs : g.row = r }
  <2>1. IsFiniteSet(G) /\ timingsOf[r] = Cardinality(G)
    BY FS_Subset DEF timingsOf
  <2>2. { g \in logs' : g.row = r } = IF r = old.row THEN G \ {old} ELSE G
    OBVIOUS
  <2>3. r = old.row => old \in G
    OBVIOUS
  <2>. HIDE DEF G
  <2>4. old \in G => Cardinality(G \ {old}) = Cardinality(G) - 1
    BY <2>1, FS_RemoveElement
  <2>. QED BY <2>1, <2>2, <2>3, <2>4
<1>3. timingsOf' = [ r \in RowIDs |-> IF r = old.row THEN timingsOf[r] - 1
                                                     ELSE timingsOf[r] ]
  BY <1>2 DEF timingsOf
<1>4. timingsOf = [ r \in RowIDs |-> timingsOf[r] ]
  BY DEF timingsOf
<1>. QED BY <1>1, <1>3, <1>4

LEMMA InsertingKeeps ==
  ASSUME TypeInv, FinishInv, LifeInv, NEW a \in Actors, InsertLog(a)
  PROVE  Keeps /\ Follows
<1>. DEFINE row == [ id |-> logSeq + 1, row |-> call[a].car.id,
                     raw |-> call[a].t - call[a].car.tStart,
                     pt |-> call[a].car.pt, mc |-> call[a].car.mc ]
<1>1. PICK new : new = row
  OBVIOUS
<1>2. PICK r : r = call[a].car.id
  OBVIOUS
<1>3. new.id = logSeq + 1 /\ new.row = r /\ logs' = logs \cup {new}
  BY <1>1, <1>2 DEF InsertLog
<1>. HIDE DEF row
<1>4. /\ logSeq \in Nat /\ call \in [Actors -> Call] /\ call[a] \in Call /\ RunsInv
      /\ call[a].pc = "insert_log" /\ Knows(call[a])
      /\ UNCHANGED <<event, queue, pending, confirming>>
      /\ call' = [call EXCEPT ![a].pc = "register", ![a].log = logSeq + 1]
  BY DEF TypeInv, StoreOK, CallsOK, LifeInv, HandInv, InsertLog, At, memory
<1>5. Busy \subseteq {a} /\ confirming = {}
  BY <1>4, Sole DEF At
<1>6. r \in DOMAIN queue /\ IsRunning(r) /\ ~IsPending(r)
  BY <1>2, <1>4 DEF Knows
<1>7. ~IsOpen(r)
  BY <1>4, <1>5, <1>6, NotOpen DEF HoldSteps
<1>8. \A g \in logs : g.id # logSeq + 1 /\ g # new
  BY <1>3, <1>4 DEF FinishInv, LogsNumbered
<1>9. /\ call'[a].pc = "register" /\ call'[a].log = logSeq + 1
      /\ call'[a].car = call[a].car /\ call' = [call EXCEPT ![a] = call'[a]]
  BY <1>4 DEF Call
<1>10. HandInv'
  <2>1. Knows(call[a])'
    BY <1>2, <1>4, <1>6, <1>9 DEF Knows, EntrySteps, IsRunning, IsPending
  <2>. QED BY <1>4, <1>5, <1>9, <2>1, HandsKept DEF SoleStep
<1>11. Open' = Open \cup {new}
  <2>1. Registering = {} /\ Undoing = {}
    BY <1>4, <1>5 DEF Registering, Undoing, Busy, At
  <2>2. \A b \in Actors : b # a => call'[b].pc = "idle"
    BY <1>4, <1>5 DEF Busy, At
  <2>3. Registering' = {a} /\ Undoing' = {}
    BY <1>9, <2>2 DEF Registering, Undoing, At
  <2>4. Unsettled' = Unsettled \cup {logSeq + 1}
    BY <1>4, <1>9, <2>1, <2>3 DEF Unsettled
  <2>5. new \notin logs /\ \A g \in logs : g.id \in Unsettled' <=> g.id \in Unsettled
    BY <1>8, <2>4
  <2>. QED BY <1>3, <2>4, <2>5 DEF Open
<1>12. \A s : IsOpen(s)' <=> (IsOpen(s) \/ s = r)
  BY <1>3, <1>11 DEF IsOpen
<1>13. OpenIsRunning' /\ OpenOnce'
  BY <1>3, <1>4, <1>6, <1>7, <1>11 DEF RunsInv, OpenIsRunning, OpenOnce, IsRunning, IsOpen
<1>14. RowsNumbered' /\ WaitingHasNoStart' /\ ClosedIsOver'
  BY <1>4 DEF RunsInv, RowsNumbered, WaitingHasNoStart, ClosedIsOver
<1>15. IsFiniteSet(logs)' /\ timingsOf' = [timingsOf EXCEPT ![r] = @ + 1]
  BY <1>3, <1>4, <1>8, TimingAdded DEF RunsInv
<1>16. StartsKept /\ TimingsEarned
  BY <1>3, <1>4, <1>6 DEF StartsKept, TimingsEarned, IsRunning
<1>17. RunStep
  <2>1. \A s \in RowIDs : s # r => Phase(s)' = Phase(s)
    BY <1>4, <1>12, SamePhase DEF SameRow
  <2>2. CASE r \in RowIDs
    <3>1. Phase(r) = "running" /\ Phase(r)' = "finished"
      BY <1>4, <1>6, <1>7, <1>12, PhaseByRow DEF PhaseOf, IsRunning
    <3>2. phases' = [phases EXCEPT ![r] = "finished"] /\ phases[r] = "running"
      BY <2>1, <2>2, <3>1 DEF phases
    <3>3. Run!FinishLine(r)
      BY <1>15, <3>2 DEF Run!FinishLine, Run!Move, phases, timingsOf
    <3>. QED BY <2>2, <3>3 DEF RunStep, Run!Next
  <2>3. CASE r \notin RowIDs
    <3>1. phases' = phases
      BY <2>1, <2>3 DEF phases
    <3>2. timingsOf' = timingsOf
      BY <1>15, <2>3 DEF timingsOf
    <3>. QED BY <3>1, <3>2 DEF RunStep
  <2>. QED BY <2>2, <2>3
<1>18. TimingsInv => TimingsInv'
  <2>1. TimingsInv => \A g \in logs : g.row # r \/ g.row = NoRow
    BY <1>6, <1>7 DEF TimingsInv, SettledIsDone, IsOpen, IsRunning
  <2>. QED BY <1>3, <1>4, <1>11, <2>1 DEF TimingsInv, SettledIsDone, TimedOnce
<1>. QED BY <1>10, <1>13, <1>14, <1>15, <1>16, <1>17, <1>18
         DEF Keeps, Follows, LifeInv, RunsInv

LEMMA LoggingOrphanKeeps ==
  ASSUME TypeInv, FinishInv, LifeInv, LogOrphan
  PROVE  Keeps /\ Follows
<1>. DEFINE a == Dispatcher
            row == [ id |-> logSeq + 1, row |-> NoRow,
                     raw |-> call[a].t - call[a].run.tStart,
                     pt |-> 0, mc |-> FALSE ]
<1>1. PICK new : new = row
  OBVIOUS
<1>2. /\ a \in Actors /\ logSeq \in Nat /\ RunsInv
      /\ new.id = logSeq + 1 /\ new.row = NoRow /\ logs' = logs \cup {new}
      /\ UNCHANGED <<event, queue, pending, confirming>> /\ Return(a)
      /\ call[a].pc = "log_orphan"
  BY <1>1 DEF Actors, TypeInv, StoreOK, LifeInv, LogOrphan, memory, At
<1>. HIDE DEF a, row
<1>3. Busy \subseteq {a} /\ confirming = {}
  BY <1>2, Sole DEF At
<1>4. HandInv'
  BY <1>2, <1>3, ReturningKnows, HandsKept DEF SoleStep
<1>5. \A g \in logs : g.id # logSeq + 1 /\ g # new
  BY <1>2 DEF FinishInv, LogsNumbered
<1>6. Open' = Open
  <2>1. CallsOK
    BY DEF TypeInv
  <2>2. /\ Registering' = Registering \ {a} /\ Undoing' = Undoing \ {a}
        /\ a \notin Registering \cup Undoing
        /\ \A b \in Actors \ {a} : call'[b] = call[b]
    BY <1>2, <2>1, ReturnReleases DEF Registering, Undoing, At
  <2>3. \A b \in Registering \cup Undoing : b \in Actors \ {a}
    BY <2>2 DEF Registering, Undoing
  <2>4. Unsettled' = Unsettled
    BY <1>2, <2>2, <2>3 DEF Unsettled
  <2>5. logSeq + 1 \notin Unsettled
    BY <1>2, HeldIsNumbered
  <2>. QED BY <1>2, <2>4, <2>5 DEF Open
<1>7. RowsNumbered' /\ WaitingHasNoStart' /\ ClosedIsOver' /\ OpenIsRunning' /\ OpenOnce'
  BY <1>2, <1>6 DEF RunsInv, RowsNumbered, WaitingHasNoStart, ClosedIsOver,
                    OpenIsRunning, OpenOnce, IsRunning
<1>8. IsFiniteSet(logs)' /\ timingsOf' = [timingsOf EXCEPT ![NoRow] = @ + 1]
  BY <1>2, <1>5, TimingAdded DEF RunsInv
<1>9. StartsKept /\ TimingsEarned
  BY <1>2 DEF StartsKept, TimingsEarned
<1>10. RunStep
  <2>1. timingsOf' = timingsOf
    BY <1>8, RowIDsAreRows DEF timingsOf
  <2>2. \A s \in RowIDs : Phase(s)' = Phase(s)
    BY <1>2, <1>6, SamePhase DEF SameRow, IsOpen
  <2>. QED BY <2>1, <2>2 DEF RunStep, phases
<1>11. TimingsInv => TimingsInv'
  BY <1>2, <1>6 DEF TimingsInv, SettledIsDone, TimedOnce
<1>. QED BY <1>4, <1>7, <1>8, <1>9, <1>10, <1>11 DEF Keeps, Follows, LifeInv, RunsInv

LEMMA RegisteringKeeps ==
  ASSUME TypeInv, FinishInv, LifeInv, NEW a \in Actors, Register(a)
  PROVE  Keeps /\ Follows
<1>1. PICK finish : finish = [row |-> call[a].car.id, log |-> call[a].log]
  OBVIOUS
<1>2. /\ RunsInv /\ Knows(call[a]) /\ call[a].pc = "register" /\ Return(a)
      /\ UNCHANGED <<event, queue, logs, confirming>>
      /\ pending' = { p \in pending : p.row # finish.row } \cup {finish}
      /\ finish.row = call[a].car.id /\ finish.log = call[a].log
  BY <1>1 DEF LifeInv, HandInv, Register, At, store
<1>3. Busy \subseteq {a} /\ confirming = {}
  BY <1>2, Sole DEF At
<1>4. HandInv'
  BY <1>2, <1>3, ReturningKnows, HandsKept DEF SoleStep
<1>5. pending' = pending \cup {finish}
  BY <1>2 DEF Knows, IsPending
<1>6. Open' = Open
  <2>1. /\ Registering' = Registering \ {a} /\ Undoing' = Undoing \ {a}
        /\ Registering = {a} /\ Undoing = {}
    BY <1>2, <1>3, ReturnReleases
       DEF Registering, Undoing, Busy, At, TypeInv
  <2>2. Unsettled' = Unsettled
    BY <1>2, <1>5, <2>1 DEF Unsettled
  <2>. QED BY <1>2, <2>2 DEF Open
<1>. QED BY <1>2, <1>4, <1>6, LooksKeep DEF SameRuns, SameRow, NoneCloses

LEMMA TakingBackKeeps ==
  ASSUME Serial, TypeInv, FinishInv, LifeInv, NEW a \in Actors, BeginUndoGoal(a)
  PROVE  Keeps /\ Follows
<1>. DEFINE c(l) == [NoCall EXCEPT !.pc = "undo_stop", !.log = l]
<1>1. PICK p \in pending : /\ pending' = pending \ {p}
                          /\ call' = [call EXCEPT ![a] = c(p.log)]
  BY DEF BeginUndoGoal
<1>2. /\ RunsInv /\ Busy = {} /\ confirming = {}
      /\ UNCHANGED <<event, queue, logs, confirming>> /\ call \in [Actors -> Call]
  BY QuietIsIdle DEF LifeInv, BeginUndoGoal, Admit, store, TypeInv, CallsOK
<1>3. c(p.log).pc = "undo_stop" /\ c(p.log).log = p.log
  BY DEF NoCall
<1>. HIDE DEF c
<1>4. /\ call' = [call EXCEPT ![a] = call'[a]]
      /\ call'[a].pc = "undo_stop" /\ call'[a].log = p.log
  BY <1>1, <1>2, <1>3
<1>5. HandInv'
  <2>1. Knows(call[a])'
    BY <1>4 DEF Knows, EntrySteps
  <2>. QED BY <1>2, <1>4, <2>1, HandsKept DEF SoleStep
<1>6. Open' = Open
  <2>1. Registering = {} /\ Undoing = {}
    BY <1>2 DEF Registering, Undoing, Busy, At
  <2>2. Registering' = {} /\ Undoing' = {a}
    BY <1>2, <1>4 DEF Registering, Undoing, Busy, At
  <2>3. Unsettled' = Unsettled
    BY <1>1, <1>2, <1>4, <2>1, <2>2 DEF Unsettled
  <2>. QED BY <1>2, <2>3 DEF Open
<1>. QED BY <1>2, <1>5, <1>6, LooksKeep DEF SameRuns, SameRow, NoneCloses

LEMMA StoppingKeeps ==
  ASSUME TypeInv, FinishInv, LifeInv, NEW a \in Actors, UndoGoalStop(a)
  PROVE  Keeps /\ Follows
<1>1. /\ RunsInv /\ call[a].pc = "undo_stop" /\ Goto(a, "undo_delete")
      /\ UNCHANGED <<event, queue, logs, pending, confirming>>
  BY DEF LifeInv, UndoGoalStop, At, store
<1>2. Busy \subseteq {a} /\ confirming = {}
  BY <1>1, Sole DEF At
<1>3. /\ call' = [call EXCEPT ![a] = call'[a]]
      /\ call'[a].pc = "undo_delete" /\ call'[a].log = call[a].log
  BY <1>1, MovingOnKnows
<1>4. HandInv'
  <2>1. Knows(call[a])'
    BY <1>3 DEF Knows, EntrySteps
  <2>. QED BY <1>1, <1>2, <1>3, <2>1, HandsKept DEF SoleStep
<1>5. Open' = Open
  <2>1. \A b \in Actors : b # a => call'[b] = call[b]
    BY <1>3 DEF TypeInv, CallsOK
  <2>2. /\ Registering = {} /\ Registering' = {}
        /\ Undoing = {a} /\ Undoing' = {a}
    BY <1>1, <1>2, <1>3, <2>1 DEF Registering, Undoing, Busy, At
  <2>3. Unsettled' = Unsettled
    BY <1>1, <1>3, <2>2 DEF Unsettled
  <2>. QED BY <1>1, <2>3 DEF Open
<1>. QED BY <1>1, <1>4, <1>5, LooksKeep DEF SameRuns, SameRow, NoneCloses

LEMMA DeletingKeeps ==
  ASSUME TypeInv, FinishInv, LifeInv, NEW a \in Actors, UndoGoalDelete(a)
  PROVE  Keeps /\ Follows
<1>1. PICK l : l = call[a].log
  OBVIOUS
<1>2. /\ RunsInv /\ call[a].pc = "undo_delete" /\ Return(a)
      /\ UNCHANGED <<event, queue, pending, confirming>>
      /\ logs' = { g \in logs : g.id # l }
  BY <1>1 DEF LifeInv, UndoGoalDelete, Timing, At, memory
<1>3. Busy \subseteq {a} /\ confirming = {}
  BY <1>2, Sole DEF At
<1>4. HandInv'
  BY <1>2, <1>3, ReturningKnows, HandsKept DEF SoleStep
<1>5. l \in Unsettled /\ Unsettled' = Unsettled \ {l}
  <2>1. /\ Registering = {} /\ Undoing = {a}
        /\ Registering' = {} /\ Undoing' = {}
    <3>1. /\ Registering' = Registering \ {a} /\ Undoing' = Undoing \ {a}
      BY <1>2, ReturnReleases DEF TypeInv
    <3>. QED BY <1>2, <1>3, <3>1 DEF Registering, Undoing, Busy, At
  <2>2. \A p \in pending : p.log # l
    BY <1>1, <2>1 DEF FinishInv, TimingHeldOnce
  <2>. QED BY <1>1, <1>2, <1>3, <2>1, <2>2 DEF Unsettled
<1>6. CASE \A g \in logs : g.id # l
  <2>1. logs' = logs /\ Open' = Open
    BY <1>2, <1>5, <1>6 DEF Open
  <2>. QED BY <1>2, <1>4, <2>1, LooksKeep DEF SameRuns, SameRow, NoneCloses
<1>7. ASSUME NEW old \in logs, old.id = l
      PROVE  Keeps /\ Follows
  <2>0. PICK r : r = old.row
    OBVIOUS
  <2>1. logs' = logs \ {old} /\ old \in Open /\ Open' = Open \ {old}
    <3>1. \A g \in logs : g.id = l => g = old
      BY <1>7 DEF FinishInv, LogsNumbered
    <3>2. logs' = logs \ {old}
      BY <1>2, <1>7, <3>1
    <3>. QED BY <1>5, <1>7, <3>1, <3>2 DEF Open
  <2>2. r \in DOMAIN queue /\ IsRunning(r) /\ IsOpen(r)
        /\ \A s : IsOpen(s)' <=> (IsOpen(s) /\ s # r)
    BY <1>2, <2>0, <2>1 DEF RunsInv, OpenIsRunning, OpenOnce, IsOpen
  <2>3. IsFiniteSet(logs)' /\ timingsOf' = [timingsOf EXCEPT ![r] = @ - 1]
    BY <1>2, <2>0, <2>1, TimingRemoved DEF RunsInv
  <2>4. /\ RowsNumbered' /\ WaitingHasNoStart' /\ ClosedIsOver'
        /\ OpenIsRunning' /\ OpenOnce'
    BY <1>2, <2>1 DEF RunsInv, RowsNumbered, WaitingHasNoStart, ClosedIsOver,
                      OpenIsRunning, OpenOnce, IsRunning
  <2>5. StartsKept /\ TimingsEarned
    BY <1>2 DEF StartsKept, TimingsEarned
  <2>6. RunStep
    <3>1. \A s \in RowIDs : s # r => Phase(s)' = Phase(s)
      BY <1>2, <2>2, SamePhase DEF SameRow
    <3>2. CASE r \in RowIDs
      <4>1. Phase(r) = "finished" /\ Phase(r)' = "running"
        BY <1>2, <2>2, PhaseByRow DEF PhaseOf, IsRunning
      <4>2. phases' = [phases EXCEPT ![r] = "running"] /\ phases[r] = "finished"
        BY <3>1, <3>2, <4>1 DEF phases
      <4>3. Run!UndoGoal(r)
        BY <2>3, <4>2 DEF Run!UndoGoal, Run!Move, phases, timingsOf
      <4>. QED BY <3>2, <4>3 DEF RunStep, Run!Next
    <3>3. CASE r \notin RowIDs
      <4>1. phases' = phases
        BY <3>1, <3>3 DEF phases
      <4>2. timingsOf' = timingsOf
        BY <2>3, <3>3 DEF timingsOf
      <4>. QED BY <4>1, <4>2 DEF RunStep
    <3>. QED BY <3>2, <3>3
  <2>7. TimingsInv => TimingsInv'
    BY <1>2, <2>1 DEF TimingsInv, SettledIsDone, TimedOnce
  <2>. QED BY <1>4, <2>3, <2>4, <2>5, <2>6, <2>7 DEF Keeps, Follows, LifeInv, RunsInv
<1>. QED BY <1>6, <1>7

LEMMA ExpiringKeeps ==
  ASSUME Serial, TypeInv, FinishInv, LifeInv, NEW timer \in timers, TimerFires(timer)
  PROVE  Keeps /\ Follows
<1>1. /\ RunsInv /\ Busy = {} /\ UNCHANGED <<event, queue, logs, call>>
      /\ pending' \cup confirming' = pending \cup confirming
  BY QuietIsIdle DEF LifeInv, TimerFires, store
<1>2. Registering' = Registering /\ Undoing' = Undoing
  BY <1>1 DEF Registering, Undoing, At
<1>3. Open' = Open
  <2>1. Unsettled' = Unsettled
    BY <1>1, <1>2 DEF Unsettled
  <2>. QED BY <1>1, <2>1 DEF Open
<1>4. HandInv'
  <2>1. \A b \in Actors : Knows(call[b])'
    BY <1>1 DEF Busy, At, Knows, EntrySteps
  <2>. QED BY <1>1, <2>1 DEF HandInv, Busy, At
<1>. QED BY <1>1, <1>3, <1>4, LooksKeep DEF SameRuns, SameRow, NoneCloses

LEMMA ConfirmingKeeps ==
  ASSUME TypeInv, FinishInv, LifeInv, NEW finish \in confirming, Confirm(finish)
  PROVE  Keeps /\ Follows
<1>1. PICK r : r = finish.row
  OBVIOUS
<1>2. /\ RunsInv /\ queue \in Seq(QueueRow) /\ Busy = {}
      /\ UNCHANGED <<event, logs, pending, call>>
      /\ confirming' = confirming \ {finish}
      /\ queue' = SetQueueStatus(queue, r, "done")
  BY <1>1 DEF TypeInv, StoreOK, LifeInv, HandInv, Confirm
<1>3. HandInv'
  <2>1. \A b \in Actors : Knows(call[b])'
    BY <1>2 DEF Busy, At, Knows, EntrySteps
  <2>. QED BY <1>2, <2>1 DEF HandInv, Busy, At
<1>4. OneRun(queue, queue', r, "done", queue[r].tStart)
  BY <1>2, StatementColumns
<1>5. PICK g0 \in logs : g0.id = finish.log /\ g0.row = r
  BY <1>1 DEF FinishInv, OnRecord, TimingOf
<1>6. Unsettled' = Unsettled \ {finish.log} /\ finish.log \in Unsettled
  <2>1. \A p \in pending : p.log # finish.log
    BY DEF FinishInv, TimingHeldOnce
  <2>2. \A p \in confirming \ {finish} : p.log # finish.log
    BY SameFinish
  <2>3. Registering = {} /\ Undoing = {} /\ Registering' = {} /\ Undoing' = {}
    BY <1>2 DEF Registering, Undoing, Busy, At
  <2>. QED BY <1>2, <2>1, <2>2, <2>3 DEF Unsettled
<1>7. g0 \in Open /\ Open' = Open \ {g0}
  <2>1. \A g \in logs : g.id = finish.log => g = g0
    BY <1>5 DEF FinishInv, LogsNumbered
  <2>. QED BY <1>2, <1>5, <1>6, <2>1 DEF Open
<1>8. /\ r \in DOMAIN queue /\ IsRunning(r) /\ IsOpen(r)
      /\ \A g \in Open' : g \in Open /\ g.row # r
      /\ \A s : IsOpen(s)' <=> (IsOpen(s) /\ s # r)
  BY <1>2, <1>5, <1>7 DEF RunsInv, OpenIsRunning, OpenOnce, IsOpen
<1>9. /\ RowsNumbered' /\ WaitingHasNoStart' /\ ClosedIsOver' /\ IsFiniteSet(logs)'
  BY <1>2, <1>4 DEF RunsInv, OneRun, SameRow, RowsNumbered, WaitingHasNoStart,
                    ClosedIsOver
<1>10. OpenIsRunning' /\ OpenOnce'
  BY <1>2, <1>4, <1>8 DEF RunsInv, OneRun, SameRow, OpenIsRunning, OpenOnce, IsRunning
<1>11. StartsKept /\ TimingsEarned
  BY <1>2, <1>4 DEF StartsKept, TimingsEarned, OneRun, SameRow
<1>12. RunStep
  <2>1. Phase(r) = "finished" /\ Phase(r)' = "done"
    BY <1>4, <1>8, PhaseByRow DEF PhaseOf, IsRunning, OneRun
  <2>2. <<"finished", "done">> \in Moves
    BY DEF Moves
  <2>. QED BY <1>2, <1>4, <1>8, <2>1, <2>2, RowMoves
<1>13. TimingsInv => TimingsInv'
  BY <1>2, <1>4, <1>5, <1>7, <1>8
     DEF TimingsInv, SettledIsDone, TimedOnce, OneRun, SameRow
<1>. QED BY <1>3, <1>9, <1>10, <1>11, <1>12, <1>13 DEF Keeps, Follows, LifeInv, RunsInv

-----------------------------------------------------------------------------
(* Failures and crashes: a timing that is let go of is nobody's to take    *)
(* back, and its row stays on course.                                      *)

LEMMA LettingGoKeeps ==
  ASSUME LifeInv, HandInv', Open' \subseteq Open, UNCHANGED <<event, queue, logs>>,
         Faults \/ MaxCrashes > 0
  PROVE  Keeps /\ RunStep
<1>1. Keeps
  BY DEF Keeps, LifeInv, RunsInv, RowsNumbered, WaitingHasNoStart, ClosedIsOver,
         OpenIsRunning, OpenOnce, IsRunning, StartsKept, TimingsEarned
<1>. DEFINE S == { r \in RowIDs : IsOpen(r) /\ ~IsOpen(r)' }
<1>2. \A r \in S : Phase(r) = "finished" /\ Phase(r)' = "running"
  BY PhaseByRow DEF PhaseOf, LifeInv, RunsInv, OpenIsRunning, IsOpen, IsRunning
<1>3. ASSUME NEW r \in RowIDs \ S
      PROVE  Phase(r)' = Phase(r)
  <2>1. IsOpen(r)' <=> IsOpen(r)
    BY DEF IsOpen
  <2>. QED BY <2>1, SamePhase DEF SameRow
<1>4. /\ phases' = [ r \in RowIDs |-> IF r \in S THEN "running" ELSE phases[r] ]
      /\ S \in SUBSET { r \in RowIDs : phases[r] = "finished" }
      /\ timingsOf' = timingsOf
  BY <1>2, <1>3 DEF phases, timingsOf
<1>5. Run!Next
  BY <1>4 DEF Run!Next, Run!Forget, phases, timingsOf
<1>. QED BY <1>1, <1>5 DEF RunStep

LEMMA FailingKeeps ==
  ASSUME TypeInv, FinishInv, LifeInv, NEW a \in Actors,
         StoreError(a) \/ OrphanStoreError(a)
  PROVE  Keeps /\ RunStep
<1>0. CallsOK /\ Knows(call[a])
  BY DEF TypeInv, LifeInv, HandInv
<1>1. CASE StoreError(a) /\ call[a].pc \notin HoldSteps
  <2>1. /\ ~At(a, "idle") /\ OnlyCall /\ Return(a)
    BY <1>1 DEF StoreError, WriteSteps, At
  <2>. QED BY <1>1, <2>1, ReturningKnows, LookingKeeps DEF Follows
<1>2. CASE StoreError(a) /\ call[a].pc \in HoldSteps
  <2>1. /\ ~At(a, "idle") /\ Return(a)
        /\ UNCHANGED <<event, queue, logs, pending, confirming>>
    BY <1>2 DEF StoreError, HoldSteps, At, OnlyCall, store, memory
  <2>2. Busy \subseteq {a} /\ confirming = {}
    BY <2>1, Sole
  <2>3. HandInv'
    BY <2>1, <2>2, ReturningKnows, HandsKept DEF SoleStep
  <2>4. Open' \subseteq Open
    <3>1. /\ Registering' = Registering \ {a} /\ Undoing' = Undoing \ {a}
          /\ \A b \in Actors \ {a} : call'[b] = call[b]
      BY <1>0, <2>1, ReturnReleases
    <3>2. \A b \in Registering' \cup Undoing' :
            b \in Registering \cup Undoing /\ call'[b] = call[b]
      BY <3>1 DEF Registering, Undoing
    <3>3. Unsettled' \subseteq Unsettled
      BY <2>1, <3>2 DEF Unsettled
    <3>. QED BY <2>1, <3>3 DEF Open
  <2>5. Faults
    BY <1>2 DEF StoreError
  <2>. QED BY <2>1, <2>3, <2>4, <2>5, LettingGoKeeps
<1>3. CASE OrphanStoreError(a)
  <2>1. PICK pc : /\ Goto(a, pc) /\ OnlyCall
                  /\ \/ pc = "restore"
                     \/ pc = "adopt_rollback" /\ At(a, "adopt_stamp")
                  /\ call[a].pc \in {"adopt_claim", "log_orphan", "adopt_stamp",
                                     "adopt_rollback"}
    BY <1>3 DEF OrphanStoreError, At
  <2>2. /\ call' = [call EXCEPT ![a] = call'[a]]
        /\ call'[a].pc = pc /\ call'[a].car = call[a].car
    BY <2>1, MovingOnKnows
  <2>3. Knows(call'[a])
    BY <1>0, <2>1, <2>2 DEF Knows, EntrySteps, At
  <2>4. ~At(a, "idle") /\ call[a].pc \notin HoldSteps /\ call'[a].pc \notin HoldSteps
    BY <2>1, <2>2 DEF HoldSteps, At
  <2>. QED BY <2>1, <2>2, <2>3, <2>4, LookingKeeps DEF Follows
<1>. QED BY <1>1, <1>2, <1>3

LEMMA FailedConfirmKeeps ==
  ASSUME TypeInv, LifeInv, NEW finish \in confirming, ConfirmError(finish)
  PROVE  Keeps /\ RunStep
<1>1. /\ UNCHANGED <<event, queue, logs, pending, call>> /\ Busy = {} /\ Faults
      /\ confirming' = confirming \ {finish}
  BY DEF LifeInv, HandInv, ConfirmError, store
<1>2. HandInv'
  <2>1. \A b \in Actors : Knows(call[b])'
    BY <1>1 DEF Busy, At, Knows, EntrySteps
  <2>. QED BY <1>1, <2>1 DEF HandInv, Busy, At
<1>3. Registering' = Registering /\ Undoing' = Undoing
  BY <1>1 DEF Registering, Undoing, At
<1>4. Unsettled' \subseteq Unsettled
  BY <1>1, <1>3 DEF Unsettled
<1>. QED BY <1>1, <1>2, <1>4, LettingGoKeeps DEF Open

LEMMA RestartingKeeps ==
  ASSUME LifeInv, Restart, MaxCrashes > 0
  PROVE  Keeps /\ RunStep
<1>1. /\ UNCHANGED <<event, queue, logs>> /\ pending' = {} /\ confirming' = {}
      /\ \A b \in Actors : call'[b].pc = "idle"
  BY DEF Restart, NoCall, store
<1>2. HandInv'
  BY <1>1 DEF HandInv, Busy, At, Knows, EntrySteps
<1>3. Open' = {}
  BY <1>1 DEF Open, Unsettled, Registering, Undoing, At
<1>. QED BY <1>1, <1>2, <1>3, LettingGoKeeps

-----------------------------------------------------------------------------
LEMMA InitLife == Init => LifeInv /\ TimingsInv /\ Run!Init
<1>. SUFFICES ASSUME Init
              PROVE  LifeInv /\ TimingsInv /\ Run!Init
  OBVIOUS
<1>1. /\ logs = {} /\ Open = {} /\ confirming = {}
      /\ \A a \in Actors : call[a].pc = "idle"
  BY DEF Init, NoCall, Open
<1>2. \A r \in DOMAIN queue :
        /\ queue[r].id = r
        /\ queue[r].status \in {"waiting", "on_course"}
        /\ queue[r].status = "waiting" => queue[r].tStart = NoTime
        /\ queue[r].ev \in Events
  <2>1. queue \in InitialTables /\ queue \in [DOMAIN queue -> QueueRow]
    BY InitialTablesAreFresh, LenProperties DEF Init
  <2>. QED BY <2>1, InitialTablesAreFresh DEF QueueRow
<1>3. HandInv
  BY <1>1 DEF HandInv, Busy, At, Knows, EntrySteps
<1>4. ClosedIsOver
  <2>1. \A e \in Events : event[e].status # "closed"
    BY DEF Init
  <2>. QED BY <1>2, <2>1 DEF ClosedIsOver
<1>5. RunsInv
  BY <1>1, <1>2, <1>4, FS_EmptySet
     DEF RunsInv, RowsNumbered, OpenIsRunning, OpenOnce, WaitingHasNoStart
<1>6. TimingsInv
  BY <1>1 DEF TimingsInv, SettledIsDone, TimedOnce
<1>7. Run!Init
  <2>1. \A r \in RowIDs : Phase(r) \in {"absent", "waiting", "ready", "running"}
    BY <1>1, <1>2, PhaseByRow DEF PhaseOf, IsOpen
  <2>2. \A r \in RowIDs : Cardinality({ g \in logs : g.row = r }) = 0
    BY <1>1, FS_EmptySet
  <2>. QED BY <2>1, <2>2 DEF Run!Init
<1>. QED BY <1>3, <1>5, <1>6, <1>7 DEF LifeInv

LEMMA NextLife ==
  ASSUME Serial, TypeInv, FinishInv, LifeInv, [Next]_vars
  PROVE  /\ Keeps /\ RunStep
         /\ ~Faults /\ MaxCrashes = 0 => Follows
<1>0. Follows => RunStep
  BY DEF Follows
<1>1. ASSUME NEW a \in Actors, Arrivals(a)
      PROVE  Keeps /\ Follows
  <2>1. CASE BeginUndoGoal(a)
    BY <2>1, TakingBackKeeps
  <2>2. CASE DismissOrphan(a)
    BY <2>2, DismissingKeeps
  <2>3. CASE CreateEvent(a)
    BY <2>3, EventsKeep
  <2>. QED BY <1>1, <2>1, <2>2, <2>3, RequestsKeep DEF Arrivals
<1>2. ASSUME NEW a \in Actors, Proceed(a)
      PROVE  Keeps /\ Follows
  <2>1. CASE LaunchSteps(a) \/ StartSteps(a)
    BY <2>1, ReadsKeep, QueueStepsKeep DEF LaunchSteps, StartSteps
  <2>2. CASE FinishSteps(a)
    BY <2>2, ReadsKeep, InsertingKeeps, RegisteringKeeps DEF FinishSteps
  <2>3. CASE UndoSteps(a)
    BY <2>3, ReadsKeep, QueueStepsKeep, StoppingKeeps, DeletingKeeps DEF UndoSteps
  <2>4. CASE QueueSteps(a)
    BY <2>4, ReadsKeep, QueueStepsKeep, EnqueueKeeps DEF QueueSteps
  <2>5. CASE EventSteps(a)
    BY <2>5, EventsKeep, CloseWaitingKeeps DEF EventSteps
  <2>6. CASE OrphanSteps(a)
    BY <2>6, QueueStepsKeep, OrphansKeep DEF OrphanSteps
  <2>. QED BY <1>2, <2>1, <2>2, <2>3, <2>4, <2>5, <2>6 DEF Proceed
<1>3. ASSUME NEW a \in Actors, StoreError(a) \/ OrphanStoreError(a)
      PROVE  Keeps /\ RunStep /\ Faults
  BY <1>3, FailingKeeps DEF StoreError, OrphanStoreError
<1>4. CASE Triggers
  BY <1>0, <1>4, TriggersKeep
<1>5. CASE DispatcherSteps
  <2>1. Dispatcher \in Actors
    BY DEF Actors
  <2>. QED BY <1>0, <1>5, <2>1, OrphansKeep, LoggingOrphanKeeps DEF DispatcherSteps
<1>6. ASSUME NEW timer \in timers, TimerFires(timer)
      PROVE  Keeps /\ Follows
  BY <1>6, ExpiringKeeps
<1>7. ASSUME NEW finish \in confirming, Confirm(finish)
      PROVE  Keeps /\ Follows
  BY <1>7, ConfirmingKeeps
<1>8. ASSUME NEW finish \in confirming, ConfirmError(finish)
      PROVE  Keeps /\ RunStep /\ Faults
  BY <1>8, FailedConfirmKeeps DEF ConfirmError
<1>9. CASE Restart
  <2>1. MaxCrashes > 0
    BY <1>9, CourseConstants DEF Restart, TypeInv, SpentOK
  <2>. QED BY <1>9, <2>1, RestartingKeeps
<1>10. CASE UNCHANGED vars
  <2>1. Registering' = Registering /\ Undoing' = Undoing
    BY <1>10 DEF vars, Registering, Undoing, At
  <2>2. Open' = Open
    BY <1>10, <2>1 DEF vars, Open, Unsettled
  <2>3. HandInv'
    <3>1. HandInv
      BY DEF LifeInv
    <3>. QED BY <1>10, <3>1 DEF vars, HandInv, Busy, At, Knows, Fresh, IsRunning,
                               IsReady, IsPending, Listed
  <2>. QED BY <1>0, <1>10, <2>2, <2>3, LooksKeep
           DEF vars, LifeInv, SameRuns, SameRow, NoneCloses
<1>. QED BY <1>0, <1>1, <1>2, <1>3, <1>4, <1>5, <1>6, <1>7, <1>8, <1>9, <1>10
         DEF Next, Grace

LEMMA LifeInvariant ==
  ASSUME Serial
  PROVE  Spec => [](TypeInv /\ FinishInv /\ LifeInv)
<1>1. Init => LifeInv
  BY InitLife
<1>2. TypeInv /\ FinishInv /\ LifeInv /\ [Next]_vars => LifeInv'
  BY NextLife DEF Keeps
<1>. QED BY <1>1, <1>2, TypeInvariant, FinishInvariant, PTL DEF Spec

(***************************************************************************)
(* As long as requests, triggers and timers do not overlap, a row in the   *)
(* waiting list carries no start, whatever fails and however often the     *)
(* server restarts: an undo takes the start off (ClearStart) before it     *)
(* puts the row back (SetQueueStatus), and a failure in between leaves it  *)
(* on course.                                                              *)
(***************************************************************************)
THEOREM WaitingIsUnstarted ==
  ASSUME Serial
  PROVE  Spec => []WaitingHasNoStart
<1>1. LifeInv => WaitingHasNoStart
  BY DEF LifeInv, RunsInv
<1>. QED BY <1>1, LifeInvariant, PTL

(***************************************************************************)
(* Under the same condition a closed event has no car on course.  Closing  *)
(* looks at the course, cancels the waiting rows and closes the event in   *)
(* three statements; and nothing enters a closed event's waiting list.     *)
(***************************************************************************)
THEOREM ClosedIsEmpty ==
  ASSUME Serial
  PROVE  Spec => []ClosedCourseIsEmpty
<1>1. TypeInv /\ LifeInv => ClosedCourseIsEmpty
  BY DEF LifeInv, RunsInv, ClosedIsOver, ClosedCourseIsEmpty, Listed, ListQueue
<1>. QED BY <1>1, LifeInvariant, PTL

(***************************************************************************)
(* Under the same condition the first start a car gets on course is the    *)
(* one it keeps, until an undo takes it off.                               *)
(***************************************************************************)
THEOREM StartIsKept ==
  ASSUME Serial
  PROVE  Spec => FirstStartWins
<1>. DEFINE Stays == \A r \in DOMAIN queue :
        /\ queue[r].status = "on_course" /\ queue[r].tStart # NoTime
        /\ queue'[r].tStart # queue[r].tStart
        => \E a \in Actors : At(a, "clear_start")
<1>1. TypeInv /\ FinishInv /\ LifeInv /\ [Next]_vars => [Stays]_vars
  BY NextLife DEF Keeps, StartsKept
<1>2. FirstStartWins <=> [][Stays]_vars
  BY DEF FirstStartWins
<1>. HIDE DEF Stays
<1>. QED BY <1>1, <1>2, LifeInvariant, PTL DEF Spec

(***************************************************************************)
(* Under the same condition finishCar records a timing only for a car that *)
(* is on course, has started and is not in its grace window: what it       *)
(* checked of the row it read still holds when it writes the log.          *)
(***************************************************************************)
THEOREM TimingIsEarned ==
  ASSUME Serial
  PROVE  Spec => FinishOnlyRunning
<1>. DEFINE Earned == \A g \in logs' \ logs :
        g.row # NoRow =>
          /\ queue[g.row].status = "on_course"
          /\ queue[g.row].tStart # NoTime
          /\ ~IsPending(g.row)
<1>1. TypeInv /\ FinishInv /\ LifeInv /\ [Next]_vars => [Earned]_vars
  BY NextLife DEF Keeps, TimingsEarned
<1>2. FinishOnlyRunning <=> [][Earned]_vars
  BY DEF FinishOnlyRunning
<1>. HIDE DEF Earned
<1>. QED BY <1>1, <1>2, LifeInvariant, PTL DEF Spec

LEMMA TimingsInvariant ==
  ASSUME Serial, ~Faults, MaxCrashes = 0
  PROVE  Spec => []TimingsInv
<1>1. Init => TimingsInv
  BY InitLife
<1>2. TypeInv /\ FinishInv /\ LifeInv /\ TimingsInv /\ [Next]_vars => TimingsInv'
  BY NextLife DEF Follows
<1>. QED BY <1>1, <1>2, LifeInvariant, PTL DEF Spec

(***************************************************************************)
(* If besides nothing fails and the server does not restart, a row that    *)
(* was canceled has no timing: the one timing a row gets stays in the      *)
(* grace window until the row is done, and cancel refuses a pending row.   *)
(***************************************************************************)
THEOREM CanceledIsUntimed ==
  ASSUME Serial, ~Faults, MaxCrashes = 0
  PROVE  Spec => []CanceledHasNoTiming
<1>1. TypeInv /\ LifeInv /\ TimingsInv => CanceledHasNoTiming
  <2>. SUFFICES ASSUME TypeInv, LifeInv, TimingsInv, NEW r \in DOMAIN queue,
                       queue[r].status = "canceled", NEW g \in logs, g.row = r
                PROVE  FALSE
    BY DEF CanceledHasNoTiming, HasTiming
  <2>1. r # NoRow
    BY LenProperties DEF TypeInv, StoreOK, NoRow
  <2>2. g \notin Open
    BY DEF LifeInv, RunsInv, OpenIsRunning, IsRunning
  <2>. QED BY <2>1, <2>2 DEF TimingsInv, SettledIsDone
<1>. QED BY <1>1, LifeInvariant, TimingsInvariant, PTL

(***************************************************************************)
(* Under these conditions no row has two timings: a second finish is       *)
(* refused while the first is in its grace window, and when that is over   *)
(* the row is no longer on course.                                         *)
(***************************************************************************)
THEOREM RunsAreTimedOnce ==
  ASSUME Serial, ~Faults, MaxCrashes = 0
  PROVE  Spec => []TimedOnce
<1>1. TimingsInv => TimedOnce
  BY DEF TimingsInv
<1>. QED BY <1>1, TimingsInvariant, PTL

(***************************************************************************)
(* As long as requests, triggers and timers do not overlap, the course     *)
(* implements RunLifecycle: each row, of any set of rows, makes only the   *)
(* moves of the lifecycle, however many statements the handler behind a    *)
(* move takes.  Failed writes and restarts cut handlers short, and add     *)
(* one move only: a run is forgotten inside its grace window.              *)
(***************************************************************************)
THEOREM CourseFollowsLifecycle ==
  ASSUME Serial
  PROVE  Spec => RunsFollowLifecycle
<1>1. Init => Run!Init
  BY InitLife
<1>2. TypeInv /\ FinishInv /\ LifeInv /\ [Next]_vars => [Run!Next]_<<phases, timingsOf>>
  BY NextLife DEF RunStep
<1>3. RunsFollowLifecycle <=> Run!Init /\ [][Run!Next]_<<phases, timingsOf>>
  BY DEF RunsFollowLifecycle, Run!Spec, Run!lifecycle, phases, timingsOf
<1>. QED BY <1>1, <1>2, <1>3, LifeInvariant, PTL DEF Spec

-----------------------------------------------------------------------------
(***************************************************************************)
(* Whose turn it is.  SightInv is inductive given LifeInv: what a handler  *)
(* has worked out from a list still goes for the table when it acts on it. *)
(***************************************************************************)

(* The steps from which a handler acts on what it has seen of the course   *)
(* or of the waiting list as a whole.                                      *)
UndoOrder == {"clear_start", "undo_pt", "undo_mc", "undo_mode", "requeue",
              "undo_front"}

Sights == {"try_start", "scan", "finish", "insert_log", "clear_start", "undo_pt",
           "undo_mc", "undo_mode", "requeue", "undo_front", "reorder"}

(* The cars of event e a start, or a goal, can be for.                     *)
Armed(e)   == { r \in DOMAIN queue : queue[r].ev = e /\ IsReady(r) }
Running(e) == { r \in DOMAIN queue :
                  queue[r].ev = e /\ IsRunning(r) /\ ~IsPending(r) }

(* The car is a row of its event, in this status, with this id.            *)
IsRowOf(car) == car.id \in DOMAIN queue /\ queue[car.id].ev = car.ev

(* What the handler at each of these steps has in view: of the cars that   *)
(* count, one that is as old as any; of an undone start, its row, and a    *)
(* place before every other one.                                           *)
Sees(c) ==
  /\ c.pc = "try_start" =>
       /\ \A row \in c.todo : Fresh(row) /\ IsReady(row.id)
       /\ \A r \in Armed(c.ev) : \E row \in c.todo : row.id <= r
  /\ c.pc = "scan" => \A r \in Running(c.ev) : queue[r] \in c.todo
  /\ c.pc \in {"finish", "insert_log"} => \A r \in Running(c.ev) : c.car.id <= r
  /\ c.pc \in UndoOrder => c.car.status = "on_course" /\ IsRowOf(c.car)
  /\ c.pc = "undo_front" => queue[c.car.id].status = "waiting"
  /\ c.pc = "reorder" /\ c.car.status = "on_course" =>
       /\ IsRowOf(c.car) /\ queue[c.car.id].status = "waiting"
       /\ \A row \in Listed(c.car.ev, "waiting") : c.n < row.pos

SightInv == \A a \in Actors : Sees(call[a])

OldestIsNext ==
  \A a \in Actors, r \in DOMAIN queue :
    queue[r].ev = call[a].ev /\ queue[r].status = "on_course" =>
      /\ At(a, "try_start") /\ queue[r].tStart = NoTime =>
           \A s \in DOMAIN queue :
             queue'[s].tStart # queue[s].tStart => s <= r
      /\ /\ At(a, "insert_log") /\ logs' # logs
         /\ queue[r].tStart # NoTime /\ ~IsPending(r)
         => call[a].car.id <= r

UndoneIsFirst ==
  \A a \in Actors :
    At(a, "reorder") /\ call[a].car.status = "on_course" /\ queue' # queue =>
      LET r == call[a].car.id
      IN  IsHead(queue'[r], ListQueue(queue', queue[r].ev, "waiting"))

Orders == SightInv' /\ OldestIsNext /\ UndoneIsFirst

(* Where a step of the one handler can break none of this.                 *)
LEMMA SightsKept ==
  ASSUME TypeInv, NEW a \in Actors, Busy \subseteq {a},
         call' = [call EXCEPT ![a] = call'[a]], Sees(call[a])'
  PROVE  SightInv'
<1>1. ASSUME NEW b \in Actors
      PROVE  Sees(call[b])'
  <2>1. CASE b = a
    BY <2>1
  <2>2. CASE b # a
    <3>1. call'[b] = call[b] /\ call[b].pc = "idle"
      BY <2>2 DEF Busy, At, TypeInv, CallsOK
    <3>. QED BY <3>1 DEF Sees, UndoOrder
  <2>. QED BY <2>1, <2>2
<1>. QED BY <1>1 DEF SightInv

LEMMA NothingOrdered ==
  ASSUME NEW a \in Actors, Busy \subseteq {a},
         \/ call[a].pc \notin {"try_start", "insert_log", "reorder"}
         \/ UNCHANGED <<queue, logs>>
  PROVE  OldestIsNext /\ UndoneIsFirst
<1>1. \A b \in Actors : ~At(b, "idle") => b = a
  BY DEF Busy
<1>2. \A b \in Actors : At(b, "try_start") \/ At(b, "insert_log") \/ At(b, "reorder")
                          => b = a
  BY <1>1 DEF At
<1>. QED BY <1>2 DEF OldestIsNext, UndoneIsFirst, At

(* A step that leads to none of those, and does not order anything itself. *)
Blind(a) ==
  /\ call' = [call EXCEPT ![a] = call'[a]]
  /\ call'[a].pc \notin Sights
  /\ call[a].pc \in {"try_start", "insert_log", "reorder"} => UNCHANGED <<queue, logs>>

LEMMA BlindOrders ==
  ASSUME TypeInv, NEW a \in Actors, Busy \subseteq {a}, Blind(a)
  PROVE  Orders
<1>1. Sees(call[a])'
  BY DEF Blind, Sees, Sights, UndoOrder
<1>. QED BY <1>1, SightsKept, NothingOrdered DEF Blind, Orders

LEMMA RequestsOrder ==
  ASSUME Serial, TypeInv, LifeInv, NEW a \in Actors,
         \/ BeginLaunch(a) \/ BeginMyLaunch(a) \/ BeginStartOldest(a)
         \/ BeginFinishOldest(a) \/ BeginCancel(a) \/ BeginUndoStart(a)
         \/ BeginMyLaunchUndo(a) \/ BeginPT(a) \/ BeginMC(a)
         \/ BeginQueueAdd(a) \/ BeginMyQueueAdd(a) \/ BeginQueueCancel(a)
         \/ BeginMyQueueCancel(a) \/ BeginAdopt(a) \/ BeginClose(a)
         \/ BeginSettings(a)
  PROVE  Orders
<1>0. a \in DOMAIN call /\ call \in [Actors -> Call]
  BY DEF TypeInv, CallsOK
<1>. DEFINE Begun == /\ call' = [call EXCEPT ![a] = call'[a]]
                    /\ call'[a].pc \notin Sights
<1>a. PICK kind : Admit(a, kind)
  BY DEF Arrive, BeginLaunch, BeginMyLaunch, BeginStartOldest, BeginFinishOldest,
         BeginCancel, BeginUndoStart, BeginMyLaunchUndo, BeginPT,
         BeginMC, BeginQueueAdd, BeginMyQueueAdd, BeginQueueCancel,
         BeginMyQueueCancel, BeginAdopt, BeginClose, BeginSettings
<1>b. Busy = {} /\ call[a].pc = "idle"
  BY <1>a, QuietIsIdle DEF Admit, At
<1>. SUFFICES Begun
  BY <1>b, BlindOrders DEF Blind
<1>1. CASE BeginLaunch(a)
  <2>1. \E e, t : call' = [call EXCEPT ![a] =
                       [NoCall EXCEPT !.pc = "list_head", !.ev = e, !.t = t]]
    BY <1>1 DEF BeginLaunch, Arrive
  <2>. QED BY <1>0, <2>1 DEF NoCall, Sights
<1>2. CASE BeginMyLaunch(a)
  BY <1>0, <1>2 DEF BeginMyLaunch, Arrive, NoCall, Sights
<1>3. CASE BeginStartOldest(a)
  BY <1>0, <1>3 DEF BeginStartOldest, Arrive, NoCall, Sights
<1>4. CASE BeginFinishOldest(a)
  BY <1>0, <1>4 DEF BeginFinishOldest, Arrive, NoCall, Sights
<1>5. CASE BeginCancel(a)
  BY <1>0, <1>5 DEF BeginCancel, Arrive, NoCall, Sights
<1>6. CASE BeginUndoStart(a)
  BY <1>0, <1>6 DEF BeginUndoStart, Arrive, NoCall, Sights
<1>7. CASE BeginMyLaunchUndo(a)
  BY <1>0, <1>7 DEF BeginMyLaunchUndo, Arrive, NoCall, Sights
<1>8. CASE BeginPT(a)
  BY <1>0, <1>8 DEF BeginPT, Arrive, NoCall, Sights
<1>9. CASE BeginMC(a)
  BY <1>0, <1>9 DEF BeginMC, Arrive, NoCall, Sights
<1>10. CASE BeginQueueAdd(a)
  BY <1>0, <1>10 DEF BeginQueueAdd, Arrive, NoCall, Sights
<1>11. CASE BeginMyQueueAdd(a)
  BY <1>0, <1>11 DEF BeginMyQueueAdd, Arrive, NoCall, Sights
<1>12. CASE BeginQueueCancel(a)
  BY <1>0, <1>12 DEF BeginQueueCancel, Arrive, NoCall, Sights
<1>13. CASE BeginMyQueueCancel(a)
  BY <1>0, <1>13 DEF BeginMyQueueCancel, Arrive, NoCall, Sights
<1>14. CASE BeginAdopt(a)
  BY <1>0, <1>14 DEF BeginAdopt, Arrive, NoCall, Sights
<1>15. CASE BeginClose(a)
  BY <1>0, <1>15 DEF BeginClose, Arrive, NoCall, Sights
<1>16. CASE BeginSettings(a)
  BY <1>0, <1>16 DEF BeginSettings, Arrive, NoCall, Sights
<1>. QED
  BY <1>1, <1>2, <1>3, <1>4, <1>5, <1>6, <1>7, <1>8, <1>9, <1>10,
     <1>11, <1>12, <1>13, <1>14, <1>15, <1>16

(* So does a handler whose next step is none of those.                     *)
LEMMA StepsOrder ==
  ASSUME TypeInv, LifeInv, NEW a \in Actors,
         \/ ListHead(a) \/ MyNotOnCourse(a) \/ MyTurn(a) \/ Claim(a)
         \/ LaunchStamp(a) \/ NoRunningCar(a) \/ Register(a)
         \/ UndoGoalStop(a) \/ UndoGoalDelete(a) \/ CheckCancel(a)
         \/ Cancel(a) \/ ListMine(a) \/ AddPT(a) \/ ToggleMC(a)
         \/ MyNotWaiting(a) \/ MyNotRunning(a) \/ EnqueueRow(a)
         \/ MyQueueCancel(a) \/ CloseWaiting(a) \/ CloseEvent(a)
         \/ PutSettings(a) \/ AdoptTake(a) \/ AdoptClaim(a)
         \/ AdoptStamp(a) \/ AdoptRollback(a) \/ RestoreOrphan(a)
  PROVE  Orders
<1>0. a \in DOMAIN call /\ call \in [Actors -> Call]
  BY DEF TypeInv, CallsOK
<1>. DEFINE Clean == /\ call[a].pc \notin {"idle", "try_start", "insert_log", "reorder"}
                    /\ call' = [call EXCEPT ![a] = call'[a]]
                    /\ call'[a].pc \notin Sights
<1>. SUFFICES Clean
  BY Sole, BlindOrders DEF At, Blind
<1>r. ASSUME Return(a)
      PROVE  call' = [call EXCEPT ![a] = call'[a]] /\ call'[a].pc \notin Sights
  BY <1>0, <1>r DEF Return, NoCall, Sights
<1>p. ASSUME NEW row, NEW pc, call' = [call EXCEPT ![a].car = row, ![a].pc = pc]
      PROVE  call' = [call EXCEPT ![a] = call'[a]] /\ call'[a].pc = pc
  BY <1>0, <1>p DEF Call
<1>1. CASE ListHead(a)
  <2>1. \E row, pc : /\ pc \in {"claim", "adopt_take"}
                     /\ \/ Return(a)
                        \/ call' = [call EXCEPT ![a].car = row, ![a].pc = pc]
    BY <1>1 DEF ListHead
  <2>. QED BY <1>r, <1>p, <1>1, <2>1 DEF ListHead, At, Sights
<1>2. CASE MyNotOnCourse(a)
  BY <1>0, <1>2 DEF MyNotOnCourse, At, Return, Goto, NoCall, Call, Sights
<1>3. CASE MyTurn(a)
  <2>1. \E row, pc : /\ pc \in {"claim"}
                     /\ \/ Return(a)
                        \/ call' = [call EXCEPT ![a].car = row, ![a].pc = pc]
    BY <1>3 DEF MyTurn
  <2>. QED BY <1>r, <1>p, <1>3, <2>1 DEF MyTurn, At, Sights
<1>4. CASE Claim(a)
  BY <1>0, <1>4 DEF Claim, At, Return, Goto, NoCall, Call, Sights
<1>5. CASE LaunchStamp(a)
  BY <1>0, <1>5 DEF LaunchStamp, At, Return, Goto, NoCall, Call, Sights
<1>6. CASE NoRunningCar(a)
  BY <1>0, <1>6 DEF NoRunningCar, At, Return, Goto, NoCall, Call, Sights
<1>7. CASE Register(a)
  BY <1>0, <1>7 DEF Register, At, Return, Goto, NoCall, Call, Sights
<1>8. CASE UndoGoalStop(a)
  BY <1>0, <1>8 DEF UndoGoalStop, At, Return, Goto, NoCall, Call, Sights
<1>9. CASE UndoGoalDelete(a)
  BY <1>0, <1>9 DEF UndoGoalDelete, At, Return, Goto, NoCall, Call, Sights
<1>10. CASE CheckCancel(a)
  BY <1>0, <1>10 DEF CheckCancel, At, Return, Goto, NoCall, Call, Sights
<1>11. CASE Cancel(a)
  BY <1>0, <1>11 DEF Cancel, At, Return, Goto, NoCall, Call, Sights
<1>12. CASE ListMine(a)
  <2>1. \E row, pc : /\ pc \in {"check_undo"}
                     /\ \/ Return(a)
                        \/ call' = [call EXCEPT ![a].car = row, ![a].pc = pc]
    BY <1>12 DEF ListMine
  <2>. QED BY <1>r, <1>p, <1>12, <2>1 DEF ListMine, At, Sights
<1>13. CASE AddPT(a)
  BY <1>0, <1>13 DEF AddPT, At, Return, Goto, NoCall, Call, Sights
<1>14. CASE ToggleMC(a)
  BY <1>0, <1>14 DEF ToggleMC, At, Return, Goto, NoCall, Call, Sights
<1>15. CASE MyNotWaiting(a)
  BY <1>0, <1>15 DEF MyNotWaiting, At, Return, Goto, NoCall, Call, Sights
<1>16. CASE MyNotRunning(a)
  BY <1>0, <1>16 DEF MyNotRunning, At, Return, Goto, NoCall, Call, Sights
<1>17. CASE EnqueueRow(a)
  BY <1>0, <1>17 DEF EnqueueRow, At, Return, Goto, NoCall, Call, Sights
<1>18. CASE MyQueueCancel(a)
  <2>1. \E row, pc : /\ pc \in {"cancel"}
                     /\ \/ Return(a)
                        \/ call' = [call EXCEPT ![a].car = row, ![a].pc = pc]
    BY <1>18 DEF MyQueueCancel
  <2>. QED BY <1>r, <1>p, <1>18, <2>1 DEF MyQueueCancel, At, Sights
<1>19. CASE CloseWaiting(a)
  BY <1>0, <1>19 DEF CloseWaiting, At, Return, Goto, NoCall, Call, Sights
<1>20. CASE CloseEvent(a)
  BY <1>0, <1>20 DEF CloseEvent, At, Return, Goto, NoCall, Call, Sights
<1>21. CASE PutSettings(a)
  BY <1>0, <1>21 DEF PutSettings, At, Return, Goto, NoCall, Call, Sights
<1>22. CASE AdoptTake(a)
  <2>1. \/ Return(a)
        \/ \E run : call' = [call EXCEPT ![a].pc = "adopt_claim", ![a].run = run]
    BY <1>22 DEF AdoptTake
  <2>2. ASSUME NEW run, call' = [call EXCEPT ![a].pc = "adopt_claim", ![a].run = run]
        PROVE  call' = [call EXCEPT ![a] = call'[a]] /\ call'[a].pc = "adopt_claim"
    BY <1>0, <2>2 DEF Call
  <2>. QED BY <1>r, <1>22, <2>1, <2>2 DEF AdoptTake, At, Sights
<1>23. CASE AdoptClaim(a)
  BY <1>0, <1>23 DEF AdoptClaim, At, Return, Goto, NoCall, Call, Sights
<1>24. CASE AdoptStamp(a)
  BY <1>0, <1>24 DEF AdoptStamp, At, Return, Goto, NoCall, Call, Sights
<1>25. CASE AdoptRollback(a)
  BY <1>0, <1>25 DEF AdoptRollback, At, Return, Goto, NoCall, Call, Sights
<1>26. CASE RestoreOrphan(a)
  BY <1>0, <1>26 DEF RestoreOrphan, At, Return, Goto, NoCall, Call, Sights
<1>. QED
  BY <1>1, <1>2, <1>3, <1>4, <1>5, <1>6, <1>7, <1>8, <1>9, <1>10,
     <1>11, <1>12, <1>13, <1>14, <1>15, <1>16, <1>17, <1>18, <1>19,
     <1>20, <1>21, <1>22, <1>23, <1>24, <1>25, <1>26

LEMMA GivingUpOrders ==
  ASSUME TypeInv, LifeInv, NEW a \in Actors,
         NoReadyCar(a) \/ StoreError(a) \/ OrphanStoreError(a)
  PROVE  Orders
<1>0. a \in DOMAIN call /\ call \in [Actors -> Call]
  BY DEF TypeInv, CallsOK
<1>1. ~At(a, "idle") /\ UNCHANGED <<queue, logs>>
  BY DEF NoReadyCar, StoreError, OrphanStoreError, WriteSteps, At, OnlyCall, store
<1>2. call' = [call EXCEPT ![a] = call'[a]] /\ call'[a].pc \notin Sights
  <2>1. CASE NoReadyCar(a)
    BY <1>0, <2>1 DEF NoReadyCar, At, Return, Goto, NoCall, Call, Sights
  <2>2. CASE StoreError(a)
    BY <1>0, <2>2 DEF StoreError, Return, NoCall, Sights
  <2>3. CASE OrphanStoreError(a)
    BY <1>0, <2>3 DEF OrphanStoreError, At, Goto, Call, Sights
  <2>. QED BY <2>1, <2>2, <2>3
<1>. QED BY <1>1, <1>2, Sole, BlindOrders DEF Blind

LEMMA TriggersOrder ==
  ASSUME Serial, TypeInv, LifeInv, Triggers
  PROVE  Orders
<1>0. Dispatcher \in Actors /\ Dispatcher \in DOMAIN call /\ call \in [Actors -> Call]
  BY DEF Actors, TypeInv, CallsOK
<1>1. Busy = {} /\ call[Dispatcher].pc = "idle"
  BY QuietIsIdle DEF Triggers, BeginSensorStart, BeginSensorGoal, TriggerArrives, At
<1>2. call' = [call EXCEPT ![Dispatcher] = call'[Dispatcher]]
      /\ call'[Dispatcher].pc \notin Sights
  <2>1. CASE BeginSensorStart
    BY <1>0, <2>1 DEF BeginSensorStart, TriggerArrives, NoCall, Sights
  <2>2. CASE BeginSensorGoal
    BY <1>0, <2>2 DEF BeginSensorGoal, TriggerArrives, NoCall, Sights
  <2>. QED BY <2>1, <2>2 DEF Triggers
<1>. QED BY <1>0, <1>1, <1>2, BlindOrders DEF Blind

LEMMA DispatcherOrders ==
  ASSUME TypeInv, LifeInv, DispatcherSteps
  PROVE  Orders
<1>0. Dispatcher \in Actors /\ Dispatcher \in DOMAIN call /\ call \in [Actors -> Call]
  BY DEF Actors, TypeInv, CallsOK
<1>1. call[Dispatcher].pc \in {"push_orphan", "pop_orphan", "log_orphan"}
  BY DEF DispatcherSteps, PushOrphan, PopOrphan, LogOrphan, At
<1>2. call' = [call EXCEPT ![Dispatcher] = call'[Dispatcher]]
      /\ call'[Dispatcher].pc \notin Sights
  <2>1. CASE PushOrphan
    BY <1>0, <2>1 DEF PushOrphan, Return, NoCall, Sights
  <2>2. CASE PopOrphan
    BY <1>0, <2>2 DEF PopOrphan, Return, NoCall, Call, Sights
  <2>3. CASE LogOrphan
    BY <1>0, <2>3 DEF LogOrphan, Return, NoCall, Sights
  <2>. QED BY <2>1, <2>2, <2>3 DEF DispatcherSteps
<1>. QED BY <1>0, <1>1, <1>2, Sole, BlindOrders DEF Blind, At

(* And so do the steps of no handler, or of one that is over at once.      *)
LEMMA OthersOrder ==
  ASSUME Serial, TypeInv, LifeInv,
         \/ \E a \in Actors : BeginUndoGoal(a) \/ DismissOrphan(a) \/ CreateEvent(a)
         \/ Grace
         \/ Restart
  PROVE  Orders
<1>0. call \in [Actors -> Call]
  BY DEF TypeInv, CallsOK
<1>1. \A b \in Actors : call'[b].pc \notin Sights
  <2>1. CASE \E a \in Actors : BeginUndoGoal(a)
    <3>1. PICK a \in Actors : BeginUndoGoal(a)
      BY <2>1
    <3>2. Busy = {}
      BY <3>1, QuietIsIdle DEF BeginUndoGoal, Admit
    <3>3. \A b \in Actors : call'[b].pc \in {"idle", "undo_stop"}
      BY <1>0, <3>1, <3>2 DEF BeginUndoGoal, NoCall, Busy, At
    <3>. QED BY <3>3 DEF Sights
  <2>2. CASE Busy = {} /\ call' = call
    BY <2>2 DEF Busy, At, Sights
  <2>3. CASE Restart
    BY <2>3 DEF Restart, NoCall, Sights
  <2>4. \A a \in Actors : DismissOrphan(a) \/ CreateEvent(a) => Busy = {} /\ call' = call
    BY QuietIsIdle DEF DismissOrphan, CreateEvent, Admit
  <2>5. Grace => Busy = {} /\ call' = call
    BY QuietIsIdle DEF Grace, TimerFires, Confirm, ConfirmError, LifeInv, HandInv
  <2>. QED BY <2>1, <2>2, <2>3, <2>4, <2>5
<1>2. UNCHANGED <<queue, logs>> \/ Busy = {}
  BY QuietIsIdle DEF Grace, TimerFires, Confirm, ConfirmError, LifeInv, HandInv,
     BeginUndoGoal, DismissOrphan, CreateEvent, Restart, Admit, store
<1>3. OldestIsNext /\ UndoneIsFirst
  BY <1>2 DEF OldestIsNext, UndoneIsFirst, Busy, At
<1>4. SightInv'
  BY <1>1 DEF SightInv, Sees, Sights, UndoOrder
<1>. QED BY <1>3, <1>4 DEF Orders

-----------------------------------------------------------------------------
(* The steps that look, and the ones they lead to.                         *)

LEMMA SightedOrders ==
  ASSUME TypeInv, NEW a \in Actors, Busy \subseteq {a},
         call' = [call EXCEPT ![a] = call'[a]], Sees(call[a])',
         \/ call[a].pc \notin {"try_start", "insert_log", "reorder"}
         \/ UNCHANGED <<queue, logs>>
  PROVE  Orders
BY SightsKept, NothingOrdered DEF Orders

LEMMA LookingOrders ==
  ASSUME TypeInv, NEW a \in Actors, Busy \subseteq {a},
         call' = [call EXCEPT ![a] = call'[a]], Sees(call'[a]),
         UNCHANGED <<queue, logs, pending>>
  PROVE  Orders
<1>1. Sees(call[a])'
  BY DEF Sees, Fresh, IsReady, IsRunning, IsPending, Armed, Running, IsRowOf, Listed
<1>. QED BY <1>1, SightedOrders

(* A handler that returns sees nothing any more.                           *)
LEMMA ReturningSees ==
  ASSUME TypeInv, NEW a \in Actors, Return(a)
  PROVE  Sees(call'[a]) /\ Sees(call[a])' /\ call' = [call EXCEPT ![a] = call'[a]]
<1>1. call'[a].pc = "idle" /\ call' = [call EXCEPT ![a] = call'[a]]
  BY ReturningKnows
<1>. QED BY <1>1 DEF Sees, UndoOrder

LEMMA OwnRequestsOrder ==
  ASSUME Serial, TypeInv, LifeInv, NEW a \in Actors,
         BeginFinishByID(a) \/ BeginReorder(a)
  PROVE  Orders
<1>0. a \in DOMAIN call /\ call \in [Actors -> Call]
  BY DEF TypeInv, CallsOK
<1>1. Busy = {} /\ UNCHANGED <<queue, logs, pending>>
  BY QuietIsIdle DEF BeginFinishByID, BeginReorder, Arrive, Admit, store, memory
<1>2. CASE BeginFinishByID(a)
  <2>1. PICK r, t : call' = [call EXCEPT ![a] =
                       [NoCall EXCEPT !.pc = "finish", !.car = queue[r], !.t = t]]
    BY <1>2 DEF BeginFinishByID, Arrive
  <2>2. /\ call'[a].pc = "finish" /\ call'[a].ev = 0
        /\ call' = [call EXCEPT ![a] = call'[a]]
    BY <1>0, <2>1 DEF NoCall
  <2>3. Running(0) = {}
    <3>1. queue \in [DOMAIN queue -> QueueRow]
      BY LenProperties DEF TypeInv, StoreOK
    <3>. QED BY <3>1, QueueConstants DEF Running, QueueRow
  <2>4. Sees(call'[a])
    BY <2>2, <2>3 DEF Sees, UndoOrder
  <2>. QED BY <1>1, <2>2, <2>4, LookingOrders
<1>3. CASE BeginReorder(a)
  <2>1. PICK r \in DOMAIN queue, n \in ReorderTo :
          /\ queue[r].status = "waiting"
          /\ call' = [call EXCEPT ![a] =
               [NoCall EXCEPT !.pc = "reorder", !.car = queue[r], !.n = n]]
    BY <1>3 DEF BeginReorder, Arrive
  <2>2. /\ call'[a].pc = "reorder" /\ call'[a].car.status = "waiting"
        /\ call' = [call EXCEPT ![a] = call'[a]]
    BY <1>0, <2>1 DEF NoCall
  <2>3. Sees(call'[a])
    BY <2>2 DEF Sees, UndoOrder
  <2>. QED BY <1>1, <2>2, <2>3, LookingOrders
<1>. QED BY <1>2, <1>3

(* A start goes to the oldest READY car.                                   *)
LEMMA StartingOrders ==
  ASSUME TypeInv, LifeInv, SightInv, NEW a \in Actors, ListReady(a) \/ TryStart(a)
  PROVE  Orders
<1>0. /\ call \in [Actors -> Call] /\ call[a] \in Call /\ RowsNumbered
      /\ Sees(call[a]) /\ Busy \subseteq {a} /\ DOMAIN queue \subseteq Nat
  <2>1. ~At(a, "idle")
    BY DEF ListReady, TryStart, At
  <2>. QED BY <2>1, Sole, LenProperties
           DEF TypeInv, StoreOK, CallsOK, LifeInv, RunsInv, SightInv
<1>1. CASE ListReady(a)
  <2>. DEFINE e == call[a].ev
              ready == { row \in Listed(e, "on_course") : row.tStart = NoTime }
              todo  == IF a = Dispatcher
                       THEN ready ELSE { row \in ready : IsOldest(row, ready) }
  <2>1. /\ call' = [call EXCEPT ![a].pc = "try_start", ![a].todo = todo]
        /\ UNCHANGED <<queue, logs, pending>>
    BY <1>1 DEF ListReady, OnlyCall, store, memory
  <2>. HIDE DEF todo
  <2>2. /\ call' = [call EXCEPT ![a] = call'[a]] /\ call'[a].pc = "try_start"
        /\ call'[a].todo = todo /\ call'[a].ev = e
    BY <1>0, <2>1 DEF Call
  <2>3. ASSUME NEW row \in ready
        PROVE  Fresh(row) /\ IsReady(row.id) /\ row.id \in Nat
    <3>1. Fresh(row) /\ row.status = "on_course"
      BY <1>0, ListedFresh
    <3>. QED BY <1>0, <3>1 DEF Fresh, IsReady
  <2>4. \A r \in Armed(e) : queue[r] \in ready /\ queue[r].id = r
    BY <1>0 DEF Armed, IsReady, RowsNumbered, Listed, ListQueue
  <2>5. ASSUME NEW r \in Armed(e)
        PROVE  \E row \in todo : row.id <= r
    <3>1. CASE a = Dispatcher
      <4>1. queue[r] \in todo /\ queue[r].id = r /\ r \in Nat
        BY <1>0, <2>4, <3>1 DEF todo, Armed
      <4>2. queue[r].id <= r
        BY <4>1
      <4>. QED BY <4>1, <4>2
    <3>2. CASE a # Dispatcher
      <4>. DEFINE ids == { row.id : row \in ready }
      <4>1. ids \in SUBSET Nat /\ r \in ids
        BY <2>3, <2>4
      <4>2. PICK n \in ids : \A m \in ids : n <= m
        <5>. HIDE DEF ids
        <5>. QED BY <4>1, LeastNatural
      <4>3. PICK row \in ready : row.id = n
        BY <4>2
      <4>4. IsOldest(row, ready) /\ row.id <= r
        BY <4>1, <4>2, <4>3 DEF IsOldest
      <4>. QED BY <3>2, <4>4 DEF todo, IsOldest
    <3>. QED BY <3>1, <3>2
  <2>6. Sees(call'[a])
    <3>1. todo \subseteq ready
      BY DEF todo
    <3>. HIDE DEF ready
    <3>. QED BY <2>2, <2>3, <2>5, <3>1 DEF Sees, UndoOrder
  <2>. QED BY <1>0, <2>1, <2>2, <2>6, LookingOrders
<1>2. CASE TryStart(a)
  <2>1. PICK row \in call[a].todo :
          /\ IsOldest(row, call[a].todo)
          /\ StartIsUnset(queue, row.id) =>
               queue' = SetStart(queue, row.id, call[a].t) /\ Return(a)
    BY <1>2 DEF TryStart
  <2>2. call[a].pc = "try_start" /\ UNCHANGED logs
    BY <1>2 DEF TryStart, At, OnlyQueue
  <2>3. Fresh(row) /\ IsReady(row.id)
    BY <1>0, <2>2 DEF Sees
  <2>4. queue' = SetStart(queue, row.id, call[a].t) /\ Return(a)
    BY <2>1, <2>3 DEF StartIsUnset, IsReady
  <2>5. \A s \in DOMAIN queue : s # row.id => queue'[s].tStart = queue[s].tStart
    BY <2>4 DEF SetStart
  <2>6. \A r \in Armed(call[a].ev) : row.id <= r
    <3>1. \A s \in call[a].todo : s.id \in Nat /\ row.id <= s.id
      BY <1>0, <2>1, <2>2 DEF Sees, Fresh, IsOldest
    <3>. QED BY <1>0, <2>2, <3>1 DEF Sees, Armed
  <2>7. \A b \in Actors : ~At(b, "idle") => b = a
    BY <1>0 DEF Busy
  <2>8. OldestIsNext
    BY <2>2, <2>5, <2>6, <2>7 DEF OldestIsNext, At, Armed, IsReady
  <2>9. UndoneIsFirst
    BY <2>2, <2>7 DEF UndoneIsFirst, At
  <2>. QED BY <1>0, <2>4, <2>8, <2>9, ReturningSees, SightsKept DEF Orders
<1>. QED BY <1>1, <1>2

(* A goal goes to the oldest RUNNING car: the scan passes over the others. *)
LEMMA FinishingOrders ==
  ASSUME TypeInv, LifeInv, SightInv, NEW a \in Actors,
         ListCourse(a) \/ ScanNext(a) \/ CheckFinish(a) \/ InsertLog(a)
  PROVE  Orders
<1>0. /\ call \in [Actors -> Call] /\ call[a] \in Call /\ RowsNumbered
      /\ Sees(call[a]) /\ Knows(call[a]) /\ Busy \subseteq {a}
      /\ DOMAIN queue \subseteq Nat
  <2>1. ~At(a, "idle")
    BY DEF ListCourse, ScanNext, CheckFinish, InsertLog, At
  <2>. QED BY <2>1, Sole, LenProperties
           DEF TypeInv, StoreOK, CallsOK, LifeInv, RunsInv, HandInv, SightInv
<1>. DEFINE e == call[a].ev
<1>1. CASE ListCourse(a)
  <2>1. /\ call' = [call EXCEPT ![a].pc = "scan", ![a].todo = Listed(e, "on_course")]
        /\ UNCHANGED <<queue, logs, pending>>
    BY <1>1 DEF ListCourse, OnlyCall, store, memory
  <2>2. /\ call' = [call EXCEPT ![a] = call'[a]] /\ call'[a].pc = "scan"
        /\ call'[a].todo = Listed(e, "on_course") /\ call'[a].ev = e
    BY <1>0, <2>1 DEF Call
  <2>3. \A r \in Running(e) : queue[r] \in Listed(e, "on_course")
    BY DEF Running, IsRunning, Listed, ListQueue
  <2>4. Sees(call'[a])
    BY <2>2, <2>3 DEF Sees, UndoOrder
  <2>. QED BY <1>0, <2>1, <2>2, <2>4, LookingOrders
<1>2. CASE ScanNext(a)
  <2>1. PICK row \in call[a].todo :
          /\ IsOldest(row, call[a].todo)
          /\ IF row.tStart = NoTime \/ IsPending(row.id)
             THEN call' = [call EXCEPT ![a].todo = @ \ {row}]
             ELSE call' = [call EXCEPT ![a].todo = {}, ![a].car = row,
                                       ![a].pc = "finish"]
    BY <1>2 DEF ScanNext
  <2>2. call[a].pc = "scan" /\ UNCHANGED <<queue, logs, pending>>
    BY <1>2 DEF ScanNext, At, OnlyCall, store, memory
  <2>3. \A r \in Running(e) : queue[r] \in call[a].todo
    BY <1>0, <2>2 DEF Sees
  <2>4. \A r \in Running(e) : queue[r].id = r /\ r \in Nat
    BY <1>0 DEF Running, RowsNumbered
  <2>5. CASE row.tStart = NoTime \/ IsPending(row.id)
    <3>1. call' = [call EXCEPT ![a].todo = @ \ {row}]
      BY <2>1, <2>5
    <3>2. /\ call' = [call EXCEPT ![a] = call'[a]] /\ call'[a].pc = "scan"
          /\ call'[a].todo = call[a].todo \ {row} /\ call'[a].ev = e
      BY <1>0, <2>2, <3>1 DEF Call
    <3>3. \A r \in Running(e) : queue[r] # row
      BY <2>4, <2>5 DEF Running, IsRunning
    <3>4. Sees(call'[a])
      BY <2>3, <3>2, <3>3 DEF Sees, UndoOrder
    <3>. QED BY <1>0, <2>2, <3>2, <3>4, LookingOrders
  <2>6. CASE ~(row.tStart = NoTime \/ IsPending(row.id))
    <3>1. call' = [call EXCEPT ![a].todo = {}, ![a].car = row, ![a].pc = "finish"]
      BY <2>1, <2>6
    <3>2. /\ call' = [call EXCEPT ![a] = call'[a]] /\ call'[a].pc = "finish"
          /\ call'[a].car = row /\ call'[a].ev = e
      BY <1>0, <3>1 DEF Call
    <3>3. \A r \in Running(e) : row.id <= r
      BY <2>1, <2>3, <2>4 DEF IsOldest
    <3>4. Sees(call'[a])
      BY <3>2, <3>3 DEF Sees, UndoOrder
    <3>. QED BY <1>0, <2>2, <3>2, <3>4, LookingOrders
  <2>. QED BY <2>5, <2>6
<1>3. CASE CheckFinish(a)
  <2>1. /\ call[a].pc = "finish" /\ UNCHANGED <<queue, logs, pending>>
        /\ Return(a) \/ Goto(a, "insert_log")
    BY <1>3 DEF CheckFinish, At, OnlyCall, store, memory
  <2>2. CASE Goto(a, "insert_log")
    <3>1. /\ call' = [call EXCEPT ![a] = call'[a]] /\ call'[a].pc = "insert_log"
          /\ call'[a].car = call[a].car /\ call'[a].ev = e
      BY <2>2, MovingOnKnows
    <3>2. Sees(call'[a])
      BY <1>0, <2>1, <3>1 DEF Sees, UndoOrder
    <3>. QED BY <1>0, <2>1, <3>1, <3>2, LookingOrders
  <2>. QED BY <1>0, <2>1, <2>2, ReturningSees, LookingOrders
<1>4. CASE InsertLog(a)
  <2>1. /\ call[a].pc = "insert_log" /\ UNCHANGED <<queue, pending>>
        /\ call' = [call EXCEPT ![a].pc = "register", ![a].log = logSeq + 1]
    BY <1>4 DEF InsertLog, At, memory
  <2>2. call' = [call EXCEPT ![a] = call'[a]] /\ call'[a].pc = "register"
    BY <1>0, <2>1 DEF Call
  <2>3. \A b \in Actors : ~At(b, "idle") => b = a
    BY <1>0 DEF Busy
  <2>4. \A r \in Running(e) : call[a].car.id <= r
    BY <1>0, <2>1 DEF Sees
  <2>5. OldestIsNext
    BY <2>1, <2>3, <2>4 DEF OldestIsNext, At, Running, IsRunning
  <2>6. UndoneIsFirst
    BY <2>1, <2>3 DEF UndoneIsFirst, At
  <2>7. Sees(call[a])'
    BY <2>2 DEF Sees, UndoOrder
  <2>. QED BY <1>0, <2>2, <2>5, <2>6, <2>7, SightsKept DEF Orders
<1>. QED BY <1>1, <1>2, <1>3, <1>4

(* A row that is moved before all others of its list is at its head, also  *)
(* where the move has the list renumbered.                                 *)
LEMMA MovedToFront ==
  ASSUME NEW q \in Seq(QueueRow), NEW r \in DOMAIN q, NEW n \in Int,
         \A i \in DOMAIN q : q[i].id = i,
         q[r].status = "waiting",
         \A row \in ListQueue(q, q[r].ev, "waiting") : n < row.pos
  PROVE  LET p == Reorder(q, r, n)
         IN  IsHead(p[r], ListQueue(p, q[r].ev, "waiting"))
<1>. DEFINE ev == q[r].ev
            moved == [q EXCEPT ![r].pos = n]
            waiting == ListQueue(moved, ev, "waiting")
            Is(i) == q[i].ev = ev /\ q[i].status = "waiting"
            f == [ i \in DOMAIN q |->
                     IF moved[i] \in waiting
                     THEN [moved[i] EXCEPT !.pos = Rank(moved[i], waiting)]
                     ELSE moved[i] ]
<1>1. q \in [DOMAIN q -> QueueRow] /\ DOMAIN q \subseteq Nat
  BY LenProperties
<1>2. /\ DOMAIN moved = DOMAIN q /\ moved \in Seq(QueueRow)
      /\ \A i \in DOMAIN q : /\ moved[i] \in QueueRow /\ moved[i].id = i
                             /\ moved[i].ev = q[i].ev /\ moved[i].status = q[i].status
                             /\ moved[i].pos = IF i = r THEN n ELSE q[i].pos
  <2>1. \A i \in DOMAIN q : /\ moved[i] \in QueueRow /\ moved[i].id = i
                            /\ moved[i].ev = q[i].ev /\ moved[i].status = q[i].status
                            /\ moved[i].pos = IF i = r THEN n ELSE q[i].pos
    BY <1>1 DEF QueueRow
  <2>2. DOMAIN moved = DOMAIN q /\ moved = [ i \in DOMAIN q |-> moved[i] ]
    OBVIOUS
  <2>3. moved \in Seq(QueueRow)
    <3>. HIDE DEF moved
    <3>. QED BY <2>1, <2>2, Rewritten
  <2>. QED BY <2>1, <2>2, <2>3
<1>3. \A i \in DOMAIN q : Is(i) => Ahead(moved[r], moved[i])
  <2>1. \A i \in DOMAIN q : Is(i) => n < q[i].pos
    BY DEF ListQueue
  <2>. HIDE DEF moved
  <2>. QED BY <1>1, <1>2, <2>1 DEF Ahead
<1>. HIDE DEF moved
<1>4. /\ \A i \in DOMAIN q : Is(i) => moved[i] \in waiting
      /\ \A row \in waiting : \E i \in DOMAIN q : Is(i) /\ row = moved[i]
      /\ waiting \in SUBSET QueueRow /\ IsFiniteSet(waiting)
  <2>1. waiting \in SUBSET QueueRow /\ IsFiniteSet(waiting)
    BY <1>2, ListedRows
  <2>. QED BY <1>2, <2>1 DEF ListQueue
<1>5. CASE ~Crowded(waiting)
  <2>1. Reorder(q, r, n) = moved
    BY <1>5 DEF Reorder, moved
  <2>. QED BY <1>3, <1>4, <2>1 DEF IsHead
<1>6. CASE Crowded(waiting)
  <2>1. Reorder(q, r, n) = f
    BY <1>6 DEF Reorder, moved
  <2>2. DOMAIN f = DOMAIN q
    OBVIOUS
  <2>3. \A i \in DOMAIN q : f[i].ev = q[i].ev /\ f[i].status = q[i].status
    <3>. HIDE DEF waiting
    <3>. QED BY <1>2 DEF QueueRow
  <2>4. \A i \in DOMAIN q : Is(i) =>
          f[i].pos = Rank(moved[i], waiting) /\ f[i].id = i
    <3>. HIDE DEF waiting
    <3>. QED BY <1>2, <1>4 DEF QueueRow
  <2>5. ASSUME NEW i \in DOMAIN q, Is(i)
        PROVE  Ahead(f[r], f[i])
    <3>1. Is(r) /\ r \in DOMAIN q /\ Rank(moved[i], waiting) \in Nat
      BY <1>4, RankIsNatural
    <3>2. i # r => Rank(moved[r], waiting) < Rank(moved[i], waiting)
      <4>. HIDE DEF waiting
      <4>. QED BY <1>2, <1>3, <1>4, <2>5, <3>1, RenumberingKeepsOrder
    <3>. HIDE DEF f, waiting
    <3>. QED BY <1>1, <2>4, <2>5, <3>1, <3>2 DEF Ahead
  <2>. HIDE DEF f
  <2>. QED BY <2>1, <2>2, <2>3, <2>5 DEF IsHead, ListQueue
<1>. QED BY <1>5, <1>6

(* An undone start keeps its row in sight until it has a place before all  *)
(* the others of its waiting list, and takes that place.                   *)
LEMMA UndoingOrders ==
  ASSUME TypeInv, LifeInv, SightInv, NEW a \in Actors,
         \/ CheckUndoStart(a) \/ ClearStart(a) \/ UndoPT(a) \/ UndoMC(a)
         \/ UndoMode(a) \/ Requeue(a) \/ FindFront(a)
  PROVE  Orders
<1>. DEFINE car == call[a].car
            Undo(pc) == /\ Goto(a, pc)
                        /\ call[a].pc \notin {"try_start", "insert_log", "reorder"}
<1>0. /\ call \in [Actors -> Call] /\ call[a] \in Call /\ RowsNumbered
      /\ Sees(call[a]) /\ Knows(call[a]) /\ Busy \subseteq {a}
      /\ queue \in Seq(QueueRow)
  <2>1. ~At(a, "idle")
    BY DEF CheckUndoStart, ClearStart, UndoPT, UndoMC, UndoMode, Requeue, FindFront, At
  <2>. QED BY <2>1, Sole
           DEF TypeInv, StoreOK, CallsOK, LifeInv, RunsInv, HandInv, SightInv
<1>r. ASSUME Return(a), call[a].pc \notin {"try_start", "insert_log", "reorder"}
      PROVE  Orders
  BY <1>0, <1>r, ReturningSees, SightedOrders
<1>p. ASSUME NEW pc \in UndoOrder \ {"undo_front"}, Undo(pc),
             car.status = "on_course", car.id \in DOMAIN queue',
             queue'[car.id].ev = car.ev
      PROVE  Orders
  <2>1. /\ call' = [call EXCEPT ![a] = call'[a]] /\ call'[a].pc = pc
        /\ call'[a].car = car
    BY <1>p, MovingOnKnows
  <2>2. Sees(call[a])'
    BY <1>p, <2>1 DEF Sees, UndoOrder, IsRowOf
  <2>. QED BY <1>0, <1>p, <2>1, <2>2, SightedOrders
<1>1. CASE CheckUndoStart(a)
  <2>1. /\ call[a].pc = "check_undo" /\ UNCHANGED queue
        /\ Return(a) \/ (Goto(a, "clear_start") /\ car.status = "on_course")
    BY <1>1 DEF CheckUndoStart, At, OnlyCall, store
  <2>2. Fresh(car)
    BY <1>0, <2>1 DEF Knows
  <2>. QED BY <1>r, <1>p, <2>1, <2>2 DEF Fresh, UndoOrder
<1>2. ASSUME ClearStart(a) \/ UndoPT(a) \/ UndoMC(a) \/ UndoMode(a)
      PROVE  Orders
  <2>1. /\ call[a].pc \in {"clear_start", "undo_pt", "undo_mc", "undo_mode"}
        /\ \/ Return(a)
           \/ \E pc \in {"undo_pt", "undo_mc", "undo_mode", "requeue"} : Goto(a, pc)
    BY <1>2 DEF ClearStart, UndoPT, UndoMC, UndoMode, At
  <2>2. car.status = "on_course" /\ IsRowOf(car)
    BY <1>0, <2>1 DEF Sees, UndoOrder
  <2>3. DOMAIN queue' = DOMAIN queue /\ queue'[car.id].ev = queue[car.id].ev
    <3>1. /\ \A t : OneRun(queue, SetStart(queue, car.id, t), car.id,
                           queue[car.id].status, t)
          /\ \A delta : SameRuns(queue, SetPT(queue, car.id, delta))
          /\ \A on : SameRuns(queue, SetMC(queue, car.id, on))
          /\ SameRuns(queue, queue)
      BY <1>0, StatementColumns
    <3>2. SameRuns(queue, queue') \/ \E status, t : OneRun(queue, queue', car.id, status, t)
      BY <1>2, <3>1 DEF ClearStart, UndoPT, UndoMC, UndoMode, OnlyCall, store
    <3>. QED BY <2>2, <3>2 DEF SameRuns, SameRow, OneRun, IsRowOf
  <2>. QED BY <1>r, <1>p, <2>1, <2>2, <2>3 DEF IsRowOf, UndoOrder
<1>3. CASE Requeue(a)
  <2>1. /\ call[a].pc = "requeue" /\ Goto(a, "undo_front")
        /\ queue' = SetQueueStatus(queue, car.id, "waiting")
    BY <1>3 DEF Requeue, At
  <2>2. car.status = "on_course" /\ IsRowOf(car)
    BY <1>0, <2>1 DEF Sees, UndoOrder
  <2>3. /\ car.id \in DOMAIN queue' /\ queue'[car.id].ev = car.ev
        /\ queue'[car.id].status = "waiting"
    BY <1>0, <2>1, <2>2, StatementColumns DEF OneRun, IsRowOf
  <2>4. /\ call' = [call EXCEPT ![a] = call'[a]] /\ call'[a].pc = "undo_front"
        /\ call'[a].car = car
    BY <2>1, MovingOnKnows
  <2>5. Sees(call[a])'
    BY <2>2, <2>3, <2>4 DEF Sees, UndoOrder, IsRowOf
  <2>. QED BY <1>0, <2>1, <2>4, <2>5, SightedOrders
<1>4. CASE FindFront(a)
  <2>. DEFINE waiting == Listed(car.ev, "waiting")
              n == FrontPosition(waiting)
  <2>1. /\ call[a].pc = "undo_front" /\ UNCHANGED <<queue, logs, pending>>
        /\ call' = [call EXCEPT ![a].pc = "reorder", ![a].n = n]
    BY <1>4 DEF FindFront, At, OnlyCall, store, memory
  <2>2. IsRowOf(car) /\ queue[car.id].status = "waiting"
    BY <1>0, <2>1 DEF Sees, UndoOrder
  <2>3. \A row \in waiting : n < row.pos
    <3>1. waiting \in SUBSET QueueRow /\ IsFiniteSet(waiting)
      BY <1>0, ListedRows DEF Listed
    <3>. QED BY <3>1, FrontIsAhead
  <2>. HIDE DEF n
  <2>4. /\ call' = [call EXCEPT ![a] = call'[a]] /\ call'[a].pc = "reorder"
        /\ call'[a].car = car /\ call'[a].n = n
    BY <1>0, <2>1 DEF Call
  <2>5. Sees(call'[a])
    BY <2>2, <2>3, <2>4 DEF Sees, UndoOrder
  <2>. QED BY <1>0, <2>1, <2>4, <2>5, LookingOrders
<1>. QED BY <1>1, <1>2, <1>3, <1>4

LEMMA ReorderingOrders ==
  ASSUME TypeInv, LifeInv, SightInv, NEW a \in Actors, ReorderRow(a)
  PROVE  Orders
<1>. DEFINE car == call[a].car
<1>1. /\ call[a].pc = "reorder" /\ Return(a) /\ UNCHANGED logs
      /\ queue' = Reorder(queue, car.id, call[a].n)
  BY DEF ReorderRow, At, OnlyQueue
<1>2. /\ call[a] \in Call /\ Sees(call[a]) /\ Busy \subseteq {a} /\ RowsNumbered
      /\ queue \in Seq(QueueRow)
  BY <1>1, Sole DEF TypeInv, StoreOK, CallsOK, LifeInv, RunsInv, SightInv, At
<1>3. \A b \in Actors : ~At(b, "idle") => b = a
  BY <1>2 DEF Busy
<1>4. OldestIsNext
  BY <1>1, <1>3 DEF OldestIsNext, At
<1>5. UndoneIsFirst
  <2>1. ASSUME car.status = "on_course"
        PROVE  IsHead(queue'[car.id], ListQueue(queue', queue[car.id].ev, "waiting"))
    <3>1. /\ car.id \in DOMAIN queue /\ queue[car.id].ev = car.ev
          /\ queue[car.id].status = "waiting"
          /\ \A row \in Listed(car.ev, "waiting") : call[a].n < row.pos
      BY <1>1, <1>2, <2>1 DEF Sees, IsRowOf
    <3>2. call[a].n \in Int
      BY <1>2 DEF Call
    <3>. QED BY <1>1, <1>2, <3>1, <3>2, MovedToFront DEF RowsNumbered, Listed
  <2>2. ASSUME NEW b \in Actors, At(b, "reorder")
        PROVE  b = a
    BY <1>3, <2>2 DEF At
  <2>. QED BY <2>1, <2>2 DEF UndoneIsFirst
<1>. QED BY <1>1, <1>2, <1>4, <1>5, ReturningSees, SightsKept DEF Orders

LEMMA NextOrders ==
  ASSUME Serial, TypeInv, LifeInv, SightInv, [Next]_vars
  PROVE  SightInv' /\ [OldestIsNext /\ UndoneIsFirst]_vars
<1>1. ASSUME NEW a \in Actors, Arrivals(a)
      PROVE  Orders
  BY <1>1, RequestsOrder, OwnRequestsOrder, OthersOrder DEF Arrivals
<1>2. ASSUME NEW a \in Actors, Proceed(a)
      PROVE  Orders
  <2>1. CASE LaunchSteps(a) \/ StartSteps(a)
    BY <2>1, StepsOrder, StartingOrders, GivingUpOrders DEF LaunchSteps, StartSteps
  <2>2. CASE FinishSteps(a)
    BY <2>2, StepsOrder, FinishingOrders DEF FinishSteps
  <2>3. CASE UndoSteps(a)
    BY <2>3, StepsOrder, UndoingOrders, ReorderingOrders DEF UndoSteps
  <2>4. CASE QueueSteps(a) \/ EventSteps(a) \/ OrphanSteps(a)
    BY <2>4, StepsOrder DEF QueueSteps, EventSteps, OrphanSteps
  <2>. QED BY <1>2, <2>1, <2>2, <2>3, <2>4 DEF Proceed
<1>3. CASE UNCHANGED vars
  <2>1. SightInv'
    BY <1>3 DEF vars, SightInv, Sees, UndoOrder, Fresh, IsReady, IsRunning, IsPending,
                Armed, Running, IsRowOf, Listed
  <2>. QED BY <1>3, <2>1
<1>. QED BY <1>1, <1>2, <1>3, GivingUpOrders, TriggersOrder, DispatcherOrders,
            OthersOrder DEF Next, Orders

LEMMA SightInvariant ==
  ASSUME Serial
  PROVE  Spec => []SightInv
<1>1. Init => SightInv
  BY DEF Init, NoCall, SightInv, Sees, UndoOrder
<1>2. TypeInv /\ LifeInv /\ SightInv /\ [Next]_vars => SightInv'
  BY NextOrders
<1>. QED BY <1>1, <1>2, LifeInvariant, PTL DEF Spec

(***************************************************************************)
(* As long as requests, triggers and timers do not overlap, a start goes   *)
(* to the oldest car that is READY and a goal to the oldest that is        *)
(* RUNNING, whatever fails in between: the list a scan works through is    *)
(* still the course when it comes to its car.                              *)
(***************************************************************************)
THEOREM StartsAndGoalsInOrder ==
  ASSUME Serial
  PROVE  Spec => OldestGoesFirst
<1>1. TypeInv /\ LifeInv /\ SightInv /\ [Next]_vars => [OldestIsNext]_vars
  BY NextOrders
<1>2. OldestGoesFirst <=> [][OldestIsNext]_vars
  BY DEF OldestGoesFirst, OldestIsNext
<1>. QED BY <1>1, <1>2, LifeInvariant, SightInvariant, PTL DEF Spec

(***************************************************************************)
(* Under the same condition an undone start is at the head of its waiting  *)
(* list when the undo is over, also where taking the place has the list    *)
(* renumbered.                                                             *)
(***************************************************************************)
THEOREM UndoneGoesToTheFront ==
  ASSUME Serial
  PROVE  Spec => UndoneIsNext
<1>1. TypeInv /\ LifeInv /\ SightInv /\ [Next]_vars => [UndoneIsFirst]_vars
  BY NextOrders
<1>2. UndoneIsNext <=> [][UndoneIsFirst]_vars
  BY DEF UndoneIsNext, UndoneIsFirst
<1>. QED BY <1>1, <1>2, LifeInvariant, SightInvariant, PTL DEF Spec
=============================================================================
