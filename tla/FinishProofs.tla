---------------------------- MODULE FinishProofs ----------------------------
(***************************************************************************)
(* What becomes of a timing between the finish line and the end of its     *)
(* grace window, for any number of handlers, cars, crashes and failed      *)
(* writes (module Course, properties in CourseProperties).                 *)
(*                                                                         *)
(* FinishInv is inductive given the types.  A timing is unsettled while a  *)
(* finish is being registered, is pending, is being confirmed, or is being *)
(* undone; the invariant says that each unsettled timing is in one of      *)
(* those hands only, that it is on record for the row it belongs to, and   *)
(* that a row which is done has a timing that is settled, so that nothing  *)
(* can delete it any more.                                                 *)
(***************************************************************************)
EXTENDS CourseProofs

HoldSteps == {"register", "undo_stop", "undo_delete"}

TimingOf(l, r) == \E g \in logs : g.id = l /\ g.row = r

LogsNumbered ==
  \A g \in logs : /\ g.id \in 1 .. logSeq
                  /\ \A h \in logs : g.id = h.id => g = h

OnRecord ==
  /\ \A p \in pending \cup confirming : TimingOf(p.log, p.row)
  /\ \A a \in Registering : TimingOf(call[a].log, call[a].car.id)
  /\ \A a \in Undoing : call[a].log \in 1 .. logSeq

DoneIsSettled ==
  \A r \in DOMAIN queue :
    queue[r].status = "done" => \E g \in logs : g.row = r /\ g.id \notin Unsettled

FinishInv ==
  LogsNumbered /\ OnRecord /\ TimingHeldOnce /\ PendingHasTimer /\ DoneIsSettled

-----------------------------------------------------------------------------
(* The steps that leave the finishes alone: they touch neither the logs    *)
(* nor the grace window, take no timing into a handler's hands, and mark   *)
(* no row done.                                                            *)

NoneTaken ==
  \A a \in Actors : call'[a].pc \in HoldSteps => call'[a] = call[a]

KeepsDone(q, p) ==
  \A r \in DOMAIN p :
    p[r].status = "done" => r \in DOMAIN q /\ q[r].status = "done"

Aside ==
  /\ UNCHANGED <<logs, logSeq, pending, timers, confirming>>
  /\ NoneTaken
  /\ KeepsDone(queue, queue')

LEMMA AsideKeepsFinishInv ==
  ASSUME FinishInv, Aside
  PROVE  FinishInv'
<1>1. Registering' \subseteq Registering /\ Undoing' \subseteq Undoing
      /\ \A a \in Registering' \cup Undoing' : call'[a] = call[a]
  BY DEF Aside, NoneTaken, Registering, Undoing, HoldSteps, At
<1>2. Unsettled' \subseteq Unsettled
  BY <1>1 DEF Aside, Unsettled
<1>3. LogsNumbered' /\ PendingHasTimer'
  BY DEF Aside, FinishInv, LogsNumbered, PendingHasTimer
<1>4. OnRecord'
  BY <1>1 DEF Aside, FinishInv, OnRecord, TimingOf
<1>5. TimingHeldOnce'
  BY <1>1 DEF Aside, FinishInv, TimingHeldOnce
<1>6. DoneIsSettled'
  BY <1>2 DEF Aside, FinishInv, DoneIsSettled, KeepsDone
<1>. QED BY <1>3, <1>4, <1>5, <1>6 DEF FinishInv

LEMMA BegunHoldsNothing ==
  ASSUME CallsOK, NEW a \in Actors, NEW c, c.pc \notin HoldSteps,
         call' = [call EXCEPT ![a] = c]
  PROVE  NoneTaken
BY DEF CallsOK, NoneTaken

LEMMA ReturnHoldsNothing ==
  ASSUME CallsOK, NEW a \in Actors, Return(a)
  PROVE  NoneTaken
BY BegunHoldsNothing DEF Return, NoCall, HoldSteps

(* No statement marks a row done but SetQueueStatus(id, "done").           *)
LEMMA StatementsKeepDone ==
  ASSUME NEW q \in Seq(QueueRow), NEW r
  PROVE  /\ KeepsDone(q, q)
         /\ \A status \in QueueStatus \ {"done"} :
              KeepsDone(q, SetQueueStatus(q, r, status))
         /\ \A t : KeepsDone(q, SetStart(q, r, t))
         /\ \A delta : KeepsDone(q, SetPT(q, r, delta))
         /\ \A on : KeepsDone(q, SetMC(q, r, on))
<1>. q \in [1 .. Len(q) -> QueueRow] /\ DOMAIN q = 1 .. Len(q)
  BY LenProperties
<1>. QED BY DEF KeepsDone, SetQueueStatus, SetStart, SetPT, SetMC, QueueRow

LEMMA CancelWaitingKeepsDone ==
  ASSUME NEW q \in Seq(QueueRow), NEW ev
  PROVE  KeepsDone(q, CancelWaiting(q, ev))
<1>. q \in [1 .. Len(q) -> QueueRow] /\ DOMAIN q = 1 .. Len(q)
  BY LenProperties
<1>. QED BY DEF KeepsDone, CancelWaiting, QueueRow

LEMMA EnqueueKeepsDone ==
  ASSUME NEW q \in Seq(QueueRow), NEW ev \in Events, NEW entry \in Entries
  PROVE  KeepsDone(q, Enqueue(q, ev, entry))
<1>. DEFINE new == [ id |-> Len(q) + 1, ev |-> ev, entry |-> entry,
                     pos |-> BackPosition(ListQueue(q, ev, "waiting")),
                     status |-> "waiting", tStart |-> NoTime,
                     pt |-> 0, mc |-> FALSE ]
<1>1. Enqueue(q, ev, entry) = Append(q, new) /\ new.status = "waiting"
  BY DEF Enqueue
<1>. HIDE DEF new
<1>2. DOMAIN Append(q, new) = 1 .. Len(q) + 1 /\ DOMAIN q = 1 .. Len(q)
      /\ Len(q) \in Nat
  BY LenProperties
<1>3. /\ Append(q, new)[Len(q) + 1] = new
      /\ \A i \in 1 .. Len(q) : Append(q, new)[i] = q[i]
  OBVIOUS
<1>. QED BY <1>1, <1>2, <1>3 DEF KeepsDone

LEMMA ReorderKeepsDone ==
  ASSUME NEW q \in Seq(QueueRow), NEW r, NEW pos
  PROVE  KeepsDone(q, Reorder(q, r, pos))
<1>. DEFINE moved == [q EXCEPT ![r].pos = pos]
            waiting == ListQueue(moved, q[r].ev, "waiting")
            f == [ i \in DOMAIN q |->
                     IF moved[i] \in waiting
                     THEN [moved[i] EXCEPT !.pos = Rank(moved[i], waiting)]
                     ELSE moved[i] ]
<1>1. q \in [1 .. Len(q) -> QueueRow] /\ DOMAIN q = 1 .. Len(q)
  BY LenProperties
<1>2. \A i \in DOMAIN q : moved[i].status = q[i].status
                          /\ DOMAIN moved[i] = DOMAIN q[i]
  BY <1>1 DEF QueueRow
<1>3. DOMAIN moved = DOMAIN q /\ DOMAIN f = DOMAIN q
  OBVIOUS
<1>4. \A i \in DOMAIN q : f[i].status = moved[i].status
  <2>. HIDE DEF moved, waiting
  <2>1. \A i \in DOMAIN q : "status" \in DOMAIN moved[i]
    BY <1>1, <1>2 DEF QueueRow
  <2>. QED BY <2>1
<1>5. Reorder(q, r, pos) = IF Crowded(waiting) THEN f ELSE moved
  BY DEF Reorder
<1>. HIDE DEF f, moved, waiting
<1>. QED BY <1>2, <1>3, <1>4, <1>5 DEF KeepsDone

(* A request or a trigger arrives with no timing in its hands.             *)
LEMMA RequestsAside ==
  ASSUME TypeInv, NEW a \in Actors,
         \/ BeginLaunch(a) \/ BeginMyLaunch(a) \/ BeginStartOldest(a)
         \/ BeginFinishOldest(a) \/ BeginFinishByID(a) \/ BeginCancel(a)
         \/ BeginUndoStart(a) \/ BeginMyLaunchUndo(a) \/ BeginPT(a)
         \/ BeginMC(a) \/ BeginQueueAdd(a) \/ BeginMyQueueAdd(a)
         \/ BeginQueueCancel(a) \/ BeginMyQueueCancel(a) \/ BeginReorder(a)
         \/ BeginAdopt(a) \/ BeginClose(a) \/ BeginSettings(a)
  PROVE  Aside
<1>. DEFINE Clean == /\ UNCHANGED <<store, memory>>
                    /\ call' = [call EXCEPT ![a] = call'[a]]
                    /\ call'[a].pc \notin HoldSteps
<1>0. a \in DOMAIN call /\ call \in [Actors -> Call] /\ CallsOK
      /\ queue \in Seq(QueueRow)
  BY DEF TypeInv, StoreOK, CallsOK
<1>. SUFFICES Clean
  <2>. HIDE DEF HoldSteps
  <2>. QED BY <1>0, BegunHoldsNothing, StatementsKeepDone DEF Aside, store, memory
<1>1. CASE BeginLaunch(a)
  BY <1>0, <1>1 DEF BeginLaunch, Arrive, NoCall, HoldSteps
<1>2. CASE BeginMyLaunch(a)
  BY <1>0, <1>2 DEF BeginMyLaunch, Arrive, NoCall, HoldSteps
<1>3. CASE BeginStartOldest(a)
  BY <1>0, <1>3 DEF BeginStartOldest, Arrive, NoCall, HoldSteps
<1>4. CASE BeginFinishOldest(a)
  BY <1>0, <1>4 DEF BeginFinishOldest, Arrive, NoCall, HoldSteps
<1>5. CASE BeginFinishByID(a)
  BY <1>0, <1>5 DEF BeginFinishByID, Arrive, NoCall, HoldSteps
<1>6. CASE BeginCancel(a)
  BY <1>0, <1>6 DEF BeginCancel, Arrive, NoCall, HoldSteps
<1>7. CASE BeginUndoStart(a)
  BY <1>0, <1>7 DEF BeginUndoStart, Arrive, NoCall, HoldSteps
<1>8. CASE BeginMyLaunchUndo(a)
  BY <1>0, <1>8 DEF BeginMyLaunchUndo, Arrive, NoCall, HoldSteps
<1>9. CASE BeginPT(a)
  BY <1>0, <1>9 DEF BeginPT, Arrive, NoCall, HoldSteps
<1>10. CASE BeginMC(a)
  BY <1>0, <1>10 DEF BeginMC, Arrive, NoCall, HoldSteps
<1>11. CASE BeginQueueAdd(a)
  BY <1>0, <1>11 DEF BeginQueueAdd, Arrive, NoCall, HoldSteps
<1>12. CASE BeginMyQueueAdd(a)
  BY <1>0, <1>12 DEF BeginMyQueueAdd, Arrive, NoCall, HoldSteps
<1>13. CASE BeginQueueCancel(a)
  BY <1>0, <1>13 DEF BeginQueueCancel, Arrive, NoCall, HoldSteps
<1>14. CASE BeginMyQueueCancel(a)
  BY <1>0, <1>14 DEF BeginMyQueueCancel, Arrive, NoCall, HoldSteps
<1>15. CASE BeginReorder(a)
  BY <1>0, <1>15 DEF BeginReorder, Arrive, NoCall, HoldSteps
<1>16. CASE BeginAdopt(a)
  BY <1>0, <1>16 DEF BeginAdopt, Arrive, NoCall, HoldSteps
<1>17. CASE BeginClose(a)
  BY <1>0, <1>17 DEF BeginClose, Arrive, NoCall, HoldSteps
<1>18. CASE BeginSettings(a)
  BY <1>0, <1>18 DEF BeginSettings, Arrive, NoCall, HoldSteps
<1>. QED
  BY <1>1, <1>2, <1>3, <1>4, <1>5, <1>6, <1>7, <1>8, <1>9,
     <1>10, <1>11, <1>12, <1>13, <1>14, <1>15, <1>16, <1>17, <1>18

LEMMA TriggersAside ==
  ASSUME TypeInv, Triggers
  PROVE  Aside
<1>. DEFINE c == call'[Dispatcher]
<1>0. Dispatcher \in Actors /\ CallsOK /\ queue \in Seq(QueueRow)
      /\ call \in [Actors -> Call]
  BY DEF Actors, TypeInv, StoreOK, CallsOK
<1>1. /\ UNCHANGED <<store, memory>>
      /\ call' = [call EXCEPT ![Dispatcher] = c]
      /\ c.pc \notin HoldSteps
  <2>1. CASE BeginSensorStart
    BY <1>0, <2>1 DEF BeginSensorStart, TriggerArrives, NoCall, HoldSteps
  <2>2. CASE BeginSensorGoal
    BY <1>0, <2>2 DEF BeginSensorGoal, TriggerArrives, NoCall, HoldSteps
  <2>. QED BY <2>1, <2>2 DEF Triggers
<1>. HIDE DEF c
<1>. QED BY <1>0, <1>1, BegunHoldsNothing, StatementsKeepDone DEF Aside, store, memory

(* Neither does a handler that reads, checks, or gives up take one.        *)
LEMMA ReadsAside ==
  ASSUME TypeInv, NEW a \in Actors,
         \/ ListHead(a) \/ MyNotOnCourse(a) \/ MyTurn(a)
         \/ ListReady(a) \/ NoReadyCar(a) \/ ListCourse(a)
         \/ ScanNext(a) \/ NoRunningCar(a) \/ CheckFinish(a)
         \/ CheckCancel(a) \/ ListMine(a) \/ CheckUndoStart(a)
         \/ UndoMode(a) \/ FindFront(a) \/ MyNotWaiting(a)
         \/ MyNotRunning(a) \/ MyQueueCancel(a) \/ StoreError(a)
         \/ OrphanStoreError(a)
  PROVE  Aside
<1>0. a \in DOMAIN call /\ call \in [Actors -> Call] /\ CallsOK
      /\ queue \in Seq(QueueRow)
  BY DEF TypeInv, StoreOK, CallsOK
<1>. DEFINE Clean == /\ UNCHANGED <<store, memory>>
                    /\ call' = [call EXCEPT ![a] = call'[a]]
                    /\ call'[a].pc \notin HoldSteps
<1>. SUFFICES Clean
  <2>. HIDE DEF HoldSteps
  <2>. QED BY <1>0, BegunHoldsNothing, StatementsKeepDone DEF Aside, store, memory
<1>r. ASSUME OnlyCall, Return(a)
      PROVE  Clean
  BY <1>0, <1>r DEF OnlyCall, Return, NoCall, HoldSteps
<1>p. ASSUME OnlyCall, NEW row, NEW pc, pc \notin HoldSteps,
             call' = [call EXCEPT ![a].car = row, ![a].pc = pc]
      PROVE  Clean
  BY <1>0, <1>p DEF OnlyCall, Call, HoldSteps
<1>1. CASE ListHead(a)
  <2>1. /\ OnlyCall
        /\ Return(a) \/ \E row, pc : /\ pc \in {"claim", "adopt_take"}
                                     /\ call' = [call EXCEPT ![a].car = row, ![a].pc = pc]
    BY <1>1 DEF ListHead
  <2>. QED BY <1>r, <1>p, <2>1 DEF HoldSteps
<1>2. CASE MyNotOnCourse(a)
  BY <1>0, <1>2 DEF MyNotOnCourse, OnlyCall, At, Return, Goto, NoCall, Call, HoldSteps
<1>3. CASE MyTurn(a)
  <2>1. /\ OnlyCall
        /\ Return(a) \/ \E row, pc : /\ pc \in {"claim"}
                                     /\ call' = [call EXCEPT ![a].car = row, ![a].pc = pc]
    BY <1>3 DEF MyTurn
  <2>. QED BY <1>r, <1>p, <2>1 DEF HoldSteps
<1>4. CASE ListReady(a)
  BY <1>0, <1>4 DEF ListReady, OnlyCall, At, Return, Goto, NoCall, Call, HoldSteps
<1>5. CASE NoReadyCar(a)
  BY <1>0, <1>5 DEF NoReadyCar, OnlyCall, At, Return, Goto, NoCall, Call, HoldSteps
<1>6. CASE ListCourse(a)
  BY <1>0, <1>6 DEF ListCourse, OnlyCall, At, Return, Goto, NoCall, Call, HoldSteps
<1>7. CASE ScanNext(a)
  <2>1. OnlyCall /\ call[a].pc = "scan"
    BY <1>7 DEF ScanNext, At
  <2>2. CASE \E row : call' = [call EXCEPT ![a].todo = @ \ {row}]
    BY <1>0, <2>1, <2>2 DEF OnlyCall, Call, HoldSteps
  <2>3. CASE \E row : call' = [call EXCEPT ![a].todo = {}, ![a].car = row,
                                          ![a].pc = "finish"]
    BY <1>0, <2>1, <2>3 DEF OnlyCall, Call, HoldSteps
  <2>. QED BY <1>7, <2>2, <2>3 DEF ScanNext
<1>8. CASE NoRunningCar(a)
  BY <1>0, <1>8 DEF NoRunningCar, OnlyCall, At, Return, Goto, NoCall, Call, HoldSteps
<1>9. CASE CheckFinish(a)
  BY <1>0, <1>9 DEF CheckFinish, OnlyCall, At, Return, Goto, NoCall, Call, HoldSteps
<1>10. CASE CheckCancel(a)
  BY <1>0, <1>10 DEF CheckCancel, OnlyCall, At, Return, Goto, NoCall, Call, HoldSteps
<1>11. CASE ListMine(a)
  <2>1. /\ OnlyCall
        /\ Return(a) \/ \E row, pc : /\ pc \in {"check_undo"}
                                     /\ call' = [call EXCEPT ![a].car = row, ![a].pc = pc]
    BY <1>11 DEF ListMine
  <2>. QED BY <1>r, <1>p, <2>1 DEF HoldSteps
<1>12. CASE CheckUndoStart(a)
  BY <1>0, <1>12 DEF CheckUndoStart, OnlyCall, At, Return, Goto, NoCall, Call, HoldSteps
<1>13. CASE UndoMode(a)
  BY <1>0, <1>13 DEF UndoMode, OnlyCall, At, Return, Goto, NoCall, Call, HoldSteps
<1>14. CASE FindFront(a)
  BY <1>0, <1>14 DEF FindFront, OnlyCall, At, Return, Goto, NoCall, Call, HoldSteps
<1>15. CASE MyNotWaiting(a)
  BY <1>0, <1>15 DEF MyNotWaiting, OnlyCall, At, Return, Goto, NoCall, Call, HoldSteps
<1>16. CASE MyNotRunning(a)
  BY <1>0, <1>16 DEF MyNotRunning, OnlyCall, At, Return, Goto, NoCall, Call, HoldSteps
<1>17. CASE MyQueueCancel(a)
  <2>1. /\ OnlyCall
        /\ Return(a) \/ \E row, pc : /\ pc \in {"cancel"}
                                     /\ call' = [call EXCEPT ![a].car = row, ![a].pc = pc]
    BY <1>17 DEF MyQueueCancel
  <2>. QED BY <1>r, <1>p, <2>1 DEF HoldSteps
<1>18. CASE StoreError(a)
  BY <1>0, <1>18 DEF StoreError, OnlyCall, At, Return, Goto, NoCall, Call, HoldSteps
<1>19. CASE OrphanStoreError(a)
  BY <1>0, <1>19 DEF OrphanStoreError, OnlyCall, At, Return, Goto, NoCall, Call, HoldSteps
<1>. QED
  BY <1>1, <1>2, <1>3, <1>4, <1>5, <1>6, <1>7, <1>8, <1>9,
     <1>10, <1>11, <1>12, <1>13, <1>14, <1>15, <1>16, <1>17, <1>18,
     <1>19

(* Nor does a statement on the queue table.                                *)
LEMMA QueueStepsAside ==
  ASSUME TypeInv, NEW a \in Actors,
         \/ Claim(a) \/ LaunchStamp(a) \/ TryStart(a)
         \/ AdoptClaim(a) \/ AdoptStamp(a) \/ AdoptRollback(a)
         \/ Cancel(a) \/ ClearStart(a) \/ UndoPT(a)
         \/ UndoMC(a) \/ Requeue(a) \/ ReorderRow(a)
         \/ AddPT(a) \/ ToggleMC(a) \/ EnqueueRow(a)
         \/ CloseWaiting(a)
  PROVE  Aside
<1>0. /\ a \in DOMAIN call /\ call \in [Actors -> Call] /\ CallsOK
      /\ CallOK(call[a]) /\ queue \in Seq(QueueRow)
  BY DEF TypeInv, StoreOK, CallsOK
<1>s. {"waiting", "on_course", "canceled"} \in SUBSET (QueueStatus \ {"done"})
  BY DEF QueueStatus
<1>. DEFINE Clean == /\ OnlyQueue
                    /\ call' = [call EXCEPT ![a] = call'[a]]
                    /\ call'[a].pc \notin HoldSteps
                    /\ KeepsDone(queue, queue')
<1>. SUFFICES Clean
  <2>. HIDE DEF HoldSteps
  <2>. QED BY <1>0, BegunHoldsNothing DEF Aside, OnlyQueue, memory
<1>1. CASE Claim(a)
  <2>1. OnlyQueue /\ KeepsDone(queue, queue')
    BY <1>0, <1>1, <1>s, StatementsKeepDone DEF Claim
  <2>2. call' = [call EXCEPT ![a] = call'[a]] /\ call'[a].pc \notin HoldSteps
    BY <1>0, <1>1 DEF Claim, At, Return, Goto, NoCall, Call, HoldSteps
  <2>. QED BY <2>1, <2>2
<1>2. CASE LaunchStamp(a)
  BY <1>0, <1>2, <1>s, StatementsKeepDone
     DEF LaunchStamp, At, Return, Goto, NoCall, Call, HoldSteps
<1>3. CASE TryStart(a)
  <2>1. OnlyQueue /\ KeepsDone(queue, queue')
    BY <1>0, <1>3, <1>s, StatementsKeepDone DEF TryStart
  <2>2. call' = [call EXCEPT ![a] = call'[a]] /\ call'[a].pc \notin HoldSteps
    BY <1>0, <1>3 DEF TryStart, At, Return, Goto, NoCall, Call, HoldSteps
  <2>. QED BY <2>1, <2>2
<1>4. CASE AdoptClaim(a)
  <2>1. OnlyQueue /\ KeepsDone(queue, queue')
    BY <1>0, <1>4, <1>s, StatementsKeepDone DEF AdoptClaim
  <2>2. call' = [call EXCEPT ![a] = call'[a]] /\ call'[a].pc \notin HoldSteps
    BY <1>0, <1>4 DEF AdoptClaim, At, Return, Goto, NoCall, Call, HoldSteps
  <2>. QED BY <2>1, <2>2
<1>5. CASE AdoptStamp(a)
  BY <1>0, <1>5, <1>s, StatementsKeepDone
     DEF AdoptStamp, At, Return, Goto, NoCall, Call, HoldSteps
<1>6. CASE AdoptRollback(a)
  BY <1>0, <1>6, <1>s, StatementsKeepDone
     DEF AdoptRollback, At, Return, Goto, NoCall, Call, HoldSteps
<1>7. CASE Cancel(a)
  BY <1>0, <1>7, <1>s, StatementsKeepDone
     DEF Cancel, At, Return, Goto, NoCall, Call, HoldSteps
<1>8. CASE ClearStart(a)
  BY <1>0, <1>8, <1>s, StatementsKeepDone
     DEF ClearStart, At, Return, Goto, NoCall, Call, HoldSteps
<1>9. CASE UndoPT(a)
  <2>1. OnlyQueue /\ KeepsDone(queue, queue')
    BY <1>0, <1>9, <1>s, StatementsKeepDone DEF UndoPT
  <2>2. call' = [call EXCEPT ![a] = call'[a]] /\ call'[a].pc \notin HoldSteps
    BY <1>0, <1>9 DEF UndoPT, At, Return, Goto, NoCall, Call, HoldSteps
  <2>. QED BY <2>1, <2>2
<1>10. CASE UndoMC(a)
  BY <1>0, <1>10, <1>s, StatementsKeepDone
     DEF UndoMC, At, Return, Goto, NoCall, Call, HoldSteps
<1>11. CASE Requeue(a)
  BY <1>0, <1>11, <1>s, StatementsKeepDone
     DEF Requeue, At, Return, Goto, NoCall, Call, HoldSteps
<1>12. CASE ReorderRow(a)
  BY <1>0, <1>12, <1>s, StatementsKeepDone, ReorderKeepsDone
     DEF ReorderRow, At, Return, Goto, NoCall, Call, HoldSteps
<1>13. CASE AddPT(a)
  BY <1>0, <1>13, <1>s, StatementsKeepDone
     DEF AddPT, At, Return, Goto, NoCall, Call, HoldSteps
<1>14. CASE ToggleMC(a)
  BY <1>0, <1>14, <1>s, StatementsKeepDone
     DEF ToggleMC, At, Return, Goto, NoCall, Call, HoldSteps
<1>15. CASE EnqueueRow(a)
  <2>1. call[a].ev \in Events /\ call[a].entry \in Entries
    BY <1>0, <1>15 DEF EnqueueRow, At, CallOK, EntrySteps
  <2>. QED
    BY <1>0, <1>15, <2>1, StatementsKeepDone, EnqueueKeepsDone
       DEF EnqueueRow, At, Return, Goto, NoCall, Call, HoldSteps
<1>16. CASE CloseWaiting(a)
  BY <1>0, <1>16, <1>s, StatementsKeepDone, CancelWaitingKeepsDone
     DEF CloseWaiting, At, Return, Goto, NoCall, Call, HoldSteps
<1>. QED
  BY <1>1, <1>2, <1>3, <1>4, <1>5, <1>6, <1>7, <1>8, <1>9,
     <1>10, <1>11, <1>12, <1>13, <1>14, <1>15, <1>16

LEMMA EventsAside ==
  ASSUME TypeInv, NEW a \in Actors,
         CreateEvent(a) \/ CloseEvent(a) \/ PutSettings(a)
  PROVE  Aside
<1>0. CallsOK /\ queue \in Seq(QueueRow)
  BY DEF TypeInv, StoreOK
<1>1. CASE CreateEvent(a)
  BY <1>0, <1>1, StatementsKeepDone DEF CreateEvent, Aside, NoneTaken, memory
<1>2. CASE CloseEvent(a)
  BY <1>0, <1>2, StatementsKeepDone, ReturnHoldsNothing DEF CloseEvent, Aside, memory
<1>3. CASE PutSettings(a)
  BY <1>0, <1>3, StatementsKeepDone, ReturnHoldsNothing DEF PutSettings, Aside, memory
<1>. QED BY <1>1, <1>2, <1>3

LEMMA OrphansAside ==
  ASSUME TypeInv,
         \/ \E a \in Actors : AdoptTake(a) \/ RestoreOrphan(a) \/ DismissOrphan(a)
         \/ PushOrphan \/ PopOrphan
  PROVE  Aside
<1>0. /\ CallsOK /\ call \in [Actors -> Call] /\ queue \in Seq(QueueRow)
      /\ Dispatcher \in Actors
  BY DEF TypeInv, StoreOK, CallsOK, Actors
<1>1. ASSUME NEW a \in Actors, AdoptTake(a)
      PROVE  Aside
  <2>1. call' = [call EXCEPT ![a] = call'[a]] /\ call'[a].pc \notin HoldSteps
    BY <1>0, <1>1 DEF AdoptTake, Return, NoCall, Call, HoldSteps
  <2>. QED BY <1>0, <1>1, <2>1, BegunHoldsNothing, StatementsKeepDone
           DEF AdoptTake, Aside, store
<1>2. ASSUME NEW a \in Actors, RestoreOrphan(a)
      PROVE  Aside
  BY <1>0, <1>2, ReturnHoldsNothing, StatementsKeepDone DEF RestoreOrphan, Aside, store
<1>3. ASSUME NEW a \in Actors, DismissOrphan(a)
      PROVE  Aside
  BY <1>0, <1>3, StatementsKeepDone DEF DismissOrphan, Aside, NoneTaken, store
<1>4. CASE PushOrphan
  BY <1>0, <1>4, ReturnHoldsNothing, StatementsKeepDone DEF PushOrphan, Aside, store
<1>5. CASE PopOrphan
  <2>1. call' = [call EXCEPT ![Dispatcher] = call'[Dispatcher]]
        /\ call'[Dispatcher].pc \notin HoldSteps
    BY <1>0, <1>5 DEF PopOrphan, Return, NoCall, Call, HoldSteps
  <2>. QED BY <1>0, <1>5, <2>1, BegunHoldsNothing, StatementsKeepDone
           DEF PopOrphan, Aside, store
<1>. QED BY <1>1, <1>2, <1>3, <1>4, <1>5

-----------------------------------------------------------------------------
(* The steps a timing goes through.                                        *)

LEMMA ReturnReleases ==
  ASSUME CallsOK, NEW a \in Actors, Return(a)
  PROVE  /\ Registering' = Registering \ {a}
         /\ Undoing' = Undoing \ {a}
         /\ \A b \in Actors \ {a} : call'[b] = call[b]
BY DEF CallsOK, Return, NoCall, Registering, Undoing, At

(* A timing that is held is on record, under an id given out before; and   *)
(* an id names one timing, so one row.                                     *)
LEMMA HeldIsNumbered ==
  ASSUME FinishInv
  PROVE  /\ Unsettled \subseteq 1 .. logSeq
         /\ \A l, r, s : TimingOf(l, r) /\ TimingOf(l, s) => r = s
BY DEF FinishInv, OnRecord, LogsNumbered, Unsettled, TimingOf

LEMMA SameFinish ==
  ASSUME TypeInv, FinishInv, NEW p \in pending \cup confirming,
         NEW q \in pending \cup confirming, p.log = q.log
  PROVE  p = q
<1>1. p \in Finish /\ q \in Finish
  BY DEF TypeInv, MemoryOK
<1>2. p.row = q.row
  BY HeldIsNumbered DEF FinishInv, OnRecord
<1>. QED BY <1>1, <1>2 DEF Finish

(* Logging: the id is a new one.                                           *)
LEMMA InsertLogKeeps ==
  ASSUME TypeInv, FinishInv, NEW a \in Actors, InsertLog(a)
  PROVE  FinishInv'
<1>. DEFINE new == [ id |-> logSeq + 1, row |-> call[a].car.id,
                     raw |-> call[a].t - call[a].car.tStart,
                     pt |-> call[a].car.pt, mc |-> call[a].car.mc ]
<1>0. /\ logSeq \in Nat /\ call \in [Actors -> Call] /\ call[a].pc = "insert_log"
      /\ logSeq' = logSeq + 1 /\ logs' = logs \cup {new}
      /\ new.id = logSeq + 1 /\ new.row = call[a].car.id
  BY DEF TypeInv, StoreOK, CallsOK, InsertLog, At
<1>1. /\ UNCHANGED <<queue, pending, timers, confirming>>
      /\ call' = [call EXCEPT ![a].pc = "register", ![a].log = logSeq + 1]
  BY DEF InsertLog, memory
<1>. HIDE DEF new
<1>2. /\ Registering' = Registering \cup {a} /\ Undoing' = Undoing
      /\ a \notin Registering \cup Undoing
      /\ call'[a].log = logSeq + 1 /\ call'[a].car = call[a].car
      /\ \A b \in Registering \cup Undoing : call'[b] = call[b]
  BY <1>0, <1>1 DEF Call, Registering, Undoing, At
<1>3. Unsettled' \subseteq Unsettled \cup {logSeq + 1}
  <2>1. \A l \in Unsettled' : \/ \E p \in pending \cup confirming : l = p.log
                             \/ \E b \in Registering' \cup Undoing' : l = call'[b].log
    BY <1>1 DEF Unsettled
  <2>2. \A b \in Registering' \cup Undoing' :
          call'[b].log \in Unsettled \cup {logSeq + 1}
    BY <1>2 DEF Unsettled
  <2>. QED BY <2>1, <2>2 DEF Unsettled
<1>4. LogsNumbered'
  BY <1>0 DEF FinishInv, LogsNumbered
<1>5. OnRecord'
  <2>1. \A l, r : TimingOf(l, r) => TimingOf(l, r)'
    BY <1>0 DEF TimingOf
  <2>2. TimingOf(call[a].log, call[a].car.id)'
    BY <1>0, <1>2 DEF TimingOf
  <2>3. \A b \in Undoing' : call'[b].log \in 1 .. logSeq'
    BY <1>0, <1>2 DEF FinishInv, OnRecord, Undoing
  <2>4. \A p \in pending' \cup confirming' : TimingOf(p.log, p.row)'
    BY <1>1, <2>1 DEF FinishInv, OnRecord
  <2>5. \A b \in Registering' : TimingOf(call[b].log, call[b].car.id)'
    BY <1>2, <2>1, <2>2 DEF FinishInv, OnRecord, TimingOf, Registering
  <2>. QED BY <2>3, <2>4, <2>5 DEF OnRecord
<1>6. TimingHeldOnce'
  <2>1. \A l \in Unsettled : l # logSeq + 1
    BY <1>0, HeldIsNumbered
  <2>2. \A p \in pending' \cup confirming' : p.log # logSeq + 1
    BY <1>1, <2>1 DEF Unsettled
  <2>3. \A b \in Registering \cup Undoing : call'[b] = call[b]
                                            /\ call[b].log # logSeq + 1
    BY <1>2, <2>1 DEF Unsettled
  <2>4. \A b \in Registering' \cup Undoing' :
          b \in Registering \cup Undoing \/ b = a
    BY <1>2
  <2>5. \A p \in pending', q \in confirming' : p.log # q.log
    BY <1>1 DEF FinishInv, TimingHeldOnce
  <2>6. \A b \in Registering' \cup Undoing', p \in pending' \cup confirming' :
          p.log # call'[b].log
    <3>1. \A b \in Registering \cup Undoing, p \in pending \cup confirming :
            p.log # call'[b].log
      BY <2>3 DEF FinishInv, TimingHeldOnce
    <3>. QED BY <1>1, <1>2, <2>2, <2>4, <3>1
  <2>7. \A b, c \in Registering' \cup Undoing' :
          call'[b].log = call'[c].log => b = c
    BY <1>2, <2>3, <2>4 DEF FinishInv, TimingHeldOnce
  <2>. QED BY <2>5, <2>6, <2>7 DEF TimingHeldOnce
<1>7. PendingHasTimer'
  BY <1>1 DEF FinishInv, PendingHasTimer
<1>8. DoneIsSettled'
  <2>1. \A g \in logs : g.id # logSeq + 1
    BY <1>0 DEF FinishInv, LogsNumbered
  <2>. QED BY <1>0, <1>1, <1>3, <2>1 DEF FinishInv, DoneIsSettled
<1>. QED BY <1>4, <1>5, <1>6, <1>7, <1>8 DEF FinishInv

LEMMA LogOrphanKeeps ==
  ASSUME TypeInv, FinishInv, LogOrphan
  PROVE  FinishInv'
<1>. DEFINE a == Dispatcher
            new == [ id |-> logSeq + 1, row |-> NoRow,
                     raw |-> call[a].t - call[a].run.tStart,
                     pt |-> 0, mc |-> FALSE ]
<1>0. /\ logSeq \in Nat /\ CallsOK /\ a \in Actors
      /\ logSeq' = logSeq + 1 /\ logs' = logs \cup {new} /\ new.id = logSeq + 1
      /\ UNCHANGED <<queue, pending, timers, confirming>> /\ Return(a)
  BY DEF TypeInv, StoreOK, Actors, LogOrphan, memory
<1>. HIDE DEF a, new
<1>1. /\ Registering' \subseteq Registering /\ Undoing' \subseteq Undoing
      /\ \A b \in Registering' \cup Undoing' : call'[b] = call[b]
  BY <1>0, ReturnReleases DEF Registering, Undoing
<1>2. Unsettled' \subseteq Unsettled
  BY <1>0, <1>1 DEF Unsettled
<1>3. LogsNumbered'
  BY <1>0 DEF FinishInv, LogsNumbered
<1>4. OnRecord'
  <2>1. \A l, r : TimingOf(l, r) => TimingOf(l, r)'
    BY <1>0 DEF TimingOf
  <2>2. \A b \in Undoing' : call'[b].log \in 1 .. logSeq'
    BY <1>0, <1>1 DEF FinishInv, OnRecord
  <2>3. \A p \in pending' \cup confirming' : TimingOf(p.log, p.row)'
    BY <1>0, <2>1 DEF FinishInv, OnRecord
  <2>4. ASSUME NEW b \in Registering'
        PROVE  TimingOf(call[b].log, call[b].car.id)'
    <3>1. TimingOf(call[b].log, call[b].car.id) /\ call'[b] = call[b]
      BY <1>1 DEF FinishInv, OnRecord
    <3>. QED BY <1>0, <3>1 DEF TimingOf
  <2>. QED BY <2>2, <2>3, <2>4 DEF OnRecord
<1>5. TimingHeldOnce' /\ PendingHasTimer'
  BY <1>0, <1>1 DEF FinishInv, TimingHeldOnce, PendingHasTimer
<1>6. DoneIsSettled'
  BY <1>0, <1>2 DEF FinishInv, DoneIsSettled
<1>. QED BY <1>3, <1>4, <1>5, <1>6 DEF FinishInv

(* Registering: the entry takes over what the handler held.                *)
LEMMA RegisterKeeps ==
  ASSUME TypeInv, FinishInv, NEW a \in Actors, Register(a)
  PROVE  FinishInv'
<1>. DEFINE finish == [row |-> call[a].car.id, log |-> call[a].log]
<1>0. /\ CallsOK /\ a \in Registering /\ Return(a)
      /\ UNCHANGED <<queue, logs, logSeq, confirming>>
      /\ pending' = { p \in pending : p.row # finish.row } \cup {finish}
      /\ timers' = timers \cup {finish}
      /\ finish.row = call[a].car.id /\ finish.log = call[a].log
  BY DEF TypeInv, Register, Registering, store
<1>. HIDE DEF finish
<1>1. /\ Registering' = Registering \ {a} /\ Undoing' \subseteq Undoing
      /\ \A b \in Registering' \cup Undoing' : call'[b] = call[b] /\ b # a
  BY <1>0, ReturnReleases DEF Registering, Undoing
<1>2. Unsettled' \subseteq Unsettled
  BY <1>0, <1>1 DEF Unsettled
<1>3. OnRecord'
  <2>1. \A p \in pending' \cup confirming' : TimingOf(p.log, p.row)'
    BY <1>0 DEF FinishInv, OnRecord, TimingOf
  <2>2. ASSUME NEW b \in Registering'
        PROVE  TimingOf(call[b].log, call[b].car.id)'
    <3>1. TimingOf(call[b].log, call[b].car.id) /\ call'[b] = call[b]
      BY <1>1 DEF FinishInv, OnRecord
    <3>. QED BY <1>0, <3>1 DEF TimingOf
  <2>3. \A b \in Undoing' : call'[b].log \in 1 .. logSeq'
    BY <1>0, <1>1 DEF FinishInv, OnRecord
  <2>. QED BY <2>1, <2>2, <2>3 DEF OnRecord
<1>4. TimingHeldOnce'
  <2>1. \A q \in confirming : q.log # finish.log
    BY <1>0 DEF FinishInv, TimingHeldOnce
  <2>2. \A b \in Registering' \cup Undoing' : call'[b].log # finish.log
    BY <1>0, <1>1 DEF FinishInv, TimingHeldOnce
  <2>3. \A p \in pending', q \in confirming' : p.log # q.log
    BY <1>0, <2>1 DEF FinishInv, TimingHeldOnce
  <2>4. \A b \in Registering' \cup Undoing', p \in pending' \cup confirming' :
          p.log # call'[b].log
    <3>1. \A b \in Registering' \cup Undoing', p \in pending \cup confirming :
            p.log # call'[b].log
      BY <1>1 DEF FinishInv, TimingHeldOnce
    <3>. QED BY <1>0, <2>2, <3>1
  <2>5. \A b, c \in Registering' \cup Undoing' :
          call'[b].log = call'[c].log => b = c
    BY <1>1 DEF FinishInv, TimingHeldOnce
  <2>. QED BY <2>3, <2>4, <2>5 DEF TimingHeldOnce
<1>5. PendingHasTimer'
  BY <1>0 DEF FinishInv, PendingHasTimer
<1>6. LogsNumbered' /\ DoneIsSettled'
  BY <1>0, <1>2 DEF FinishInv, LogsNumbered, DoneIsSettled
<1>. QED BY <1>3, <1>4, <1>5, <1>6 DEF FinishInv

(* Undoing a goal: the handler takes over what the entry held.             *)
LEMMA BeginUndoGoalKeeps ==
  ASSUME TypeInv, FinishInv, NEW a \in Actors, BeginUndoGoal(a)
  PROVE  FinishInv'
<1>1. PICK p \in pending :
        /\ pending' = pending \ {p}
        /\ call' = [call EXCEPT ![a] = [NoCall EXCEPT !.pc = "undo_stop",
                                                      !.log = p.log]]
  BY DEF BeginUndoGoal
<1>0. /\ UNCHANGED <<queue, logs, logSeq, timers, confirming>>
      /\ call \in [Actors -> Call] /\ call[a].pc = "idle"
  BY DEF TypeInv, CallsOK, BeginUndoGoal, Admit, At, store
<1>2. /\ Registering' = Registering /\ Undoing' = Undoing \cup {a}
      /\ a \notin Registering \cup Undoing /\ call'[a].log = p.log
      /\ \A b \in Registering \cup Undoing : call'[b] = call[b]
  BY <1>0, <1>1 DEF NoCall, Registering, Undoing, At
<1>3. Unsettled' \subseteq Unsettled
  <2>1. \A b \in Registering' \cup Undoing' : call'[b].log \in Unsettled
    BY <1>2 DEF Unsettled
  <2>2. \A q \in pending' \cup confirming' : q.log \in Unsettled
    BY <1>0, <1>1 DEF Unsettled
  <2>. QED BY <2>1, <2>2 DEF Unsettled
<1>4. OnRecord'
  <2>1. p.log \in 1 .. logSeq
    BY HeldIsNumbered DEF Unsettled
  <2>2. \A q \in pending' \cup confirming' : TimingOf(q.log, q.row)'
    BY <1>0, <1>1 DEF FinishInv, OnRecord, TimingOf
  <2>3. ASSUME NEW b \in Registering'
        PROVE  TimingOf(call[b].log, call[b].car.id)'
    <3>1. TimingOf(call[b].log, call[b].car.id) /\ call'[b] = call[b]
      BY <1>2 DEF FinishInv, OnRecord
    <3>. QED BY <1>0, <3>1 DEF TimingOf
  <2>4. \A b \in Undoing' : call'[b].log \in 1 .. logSeq'
    BY <1>0, <1>2, <2>1 DEF FinishInv, OnRecord
  <2>. QED BY <2>2, <2>3, <2>4 DEF OnRecord
<1>5. TimingHeldOnce'
  <2>1. \A q \in pending' \cup confirming' : q.log # p.log
    <3>1. \A q \in pending' : q \in pending /\ q # p
      BY <1>1
    <3>2. \A q \in confirming' : q.log # p.log
      BY <1>0 DEF FinishInv, TimingHeldOnce
    <3>. QED BY <3>1, <3>2, SameFinish
  <2>2. \A q \in pending', r \in confirming' : q.log # r.log
    BY <1>0, <1>1 DEF FinishInv, TimingHeldOnce
  <2>3. \A b \in Registering \cup Undoing :
          /\ call'[b].log # p.log
          /\ \A q \in pending' \cup confirming' : q.log # call'[b].log
          /\ \A c \in Registering \cup Undoing :
               call'[b].log = call'[c].log => b = c
    BY <1>0, <1>1, <1>2 DEF FinishInv, TimingHeldOnce
  <2>. QED BY <1>2, <2>1, <2>2, <2>3 DEF TimingHeldOnce
<1>6. PendingHasTimer'
  BY <1>0, <1>1 DEF FinishInv, PendingHasTimer
<1>7. LogsNumbered' /\ DoneIsSettled'
  BY <1>0, <1>3 DEF FinishInv, LogsNumbered, DoneIsSettled
<1>. QED BY <1>4, <1>5, <1>6, <1>7 DEF FinishInv

(* The timer stopped is that of an entry nobody has any more.              *)
LEMMA UndoGoalStopKeeps ==
  ASSUME TypeInv, FinishInv, NEW a \in Actors, UndoGoalStop(a)
  PROVE  FinishInv'
<1>0. /\ UNCHANGED <<queue, logs, logSeq, pending, confirming>>
      /\ \A m \in timers : m.log # call[a].log => m \in timers'
      /\ a \in Undoing /\ call \in [Actors -> Call]
      /\ call' = [call EXCEPT ![a].pc = "undo_delete"]
  BY DEF TypeInv, CallsOK, UndoGoalStop, Undoing, At, Goto, store
<1>1. /\ Registering' = Registering /\ Undoing' = Undoing
      /\ \A b \in Actors : /\ call'[b].log = call[b].log
                           /\ call'[b].car = call[b].car
  BY <1>0 DEF Call, Registering, Undoing, At
<1>2. Unsettled' = Unsettled
  BY <1>0, <1>1 DEF Unsettled, Registering, Undoing
<1>3. OnRecord'
  <2>1. ASSUME NEW b \in Registering'
        PROVE  TimingOf(call[b].log, call[b].car.id)'
    <3>1. TimingOf(call[b].log, call[b].car.id) /\ b \in Actors
      BY <1>1 DEF FinishInv, OnRecord, Registering
    <3>. QED BY <1>0, <1>1, <3>1 DEF TimingOf
  <2>2. \A p \in pending' \cup confirming' : TimingOf(p.log, p.row)'
    BY <1>0 DEF FinishInv, OnRecord, TimingOf
  <2>3. \A b \in Undoing' : call'[b].log \in 1 .. logSeq'
    BY <1>0, <1>1 DEF FinishInv, OnRecord, Undoing
  <2>. QED BY <2>1, <2>2, <2>3 DEF OnRecord
<1>4. TimingHeldOnce'
  <2>1. \A b \in Registering \cup Undoing : call'[b].log = call[b].log
    BY <1>1 DEF Registering, Undoing
  <2>. QED BY <1>0, <1>1, <2>1 DEF FinishInv, TimingHeldOnce
<1>5. PendingHasTimer'
  BY <1>0 DEF FinishInv, TimingHeldOnce, PendingHasTimer
<1>6. LogsNumbered' /\ DoneIsSettled'
  BY <1>0, <1>2 DEF FinishInv, LogsNumbered, DoneIsSettled
<1>. QED BY <1>3, <1>4, <1>5, <1>6 DEF FinishInv

(* What an undo deletes is held by it alone, so nobody else's timing and   *)
(* no settled one.                                                         *)
LEMMA UndoGoalDeleteKeeps ==
  ASSUME TypeInv, FinishInv, NEW a \in Actors, UndoGoalDelete(a)
  PROVE  FinishInv'
<1>. DEFINE l == call[a].log
<1>0. /\ UNCHANGED <<queue, logSeq, pending, timers, confirming>>
      /\ logs' = { g \in logs : g.id # l }
      /\ a \in Undoing /\ CallsOK /\ Return(a)
  BY DEF TypeInv, UndoGoalDelete, Undoing, At, Timing, memory
<1>1. /\ Registering' \subseteq Registering /\ Undoing' \subseteq Undoing \ {a}
      /\ a \notin Registering'
      /\ \A b \in Registering' \cup Undoing' : call'[b] = call[b]
  BY <1>0, ReturnReleases DEF Registering, Undoing, At
<1>2. Unsettled' \subseteq Unsettled /\ l \in Unsettled
  BY <1>0, <1>1 DEF Unsettled
<1>3. \A k, r : TimingOf(k, r) /\ k # l => TimingOf(k, r)'
  BY <1>0 DEF TimingOf
<1>4. OnRecord'
  <2>1. \A p \in pending' \cup confirming' : TimingOf(p.log, p.row)'
    BY <1>0, <1>3 DEF FinishInv, OnRecord, TimingHeldOnce
  <2>2. ASSUME NEW b \in Registering'
        PROVE  TimingOf(call[b].log, call[b].car.id)'
    <3>1. TimingOf(call[b].log, call[b].car.id) /\ call'[b] = call[b]
          /\ call[b].log # l
      BY <1>0, <1>1 DEF FinishInv, OnRecord, TimingHeldOnce
    <3>. HIDE DEF l
    <3>. QED BY <1>0, <3>1 DEF TimingOf
  <2>3. \A b \in Undoing' : call'[b].log \in 1 .. logSeq'
    BY <1>0, <1>1 DEF FinishInv, OnRecord
  <2>. QED BY <2>1, <2>2, <2>3 DEF OnRecord
<1>5. TimingHeldOnce' /\ PendingHasTimer'
  BY <1>0, <1>1 DEF FinishInv, TimingHeldOnce, PendingHasTimer
<1>6. LogsNumbered' /\ DoneIsSettled'
  <2>. HIDE DEF l
  <2>. QED BY <1>0, <1>2 DEF FinishInv, LogsNumbered, DoneIsSettled
<1>. QED BY <1>4, <1>5, <1>6 DEF FinishInv

(* A timer takes every entry of its row, so the others keep theirs.        *)
LEMMA TimerFiresKeeps ==
  ASSUME TypeInv, FinishInv, NEW timer \in timers, TimerFires(timer)
  PROVE  FinishInv'
<1>. DEFINE taken == { p \in pending : p.row = timer.row }
<1>0. /\ UNCHANGED <<queue, logs, logSeq, call>>
      /\ timers' = timers \ {timer}
      /\ pending' = pending \ taken /\ confirming' = confirming \cup taken
  BY DEF TimerFires, store
<1>1. pending' \cup confirming' = pending \cup confirming
  BY <1>0
<1>2. Registering' = Registering /\ Undoing' = Undoing /\ Unsettled' = Unsettled
  BY <1>0, <1>1 DEF Registering, Undoing, Unsettled, At
<1>3. OnRecord'
  BY <1>0, <1>1, <1>2 DEF FinishInv, OnRecord, TimingOf
<1>4. TimingHeldOnce'
  <2>1. ASSUME NEW p \in pending', NEW q \in confirming'
        PROVE  p.log # q.log
    <3>1. p \in pending /\ p \notin taken /\ q \in confirming \cup taken
      BY <1>0
    <3>2. CASE q \in confirming
      BY <3>1, <3>2 DEF FinishInv, TimingHeldOnce
    <3>3. CASE q \in taken
      BY <3>1, <3>3, SameFinish
    <3>. QED BY <3>1, <3>2, <3>3
  <2>. QED BY <1>0, <1>1, <1>2, <2>1 DEF FinishInv, TimingHeldOnce
<1>5. PendingHasTimer'
  BY <1>0 DEF FinishInv, PendingHasTimer
<1>6. LogsNumbered' /\ DoneIsSettled'
  BY <1>0, <1>2 DEF FinishInv, LogsNumbered, DoneIsSettled
<1>. QED BY <1>3, <1>4, <1>5, <1>6 DEF FinishInv

(* Confirming settles the timing: nobody else holds it.                    *)
LEMMA ConfirmKeeps ==
  ASSUME TypeInv, FinishInv, NEW finish \in confirming,
         Confirm(finish) \/ ConfirmError(finish)
  PROVE  FinishInv'
<1>0. /\ UNCHANGED <<logs, logSeq, call, pending, timers>>
      /\ confirming' = confirming \ {finish} /\ queue \in Seq(QueueRow)
  BY DEF Confirm, ConfirmError, store, TypeInv, StoreOK
<1>1. Registering' = Registering /\ Undoing' = Undoing
  BY <1>0 DEF Registering, Undoing, At
<1>2. Unsettled' \subseteq Unsettled
  BY <1>0, <1>1 DEF Unsettled
<1>3. finish.log \notin Unsettled'
  <2>1. \A p \in pending' \cup confirming' : p.log # finish.log
    <3>1. \A p \in pending : p.log # finish.log
      BY DEF FinishInv, TimingHeldOnce
    <3>2. \A p \in confirming \ {finish} : p.log # finish.log
      BY SameFinish
    <3>. QED BY <1>0, <3>1, <3>2
  <2>2. \A b \in Registering' \cup Undoing' : call'[b].log # finish.log
    BY <1>0, <1>1 DEF FinishInv, TimingHeldOnce
  <2>. QED BY <2>1, <2>2 DEF Unsettled
<1>4. LogsNumbered' /\ OnRecord' /\ TimingHeldOnce' /\ PendingHasTimer'
  BY <1>0, <1>1 DEF FinishInv, LogsNumbered, OnRecord, TimingOf, TimingHeldOnce,
                    PendingHasTimer
<1>5. DoneIsSettled'
  <2>1. DOMAIN queue' = DOMAIN queue
        /\ \A r \in DOMAIN queue : r # finish.row => queue'[r] = queue[r]
    BY <1>0 DEF Confirm, ConfirmError, SetQueueStatus, store
  <2>2. \E g \in logs : g.row = finish.row /\ g.id = finish.log
    BY DEF FinishInv, OnRecord, TimingOf
  <2>. QED BY <1>0, <1>2, <1>3, <2>1, <2>2 DEF FinishInv, DoneIsSettled
<1>. QED BY <1>4, <1>5 DEF FinishInv

(* A restart forgets every finish in its grace window, not their timings.  *)
LEMMA RestartKeeps ==
  ASSUME FinishInv, Restart
  PROVE  FinishInv'
<1>0. /\ UNCHANGED <<queue, logs, logSeq>>
      /\ pending' = {} /\ timers' = {} /\ confirming' = {}
      /\ call' = [a \in Actors |-> NoCall]
  BY DEF Restart, store
<1>1. Registering' = {} /\ Undoing' = {}
  BY <1>0 DEF Registering, Undoing, At, NoCall
<1>2. Unsettled' = {}
  BY <1>0, <1>1 DEF Unsettled
<1>. QED BY <1>0, <1>1, <1>2 DEF FinishInv, LogsNumbered, OnRecord,
                                 TimingHeldOnce, PendingHasTimer, DoneIsSettled

-----------------------------------------------------------------------------
LEMMA InitFinish == Init => FinishInv
<1>. SUFFICES ASSUME Init
              PROVE  FinishInv
  OBVIOUS
<1>1. Registering = {} /\ Undoing = {} /\ logs = {} /\ pending = {}
      /\ confirming = {}
  BY DEF Init, Registering, Undoing, At, NoCall
<1>2. DoneIsSettled
  BY InitialTablesAreFresh DEF Init, DoneIsSettled
<1>. QED BY <1>1, <1>2 DEF FinishInv, LogsNumbered, OnRecord, TimingHeldOnce,
                           PendingHasTimer

LEMMA NextFinish == TypeInv /\ FinishInv /\ [Next]_vars => FinishInv'
<1>. SUFFICES ASSUME TypeInv, FinishInv, [Next]_vars
              PROVE  FinishInv'
  OBVIOUS
<1>1. ASSUME NEW a \in Actors, Arrivals(a)
      PROVE  FinishInv'
  BY <1>1, RequestsAside, OrphansAside, EventsAside, AsideKeepsFinishInv,
     BeginUndoGoalKeeps
     DEF Arrivals
<1>2. ASSUME NEW a \in Actors, Proceed(a)
      PROVE  FinishInv'
  BY <1>2, ReadsAside, QueueStepsAside, EventsAside, OrphansAside,
     AsideKeepsFinishInv, InsertLogKeeps, RegisterKeeps, UndoGoalStopKeeps,
     UndoGoalDeleteKeeps
     DEF Proceed, LaunchSteps, StartSteps, FinishSteps, UndoSteps, QueueSteps,
         EventSteps, OrphanSteps
<1>3. ASSUME NEW a \in Actors, StoreError(a) \/ OrphanStoreError(a)
      PROVE  FinishInv'
  BY <1>3, ReadsAside, AsideKeepsFinishInv
<1>4. CASE Triggers
  BY <1>4, TriggersAside, AsideKeepsFinishInv
<1>5. CASE DispatcherSteps
  BY <1>5, OrphansAside, AsideKeepsFinishInv, LogOrphanKeeps DEF DispatcherSteps
<1>6. CASE Grace
  BY <1>6, TimerFiresKeeps, ConfirmKeeps DEF Grace
<1>7. CASE Restart
  BY <1>7, RestartKeeps
<1>8. CASE UNCHANGED vars
  <2>1. Registering' = Registering /\ Undoing' = Undoing /\ Unsettled' = Unsettled
    BY <1>8 DEF vars, Registering, Undoing, Unsettled, At
  <2>. QED BY <1>8, <2>1 DEF vars, FinishInv, LogsNumbered, OnRecord, TimingOf,
                             TimingHeldOnce, PendingHasTimer, DoneIsSettled
<1>. QED BY <1>1, <1>2, <1>3, <1>4, <1>5, <1>6, <1>7, <1>8 DEF Next

LEMMA FinishInvariant == Spec => []FinishInv
<1>1. Init => FinishInv
  BY InitFinish
<1>2. TypeInv /\ FinishInv /\ [Next]_vars => FinishInv'
  BY NextFinish
<1>. QED BY <1>1, <1>2, TypeInvariant, PTL DEF Spec

(***************************************************************************)
(* A row that is done has a timing on record, whatever overlaps, fails or  *)
(* crashes: finishCar writes it before the row can be confirmed, and       *)
(* undo-goal only deletes one that is nobody's but its own.                *)
(***************************************************************************)
THEOREM DoneKeepsItsTiming == Spec => []DoneHasTiming
<1>1. FinishInv => DoneHasTiming
  BY DEF FinishInv, DoneIsSettled, DoneHasTiming, HasTiming
<1>. QED BY <1>1, FinishInvariant, PTL

(***************************************************************************)
(* Every entry of courseManager.pending points at a timing in the logs     *)
(* table, of the entry's own row.                                          *)
(***************************************************************************)
THEOREM PendingIsOnRecord == Spec => []PendingTimingOnRecord
<1>1. FinishInv => PendingTimingOnRecord
  BY DEF FinishInv, OnRecord, TimingOf, PendingTimingOnRecord
<1>. QED BY <1>1, FinishInvariant, PTL

(***************************************************************************)
(* Every entry of courseManager.pending has its grace timer armed, though  *)
(* the map is keyed by row and a second finish of a row replaces the entry *)
(* of the first while the timers of both run.                              *)
(***************************************************************************)
THEOREM PendingStaysArmed == Spec => []PendingHasTimer
<1>1. FinishInv => PendingHasTimer
  BY DEF FinishInv
<1>. QED BY <1>1, FinishInvariant, PTL

(***************************************************************************)
(* Confirming and undoing a goal never work on the same timing: each       *)
(* timing that can still be taken back is in one pair of hands.            *)
(***************************************************************************)
THEOREM TimingsHeldApart == Spec => []TimingHeldOnce
<1>1. FinishInv => TimingHeldOnce
  BY DEF FinishInv
<1>. QED BY <1>1, FinishInvariant, PTL
=============================================================================
