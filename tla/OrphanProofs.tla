---------------------------- MODULE OrphanProofs ----------------------------
(***************************************************************************)
(* What becomes of a start trigger that found no READY car, for any number *)
(* of handlers, cars, crashes and failed writes (module Course, properties *)
(* in CourseProperties).                                                   *)
(*                                                                         *)
(* OrphanInv is inductive given the types: the orphan runs are in the      *)
(* order their ids were given out, and a run an operation has taken away   *)
(* has an id given out before, that is neither in the queue nor in the     *)
(* hands of another operation.                                             *)
(***************************************************************************)
EXTENDS CourseProofs

TakeSteps == {"adopt_claim", "adopt_stamp", "log_orphan", "adopt_rollback", "restore"}

Ids(runs) == { runs[i].id : i \in DOMAIN runs }

Ordered(runs) ==
  \A i, j \in DOMAIN runs : i < j => runs[i].id < runs[j].id

Given == 1 .. orphanSeq

OrphanInv ==
  /\ Ordered(orphanRuns)
  /\ Ids(orphanRuns) \subseteq Given
  /\ \A a \in Holders : call[a].run.id \in Given \ Ids(orphanRuns)
  /\ \A a, b \in Holders : call[a].run.id = call[b].run.id => a = b

-----------------------------------------------------------------------------
(* The steps that leave the orphan runs alone: they take none, and a       *)
(* handler that holds one keeps it or is done with it.                     *)

NoneTaken ==
  \A a \in Actors : call'[a].pc \in TakeSteps =>
    call[a].pc \in TakeSteps /\ call'[a].run = call[a].run

Aside == UNCHANGED <<orphanRuns, orphanSeq>> /\ NoneTaken

LEMMA AsideKeepsOrphans ==
  ASSUME OrphanInv, Aside
  PROVE  OrphanInv'
<1>1. \A a \in Holders' : a \in Holders /\ call'[a].run = call[a].run
  BY DEF Aside, NoneTaken, Holders, TakeSteps
<1>. QED BY <1>1 DEF Aside, OrphanInv, Given

LEMMA OneHandler ==
  ASSUME CallsOK, NEW a \in Actors, UNCHANGED <<orphanRuns, orphanSeq>>,
         call' = [call EXCEPT ![a] = call'[a]],
         call'[a].pc \in TakeSteps =>
           call[a].pc \in TakeSteps /\ call'[a].run = call[a].run
  PROVE  Aside
BY DEF CallsOK, Aside, NoneTaken

(* A request arrives with no run in its hands.                             *)
LEMMA RequestsAside ==
  ASSUME TypeInv, NEW a \in Actors,
         \/ BeginLaunch(a) \/ BeginMyLaunch(a) \/ BeginStartOldest(a)
         \/ BeginFinishOldest(a) \/ BeginFinishByID(a) \/ BeginCancel(a)
         \/ BeginUndoStart(a) \/ BeginMyLaunchUndo(a) \/ BeginPT(a)
         \/ BeginMC(a) \/ BeginQueueAdd(a) \/ BeginMyQueueAdd(a)
         \/ BeginQueueCancel(a) \/ BeginMyQueueCancel(a) \/ BeginReorder(a)
         \/ BeginAdopt(a) \/ BeginClose(a) \/ BeginSettings(a)
         \/ BeginUndoGoal(a)
  PROVE  Aside
<1>. DEFINE c == call'[a]
<1>0. a \in DOMAIN call /\ call \in [Actors -> Call] /\ CallsOK
  BY DEF TypeInv, CallsOK
<1>. SUFFICES /\ UNCHANGED <<orphanRuns, orphanSeq>>
              /\ call' = [call EXCEPT ![a] = c]
              /\ c.pc \in TakeSteps =>
                   call[a].pc \in TakeSteps /\ c.run = call[a].run
  <2>. HIDE DEF TakeSteps
  <2>. QED BY <1>0, OneHandler
<1>1 CASE BeginLaunch(a)
  <2>. DEFINE begun(e, t) ==
         [NoCall EXCEPT !.pc = "list_head", !.ev = e,
                        !.t = IF event[e].mode = "sensor" THEN NoTime ELSE t]
  <2>1. PICK e, t : Arrive(a, "launch", begun(e, t))
    BY <1>1 DEF BeginLaunch
  <2>2. begun(e, t).pc = "list_head"
    BY DEF NoCall
  <2>. HIDE DEF begun
  <2>. QED BY <1>0, <2>1, <2>2 DEF Arrive, memory, TakeSteps
<1>2. CASE BeginMyLaunch(a)
  BY <1>0, <1>2
     DEF BeginMyLaunch, Arrive, NoCall, memory, TakeSteps
<1>3. CASE BeginStartOldest(a)
  BY <1>0, <1>3
     DEF BeginStartOldest, Arrive, NoCall, memory, TakeSteps
<1>4. CASE BeginFinishOldest(a)
  BY <1>0, <1>4
     DEF BeginFinishOldest, Arrive, NoCall, memory, TakeSteps
<1>5. CASE BeginFinishByID(a)
  BY <1>0, <1>5
     DEF BeginFinishByID, Arrive, NoCall, memory, TakeSteps
<1>6. CASE BeginCancel(a)
  BY <1>0, <1>6
     DEF BeginCancel, Arrive, NoCall, memory, TakeSteps
<1>7. CASE BeginUndoStart(a)
  BY <1>0, <1>7
     DEF BeginUndoStart, Arrive, NoCall, memory, TakeSteps
<1>8. CASE BeginMyLaunchUndo(a)
  BY <1>0, <1>8
     DEF BeginMyLaunchUndo, Arrive, NoCall, memory, TakeSteps
<1>9. CASE BeginPT(a)
  BY <1>0, <1>9
     DEF BeginPT, Arrive, NoCall, memory, TakeSteps
<1>10. CASE BeginMC(a)
  BY <1>0, <1>10
     DEF BeginMC, Arrive, NoCall, memory, TakeSteps
<1>11. CASE BeginQueueAdd(a)
  BY <1>0, <1>11
     DEF BeginQueueAdd, Arrive, NoCall, memory, TakeSteps
<1>12. CASE BeginMyQueueAdd(a)
  BY <1>0, <1>12
     DEF BeginMyQueueAdd, Arrive, NoCall, memory, TakeSteps
<1>13. CASE BeginQueueCancel(a)
  BY <1>0, <1>13
     DEF BeginQueueCancel, Arrive, NoCall, memory, TakeSteps
<1>14. CASE BeginMyQueueCancel(a)
  BY <1>0, <1>14
     DEF BeginMyQueueCancel, Arrive, NoCall, memory, TakeSteps
<1>15. CASE BeginReorder(a)
  BY <1>0, <1>15
     DEF BeginReorder, Arrive, NoCall, memory, TakeSteps
<1>16 CASE BeginAdopt(a)
  <2>. DEFINE begun(e, id) ==
         [NoCall EXCEPT !.pc = "list_head", !.ev = e,
                        !.run = [NoRun EXCEPT !.id = id]]
  <2>1. PICK e, id : Arrive(a, "adopt", begun(e, id))
    BY <1>16 DEF BeginAdopt
  <2>2. begun(e, id).pc = "list_head"
    BY DEF NoCall
  <2>. HIDE DEF begun
  <2>. QED BY <1>0, <2>1, <2>2 DEF Arrive, memory, TakeSteps
<1>17. CASE BeginClose(a)
  BY <1>0, <1>17
     DEF BeginClose, Arrive, NoCall, memory, TakeSteps
<1>18. CASE BeginSettings(a)
  BY <1>0, <1>18
     DEF BeginSettings, Arrive, NoCall, memory, TakeSteps
<1>19. CASE BeginUndoGoal(a)
  BY <1>0, <1>19
     DEF BeginUndoGoal, Arrive, NoCall, memory, TakeSteps
<1>. QED
  BY <1>1, <1>2, <1>3, <1>4, <1>5, <1>6, <1>7, <1>8, <1>9,
     <1>10, <1>11, <1>12, <1>13, <1>14, <1>15, <1>16, <1>17, <1>18,
     <1>19

(* A handler that reads, checks or gives up takes none.                    *)
LEMMA ReadsAside ==
  ASSUME TypeInv, NEW a \in Actors,
         \/ ListHead(a) \/ MyNotOnCourse(a) \/ MyTurn(a)
         \/ ListReady(a) \/ NoReadyCar(a) \/ ListCourse(a)
         \/ ScanNext(a) \/ NoRunningCar(a) \/ CheckFinish(a)
         \/ CheckCancel(a) \/ ListMine(a) \/ CheckUndoStart(a)
         \/ UndoMode(a) \/ FindFront(a) \/ MyNotWaiting(a)
         \/ MyNotRunning(a) \/ MyQueueCancel(a) \/ StoreError(a)
         \/ OrphanStoreError(a)
  PROVE  Aside
<1>. DEFINE c == call'[a]
<1>0. a \in DOMAIN call /\ call \in [Actors -> Call] /\ CallsOK
  BY DEF TypeInv, CallsOK
<1>. SUFFICES /\ UNCHANGED <<orphanRuns, orphanSeq>>
              /\ call' = [call EXCEPT ![a] = c]
              /\ c.pc \in TakeSteps =>
                   call[a].pc \in TakeSteps /\ c.run = call[a].run
  <2>. HIDE DEF TakeSteps
  <2>. QED BY <1>0, OneHandler
<1>r. ASSUME OnlyCall, Return(a)
      PROVE  /\ UNCHANGED <<orphanRuns, orphanSeq>>
             /\ call' = [call EXCEPT ![a] = c]
             /\ c.pc \notin TakeSteps
  BY <1>0, <1>r DEF OnlyCall, memory, Return, NoCall, TakeSteps
<1>p. ASSUME OnlyCall, NEW row, NEW pc, pc \notin TakeSteps,
             call' = [call EXCEPT ![a].car = row, ![a].pc = pc]
      PROVE  /\ UNCHANGED <<orphanRuns, orphanSeq>>
             /\ call' = [call EXCEPT ![a] = c]
             /\ c.pc \notin TakeSteps
  BY <1>0, <1>p DEF OnlyCall, memory, Call, TakeSteps
<1>1 CASE ListHead(a)
  <2>1. OnlyCall /\ (Return(a) \/ \E row, pc :
          /\ pc \in {"claim", "adopt_take"}
          /\ call' = [call EXCEPT ![a].car = row, ![a].pc = pc])
    BY <1>1 DEF ListHead
  <2>. QED BY <1>r, <1>p, <2>1 DEF TakeSteps
<1>2. CASE MyNotOnCourse(a)
  BY <1>0, <1>2
     DEF MyNotOnCourse, OnlyCall, memory, At, Return, Goto, NoCall, Call,
         TakeSteps
<1>3 CASE MyTurn(a)
  <2>1. OnlyCall /\ (Return(a) \/ \E row, pc :
          /\ pc \in {"claim"}
          /\ call' = [call EXCEPT ![a].car = row, ![a].pc = pc])
    BY <1>3 DEF MyTurn
  <2>. QED BY <1>r, <1>p, <2>1 DEF TakeSteps
<1>4. CASE ListReady(a)
  BY <1>0, <1>4
     DEF ListReady, OnlyCall, memory, At, Return, Goto, NoCall, Call,
         TakeSteps
<1>5. CASE NoReadyCar(a)
  BY <1>0, <1>5
     DEF NoReadyCar, OnlyCall, memory, At, Return, Goto, NoCall, Call,
         TakeSteps
<1>6. CASE ListCourse(a)
  BY <1>0, <1>6
     DEF ListCourse, OnlyCall, memory, At, Return, Goto, NoCall, Call,
         TakeSteps
<1>7 CASE ScanNext(a)
  <2>1. OnlyCall /\ call[a].pc = "scan"
    BY <1>7 DEF ScanNext, At
  <2>2. CASE \E row : call' = [call EXCEPT ![a].todo = @ \ {row}]
    BY <1>0, <2>1, <2>2 DEF OnlyCall, memory, Call, TakeSteps
  <2>3. CASE \E row : call' = [call EXCEPT ![a].todo = {}, ![a].car = row,
                                          ![a].pc = "finish"]
    <3>1. call' = [call EXCEPT ![a] = c]
      BY <1>0, <2>3
    <3>2. c.pc = "finish"
      BY <1>0, <2>3 DEF Call
    <3>. HIDE DEF c
    <3>. QED BY <2>1, <3>1, <3>2 DEF OnlyCall, memory, TakeSteps
  <2>. QED BY <1>7, <2>2, <2>3 DEF ScanNext
<1>8. CASE NoRunningCar(a)
  BY <1>0, <1>8
     DEF NoRunningCar, OnlyCall, memory, At, Return, Goto, NoCall, Call,
         TakeSteps
<1>9. CASE CheckFinish(a)
  BY <1>0, <1>9
     DEF CheckFinish, OnlyCall, memory, At, Return, Goto, NoCall, Call,
         TakeSteps
<1>10. CASE CheckCancel(a)
  BY <1>0, <1>10
     DEF CheckCancel, OnlyCall, memory, At, Return, Goto, NoCall, Call,
         TakeSteps
<1>11 CASE ListMine(a)
  <2>1. OnlyCall /\ (Return(a) \/ \E row, pc :
          /\ pc \in {"check_undo"}
          /\ call' = [call EXCEPT ![a].car = row, ![a].pc = pc])
    BY <1>11 DEF ListMine
  <2>. QED BY <1>r, <1>p, <2>1 DEF TakeSteps
<1>12. CASE CheckUndoStart(a)
  BY <1>0, <1>12
     DEF CheckUndoStart, OnlyCall, memory, At, Return, Goto, NoCall, Call,
         TakeSteps
<1>13. CASE UndoMode(a)
  BY <1>0, <1>13
     DEF UndoMode, OnlyCall, memory, At, Return, Goto, NoCall, Call,
         TakeSteps
<1>14. CASE FindFront(a)
  BY <1>0, <1>14
     DEF FindFront, OnlyCall, memory, At, Return, Goto, NoCall, Call,
         TakeSteps
<1>15. CASE MyNotWaiting(a)
  BY <1>0, <1>15
     DEF MyNotWaiting, OnlyCall, memory, At, Return, Goto, NoCall, Call,
         TakeSteps
<1>16. CASE MyNotRunning(a)
  BY <1>0, <1>16
     DEF MyNotRunning, OnlyCall, memory, At, Return, Goto, NoCall, Call,
         TakeSteps
<1>17 CASE MyQueueCancel(a)
  <2>1. OnlyCall /\ (Return(a) \/ \E row, pc :
          /\ pc \in {"cancel"}
          /\ call' = [call EXCEPT ![a].car = row, ![a].pc = pc])
    BY <1>17 DEF MyQueueCancel
  <2>. QED BY <1>r, <1>p, <2>1 DEF TakeSteps
<1>18. CASE StoreError(a)
  BY <1>0, <1>18
     DEF StoreError, OnlyCall, memory, At, Return, Goto, NoCall, Call,
         TakeSteps
<1>19. CASE OrphanStoreError(a)
  BY <1>0, <1>19
     DEF OrphanStoreError, OnlyCall, memory, At, Return, Goto, NoCall, Call,
         TakeSteps
<1>. QED
  BY <1>1, <1>2, <1>3, <1>4, <1>5, <1>6, <1>7, <1>8, <1>9,
     <1>10, <1>11, <1>12, <1>13, <1>14, <1>15, <1>16, <1>17, <1>18,
     <1>19

(* Nor does a statement on the queue table.                                *)
LEMMA QueueWritesAside ==
  ASSUME TypeInv, NEW a \in Actors,
         \/ Claim(a) \/ LaunchStamp(a) \/ TryStart(a)
         \/ AdoptClaim(a) \/ AdoptStamp(a) \/ AdoptRollback(a)
         \/ Cancel(a) \/ ClearStart(a) \/ UndoPT(a)
         \/ UndoMC(a) \/ Requeue(a) \/ ReorderRow(a)
         \/ AddPT(a) \/ ToggleMC(a) \/ EnqueueRow(a)
         \/ CloseWaiting(a)
  PROVE  Aside
<1>. DEFINE c == call'[a]
<1>0. a \in DOMAIN call /\ call \in [Actors -> Call] /\ CallsOK
  BY DEF TypeInv, CallsOK
<1>. SUFFICES /\ UNCHANGED <<orphanRuns, orphanSeq>>
              /\ call' = [call EXCEPT ![a] = c]
              /\ c.pc \in TakeSteps =>
                   call[a].pc \in TakeSteps /\ c.run = call[a].run
  <2>. HIDE DEF TakeSteps
  <2>. QED BY <1>0, OneHandler
<1>1. CASE Claim(a)
  BY <1>0, <1>1
     DEF Claim, OnlyQueue, memory, At, Return, Goto, NoCall, Call,
         TakeSteps
<1>2. CASE LaunchStamp(a)
  BY <1>0, <1>2
     DEF LaunchStamp, OnlyQueue, memory, At, Return, Goto, NoCall, Call,
         TakeSteps
<1>3. CASE TryStart(a)
  BY <1>0, <1>3
     DEF TryStart, OnlyQueue, memory, At, Return, Goto, NoCall, Call,
         TakeSteps
<1>4. CASE AdoptClaim(a)
  BY <1>0, <1>4
     DEF AdoptClaim, OnlyQueue, memory, At, Return, Goto, NoCall, Call,
         TakeSteps
<1>5. CASE AdoptStamp(a)
  BY <1>0, <1>5
     DEF AdoptStamp, OnlyQueue, memory, At, Return, Goto, NoCall, Call,
         TakeSteps
<1>6. CASE AdoptRollback(a)
  BY <1>0, <1>6
     DEF AdoptRollback, OnlyQueue, memory, At, Return, Goto, NoCall, Call,
         TakeSteps
<1>7. CASE Cancel(a)
  BY <1>0, <1>7
     DEF Cancel, OnlyQueue, memory, At, Return, Goto, NoCall, Call,
         TakeSteps
<1>8. CASE ClearStart(a)
  BY <1>0, <1>8
     DEF ClearStart, OnlyQueue, memory, At, Return, Goto, NoCall, Call,
         TakeSteps
<1>9. CASE UndoPT(a)
  BY <1>0, <1>9
     DEF UndoPT, OnlyQueue, memory, At, Return, Goto, NoCall, Call,
         TakeSteps
<1>10. CASE UndoMC(a)
  BY <1>0, <1>10
     DEF UndoMC, OnlyQueue, memory, At, Return, Goto, NoCall, Call,
         TakeSteps
<1>11. CASE Requeue(a)
  BY <1>0, <1>11
     DEF Requeue, OnlyQueue, memory, At, Return, Goto, NoCall, Call,
         TakeSteps
<1>12. CASE ReorderRow(a)
  BY <1>0, <1>12
     DEF ReorderRow, OnlyQueue, memory, At, Return, Goto, NoCall, Call,
         TakeSteps
<1>13. CASE AddPT(a)
  BY <1>0, <1>13
     DEF AddPT, OnlyQueue, memory, At, Return, Goto, NoCall, Call,
         TakeSteps
<1>14. CASE ToggleMC(a)
  BY <1>0, <1>14
     DEF ToggleMC, OnlyQueue, memory, At, Return, Goto, NoCall, Call,
         TakeSteps
<1>15. CASE EnqueueRow(a)
  BY <1>0, <1>15
     DEF EnqueueRow, OnlyQueue, memory, At, Return, Goto, NoCall, Call,
         TakeSteps
<1>16. CASE CloseWaiting(a)
  BY <1>0, <1>16
     DEF CloseWaiting, OnlyQueue, memory, At, Return, Goto, NoCall, Call,
         TakeSteps
<1>. QED
  BY <1>1, <1>2, <1>3, <1>4, <1>5, <1>6, <1>7, <1>8, <1>9,
     <1>10, <1>11, <1>12, <1>13, <1>14, <1>15, <1>16

(* Nor a statement on the logs or the events, or the critical sections of  *)
(* finishCar and undoGoal.                                                 *)
LEMMA OtherWritesAside ==
  ASSUME TypeInv, NEW a \in Actors,
         \/ InsertLog(a) \/ Register(a) \/ UndoGoalStop(a)
         \/ UndoGoalDelete(a) \/ CloseEvent(a) \/ PutSettings(a)
  PROVE  Aside
<1>. DEFINE c == call'[a]
<1>0. a \in DOMAIN call /\ call \in [Actors -> Call] /\ CallsOK
  BY DEF TypeInv, CallsOK
<1>. SUFFICES /\ UNCHANGED <<orphanRuns, orphanSeq>>
              /\ call' = [call EXCEPT ![a] = c]
              /\ c.pc \in TakeSteps =>
                   call[a].pc \in TakeSteps /\ c.run = call[a].run
  <2>. HIDE DEF TakeSteps
  <2>. QED BY <1>0, OneHandler
<1>1. CASE InsertLog(a)
  BY <1>0, <1>1
     DEF InsertLog, memory, At, Return, Goto, NoCall, Call, TakeSteps
<1>2. CASE Register(a)
  BY <1>0, <1>2
     DEF Register, memory, At, Return, Goto, NoCall, Call, TakeSteps
<1>3. CASE UndoGoalStop(a)
  BY <1>0, <1>3
     DEF UndoGoalStop, memory, At, Return, Goto, NoCall, Call, TakeSteps
<1>4. CASE UndoGoalDelete(a)
  BY <1>0, <1>4
     DEF UndoGoalDelete, memory, At, Return, Goto, NoCall, Call, TakeSteps
<1>5. CASE CloseEvent(a)
  BY <1>0, <1>5
     DEF CloseEvent, memory, At, Return, Goto, NoCall, Call, TakeSteps
<1>6. CASE PutSettings(a)
  BY <1>0, <1>6
     DEF PutSettings, memory, At, Return, Goto, NoCall, Call, TakeSteps
<1>. QED
  BY <1>1, <1>2, <1>3, <1>4, <1>5, <1>6

-----------------------------------------------------------------------------
(* Removing runs, adding one at the end and putting one back all keep the  *)
(* order.                                                                  *)

LEMMA KeptInOrder ==
  ASSUME NEW runs \in Seq(OrphanRun), Ordered(runs), NEW I \in SUBSET (DOMAIN runs)
  PROVE  /\ Kept(runs, I) \in Seq(OrphanRun)
         /\ Ordered(Kept(runs, I))
         /\ Ids(Kept(runs, I)) \subseteq { runs[i].id : i \in I }
<1>. DEFINE kept == Kept(runs, I)
<1>1. /\ kept \in Seq(OrphanRun)
      /\ \E at \in [DOMAIN kept -> I] :
           /\ \A n \in DOMAIN kept : kept[n] = runs[at[n]]
           /\ \A m, n \in DOMAIN kept : m < n => at[m] < at[n]
  BY KeptRuns
<1>. HIDE DEF kept
<1>2. PICK at \in [DOMAIN kept -> I] :
        /\ \A n \in DOMAIN kept : kept[n] = runs[at[n]]
        /\ \A m, n \in DOMAIN kept : m < n => at[m] < at[n]
  BY <1>1
<1>3. Ordered(kept)
  BY <1>2 DEF Ordered
<1>4. Ids(kept) \subseteq { runs[i].id : i \in I }
  BY <1>2 DEF Ids
<1>. QED BY <1>1, <1>3, <1>4 DEF kept

LEMMA TailInOrder ==
  ASSUME NEW runs \in Seq(OrphanRun), Ordered(runs), runs # <<>>
  PROVE  /\ Ordered(Tail(runs))
         /\ Ids(Tail(runs)) \subseteq Ids(runs) \ {runs[1].id}
         /\ runs[1].id \in Ids(runs)
         /\ runs[1] \in OrphanRun
<1>1. /\ Len(runs) \in Nat /\ Len(runs) # 0
      /\ DOMAIN runs = 1 .. Len(runs)
      /\ \A i \in 1 .. Len(runs) : runs[i] \in OrphanRun
  BY LenProperties, EmptySeq, ElementOfSeq
<1>2. /\ Len(Tail(runs)) = Len(runs) - 1
      /\ DOMAIN Tail(runs) = 1 .. Len(runs) - 1
      /\ \A i \in 1 .. Len(runs) - 1 : Tail(runs)[i] = runs[i + 1]
  BY <1>1, HeadTailProperties, LenProperties
<1>3. Ordered(Tail(runs))
  BY <1>1, <1>2 DEF Ordered
<1>4. \A i \in 1 .. Len(runs) - 1 : runs[i + 1].id \in Ids(runs) \ {runs[1].id}
  <2>1. \A i \in 1 .. Len(runs) - 1 : 1 < i + 1 /\ i + 1 \in 1 .. Len(runs)
    BY <1>1
  <2>2. \A i \in 1 .. Len(runs) : runs[i].id \in Nat
    BY <1>1 DEF OrphanRun
  <2>3. 1 \in 1 .. Len(runs)
    BY <1>1
  <2>4. \A i \in 1 .. Len(runs) - 1 : runs[1].id < runs[i + 1].id
    BY <1>1, <2>1, <2>3 DEF Ordered
  <2>. QED BY <1>1, <2>1, <2>2, <2>3, <2>4 DEF Ids
<1>5. runs[1].id \in Ids(runs) /\ runs[1] \in OrphanRun
  BY <1>1 DEF Ids
<1>. QED BY <1>2, <1>3, <1>4, <1>5 DEF Ids

LEMMA AppendInOrder ==
  ASSUME NEW runs \in Seq(OrphanRun), Ordered(runs), NEW run \in OrphanRun,
         \A id \in Ids(runs) : id < run.id
  PROVE  /\ Ordered(Append(runs, run))
         /\ Ids(Append(runs, run)) \subseteq Ids(runs) \cup {run.id}
<1>1. Len(runs) \in Nat /\ DOMAIN runs = 1 .. Len(runs)
  BY LenProperties
<1>2. /\ DOMAIN Append(runs, run) = 1 .. Len(runs) + 1
      /\ \A i \in 1 .. Len(runs) : Append(runs, run)[i] = runs[i]
      /\ Append(runs, run)[Len(runs) + 1] = run
  BY <1>1, AppendProperties, LenProperties
<1>. DEFINE new == Append(runs, run)
<1>. HIDE DEF new
<1>3. \A i \in DOMAIN new : i \in 1 .. Len(runs) \/ i = Len(runs) + 1
  BY <1>1, <1>2 DEF new
<1>4. \A i \in 1 .. Len(runs) : runs[i].id \in Ids(runs)
  BY <1>1 DEF Ids
<1>5. Ids(new) \subseteq Ids(runs) \cup {run.id}
  BY <1>2, <1>3, <1>4 DEF Ids, new
<1>6. ASSUME NEW i \in DOMAIN new, NEW j \in DOMAIN new, i < j
      PROVE  new[i].id < new[j].id
  <2>1. i \in 1 .. Len(runs)
    BY <1>1, <1>3, <1>6
  <2>2. CASE j \in 1 .. Len(runs)
    BY <1>1, <1>2, <1>6, <2>1, <2>2 DEF Ordered, new
  <2>3. CASE j = Len(runs) + 1
    BY <1>2, <1>4, <2>1, <2>3 DEF new
  <2>. QED BY <1>3, <2>2, <2>3
<1>7. Ordered(new)
  BY <1>6 DEF Ordered
<1>. QED BY <1>5, <1>7 DEF new

LEMMA ReinsertInOrder ==
  ASSUME NEW runs \in Seq(OrphanRun), Ordered(runs), NEW run \in OrphanRun,
         run.id \notin Ids(runs)
  PROVE  /\ Ordered(Reinsert(runs, run))
         /\ Ids(Reinsert(runs, run)) \subseteq Ids(runs) \cup {run.id}
<1>1. /\ Len(runs) \in Nat /\ DOMAIN runs = 1 .. Len(runs)
      /\ \A i \in 1 .. Len(runs) : runs[i] \in OrphanRun
  BY LenProperties, ElementOfSeq
<1>2. PICK n \in 0 .. Len(runs) :
        /\ \A j \in 1 .. n : runs[j].id < run.id
        /\ n < Len(runs) => runs[n + 1].id >= run.id
        /\ Reinsert(runs, run)
             = SubSeq(runs, 1, n) \o <<run>> \o SubSeq(runs, n + 1, Len(runs))
  BY ReinsertPlace
<1>. DEFINE new == Reinsert(runs, run)
            N == Len(runs)
<1>3. /\ DOMAIN new = 1 .. N + 1
      /\ \A i \in 1 .. n : new[i] = runs[i]
      /\ new[n + 1] = run
      /\ \A i \in n + 2 .. N + 1 : new[i] = runs[i - 1]
  <2>. DEFINE front == SubSeq(runs, 1, n)
              back == SubSeq(runs, n + 1, N)
  <2>1. /\ front \in Seq(OrphanRun) /\ Len(front) = n
        /\ \A i \in 1 .. n : front[i] = runs[i]
    BY <1>1, SubSeqProperties
  <2>2. /\ back \in Seq(OrphanRun) /\ Len(back) = N - n
        /\ \A i \in 1 .. N - n : back[i] = runs[n + i]
    <3>1. n + 1 \in Int /\ N \in Int /\ N - n \in Nat
      BY <1>1
    <3>2. \A i \in n + 1 .. N : runs[i] \in OrphanRun
      BY <1>1
    <3>3. /\ back \in Seq(OrphanRun)
          /\ Len(back) = IF n + 1 <= N THEN N - (n + 1) + 1 ELSE 0
          /\ \A i \in 1 .. N - (n + 1) + 1 : back[i] = runs[(n + 1) + i - 1]
      <4>. HIDE DEF N
      <4>. QED BY <3>1, <3>2, SubSeqProperties
    <3>. HIDE DEF back
    <3>4. Len(back) = N - n
      <4>1. n \in Nat /\ n <= N
        BY <1>1
      <4>2. (IF n + 1 <= N THEN N - (n + 1) + 1 ELSE 0) = N - n
        <5>. HIDE DEF N
        <5>. QED BY <3>1, <4>1
      <4>. QED BY <3>3, <4>2
    <3>5. \A i \in 1 .. N - n : i \in 1 .. N - (n + 1) + 1 /\ (n + 1) + i - 1 = n + i
      BY <1>1, <3>1
    <3>. QED BY <3>3, <3>4, <3>5
  <2>3. <<run>> \in Seq(OrphanRun) /\ Len(<<run>>) = 1 /\ <<run>>[1] = run
    OBVIOUS
  <2>. HIDE DEF front, back
  <2>4. /\ front \o <<run>> \in Seq(OrphanRun)
        /\ Len(front \o <<run>>) = n + 1
        /\ \A i \in 1 .. n : (front \o <<run>>)[i] = runs[i]
        /\ (front \o <<run>>)[n + 1] = run
    BY <1>1, <2>1, <2>3, ConcatProperties
  <2>5. /\ (front \o <<run>>) \o back \in Seq(OrphanRun)
        /\ Len((front \o <<run>>) \o back) = N + 1
        /\ \A i \in 1 .. n + 1 : ((front \o <<run>>) \o back)[i] = (front \o <<run>>)[i]
        /\ \A i \in n + 2 .. N + 1 : ((front \o <<run>>) \o back)[i] = runs[i - 1]
    <3>1. \A i \in n + 2 .. N + 1 : i - (n + 1) \in 1 .. N - n
      BY <1>1
    <3>. DEFINE left == front \o <<run>>
    <3>2. left \in Seq(OrphanRun) /\ Len(left) = n + 1
      BY <2>4
    <3>. HIDE DEF left
    <3>3. /\ left \o back \in Seq(OrphanRun)
          /\ Len(left \o back) = N + 1
          /\ \A i \in 1 .. N + 1 :
               (left \o back)[i] = IF i <= n + 1 THEN left[i] ELSE back[i - (n + 1)]
      <4>1. /\ left \o back \in Seq(OrphanRun)
            /\ Len(left \o back) = Len(left) + Len(back)
            /\ \A i \in 1 .. Len(left) + Len(back) :
                 (left \o back)[i] = IF i <= Len(left) THEN left[i]
                                                      ELSE back[i - Len(left)]
        BY <2>2, <3>2, ConcatProperties
      <4>2. Len(left) + Len(back) = N + 1 /\ Len(left) = n + 1
        BY <1>1, <2>2, <3>2
      <4>. QED BY <4>1, <4>2
    <3>4. \A i \in 1 .. n + 1 : (left \o back)[i] = left[i]
      BY <1>1, <3>3
    <3>5. \A i \in n + 2 .. N + 1 : (left \o back)[i] = back[i - (n + 1)]
      BY <1>1, <3>3
    <3>6. \A i \in n + 2 .. N + 1 : n + (i - (n + 1)) = i - 1
      BY <1>1
    <3>7. \A i \in n + 2 .. N + 1 : (left \o back)[i] = runs[i - 1]
      BY <2>2, <3>1, <3>5, <3>6
    <3>. QED BY <3>3, <3>4, <3>7 DEF left
  <2>6. new = (front \o <<run>>) \o back
    BY <1>2 DEF front, back
  <2>. HIDE DEF new
  <2>. QED BY <1>1, <2>4, <2>5, <2>6, LenProperties
<1>. HIDE DEF new
<1>4. \A i \in DOMAIN new : i \in 1 .. n \/ i = n + 1 \/ i \in n + 2 .. N + 1
  BY <1>1, <1>3
<1>5. \A i \in 1 .. N : runs[i].id \in Ids(runs) /\ runs[i].id \in Nat
  BY <1>1 DEF Ids, OrphanRun
<1>6. \A i \in n + 1 .. N : run.id < runs[i].id
  <2>1. ASSUME NEW i \in n + 1 .. N
        PROVE  run.id < runs[i].id
    <3>1. n + 1 \in 1 .. N /\ i \in 1 .. N /\ run.id \in Nat /\ n < N
      BY <1>1 DEF OrphanRun
    <3>2. run.id < runs[n + 1].id
      <4>1. runs[n + 1].id >= run.id
        BY <1>2, <3>1
      <4>2. runs[n + 1].id \in Nat /\ runs[n + 1].id \in Ids(runs)
        BY <1>5, <3>1
      <4>3. runs[n + 1].id # run.id
        BY <4>2
      <4>. QED BY <3>1, <4>1, <4>2, <4>3
    <3>3. i = n + 1 \/ runs[n + 1].id < runs[i].id
      BY <1>1, <3>1 DEF Ordered
    <3>. QED BY <1>5, <3>1, <3>2, <3>3
  <2>. QED BY <2>1
<1>7. Ids(new) \subseteq Ids(runs) \cup {run.id}
  <2>1. \A i \in n + 2 .. N + 1 : i - 1 \in 1 .. N
    BY <1>1
  <2>2. \A i \in 1 .. n : i \in 1 .. N
    BY <1>1
  <2>. QED BY <1>3, <1>4, <1>5, <2>1, <2>2 DEF Ids
<1>8. ASSUME NEW i \in DOMAIN new, NEW j \in DOMAIN new, i < j
      PROVE  new[i].id < new[j].id
  <2>1. CASE i \in 1 .. n /\ j \in 1 .. n
    BY <1>1, <1>3, <1>8, <2>1 DEF Ordered
  <2>2. CASE i \in 1 .. n /\ j = n + 1
    BY <1>2, <1>3, <2>2
  <2>3. CASE i \in 1 .. n /\ j \in n + 2 .. N + 1
    <3>1. j - 1 \in 1 .. N /\ i < j - 1 /\ i \in 1 .. N
      BY <1>1, <2>3
    <3>. QED BY <1>1, <1>3, <2>3, <3>1 DEF Ordered
  <2>4. CASE i = n + 1 /\ j \in n + 2 .. N + 1
    <3>1. j - 1 \in n + 1 .. N
      BY <1>1, <2>4
    <3>. QED BY <1>3, <1>6, <2>4, <3>1
  <2>5. CASE i \in n + 2 .. N + 1 /\ j \in n + 2 .. N + 1
    <3>1. j - 1 \in 1 .. N /\ i - 1 < j - 1 /\ i - 1 \in 1 .. N
      BY <1>1, <1>8, <2>5
    <3>. QED BY <1>1, <1>3, <2>5, <3>1 DEF Ordered
  <2>. QED BY <1>1, <1>4, <1>8, <2>1, <2>2, <2>3, <2>4, <2>5
<1>9. Ordered(new)
  BY <1>8 DEF Ordered
<1>. QED BY <1>7, <1>9 DEF new

-----------------------------------------------------------------------------
(* The steps an orphan run goes through.                                   *)

LEMMA OrphanTyped ==
  ASSUME TypeInv
  PROVE  /\ orphanRuns \in Seq(OrphanRun) /\ orphanSeq \in Nat
         /\ CallsOK /\ call \in [Actors -> Call] /\ Dispatcher \in Actors
BY DEF TypeInv, MemoryOK, CallsOK, Actors

(* Runs leave the queue and nobody takes one.                              *)
LEMMA FewerRuns ==
  ASSUME OrphanInv, NoneTaken, orphanSeq' = orphanSeq,
         Ordered(orphanRuns'), Ids(orphanRuns') \subseteq Ids(orphanRuns)
  PROVE  OrphanInv'
<1>1. \A a \in Holders' : a \in Holders /\ call'[a].run = call[a].run
  BY DEF NoneTaken, Holders, TakeSteps
<1>2. (Ordered(orphanRuns) /\ Ids(orphanRuns) \subseteq Given)'
  BY DEF OrphanInv, Given
<1>. QED BY <1>1, <1>2 DEF OrphanInv, Given

(* One leaves it and goes into the hands of a handler that had none.       *)
LEMMA RunTaken ==
  ASSUME OrphanInv, CallsOK, NEW a \in Actors, a \notin Holders, NEW pc, NEW run,
         call' = [call EXCEPT ![a].pc = pc, ![a].run = run],
         run.id \in Ids(orphanRuns) \ Ids(orphanRuns'), orphanSeq' = orphanSeq,
         Ordered(orphanRuns'), Ids(orphanRuns') \subseteq Ids(orphanRuns)
  PROVE  OrphanInv'
<1>1. call'[a].run = run /\ \A b \in Actors \ {a} : call'[b] = call[b]
  BY DEF CallsOK, Call
<1>2. \A b \in Holders' \ {a} : b \in Holders /\ call'[b] = call[b]
  BY <1>1 DEF Holders
<1>3. (Ordered(orphanRuns) /\ Ids(orphanRuns) \subseteq Given)'
  BY DEF OrphanInv, Given
<1>4. \A b \in Holders' : call'[b].run.id \in Given \ Ids(orphanRuns')
  BY <1>1, <1>2 DEF OrphanInv
<1>5. \A b, c \in Holders' : call'[b].run.id = call'[c].run.id => b = c
  <2>1. \A b \in Holders' \ {a} : call'[b].run.id # call'[a].run.id
    BY <1>1, <1>2 DEF OrphanInv
  <2>2. \A b, c \in Holders' \ {a} : call'[b].run.id = call'[c].run.id => b = c
    BY <1>2 DEF OrphanInv
  <2>. QED BY <2>1, <2>2
<1>. QED BY <1>3, <1>4, <1>5 DEF OrphanInv, Given

LEMMA ReturnTakesNone ==
  ASSUME CallsOK, NEW a \in Actors, Return(a)
  PROVE  /\ NoneTaken
         /\ Holders' \subseteq Holders \ {a}
         /\ \A b \in Actors \ {a} : call'[b] = call[b]
BY DEF CallsOK, NoneTaken, Return, NoCall, TakeSteps, Holders

(* What pruning and taking by id leave behind.                             *)
LEMMA WithoutInOrder ==
  ASSUME NEW runs \in Seq(OrphanRun), Ordered(runs), NEW id
  PROVE  /\ Ordered(Without(runs, id))
         /\ Ids(Without(runs, id)) \subseteq Ids(runs) \ {id}
<1>. DEFINE I == { i \in DOMAIN runs : runs[i].id # id }
<1>1. { runs[i].id : i \in I } \subseteq Ids(runs) \ {id}
  BY DEF Ids
<1>2. Without(runs, id) = Kept(runs, I)
  BY DEF Without
<1>3. I \in SUBSET (DOMAIN runs)
  OBVIOUS
<1>. HIDE DEF I
<1>. QED BY <1>1, <1>2, <1>3, KeptInOrder

LEMMA UnexpiredInOrder ==
  ASSUME NEW runs \in Seq(OrphanRun), Ordered(runs), NEW t
  PROVE  /\ Unexpired(runs, t) \in Seq(OrphanRun)
         /\ Ordered(Unexpired(runs, t))
         /\ Ids(Unexpired(runs, t)) \subseteq Ids(runs)
<1>. DEFINE I == { i \in DOMAIN runs : t - runs[i].tStart <= MaxCourseTime }
<1>1. { runs[i].id : i \in I } \subseteq Ids(runs)
  BY DEF Ids
<1>2. Unexpired(runs, t) = Kept(runs, I)
  BY DEF Unexpired
<1>3. I \in SUBSET (DOMAIN runs)
  OBVIOUS
<1>. HIDE DEF I
<1>. QED BY <1>1, <1>2, <1>3, KeptInOrder

LEMMA PushOrphanKeeps ==
  ASSUME TypeInv, OrphanInv, PushOrphan
  PROVE  OrphanInv'
<1>. DEFINE t == call[Dispatcher].t
            kept == Unexpired(orphanRuns, t)
            run == [id |-> orphanSeq + 1, tStart |-> t]
<1>0. /\ orphanRuns \in Seq(OrphanRun) /\ orphanSeq \in Nat
      /\ CallsOK /\ call \in [Actors -> Call] /\ Dispatcher \in Actors
  BY OrphanTyped
<1>1. /\ orphanRuns' = Append(kept, run) /\ orphanSeq' = orphanSeq + 1
      /\ Return(Dispatcher)
  BY DEF PushOrphan
<1>2. run \in OrphanRun /\ run.id = orphanSeq + 1
  BY <1>0 DEF OrphanRun, Call
<1>3. kept \in Seq(OrphanRun) /\ Ordered(kept) /\ Ids(kept) \subseteq Ids(orphanRuns)
  BY <1>0, UnexpiredInOrder DEF OrphanInv
<1>. HIDE DEF kept, run
<1>4. \A id \in Ids(kept) : id \in Given /\ id < run.id
  BY <1>0, <1>2, <1>3 DEF OrphanInv, Given
<1>5. Ordered(orphanRuns') /\ Ids(orphanRuns') \subseteq Ids(kept) \cup {run.id}
  BY <1>1, <1>2, <1>3, <1>4, AppendInOrder
<1>6. Given \subseteq Given' /\ run.id \in Given' /\ run.id \notin Given
  BY <1>0, <1>1, <1>2 DEF Given
<1>7. Holders' \subseteq Holders /\ \A a \in Holders' : call'[a] = call[a]
  BY <1>0, <1>1, ReturnTakesNone DEF Holders
<1>8. \A a \in Holders' : call'[a].run.id \in Given' \ Ids(orphanRuns')
  BY <1>3, <1>5, <1>6, <1>7 DEF OrphanInv
<1>9. \A a, b \in Holders' : call'[a].run.id = call'[b].run.id => a = b
  BY <1>7 DEF OrphanInv
<1>10. Ids(orphanRuns') \subseteq Given'
  BY <1>4, <1>5, <1>6
<1>. QED BY <1>5, <1>8, <1>9, <1>10 DEF OrphanInv

LEMMA PopOrphanKeeps ==
  ASSUME TypeInv, OrphanInv, PopOrphan
  PROVE  OrphanInv'
<1>. DEFINE kept == Unexpired(orphanRuns, call[Dispatcher].t)
<1>0. /\ orphanRuns \in Seq(OrphanRun) /\ CallsOK /\ Dispatcher \in Actors
      /\ orphanSeq' = orphanSeq /\ Dispatcher \notin Holders
  BY OrphanTyped DEF PopOrphan, At, Holders
<1>1. kept \in Seq(OrphanRun) /\ Ordered(kept) /\ Ids(kept) \subseteq Ids(orphanRuns)
  BY <1>0, UnexpiredInOrder DEF OrphanInv
<1>2. /\ orphanRuns' = IF kept = <<>> THEN <<>> ELSE Tail(kept)
      /\ \/ Return(Dispatcher)
         \/ /\ kept # <<>>
            /\ call' = [call EXCEPT ![Dispatcher].pc = "log_orphan",
                                    ![Dispatcher].run = kept[1]]
  BY DEF PopOrphan
<1>. HIDE DEF kept
<1>3. Ordered(orphanRuns') /\ Ids(orphanRuns') \subseteq Ids(orphanRuns)
  <2>1. CASE kept = <<>>
    BY <1>2, <2>1 DEF Ordered, Ids
  <2>2. CASE kept # <<>>
    BY <1>1, <1>2, <2>2, TailInOrder
  <2>. QED BY <2>1, <2>2
<1>4. CASE Return(Dispatcher)
  BY <1>0, <1>3, <1>4, ReturnTakesNone, FewerRuns
<1>5. CASE ~Return(Dispatcher)
  <2>1. kept[1].id \in Ids(orphanRuns) \ Ids(orphanRuns')
    BY <1>1, <1>2, <1>5, TailInOrder
  <2>. QED BY <1>0, <1>2, <1>3, <1>5, <2>1, RunTaken
<1>. QED BY <1>4, <1>5

LEMMA LogOrphanAside ==
  ASSUME TypeInv, LogOrphan
  PROVE  Aside
BY OrphanTyped, ReturnTakesNone DEF LogOrphan, Aside, memory

LEMMA AdoptTakeKeeps ==
  ASSUME TypeInv, OrphanInv, NEW a \in Actors, AdoptTake(a)
  PROVE  OrphanInv'
<1>0. /\ orphanRuns \in Seq(OrphanRun) /\ CallsOK
      /\ orphanSeq' = orphanSeq /\ a \notin Holders
  BY OrphanTyped DEF AdoptTake, At, Holders
<1>1. orphanRuns' = Without(orphanRuns, call[a].run.id)
  BY DEF AdoptTake
<1>2. Ordered(orphanRuns') /\ Ids(orphanRuns') \subseteq Ids(orphanRuns) \ {call[a].run.id}
  BY <1>0, <1>1, WithoutInOrder DEF OrphanInv
<1>3. CASE Return(a)
  BY <1>0, <1>2, <1>3, ReturnTakesNone, FewerRuns
<1>4. CASE ~Return(a)
  <2>1. PICK i \in DOMAIN orphanRuns :
          /\ orphanRuns[i].id = call[a].run.id
          /\ call' = [call EXCEPT ![a].pc = "adopt_claim", ![a].run = orphanRuns[i]]
    BY <1>4 DEF AdoptTake
  <2>2. orphanRuns[i].id \in Ids(orphanRuns) \ Ids(orphanRuns')
    BY <1>2, <2>1 DEF Ids
  <2>. QED BY <1>0, <1>2, <2>1, <2>2, RunTaken
<1>. QED BY <1>3, <1>4

LEMMA DismissOrphanKeeps ==
  ASSUME TypeInv, OrphanInv, NEW a \in Actors, DismissOrphan(a)
  PROVE  OrphanInv'
<1>1. PICK id : orphanRuns' = Without(orphanRuns, id)
  BY DEF DismissOrphan
<1>2. NoneTaken /\ orphanSeq' = orphanSeq
  BY DEF DismissOrphan, NoneTaken
<1>3. Ordered(orphanRuns') /\ Ids(orphanRuns') \subseteq Ids(orphanRuns)
  BY <1>1, OrphanTyped, WithoutInOrder DEF OrphanInv
<1>. QED BY <1>2, <1>3, FewerRuns

(* The run that is put back was in this handler's hands only.              *)
LEMMA RestoreOrphanKeeps ==
  ASSUME TypeInv, OrphanInv, NEW a \in Actors, RestoreOrphan(a)
  PROVE  OrphanInv'
<1>. DEFINE run == call[a].run
<1>0. /\ orphanRuns \in Seq(OrphanRun) /\ CallsOK /\ call[a] \in Call
      /\ orphanSeq' = orphanSeq /\ a \in Holders /\ Return(a)
      /\ orphanRuns' = Reinsert(orphanRuns, run)
  BY OrphanTyped DEF RestoreOrphan, At, Holders
<1>1. run \in OrphanRun /\ run.id \in Given \ Ids(orphanRuns)
  BY <1>0 DEF OrphanInv, Call
<1>2. Ordered(orphanRuns') /\ Ids(orphanRuns') \subseteq Ids(orphanRuns) \cup {run.id}
  BY <1>0, <1>1, ReinsertInOrder DEF OrphanInv
<1>3. Holders' \subseteq Holders \ {a} /\ \A b \in Holders' : call'[b] = call[b]
  BY <1>0, ReturnTakesNone DEF Holders
<1>4. Given' = Given /\ Ids(orphanRuns') \subseteq Given
  BY <1>0, <1>1, <1>2 DEF OrphanInv, Given
<1>5. \A b \in Holders' : call'[b].run.id \in Given \ Ids(orphanRuns')
  BY <1>0, <1>2, <1>3 DEF OrphanInv
<1>6. \A b, c \in Holders' : call'[b].run.id = call'[c].run.id => b = c
  BY <1>3 DEF OrphanInv
<1>. QED BY <1>2, <1>4, <1>5, <1>6 DEF OrphanInv

LEMMA NobodyHolds ==
  ASSUME orphanRuns = <<>>, orphanSeq = 0, call = [a \in Actors |-> NoCall]
  PROVE  OrphanInv
BY DEF OrphanInv, Ordered, Ids, Holders, NoCall

-----------------------------------------------------------------------------
LEMMA NextOrphans == TypeInv /\ OrphanInv /\ [Next]_vars => OrphanInv'
<1>. SUFFICES ASSUME TypeInv, OrphanInv, [Next]_vars
              PROVE  OrphanInv'
  OBVIOUS
<1>1. ASSUME NEW a \in Actors, Arrivals(a)
      PROVE  OrphanInv'
  <2>1. CASE CreateEvent(a)
    BY <2>1, AsideKeepsOrphans DEF CreateEvent, memory, Aside, NoneTaken
  <2>2. CASE DismissOrphan(a)
    BY <2>2, DismissOrphanKeeps
  <2>. QED BY <1>1, <2>1, <2>2, RequestsAside, AsideKeepsOrphans DEF Arrivals
<1>2. ASSUME NEW a \in Actors, Proceed(a)
      PROVE  OrphanInv'
  BY <1>2, ReadsAside, QueueWritesAside, OtherWritesAside, AsideKeepsOrphans,
     AdoptTakeKeeps, RestoreOrphanKeeps
     DEF Proceed, LaunchSteps, StartSteps, FinishSteps, UndoSteps, QueueSteps,
         EventSteps, OrphanSteps
<1>3. ASSUME NEW a \in Actors, StoreError(a) \/ OrphanStoreError(a)
      PROVE  OrphanInv'
  BY <1>3, ReadsAside, AsideKeepsOrphans
<1>4. CASE Triggers
  <2>1. PICK c : TriggerArrives(c) /\ c.pc \in {"list_ready", "list_course"}
    <3>. DEFINE begun(pc, e, t) == [NoCall EXCEPT !.pc = pc, !.ev = e, !.t = t]
    <3>1. PICK e \in Events, t \in Times, pc \in {"list_ready", "list_course"} :
            TriggerArrives(begun(pc, e, t))
      BY <1>4 DEF Triggers, BeginSensorStart, BeginSensorGoal
    <3>2. begun(pc, e, t).pc = pc
      BY DEF NoCall
    <3>. HIDE DEF begun
    <3>. QED BY <3>1, <3>2
  <2>. QED BY <2>1, OrphanTyped, AsideKeepsOrphans
           DEF TriggerArrives, memory, Aside, NoneTaken, TakeSteps
<1>5. CASE DispatcherSteps
  BY <1>5, PushOrphanKeeps, PopOrphanKeeps, LogOrphanAside, AsideKeepsOrphans
     DEF DispatcherSteps
<1>6. CASE Grace
  BY <1>6, AsideKeepsOrphans
     DEF Grace, TimerFires, Confirm, ConfirmError, Aside, NoneTaken
<1>7. CASE Restart
  BY <1>7 DEF Restart, OrphanInv, Ordered, Ids, Holders, NoCall
<1>8. CASE UNCHANGED vars
  BY <1>8, AsideKeepsOrphans DEF vars, Aside, NoneTaken
<1>. QED BY <1>1, <1>2, <1>3, <1>4, <1>5, <1>6, <1>7, <1>8 DEF Next

(***************************************************************************)
(* courseManager.orphanRuns stays in the order the triggers came in, and a *)
(* run that a goal trigger or an adoption has taken out of it is in nobody *)
(* else's hands, however pairing, adopting, dismissing, putting back,      *)
(* failures and restarts overlap.                                          *)
(***************************************************************************)
THEOREM OrphansStayInOrder == Spec => []OrphansHeldOnce
<1>1. Init => OrphanInv
  BY NobodyHolds DEF Init
<1>2. TypeInv /\ OrphanInv /\ [Next]_vars => OrphanInv'
  BY NextOrphans
<1>3. OrphanInv => OrphansHeldOnce
  BY DEF OrphanInv, OrphansHeldOnce, Ordered, Ids
<1>. QED BY <1>1, <1>2, <1>3, TypeInvariant, PTL DEF Spec
=============================================================================
