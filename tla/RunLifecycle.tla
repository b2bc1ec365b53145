---------------------------- MODULE RunLifecycle ----------------------------
(***************************************************************************)
(* What a run promises, with each operation a single step: it enters the   *)
(* waiting list, is launched, is started, crosses the finish line and,     *)
(* once its grace window is over, is done; an operator can undo a goal     *)
(* inside the window, undo a start, or give the run up; closing the event  *)
(* gives up every run still waiting.  Crossing the line puts one timing on *)
(* record, which stays unless the goal is undone.                          *)
(*                                                                         *)
(* Where the program can fail, it may forget that runs have crossed the    *)
(* line, while they are inside their grace window: they are on course as   *)
(* before, and their timings stay on record.                               *)
(***************************************************************************)
EXTENDS Naturals

CONSTANTS
  Runs,
  MayForget   \* writes may fail, or the server restart

VARIABLES
  phase,    \* where each run stands
  timings   \* how many timings are on record for it

lifecycle == <<phase, timings>>

Init ==
  /\ phase \in [Runs -> {"absent", "waiting", "ready", "running"}]
  /\ timings = [r \in Runs |-> 0]

Move(r, from, to) ==
  /\ phase[r] \in from
  /\ phase' = [phase EXCEPT ![r] = to]

Enter(r)   == Move(r, {"absent"}, "waiting")
Launch(r)  == Move(r, {"waiting"}, "ready")
Start(r)   == Move(r, {"ready"}, "running")
Confirm(r) == Move(r, {"finished"}, "done")
Rearm(r)   == Move(r, {"running"}, "ready")
Requeue(r) == Move(r, {"ready"}, "waiting")
GiveUp(r)  == Move(r, {"waiting", "ready", "running"}, "canceled")

CloseEvent ==
  \E S \in SUBSET { r \in Runs : phase[r] = "waiting" } :
    phase' = [ r \in Runs |-> IF r \in S THEN "canceled" ELSE phase[r] ]

FinishLine(r) ==
  /\ Move(r, {"running"}, "finished")
  /\ timings' = [timings EXCEPT ![r] = @ + 1]

UndoGoal(r) ==
  /\ Move(r, {"finished"}, "running")
  /\ timings' = [timings EXCEPT ![r] = @ - 1]

Forget ==
  /\ MayForget
  /\ \E S \in SUBSET { r \in Runs : phase[r] = "finished" } :
       phase' = [ r \in Runs |-> IF r \in S THEN "running" ELSE phase[r] ]

Next ==
  \/ \E r \in Runs : FinishLine(r) \/ UndoGoal(r)
  \/ /\ \/ \E r \in Runs :
             \/ Enter(r)   \/ Launch(r) \/ Start(r)  \/ Confirm(r)
             \/ Requeue(r) \/ Rearm(r)  \/ GiveUp(r)
        \/ CloseEvent
        \/ Forget
     /\ timings' = timings

Spec == Init /\ [][Next]_lifecycle
=============================================================================
