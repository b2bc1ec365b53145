------------------------------- MODULE Logbook -------------------------------
(***************************************************************************)
(* The timing logs of the active event (internal/store/logs.go) and those  *)
(* who change them: the administration's log editor                        *)
(* (internal/web/admin_logs.go), the sensor goals that record a run of     *)
(* nobody, the finishes and their undoing, and the warnings about          *)
(* unassigned runs (orphanTracker, internal/web/sensor.go).                *)
(*                                                                         *)
(* Every store call is a step of its own; an edit reads the row, and later *)
(* writes all of its columns back.                                         *)
(***************************************************************************)
EXTENDS Standings

Nobody == 0       \* driver_id or vehicle_id is NULL

CONSTANTS
  Requests,       \* goroutines that serve an editor's requests
  Bodies,         \* what a run can be: [ raw, pt, mc ]
  Instants,       \* timestamps
  Removable,      \* the combinations of a driver, or of a vehicle
  Rules,          \* pit touch rules: the settings may change it in mid-event
  Limit,          \* size of the page that recent runs are taken from
  MaxLogs,        \* bound on the rows ever inserted
  MaxChanges      \* bound on the handlers that run

(* Neither the database nor the editor bounds what is entered for a run.   *)
ASSUME LogbookConstants ==
  /\ Nobody \notin Combos
  /\ Bodies \subseteq [ raw : Int, pt : Int, mc : BOOLEAN ]
  /\ Instants \subseteq Int
  /\ Rules \subseteq [ mode : {"add", "invalidate"}, penalty : Int ]
  /\ Removable \subseteq SUBSET Combos
  /\ Limit \in Nat /\ MaxLogs \in Nat /\ MaxChanges \in Nat

VARIABLES
  logs,           \* the rows, by id
  removed,        \* combinations whose driver or vehicle is deleted
  lastId,         \* AUTOINCREMENT: ids are not given away again
  warnings,       \* orphanTracker.items: the logs they are about
  request,        \* what each request is about to do
  goal,           \* the log a sensor goal is about to warn of
  inGrace,        \* logs of finishes that can still be undone
  changes         \* handlers run so far

vars == <<logs, removed, lastId, warnings, request, goal, inGrace, changes>>

NoLog  == 0
Rows   == [ combo : Combos \cup {Nobody}, body : Bodies, at : Instants, deleted : BOOLEAN ]
Idle   == [ does |-> "nothing" ]

TypeOK ==
  /\ DOMAIN logs \subseteq 1 .. lastId
  /\ \A id \in DOMAIN logs : logs[id] \in Rows
  /\ removed \subseteq Combos
  /\ lastId \in 0 .. MaxLogs
  /\ warnings \in Seq(1 .. lastId)
  /\ \A q \in Requests :
       \/ request[q] = Idle
       \/ request[q] \in [ does : {"update", "assign"}, log : 1 .. lastId, row : Rows ]
       \/ request[q] \in [ does : {"unwarn"}, log : 1 .. lastId ]
  /\ goal \in 0 .. lastId
  /\ inGrace \subseteq DOMAIN logs
  /\ changes \in 0 .. MaxChanges

Init ==
  /\ logs = << >>
  /\ removed = {}
  /\ lastId = 0
  /\ warnings = <<>>
  /\ request = [ q \in Requests |-> Idle ]
  /\ goal = NoLog
  /\ inGrace = {}
  /\ changes = 0

-----------------------------------------------------------------------------
(* ListRuns: the rows that count.                                          *)
IsRun(id) == ~logs[id].deleted /\ logs[id].combo # Nobody

RunOf(id) == [ id |-> id, combo |-> logs[id].combo, at |-> logs[id].at,
               raw |-> logs[id].body.raw, pt |-> logs[id].body.pt, mc |-> logs[id].body.mc ]
Runs == { RunOf(id) : id \in { i \in DOMAIN logs : IsRun(i) } }

(* A plausible slip: the table in the order of insertion.                  *)
NewerById(i, j) == i > j

(* ListLogs: newest first.                                                 *)
Newer(i, j) == logs[i].at > logs[j].at \/ (logs[i].at = logs[j].at /\ i > j)

(* ListDrivers and ListVehicles leave deleted ones out: whose runs they    *)
(* are is known to the boards only of these.                               *)
Present == Combos \ removed

(* buildRecent: the runs on the first page of the table whose driver and   *)
(* vehicle are known, which may be less than a page of runs; by their      *)
(* places in the table.                                                    *)
Newest == InOrder(DOMAIN logs, Newer)
Recent(table) == { i \in DOMAIN table : /\ i <= Limit /\ IsRun(table[i])
                                        /\ logs[table[i]].combo \in Present }

(* buildRanking ranks every combination and then skips those it does not   *)
(* know: the places in the table that are shown.                           *)
ShownRows(table) == { i \in DOMAIN table : table[i].combo \in Present }

-----------------------------------------------------------------------------
(* One more handler; the bound of the model.                               *)
Change == changes < MaxChanges /\ changes' = changes + 1

InsertLog(row) ==
  /\ lastId < MaxLogs
  /\ lastId' = lastId + 1
  /\ logs' = [ id \in DOMAIN logs \cup {lastId'} |-> IF id = lastId' THEN row ELSE logs[id] ]

(* handleAdminLogCreate: any time of day may be given.                     *)
CreateLog ==
  \E combo \in Combos, body \in Bodies, at \in Instants :
    /\ Change
    /\ InsertLog([ combo |-> combo, body |-> body, at |-> at, deleted |-> FALSE ])
    /\ UNCHANGED <<removed, warnings, request, goal, inGrace>>

(* finishCar, and the end of its grace window, one way or the other.       *)
Finish ==
  \E combo \in Combos, body \in Bodies, at \in Instants :
    /\ Change
    /\ InsertLog([ combo |-> combo, body |-> body, at |-> at, deleted |-> FALSE ])
    /\ inGrace' = inGrace \cup {lastId'}
    /\ UNCHANGED <<removed, warnings, request, goal>>

ConfirmFinish ==
  \E id \in inGrace :
    /\ inGrace' = inGrace \ {id}
    /\ UNCHANGED <<removed, logs, lastId, warnings, request, goal, changes>>

(* A plausible slip: the undone finish can be undone again.                *)
UndoGoalStaysOpen ==
  \E id \in inGrace :
    /\ logs' = Restrict(logs, DOMAIN logs \ {id})
    /\ UNCHANGED <<removed, lastId, warnings, request, goal, inGrace, changes>>

(* undoGoal: HardDeleteLog.                                                *)
UndoGoal ==
  \E id \in inGrace :
    /\ inGrace' = inGrace \ {id}
    /\ logs' = Restrict(logs, DOMAIN logs \ {id})
    /\ UNCHANGED <<removed, lastId, warnings, request, goal, changes>>

(* SensorGoal with an orphan run: a log of nobody, and then its warning.   *)
GoalOfNobody ==
  \E body \in Bodies, at \in Instants :
    /\ goal = NoLog
    /\ Change
    /\ body.pt = 0 /\ ~body.mc
    /\ InsertLog([ combo |-> Nobody, body |-> body, at |-> at, deleted |-> FALSE ])
    /\ goal' = lastId'
    /\ UNCHANGED <<removed, warnings, request, inGrace>>

Warn ==
  /\ goal # NoLog
  /\ warnings' = Append(warnings, goal)
  /\ goal' = NoLog
  /\ UNCHANGED <<removed, logs, lastId, request, inGrace, changes>>

-----------------------------------------------------------------------------
(* The log editor.                                                         *)

(* A plausible slip: the row is built from the request alone.              *)
EditedRebuilt(row, combo, body) ==
  [ combo |-> combo, body |-> body, at |-> row.at, deleted |-> FALSE ]

(* What handleAdminLogUpdate and handleAdminLogAssign make of the row they *)
(* have read: the rest of it stays.                                        *)
Edited(row, combo, body) == [ row EXCEPT !.combo = combo, !.body = body ]

(* GetLog, deleted or not.                                                 *)
BeginUpdate(q) ==
  \E id \in DOMAIN logs, combo \in Combos \cup {Nobody}, body \in Bodies :
    /\ request[q] = Idle
    /\ Change
    /\ request' = [ request EXCEPT ![q] =
                      [ does |-> "update", log |-> id, row |-> Edited(logs[id], combo, body) ] ]
    /\ UNCHANGED <<removed, logs, lastId, warnings, goal, inGrace>>

BeginAssign(q) ==
  \E id \in DOMAIN logs, combo \in Combos :
    /\ request[q] = Idle
    /\ Change
    /\ request' = [ request EXCEPT ![q] =
         [ does |-> "assign", log |-> id, row |-> Edited(logs[id], combo, logs[id].body) ] ]
    /\ UNCHANGED <<removed, logs, lastId, warnings, goal, inGrace>>

(* UpdateLog writes every column, if the row is still there.  Only an      *)
(* assignment settles the log's warning afterwards.                        *)
WriteLog(q) ==
  /\ request[q].does \in {"update", "assign"}
  /\ LET id == request[q].log
     IN /\ logs' = IF id \in DOMAIN logs THEN [ logs EXCEPT ![id] = request[q].row ] ELSE logs
        /\ request' = [ request EXCEPT ![q] =
             IF request[q].does = "assign" THEN [ does |-> "unwarn", log |-> id ] ELSE Idle ]
  /\ UNCHANGED <<removed, lastId, warnings, goal, inGrace, changes>>

(* handleAdminLogDelete: SoftDeleteLog, then the warning.                  *)
DeleteLog(q) ==
  \E id \in DOMAIN logs :
    /\ request[q] = Idle
    /\ Change
    /\ logs' = [ logs EXCEPT ![id].deleted = TRUE ]
    /\ request' = [ request EXCEPT ![q] = [ does |-> "unwarn", log |-> id ] ]
    /\ UNCHANGED <<removed, lastId, warnings, goal, inGrace>>

(* A plausible slip: the oldest warning goes, whatever it is about.        *)
UnwarnOldest(q) ==
  /\ request[q].does = "unwarn"
  /\ warnings' = IF warnings = <<>> THEN <<>> ELSE Tail(warnings)
  /\ request' = [ request EXCEPT ![q] = Idle ]
  /\ UNCHANGED <<removed, logs, lastId, goal, inGrace, changes>>

(* removeByLogID takes the first warning about the log, if there is one.   *)
Unwarn(q) ==
  /\ request[q].does = "unwarn"
  /\ warnings' = RemoveFirst(warnings, request[q].log)
  /\ request' = [ request EXCEPT ![q] = Idle ]
  /\ UNCHANGED <<removed, logs, lastId, goal, inGrace, changes>>

(* handleAdminOrphanDismiss, and handleAdminOrphanClear.                   *)
Dismiss ==
  /\ warnings # <<>>
  /\ \/ \E i \in DOMAIN warnings : warnings' = RemoveAt(warnings, i)
     \/ warnings' = <<>>
  /\ UNCHANGED <<removed, logs, lastId, request, goal, inGrace, changes>>

(* handleAdminUserDelete, handleAdminVehicleDelete: the rows of the driver *)
(* or vehicle stay, also those of runs, and new ones may still be entered. *)
RemoveDriverOrVehicle ==
  \E gone \in Removable :
    /\ ~(gone \subseteq removed)
    /\ Change
    /\ removed' = removed \cup gone
    /\ UNCHANGED <<logs, lastId, warnings, request, goal, inGrace>>

(* What is in memory is lost; a finish in its grace window is confirmed.   *)
Restart ==
  /\ warnings' = <<>>
  /\ request' = [ q \in Requests |-> Idle ]
  /\ goal' = NoLog
  /\ inGrace' = {}
  /\ UNCHANGED <<removed, logs, lastId, changes>>

Next ==
  \/ CreateLog \/ Finish \/ ConfirmFinish \/ UndoGoal \/ GoalOfNobody \/ Warn
  \/ \E q \in Requests : BeginUpdate(q) \/ BeginAssign(q) \/ WriteLog(q)
                          \/ DeleteLog(q) \/ Unwarn(q)
  \/ Dismiss \/ RemoveDriverOrVehicle \/ Restart

Spec == Init /\ [][Next]_vars

-----------------------------------------------------------------------------
(* Heat numbers of a combination count 1, 2, ... without a gap, in the     *)
(* order the runs were driven, whatever has been entered late, deleted,    *)
(* undone or given to somebody else (domain/heat.go:5).                    *)
HeatsAreGapFree ==
  LET heat == HeatNumbers(Runs)
  IN \A combo \in Combos :
       LET own == OfCombo(Runs, combo)
       IN /\ { heat[r.id] : r \in own } = 1 .. Cardinality(own)
          /\ \A r, s \in own : <<r.at, r.id>> # <<s.at, s.id>> =>
               (heat[r.id] < heat[s.id] <=> r.at < s.at \/ (r.at = s.at /\ r.id < s.id))

(* The comparison Rank sorts by decides between any two standings, and     *)
(* only one way, so that the ranking does not depend on the order the map  *)
(* of combinations is walked in (domain/rank.go:50).                       *)
RankingIsDecided ==
  \A rule \in Rules :
    \A a, b \in StandingsOf(Runs, rule) :
      a # b => (LessStanding(a, b) <=> ~LessStanding(b, a))

(* The ranking and the drill-down agree, although they are computed apart, *)
(* and each leaves out deleted drivers and vehicles in its own place       *)
(* (buildRanking after ranking, combinationLogsFor before): the best time  *)
(* of the leader on the board has rank 1 of all runs, and no combination   *)
(* has a best time of lower rank than one that is shown before it.         *)
RankingAgreesWithDrilldown ==
  \A rule \in Rules :
    LET all      == Population(Runs, Present, rule)
        table    == Rank(Runs, rule)
        rows     == ShownRows(table)
        ranked   == { i \in rows : ~table[i].invalid }
        place(i) == Min({ RankInFilter(all, r, rule) : r \in OfCombo(all, table[i].combo) })
    IN \A i \in ranked :
         /\ (\A j \in rows : i <= j) => place(i) = 1
         /\ \A j \in rows : j < i => j \in ranked /\ place(j) <= place(i)

(* The board of recent runs leaves out no run that is newer than one it    *)
(* shows, but for those of deleted drivers and vehicles: buildRecent       *)
(* (recent.go:64-71) skips them, although the store keeps them so that     *)
(* past logs "can still be rendered with a name" (store/drivers.go:77).    *)
RecentHasNoGap ==
  LET table == Newest
      shown == Recent(table)
  IN \A i \in shown : \A r \in Runs :
       r.combo \in Present /\ r.at > logs[table[i]].at => \E j \in shown : j < i /\ table[j] = r.id

(* A deletion is undone only by an edit that was under way when it was     *)
(* made: one that begins later leaves the log deleted, whatever it changes *)
(* (handleAdminLogUpdate, handleAdminLogAssign, SoftDeleteLog).            *)
OnlyOverlapRevives ==
  [][ \A id \in DOMAIN logs :
        /\ logs[id].deleted
        /\ \A q \in Requests : request[q].does \in {"update", "assign"} /\ request[q].log = id
                               => request[q].row.deleted
        /\ id \in DOMAIN logs'
        => /\ logs'[id].deleted
           /\ \A q \in Requests : request'[q].does \in {"update", "assign"} /\ request'[q].log = id
                                  => request'[q].row.deleted ]_vars

(* An assignment or a deletion settles the warning about its log, which is *)
(* not to be found on the list afterwards (internal/web/sensor.go:250): it *)
(* takes one warning away, and nobody has warned of a log twice.  A goal   *)
(* that has recorded its log, and not warned of it, may still do so.       *)
SettledIsUnwarned ==
  [][ \A q \in Requests :
        request[q].does = "unwarn" /\ request'[q] = Idle
          => request[q].log \notin ToSet(warnings') ]_vars
=============================================================================
