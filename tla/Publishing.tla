----------------------------- MODULE Publishing -----------------------------
(***************************************************************************)
(* The boards behind the hub: the handlers that change a table and then    *)
(* publish the topics that show it (internal/web/publish.go and the        *)
(* handlers), and the snapshot builder (internal/snapshot), which reads    *)
(* one table after another without a transaction.                          *)
(*                                                                         *)
(* A table is the number of times it has been changed, and a publication   *)
(* carries the version of each table it was built from.                    *)
(***************************************************************************)
EXTENDS Hub

CONSTANTS
  Operations,     \* the handlers that run
  MaxHandlers     \* bound on how many of them

VARIABLES
  version,        \* each table, and the courseManager's and tracker's memory
  task,           \* the handler each goroutine runs
  open,           \* finishes inside their grace window
  handled,        \* how many handlers have been started
  carries         \* what each publication was built from (history)

vars == <<hub, version, task, open, handled, carries>>

(* The row of the active event is which event it is, what its ranking      *)
(* depends on, and the rest of its settings; a row of a driver or vehicle  *)
(* is its name, class or data, and whether it is deleted, and its icon.    *)
(* The classes are those of the set-up.                                    *)
Tables == { "active", "scoring", "registration", "waiting", "on_course", "logs", "pending",
            "drivers", "vehicles", "driverIcons", "vehicleIcons", "classes",
            "warnings", "orphanRuns", "dirRev" }

W(tables) == [ tables |-> tables, topic |-> "" ]     \* a statement that changes these
P(topic)  == [ tables |-> {}, topic |-> topic ]      \* a publication

(* What the builder reads for a topic, query by query: Ranking, Queue,     *)
(* OnCourse, Settings, publishOrphans, PublishDirectory.                   *)
Drivers        == {"drivers", "driverIcons"}
Vehicles       == {"vehicles", "vehicleIcons"}
RankingReads   == <<{"active", "scoring"}, {"logs"}, Drivers, Vehicles, {"classes"}>>
QueueReads     == <<{"active"}, {"waiting"}, Drivers, Vehicles>>
OnCourseReads  == <<{"active"}, {"on_course"}, Drivers, Vehicles, {"pending"}>>
SettingsReads  == <<{"active", "scoring", "registration"}>>
OrphanReads    == <<{"warnings"}, {"orphanRuns"}>>
DirectoryReads == <<{"dirRev"}>>

Reads(topic) ==
  CASE topic = "ranking"   -> RankingReads
    [] topic = "queue"     -> QueueReads
    [] topic = "on_course" -> OnCourseReads
    [] topic = "settings"  -> SettingsReads
    [] topic = "orphan"    -> OrphanReads
    [] topic = "directory" -> DirectoryReads
    [] OTHER               -> <<>>

-----------------------------------------------------------------------------
(* What a handler writes, one statement at a time, and what it publishes.  *)
(* The audit log, failed statements and the set-up, before which there is  *)
(* nothing to show, are left out.                                          *)

PublishAll == <<P("ranking"), P("queue"), P("on_course"), P("settings")>>

(* Adding, moving and cancelling an entry of the waiting list, by the      *)
(* operator or a participant.                                              *)
QueueSteps  == <<W({"waiting"}), P("queue")>>
LaunchSteps == <<W({"waiting", "on_course"}), W({"on_course"}), P("queue"), P("on_course")>>

(* A penalty; a start or a cancel of the operator's does the same.         *)
CourseSteps      == <<W({"on_course"}), P("queue"), P("on_course")>>
SensorStartSteps == <<W({"on_course"}), P("on_course")>>
FinishSteps      == <<W({"logs"}), W({"pending"}), P("on_course"), P("queue")>>

(* A plausible slip: a finish leaves the course without a new ranking.     *)
ConfirmWithoutRanking == <<W({"on_course"}), P("on_course"), P("queue")>>

(* The end of a grace window: the row is done and its result counts.       *)
ConfirmSteps   == <<W({"on_course"}), P("on_course"), P("queue"), P("ranking")>>
UndoGoalSteps  == <<W({"logs"}), P("on_course"), P("ranking")>>
UndoStartSteps == <<W({"on_course"}), W({"waiting", "on_course"}), W({"waiting"}),
                    P("queue"), P("on_course")>>

(* A new or an edited log; one that is deleted or assigned.                *)
LogSteps       == <<W({"logs"}), P("ranking")>>
SettleLogSteps == <<W({"logs"}), P("ranking"), W({"warnings"}), P("orphan")>>

SettingsSteps     == <<W({"scoring"}), P("settings"), P("ranking")>>
RegistrationSteps == <<W({"registration"}), P("settings")>>
CreateEventSteps  == <<W({"active"})>> \o PublishAll
CloseEventSteps   == <<W({"waiting"}), W({"active"})>> \o PublishAll

(* A trigger that finds no car, and the adoption of an orphan run.         *)
OrphanRunSteps == <<W({"orphanRuns"}), W({"warnings"}), P("orphan")>>
AdoptSteps     == <<W({"orphanRuns"}), W({"waiting", "on_course"}), W({"on_course"}),
                    P("queue"), P("on_course"), P("orphan")>>
WarningSteps   == <<W({"warnings"}), P("orphan")>>

(* A driver is registered, created, edited (also by himself) or deleted.   *)
(* A vehicle or an icon that comes with a registration, or a vehicle that  *)
(* a participant adds, is on no board yet and is not counted as a change.  *)
DriverSteps      == <<W({"drivers"}), P("directory")>>
(* A vehicle, by the operator; by a participant who drives it.             *)
VehicleSteps     == <<W({"vehicles"}), P("ranking"), P("directory")>>
MyVehicleSteps   == <<W({"vehicles"})>> \o PublishAll \o <<P("directory")>>
DriverIconSteps  == <<W({"driverIcons"})>> \o PublishAll \o <<P("directory")>>
VehicleIconSteps == <<W({"vehicleIcons"})>> \o PublishAll \o <<P("directory")>>
(* Roles, tokens and who drives what, which no board shows.                *)
DirectorySteps   == <<P("directory")>>

StepsOf(op) ==
  CASE op = "queue"        -> QueueSteps
    [] op = "launch"       -> LaunchSteps
    [] op = "course"       -> CourseSteps
    [] op = "sensorStart"  -> SensorStartSteps
    [] op = "finish"       -> FinishSteps
    [] op = "confirm"      -> ConfirmSteps
    [] op = "undoGoal"     -> UndoGoalSteps
    [] op = "undoStart"    -> UndoStartSteps
    [] op = "log"          -> LogSteps
    [] op = "settleLog"    -> SettleLogSteps
    [] op = "settings"     -> SettingsSteps
    [] op = "registration" -> RegistrationSteps
    [] op = "createEvent"  -> CreateEventSteps
    [] op = "closeEvent"   -> CloseEventSteps
    [] op = "orphanRun"    -> OrphanRunSteps
    [] op = "adoptOrphan"  -> AdoptSteps
    [] op = "warning"      -> WarningSteps
    [] op = "driver"       -> DriverSteps
    [] op = "vehicle"      -> VehicleSteps
    [] op = "myVehicle"    -> MyVehicleSteps
    [] op = "driverIcon"   -> DriverIconSteps
    [] op = "vehicleIcon"  -> VehicleIconSteps
    [] op = "directory"    -> DirectorySteps
    [] op = "sensorStatus" -> <<P("sensor_status")>>
    [] op = "heartbeat"    -> <<P("time")>>

(* The handlers are known, and publish topics that the hub knows.          *)
ASSUME PublishingConstants ==
  /\ Operations \subseteq { "queue", "launch", "course", "sensorStart", "finish", "confirm",
                            "undoGoal", "undoStart", "log", "settleLog", "settings",
                            "registration", "createEvent", "closeEvent", "orphanRun",
                            "adoptOrphan", "warning", "driver", "vehicle", "myVehicle",
                            "driverIcon", "vehicleIcon", "directory", "sensorStatus", "heartbeat" }
  /\ \A op \in Operations : { StepsOf(op)[i].topic : i \in DOMAIN StepsOf(op) } \subseteq Topics \cup {""}
  /\ "" \notin Topics
  /\ MaxHandlers \in Nat

NoSnapshot == [ t \in {} |-> 0 ]
Idle       == [ steps |-> <<>>, read |-> NoSnapshot ]
Busy(p)    == task[p].steps # <<>> \/ ~Sent(p)

TypeOK ==
  /\ HubTypeOK
  /\ version \in [ Tables -> Nat ]
  /\ DOMAIN task = Publishers
  /\ \A p \in Publishers :
       /\ task[p].steps \in Seq([ tables : SUBSET Tables, topic : Topics \cup {""} ])
       /\ \A t \in DOMAIN task[p].read : t \in Tables /\ task[p].read[t] <= version[t]
  /\ open \in Nat
  /\ handled \in 0 .. MaxHandlers
  /\ Len(carries) = Len(installed)

Init ==
  /\ InitHub
  /\ version = [ t \in Tables |-> 0 ]
  /\ task = [ p \in Publishers |-> Idle ]
  /\ open = 0
  /\ handled = 0
  /\ carries = <<>>

-----------------------------------------------------------------------------
Changed(tables) ==
  [ t \in Tables |-> version[t] + IF t \in tables THEN 1 ELSE 0 ]

(* Confirming a finish and undoing it begin by taking its entry out of the *)
(* pending map, and do nothing without one.                                *)
TakesPending(op) == op \in {"confirm", "undoGoal"}

Begin(p) ==
  \E op \in Operations :
    /\ ~Busy(p)
    /\ handled < MaxHandlers
    /\ handled' = handled + 1
    /\ task' = [ task EXCEPT ![p].steps = StepsOf(op) ]
    /\ IF TakesPending(op)
       THEN open > 0 /\ open' = open - 1 /\ version' = Changed({"pending"})
       ELSE UNCHANGED <<open, version>>
    /\ UNCHANGED <<hub, carries>>

Ready(p)  == task[p].steps # <<>> /\ Sent(p)
Topic(p)  == Head(task[p].steps).topic
Unread(p) == { i \in DOMAIN Reads(Topic(p)) : ~(Reads(Topic(p))[i] \subseteq DOMAIN task[p].read) }
Advance(p) == task' = [ task EXCEPT ![p] = [ steps |-> Tail(@.steps), read |-> NoSnapshot ] ]

(* One statement of the handler commits; a finish that enters the pending  *)
(* map opens its grace window.                                             *)
Write(p) ==
  /\ Ready(p) /\ Topic(p) = ""
  /\ version' = Changed(Head(task[p].steps).tables)
  /\ open' = IF "pending" \in Head(task[p].steps).tables THEN open + 1 ELSE open
  /\ Advance(p)
  /\ UNCHANGED <<hub, handled, carries>>

(* The builder's next query; the directory's counter is raised by the same *)
(* step that reads it.                                                     *)
Read(p) ==
  /\ Ready(p) /\ Topic(p) # ""
  /\ \E i \in Unread(p) :
       LET seen  == task[p].read
           query == Reads(Topic(p))[i] \ DOMAIN seen
       IN /\ \A j \in Unread(p) : i <= j
          /\ version' = Changed(query \cap {"dirRev"})
          /\ task' = [ task EXCEPT ![p].read = [ t \in DOMAIN seen \cup query |->
                                                  IF t \in query THEN version'[t] ELSE seen[t] ] ]
  /\ UNCHANGED <<hub, open, handled, carries>>

(* The document is built and handed to Publish.                            *)
PublishTopic(p) ==
  /\ Ready(p) /\ Topic(p) # "" /\ Unread(p) = {}
  /\ Install(p, Topic(p))
  /\ carries' = Append(carries, task[p].read)
  /\ Advance(p)
  /\ UNCHANGED <<version, open, handled>>

Deliver(p) == SendTo(p) /\ UNCHANGED <<version, task, open, handled, carries>>

Handle(p)     == Write(p) \/ Read(p) \/ PublishTopic(p) \/ Deliver(p)
ClientNext(c) == ClientStep(c) /\ UNCHANGED <<version, task, open, handled, carries>>

Next == \/ \E p \in Publishers : Begin(p) \/ Handle(p)
        \/ \E c \in Clients : ClientNext(c)

Spec == Init /\ [][Next]_vars

-----------------------------------------------------------------------------
Shows(topic) == (UNION ToSet(Reads(topic))) \ {"dirRev"}

(* The tables a handler changes without publishing the topic: nobody who   *)
(* edits or deletes a driver publishes more than the directory             *)
(* (admin_users.go:131,297, my.go:187), and the operator's change of a     *)
(* vehicle publishes no more than that and the ranking                     *)
(* (admin_vehicles.go:90,114), though number and name "feed the ranking,   *)
(* queue and on-course displays" (my.go:241).  Until something else        *)
(* publishes the topic, it shows the driver or the vehicle as it was.      *)
LeftOld(topic) ==
  CASE topic = "ranking"               -> {"drivers"}
    [] topic \in {"queue", "on_course"} -> {"drivers", "vehicles"}
    [] OTHER                           -> {}

Due(topic) == Shows(topic) \ LeftOld(topic)

Quiet == /\ \A p \in Publishers : ~Busy(p)
         /\ open = 0

(* However handlers overlap, no change is forgotten, except those of       *)
(* LeftOld: once they are done and no finish waits for its confirmation,   *)
(* every topic has been published with the newest version of each other    *)
(* table it shows (the publish calls at the end of every handler).         *)
ChangesArePublished ==
  Quiet => \A topic \in Topics : \A t \in Due(topic) :
    version[t] > 0 =>
      \E n \in DOMAIN installed : installed[n] = topic /\ carries[n][t] = version[t]

(* A handler is never held up by a browser that does not read: whatever    *)
(* the connections do, it can take its next step, and has only so many     *)
(* ("one stuck client must never stop delivery to everyone else",          *)
(* internal/sse/hub.go:93).                                                *)
NeverHeldUp == \A p \in Publishers : Busy(p) => ENABLED Handle(p)

(* What a connection shows of a topic is what it was written last.         *)
ShownAt(c, topic) == SelectLastInSeq(received[c], LAMBDA n : installed[n] = topic)

(* README.md:9 promises boards that are updated at once: with nothing left *)
(* to publish or to deliver, a connected browser shows each table as it    *)
(* is, those of LeftOld aside.                                             *)
QuietScreensAreCurrent ==
  Quiet => \A c \in subscribers :
    conn[c].at = "stream" /\ channel[c] = <<>> =>
      \A topic \in conn[c].topics : ShownAt(c, topic) > 0 =>
        \A t \in Due(topic) : carries[received[c][ShownAt(c, topic)]][t] = version[t]
=============================================================================
