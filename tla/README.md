# A formal model of gymkhana-time-monitor

gymkhana-time-monitor runs a gymkhana event: participants queue up, an operator
(or the participant) launches the car at the head of the queue, a start sensor
and a goal sensor (ESP32 boards sending UDP datagrams) or an operator's tap time
the run, and the boards show queue, course and ranking live. The server is one Go
process with an SQLite database; HTTP handlers, the sensor dispatcher and grace
timers are goroutines of their own.

This directory holds TLA+ modules translated from that code, the TLC
configurations that check them, and proofs that TLAPS checks. `PROJECT.json`
lists the components, runs, mutants, hazards and theorems, and maps every
definition to the source lines it models.

Contents: [the system](#the-system) · [modules](#modules) · [what is checked](#what-is-checked) ·
[where the code and its comments disagree](#where-the-code-and-its-comments-disagree) ·
[fairness](#fairness) · [what is proved](#what-is-proved) ·
[abstractions](#abstractions) · [what is not modelled](#what-is-not-modelled) · [plan](#plan)

## The system

| Component | State it keeps | Operations | What is hard about it | What makes it correct |
|---|---|---|---|---|
| Queue table (`store/queue.go`) | one row per queue entry: event, driver, vehicle, position, status, start, penalties | ListQueue, Enqueue, Reorder, SetQueueStatus, ClaimQueueRow, SetStart(IfUnset), SetPT, SetMC, CancelWaiting | each call is atomic, but most handlers make several; some writes are compare-and-set and some are not | order of the list survives renumbering; a compare-and-set loses cleanly |
| Logs, events (`store/logs.go`, `store/events.go`) | timings; at most one active event | InsertLog, HardDeleteLog, UpdateLog; Create/Close/Update | a log is written before the row it belongs to is settled | a timing is neither lost nor duplicated |
| Course manager (`web/course_manager.go`) | `pending` finishes with their timers, the orphan FIFO: memory only | finishCar, confirm, undoGoal, undoStart, cancel, take/restoreOrphanRun | read the store, lock the mutex, write the store, lock again: nothing spans the whole operation; a restart forgets all of it | a done row has a timing; a finish is confirmed or undone, not both; an orphan is consumed once |
| Sensor pairing (`web/sensor.go`) | the list of warnings (`orphanTracker`), memory only | SensorStart, SensorGoal, add, remove, removeByLogID, clear | races manual starts, finishes, adopts and dismisses; a log and its warning are two steps | oldest ready car starts, oldest running car finishes; a settled log is not warned about |
| HTTP handlers (`web/admin_course.go`, `launch.go`, `admin_queue.go`, `my.go`, `admin_events.go`, `admin_settings.go`) | local variables: a row or list read earlier | launch, start, finish, undo, cancel, adopt, penalties, queue, events, settings | act on what they read before | each is one step of the run's lifecycle when nothing overlaps |
| Timing dispatcher (`internal/timing`) | work channel, sensor health, the dedup ledger (`sensor_events`), requests to forget a sensor | receive, dedup, pair, heartbeat, config reply, status report, ForgetSensor | datagrams are lost, repeated (a burst of three) and reordered; a caller gives up while its request is carried out | every trigger is settled once; the dispatcher never waits for anyone |
| SSE hub (`internal/sse`) and snapshot builder (`internal/snapshot`) | last payload per topic, connections with bounded channels | Publish, subscribe, disconnect, serve; build a document, query by query | builds overtake each other; slow clients | nobody misses an event in silence; every change is published (of drivers and vehicles, not everywhere) |
| Domain rules (`internal/domain`) | none | final times, heats, ranking, displacement classes | ties, missing values, late entries | ranking, heats, drill-down and recent runs agree; the order is decided |
| Users, set-up (`web/admin_users.go`, `setup.go`, `server.go`, `middleware.go`) | drivers, roles; two tokens in memory | role changes, deletion, first set-up, emergency access | check, then act; a crash in the middle of a set-up | an administrator remains; a database is set up once |
| Vehicles and registration (`store/vehicles.go`, `web/register.go`, `my.go`) | vehicles, entries, each driver's main vehicle | register, add, link, unlink, set main, delete | several statements per request; the session's driver row is stale | the main vehicle is one of the driver's own |
| Log administration (`web/admin_logs.go`) | the logs table | create, update, delete, assign | read, change, write every column back | a deletion stays unless an edit overlapped it |
| Database start (`store/store.go`, `migrate.go`) | tables, columns, schema version | Open, applyMigrations | a crash between two statements | starting again completes the migration and loses no setting |
| Firmware (`firmware/`) | edge ring, lockout, counters, burst, clock | interrupt, loop, sync, send, config reply | interrupt against loop; a clock that is away; reboots | no car is told twice |

How they interact. A handler reads the active event and the queue table, decides,
and writes; the course handlers call the course manager, which also writes the
logs table and arms a timer per finish. The dispatcher calls SensorStart and
SensorGoal, one trigger at a time. Whoever changed something then has the builder
read the store and the hub publish the result. The builder asks the course manager
which cars are inside their grace window (`finishProvider`).

The heart of it is the life of a queue row: *waiting → on_course (READY) → started
(RUNNING) → finished, in its grace window → done*, with undo of a goal, undo of a
start, and cancel. In the database it has four statuses; READY, RUNNING and
"finished" are a start stamp that is NULL or not, and an entry in a Go map.

## Modules

| Module | What it is | What it models |
|---|---|---|
| `QueueTable` | operators | the statements of `store/queue.go`: one operator each, applied to a table value |
| `Course` | state machine | every handler, trigger, timer, failure and restart that moves a queue row, an event, a timing or an orphan run |
| `RunLifecycle` | abstract state machine | what a run promises, each operation a single step |
| `CourseProperties`, `MCCourse` | properties; values for TLC | invariants, action properties, liveness, and the mapping of `Course` to `RunLifecycle` |
| `Datagrams` | shared part | time, and the datagrams between the boards and the server |
| `SensorNode` | state machine | a board: `onEdge`, `drainEdges`, the burst, heartbeats, config replies, synchronisation, reboots |
| `TriggerPath` | state machine | `timing.Listen`, the dispatcher, `ForgetSensor`, shutdown and restart |
| `TimingChain` | composition, properties | boards, network and server together |
| `CrossingPromise` | abstract state machine | a car that crosses a beam is told to the course at most once |
| `Hub` | state machine | `sse.Hub`: Publish, subscribe, disconnect, and the handler of a connection |
| `Publishing`, `MCHub` | composition, properties; symmetry for TLC | handlers that write tables and publish documents the builder reads query by query, on `Hub` |
| `Standings` | operators | `internal/domain`: final time, heats, ranking; the drill-down's ranks |
| `Logbook`, `MCLogbook` | state machine; values for TLC | the logs table under finishes, undos, sensor goals and two editors, with the list of warnings |
| `Database` | state machine | `store.Open` on the file an older version has left, or on none |
| `Accounts` | state machine on `Database` | set-up, the two tokens, user administration |
| `Garage`, `MCGarage` | composition; values for TLC | registration, vehicles and whose they are, on `Accounts` |
| `CourseProofs` `FinishProofs` `OrphanProofs` `LifecycleProofs` `TimingProofs` `HubProofs` `LogbookProofs` `GarageProofs` | proofs | see [what is proved](#what-is-proved) |

State of `Course` against the code:

- `event`, `queue`, `logs`, `logSeq`: the tables and the AUTOINCREMENT counter.
- `pending`, `orphanRuns`, `orphanSeq`: the fields of `courseManager`. `timers` are
  the `time.AfterFunc` timers armed. `confirming` are the `confirm` calls between
  their critical section and their write.
- `call[a]`: the handler in flight on slot `a`: its program counter and local
  variables. `car` is the row it read, which stays as it was read; `todo` is the rest of a
  list it walks. `Dispatcher` is the goroutine that serves triggers in turn.
- `spent`: how many requests, triggers and restarts have arrived, for the bounds.

One action is one SQL statement or transaction (the store's `writeMu` and SQLite
make it atomic) or one critical section of `courseManager.mu`. So `finishCar` is
`CheckFinish`, `InsertLog`, `Register`; `undoStart` is `CheckUndoStart`,
`ClearStart`, `UndoPT`, `UndoMC`, `UndoMode`, `Requeue`, `FindFront`, `ReorderRow`;
`confirm` is `TimerFires`, `Confirm`. A check that uses only local variables is
part of the action before or after it.

Failures: `StoreError` is a write that fails and a handler that answers 500 where
it stands; `OrphanStoreError` is the same in the handlers that put an orphan run back;
`ConfirmError` is `confirm`'s write failing, which is only logged. A read that
fails ends a handler just as the failure of its next write would. `Restart` loses
the memory and every handler in flight and keeps the tables. `UndoGoalStop` may
come too late: `Timer.Stop` does not stop a function that has started and waits for the lock.

State of the other machines against the code:

- `TriggerPath`: `work` is the channel `Listen` makes, `hand` what the dispatcher goroutine is in the
  middle of (`event_read` after `ActiveEventID`, `recorded` after `InsertSensorEvent`), `ledger` the table
  `sensor_events`, `sensors` the map in `dispatcher`, `forget` and `answer` the channels of `Control`,
  `caller` how far `ForgetSensor` has come. `settled` and `dropped` are history: what became of each trigger, and for which request a sensor was dropped.
  `net` is a bag: a datagram that is lost is one that is never received, and `Duplicate` adds a copy of one. The dispatcher's read of the active event may fail and then counts as no event (`ActiveAsRead`).
- `SensorNode`: `ring` is `EdgeQueue`, `lockout` the object and the window it is set to, `identity` the boot id and
  the counters, `burst` is `burst_`, `synced` is `TimeBase::synced`. `car` is what stands in the beam, which no program
  knows, and `crossing` in a packet takes the place of the timestamp.
- `Hub`: one action is one critical section of `Hub.mu`, one channel send, one receive or one write to a
  browser. A payload is the number of the Publish call that brought it; `installed` and `received` are history.
- `Publishing`: `task[p].steps` is the rest of the handler, `read` what the builder has read for
  the document it is on, `version[t]` how often table `t` was changed. Drivers and vehicles are
  tables too, apart from their icons, which are published otherwise.
- `Logbook`: `request[q]` holds the whole row an edit is about to write, as `UpdateLog` writes it; `goal` is a
  `SensorGoal` between its insert and its warning; `inGrace` the finishes that `undoGoal` may still delete;
  `removed` the combinations whose driver or vehicle is deleted (`RemoveDriverOrVehicle`).
- `Accounts`, `Garage`: `request[q].at` is the next store call of the handler and the rest what it has read. `alone` is
  history: whether another request has written since this one began.
- `Database`: `process.at` is where `Open` stands, `existed` its local variable. `made` and `icon` tell what
  kind of file it began with.

## What is checked

Runs that pass:

| Run | Properties | What it shows |
|---|---|---|
| `CourseOverlap` | `TypeOK` `DoneHasTiming` `PendingTimingOnRecord` `PendingHasTimer` `TimingHeldOnce` `OrphansHeldOnce` | with launches, starts, finishes, undos, cancels, adopts, dismissals, triggers, timers, store failures and a restart overlapping in every order, no finish is lost, confirmed and deleted at once, or left without a timer, and no orphan run is handed out twice |
| `CourseSerial` | `WaitingHasNoStart` `ClosedCourseIsEmpty` `CanceledHasNoTiming` `RunsFollowLifecycle` `GraceEnds` `FirstStartWins` `FinishOnlyRunning` `OldestGoesFirst` `UndoneIsNext` | when nothing overlaps and nothing fails, every sequence of handlers of every kind goes through `RunLifecycle`; the four promises that the runs below break with overlap hold, starts and goals go to the oldest car, an undone start goes to the front, and grace windows end |
| `Triggers` | `TypeOK` `TriggerSettledOnce` `WindowIsOfOneBoot` `StatusListsKnown` `AnswersAreTrue` `CarsToldOnce` `ReceivedIsWorkedOff` | whatever is lost, late, duplicated or out of order, with reboots and restarts, failing inserts and callers that give up: a trigger is settled once, a car is told once, loss is counted within one boot, nobody gets the answer to another's request to forget a sensor, and what was received is worked off |
| `Hub` | `TypeOK` `NothingMissed` `NobodyLeftInSilence` `TimeIsFresh` `NeverHeldUp` `ChangesArePublished` | with any two handlers overlapping and a browser that may be slow: events are missed only by a connection that is told to go, no handler waits, and every change is published on every topic that shows it, except those of drivers and vehicles named in `LeftOld` |
| `Logbook` | `TypeOK` `HeatsAreGapFree` `RankingIsDecided` `RankingAgreesWithDrilldown` `RecentHasNoGap` `OnlyOverlapRevives` `SettledIsUnwarned` | for every table of up to three logs that entries, edits, undos and deletions lead to, heats, ranking, drill-down and recent runs agree, also when a driver or vehicle is deleted; a deleted log comes back only through an edit that had begun before |
| `Accounts` | `TypeOK` `UpgradeGoesThrough` `LastAdminStays` `SetUpOnce` `MainIsOwn` | from no file or one of any older version, with a crash at any point: upgrades complete and keep the operator's lockout, a database is set up once, and what the checks of the user and vehicle handlers promise is broken by overlapping requests only |

Bounds. `CourseOverlap` has one car (waiting, READY or RUNNING to begin with), two
requests in flight, two triggers, one restart, two instants. The races are between
pairs of goroutines on one row or one orphan run, each of which may meet a third:
two requests, the dispatcher, and the grace timers of up to three finishes. Two
triggers make two orphan runs, so that putting one back out of order can be seen.
`MaxCourseTime = 0` makes an orphan run
expire as soon as a trigger of a later instant is handled, and pair with a goal of its own
instant. `CourseSerial` has two cars with different drivers, two events, every kind
of request and both timing modes, three requests and a trigger: three requests
are the shortest sequences with a launch, an undo and a relaunch, or an add, a reorder and
a launch. Both check no deadlock: the system may be idle, and here it also stops when the bounds are used up.

`Triggers` has one board, three things that happen from outside (cars, heartbeats, duplicates, restarts, a new lockout, a request to forget, ...), two instants, and lockouts of one and two of them;
a trigger is sent twice where the code sends it three times (`Copies`), the work channel holds 2 (64 in the code), the heartbeat window 2 (100), the ring 2 edges
(7), the forget channel 1 (4). A board may have sent one heartbeat before the run begins (`EarlierBeats`), so that one from before a reboot can arrive late and twice.
Two callers ask for a sensor to be forgotten: one gives up, and the other must not get its answer. Two copies are enough for a duplicate before, between and after a reboot or restart; each queue is
small enough to be full. Two sensors share nothing but the dispatcher, so one is enough. `Hub` has two publishers, one handler each
of every kind, and one connection with a channel of 1 (`subscriberBufferSize` is 16): an event for a full channel is then a matter of two
events. `createEvent`, `myVehicle`, `driverIcon` and `vehicleIcon` are not in `Hub.cfg`: like `closeEvent`, which is, each writes and then publishes every board, and pairs of them
multiply the states for nothing new. The theorems in `HubProofs` hold of every kind of handler, these included. Two handlers are every other pair that can overlap; the goroutines that run them are alike, which is the run's symmetry (and that of the editors in `Logbook`). Connections do not interact but through the subscriber set. `Logbook` has three logs of two combinations,
one electric, two instants and four handlers: three logs are the least with a tie between two runs of one combination and a third one between them. The ranking is asked for under both penalty rules in every state. One
combination may be deleted (`Removable`, a set of combinations for each driver or vehicle); the other stays to be shown. Recent runs
come from a page of 2, so that a page may be filled by logs that are not runs. `Accounts` has three requests, two at a time; three drivers, two vehicles, and
every version of the file. In all of these no deadlock is checked: the system may be idle, and the bounds run out.

Each property of a passing run is checked against a mutant of one action (the
operators with a comment "A plausible slip"): `Register` with one
timer for the course, `UndoGoalStop` by row instead of by entry, `BeginUndoGoal` that leaves
the entry in the map, and so on. TLC finds each property violated by its mutant.

`RunsFollowLifecycle` is the refinement: `Phase(r)` computes the phase of row `r`
from its status, its start and whether one of its timings can still be taken back, and
`timings` counts its logs. It holds only without overlap, which four of the
violation runs explain. `CarsToldOnce` is a refinement too: `Told(c)` collects what became of the triggers of car `c`, and
`CrossingPromise` allows it to be told once, after it has crossed. `NeverHeldUp` says with `ENABLED` that a handler's next step never depends on a browser.

Some properties hold only for requests that do not overlap (`LastAdminStays`, `MainIsOwn`, `OnlyOverlapRevives`): the code checks and acts in two statements, and
they say exactly that nothing but the overlap breaks the check. TLC finds the other case at once when the condition is left out.

## Where the code and its comments disagree

Each run checks one sentence of the repository, and TLC finds a behaviour of the code that breaks it.

| Run | Property | Statement | What happens |
|---|---|---|---|
| `FinishTwice` | `FinishOnlyRunning` | `course_manager.go:144`: a row must be RUNNING "and not already pending" | the goal sensor and an operator finish one car at once: both look at `pending` before either registers, and two timings are on record |
| `CancelRace` | `CanceledHasNoTiming` | `course_manager.go:330`: cancel aborts a run "with no timing log produced" | a finish has inserted its log and not registered it yet when cancel looks; the row is canceled with a timing |
| `CloseRace` | `ClosedCourseIsEmpty` | `admin_events.go:162`, `README.md:66`: an event with cars on course cannot be closed | a launch claims the head between the close's check and its writes |
| `LaunchRace` | `FirstStartWins` | `store/queue.go:248`: the first start to reach a row wins | the launch claims the row, the start sensor stamps it, and the launch's unconditional `SetStart(id, nil)` erases the stamp |
| `StaleBoard` | `QuietScreensAreCurrent` | `README.md:9`: ranking and running cars are updated at once | two penalties, or a penalty and a start: the handler that built its document first publishes it last; it stays on every board, and in the hub for those who join, until something else is published |
| `StuckStart` | `StepsAreRepeatable` | `store/migrate.go:19`: a step is safe to run on a database "at (or past) version" | the very first start dies after the `events` table is made and before the version is stamped; every later start takes the file for an old one, and migration 2 fails on a column that was never there |

The first four have the shape of a check and an act with a statement between, and the
remedy the code itself uses elsewhere: a compare-and-set in the store.

Not a run, but a remark: `web/sensor.go:250` says that the warning about an unassigned log goes once the log is
assigned. It does when it is assigned by `PUT .../assign`; the edit form (`handleAdminLogUpdate`) writes driver and vehicle
too and leaves the warning. `SettledIsUnwarned` states what holds.

Two more, that the models contain and that properties exempt by name:

- `web/my.go:241` says of a vehicle's number and name that they "feed the ranking, queue and on-course displays", and so
  `handleUpdateMyVehicle` publishes every board. The operator's change of a vehicle publishes the ranking and the directory
  only (`admin_vehicles.go:90`, also `:61` and `:114`), and an edit or deletion of a driver the directory only (`admin_users.go:131`, `:297`, `my.go:187`). Queue and
  course boards, and for a driver the ranking, keep the old name, or a deleted one, until something else is published. It takes one handler and no overlap. `LeftOld` in `Publishing`
  lists these tables, and `ChangesArePublished` and `QuietScreensAreCurrent` speak of all others: the vehicles on the ranking, icons everywhere, and every table of the course, the queue, the
  logs and the settings.
- `store/drivers.go:76` says that past logs of a deleted driver can still be rendered with a name, and `:201` that historical rankings stay
  correct. `buildRecent` (`recent.go:64`) and `buildRanking` (`ranking.go:81`) look names up with `ListDrivers` and `ListVehicles`, which leave the deleted
  out, and skip those runs. A board of recent runs then shows older runs and not a newer one of a deleted driver. `RecentHasNoGap` and `RankingAgreesWithDrilldown`
  speak of drivers and vehicles that are there (`Present`).

## Fairness

`FairSpec` is used for `GraceEnds` only. It assumes weak fairness of each
handler's own steps (`Proceed(a)`) and of the dispatcher's (goroutines are
scheduled and no lock is held across a wait), and of `Grace` (the runtime fires
an `AfterFunc` timer that is not stopped, and its function runs). Nothing makes a
request or a trigger arrive. Store failures have no fairness. In `CourseSerial` there
are neither failures nor restarts; with either `GraceEnds` is false, and rightly:
`confirm` does not retry its write, and a restart forgets the window.

`TimingChain!FairSpec` is used for `ReceivedIsWorkedOff`. It assumes weak fairness of taking the next datagram off
the channel (Go's `select` picks at random among the cases that are ready, so that a case that stays ready is
taken) and of going on with what the dispatcher has begun. Receiving, sending, the callers of `ForgetSensor`, and the clock have none. A restart
empties channel and hand, so that the property holds with restarts too. In the passing direction it is not empty: with an unbuffered reply
channel the dispatcher waits for a caller that has given up (the mutant of `ReplyHasRoom`).

## What is proved

For every number of events, entries, requests, instants, every mode of
the constants (`Serial`, `Faults`) and every bound, from three assumptions: `QueueConstants`
and `CourseConstants` (ids and instants are natural numbers, the dispatcher is not
an HTTP handler) and `InitialTablesAreFresh` (the server starts on tables whose
row ids are their indices and where every row is waiting or on course).

- `CourseProofs!TypeCorrect`: `Spec => []TypeOK`. `TypeOK` is not inductive: a handler
  uses at one step what it read at an earlier one. `TypeInv` adds `CallOK`, what a program
  counter says about the locals: in the steps on a car `car` is a row, in those on
  an entry there are an event and an entry, and a handler about to
  insert a log has checked that the time is not before the start.
- `FinishProofs`: `[]DoneHasTiming`, `[]PendingTimingOnRecord`, `[]PendingHasTimer` and
  `[]TimingHeldOnce`, from one invariant on top of `TypeInv`. `FinishInv` says that log ids are numbered
  up to `logSeq`; that the timing of every pending entry, every confirm and every finish being registered
  is on record for its row; that these are held apart (`TimingHeldOnce`);
  that a pending entry has its timer; and that a done row has a timing that is not
  in anybody's hands to be deleted. The last part is what makes `DoneHasTiming` inductive:
  undo-goal deletes a timing, and a done row keeps one because the timing that made
  it done is settled. Actions that touch none of this are dealt with once, by the
  lemmas called *Aside*; each of the others has a lemma of its own.
- `CourseProofs!RenumberingKeepsOrder`: of two waiting rows, the one listed first
  gets the smaller number when `Reorder` renumbers; its lemmas say that every operator of
  the table keeps a table a sequence of rows.
- `OrphanProofs!OrphansStayInOrder`: `[]OrphansHeldOnce`, for any number of orphan runs.
  `OrphanInv` says that the runs in the queue are ordered by the number they were given, that every
  number in use was given out, and that a run some handler holds is not in the queue and is in no
  other handler's hands. Taking the head or one from the middle and appending keep the order;
  putting a run back (`Reinsert`) keeps it because its number is in nobody else's use.
- `LifecycleProofs`, for any number of cars and requests that do not overlap (`Serial`, as in the run `CourseSerial`). `LifeInv` is inductive given `TypeInv` and
  `FinishInv`. `HandInv` says that there is one handler at most, and none while a finish is being confirmed; so what it has read is still so, and between two
  of its statements the row it works on is where the first one left it (`Knows`). `RunsInv` says that a timing which can still be taken back is the only such
  one of a row that is on course and has started. With failed writes and restarts: `[]WaitingHasNoStart`, `[]ClosedCourseIsEmpty`, `FirstStartWins` and
  `FinishOnlyRunning`. The last three are violated by runs with overlap; the proofs show that the overlap is all it takes to break them.
  Under the same conditions `CourseFollowsLifecycle`: the refinement of `RunLifecycle` (`RunsFollowLifecycle`), with the rows followed any set of row ids (`RowIDsAreRows`).
  What failures and restarts add to it is one abstract step, `Forget`, allowed by `MayForget` only where the constants allow them: runs inside their grace window are on course again,
  and their timings stay on record. So a refused write of any handler, wherever it comes, leaves every run in a phase it could have been in.
  Most steps leave every row where it is, or move one row by one arrow of `Moves`; logging, undo-goal and confirm, which change what can be taken back, and closing, which moves
  many rows at once, have lemmas of their own. Without failures and restarts, `RunsAreTimedOnce` and `CanceledIsUntimed` come from `TimingsInv`: a row has one timing at most, which can be taken back until
  the row is done. A failed `SetQueueStatus(done)` or a restart in the grace window breaks it: the row stays on course with a timing, and the next goal gives it a second one.
  Whose turn it is, with failures and restarts: `StartsAndGoalsInOrder` (`OldestGoesFirst`) and `UndoneGoesToTheFront` (`UndoneIsNext`) come from `SightInv`. It says that a scan has
  in sight every row that it could be about: the candidates of the table (`Armed`, `Running`) are still to be looked at or in its hands, so a row it passes over is none. Of an undone start
  it says that the place worked out is before every waiting row of the event. `MovedToFront` says what the last statement makes of that: `Reorder` puts the row first, renumbering or
  not, from the lemmas on the order of the table (`RenumberingKeepsOrder`).

- `TimingProofs`, for any number of sensors, sizes of all channels and windows, with faults, reboots and restarts.
  `TriggersSettledOnce` rests on `SettledInv`, which adds the trigger in the dispatcher's hand: one that is `recorded` is in the ledger
  and not settled yet. That it is not settled comes from the ledger: everything settled is in it, and what is recorded was not.
  `TypesAreCorrect`: its `TypeInv` says that every datagram on the net, received, in the dispatcher's hand or still to be repeated is *genuine*: one its board has
  sent, in this boot or an earlier one, with a number it had reached. `StatusIsOfKnown` follows from what `forgetSensor` does in one go.
  `WindowsAreOfOneBoot` is inductive given the types: a heartbeat that comes is genuine, and `RecordedWindow` says that what it leaves in the window is its own number and those of its own boot.
  `AnswersAreOnesOwn` rests on `ForgetInv`: a request that was sent is in one place, in the channel, in the dispatcher's hand, answered or done with,
  and until its caller takes the answer the caller waits or has given up, and what is said of the request there is what became of it.
  `CarsAreToldOnce` is the refinement of `CrossingPromise`, step by step. `MarksInv` says that a crossing goes with one trigger, wherever copies of it are. It is kept because
  of the lockout: `EdgesInv` and `BeamInv` say that the edges of a crossing are in one ring, and those left there, or still to come from the car in the
  beam, are within a bounce of the edge that was numbered. So two told triggers of one car are one trigger, and that is settled once.
- `HubProofs`, for any topics, connections, publishers, handlers and buffer. `NothingIsMissed` and `NobodyIsLeftInSilence`: `HubInv` adds that the targets of
  a send are connections that asked for its topic and joined before it was installed, that a connection not yet joined has an empty channel, and that
  every subscriber is being served. A subscriber's `since` then separates what it was shown at the join from what is sent to it.
  `TimesAreFresh`: `FreshInv` adds that what is in a connection's channel, or being sent to it, was published after it joined, and that the snapshot of a topic is of that topic,
  so that no old time is among what a connection is shown at first.
  `NoChangeIsForgotten`, for the tables a topic is due (`Due`, all it shows but `LeftOld`): `ChangesArePublished` speaks of quiet moments and is not inductive. `OwedInv` says of every moment that a
  document is current, or somebody owes its publication: a handler that has it among its steps still, one that has read the
  table in its newest version and not published yet, or the confirmation of a finish that is open.
  `ScreensAreCurrentInTurn` puts the two together where handlers take turns (`InTurn`): `QuietScreensAreCurrent`, which the run `StaleBoard` finds violated by two that overlap, holds, for the same tables, of any number
  of handlers, browsers that join late and browsers that are dropped. `OrderInv` says that what a connection is written since it joined is in the order of the publications, and that what it was
  shown at first was the latest then; `BuiltInv`, that no document is built from older tables than one published before it. With `NothingMissed` and `ChangesArePublished`, the last
  document a browser was written is the current one.
- `LogbookProofs`, for any number of logs, editors, combinations, instants, penalties and sizes of the page. `TypeInv` is inductive (`LogbookTypes`), and the
  properties of the standings follow from it in any state, because they hold of any finite set of typed runs. What a sort returns looks like an
  induction over data, and is not: in `CanBeSorted` an element's place is one more than the number of elements that come before it, which no two
  elements share, so the places are 1 to n; in `SortedListsAll` whatever is sorted lists each element once. What remains is to show that each of the four orders
  decides between any two elements and never goes round in a circle: by timestamp and id, by time and age, by the levels of `LessStanding` (`RankingDecides`,
  `RankingIsTransitive`), newest first. From there `HeatsHaveNoGap`, `RecentRunsHaveNoGap`, `RankingIsAlwaysDecided` and `DrilldownAgrees`: the lowest rank of a combination is
  that of its best time, one more than the runs that took less, and a better time has fewer of those.
  `OverlapAloneRevives` needs the types only. `SettledLogsAreUnwarned` needs `WarnedOnce`: no log is on the list of warnings twice, and a goal
  that has yet to warn warns of a log that is not on it.
- `GarageProofs`, for any number of users, vehicles, requests and a file of any older version. `GarageTypes`: `TypeInv` says what each program counter tells of the
  locals of a request; no row is ever removed, so what a request has read stays valid. `UpgradesGoThrough`: `ShapeInv` says that the columns are those
  of the version in the file, because a step of a migration is one transaction with its version. `LastAdministratorStays`: `LastInv` says that, if nobody has written beside a request that is past
  its check, another administrator is there still. `MainVehicleIsOwn`: `OwnInv` says the same of the check of ownership and the link it has found.
  `DatabaseIsSetUpOnce`: `SeedOK` says that, as long as the set-up token is open and nobody is about to withdraw it, there is no administrator and no request of one; so nobody
  can have closed the event that the first set-up made, and a second one finds it.

The other modules bring their assumptions on constants, each named where it is declared (`DatagramConstants`, `NodeConstants`,
`ServerConstants`, `HubConstants`, `PublishingConstants`, `StandingsConstants`, `LogbookConstants`, `AccountsConstants`): ids, bounds and windows are natural numbers, a lockout is longer than the beam
bounces, nobody is not a combination, penalties, times and instants are integers of any sign. TLC evaluates each of them on the instance it checks.

Two things did not survive the attempt to prove them. `SetUpOnce` was stated with a condition on the overlap that a larger instance
breaks, and now names the token. The model's list of warnings lost every warning about a settled log, where `removeByLogID` takes
the first; now it takes the first, and that none is left is a consequence of `WarnedOnce`.

Only model-checked: `GraceEnds` and `ReceivedIsWorkedOff` (liveness under fairness) and `NeverHeldUp` (`ENABLED`), which are out of TLAPS's reach.

## Abstractions

- An *entry* is a (driver, vehicle) combination; `DriverOf` gives its driver.
- Instants are small numbers in units of a millisecond: the truncation of microseconds is not seen.
- Positions are integers in units of the 1e-9 below which `Reorder` renumbers.
- `LogRow.row`, the queue row a timing is of, is a history field: the logs table names
  the driver and the vehicle, and the program remembers the row only in `pending`.
- The penalty changes that arrive are -1 and +1.
- Authentication (but for roles and tokens in `Accounts`), JSON and audit rows are left out: no modelled step reads them.
- The parts are modelled apart where they touch in one place only: what `SensorStart` and `SensorGoal` do is in `Course`, and in `TriggerPath` they succeed,
  find no car or fail; a finish in `Logbook` is an insert that may be undone; handlers in `Publishing` are the writes and publications they make.
- A table in `Publishing` is the number of its changes; a row of a driver or a vehicle is one table with its number, name and class, and another with its icon. That `UpdateVehicle` of a participant
  cannot change the number is left out.
- Where a participant's handler writes and publishes what the operator's does (the waiting list), `Publishing` has the kind once; changes of a vehicle are two kinds, because they publish different topics.
  A handler whose store call fails publishes nothing and is left out, and so is the set-up (`setup.go`), before which there is nothing to show. Vehicles and icons that come with a registration, and
  vehicles a participant adds, are on no board yet and are not counted as changes.
- Deleting a driver or a vehicle removes its combinations at once (`Logbook`). `buildRanking` knows the displacement of listed vehicles only and ranks a deleted one as electric; the model keeps its
  displacement. The order of two combinations depends on those two only, so the rows that are shown are in the same order.
- `Hub!Disconnect` is `unsubscribe` and the kick in one step; the time in a heartbeat to the browsers is that of the Publish, where the code stamps it just before.
- What a caller of `ForgetSensor` who gave up is told, "unavailable", says nothing of whether the sensor was dropped, in the code and in `AnswersAreTrue`.
- Times in `Standings` are small numbers; the converted displacement is a constant of a combination. The ranking is that of all heats; the
  variant for one heat sorts the same way by another best time.
- A migration's new icon rev is the time of day in the code and 1 here; the lockout's unit is left out.
- The boards' main loop is taken apart into its calls, in any order. Booting, and being told to stop, take no time of their own.
- `FinishByID` and the like read the row with the request's arrival: no other handler can
  tell the two apart.

## What is not modelled

- The ESP-NOW link and its relay (`uplink_espnow`, `espnow_bridge`, `link_proto`), and the slew of the time base: frames, radio and
  real-valued arithmetic over microseconds. A repeat over the link ends in the ledger like one of the burst. The board's switches, lamps,
  provisioning and serial console.
- `ConvertedCC` and `DispClassOf`: floating-point arithmetic on constants of an event, without state.
- The values of settings other than the timing mode (`Logbook` asks of every penalty rule that the boards agree, whenever it is changed); likewise names, classes, numbers, specifications and icons of drivers and vehicles:
  `Publishing` knows that they change and who publishes it, and nothing modelled decides on their values. Login tokens issued again, sessions, the rate limiter.
- Read-only handlers: lists, archives, exports, QR codes, the participant's page.
- Templates, static pages, operator scripts under `tools/`, the command line, hourly backups, CI.

## Plan

What is left, in this order:

1. A run of `Course` with three rows, where self-entries of one participant overlap.
2. The ESP-NOW link with its one pending frame.
