------------------------------- MODULE Accounts -------------------------------
(***************************************************************************)
(* Who may do what: the set-up wizard (internal/web/setup.go), the tokens  *)
(* a server start makes (server.go, middleware.go), and the administration *)
(* of users (admin_users.go, internal/store/drivers.go), served by         *)
(* concurrent requests.                                                    *)
(*                                                                         *)
(* Every store call is a step of its own, and a request acts on what it    *)
(* has read before.  Drivers are numbered from 1, as AUTOINCREMENT does;   *)
(* the emergency admin is 0.                                               *)
(***************************************************************************)
EXTENDS Database, Sequences

CONSTANTS
  Requests,       \* goroutines that serve a request
  Handlers,       \* the handlers of the run
  MaxDrivers,     \* bound on the rows ever inserted
  MaxVehicles,    \* ... and of those of vehicles
  MaxHandled      \* bound on the requests that are served

(* There is room for the rows of a database that an older version left.    *)
ASSUME AccountsConstants ==
  /\ MaxDrivers \in Nat \ {0, 1} /\ MaxVehicles \in Nat \ {0}
  /\ MaxHandled \in Nat

VARIABLES
  event,          \* an event is active
  seedings,       \* SeedEvent has filled class_defs so often
  drivers,        \* the rows
  vehicles,       \* is_deleted of the rows
  entries,        \* pairs of a driver and a vehicle
  server,         \* the tokens in memory: that of the set-up, the emergency one
  request,        \* what each request is doing
  handled

accounts == <<event, seedings, drivers, vehicles, entries>>
vars     == <<file, process, accounts, server, request, handled>>

Emergency  == 0
NoVehicle  == 0
DriverIds  == 1 .. Len(drivers)
VehicleIds == 1 .. Len(vehicles)
NoTokens   == [ setup |-> FALSE, emergency |-> FALSE ]

(* A request: the handler, its next step, the driver whose request it is,  *)
(* the driver or vehicle it is about, and the main vehicle its driver had  *)
(* when the request came.  `alone' is for the properties: no other request *)
(* has written since this one began.                                       *)
Steps == { "check", "seed", "create", "clear",     \* handleAPISetup
           "look", "count", "write",               \* the administration
           "vehicle", "link", "main",              \* vehicles of a driver
           "owned" }
Idle  == [ does |-> "nothing" ]
Busy(q) == request[q] # Idle

Live(d)   == ~drivers[d].deleted
IsAdmin(d) == drivers[d].role = "admin" /\ Live(d)

(* CountAdmins and HasAdmin.                                               *)
Admins == { d \in DriverIds : IsAdmin(d) }

(* A plausible slip: deleted administrators are counted with the others.   *)
CountDeletedToo == Cardinality({ d \in DriverIds : drivers[d].role = "admin" })

CountAdmins == Cardinality(Admins)

AccountsTypeOK ==
  /\ event \in BOOLEAN
  /\ seedings \in 0 .. 2
  /\ Len(drivers) <= MaxDrivers
  /\ \A d \in DriverIds :
       drivers[d] \in [ role : {"user", "admin"}, deleted : BOOLEAN,
                        main : VehicleIds \cup {NoVehicle} ]
  /\ vehicles \in Seq(BOOLEAN) /\ Len(vehicles) <= MaxVehicles
  /\ entries \subseteq DriverIds \X VehicleIds
  /\ server \in [ setup : BOOLEAN, emergency : BOOLEAN ]
  /\ \A q \in Requests : Busy(q) =>
       request[q] \in [ does : Handlers, at : Steps, by : DriverIds \cup {Emergency},
                        id : 0 .. MaxDrivers + MaxVehicles, main : VehicleIds \cup {NoVehicle},
                        alone : BOOLEAN ]
  /\ handled \in 0 .. MaxHandled
  /\ ~Up => server = NoTokens /\ \A q \in Requests : ~Busy(q)

NewDriver(role) == [ role |-> role, deleted |-> FALSE, main |-> NoVehicle ]

(* Either there is no database yet, or one of any version, made by         *)
(* operators who have two administrators.                                  *)
Init ==
  /\ process = Down
  /\ \/ /\ file = NoFile
        /\ seedings = 0 /\ event = FALSE
        /\ drivers = <<>> /\ vehicles = <<>> /\ entries = {}
     \/ /\ \E version \in 0 .. Latest : file = FileOf(version)
        /\ seedings = 1 /\ event \in BOOLEAN
        /\ drivers = << [ NewDriver("admin") EXCEPT !.main = 1 ], NewDriver("admin") >>
        /\ vehicles = <<FALSE>> /\ entries = {<<1, 1>>}
  /\ server = NoTokens
  /\ request = [ q \in Requests |-> Idle ]
  /\ handled = 0

-----------------------------------------------------------------------------
(* The life of the process.                                                *)

Opening ==
  /\ OpenStep
  /\ UNCHANGED <<accounts, server, request, handled>>

(* A plausible slip, which the comment in NewServer warns of: the set-up   *)
(* is open whenever there is no administrator.                             *)
NewServerByAdmin ==
  /\ process.at = "opened"
  /\ GoTo("up")
  /\ server' = [ setup |-> Admins = {}, emergency |-> Admins # {} ]
  /\ UNCHANGED <<file, accounts, request, handled>>

(* NewServer: a token for the set-up until class_defs are there, and one   *)
(* for emergencies from then on.                                           *)
NewServer ==
  /\ process.at = "opened"
  /\ GoTo("up")
  /\ server' = [ setup |-> seedings = 0, emergency |-> seedings > 0 ]
  /\ UNCHANGED <<file, accounts, request, handled>>

(* The process dies, at any moment, and the requests with it.              *)
Crash ==
  /\ process.at # "down"
  /\ process' = Down
  /\ server' = NoTokens
  /\ request' = [ q \in Requests |-> Idle ]
  /\ UNCHANGED <<file, accounts, handled>>

-----------------------------------------------------------------------------
(* A request comes in; the bound of the model.                             *)
Begin(q, does, at, by, id) ==
  /\ Up /\ ~Busy(q) /\ does \in Handlers
  /\ handled < MaxHandled
  /\ handled' = handled + 1
  /\ request' = [ request EXCEPT ![q] =
       [ does |-> does, at |-> at, by |-> by, id |-> id, alone |-> TRUE,
         main |-> IF by = Emergency THEN NoVehicle ELSE drivers[by].main ] ]
  /\ UNCHANGED <<file, process, accounts, server>>

Doing(q, does, at) == Busy(q) /\ request[q].does \in does /\ request[q].at = at

(* A step that only reads: on to the next one, or the answer.              *)
Proceed(q, at) == request' = [ request EXCEPT ![q].at = at ]
Answer(q)      == request' = [ request EXCEPT ![q] = Idle ]
ReadOnly       == UNCHANGED <<file, process, accounts, server, handled>>

(* A step that writes: the other requests are not alone any more.          *)
Wrote(q, next) ==
  /\ request' = [ p \in Requests |-> IF p = q THEN next
                    ELSE IF Busy(p) THEN [ request[p] EXCEPT !.alone = FALSE ] ELSE Idle ]
  /\ UNCHANGED <<file, process, handled>>
To(q, at) == [ request[q] EXCEPT !.at = at ]

(* A store call that fails is answered with 500, and nothing is undone.    *)
Fail(q) ==
  /\ Busy(q) /\ request[q].at # "clear"
  /\ Answer(q) /\ ReadOnly

CreateDriver(role) ==
  /\ Len(drivers) < MaxDrivers
  /\ drivers' = Append(drivers, NewDriver(role))

-----------------------------------------------------------------------------
(* handleAPISetup.                                                         *)
BeginSetup(q) ==
  /\ server.setup
  /\ Begin(q, "setup", "check", Emergency, 0)

CheckNoAdmin(q) ==
  /\ Doing(q, {"setup"}, "check")
  /\ IF Admins = {} THEN Proceed(q, "seed") ELSE Answer(q)
  /\ ReadOnly

(* SeedEvent, one transaction; there can be one active event only.         *)
SeedEvent(q) ==
  /\ Doing(q, {"setup"}, "seed")
  /\ \/ /\ event
        /\ Answer(q) /\ ReadOnly
     \/ /\ ~event /\ seedings < 2
        /\ event' = TRUE
        /\ seedings' = seedings + 1
        /\ Wrote(q, To(q, "create"))
        /\ UNCHANGED <<drivers, vehicles, entries, server>>

CreateAdmin(q) ==
  /\ Doing(q, {"setup"}, "create")
  /\ CreateDriver("admin")
  /\ Wrote(q, To(q, "clear"))
  /\ UNCHANGED <<event, seedings, vehicles, entries, server>>

ClearSetupToken(q) ==
  /\ Doing(q, {"setup"}, "clear")
  /\ server' = [ server EXCEPT !.setup = FALSE ]
  /\ Answer(q)
  /\ UNCHANGED <<file, process, accounts, handled>>

-----------------------------------------------------------------------------
(* The administration.  withAdmin and withUserAdmin have read who asks;    *)
(* what the request does later does not depend on that any more.           *)

BeginAdmin(q) ==
  \/ \E by \in Admins \cup (IF server.emergency THEN {Emergency} ELSE {}) :
       \/ Begin(q, "user", "create", by, 0)
       \/ \E d \in DriverIds : \/ Begin(q, "promote", "write", by, d)
                                \/ Begin(q, "demote", "look", by, d)
  \/ \E by \in Admins :
       \/ \E d \in DriverIds \ {by} : Begin(q, "delete", "look", by, d)
       \/ \E does \in {"close", "open"} : Begin(q, does, "write", by, 0)

(* handleAdminUserCreate.                                                  *)
CreateUser(q) ==
  /\ Doing(q, {"user"}, "create")
  /\ CreateDriver("user")
  /\ Wrote(q, Idle)
  /\ UNCHANGED <<event, seedings, vehicles, entries, server>>

(* GetDriver, deleted or not: only an administrator needs the count.       *)
LookAtTarget(q) ==
  /\ Doing(q, {"demote", "delete"}, "look")
  /\ Proceed(q, IF drivers[request[q].id].role = "admin" THEN "count" ELSE "write")
  /\ ReadOnly

(* The last administrator stays.                                           *)
CheckNotLast(q) ==
  /\ Doing(q, {"demote", "delete"}, "count")
  /\ IF CountAdmins <= 1 THEN Answer(q) ELSE Proceed(q, "write")
  /\ ReadOnly

(* SetRole and DeleteDriver.                                               *)
WriteUser(q) ==
  /\ Doing(q, {"promote", "demote", "delete"}, "write")
  /\ drivers' = [ drivers EXCEPT ![request[q].id] =
       CASE request[q].does = "promote" -> [ @ EXCEPT !.role = "admin" ]
         [] request[q].does = "demote"  -> [ @ EXCEPT !.role = "user" ]
         [] request[q].does = "delete"  -> [ @ EXCEPT !.deleted = TRUE ] ]
  /\ Wrote(q, Idle)
  /\ UNCHANGED <<event, seedings, vehicles, entries, server>>

(* CloseEvent fails when the event is not active, CreateEvent when there   *)
(* is an active one.                                                       *)
WriteEvent(q) ==
  /\ Doing(q, {"close", "open"}, "write")
  /\ \/ /\ request[q].does = "open" <=> event
        /\ Answer(q) /\ ReadOnly
     \/ /\ request[q].does = "open" <=> ~event
        /\ event' = ~event
        /\ Wrote(q, Idle)
        /\ UNCHANGED <<seedings, drivers, vehicles, entries, server>>

AccountStep ==
  \/ Opening \/ NewServer \/ Crash
  \/ \E q \in Requests :
       \/ BeginSetup(q) \/ CheckNoAdmin(q) \/ SeedEvent(q) \/ CreateAdmin(q) \/ ClearSetupToken(q)
       \/ BeginAdmin(q) \/ CreateUser(q) \/ LookAtTarget(q) \/ CheckNotLast(q)
       \/ WriteUser(q) \/ WriteEvent(q) \/ Fail(q)

-----------------------------------------------------------------------------
(* The check on the last administrator fails only a request that another   *)
(* one has overtaken: for a request that nobody has written beside, there  *)
(* is an administrator left (handleAdminUserRole, handleAdminUserDelete).  *)
LastAdminStays ==
  [][ Admins # {} /\ Admins' = {} =>
        \E q \in Requests : Busy(q) /\ request'[q] = Idle /\ ~request[q].alone ]_vars

(* A database is set up once, although an event may be closed, all the     *)
(* administrators be lost and the server be started again in between: only *)
(* a set-up that began while another one was under way can seed the        *)
(* database again, when that one has withdrawn the token or has only this  *)
(* left to do (NewServer, handleAPISetup, SeedEvent).                      *)
SetUpOnce ==
  [][ seedings' > seedings /\ seedings > 0 =>
        ~server.setup \/ \E p \in Requests : Doing(p, {"setup"}, "clear") ]_vars
=============================================================================
