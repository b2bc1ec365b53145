------------------------------ MODULE GarageProofs ------------------------------
(***************************************************************************)
(* Proofs about Database, Accounts and Garage: types; an older database is *)
(* upgraded wherever the process dies; one set-up, the last administrator  *)
(* and the main vehicle of a driver.                                       *)
(*                                                                         *)
(* A step of the system is a restart, the beginning of a request, a step   *)
(* that reads or one that writes (StepsOfNext).  What each kind does to    *)
(* the requests is said once (RestartsDo, BeginsDo, ReadsDo, WritesDo),    *)
(* and the invariants are kept kind by kind.  A step that writes leaves    *)
(* no other request alone, so an invariant about requests that are alone   *)
(* has to be kept for the one that takes the step only.                    *)
(***************************************************************************)
EXTENDS Garage, TLAPS, FiniteSetTheorems

(* What a column, the file and the start of the process can hold.          *)
Values == {Absent, 0, 1, OldIcon, OldLockout, DefaultLockout}
Files  == [ tables : {"none", "some", "all"}, columns : [ Columns -> Values ],
            version : 0 .. Latest, made : {"now", "before"}, icon : BOOLEAN ]
Starts == [ at : Stages, existed : BOOLEAN ]

(* A step leaves columns that are columns.                                 *)
LEMMA MigratedTypes ==
  ASSUME NEW cols \in [ Columns -> Values ], NEW step \in {1, 2}, NEW icon \in BOOLEAN
  PROVE  Migrated(cols, step, icon) \in [ Columns -> Values ]
<1>1. "icon_rev" \in Columns /\ "sensor_lockout_ms" \in Columns /\ "sensor_lockout_sec" \in Columns
  BY DEF Columns
<1>2. 0 \in Values /\ 1 \in Values /\ DefaultLockout \in Values /\ Absent \in Values
  BY DEF Values
<1>3. AddColumnIfMissing(cols, "icon_rev", 0) \in [ Columns -> Values ]
      /\ AddColumnIfMissing(cols, "sensor_lockout_sec", DefaultLockout) \in [ Columns -> Values ]
  BY <1>1, <1>2 DEF AddColumnIfMissing
<1>4. CASE step = 1
  BY <1>1, <1>2, <1>3, <1>4 DEF Migrated
<1>5. CASE step = 2
  <2>1. cols["sensor_lockout_ms"] \in Values
    BY <1>1
  <2> QED BY <1>1, <1>2, <1>3, <1>5, <2>1 DEF Migrated
<1> QED BY <1>4, <1>5

(* No step of Open leaves the types, or serves already.                    *)
LEMMA OpenTypes ==
  ASSUME DatabaseTypeOK, OpenStep
  PROVE  DatabaseTypeOK' /\ process'.at # "up"
<1>1. file \in Files /\ process \in Starts
  BY DEF DatabaseTypeOK, Files, Values, Starts
<1>2. ASSUME NEW stage \in Stages, GoTo(stage) PROVE process' \in Starts /\ process'.at = stage
  BY <1>1, <1>2 DEF GoTo, Starts
<1>3. Down \in Starts /\ Down.at = "down"
  BY DEF Down, Starts, Stages
<1>4. ASSUME file' \in Files, process' \in Starts, process'.at # "up"
      PROVE  DatabaseTypeOK' /\ process'.at # "up"
  BY <1>4 DEF DatabaseTypeOK, Files, Values, Starts
<1>s. {"schema", "version", "migrate", "refused", "opened"} \subseteq Stages
  BY DEF Stages
<1>5. CASE Open
  <2>1. process' \in Starts /\ process'.at = "schema" /\ file' = file
    BY <1>5, <1>s DEF Open, Starts
  <2> QED BY <1>1, <1>4, <2>1
<1>6. CASE CreateTable
  <2>1. CASE file.tables = "none" /\ UNCHANGED process /\ process.at = "schema"
             /\ file' = [ file EXCEPT !.tables = "some", !.columns["sensor_lockout_sec"] = DefaultLockout ]
    <3>1. [ file.columns EXCEPT !["sensor_lockout_sec"] = DefaultLockout ] \in [ Columns -> Values ]
      BY <1>1 DEF Files, Values
    <3>2. file' = [ file EXCEPT !.tables = "some",
                                !.columns = [ file.columns EXCEPT !["sensor_lockout_sec"] = DefaultLockout ] ]
      BY <1>1, <2>1 DEF Files
    <3>3. file' \in Files
      BY <1>1, <3>1, <3>2 DEF Files
    <3> QED BY <1>1, <1>4, <2>1, <3>3
  <2>2. CASE file.tables = "some" /\ UNCHANGED process /\ process.at = "schema"
             /\ file' = [ file EXCEPT !.tables = "all", !.columns["icon_rev"] = 0 ]
    <3>1. [ file.columns EXCEPT !["icon_rev"] = 0 ] \in [ Columns -> Values ]
      BY <1>1 DEF Files, Values
    <3>2. file' = [ file EXCEPT !.tables = "all", !.columns = [ file.columns EXCEPT !["icon_rev"] = 0 ] ]
      BY <1>1, <2>2 DEF Files
    <3>3. file' \in Files
      BY <1>1, <3>1, <3>2 DEF Files
    <3> QED BY <1>1, <1>4, <2>2, <3>3
  <2>3. CASE GoTo("version") /\ UNCHANGED file
    BY <1>1, <1>2, <1>4, <1>s, <2>3
  <2> QED BY <1>6, <2>1, <2>2, <2>3 DEF CreateTable
<1>7. CASE Stamp
  <2>1. file' \in Files
    BY <1>1, <1>7 DEF Stamp, Files, Latest
  <2> QED BY <1>2, <1>4, <1>7, <1>s, <2>1 DEF Stamp
<1>8. CASE CheckVersion
  <2>1. file' = file /\ (GoTo("opened") \/ GoTo("migrate") \/ process' = Down)
    BY <1>8 DEF CheckVersion
  <2> QED BY <1>1, <1>2, <1>3, <1>4, <1>s, <2>1
<1>9. CASE ApplyOne
  <2>1. NextStep \in {1, 2} /\ NextStep \in 0 .. Latest
    BY <1>1, <1>9 DEF ApplyOne, NextStep, Files, Latest
  <2>2. Migrated(file.columns, NextStep, file.icon) \in [ Columns -> Values ]
    BY <1>1, <2>1, MigratedTypes DEF Files
  <2>3. file' = [ file EXCEPT !.columns = Migrated(file.columns, NextStep, file.icon), !.version = NextStep ]
    BY <1>9 DEF ApplyOne
  <2>4. file' \in Files
    BY <1>1, <2>1, <2>2, <2>3 DEF Files
  <2> QED BY <1>1, <1>4, <1>9, <2>4 DEF ApplyOne
<1>10. CASE Refuse
  BY <1>1, <1>2, <1>4, <1>10, <1>s DEF Refuse
<1>11. CASE EndMigrations
  BY <1>1, <1>2, <1>4, <1>11, <1>s DEF EndMigrations
<1> QED BY <1>5, <1>6, <1>7, <1>8, <1>9, <1>10, <1>11 DEF OpenStep

-----------------------------------------------------------------------------
(* What an older version has left, on the way to the latest: the columns   *)
(* are those of the version in the file, at every commit, and a start      *)
(* finds that the database existed.                                        *)
ShapeInv ==
  file.made = "before" =>
    /\ file.tables = "all"
    /\ file.version = 0 => file.columns["icon_rev"] = Absent
    /\ file.version > 0 => file.columns["icon_rev"] \notin {Absent, 0}
    /\ file.version < 2 => /\ file.columns["sensor_lockout_ms"] = OldLockout
                           /\ file.columns["sensor_lockout_sec"] = Absent
    /\ file.version = 2 => /\ file.columns["sensor_lockout_ms"] = Absent
                           /\ file.columns["sensor_lockout_sec"] = OldLockout
    /\ file.icon
    /\ process.at # "down" => process.existed
    /\ process.at # "refused"

(* Every statement of Open keeps that: each step of a migration is one     *)
(* transaction with its version.                                           *)
LEMMA OpenShape ==
  ASSUME DatabaseTypeOK, ShapeInv, OpenStep
  PROVE  ShapeInv'
<1>1. file \in Files /\ process \in Starts
  BY DEF DatabaseTypeOK, Files, Values, Starts
<1>2. ASSUME NEW stage, GoTo(stage) PROVE process'.at = stage /\ process'.existed = process.existed
  BY <1>1, <1>2 DEF GoTo, Starts
<1>3. CASE Open
  <2>1. file' = file /\ process'.at = "schema" /\ process'.existed = (file.tables # "none")
    BY <1>3 DEF Open
  <2> QED BY <2>1 DEF ShapeInv
<1>4. CASE CreateTable
  <2>1. CASE file.tables # "all"
    <3>1. file'.made = file.made /\ file.made # "before"
      BY <1>1, <1>4, <2>1 DEF CreateTable, Files, ShapeInv
    <3> QED BY <3>1 DEF ShapeInv
  <2>2. CASE file.tables = "all"
    <3>1. GoTo("version") /\ file' = file /\ process.at = "schema"
      BY <1>4, <2>2 DEF CreateTable
    <3> QED BY <1>2, <3>1 DEF ShapeInv
  <2> QED BY <2>1, <2>2
<1>5. CASE Stamp
  <2>1. file'.made = file.made /\ file.made # "before"
    BY <1>1, <1>5 DEF Stamp, Files, ShapeInv
  <2> QED BY <2>1 DEF ShapeInv
<1>6. CASE CheckVersion
  <2>1. file' = file /\ process.at = "version" /\ (GoTo("opened") \/ GoTo("migrate") \/ process' = Down)
    BY <1>6 DEF CheckVersion
  <2>2. CASE process' = Down
    BY <2>1, <2>2 DEF ShapeInv, Down
  <2>3. CASE GoTo("opened") \/ GoTo("migrate")
    BY <1>2, <2>1, <2>3 DEF ShapeInv
  <2> QED BY <2>1, <2>2, <2>3
<1>7. CASE ApplyOne
  <2>1. /\ file' = [ file EXCEPT !.columns = Migrated(file.columns, NextStep, file.icon), !.version = NextStep ]
        /\ process' = process /\ file.version \in {0, 1}
    BY <1>1, <1>7 DEF ApplyOne, Files, Latest
  <2>2. /\ file'.made = file.made /\ file'.tables = file.tables /\ file'.icon = file.icon
        /\ file'.version = file.version + 1
        /\ file'.columns = Migrated(file.columns, NextStep, file.icon)
    BY <1>1, <2>1 DEF Files, NextStep
  <2> SUFFICES ASSUME file.made = "before" PROVE ShapeInv'
    BY <2>2 DEF ShapeInv
  <2>c. /\ file.columns \in [ Columns -> Values ]
        /\ "icon_rev" \in Columns /\ "sensor_lockout_ms" \in Columns /\ "sensor_lockout_sec" \in Columns
    BY <1>1 DEF Files, Columns
  <2>3. CASE file.version = 0
    <3>1. /\ file.columns["icon_rev"] = Absent /\ file.icon
          /\ file.columns["sensor_lockout_ms"] = OldLockout /\ file.columns["sensor_lockout_sec"] = Absent
      BY <2>3 DEF ShapeInv
    <3>2. AddColumnIfMissing(file.columns, "icon_rev", 0) = [ file.columns EXCEPT !["icon_rev"] = 0 ]
      BY <3>1 DEF AddColumnIfMissing, HasColumn
    <3>3. Migrated(file.columns, NextStep, file.icon) = [ file.columns EXCEPT !["icon_rev"] = 1 ]
      BY <2>3, <2>c, <3>1, <3>2 DEF Migrated, NextStep
    <3>4. /\ file'.columns["icon_rev"] = 1
          /\ file'.columns["sensor_lockout_ms"] = OldLockout /\ file'.columns["sensor_lockout_sec"] = Absent
      BY <2>2, <2>c, <3>1, <3>3
    <3> QED BY <2>1, <2>2, <2>3, <3>4 DEF ShapeInv, Absent
  <2>4. CASE file.version = 1
    <3>1. /\ file.columns["icon_rev"] \notin {Absent, 0} /\ file.icon
          /\ file.columns["sensor_lockout_ms"] = OldLockout /\ file.columns["sensor_lockout_sec"] = Absent
      BY <2>4 DEF ShapeInv
    <3>2. AddColumnIfMissing(file.columns, "sensor_lockout_sec", DefaultLockout)
            = [ file.columns EXCEPT !["sensor_lockout_sec"] = DefaultLockout ]
      BY <3>1 DEF AddColumnIfMissing, HasColumn
    <3>3. /\ file'.columns["icon_rev"] = file.columns["icon_rev"]
          /\ file'.columns["sensor_lockout_ms"] = Absent /\ file'.columns["sensor_lockout_sec"] = OldLockout
      BY <2>2, <2>4, <2>c, <3>1, <3>2 DEF Migrated, NextStep
    <3>4. /\ file'.tables = "all" /\ file'.version = 2 /\ file'.icon
          /\ process'.at # "down" => process'.existed
          /\ process'.at # "refused"
      BY <2>1, <2>2, <2>4 DEF ShapeInv
    <3>5. file'.columns["icon_rev"] \notin {Absent, 0}
      BY <3>1, <3>3
    <3> QED BY <3>3, <3>4, <3>5 DEF ShapeInv
  <2> QED BY <2>1, <2>3, <2>4
<1>8. CASE Refuse
  <2>1. file.made # "before"
    <3> SUFFICES ASSUME file.made = "before" PROVE FALSE
      OBVIOUS
    <3>1. file.version \in {0, 1} /\ NextStep = 2 /\ ~HasColumn(file.columns, "sensor_lockout_ms")
      BY <1>1, <1>8 DEF Refuse, Applies, Files, Latest
    <3> QED BY <3>1 DEF ShapeInv, HasColumn, OldLockout, Absent
  <2>2. file' = file
    BY <1>8 DEF Refuse
  <2> QED BY <2>1, <2>2 DEF ShapeInv
<1>9. CASE EndMigrations
  BY <1>2, <1>9 DEF EndMigrations, ShapeInv
<1> QED BY <1>3, <1>4, <1>5, <1>6, <1>7, <1>8, <1>9 DEF OpenStep

(* So the upgrade goes through, to the property that the runs check.       *)
LEMMA ShapeSuffices ==
  ASSUME DatabaseTypeOK, ShapeInv
  PROVE  UpgradeGoesThrough
<1> SUFFICES ASSUME file.made = "before" PROVE
    /\ process.at # "refused"
    /\ \A c \in Columns : HasColumn(file.columns, c) <=> HasColumn(ShapeOf(file.version), c)
    /\ \A c \in {"sensor_lockout_ms", "sensor_lockout_sec"} :
         file.columns[c] \in {Absent, OldLockout}
    /\ file.columns["icon_rev"] # 0
  BY DEF UpgradeGoesThrough
<1>1. file.version \in 0 .. 2
  BY DEF DatabaseTypeOK, Latest
<1>2. /\ "icon_rev" \in Columns /\ "sensor_lockout_ms" \in Columns /\ "sensor_lockout_sec" \in Columns
  BY DEF Columns
<1>3. /\ ShapeOf(file.version)["icon_rev"] = IF file.version >= 1 THEN OldIcon ELSE Absent
      /\ ShapeOf(file.version)["sensor_lockout_ms"] = IF file.version < 2 THEN OldLockout ELSE Absent
      /\ ShapeOf(file.version)["sensor_lockout_sec"] = IF file.version >= 2 THEN OldLockout ELSE Absent
  BY <1>2 DEF ShapeOf
<1>4. /\ HasColumn(file.columns, "icon_rev") <=> HasColumn(ShapeOf(file.version), "icon_rev")
      /\ file.columns["icon_rev"] # 0
  BY <1>1, <1>3 DEF HasColumn, Absent, OldIcon, ShapeInv
<1>5. /\ HasColumn(file.columns, "sensor_lockout_ms") <=> HasColumn(ShapeOf(file.version), "sensor_lockout_ms")
      /\ file.columns["sensor_lockout_ms"] \in {Absent, OldLockout}
  BY <1>1, <1>3 DEF HasColumn, Absent, OldLockout, ShapeInv
<1>6. /\ HasColumn(file.columns, "sensor_lockout_sec") <=> HasColumn(ShapeOf(file.version), "sensor_lockout_sec")
      /\ file.columns["sensor_lockout_sec"] \in {Absent, OldLockout}
  BY <1>1, <1>3 DEF HasColumn, Absent, OldLockout, ShapeInv
<1>7. process.at # "refused"
  BY DEF ShapeInv
<1> QED BY <1>4, <1>5, <1>6, <1>7 DEF Columns

(* The rows of drivers, and the requests there can be.                     *)
RowsOf(vs) == [ role : {"user", "admin"}, deleted : BOOLEAN, main : vs \cup {NoVehicle} ]

RequestsOf(ds, vs) ==
  [ does : Handlers, at : Steps, by : ds \cup {Emergency}, id : 0 .. MaxDrivers + MaxVehicles,
    main : vs \cup {NoVehicle}, alone : BOOLEAN ]

(* What a request is about is there at the step that uses it: no row is    *)
(* ever removed, so what has been read stays valid.                        *)
Fits(r, ds, vs) ==
  r # Idle =>
    /\ r \in RequestsOf(ds, vs)
    /\ r.at \in {"create", "vehicle"} \/ r.does = "setup" => r.id \in vs \cup {NoVehicle}
    /\ r.at \in {"link", "main", "owned"} => r.id \in vs
    /\ r.at \in {"vehicle", "link", "main", "owned"} => r.by \in ds
    /\ r.does \in {"promote", "demote", "delete"} => r.id \in ds
    /\ r.does = "vehicle" => r.id \in vs \cup {NoVehicle}

(* The database,                                                           *)
DataOK ==
  /\ event \in BOOLEAN /\ seedings \in 0 .. 2
  /\ vehicles \in Seq(BOOLEAN) /\ Len(vehicles) <= MaxVehicles
  /\ drivers \in Seq(RowsOf(VehicleIds)) /\ Len(drivers) <= MaxDrivers
  /\ entries \subseteq DriverIds \X VehicleIds

(* ... and those it is served to.                                          *)
ServedOK ==
  /\ DatabaseTypeOK
  /\ server \in [ setup : BOOLEAN, emergency : BOOLEAN ]
  /\ handled \in 0 .. MaxHandled
  /\ DOMAIN request = Requests /\ request = [ q \in Requests |-> request[q] ]
  /\ \A q \in Requests : Fits(request[q], DriverIds, VehicleIds)
  /\ ~Up => server = NoTokens /\ \A q \in Requests : ~Busy(q)

(* The type invariant, with what the next step of a request relies on.     *)
TypeInv == DataOK /\ ServedOK

(* A request still fits when there are more drivers and vehicles.          *)
LEMMA FitsMore ==
  ASSUME NEW r, NEW ds, NEW vs, NEW ds2, NEW vs2, ds \subseteq ds2, vs \subseteq vs2, Fits(r, ds, vs)
  PROVE  Fits(r, ds2, vs2)
BY DEF Fits, RequestsOf

(* A sequence of what there is, when there is more;                        *)
LEMMA SequenceOfMore ==
  ASSUME NEW S, NEW T, S \subseteq T, NEW s \in Seq(S)
  PROVE  s \in Seq(T)
OBVIOUS

(* ... with an element more;                                               *)
LEMMA OneMore ==
  ASSUME NEW T, NEW s \in Seq(T), NEW e \in T
  PROVE  /\ Append(s, e) \in Seq(T) /\ Len(Append(s, e)) = Len(s) + 1 /\ Len(s) \in Nat
         /\ 1 .. Len(Append(s, e)) = 1 .. Len(s) \cup {Len(s) + 1}
         /\ Len(s) + 1 \notin 1 .. Len(s)
         /\ Append(s, e)[Len(s) + 1] = e
         /\ \A i \in 1 .. Len(s) : Append(s, e)[i] = s[i]
OBVIOUS

(* ... with an element changed.                                            *)
LEMMA OneChanged ==
  ASSUME NEW T, NEW s \in Seq(T), NEW i \in 1 .. Len(s), NEW e \in T
  PROVE  /\ [ s EXCEPT ![i] = e ] \in Seq(T) /\ Len([ s EXCEPT ![i] = e ]) = Len(s)
         /\ [ s EXCEPT ![i] = e ][i] = e
         /\ \A j \in 1 .. Len(s) : j # i => [ s EXCEPT ![i] = e ][j] = s[j]
OBVIOUS

(* Both kinds of database that a start may find.                           *)
LEMMA InitTypes == Init => TypeInv /\ ShapeInv
<1> SUFFICES ASSUME Init PROVE TypeInv /\ ShapeInv
  OBVIOUS
<1>0. /\ MaxDrivers \in Nat /\ 2 <= MaxDrivers /\ MaxVehicles \in Nat /\ 1 <= MaxVehicles /\ MaxHandled \in Nat
  BY AccountsConstants
<1>1. ServedOK
  <2>1. file \in Files
    <3>1. NoColumn \in [ Columns -> Values ]
      BY DEF NoColumn, Values
    <3>2. NoFile \in Files
      BY <3>1 DEF NoFile, Files, Latest
    <3>3. ASSUME NEW version \in 0 .. Latest PROVE FileOf(version) \in Files
      <4>1. ShapeOf(version) \in [ Columns -> Values ]
        BY DEF ShapeOf, Values, Columns
      <4> QED BY <4>1 DEF FileOf, Files
    <3> QED BY <3>2, <3>3 DEF Init
  <2>2. DatabaseTypeOK
    BY <2>1 DEF Init, DatabaseTypeOK, Files, Values, Down, Stages
  <2>3. handled \in 0 .. MaxHandled
    BY <1>0 DEF Init
  <2>4. request = [ q \in Requests |-> Idle ] /\ server = NoTokens
    BY DEF Init
  <2>5. NoTokens \in [ setup : BOOLEAN, emergency : BOOLEAN ]
    BY DEF NoTokens
  <2> QED BY <2>2, <2>3, <2>4, <2>5 DEF ServedOK, Fits, Busy
<1>2. CASE drivers = <<>> /\ vehicles = <<>> /\ entries = {} /\ seedings = 0 /\ event = FALSE /\ file = NoFile
  <2>1. vehicles \in Seq(BOOLEAN) /\ Len(vehicles) <= MaxVehicles
    BY <1>0, <1>2
  <2>3. drivers \in Seq(RowsOf(VehicleIds)) /\ Len(drivers) <= MaxDrivers
    BY <1>0, <1>2
  <2>4. DataOK
    <3>1. event \in BOOLEAN /\ seedings \in 0 .. 2
      <4>1. event = FALSE
        BY <1>2
      <4>2. event \in BOOLEAN
        BY <4>1, Zenon
      <4>3. seedings = 0
        BY <1>2
      <4> QED BY <4>2, <4>3
    <3>2. entries \subseteq DriverIds \X VehicleIds
      <4>1. entries = {}
        BY <1>2
      <4> QED BY <4>1
    <3> QED BY <2>1, <2>3, <3>1, <3>2 DEF DataOK
  <2>2. ShapeInv
    BY <1>2 DEF ShapeInv, NoFile
  <2> QED BY <1>1, <2>2, <2>4 DEF TypeInv
<1>3. CASE /\ \E version \in 0 .. Latest : file = FileOf(version)
           /\ seedings = 1 /\ event \in BOOLEAN
           /\ drivers = << [ NewDriver("admin") EXCEPT !.main = 1 ], NewDriver("admin") >>
           /\ vehicles = <<FALSE>> /\ entries = {<<1, 1>>}
  <2>1. VehicleIds = {1} /\ DriverIds = {1, 2}
    BY <1>3 DEF VehicleIds, DriverIds
  <2>2. NewDriver("admin") \in RowsOf(VehicleIds) /\ [ NewDriver("admin") EXCEPT !.main = 1 ] \in RowsOf(VehicleIds)
    BY <2>1 DEF NewDriver, RowsOf
  <2>3. drivers \in Seq(RowsOf(VehicleIds)) /\ Len(drivers) = 2 /\ Len(drivers) <= MaxDrivers
    BY <1>0, <1>3, <2>2
  <2>4. vehicles \in Seq(BOOLEAN) /\ Len(vehicles) <= MaxVehicles
    BY <1>0, <1>3
  <2>5. entries \subseteq DriverIds \X VehicleIds
    BY <1>3, <2>1
  <2>6. DataOK
    BY <1>3, <2>3, <2>4, <2>5 DEF DataOK
  <2>7. ShapeInv
    <3>1. PICK version \in 0 .. 2 : file = FileOf(version)
      BY <1>3 DEF Latest
    <3>2. /\ "icon_rev" \in Columns /\ "sensor_lockout_ms" \in Columns /\ "sensor_lockout_sec" \in Columns
      BY DEF Columns
    <3>3. /\ ShapeOf(version)["icon_rev"] = IF version >= 1 THEN OldIcon ELSE Absent
          /\ ShapeOf(version)["sensor_lockout_ms"] = IF version < 2 THEN OldLockout ELSE Absent
          /\ ShapeOf(version)["sensor_lockout_sec"] = IF version >= 2 THEN OldLockout ELSE Absent
      BY <3>2 DEF ShapeOf
    <3>4. file.columns = ShapeOf(version) /\ file.version = version /\ file.tables = "all" /\ file.icon
      BY <3>1 DEF FileOf
    <3>5. process.at = "down"
      BY DEF Init, Down
    <3> QED BY <3>3, <3>4, <3>5 DEF ShapeInv, OldIcon, Absent
  <2> QED BY <1>1, <2>6, <2>7 DEF TypeInv
<1> QED BY <1>2, <1>3 DEF Init

-----------------------------------------------------------------------------
(* The database, one row changed.                                          *)

(* CreateDriver.                                                           *)
LEMMA DriverAdded ==
  ASSUME DataOK, NEW role \in {"user", "admin"}, CreateDriver(role), UNCHANGED <<vehicles, entries>>
  PROVE  /\ drivers' \in Seq(RowsOf(VehicleIds')) /\ Len(drivers') <= MaxDrivers
         /\ VehicleIds' = VehicleIds /\ DriverIds' = DriverIds \cup {Len(drivers')}
         /\ Len(drivers') \notin DriverIds
         /\ drivers'[Len(drivers')] = NewDriver(role)
         /\ \A d \in DriverIds : drivers'[d] = drivers[d]
         /\ entries' \subseteq DriverIds' \X VehicleIds'
<1>1. NewDriver(role) \in RowsOf(VehicleIds)
  BY DEF NewDriver, RowsOf
<1>2. drivers' = Append(drivers, NewDriver(role)) /\ Len(drivers) < MaxDrivers
      /\ drivers \in Seq(RowsOf(VehicleIds)) /\ MaxDrivers \in Nat
  BY AccountsConstants DEF CreateDriver, DataOK
<1> HIDE DEF RowsOf
<1>3. /\ drivers' \in Seq(RowsOf(VehicleIds)) /\ Len(drivers') = Len(drivers) + 1 /\ Len(drivers) \in Nat
      /\ DriverIds' = DriverIds \cup {Len(drivers')} /\ Len(drivers') \notin DriverIds
      /\ drivers'[Len(drivers')] = NewDriver(role)
      /\ \A d \in DriverIds : drivers'[d] = drivers[d]
  BY <1>1, <1>2, OneMore DEF DriverIds
<1>4. VehicleIds' = VehicleIds
  BY DEF VehicleIds
<1>5. Len(drivers') <= MaxDrivers
  BY <1>2, <1>3
<1>6. entries' \subseteq DriverIds' \X VehicleIds'
  BY <1>3, <1>4 DEF DataOK
<1> QED BY <1>3, <1>4, <1>5, <1>6

(* CreateVehicle.                                                          *)
LEMMA VehicleAdded ==
  ASSUME DataOK, CreateVehicle, UNCHANGED <<event, seedings, drivers, entries>>
  PROVE  /\ DataOK'
         /\ VehicleIds' = VehicleIds \cup {Len(vehicles')} /\ DriverIds' = DriverIds
<1>1. vehicles' = Append(vehicles, FALSE) /\ Len(vehicles) < MaxVehicles
      /\ vehicles \in Seq(BOOLEAN) /\ MaxVehicles \in Nat
  BY AccountsConstants DEF CreateVehicle, DataOK
<1>2. /\ vehicles' \in Seq(BOOLEAN) /\ Len(vehicles') = Len(vehicles) + 1 /\ Len(vehicles) \in Nat
      /\ VehicleIds' = VehicleIds \cup {Len(vehicles')}
  BY <1>1, OneMore DEF VehicleIds
<1>3. Len(vehicles') <= MaxVehicles
  BY <1>1, <1>2
<1>4. DriverIds' = DriverIds
  BY DEF DriverIds
<1>5. drivers' \in Seq(RowsOf(VehicleIds')) /\ Len(drivers') <= MaxDrivers
  <2>1. RowsOf(VehicleIds) \subseteq RowsOf(VehicleIds')
    BY <1>2 DEF RowsOf
  <2> QED BY <2>1, SequenceOfMore DEF DataOK
<1>6. entries' \subseteq DriverIds' \X VehicleIds'
  BY <1>2, <1>4 DEF DataOK
<1> QED BY <1>2, <1>3, <1>4, <1>5, <1>6 DEF DataOK

(* A row of drivers is written.                                            *)
LEMMA DriverChanged ==
  ASSUME DataOK, NEW d \in DriverIds, NEW row \in RowsOf(VehicleIds),
         drivers' = [ drivers EXCEPT ![d] = row ], UNCHANGED vehicles
  PROVE  /\ drivers' \in Seq(RowsOf(VehicleIds')) /\ Len(drivers') <= MaxDrivers
         /\ DriverIds' = DriverIds /\ VehicleIds' = VehicleIds
         /\ drivers'[d] = row /\ \A e \in DriverIds : e # d => drivers'[e] = drivers[e]
<1>1. drivers \in Seq(RowsOf(VehicleIds)) /\ Len(drivers) <= MaxDrivers /\ d \in 1 .. Len(drivers)
  BY DEF DataOK, DriverIds
<1> HIDE DEF RowsOf
<1>2. /\ drivers' \in Seq(RowsOf(VehicleIds)) /\ Len(drivers') = Len(drivers)
      /\ drivers'[d] = row /\ \A e \in 1 .. Len(drivers) : e # d => drivers'[e] = drivers[e]
  BY <1>1, OneChanged
<1> QED BY <1>1, <1>2 DEF DriverIds, VehicleIds

-----------------------------------------------------------------------------
(* The requests, one of them a step further.                               *)

(* A step that writes nothing, and the start of a request.                 *)
LEMMA ReadTypes ==
  ASSUME TypeInv, NEW q \in Requests, NEW next, request' = [ request EXCEPT ![q] = next ],
         Fits(next, DriverIds, VehicleIds), Up \/ next = Idle, handled' \in 0 .. MaxHandled,
         UNCHANGED <<file, process, accounts>>,
         server' = server \/ (Up /\ server' \in [ setup : BOOLEAN, emergency : BOOLEAN ])
  PROVE  TypeInv'
<1>1. DataOK' /\ DriverIds' = DriverIds /\ VehicleIds' = VehicleIds
  BY DEF TypeInv, DataOK, accounts, DriverIds, VehicleIds
<1>2. DOMAIN request = Requests /\ \A p \in Requests : Fits(request[p], DriverIds, VehicleIds)
  BY DEF TypeInv, ServedOK
<1>3. request' = [ p \in Requests |-> request'[p] ] /\ DOMAIN request' = Requests
      /\ \A p \in Requests : request'[p] = IF p = q THEN next ELSE request[p]
  BY <1>2
<1>4. \A p \in Requests : Fits(request'[p], DriverIds', VehicleIds')
  BY <1>1, <1>2, <1>3
<1>5. ~Up' => server' = NoTokens /\ \A p \in Requests : request'[p] = Idle
  BY <1>3 DEF TypeInv, ServedOK, Up, Busy
<1>6. DatabaseTypeOK' /\ server' \in [ setup : BOOLEAN, emergency : BOOLEAN ]
  BY DEF TypeInv, ServedOK, DatabaseTypeOK
<1> QED BY <1>1, <1>3, <1>4, <1>5, <1>6 DEF TypeInv, ServedOK, Busy

(* A step that writes: the other requests,                                 *)
LEMMA WroteRequests ==
  ASSUME NEW q \in Requests, NEW next, Wrote(q, next)
  PROVE  /\ request' = [ p \in Requests |-> request'[p] ] /\ DOMAIN request' = Requests
         /\ request'[q] = next
         /\ \A p \in Requests : p # q =>
              \/ request'[p] = Idle
              \/ Busy(p) /\ request'[p] = [ request[p] EXCEPT !.alone = FALSE ]
         /\ UNCHANGED <<file, process, handled>>
BY DEF Wrote

(* ... and the types.                                                      *)
LEMMA WriteTypes ==
  ASSUME TypeInv, NEW q \in Requests, Busy(q), NEW next, Wrote(q, next),
         Fits(next, DriverIds', VehicleIds'), DataOK', UNCHANGED server,
         DriverIds \subseteq DriverIds', VehicleIds \subseteq VehicleIds'
  PROVE  TypeInv'
<1>1. /\ request' = [ p \in Requests |-> request'[p] ] /\ DOMAIN request' = Requests
      /\ request'[q] = next
      /\ \A p \in Requests : p # q =>
           \/ request'[p] = Idle
           \/ Busy(p) /\ request'[p] = [ request[p] EXCEPT !.alone = FALSE ]
      /\ UNCHANGED <<file, process, handled>>
  BY WroteRequests
<1>2. ASSUME NEW p \in Requests PROVE Fits(request'[p], DriverIds', VehicleIds')
  <2>1. CASE p = q
    BY <1>1, <2>1
  <2>2. CASE request'[p] = Idle
    BY <2>2 DEF Fits
  <2>3. CASE Busy(p) /\ request'[p] = [ request[p] EXCEPT !.alone = FALSE ]
    <3>1. Fits(request[p], DriverIds', VehicleIds')
      BY FitsMore DEF TypeInv, ServedOK
    <3>2. request[p] \in RequestsOf(DriverIds', VehicleIds')
      BY <2>3, <3>1 DEF Fits, Busy
    <3>3. /\ request'[p] \in RequestsOf(DriverIds', VehicleIds')
          /\ request'[p].at = request[p].at /\ request'[p].does = request[p].does
          /\ request'[p].id = request[p].id /\ request'[p].by = request[p].by
      BY <2>3, <3>2 DEF RequestsOf
    <3> QED BY <2>3, <3>1, <3>3 DEF Fits, Busy
  <2> QED BY <1>1, <2>1, <2>2, <2>3
<1>3. Up
  BY DEF TypeInv, ServedOK
<1> QED BY <1>1, <1>2, <1>3 DEF TypeInv, ServedOK, DatabaseTypeOK, Up

(* The steps, one by one.                                                  *)
LEMMA StepNames ==
  /\ "check" \in Steps /\ "seed" \in Steps /\ "create" \in Steps /\ "clear" \in Steps
  /\ "look" \in Steps /\ "count" \in Steps /\ "write" \in Steps /\ "vehicle" \in Steps
  /\ "link" \in Steps /\ "main" \in Steps /\ "owned" \in Steps
BY DEF Steps

(* What the type invariant says of a busy request.                         *)
LEMMA WhatARequestIs ==
  ASSUME TypeInv, NEW q \in Requests, Busy(q)
  PROVE  /\ request[q] \in RequestsOf(DriverIds, VehicleIds)
         /\ request[q].at \in {"create", "vehicle"} \/ request[q].does = "setup"
              => request[q].id \in VehicleIds \cup {NoVehicle}
         /\ request[q].at \in {"link", "main", "owned"} => request[q].id \in VehicleIds
         /\ request[q].at \in {"vehicle", "link", "main", "owned"} => request[q].by \in DriverIds
         /\ request[q].does \in {"promote", "demote", "delete"} => request[q].id \in DriverIds
         /\ request[q].does = "vehicle" => request[q].id \in VehicleIds \cup {NoVehicle}
         /\ Up
<1>1. Fits(request[q], DriverIds, VehicleIds)
  BY DEF TypeInv, ServedOK
<1>2. Up
  BY DEF TypeInv, ServedOK
<1> QED BY <1>1, <1>2 DEF Fits, Busy

(* The request at another step,                                            *)
LEMMA StepOn ==
  ASSUME TypeInv, NEW q \in Requests, Busy(q), NEW at \in Steps
  PROVE  /\ To(q, at) \in RequestsOf(DriverIds, VehicleIds)
         /\ To(q, at).at = at /\ To(q, at).does = request[q].does /\ To(q, at).by = request[q].by
         /\ To(q, at).id = request[q].id /\ To(q, at).main = request[q].main
         /\ To(q, at).alone = request[q].alone
BY WhatARequestIs DEF RequestsOf, To

(* ... which may be taken when what it needs is there.                     *)
LEMMA StepOnFits ==
  ASSUME TypeInv, NEW q \in Requests, Busy(q), NEW at \in Steps,
         at \in {"create", "vehicle"} => request[q].id \in VehicleIds \cup {NoVehicle},
         at \in {"link", "main", "owned"} => request[q].id \in VehicleIds,
         at \in {"vehicle", "link", "main", "owned"} => request[q].by \in DriverIds
  PROVE  Fits(To(q, at), DriverIds, VehicleIds)
BY WhatARequestIs, StepOn DEF Fits

(* One that is over needs nothing.                                         *)
LEMMA IdleFits == ASSUME NEW ds, NEW vs PROVE Fits(Idle, ds, vs)
BY DEF Fits

(* A request goes on,                                                      *)
LEMMA ProceedTypes ==
  ASSUME TypeInv, NEW q \in Requests, Busy(q), NEW at \in Steps, Proceed(q, at), ReadOnly,
         at \in {"create", "vehicle"} => request[q].id \in VehicleIds \cup {NoVehicle},
         at \in {"link", "main", "owned"} => request[q].id \in VehicleIds,
         at \in {"vehicle", "link", "main", "owned"} => request[q].by \in DriverIds
  PROVE  TypeInv'
<1>1. Fits(To(q, at), DriverIds, VehicleIds)
  BY StepOnFits
<1>2. request' = [ request EXCEPT ![q] = To(q, at) ]
  BY DEF Proceed, To
<1>3. Up /\ handled' \in 0 .. MaxHandled /\ UNCHANGED <<file, process, accounts>> /\ server' = server
  BY WhatARequestIs DEF ReadOnly, TypeInv, ServedOK
<1> QED BY <1>1, <1>2, <1>3, ReadTypes

(* ... is answered,                                                        *)
LEMMA AnswerTypes ==
  ASSUME TypeInv, NEW q \in Requests, Answer(q), ReadOnly
  PROVE  TypeInv'
<1>1. request' = [ request EXCEPT ![q] = Idle ] /\ Fits(Idle, DriverIds, VehicleIds)
  BY IdleFits DEF Answer
<1>2. handled' \in 0 .. MaxHandled /\ UNCHANGED <<file, process, accounts>> /\ server' = server
  BY DEF ReadOnly, TypeInv, ServedOK
<1> QED BY <1>1, <1>2, ReadTypes

(* ... or begins.                                                          *)
LEMMA BeginTypes ==
  ASSUME TypeInv, NEW q \in Requests, NEW does, NEW at \in Steps, NEW by \in DriverIds \cup {Emergency},
         NEW id \in DriverIds \cup VehicleIds \cup {NoVehicle}, Begin(q, does, at, by, id),
         at \in {"create", "vehicle"} \/ does = "setup" => id \in VehicleIds \cup {NoVehicle},
         at \in {"link", "main", "owned"} => id \in VehicleIds,
         at \in {"vehicle", "link", "main", "owned"} => by \in DriverIds,
         does \in {"promote", "demote", "delete"} => id \in DriverIds,
         does = "vehicle" => id \in VehicleIds \cup {NoVehicle}
  PROVE  TypeInv'
<1> DEFINE main == IF by = Emergency THEN NoVehicle ELSE drivers[by].main
           next == [ does |-> does, at |-> at, by |-> by, id |-> id, alone |-> TRUE, main |-> main ]
<1>1. /\ Up /\ does \in Handlers /\ handled < MaxHandled /\ handled' = handled + 1
      /\ request' = [ request EXCEPT ![q] = next ]
      /\ UNCHANGED <<file, process, accounts>> /\ server' = server
  BY DEF Begin
<1>2. handled' \in 0 .. MaxHandled
  BY <1>1, AccountsConstants DEF TypeInv, ServedOK
<1>3. main \in VehicleIds \cup {NoVehicle}
  <2>1. drivers \in Seq(RowsOf(VehicleIds))
    BY DEF TypeInv, DataOK
  <2>2. by # Emergency => drivers[by] \in RowsOf(VehicleIds)
    <3> HIDE DEF RowsOf
    <3> QED BY <2>1 DEF DriverIds
  <2> QED BY <2>2 DEF RowsOf
<1>4. id \in 0 .. MaxDrivers + MaxVehicles
  <2>1. /\ MaxDrivers \in Nat /\ MaxVehicles \in Nat /\ Len(drivers) <= MaxDrivers /\ Len(vehicles) <= MaxVehicles
        /\ Len(drivers) \in Nat /\ Len(vehicles) \in Nat
    <3>1. drivers \in Seq(RowsOf(VehicleIds)) /\ vehicles \in Seq(BOOLEAN)
      BY DEF TypeInv, DataOK
    <3>2. Len(drivers) \in Nat /\ Len(vehicles) \in Nat
      BY <3>1
    <3> QED BY <3>2, AccountsConstants DEF TypeInv, DataOK
  <2> QED BY <2>1 DEF DriverIds, VehicleIds, NoVehicle
<1> HIDE DEF main
<1>5. next \in RequestsOf(DriverIds, VehicleIds)
  BY <1>1, <1>3, <1>4 DEF RequestsOf
<1>6. next.at = at /\ next.does = does /\ next.by = by /\ next.id = id
  OBVIOUS
<1> HIDE DEF next
<1>7. Fits(next, DriverIds, VehicleIds)
  BY <1>5, <1>6 DEF Fits
<1> QED BY <1>1, <1>2, <1>7, ReadTypes

-----------------------------------------------------------------------------
(* The life of the process.                                                *)
LEMMA ProcessTypes ==
  ASSUME TypeInv, Opening \/ NewServer \/ Crash
  PROVE  TypeInv'
<1>1. DataOK' /\ DriverIds' = DriverIds /\ VehicleIds' = VehicleIds
  <2>1. UNCHANGED accounts
    BY DEF Opening, NewServer, Crash
  <2> QED BY <2>1 DEF TypeInv, DataOK, accounts, DriverIds, VehicleIds
<1>2. handled' \in 0 .. MaxHandled
  BY DEF TypeInv, ServedOK, Opening, NewServer, Crash
<1>3. CASE Opening
  <2>1. DatabaseTypeOK' /\ process'.at # "up" /\ process.at # "up"
    <3>1. process.at # "up"
      BY <1>3 DEF Opening, OpenStep, Open, CreateTable, Stamp, CheckVersion, ApplyOne, Refuse, EndMigrations
    <3> QED BY <1>3, <3>1, OpenTypes DEF Opening, TypeInv, ServedOK
  <2>2. server' = server /\ request' = request
    BY <1>3 DEF Opening
  <2> QED BY <1>1, <1>2, <2>1, <2>2 DEF TypeInv, ServedOK, Up, Busy, NoTokens
<1>4. CASE NewServer
  <2>1. process' \in [ at : Stages, existed : BOOLEAN ] /\ process'.at = "up" /\ file' = file
    BY <1>4 DEF NewServer, GoTo, TypeInv, ServedOK, DatabaseTypeOK, Stages
  <2>2. DatabaseTypeOK' /\ Up'
    BY <2>1 DEF TypeInv, ServedOK, DatabaseTypeOK, Up
  <2>3. server' \in [ setup : BOOLEAN, emergency : BOOLEAN ] /\ request' = request
    BY <1>4 DEF NewServer
  <2> QED BY <1>1, <1>2, <2>2, <2>3 DEF TypeInv, ServedOK
<1>5. CASE Crash
  <2>1. DatabaseTypeOK'
    BY <1>5 DEF Crash, TypeInv, ServedOK, DatabaseTypeOK, Down, Stages
  <2>2. server' = NoTokens /\ request' = [ q \in Requests |-> Idle ]
    BY <1>5 DEF Crash
  <2>3. NoTokens \in [ setup : BOOLEAN, emergency : BOOLEAN ]
    BY DEF NoTokens
  <2>4. DOMAIN request' = Requests /\ request' = [ q \in Requests |-> request'[q] ]
        /\ \A q \in Requests : request'[q] = Idle
    BY <2>2
  <2> QED BY <1>1, <1>2, <2>1, <2>2, <2>3, <2>4, IdleFits DEF TypeInv, ServedOK, Busy
<1> QED BY <1>3, <1>4, <1>5

(* Who asks as an administrator is a driver.                               *)
LEMMA AdminIsDriver == Admins \subseteq DriverIds
BY DEF Admins

(* The types, handler by handler: each begins,                             *)
LEMMA BeginningTypes ==
  ASSUME TypeInv, NEW q \in Requests,
         \/ BeginSetup(q) \/ BeginAdmin(q) \/ BeginRegister(q) \/ BeginAddVehicle(q)
         \/ BeginSetMain(q) \/ BeginUnlink(q) \/ BeginVehicleAdmin(q)
  PROVE  TypeInv'
<1> USE StepNames, AdminIsDriver
<1>1. CASE BeginSetup(q)
  BY <1>1, BeginTypes DEF BeginSetup, NoVehicle
<1>2. CASE BeginAdmin(q)
  <2>1. CASE \E by \in Admins \cup (IF server.emergency THEN {Emergency} ELSE {}) :
               \/ Begin(q, "user", "create", by, 0)
               \/ \E d \in DriverIds : \/ Begin(q, "promote", "write", by, d)
                                       \/ Begin(q, "demote", "look", by, d)
    <3>1. PICK by \in Admins \cup (IF server.emergency THEN {Emergency} ELSE {}) :
               \/ Begin(q, "user", "create", by, 0)
               \/ \E d \in DriverIds : \/ Begin(q, "promote", "write", by, d)
                                       \/ Begin(q, "demote", "look", by, d)
      BY <2>1
    <3>2. by \in DriverIds \cup {Emergency}
      OBVIOUS
    <3>3. CASE Begin(q, "user", "create", by, 0)
      BY <3>2, <3>3, BeginTypes DEF NoVehicle
    <3>4. ASSUME NEW d \in DriverIds, Begin(q, "promote", "write", by, d) PROVE TypeInv'
      BY <3>2, <3>4, BeginTypes
    <3>5. ASSUME NEW d \in DriverIds, Begin(q, "demote", "look", by, d) PROVE TypeInv'
      BY <3>2, <3>5, BeginTypes
    <3> QED BY <3>1, <3>3, <3>4, <3>5
  <2>2. ASSUME NEW by \in Admins, NEW d \in DriverIds, Begin(q, "delete", "look", by, d) PROVE TypeInv'
    <3>1. by \in DriverIds \cup {Emergency}
      OBVIOUS
    <3> QED BY <2>2, <3>1, BeginTypes
  <2>3. ASSUME NEW by \in Admins, NEW does \in {"close", "open"}, Begin(q, does, "write", by, 0)
        PROVE  TypeInv'
    <3>1. by \in DriverIds \cup {Emergency}
      OBVIOUS
    <3> QED BY <2>3, <3>1, BeginTypes DEF NoVehicle
  <2> QED BY <1>2, <2>1, <2>2, <2>3 DEF BeginAdmin
<1>3. CASE BeginRegister(q)
  <2>1. PICK v \in VehicleIds \cup {NoVehicle} : Begin(q, "register", "create", Emergency, v)
    BY <1>3 DEF BeginRegister
  <2> QED BY <2>1, BeginTypes
<1>4. CASE BeginAddVehicle(q)
  <2>1. PICK d \in DriverIds, v \in VehicleIds \cup {NoVehicle} : Begin(q, "add", "vehicle", d, v)
    BY <1>4 DEF BeginAddVehicle
  <2> QED BY <2>1, BeginTypes
<1>5. CASE BeginSetMain(q)
  <2>1. PICK d \in DriverIds, v \in VehicleIds : Begin(q, "setmain", "owned", d, v)
    BY <1>5 DEF BeginSetMain
  <2> QED BY <2>1, BeginTypes
<1>6. CASE BeginUnlink(q)
  <2>1. PICK d \in DriverIds, v \in VehicleIds : Begin(q, "unlink", "owned", d, v)
    BY <1>6 DEF BeginUnlink
  <2> QED BY <2>1, BeginTypes
<1>7. CASE BeginVehicleAdmin(q)
  <2>1. PICK by \in Admins, v \in VehicleIds \cup {NoVehicle} : Begin(q, "vehicle", "write", by, v)
    BY <1>7 DEF BeginVehicleAdmin
  <2>2. by \in DriverIds \cup {Emergency}
    OBVIOUS
  <2> QED BY <2>1, <2>2, BeginTypes
<1> QED BY <1>1, <1>2, <1>3, <1>4, <1>5, <1>6, <1>7

(* ... takes the steps that only read,                                     *)
LEMMA ReadingTypes ==
  ASSUME TypeInv, NEW q \in Requests,
         \/ CheckNoAdmin(q) \/ ClearSetupToken(q) \/ LookAtTarget(q) \/ CheckNotLast(q)
         \/ CheckOwned(q) \/ Fail(q)
  PROVE  TypeInv'
<1> USE StepNames
<1>1. CASE CheckNoAdmin(q)
  BY <1>1, ProceedTypes, AnswerTypes DEF CheckNoAdmin, Doing
<1>2. CASE ClearSetupToken(q)
  <2>1. /\ request' = [ request EXCEPT ![q] = Idle ] /\ Fits(Idle, DriverIds, VehicleIds)
        /\ UNCHANGED <<file, process, accounts>> /\ Up
    BY <1>2, IdleFits, WhatARequestIs DEF ClearSetupToken, Answer, Doing
  <2>2. handled' \in 0 .. MaxHandled /\ server' \in [ setup : BOOLEAN, emergency : BOOLEAN ]
    BY <1>2 DEF ClearSetupToken, TypeInv, ServedOK
  <2> QED BY <2>1, <2>2, ReadTypes
<1>3. CASE LookAtTarget(q)
  BY <1>3, ProceedTypes DEF LookAtTarget, Doing
<1>4. CASE CheckNotLast(q)
  BY <1>4, ProceedTypes, AnswerTypes DEF CheckNotLast, Doing
<1>5. CASE CheckOwned(q)
  <2>1. /\ Busy(q) /\ ReadOnly /\ request[q].id \in VehicleIds /\ request[q].by \in DriverIds
        /\ Answer(q) \/ Proceed(q, "link") \/ Proceed(q, "main")
    BY <1>5, WhatARequestIs DEF CheckOwned, Doing
  <2> QED BY <2>1, ProceedTypes, AnswerTypes
<1>6. CASE Fail(q)
  BY <1>6, AnswerTypes DEF Fail
<1> QED BY <1>1, <1>2, <1>3, <1>4, <1>5, <1>6

(* ... or writes: the events,                                              *)
LEMMA EventTypes ==
  ASSUME TypeInv, UNCHANGED <<drivers, vehicles, entries>>, event' \in BOOLEAN, seedings' \in 0 .. 2
  PROVE  DataOK' /\ DriverIds' = DriverIds /\ VehicleIds' = VehicleIds
BY DEF TypeInv, DataOK, DriverIds, VehicleIds

(* SeedEvent.                                                              *)
LEMMA SeedTypes ==
  ASSUME TypeInv, NEW q \in Requests, SeedEvent(q)
  PROVE  TypeInv'
<1>1. CASE Answer(q) /\ ReadOnly
  BY <1>1, AnswerTypes
<1>2. CASE /\ event' = TRUE /\ seedings < 2 /\ seedings' = seedings + 1
           /\ Wrote(q, To(q, "create")) /\ UNCHANGED <<drivers, vehicles, entries, server>>
  <2>1. Busy(q) /\ request[q].does = "setup"
    BY DEF SeedEvent, Doing
  <2>2. DataOK' /\ DriverIds' = DriverIds /\ VehicleIds' = VehicleIds
    <3>1. event' \in BOOLEAN
      BY <1>2, Zenon
    <3>2. seedings' \in 0 .. 2
      BY <1>2 DEF TypeInv, DataOK
    <3> QED BY <1>2, <3>1, <3>2, EventTypes
  <2>3. Fits(To(q, "create"), DriverIds, VehicleIds)
    BY <2>1, StepNames, StepOnFits, WhatARequestIs
  <2> QED BY <1>2, <2>1, <2>2, <2>3, WriteTypes
<1> QED BY <1>1, <1>2 DEF SeedEvent

(* CloseEvent and CreateEvent.                                             *)
LEMMA WriteEventTypes ==
  ASSUME TypeInv, NEW q \in Requests, WriteEvent(q)
  PROVE  TypeInv'
<1>1. CASE Answer(q) /\ ReadOnly
  BY <1>1, AnswerTypes
<1>2. CASE event' = ~event /\ Wrote(q, Idle) /\ UNCHANGED <<seedings, drivers, vehicles, entries, server>>
  <2>1. Busy(q)
    BY DEF WriteEvent, Doing
  <2>2. DataOK' /\ DriverIds' = DriverIds /\ VehicleIds' = VehicleIds
    <3>1. event' \in BOOLEAN
      BY <1>2, Zenon DEF TypeInv, DataOK
    <3>2. seedings' \in 0 .. 2
      BY <1>2 DEF TypeInv, DataOK
    <3> QED BY <1>2, <3>1, <3>2, EventTypes
  <2> QED BY <1>2, <2>1, <2>2, IdleFits, WriteTypes
<1> QED BY <1>1, <1>2 DEF WriteEvent

(* ... a new row of drivers,                                               *)
LEMMA NewDriverTypes ==
  ASSUME TypeInv, NEW q \in Requests, NEW role \in {"user", "admin"}, CreateDriver(role),
         NEW next, Wrote(q, next), Busy(q),
         UNCHANGED <<event, seedings, vehicles, entries, server>>,
         \/ Fits(next, DriverIds, VehicleIds)
         \/ Fits(next, DriverIds \cup {Len(drivers')}, VehicleIds)
  PROVE  TypeInv'
<1>1. /\ drivers' \in Seq(RowsOf(VehicleIds')) /\ Len(drivers') <= MaxDrivers
      /\ VehicleIds' = VehicleIds /\ DriverIds' = DriverIds \cup {Len(drivers')}
      /\ entries' \subseteq DriverIds' \X VehicleIds'
  BY DriverAdded DEF TypeInv
<1>2. DataOK'
  BY <1>1 DEF TypeInv, DataOK
<1>3. Fits(next, DriverIds', VehicleIds')
  <2>1. DriverIds \subseteq DriverIds'
    BY <1>1
  <2> QED BY <1>1, <2>1, FitsMore
<1> QED BY <1>1, <1>2, <1>3, WriteTypes

(* The administrator of the set-up.                                        *)
LEMMA CreateAdminTypes ==
  ASSUME TypeInv, NEW q \in Requests, CreateAdmin(q)
  PROVE  TypeInv'
<1>1. Busy(q) /\ request[q].does = "setup"
  BY DEF CreateAdmin, Doing
<1>2. Fits(To(q, "clear"), DriverIds, VehicleIds)
  BY <1>1, StepNames, StepOnFits
<1> QED BY <1>1, <1>2, NewDriverTypes DEF CreateAdmin

(* A user that an administrator makes.                                     *)
LEMMA CreateUserTypes ==
  ASSUME TypeInv, NEW q \in Requests, CreateUser(q)
  PROVE  TypeInv'
<1>1. Busy(q)
  BY DEF CreateUser, Doing
<1> QED BY <1>1, IdleFits, NewDriverTypes DEF CreateUser

(* A user that registers, and whose request goes on as that of the driver. *)
LEMMA RegisterTypes ==
  ASSUME TypeInv, NEW q \in Requests, Register(q)
  PROVE  TypeInv'
<1> DEFINE there == DriverIds \cup {Len(drivers')}
           next == [ To(q, "vehicle") EXCEPT !.by = Len(drivers') ]
<1>1. Busy(q) /\ request[q].at = "create" /\ request[q].does = "register"
  BY DEF Register, Doing
<1>2. request[q].id \in VehicleIds \cup {NoVehicle}
  BY <1>1, WhatARequestIs
<1>3. To(q, "vehicle") \in RequestsOf(there, VehicleIds)
      /\ To(q, "vehicle").at = "vehicle" /\ To(q, "vehicle").does = "register"
      /\ To(q, "vehicle").id = request[q].id
  <2>1. /\ To(q, "vehicle") \in RequestsOf(DriverIds, VehicleIds)
        /\ To(q, "vehicle").at = "vehicle" /\ To(q, "vehicle").does = "register"
        /\ To(q, "vehicle").id = request[q].id
    BY <1>1, StepNames, StepOn
  <2> QED BY <2>1 DEF RequestsOf
<1>4. /\ next \in RequestsOf(there, VehicleIds)
      /\ next.at = "vehicle" /\ next.does = "register"
      /\ next.id = request[q].id /\ next.by \in there
  BY <1>3 DEF RequestsOf
<1>5. Wrote(q, next) /\ CreateDriver("user") /\ UNCHANGED <<event, seedings, vehicles, entries, server>>
  BY DEF Register
<1> HIDE DEF next
<1>6. Fits(next, there, VehicleIds)
  BY <1>2, <1>4 DEF Fits
<1> QED BY <1>1, <1>5, <1>6, NewDriverTypes

(* ... a row of drivers that is changed,                                   *)
LEMMA ChangedDriverTypes ==
  ASSUME TypeInv, NEW q \in Requests, NEW d \in DriverIds, NEW row \in RowsOf(VehicleIds),
         drivers' = [ drivers EXCEPT ![d] = row ],
         NEW next, Wrote(q, next), Busy(q), Fits(next, DriverIds, VehicleIds),
         entries' \subseteq DriverIds \X VehicleIds,
         UNCHANGED <<event, seedings, vehicles, server>>
  PROVE  TypeInv'
<1>1. /\ drivers' \in Seq(RowsOf(VehicleIds')) /\ Len(drivers') <= MaxDrivers
      /\ DriverIds' = DriverIds /\ VehicleIds' = VehicleIds
  BY DriverChanged DEF TypeInv
<1>2. DataOK'
  BY <1>1 DEF TypeInv, DataOK
<1> QED BY <1>1, <1>2, WriteTypes

(* ... where there was one of that type.                                   *)
LEMMA RowIs ==
  ASSUME TypeInv, NEW d \in DriverIds
  PROVE  drivers[d] \in RowsOf(VehicleIds)
<1>1. drivers \in Seq(RowsOf(VehicleIds))
  BY DEF TypeInv, DataOK
<1> HIDE DEF RowsOf
<1> QED BY <1>1 DEF DriverIds

(* SetRole and DeleteDriver.                                               *)
LEMMA WriteUserTypes ==
  ASSUME TypeInv, NEW q \in Requests, WriteUser(q)
  PROVE  TypeInv'
<1> DEFINE d == request[q].id
<1>1. Busy(q) /\ request[q].does \in {"promote", "demote", "delete"}
  BY DEF WriteUser, Doing
<1>2. d \in DriverIds
  BY <1>1, WhatARequestIs
<1>3. PICK row \in RowsOf(VehicleIds) : drivers' = [ drivers EXCEPT ![d] = row ]
  <2>1. drivers[d] \in RowsOf(VehicleIds)
    BY <1>2, RowIs
  <2>2. CASE request[q].does = "promote"
    <3>1. [ drivers[d] EXCEPT !.role = "admin" ] \in RowsOf(VehicleIds)
      BY <2>1 DEF RowsOf
    <3>2. drivers' = [ drivers EXCEPT ![d] = [ drivers[d] EXCEPT !.role = "admin" ] ]
      BY <2>2 DEF WriteUser
    <3> QED BY <3>1, <3>2
  <2>3. CASE request[q].does = "demote"
    <3>1. [ drivers[d] EXCEPT !.role = "user" ] \in RowsOf(VehicleIds)
      BY <2>1 DEF RowsOf
    <3>2. drivers' = [ drivers EXCEPT ![d] = [ drivers[d] EXCEPT !.role = "user" ] ]
      BY <2>3 DEF WriteUser
    <3> QED BY <3>1, <3>2
  <2>4. CASE request[q].does = "delete"
    <3>1. [ drivers[d] EXCEPT !.deleted = TRUE ] \in RowsOf(VehicleIds)
      BY <2>1 DEF RowsOf
    <3>2. drivers' = [ drivers EXCEPT ![d] = [ drivers[d] EXCEPT !.deleted = TRUE ] ]
      BY <2>4 DEF WriteUser
    <3> QED BY <3>1, <3>2
  <2> QED BY <1>1, <2>2, <2>3, <2>4
<1>4. Wrote(q, Idle) /\ UNCHANGED <<event, seedings, vehicles, entries, server>>
  BY DEF WriteUser
<1>5. entries' \subseteq DriverIds \X VehicleIds
  BY <1>4 DEF TypeInv, DataOK
<1> HIDE DEF d
<1> QED BY <1>1, <1>2, <1>3, <1>4, <1>5, IdleFits, ChangedDriverTypes

(* AddEntry, with the main vehicle that it sets.                           *)
LEMMA AddEntryTypes ==
  ASSUME TypeInv, NEW q \in Requests, AddEntry(q)
  PROVE  TypeInv'
<1> DEFINE d == request[q].by
           v == request[q].id
           row == [ drivers[d] EXCEPT !.main = MainAfterEntry(d, v) ]
           next == IF request[q].does = "register" THEN To(q, "main") ELSE Idle
<1>1. Busy(q) /\ request[q].at = "link"
  BY DEF AddEntry, Doing
<1>2. d \in DriverIds /\ v \in VehicleIds
  BY <1>1, WhatARequestIs
<1>3. row \in RowsOf(VehicleIds)
  <2>1. drivers[d] \in RowsOf(VehicleIds)
    BY <1>2, RowIs
  <2> QED BY <1>2, <2>1 DEF RowsOf, MainAfterEntry, MainOf
<1>4. /\ drivers' = [ drivers EXCEPT ![d] = row ] /\ Wrote(q, next)
      /\ entries' = entries \cup {<<d, v>>} /\ UNCHANGED <<event, seedings, vehicles, server>>
  BY DEF AddEntry
<1>5. entries' \subseteq DriverIds \X VehicleIds
  BY <1>2, <1>4 DEF TypeInv, DataOK
<1>6. Fits(next, DriverIds, VehicleIds)
  BY <1>1, <1>2, StepNames, StepOnFits, IdleFits
<1> HIDE DEF d, row, next
<1> QED BY <1>1, <1>2, <1>3, <1>4, <1>5, <1>6, ChangedDriverTypes

(* SetMainVehicle.                                                         *)
LEMMA SetMainTypes ==
  ASSUME TypeInv, NEW q \in Requests, SetMainVehicle(q)
  PROVE  TypeInv'
<1> DEFINE d == request[q].by
           row == [ drivers[d] EXCEPT !.main = request[q].id ]
<1>1. Busy(q) /\ request[q].at = "main"
  BY DEF SetMainVehicle, Doing
<1>2. d \in DriverIds /\ request[q].id \in VehicleIds
  BY <1>1, WhatARequestIs
<1>3. row \in RowsOf(VehicleIds)
  <2>1. drivers[d] \in RowsOf(VehicleIds)
    BY <1>2, RowIs
  <2> QED BY <1>2, <2>1 DEF RowsOf
<1>4. /\ drivers' = [ drivers EXCEPT ![d] = row ] /\ Wrote(q, Idle)
      /\ UNCHANGED <<event, seedings, vehicles, entries, server>>
  BY DEF SetMainVehicle
<1>5. entries' \subseteq DriverIds \X VehicleIds
  BY <1>4 DEF TypeInv, DataOK
<1> HIDE DEF d, row
<1> QED BY <1>1, <1>2, <1>3, <1>4, <1>5, IdleFits, ChangedDriverTypes

(* ... and the links and the vehicles.                                     *)
LEMMA DeleteEntryTypes ==
  ASSUME TypeInv, NEW q \in Requests, DeleteEntry(q)
  PROVE  TypeInv'
<1>1. /\ Busy(q) /\ Wrote(q, Idle) /\ UNCHANGED <<event, seedings, drivers, vehicles, server>>
      /\ entries' \subseteq entries
  BY DEF DeleteEntry, Doing
<1>2. DriverIds' = DriverIds /\ VehicleIds' = VehicleIds
  BY <1>1 DEF DriverIds, VehicleIds
<1>3. DataOK'
  BY <1>1, <1>2 DEF TypeInv, DataOK
<1> QED BY <1>1, <1>2, <1>3, IdleFits, WriteTypes

(* The vehicle of a participant, an old one or a new one.                  *)
LEMMA ResolveTypes ==
  ASSUME TypeInv, NEW q \in Requests, ResolveVehicle(q)
  PROVE  TypeInv'
<1>1. Busy(q) /\ request[q].at = "vehicle"
  BY DEF ResolveVehicle, Doing
<1>2. request[q].by \in DriverIds /\ request[q].id \in VehicleIds \cup {NoVehicle}
  BY <1>1, WhatARequestIs
<1>3. CASE request[q].id # NoVehicle /\ Proceed(q, "link") /\ ReadOnly
  BY <1>1, <1>2, <1>3, StepNames, ProceedTypes
<1>4. CASE /\ CreateVehicle /\ Wrote(q, [ To(q, "link") EXCEPT !.id = Len(vehicles') ])
           /\ UNCHANGED <<event, seedings, drivers, entries, server>>
  <2> DEFINE next == [ To(q, "link") EXCEPT !.id = Len(vehicles') ]
  <2>1. /\ DataOK' /\ DriverIds' = DriverIds
        /\ VehicleIds' = VehicleIds \cup {Len(vehicles')}
    BY <1>4, VehicleAdded DEF TypeInv
  <2>2. To(q, "link") \in RequestsOf(DriverIds, VehicleIds) /\ To(q, "link").at = "link"
        /\ To(q, "link").does = request[q].does /\ To(q, "link").by = request[q].by
    BY <1>1, StepNames, StepOn
  <2>3. Len(vehicles') \in 0 .. MaxDrivers + MaxVehicles /\ Len(vehicles') \in VehicleIds'
    <3>1. Len(vehicles') \in Nat /\ Len(vehicles') <= MaxVehicles /\ MaxDrivers \in Nat /\ MaxVehicles \in Nat
      <4>1. vehicles' \in Seq(BOOLEAN) /\ Len(vehicles') <= MaxVehicles
        BY <2>1 DEF DataOK
      <4>2. Len(vehicles') \in Nat
        BY <4>1
      <4> QED BY <4>1, <4>2, AccountsConstants
    <3> QED BY <2>1, <3>1
  <2>4. /\ next \in RequestsOf(DriverIds', VehicleIds')
        /\ next.at = "link" /\ next.does = request[q].does
        /\ next.id \in VehicleIds' /\ next.by \in DriverIds'
    <3>1. To(q, "link") \in RequestsOf(DriverIds', VehicleIds')
      BY <2>1, <2>2 DEF RequestsOf
    <3> QED BY <1>2, <2>1, <2>2, <2>3, <3>1 DEF RequestsOf
  <2>5. request[q].does \notin {"promote", "demote", "delete"}
    BY DEF ResolveVehicle, Doing
  <2>6. Wrote(q, next) /\ server' = server
    BY <1>4
  <2> HIDE DEF next
  <2>7. Fits(next, DriverIds', VehicleIds')
    BY <2>4, <2>5 DEF Fits
  <2> QED BY <1>1, <2>1, <2>6, <2>7, WriteTypes
<1> QED BY <1>3, <1>4 DEF ResolveVehicle

(* The vehicles that an administrator makes or deletes.                    *)
LEMMA WriteVehicleTypes ==
  ASSUME TypeInv, NEW q \in Requests, WriteVehicle(q)
  PROVE  TypeInv'
<1>1. Busy(q) /\ request[q].does = "vehicle" /\ Wrote(q, Idle)
      /\ UNCHANGED <<event, seedings, drivers, entries, server>>
  BY DEF WriteVehicle, Doing
<1>2. CASE CreateVehicle
  <2>1. /\ DataOK' /\ DriverIds' = DriverIds
        /\ VehicleIds' = VehicleIds \cup {Len(vehicles')}
    BY <1>1, <1>2, VehicleAdded DEF TypeInv
  <2> QED BY <1>1, <2>1, IdleFits, WriteTypes
<1>3. CASE request[q].id # NoVehicle /\ vehicles' = [ vehicles EXCEPT ![request[q].id] = TRUE ]
  <2>1. vehicles \in Seq(BOOLEAN) /\ request[q].id \in 1 .. Len(vehicles)
    BY <1>1, <1>3, WhatARequestIs DEF TypeInv, DataOK, VehicleIds
  <2>2. vehicles' \in Seq(BOOLEAN) /\ Len(vehicles') = Len(vehicles)
    BY <1>3, <2>1, OneChanged
  <2>3. DriverIds' = DriverIds /\ VehicleIds' = VehicleIds
    BY <1>1, <2>2 DEF DriverIds, VehicleIds
  <2>4. DataOK'
    BY <1>1, <2>2, <2>3 DEF TypeInv, DataOK
  <2> QED BY <1>1, <2>3, <2>4, IdleFits, WriteTypes
<1> QED BY <1>2, <1>3 DEF WriteVehicle

-----------------------------------------------------------------------------
(* Every step keeps the types.                                             *)
LEMMA NextTypes == TypeInv /\ [Next]_vars => TypeInv'
<1> SUFFICES ASSUME TypeInv, [Next]_vars PROVE TypeInv'
  OBVIOUS
<1>1. CASE UNCHANGED vars
  <2>1. DataOK' /\ DriverIds' = DriverIds /\ VehicleIds' = VehicleIds
    BY <1>1 DEF vars, accounts, TypeInv, DataOK, DriverIds, VehicleIds
  <2>2. UNCHANGED <<file, process, server, request, handled>>
    BY <1>1 DEF vars
  <2> QED BY <2>1, <2>2 DEF TypeInv, ServedOK, DatabaseTypeOK, Up, Busy, NoTokens
<1>2. CASE Opening \/ NewServer \/ Crash
  BY <1>2, ProcessTypes
<1>3. ASSUME NEW q \in Requests,
             \/ BeginSetup(q) \/ BeginAdmin(q) \/ BeginRegister(q) \/ BeginAddVehicle(q)
             \/ BeginSetMain(q) \/ BeginUnlink(q) \/ BeginVehicleAdmin(q)
      PROVE  TypeInv'
  BY <1>3, BeginningTypes
<1>4. ASSUME NEW q \in Requests,
             \/ CheckNoAdmin(q) \/ ClearSetupToken(q) \/ LookAtTarget(q) \/ CheckNotLast(q)
             \/ CheckOwned(q) \/ Fail(q)
      PROVE  TypeInv'
  BY <1>4, ReadingTypes
<1>5. ASSUME NEW q \in Requests,
             \/ SeedEvent(q) \/ CreateAdmin(q) \/ CreateUser(q) \/ WriteUser(q) \/ WriteEvent(q)
             \/ Register(q) \/ ResolveVehicle(q) \/ AddEntry(q) \/ SetMainVehicle(q)
             \/ DeleteEntry(q) \/ WriteVehicle(q)
      PROVE  TypeInv'
  BY <1>5, SeedTypes, CreateAdminTypes, CreateUserTypes, WriteUserTypes, WriteEventTypes,
     RegisterTypes, ResolveTypes, AddEntryTypes, SetMainTypes, DeleteEntryTypes, WriteVehicleTypes
<1> QED BY <1>1, <1>2, <1>3, <1>4, <1>5 DEF Next, AccountStep

(* The type invariant that the runs check.                                 *)
LEMMA TypesSuffice == TypeInv => TypeOK
<1> SUFFICES ASSUME TypeInv PROVE TypeOK
  OBVIOUS
<1>1. ASSUME NEW d \in DriverIds
      PROVE  drivers[d] \in [ role : {"user", "admin"}, deleted : BOOLEAN, main : VehicleIds \cup {NoVehicle} ]
  BY RowIs DEF RowsOf
<1>2. ASSUME NEW q \in Requests, Busy(q)
      PROVE  request[q] \in [ does : Handlers, at : Steps, by : DriverIds \cup {Emergency},
                              id : 0 .. MaxDrivers + MaxVehicles, main : VehicleIds \cup {NoVehicle},
                              alone : BOOLEAN ]
  BY <1>2, WhatARequestIs DEF RequestsOf
<1>3. /\ event \in BOOLEAN /\ seedings \in 0 .. 2 /\ Len(drivers) <= MaxDrivers
      /\ vehicles \in Seq(BOOLEAN) /\ Len(vehicles) <= MaxVehicles
      /\ entries \subseteq DriverIds \X VehicleIds
  BY DEF TypeInv, DataOK
<1>4. /\ DatabaseTypeOK /\ server \in [ setup : BOOLEAN, emergency : BOOLEAN ] /\ handled \in 0 .. MaxHandled
      /\ ~Up => server = NoTokens /\ \A q \in Requests : ~Busy(q)
  BY DEF TypeInv, ServedOK
<1> QED BY <1>1, <1>2, <1>3, <1>4 DEF TypeOK, AccountsTypeOK

(* Nothing but Open touches the shape of the file.                         *)
LEMMA NextShape == TypeInv /\ ShapeInv /\ [Next]_vars => ShapeInv'
<1> SUFFICES ASSUME TypeInv, ShapeInv, [Next]_vars PROVE ShapeInv'
  OBVIOUS
<1>1. CASE UNCHANGED <<file, process>>
  BY <1>1 DEF ShapeInv
<1>2. CASE Opening
  BY <1>2, OpenShape DEF Opening, TypeInv, ServedOK
<1>3. CASE NewServer
  <2>1. process' = [ process EXCEPT !.at = "up" ] /\ process \in Starts /\ file' = file /\ process.at = "opened"
    BY <1>3 DEF NewServer, GoTo, TypeInv, ServedOK, DatabaseTypeOK, Starts
  <2>2. process'.at = "up" /\ process'.existed = process.existed
    BY <2>1 DEF Starts
  <2> QED BY <2>1, <2>2 DEF ShapeInv
<1>4. CASE Crash
  BY <1>4 DEF Crash, Down, ShapeInv
<1>5. ASSUME NEW q \in Requests,
             \/ BeginSetup(q) \/ BeginAdmin(q) \/ BeginRegister(q) \/ BeginAddVehicle(q)
             \/ BeginSetMain(q) \/ BeginUnlink(q) \/ BeginVehicleAdmin(q)
             \/ CheckNoAdmin(q) \/ ClearSetupToken(q) \/ LookAtTarget(q) \/ CheckNotLast(q)
             \/ CheckOwned(q) \/ Fail(q)
             \/ SeedEvent(q) \/ CreateAdmin(q) \/ CreateUser(q) \/ WriteUser(q) \/ WriteEvent(q)
             \/ Register(q) \/ ResolveVehicle(q) \/ AddEntry(q) \/ SetMainVehicle(q)
             \/ DeleteEntry(q) \/ WriteVehicle(q)
      PROVE  UNCHANGED <<file, process>>
  BY <1>5 DEF BeginSetup, BeginAdmin, BeginRegister, BeginAddVehicle, BeginSetMain, BeginUnlink,
     BeginVehicleAdmin, Begin, CheckNoAdmin, ClearSetupToken, LookAtTarget, CheckNotLast, CheckOwned, Fail,
     ReadOnly, SeedEvent, CreateAdmin, CreateUser, WriteUser, WriteEvent, Register, ResolveVehicle,
     AddEntry, SetMainVehicle, DeleteEntry, WriteVehicle, Wrote
<1> QED BY <1>1, <1>2, <1>3, <1>4, <1>5 DEF Next, AccountStep, vars

(* The accounts and the garage stay within their types: a request is only  *)
(* ever about drivers and vehicles that are there, whatever the others do  *)
(* (the handlers of internal/web).                                         *)
THEOREM GarageTypes == Spec => []TypeOK
<1>1. Spec => []TypeInv
  BY InitTypes, NextTypes, PTL DEF Spec
<1> QED BY <1>1, TypesSuffice, PTL

(* An older database is brought to the latest shape, wherever the process  *)
(* dies on the way, and however often (applyMigrations, applyOne).         *)
THEOREM UpgradesGoThrough == Spec => []UpgradeGoesThrough
<1>1. Spec => [](TypeInv /\ ShapeInv)
  BY InitTypes, NextTypes, NextShape, PTL DEF Spec
<1>2. TypeInv /\ ShapeInv => UpgradeGoesThrough
  BY ShapeSuffices DEF TypeInv, ServedOK
<1> QED BY <1>1, <1>2, PTL

(* The steps of a request: it begins,                                      *)
Begins(q) ==
  \/ BeginSetup(q) \/ BeginAdmin(q) \/ BeginRegister(q) \/ BeginAddVehicle(q)
  \/ BeginSetMain(q) \/ BeginUnlink(q) \/ BeginVehicleAdmin(q)

(* ... reads,                                                              *)
Reads(q) ==
  \/ CheckNoAdmin(q) \/ ClearSetupToken(q) \/ LookAtTarget(q) \/ CheckNotLast(q)
  \/ CheckOwned(q) \/ Fail(q)
  \/ SeedEvent(q) /\ Answer(q) /\ ReadOnly
  \/ WriteEvent(q) /\ Answer(q) /\ ReadOnly
  \/ ResolveVehicle(q) /\ Proceed(q, "link") /\ ReadOnly

(* ... or writes.                                                          *)
Writes(q) ==
  \/ SeedEvent(q) /\ Wrote(q, To(q, "create")) /\ ~event /\ event' = TRUE /\ seedings' = seedings + 1
       /\ UNCHANGED <<drivers, vehicles, entries, server>>
  \/ CreateAdmin(q) \/ CreateUser(q) \/ WriteUser(q)
  \/ WriteEvent(q) /\ Wrote(q, Idle) /\ UNCHANGED <<seedings, drivers, vehicles, entries, server>>
  \/ Register(q) \/ AddEntry(q) \/ SetMainVehicle(q) \/ DeleteEntry(q) \/ WriteVehicle(q)
  \/ /\ ResolveVehicle(q) /\ CreateVehicle /\ Wrote(q, [ To(q, "link") EXCEPT !.id = Len(vehicles') ])
     /\ UNCHANGED <<event, seedings, drivers, entries, server>>

(* The steps of the process.                                               *)
Restarts == Opening \/ NewServer \/ Crash

(* There are no others.                                                    *)
LEMMA StepsOfNext ==
  ASSUME [Next]_vars
  PROVE  \/ UNCHANGED vars \/ Restarts
         \/ \E q \in Requests : Begins(q) \/ Reads(q) \/ Writes(q)
<1>1. ASSUME NEW q \in Requests, SeedEvent(q) PROVE Reads(q) \/ Writes(q)
  BY <1>1 DEF SeedEvent, Reads, Writes
<1>2. ASSUME NEW q \in Requests, WriteEvent(q) PROVE Reads(q) \/ Writes(q)
  BY <1>2 DEF WriteEvent, Reads, Writes
<1>3. ASSUME NEW q \in Requests, ResolveVehicle(q) PROVE Reads(q) \/ Writes(q)
  BY <1>3 DEF ResolveVehicle, Reads, Writes
<1> QED BY <1>1, <1>2, <1>3 DEF Next, AccountStep, Restarts, Begins, Reads, Writes

(* A restart leaves the database alone, and ends the requests or finds     *)
(* none.                                                                   *)
LEMMA RestartsDo ==
  ASSUME Restarts
  PROVE  /\ UNCHANGED accounts
         /\ \/ server' = server /\ request' = request
            \/ server' = NoTokens /\ request' = [ q \in Requests |-> Idle ]
            \/ /\ server' = [ setup |-> seedings = 0, emergency |-> seedings > 0 ]
               /\ ~Up /\ request' = request
<1>1. CASE Opening
  BY <1>1 DEF Opening
<1>2. CASE NewServer
  BY <1>2 DEF NewServer, Up
<1>3. CASE Crash
  BY <1>3 DEF Crash
<1> QED BY <1>1, <1>2, <1>3 DEF Restarts

(* A request begins with a check, but for those that need none; and one    *)
(* that is for administrators needs one, or the emergency token.           *)
LEMMA BeginsDo ==
  ASSUME TypeInv, NEW q \in Requests, Begins(q)
  PROVE  /\ UNCHANGED <<accounts, server>> /\ ~Busy(q)
         /\ \A p \in Requests : p # q => request'[p] = request[p]
         /\ request'[q].at \notin {"seed", "clear", "count", "link", "main"}
         /\ request'[q].at = "write" => request'[q].does \notin {"demote", "delete"}
         /\ request'[q].at = "create" => request'[q].does \in {"user", "register"}
         /\ request'[q].does = "setup" => server.setup
         /\ request'[q].does = "unlink" => /\ request'[q].at = "owned"
                                           /\ request'[q].main = drivers[request'[q].by].main
         /\ request'[q].does \in {"user", "promote", "demote", "delete", "close", "open", "vehicle"}
              => Admins # {} \/ server.emergency
<1> DEFINE OK(does, at, by, id) ==
              /\ does \in Handlers /\ at \in Steps
              /\ Begin(q, does, at, by, id)
              /\ at \notin {"seed", "clear", "count", "link", "main"}
              /\ at = "write" => does \notin {"demote", "delete"}
              /\ at = "create" => does \in {"user", "register"}
              /\ does = "setup" => server.setup
              /\ does = "unlink" => by \in DriverIds /\ at = "owned"
              /\ does \in {"setmain", "unlink"} => at = "owned"
              /\ does \in {"user", "promote", "demote", "delete", "close", "open", "vehicle"}
                   => Admins # {} \/ server.emergency
<1>0. \A does, at, by, id : Begin(q, does, at, by, id) => does \in Handlers
  BY DEF Begin
<1>1. \E does, at, by, id : OK(does, at, by, id)
  <2>1. CASE BeginSetup(q)
    <3>1. OK("setup", "check", Emergency, 0)
      BY <1>0, <2>1, StepNames DEF BeginSetup
    <3> QED BY <3>1
  <2>2. CASE BeginAdmin(q)
    <3>1. ASSUME NEW by \in Admins \cup (IF server.emergency THEN {Emergency} ELSE {})
          PROVE  Admins # {} \/ server.emergency
      OBVIOUS
    <3>2. ASSUME NEW by \in Admins \cup (IF server.emergency THEN {Emergency} ELSE {}),
                 Begin(q, "user", "create", by, 0)
          PROVE  OK("user", "create", by, 0)
      BY <1>0, <3>1, <3>2, StepNames
    <3>3. ASSUME NEW by \in Admins \cup (IF server.emergency THEN {Emergency} ELSE {}), NEW d \in DriverIds,
                 Begin(q, "promote", "write", by, d)
          PROVE  OK("promote", "write", by, d)
      BY <1>0, <3>1, <3>3, StepNames
    <3>4. ASSUME NEW by \in Admins \cup (IF server.emergency THEN {Emergency} ELSE {}), NEW d \in DriverIds,
                 Begin(q, "demote", "look", by, d)
          PROVE  OK("demote", "look", by, d)
      BY <1>0, <3>1, <3>4, StepNames
    <3>5. ASSUME NEW by \in Admins, NEW d \in DriverIds \ {by}, Begin(q, "delete", "look", by, d)
          PROVE  OK("delete", "look", by, d)
      BY <1>0, <3>5, StepNames
    <3>6. ASSUME NEW by \in Admins, Begin(q, "close", "write", by, 0)
          PROVE  OK("close", "write", by, 0)
      BY <1>0, <3>6, StepNames
    <3>7. ASSUME NEW by \in Admins, Begin(q, "open", "write", by, 0)
          PROVE  OK("open", "write", by, 0)
      BY <1>0, <3>7, StepNames
    <3> HIDE DEF OK
    <3> QED BY <2>2, <3>2, <3>3, <3>4, <3>5, <3>6, <3>7 DEF BeginAdmin
  <2>3. CASE BeginRegister(q)
    <3>1. PICK v \in VehicleIds \cup {NoVehicle} : Begin(q, "register", "create", Emergency, v)
      BY <2>3 DEF BeginRegister
    <3>2. OK("register", "create", Emergency, v)
      BY <1>0, <3>1, StepNames
    <3> QED BY <3>2
  <2>4. CASE BeginAddVehicle(q)
    <3>1. PICK d \in DriverIds, v \in VehicleIds \cup {NoVehicle} : Begin(q, "add", "vehicle", d, v)
      BY <2>4 DEF BeginAddVehicle
    <3>2. OK("add", "vehicle", d, v)
      BY <1>0, <3>1, StepNames
    <3> QED BY <3>2
  <2>5. CASE BeginSetMain(q)
    <3>1. PICK d \in DriverIds, v \in VehicleIds : Begin(q, "setmain", "owned", d, v)
      BY <2>5 DEF BeginSetMain
    <3>2. OK("setmain", "owned", d, v)
      BY <1>0, <3>1, StepNames
    <3> QED BY <3>2
  <2>6. CASE BeginUnlink(q)
    <3>1. PICK d \in DriverIds, v \in VehicleIds : Begin(q, "unlink", "owned", d, v)
      BY <2>6 DEF BeginUnlink
    <3>2. OK("unlink", "owned", d, v)
      BY <1>0, <3>1, StepNames
    <3> QED BY <3>2
  <2>7. CASE BeginVehicleAdmin(q)
    <3>1. PICK by \in Admins, v \in VehicleIds \cup {NoVehicle} : Begin(q, "vehicle", "write", by, v)
      BY <2>7 DEF BeginVehicleAdmin
    <3>2. OK("vehicle", "write", by, v)
      BY <1>0, <3>1, StepNames
    <3> QED BY <3>2
  <2> HIDE DEF OK
  <2> QED BY <2>1, <2>2, <2>3, <2>4, <2>5, <2>6, <2>7 DEF Begins
<1>2. PICK does, at, by, id : OK(does, at, by, id)
  BY <1>1
<1>3. /\ UNCHANGED <<accounts, server>> /\ ~Busy(q)
      /\ request' = [ request EXCEPT ![q] =
           [ does |-> does, at |-> at, by |-> by, id |-> id, alone |-> TRUE,
             main |-> IF by = Emergency THEN NoVehicle ELSE drivers[by].main ] ]
  BY <1>2 DEF Begin
<1>4. DOMAIN request = Requests
  BY DEF TypeInv, ServedOK
<1>5. /\ \A p \in Requests : p # q => request'[p] = request[p]
      /\ request'[q] = [ does |-> does, at |-> at, by |-> by, id |-> id, alone |-> TRUE,
                         main |-> IF by = Emergency THEN NoVehicle ELSE drivers[by].main ]
  BY <1>3, <1>4
<1>6. /\ request'[q].at = at /\ request'[q].does = does /\ request'[q].by = by
      /\ by # Emergency => request'[q].main = drivers[by].main
  BY <1>5
<1>7. by \in DriverIds => by # Emergency
  BY DEF DriverIds, Emergency
<1> QED BY <1>2, <1>3, <1>5, <1>6, <1>7

(* CountAdmins is a number.                                                *)
LEMMA AdminsAreCounted ==
  ASSUME TypeInv
  PROVE  IsFiniteSet(Admins) /\ CountAdmins \in Nat
<1>1. Len(drivers) \in Nat
  <2>1. drivers \in Seq(RowsOf(VehicleIds))
    BY DEF TypeInv, DataOK
  <2> QED BY <2>1
<1>2. IsFiniteSet(DriverIds)
  BY <1>1, FS_Interval DEF DriverIds
<1>3. IsFiniteSet(Admins)
  BY <1>2, AdminIsDriver, FS_Subset
<1> QED BY <1>3, FS_CardinalityType DEF CountAdmins

(* A step that reads ends the request or takes it on, when the check has   *)
(* passed.                                                                 *)
LEMMA ReadsDo ==
  ASSUME TypeInv, NEW q \in Requests, Reads(q)
  PROVE  /\ UNCHANGED accounts /\ Busy(q)
         /\ \A p \in Requests : p # q => request'[p] = request[p]
         /\ \/ request'[q] = Idle /\ request[q].at # "clear" /\ server' = server
            \/ ClearSetupToken(q) /\ request'[q] = Idle /\ server' = [ server EXCEPT !.setup = FALSE ]
            \/ /\ request'[q] \in RequestsOf(DriverIds, VehicleIds) /\ server' = server
               /\ request[q].at # "clear"
               /\ request'[q].does = request[q].does /\ request'[q].by = request[q].by
               /\ request'[q].id = request[q].id /\ request'[q].main = request[q].main
               /\ request'[q].alone = request[q].alone
               /\ \/ CheckNoAdmin(q) /\ request'[q].at = "seed"
                  \/ LookAtTarget(q) /\ request'[q].at = "count"
                  \/ LookAtTarget(q) /\ request'[q].at = "write" /\ drivers[request[q].id].role # "admin"
                  \/ CheckNotLast(q) /\ request'[q].at = "write" /\ ~(CountAdmins <= 1)
                  \/ CheckOwned(q) /\ request'[q].at = "link" /\ request[q].does = "unlink" /\ NotMain(q)
                  \/ CheckOwned(q) /\ request'[q].at = "main" /\ request[q].does = "setmain"
                       /\ ListsVehicle(request[q].by, request[q].id)
                  \/ ResolveVehicle(q) /\ request'[q].at = "link" /\ request[q].does # "unlink"
<1>0. DOMAIN request = Requests
  BY DEF TypeInv, ServedOK
<1>1. ASSUME Answer(q) PROVE request'[q] = Idle /\ \A p \in Requests : p # q => request'[p] = request[p]
  BY <1>0, <1>1 DEF Answer
<1>2. ASSUME Busy(q), NEW at \in Steps, Proceed(q, at)
      PROVE  /\ request'[q] \in RequestsOf(DriverIds, VehicleIds) /\ request'[q].at = at
             /\ request'[q].does = request[q].does /\ request'[q].by = request[q].by
             /\ request'[q].id = request[q].id /\ request'[q].main = request[q].main
             /\ request'[q].alone = request[q].alone
             /\ \A p \in Requests : p # q => request'[p] = request[p]
  <2>1. request'[q] = To(q, at) /\ \A p \in Requests : p # q => request'[p] = request[p]
    BY <1>0, <1>2 DEF Proceed, To
  <2> QED BY <1>2, <2>1, StepOn
<1>3. ReadOnly => UNCHANGED accounts /\ server' = server
  BY DEF ReadOnly
<1> USE StepNames
<1>4. CASE CheckNoAdmin(q)
  <2>1. Busy(q) /\ request[q].at = "check" /\ ReadOnly /\ (Answer(q) \/ Proceed(q, "seed"))
    BY <1>4 DEF CheckNoAdmin, Doing
  <2> QED BY <1>1, <1>2, <1>3, <1>4, <2>1
<1>5. CASE ClearSetupToken(q)
  BY <1>1, <1>5 DEF ClearSetupToken, Doing
<1>6. CASE LookAtTarget(q)
  <2>1. /\ Busy(q) /\ request[q].at = "look" /\ ReadOnly
        /\ \/ Proceed(q, "count")
           \/ Proceed(q, "write") /\ drivers[request[q].id].role # "admin"
    BY <1>6 DEF LookAtTarget, Doing
  <2> QED BY <1>2, <1>3, <1>6, <2>1
<1>7. CASE CheckNotLast(q)
  <2>1. /\ Busy(q) /\ request[q].at = "count" /\ ReadOnly
        /\ \/ Answer(q)
           \/ Proceed(q, "write") /\ ~(CountAdmins <= 1)
    BY <1>7 DEF CheckNotLast, Doing
  <2> QED BY <1>1, <1>2, <1>3, <1>7, <2>1
<1>8. CASE CheckOwned(q)
  <2>1. /\ Busy(q) /\ request[q].at = "owned" /\ ReadOnly
        /\ \/ Answer(q)
           \/ Proceed(q, "link") /\ request[q].does = "unlink" /\ NotMain(q)
           \/ Proceed(q, "main") /\ request[q].does = "setmain" /\ ListsVehicle(request[q].by, request[q].id)
    BY <1>8 DEF CheckOwned, Doing
  <2> QED BY <1>1, <1>2, <1>3, <1>8, <2>1
<1>9. CASE Fail(q)
  BY <1>1, <1>3, <1>9 DEF Fail
<1>10. CASE SeedEvent(q) /\ Answer(q) /\ ReadOnly
  <2>1. Busy(q) /\ request[q].at = "seed"
    BY <1>10 DEF SeedEvent, Doing
  <2> QED BY <1>1, <1>3, <1>10, <2>1
<1>11. CASE WriteEvent(q) /\ Answer(q) /\ ReadOnly
  <2>1. Busy(q) /\ request[q].at = "write"
    BY <1>11 DEF WriteEvent, Doing
  <2> QED BY <1>1, <1>3, <1>11, <2>1
<1>12. CASE ResolveVehicle(q) /\ Proceed(q, "link") /\ ReadOnly
  <2>1. Busy(q) /\ request[q].at = "vehicle" /\ request[q].does # "unlink"
    BY <1>12 DEF ResolveVehicle, Doing
  <2> QED BY <1>2, <1>3, <1>12, <2>1
<1> QED BY <1>4, <1>5, <1>6, <1>7, <1>8, <1>9, <1>10, <1>11, <1>12 DEF Reads

(* A step that writes: every other request is not alone from then on.      *)
LEMMA WritesDo ==
  ASSUME TypeInv, NEW q \in Requests, Writes(q)
  PROVE  /\ Busy(q) /\ request[q].at # "clear" /\ server' = server
         /\ \A p \in Requests : p # q =>
              \/ request'[p] = Idle /\ ~Busy(p)
              \/ /\ Busy(p) /\ request'[p] \in RequestsOf(DriverIds, VehicleIds)
                 /\ ~request'[p].alone /\ request'[p].at = request[p].at
                 /\ request'[p].does = request[p].does /\ request'[p].by = request[p].by
                 /\ request'[p].id = request[p].id /\ request'[p].main = request[p].main
         /\ \/ /\ request'[q] = Idle
               /\ \/ CreateUser(q) \/ WriteUser(q) \/ AddEntry(q) \/ SetMainVehicle(q) \/ DeleteEntry(q)
                  \/ WriteVehicle(q)
                  \/ WriteEvent(q) /\ UNCHANGED <<seedings, drivers, vehicles, entries, server>>
            \/ /\ request'[q] # Idle /\ request'[q].does = request[q].does
               /\ request'[q].alone = request[q].alone
               /\ \/ /\ SeedEvent(q) /\ ~event /\ event' = TRUE /\ seedings' = seedings + 1
                     /\ UNCHANGED <<drivers, vehicles, entries, server>>
                     /\ request'[q].at = "create" /\ request[q].does = "setup"
                  \/ CreateAdmin(q) /\ request'[q].at = "clear" /\ request[q].does = "setup"
                  \/ Register(q) /\ request'[q].at = "vehicle" /\ request[q].does = "register"
                  \/ /\ AddEntry(q) /\ request'[q].at = "main" /\ request[q].does = "register"
                     /\ request'[q].by = request[q].by /\ request'[q].id = request[q].id
                  \/ /\ ResolveVehicle(q) /\ CreateVehicle /\ request'[q].at = "link"
                     /\ request[q].does # "unlink"
                     /\ UNCHANGED <<event, seedings, drivers, entries, server>>
<1> DEFINE Others ==
             \A p \in Requests : p # q =>
               \/ request'[p] = Idle /\ ~Busy(p)
               \/ /\ Busy(p) /\ request'[p] \in RequestsOf(DriverIds, VehicleIds)
                  /\ ~request'[p].alone /\ request'[p].at = request[p].at
                  /\ request'[p].does = request[p].does /\ request'[p].by = request[p].by
                  /\ request'[p].id = request[p].id /\ request'[p].main = request[p].main
<1> USE StepNames
<1>1. ASSUME NEW next, Wrote(q, next) PROVE request'[q] = next /\ Others
  <2>1. request'[q] = next
    BY <1>1 DEF Wrote
  <2>2. ASSUME NEW p \in Requests, p # q
        PROVE  \/ request'[p] = Idle /\ ~Busy(p)
               \/ /\ Busy(p) /\ request'[p] \in RequestsOf(DriverIds, VehicleIds)
                  /\ ~request'[p].alone /\ request'[p].at = request[p].at
                  /\ request'[p].does = request[p].does /\ request'[p].by = request[p].by
                  /\ request'[p].id = request[p].id /\ request'[p].main = request[p].main
    <3>1. CASE ~Busy(p)
      BY <1>1, <2>2, <3>1 DEF Wrote
    <3>2. CASE Busy(p)
      <4>1. request'[p] = [ request[p] EXCEPT !.alone = FALSE ]
        BY <1>1, <2>2, <3>2 DEF Wrote
      <4>2. request[p] \in RequestsOf(DriverIds, VehicleIds)
        BY <3>2, WhatARequestIs
      <4> QED BY <3>2, <4>1, <4>2 DEF RequestsOf
    <3> QED BY <3>1, <3>2
  <2> QED BY <2>1, <2>2
<1>2. ASSUME NEW at \in Steps, Busy(q)
      PROVE  /\ To(q, at) \in RequestsOf(DriverIds, VehicleIds) /\ To(q, at) # Idle
             /\ To(q, at).at = at /\ To(q, at).does = request[q].does /\ To(q, at).by = request[q].by
             /\ To(q, at).id = request[q].id /\ To(q, at).main = request[q].main
             /\ To(q, at).alone = request[q].alone
  <2>1. /\ To(q, at) \in RequestsOf(DriverIds, VehicleIds)
        /\ To(q, at).at = at /\ To(q, at).does = request[q].does /\ To(q, at).by = request[q].by
        /\ To(q, at).id = request[q].id /\ To(q, at).main = request[q].main
        /\ To(q, at).alone = request[q].alone
    BY <1>2, StepOn
  <2>2. To(q, at) # Idle
    BY <2>1 DEF RequestsOf, Idle
  <2> QED BY <2>1, <2>2
<1> HIDE DEF Others
<1>3. CASE /\ SeedEvent(q) /\ Wrote(q, To(q, "create")) /\ ~event /\ event' = TRUE /\ seedings' = seedings + 1
           /\ UNCHANGED <<drivers, vehicles, entries, server>>
  <2>1. Busy(q) /\ request[q].at = "seed" /\ request[q].does = "setup"
    BY <1>3 DEF SeedEvent, Doing
  <2>2. request'[q] = To(q, "create") /\ Others
    BY <1>1, <1>3
  <2>3. /\ request'[q].at = "create" /\ request'[q].does = request[q].does
        /\ request'[q].alone = request[q].alone /\ request'[q] # Idle
    BY <1>2, <2>1, <2>2
  <2> QED BY <1>3, <2>1, <2>2, <2>3 DEF Others
<1>4. CASE CreateAdmin(q)
  <2>1. Busy(q) /\ request[q].at = "create" /\ request[q].does = "setup" /\ server' = server
        /\ Wrote(q, To(q, "clear"))
    BY <1>4 DEF CreateAdmin, Doing
  <2> QED BY <1>1, <1>2, <1>4, <2>1 DEF Others
<1>5. CASE CreateUser(q)
  <2>1. Busy(q) /\ request[q].at = "create" /\ server' = server /\ Wrote(q, Idle)
    BY <1>5 DEF CreateUser, Doing
  <2> QED BY <1>1, <1>5, <2>1 DEF Others
<1>6. CASE WriteUser(q)
  <2>1. Busy(q) /\ request[q].at = "write" /\ server' = server /\ Wrote(q, Idle)
    BY <1>6 DEF WriteUser, Doing
  <2> QED BY <1>1, <1>6, <2>1 DEF Others
<1>7. CASE WriteEvent(q) /\ Wrote(q, Idle) /\ UNCHANGED <<seedings, drivers, vehicles, entries, server>>
  <2>1. Busy(q) /\ request[q].at = "write"
    BY <1>7 DEF WriteEvent, Doing
  <2> QED BY <1>1, <1>7, <2>1 DEF Others
<1>8. CASE Register(q)
  <2>1. Busy(q) /\ request[q].at = "create" /\ request[q].does = "register" /\ server' = server
        /\ Wrote(q, [ To(q, "vehicle") EXCEPT !.by = Len(drivers') ])
    BY <1>8 DEF Register, Doing
  <2>2. request'[q] = [ To(q, "vehicle") EXCEPT !.by = Len(drivers') ] /\ Others
    BY <1>1, <2>1
  <2>3. /\ request'[q].at = "vehicle" /\ request'[q].does = request[q].does
        /\ request'[q].alone = request[q].alone /\ request'[q] # Idle
    <3>1. /\ To(q, "vehicle") \in RequestsOf(DriverIds, VehicleIds)
          /\ To(q, "vehicle").at = "vehicle" /\ To(q, "vehicle").does = request[q].does
          /\ To(q, "vehicle").alone = request[q].alone
      BY <1>2, <2>1
    <3> QED BY <2>2, <3>1 DEF RequestsOf, Idle
  <2> QED BY <1>8, <2>1, <2>2, <2>3 DEF Others
<1>9. CASE AddEntry(q)
  <2>1. /\ Busy(q) /\ request[q].at = "link" /\ server' = server
        /\ Wrote(q, IF request[q].does = "register" THEN To(q, "main") ELSE Idle)
    BY <1>9 DEF AddEntry, Doing
  <2>2. CASE request[q].does = "register"
    <3>1. Wrote(q, To(q, "main"))
      BY <2>1, <2>2
    <3> QED BY <1>1, <1>2, <1>9, <2>1, <2>2, <3>1 DEF Others
  <2>3. CASE request[q].does # "register"
    <3>1. Wrote(q, Idle)
      BY <2>1, <2>3
    <3> QED BY <1>1, <1>9, <2>1, <3>1 DEF Others
  <2> QED BY <2>2, <2>3
<1>10. CASE SetMainVehicle(q)
  <2>1. Busy(q) /\ request[q].at = "main" /\ server' = server /\ Wrote(q, Idle)
    BY <1>10 DEF SetMainVehicle, Doing
  <2> QED BY <1>1, <1>10, <2>1 DEF Others
<1>11. CASE DeleteEntry(q)
  <2>1. Busy(q) /\ request[q].at = "link" /\ server' = server /\ Wrote(q, Idle)
    BY <1>11 DEF DeleteEntry, Doing
  <2> QED BY <1>1, <1>11, <2>1 DEF Others
<1>12. CASE WriteVehicle(q)
  <2>1. Busy(q) /\ request[q].at = "write" /\ server' = server /\ Wrote(q, Idle)
    BY <1>12 DEF WriteVehicle, Doing
  <2> QED BY <1>1, <1>12, <2>1 DEF Others
<1>13. CASE /\ ResolveVehicle(q) /\ CreateVehicle /\ Wrote(q, [ To(q, "link") EXCEPT !.id = Len(vehicles') ])
            /\ UNCHANGED <<event, seedings, drivers, entries, server>>
  <2>1. Busy(q) /\ request[q].at = "vehicle" /\ request[q].does # "unlink"
    BY <1>13 DEF ResolveVehicle, Doing
  <2>2. request'[q] = [ To(q, "link") EXCEPT !.id = Len(vehicles') ] /\ Others
    BY <1>1, <1>13
  <2>3. /\ request'[q].at = "link" /\ request'[q].does = request[q].does
        /\ request'[q].alone = request[q].alone /\ request'[q] # Idle
    <3>1. /\ To(q, "link") \in RequestsOf(DriverIds, VehicleIds)
          /\ To(q, "link").at = "link" /\ To(q, "link").does = request[q].does
          /\ To(q, "link").alone = request[q].alone
      BY <1>2, <2>1
    <3> QED BY <2>2, <3>1 DEF RequestsOf, Idle
  <2> QED BY <1>13, <2>1, <2>2, <2>3 DEF Others
<1> QED BY <1>3, <1>4, <1>5, <1>6, <1>7, <1>8, <1>9, <1>10, <1>11, <1>12, <1>13 DEF Writes

(* The administrators, where drivers is not written.                       *)
LEMMA SameAdmins ==
  ASSUME TypeInv, UNCHANGED drivers
  PROVE  Admins' = Admins
BY DEF Admins, IsAdmin, Live, DriverIds

(* CreateUser and Register add nobody to them,                             *)
LEMMA UserAdded ==
  ASSUME TypeInv, CreateDriver("user"), UNCHANGED <<vehicles, entries>>
  PROVE  Admins' = Admins
<1>1. /\ DriverIds' = DriverIds \cup {Len(drivers')} /\ Len(drivers') \notin DriverIds
      /\ drivers'[Len(drivers')] = NewDriver("user")
      /\ \A d \in DriverIds : drivers'[d] = drivers[d]
  BY DriverAdded DEF TypeInv
<1>2. NewDriver("user").role # "admin"
  BY DEF NewDriver
<1> QED BY <1>1, <1>2 DEF Admins, IsAdmin, Live

(* ... and the set-up takes nobody away.                                   *)
LEMMA AdminAdded ==
  ASSUME TypeInv, CreateDriver("admin"), UNCHANGED <<vehicles, entries>>
  PROVE  Admins \subseteq Admins'
<1>1. /\ DriverIds' = DriverIds \cup {Len(drivers')}
      /\ \A d \in DriverIds : drivers'[d] = drivers[d]
  BY DriverAdded DEF TypeInv
<1> QED BY <1>1 DEF Admins, IsAdmin, Live

(* A main vehicle is set: nobody is an administrator for it.               *)
LEMMA MainChanged ==
  ASSUME TypeInv, NEW d \in DriverIds, NEW v \in VehicleIds \cup {NoVehicle},
         drivers' = [ drivers EXCEPT ![d].main = v ], UNCHANGED vehicles
  PROVE  /\ Admins' = Admins /\ DriverIds' = DriverIds
         /\ drivers'[d].main = v
         /\ \A e \in DriverIds : e # d => drivers'[e] = drivers[e]
<1>1. drivers[d] \in RowsOf(VehicleIds)
  BY RowIs
<1>2. PICK row : row = [ drivers[d] EXCEPT !.main = v ]
  OBVIOUS
<1>3. /\ row \in RowsOf(VehicleIds) /\ row.role = drivers[d].role /\ row.deleted = drivers[d].deleted
      /\ row.main = v
  BY <1>1, <1>2 DEF RowsOf
<1>4. drivers' = [ drivers EXCEPT ![d] = row ]
  BY <1>2
<1>5. /\ DriverIds' = DriverIds /\ drivers'[d] = row
      /\ \A e \in DriverIds : e # d => drivers'[e] = drivers[e]
  BY <1>3, <1>4, DriverChanged DEF TypeInv
<1>6. Admins' = Admins
  BY <1>3, <1>5 DEF Admins, IsAdmin, Live
<1> QED BY <1>3, <1>5, <1>6

(* SetRole and DeleteDriver take away one administrator at most.           *)
LEMMA UserWritten ==
  ASSUME TypeInv, NEW q \in Requests, WriteUser(q)
  PROVE  /\ Admins \ {request[q].id} \subseteq Admins'
         /\ DriverIds' = DriverIds /\ request[q].id \in DriverIds
         /\ request[q].does = "promote" => Admins \subseteq Admins'
         /\ \A d \in DriverIds : drivers'[d].main = drivers[d].main
<1> DEFINE d == request[q].id
<1>1. Busy(q) /\ request[q].does \in {"promote", "demote", "delete"} /\ vehicles' = vehicles
  BY DEF WriteUser, Doing
<1>2. d \in DriverIds
  BY <1>1, WhatARequestIs
<1>3. drivers[d] \in RowsOf(VehicleIds)
  BY <1>2, RowIs
<1>4. PICK row : /\ row = CASE request[q].does = "promote" -> [ drivers[d] EXCEPT !.role = "admin" ]
                            [] request[q].does = "demote"  -> [ drivers[d] EXCEPT !.role = "user" ]
                            [] request[q].does = "delete"  -> [ drivers[d] EXCEPT !.deleted = TRUE ]
  OBVIOUS
<1>5. drivers' = [ drivers EXCEPT ![d] = row ]
  BY <1>4 DEF WriteUser
<1>6. /\ row \in RowsOf(VehicleIds) /\ row.main = drivers[d].main
      /\ request[q].does = "promote" => row.role = "admin" /\ row.deleted = drivers[d].deleted
  <2>1. CASE request[q].does = "promote"
    <3>1. row = [ drivers[d] EXCEPT !.role = "admin" ]
      BY <1>4, <2>1
    <3> QED BY <1>3, <2>1, <3>1 DEF RowsOf
  <2>2. CASE request[q].does = "demote"
    <3>1. row = [ drivers[d] EXCEPT !.role = "user" ]
      BY <1>4, <2>2
    <3> QED BY <1>3, <2>2, <3>1 DEF RowsOf
  <2>3. CASE request[q].does = "delete"
    <3>1. row = [ drivers[d] EXCEPT !.deleted = TRUE ]
      BY <1>4, <2>3
    <3> QED BY <1>3, <2>3, <3>1 DEF RowsOf
  <2> QED BY <1>1, <2>1, <2>2, <2>3
<1> HIDE DEF d
<1>7. /\ DriverIds' = DriverIds /\ drivers'[d] = row
      /\ \A e \in DriverIds : e # d => drivers'[e] = drivers[e]
  BY <1>1, <1>2, <1>5, <1>6, DriverChanged DEF TypeInv
<1>8. Admins \ {d} \subseteq Admins'
  BY <1>7 DEF Admins, IsAdmin, Live
<1>9. request[q].does = "promote" => Admins \subseteq Admins'
  BY <1>2, <1>6, <1>7 DEF Admins, IsAdmin, Live
<1>10. \A e \in DriverIds : drivers'[e].main = drivers[e].main
  BY <1>6, <1>7
<1> QED BY <1>2, <1>7, <1>8, <1>9, <1>10 DEF d

(* Where the count is more than one, there is another one.                 *)
LEMMA AnotherOne ==
  ASSUME TypeInv, NEW d, ~(CountAdmins <= 1)
  PROVE  \E e \in Admins : e # d
<1>1. SUFFICES ASSUME Admins \subseteq {d} PROVE FALSE
  OBVIOUS
<1>2. IsFiniteSet({d}) /\ Cardinality({d}) = 1
  BY FS_Singleton
<1>3. Cardinality(Admins) <= 1
  BY <1>1, <1>2, FS_Subset
<1>4. CountAdmins \in Nat
  BY AdminsAreCounted
<1> QED BY <1>3, <1>4 DEF CountAdmins

(* A request that may take an administrator away, and that nobody has      *)
(* written beside: it takes none, or there is another one.                 *)
LastOK(r, rows, admins) ==
  r # Idle => ( r.alone /\ r.does \in {"demote", "delete"} /\ r.at = "write" =>
                  rows[r.id].role # "admin" \/ \E e \in admins : e # r.id )
(* That is what the check on the last administrator is for,                *)
LastInv == \A q \in Requests : LastOK(request[q], drivers, Admins)

(* ... and every step keeps it.                                            *)
LEMMA NextLast == TypeInv /\ LastInv /\ [Next]_vars => LastInv'
<1> SUFFICES ASSUME TypeInv, LastInv, [Next]_vars, NEW p \in Requests
             PROVE  LastOK(request'[p], drivers', Admins')
  BY DEF LastInv
<1>0. LastOK(request[p], drivers, Admins)
  BY DEF LastInv
<1>1. CASE UNCHANGED accounts /\ request'[p] = request[p]
  <2>1. Admins' = Admins /\ drivers' = drivers
    BY <1>1, SameAdmins DEF accounts
  <2> QED BY <1>0, <1>1, <2>1
<1>2. CASE request'[p] = Idle
  BY <1>2 DEF LastOK
<1>3. CASE UNCHANGED vars
  BY <1>1, <1>3 DEF vars
<1>4. CASE Restarts
  BY <1>1, <1>2, <1>4, RestartsDo
<1>5. ASSUME NEW q \in Requests, Begins(q) PROVE LastOK(request'[p], drivers', Admins')
  <2>1. CASE p # q
    BY <1>1, <1>5, <2>1, BeginsDo
  <2>2. CASE p = q
    <3>1. request'[q].at = "write" => request'[q].does \notin {"demote", "delete"}
      BY <1>5, BeginsDo
    <3> QED BY <2>2, <3>1 DEF LastOK
  <2> QED BY <2>1, <2>2
<1>6. ASSUME NEW q \in Requests, Reads(q) PROVE LastOK(request'[p], drivers', Admins')
  <2>1. CASE p # q
    BY <1>1, <1>6, <2>1, ReadsDo
  <2>2. CASE p = q /\ request'[q].at # "write"
    BY <2>2 DEF LastOK
  <2>3. CASE p = q /\ request'[q] # Idle /\ request'[q].at = "write"
    <3>1. /\ request'[q].id = request[q].id /\ UNCHANGED accounts
          /\ \/ drivers[request[q].id].role # "admin"
             \/ ~(CountAdmins <= 1)
      BY <1>6, <2>3, ReadsDo
    <3>2. Admins' = Admins /\ drivers' = drivers
      BY <3>1, SameAdmins DEF accounts
    <3>3. drivers[request[q].id].role # "admin" \/ \E e \in Admins : e # request[q].id
      BY <3>1, AnotherOne
    <3> QED BY <2>3, <3>1, <3>2, <3>3 DEF LastOK
  <2> QED BY <1>2, <2>1, <2>2, <2>3
<1>7. ASSUME NEW q \in Requests, Writes(q) PROVE LastOK(request'[p], drivers', Admins')
  <2>1. CASE p # q
    <3>1. request'[p] = Idle \/ ~request'[p].alone
      BY <1>7, <2>1, WritesDo
    <3> QED BY <3>1 DEF LastOK
  <2>2. CASE p = q
    <3>1. request'[q] = Idle \/ request'[q].at \in {"create", "clear", "vehicle", "main", "link"}
      BY <1>7, WritesDo
    <3> QED BY <2>2, <3>1 DEF LastOK
  <2> QED BY <2>1, <2>2
<1> QED BY <1>3, <1>4, <1>5, <1>6, <1>7, StepsOfNext

(* The last administrator goes only by a request that was overtaken.       *)
LEMMA LastStep ==
  ASSUME TypeInv, LastInv, Next, Admins # {}, Admins' = {}
  PROVE  \E q \in Requests : Busy(q) /\ request'[q] = Idle /\ ~request[q].alone
<1>1. UNCHANGED accounts => Admins' = Admins
  BY SameAdmins DEF accounts
<1>2. PICK q \in Requests : Writes(q)
  <2>1. UNCHANGED vars => UNCHANGED accounts
    BY DEF vars
  <2>2. ASSUME NEW q \in Requests, Begins(q) \/ Reads(q) PROVE UNCHANGED accounts
    BY <2>2, BeginsDo, ReadsDo
  <2> QED BY <1>1, <2>1, <2>2, RestartsDo, StepsOfNext
<1>3. Busy(q)
  BY <1>2, WritesDo
<1>4. ~(Admins \subseteq Admins')
  OBVIOUS
<1>5. drivers' # drivers
  BY SameAdmins
<1>6. ~SetMainVehicle(q) /\ ~AddEntry(q)
  <2>1. ASSUME SetMainVehicle(q) PROVE FALSE
    <3>1. /\ drivers' = [ drivers EXCEPT ![request[q].by].main = request[q].id ] /\ vehicles' = vehicles
          /\ request[q].by \in DriverIds /\ request[q].id \in VehicleIds
      BY <2>1, WhatARequestIs DEF SetMainVehicle, Doing
    <3> QED BY <1>4, <3>1, MainChanged
  <2>2. ASSUME AddEntry(q) PROVE FALSE
    <3>1. /\ drivers' = [ drivers EXCEPT ![request[q].by].main = MainAfterEntry(request[q].by, request[q].id) ]
          /\ vehicles' = vehicles
          /\ request[q].by \in DriverIds /\ request[q].id \in VehicleIds
      BY <2>2, WhatARequestIs DEF AddEntry, Doing
    <3>2. MainAfterEntry(request[q].by, request[q].id) \in VehicleIds \cup {NoVehicle}
      <4>1. drivers[request[q].by] \in RowsOf(VehicleIds)
        BY <3>1, RowIs
      <4> QED BY <3>1, <4>1 DEF MainAfterEntry, MainOf, RowsOf
    <3> QED BY <1>4, <3>1, <3>2, MainChanged
  <2> QED BY <2>1, <2>2
<1>7. ~CreateUser(q) /\ ~Register(q) /\ ~CreateAdmin(q)
  BY <1>4, UserAdded, AdminAdded DEF CreateUser, Register, CreateAdmin
<1>8. WriteUser(q)
  BY <1>2, <1>5, <1>6, <1>7 DEF Writes, DeleteEntry, WriteVehicle
<1>9. request'[q] = Idle
  BY <1>8 DEF WriteUser, Wrote
<1>10. ~request[q].alone
  <2> SUFFICES ASSUME request[q].alone PROVE FALSE
    OBVIOUS
  <2>1. request[q].does \in {"demote", "delete"} /\ request[q].at = "write"
    <3>1. request[q].does \in {"promote", "demote", "delete"} /\ request[q].at = "write"
      BY <1>8 DEF WriteUser, Doing
    <3> QED BY <1>4, <1>8, <3>1, UserWritten
  <2>2. drivers[request[q].id].role # "admin" \/ \E e \in Admins : e # request[q].id
    <3>1. LastOK(request[q], drivers, Admins)
      BY DEF LastInv
    <3> QED BY <1>3, <2>1, <3>1 DEF LastOK, Busy
  <2>3. Admins \ {request[q].id} \subseteq Admins'
    BY <1>8, UserWritten
  <2>4. drivers[request[q].id].role # "admin" => request[q].id \notin Admins
    BY DEF Admins, IsAdmin
  <2> QED BY <1>4, <2>2, <2>3, <2>4
<1> QED BY <1>3, <1>9, <1>10

-----------------------------------------------------------------------------
(* A request about a main vehicle, and that nobody has written beside: the *)
(* vehicle that it is about to make the main one is the driver's own, and  *)
(* the one whose link it is about to remove is not the main one.           *)
OwnOK(r, rows, links) ==
  r # Idle =>
    /\ r.alone /\ r.at = "main" => <<r.by, r.id>> \in links
    /\ r.does = "unlink" => r.at \in {"owned", "link"}
    /\ r.alone /\ r.does = "unlink" => r.main = rows[r.by].main
    /\ r.does = "unlink" /\ r.at = "link" => r.main # r.id
(* That is what the checks of ownership are for,                           *)
OwnInv == \A q \in Requests : OwnOK(request[q], drivers, entries)

(* ... and every step keeps it.                                            *)
LEMMA NextOwn == TypeInv /\ OwnInv /\ [Next]_vars => OwnInv'
<1> SUFFICES ASSUME TypeInv, OwnInv, [Next]_vars, NEW p \in Requests
             PROVE  OwnOK(request'[p], drivers', entries')
  BY DEF OwnInv
<1>0. OwnOK(request[p], drivers, entries)
  BY DEF OwnInv
<1>1. CASE UNCHANGED accounts /\ request'[p] = request[p]
  BY <1>0, <1>1 DEF accounts
<1>2. CASE request'[p] = Idle
  BY <1>2 DEF OwnOK
<1>3. CASE UNCHANGED vars
  BY <1>1, <1>3 DEF vars
<1>4. CASE Restarts
  BY <1>1, <1>2, <1>4, RestartsDo
<1>5. ASSUME NEW q \in Requests, Begins(q) PROVE OwnOK(request'[p], drivers', entries')
  <2>1. CASE p # q
    BY <1>1, <1>5, <2>1, BeginsDo
  <2>2. CASE p = q
    <3>1. /\ request'[q].at \notin {"link", "main"}
          /\ request'[q].does = "unlink" => /\ request'[q].at = "owned"
                                            /\ request'[q].main = drivers[request'[q].by].main
      BY <1>5, BeginsDo
    <3>2. drivers' = drivers
      BY <1>5, BeginsDo DEF accounts
    <3> QED BY <2>2, <3>1, <3>2 DEF OwnOK
  <2> QED BY <2>1, <2>2
<1>6. ASSUME NEW q \in Requests, Reads(q) PROVE OwnOK(request'[p], drivers', entries')
  <2>1. CASE p # q
    BY <1>1, <1>6, <2>1, ReadsDo
  <2>2. CASE p = q /\ request'[q] # Idle
    <3>1. /\ Busy(q) /\ drivers' = drivers /\ entries' = entries
          /\ request'[q].does = request[q].does /\ request'[q].by = request[q].by
          /\ request'[q].id = request[q].id /\ request'[q].main = request[q].main
          /\ request'[q].alone = request[q].alone
      BY <1>6, <2>2, ReadsDo DEF accounts
    <3>2. \/ request'[q].at \in {"seed", "count", "write"} /\ request[q].does \in {"setup", "demote", "delete"}
          \/ request'[q].at = "link" /\ request[q].does = "unlink" /\ request[q].main # request[q].id
          \/ /\ request'[q].at = "main" /\ request[q].does = "setmain"
             /\ <<request[q].by, request[q].id>> \in entries
          \/ request'[q].at = "link" /\ request[q].does # "unlink"
      BY <1>6, <2>2, ReadsDo
         DEF CheckNoAdmin, LookAtTarget, CheckNotLast, Doing, NotMain, ListsVehicle, Owns
    <3> QED BY <1>0, <2>2, <3>1, <3>2 DEF OwnOK, Busy
  <2> QED BY <1>2, <2>1, <2>2
<1>7. ASSUME NEW q \in Requests, Writes(q) PROVE OwnOK(request'[p], drivers', entries')
  <2>1. CASE p # q /\ request'[p] # Idle
    <3>1. /\ Busy(p) /\ ~request'[p].alone /\ request'[p].at = request[p].at
          /\ request'[p].does = request[p].does
          /\ request'[p].main = request[p].main /\ request'[p].id = request[p].id
      BY <1>7, <2>1, WritesDo
    <3> QED BY <1>0, <3>1 DEF OwnOK, Busy
  <2>2. CASE p = q /\ request'[q] # Idle
    <3>1. \/ request'[q].at \in {"create", "clear", "vehicle"} /\ request'[q].does # "unlink"
          \/ request'[q].at = "link" /\ request'[q].does # "unlink"
          \/ /\ AddEntry(q) /\ request'[q].at = "main" /\ request'[q].does # "unlink"
             /\ request'[q].by = request[q].by /\ request'[q].id = request[q].id
      BY <1>7, <2>2, WritesDo
    <3>2. AddEntry(q) => <<request[q].by, request[q].id>> \in entries'
      BY DEF AddEntry
    <3> QED BY <2>2, <3>1, <3>2 DEF OwnOK
  <2> QED BY <1>2, <2>1, <2>2
<1> QED BY <1>3, <1>4, <1>5, <1>6, <1>7, StepsOfNext

(* A main vehicle that is none, one of the driver's own, or what it was.   *)
LEMMA StrayKept ==
  ASSUME \A d \in DriverIds' :
           \/ drivers'[d].main = NoVehicle
           \/ <<d, drivers'[d].main>> \in entries'
           \/ /\ d \in DriverIds /\ drivers'[d].main = drivers[d].main
              /\ <<d, drivers[d].main>> \in entries => <<d, drivers[d].main>> \in entries'
  PROVE  Stray' \subseteq Stray
BY DEF Stray, MainOf, Owns

(* A main vehicle that is not the driver's own comes by a request that was *)
(* overtaken only.                                                         *)
LEMMA MainStep ==
  ASSUME TypeInv, OwnInv, Next
  PROVE  \/ Stray' \subseteq Stray
         \/ \E q \in Requests : Busy(q) /\ request'[q] = Idle /\ ~request[q].alone
<1>1. CASE UNCHANGED accounts
  BY <1>1, StrayKept DEF accounts, DriverIds
<1>2. ASSUME NEW q \in Requests, Writes(q)
      PROVE  \/ Stray' \subseteq Stray
             \/ Busy(q) /\ request'[q] = Idle /\ ~request[q].alone
  <2>0. Busy(q) /\ OwnOK(request[q], drivers, entries)
    BY <1>2, WritesDo DEF OwnInv
  <2>1. CASE UNCHANGED <<drivers, entries>>
    BY <2>1, StrayKept DEF DriverIds
  <2>2. ASSUME NEW role \in {"user", "admin"}, CreateDriver(role), UNCHANGED <<vehicles, entries>>
        PROVE  Stray' \subseteq Stray
    <3>1. /\ DriverIds' = DriverIds \cup {Len(drivers')}
          /\ drivers'[Len(drivers')] = NewDriver(role)
          /\ \A d \in DriverIds : drivers'[d] = drivers[d]
      BY <2>2, DriverAdded DEF TypeInv
    <3>2. NewDriver(role).main = NoVehicle /\ entries' = entries
      BY <2>2 DEF NewDriver
    <3> QED BY <3>1, <3>2, StrayKept
  <2>3. CASE WriteUser(q)
    <3>1. DriverIds' = DriverIds /\ entries' = entries
          /\ \A d \in DriverIds : drivers'[d].main = drivers[d].main
      BY <2>3, UserWritten DEF WriteUser
    <3> QED BY <3>1, StrayKept
  <2>4. CASE AddEntry(q)
    <3> DEFINE d == request[q].by
               v == request[q].id
    <3>1. /\ drivers' = [ drivers EXCEPT ![d].main = MainAfterEntry(d, v) ] /\ vehicles' = vehicles
          /\ entries' = entries \cup {<<d, v>>}
          /\ d \in DriverIds /\ v \in VehicleIds
      BY <2>4, WhatARequestIs DEF AddEntry, Doing
    <3>2. MainAfterEntry(d, v) = v \/ MainAfterEntry(d, v) = drivers[d].main
      BY DEF MainAfterEntry, MainOf
    <3>3. MainAfterEntry(d, v) \in VehicleIds \cup {NoVehicle}
      <4>1. drivers[d] \in RowsOf(VehicleIds)
        BY <3>1, RowIs
      <4> QED BY <3>1, <3>2, <4>1 DEF RowsOf
    <3> HIDE DEF d, v
    <3>4. /\ DriverIds' = DriverIds /\ drivers'[d].main = MainAfterEntry(d, v)
          /\ \A e \in DriverIds : e # d => drivers'[e] = drivers[e]
      BY <3>1, <3>3, MainChanged
    <3> QED BY <3>1, <3>2, <3>4, StrayKept
  <2>5. CASE SetMainVehicle(q) /\ request[q].alone
    <3> DEFINE d == request[q].by
               v == request[q].id
    <3>1. /\ drivers' = [ drivers EXCEPT ![d].main = v ] /\ vehicles' = vehicles /\ entries' = entries
          /\ d \in DriverIds /\ v \in VehicleIds /\ request[q].at = "main"
      BY <2>5, WhatARequestIs DEF SetMainVehicle, Doing
    <3>2. <<d, v>> \in entries
      BY <2>0, <2>5, <3>1 DEF OwnOK, Busy
    <3> HIDE DEF d, v
    <3>3. /\ DriverIds' = DriverIds /\ drivers'[d].main = v
          /\ \A e \in DriverIds : e # d => drivers'[e] = drivers[e]
      BY <3>1, MainChanged
    <3> QED BY <3>1, <3>2, <3>3, StrayKept
  <2>6. CASE DeleteEntry(q) /\ request[q].alone
    <3>1. /\ entries' = entries \ {<<request[q].by, request[q].id>>} /\ drivers' = drivers
          /\ request[q].does = "unlink" /\ request[q].at = "link"
      BY <2>6 DEF DeleteEntry, Doing
    <3>2. drivers[request[q].by].main # request[q].id
      BY <2>0, <2>6, <3>1 DEF OwnOK, Busy
    <3>3. DriverIds' = DriverIds
      BY <3>1 DEF DriverIds
    <3>4. \A d \in DriverIds : <<d, drivers[d].main>> \in entries => <<d, drivers[d].main>> \in entries'
      BY <3>1, <3>2
    <3> QED BY <3>1, <3>3, <3>4, StrayKept
  <2>7. SetMainVehicle(q) \/ DeleteEntry(q) => request'[q] = Idle
    BY DEF SetMainVehicle, DeleteEntry, Wrote
  <2>8. WriteVehicle(q) => UNCHANGED <<drivers, entries>>
    BY DEF WriteVehicle
  <2>9. CreateAdmin(q) => CreateDriver("admin") /\ UNCHANGED <<vehicles, entries>>
    BY DEF CreateAdmin
  <2>10. CreateUser(q) \/ Register(q) => CreateDriver("user") /\ UNCHANGED <<vehicles, entries>>
    BY DEF CreateUser, Register
  <2> QED BY <1>2, <2>0, <2>1, <2>2, <2>3, <2>4, <2>5, <2>6, <2>7, <2>8, <2>9, <2>10 DEF Writes
<1>3. ASSUME NEW q \in Requests, Begins(q) \/ Reads(q) PROVE UNCHANGED accounts
  BY <1>3, BeginsDo, ReadsDo
<1>4. UNCHANGED vars => UNCHANGED accounts
  BY DEF vars
<1> QED BY <1>1, <1>2, <1>3, <1>4, RestartsDo, StepsOfNext

-----------------------------------------------------------------------------
(* What an administrator asks for.                                         *)
AdminsOnly == {"user", "promote", "demote", "delete", "close", "open", "vehicle"}

(* A set-up that has only to withdraw the token;                           *)
Clearing(r) == r # Idle /\ r.does = "setup" /\ r.at = "clear"
Opened      == server.setup /\ \A q \in Requests : ~Clearing(request[q])

(* Until then there is no administrator and no request of one, so nobody   *)
(* can have closed the event that the first set-up made.                   *)
SeedOK ==
  /\ seedings = 0 => ~event
  /\ Opened /\ seedings > 0 => event
  /\ seedings = 0 \/ Opened =>
       /\ Admins = {} /\ ~server.emergency
       /\ \A q \in Requests : request[q] # Idle => request[q].does \notin AdminsOnly
  /\ \A q \in Requests : request[q] # Idle =>
       (request[q].does = "setup" /\ request[q].at \in {"create", "clear"} => seedings > 0)

(* The three invariants at the start.                                      *)
LEMMA InitSeed == Init => LastInv /\ OwnInv /\ SeedOK
<1> SUFFICES ASSUME Init PROVE LastInv /\ OwnInv /\ SeedOK
  OBVIOUS
<1>1. \A q \in Requests : request[q] = Idle
  BY DEF Init
<1>2. server.setup = FALSE /\ server.emergency = FALSE
  BY DEF Init, NoTokens
<1>3. seedings = 0 => ~event /\ Admins = {}
  <2> SUFFICES ASSUME seedings = 0 PROVE ~event /\ Admins = {}
    OBVIOUS
  <2>1. event = FALSE /\ drivers = <<>>
    BY DEF Init
  <2>2. DriverIds = {}
    BY <2>1 DEF DriverIds
  <2> QED BY <2>1, <2>2 DEF Admins
<1> QED BY <1>1, <1>2, <1>3 DEF LastInv, LastOK, OwnInv, OwnOK, SeedOK, Opened

(* Every step keeps the last one.                                          *)
LEMMA NextSeed == TypeInv /\ SeedOK /\ [Next]_vars => SeedOK'
<1> SUFFICES ASSUME TypeInv, SeedOK, [Next]_vars PROVE SeedOK'
  OBVIOUS
<1>0. seedings \in 0 .. 2 /\ server \in [ setup : BOOLEAN, emergency : BOOLEAN ]
  BY DEF TypeInv, DataOK, ServedOK
<1>1. UNCHANGED accounts => Admins' = Admins /\ seedings' = seedings /\ event' = event
  BY SameAdmins DEF accounts
<1>2. CASE UNCHANGED accounts /\ server' = server /\ request' = request
  <2>1. Opened' <=> Opened
    BY <1>2 DEF Opened
  <2> QED BY <1>1, <1>2, <2>1 DEF SeedOK
<1>3. CASE UNCHANGED accounts /\ server' = NoTokens /\ request' = [ q \in Requests |-> Idle ]
  <2>1. ~Opened' /\ ~server'.emergency
    BY <1>3 DEF Opened, NoTokens
  <2>2. \A q \in Requests : request'[q] = Idle
    BY <1>3
  <2> QED BY <1>1, <1>3, <2>1, <2>2 DEF SeedOK
<1>4. CASE /\ UNCHANGED accounts /\ server' = [ setup |-> seedings = 0, emergency |-> seedings > 0 ]
           /\ ~Up /\ request' = request
  <2>1. \A q \in Requests : request'[q] = Idle
    BY <1>4 DEF TypeInv, ServedOK, Busy
  <2>2. (server'.setup <=> seedings = 0) /\ (server'.emergency <=> seedings > 0)
    BY <1>4
  <2>3. Opened' => seedings = 0
    BY <2>2 DEF Opened
  <2> QED BY <1>1, <1>4, <2>1, <2>2, <2>3 DEF SeedOK
<1>5. ASSUME NEW q \in Requests, Begins(q) PROVE SeedOK'
  <2>1. UNCHANGED <<accounts, server>> /\ ~Busy(q) /\ \A p \in Requests : p # q => request'[p] = request[p]
    BY <1>5, BeginsDo
  <2>2. /\ request'[q].at # "clear"
        /\ request'[q].does = "setup" => request'[q].at # "create"
        /\ request'[q].does \in AdminsOnly => Admins # {} \/ server.emergency
    BY <1>5, BeginsDo DEF AdminsOnly
  <2>3. Opened' <=> Opened
    BY <2>1, <2>2 DEF Opened, Clearing, Busy
  <2> QED BY <1>1, <2>1, <2>2, <2>3 DEF SeedOK
<1>6. ASSUME NEW q \in Requests, Reads(q) PROVE SeedOK'
  <2>1. UNCHANGED accounts /\ Busy(q) /\ \A p \in Requests : p # q => request'[p] = request[p]
    BY <1>6, ReadsDo
  <2>2. \/ request'[q] = Idle /\ request[q].at # "clear" /\ server' = server
        \/ request'[q] = Idle /\ server' = [ server EXCEPT !.setup = FALSE ]
        \/ /\ server' = server /\ request[q].at # "clear" /\ request'[q].does = request[q].does
           /\ request'[q].at \notin {"create", "clear"}
    BY <1>6, ReadsDo
  <2>3. /\ server'.emergency = server.emergency
        /\ Opened' => Opened
    <3>1. CASE server' = server /\ request[q].at # "clear"
      BY <2>1, <3>1 DEF Opened, Clearing
    <3>2. CASE server' = [ server EXCEPT !.setup = FALSE ]
      BY <1>0, <3>2 DEF Opened
    <3> QED BY <2>2, <3>1, <3>2
  <2>4. \A p \in Requests : request'[p] # Idle =>
          /\ request[p] # Idle /\ request'[p].does = request[p].does
          /\ request'[p].at \in {"create", "clear"} => request'[p].at = request[p].at
    BY <2>1, <2>2 DEF Busy
  <2> QED BY <1>1, <2>1, <2>3, <2>4 DEF SeedOK
<1>7. ASSUME NEW q \in Requests, Writes(q) PROVE SeedOK'
  <2>1. /\ Busy(q) /\ request[q].at # "clear" /\ server' = server
        /\ \A p \in Requests : p # q =>
             \/ request'[p] = Idle /\ ~Busy(p)
             \/ Busy(p) /\ request'[p].at = request[p].at /\ request'[p].does = request[p].does
        /\ request'[q] = Idle \/ request'[q].does = request[q].does
    BY <1>7, WritesDo
  <2>2. Opened' => Opened
    <3> SUFFICES ASSUME Opened', NEW p \in Requests, Clearing(request[p]) PROVE FALSE
      BY <2>1 DEF Opened
    <3>1. ~Clearing(request'[p])
      BY DEF Opened
    <3> QED BY <2>1, <3>1 DEF Clearing, Busy, Idle
  <2>3. \A p \in Requests : request'[p] # Idle => request[p] # Idle /\ request'[p].does = request[p].does
    BY <2>1 DEF Busy
  <2>4. \A p \in Requests : p # q /\ request'[p] # Idle => request'[p].at = request[p].at
    BY <2>1 DEF Busy
  <2>5. CASE request[q].does \in AdminsOnly /\ seedings' = seedings /\ request'[q] = Idle
    <3>1. seedings # 0 /\ ~Opened
      BY <2>1, <2>5 DEF SeedOK, Busy
    <3> QED BY <2>1, <2>2, <2>3, <2>4, <2>5, <3>1 DEF SeedOK
  <2>6. CASE /\ Admins' = Admins /\ UNCHANGED <<event, seedings>>
             /\ request'[q] = Idle \/ request'[q].at \notin {"create", "clear"}
    BY <2>1, <2>2, <2>3, <2>4, <2>6 DEF SeedOK
  <2>7. CASE /\ SeedEvent(q) /\ event' = TRUE /\ seedings' = seedings + 1
             /\ UNCHANGED <<drivers, vehicles, entries, server>>
    <3>1. Admins' = Admins /\ seedings' > 0 /\ seedings' # 0
      BY <1>0, <2>7, SameAdmins
    <3> QED BY <2>1, <2>2, <2>3, <2>7, <3>1 DEF SeedOK
  <2>8. CASE CreateAdmin(q) /\ request'[q].at = "clear" /\ request[q].does = "setup" /\ request'[q] # Idle
    <3>1. request[q].at = "create" /\ seedings' = seedings /\ event' = event
      BY <2>8 DEF CreateAdmin, Doing
    <3>2. seedings > 0 /\ seedings # 0
      BY <1>0, <2>1, <2>8, <3>1 DEF SeedOK, Busy
    <3>3. ~Opened'
      BY <2>1, <2>8 DEF Opened, Clearing
    <3> QED BY <2>3, <2>4, <3>1, <3>2, <3>3 DEF SeedOK
  <2>9. CASE CreateUser(q) \/ WriteUser(q) \/ WriteVehicle(q) \/ WriteEvent(q)
    <3>1. request[q].does \in AdminsOnly /\ seedings' = seedings
      BY <2>9 DEF CreateUser, WriteUser, WriteVehicle, WriteEvent, ReadOnly, accounts, Doing, AdminsOnly
    <3>2. request'[q] = Idle
      <4>1. Wrote(q, Idle) \/ Answer(q)
        BY <2>9 DEF CreateUser, WriteUser, WriteVehicle, WriteEvent
      <4>2. DOMAIN request = Requests
        BY DEF TypeInv, ServedOK
      <4> QED BY <4>1, <4>2 DEF Wrote, Answer
    <3> QED BY <2>5, <3>1, <3>2
  <2>10. CASE SetMainVehicle(q) \/ AddEntry(q)
    <3>1. UNCHANGED <<event, seedings>>
      BY <2>10 DEF SetMainVehicle, AddEntry
    <3>2. Admins' = Admins
      <4>1. CASE SetMainVehicle(q)
        <5>1. /\ drivers' = [ drivers EXCEPT ![request[q].by].main = request[q].id ] /\ vehicles' = vehicles
              /\ request[q].by \in DriverIds /\ request[q].id \in VehicleIds
          BY <4>1, WhatARequestIs DEF SetMainVehicle, Doing
        <5> QED BY <5>1, MainChanged
      <4>2. CASE AddEntry(q)
        <5>1. /\ drivers' = [ drivers EXCEPT ![request[q].by].main = MainAfterEntry(request[q].by, request[q].id) ]
              /\ vehicles' = vehicles
              /\ request[q].by \in DriverIds /\ request[q].id \in VehicleIds
          BY <4>2, WhatARequestIs DEF AddEntry, Doing
        <5>2. MainAfterEntry(request[q].by, request[q].id) \in VehicleIds \cup {NoVehicle}
          <6>1. drivers[request[q].by] \in RowsOf(VehicleIds)
            BY <5>1, RowIs
          <6> QED BY <5>1, <6>1 DEF MainAfterEntry, MainOf, RowsOf
        <5> QED BY <5>1, <5>2, MainChanged
      <4> QED BY <2>10, <4>1, <4>2
    <3>3. request'[q] = Idle \/ request'[q].at = "main"
      <4>1. Wrote(q, Idle) \/ Wrote(q, To(q, "main"))
        BY <2>10 DEF SetMainVehicle, AddEntry
      <4>2. To(q, "main").at = "main"
        BY <2>1, StepNames, StepOn
      <4> QED BY <4>1, <4>2 DEF Wrote
    <3> QED BY <2>6, <3>1, <3>2, <3>3
  <2>11. CASE DeleteEntry(q)
    <3>1. UNCHANGED <<event, seedings, drivers>> /\ request'[q] = Idle
      BY <2>11 DEF DeleteEntry, Wrote
    <3> QED BY <2>6, <3>1, SameAdmins
  <2>12. CASE Register(q) /\ request'[q].at = "vehicle"
    <3>1. UNCHANGED <<event, seedings>> /\ Admins' = Admins
      BY <2>12, UserAdded DEF Register
    <3> QED BY <2>6, <2>12, <3>1
  <2>13. CASE UNCHANGED <<event, seedings, drivers>> /\ request'[q].at = "link"
    BY <2>6, <2>13, SameAdmins
  <2>14. CASE request'[q] = Idle
    BY <1>7, <2>9, <2>10, <2>11, <2>14, WritesDo
  <2>15. CASE request'[q] # Idle
    BY <1>7, <2>7, <2>8, <2>10, <2>12, <2>13, <2>15, WritesDo
  <2> QED BY <2>14, <2>15
<1>8. UNCHANGED vars => UNCHANGED accounts /\ server' = server /\ request' = request
  BY DEF vars
<1> QED BY <1>2, <1>3, <1>4, <1>5, <1>6, <1>7, <1>8, RestartsDo, StepsOfNext

(* So a database that has been seeded is not seeded again before that.     *)
LEMMA SeedStep ==
  ASSUME TypeInv, SeedOK, Next, seedings' > seedings, seedings > 0
  PROVE  ~server.setup \/ \E p \in Requests : Doing(p, {"setup"}, "clear")
<1>0. seedings \in 0 .. 2
  BY DEF TypeInv, DataOK
<1>1. UNCHANGED seedings => FALSE
  BY <1>0
<1>2. PICK q \in Requests : Writes(q)
  <2>1. UNCHANGED vars \/ UNCHANGED accounts => UNCHANGED seedings
    BY DEF vars, accounts
  <2>2. ASSUME NEW q \in Requests, Begins(q) \/ Reads(q) PROVE UNCHANGED accounts
    BY <2>2, BeginsDo, ReadsDo
  <2> QED BY <1>1, <2>1, <2>2, RestartsDo, StepsOfNext
<1>3. ~event
  BY <1>1, <1>2 DEF Writes, CreateAdmin, CreateUser, WriteUser, Register, AddEntry, SetMainVehicle,
     DeleteEntry, WriteVehicle
<1>4. ~Opened
  BY <1>3 DEF SeedOK
<1> QED BY <1>4 DEF Opened, Clearing, Doing, Busy

(* The last administrator is lost only by requests that overlap, on any    *)
(* number of drivers (handleAdminUserRole, handleAdminUserDelete).         *)
THEOREM LastAdministratorStays == Spec => LastAdminStays
<1>1. Spec => [](TypeInv /\ LastInv)
  <2>1. Init => TypeInv /\ LastInv
    BY InitTypes, InitSeed
  <2> QED BY <2>1, NextTypes, NextLast, PTL DEF Spec
<1>2. TypeInv /\ LastInv /\ [Next]_vars =>
        [ Admins # {} /\ Admins' = {} =>
            \E q \in Requests : Busy(q) /\ request'[q] = Idle /\ ~request[q].alone ]_vars
  BY LastStep
<1> QED BY <1>1, <1>2, PTL DEF Spec, LastAdminStays

(* The main vehicle of a driver is one of the driver's own, unless         *)
(* requests overlap (AddEntry, handleSetMainVehicle,                       *)
(* handleDeleteMyVehicle).                                                 *)
THEOREM MainVehicleIsOwn == Spec => MainIsOwn
<1>1. Spec => [](TypeInv /\ OwnInv)
  <2>1. Init => TypeInv /\ OwnInv
    BY InitTypes, InitSeed
  <2> QED BY <2>1, NextTypes, NextOwn, PTL DEF Spec
<1>2. TypeInv /\ OwnInv /\ [Next]_vars =>
        [ Stray' \subseteq Stray \/
            \E q \in Requests : Busy(q) /\ request'[q] = Idle /\ ~request[q].alone ]_vars
  BY MainStep
<1> QED BY <1>1, <1>2, PTL DEF Spec, MainIsOwn

(* A database is seeded a second time only beside a set-up that has gone   *)
(* through and withdraws the token, or has withdrawn it (NewServer,        *)
(* handleAPISetup).                                                        *)
THEOREM DatabaseIsSetUpOnce == Spec => SetUpOnce
<1>1. Spec => [](TypeInv /\ SeedOK)
  <2>1. Init => TypeInv /\ SeedOK
    BY InitTypes, InitSeed
  <2> QED BY <2>1, NextTypes, NextSeed, PTL DEF Spec
<1>2. TypeInv /\ SeedOK /\ [Next]_vars =>
        [ seedings' > seedings /\ seedings > 0 =>
            ~server.setup \/ \E p \in Requests : Doing(p, {"setup"}, "clear") ]_vars
  BY SeedStep
<1> QED BY <1>1, <1>2, PTL DEF Spec, SetUpOnce
=============================================================================
