------------------------------- MODULE Database -------------------------------
(***************************************************************************)
(* The database file and the way a server start takes to it:               *)
(* internal/store/store.go (Open), schema.go and migrate.go.               *)
(*                                                                         *)
(* Each statement outside a transaction commits on its own, and the        *)
(* process may die between any two of them.  Of the columns, those are     *)
(* modelled that a migration step touches; the value of one is that of the *)
(* row of interest, a lockout in ms under either name.                     *)
(***************************************************************************)
EXTENDS Integers, FiniteSets, TLC

VARIABLES
  file,           \* the database: tables, columns, version, and two facts of it
  process         \* how far the start of the server has come

Latest         == 2       \* len(migrations)
DefaultLockout == 10000
OldLockout     == 500     \* what the operator of an older version had chosen
OldIcon        == 7       \* the icon_rev of an icon of version 1

Columns  == {"icon_rev", "sensor_lockout_ms", "sensor_lockout_sec"}
Absent   == -1
HasColumn(cols, c) == cols[c] # Absent
NoColumn == [ c \in Columns |-> Absent ]

(* `made' tells whether an older version has made the file, and `icon'     *)
(* whether the row has an icon: nothing in the program reads them.         *)
NoFile == [ tables |-> "none", columns |-> NoColumn, version |-> 0,
            made |-> "now", icon |-> FALSE ]

(* What each version leaves behind.                                        *)
ShapeOf(version) ==
  [ c \in Columns |->
      CASE c = "icon_rev" -> IF version >= 1 THEN OldIcon ELSE Absent
        [] c = "sensor_lockout_ms" -> IF version < 2 THEN OldLockout ELSE Absent
        [] c = "sensor_lockout_sec" -> IF version >= 2 THEN OldLockout ELSE Absent ]

FileOf(version) == [ tables |-> "all", columns |-> ShapeOf(version), version |-> version,
                     made |-> "before", icon |-> TRUE ]

Stages == {"down", "schema", "version", "migrate", "refused", "opened", "up"}
Down   == [ at |-> "down", existed |-> FALSE ]
Up     == process.at = "up"

DatabaseTypeOK ==
  /\ file \in [ tables : {"none", "some", "all"},
                columns : [ Columns -> {Absent, 0, 1, OldIcon, OldLockout, DefaultLockout} ],
                version : 0 .. Latest, made : {"now", "before"}, icon : BOOLEAN ]
  /\ process \in [ at : Stages, existed : BOOLEAN ]

GoTo(stage) == process' = [ process EXCEPT !.at = stage ]

-----------------------------------------------------------------------------
(* Open: tableExists("events"), before anything is made.                   *)
Open ==
  /\ process.at = "down"
  /\ process' = [ at |-> "schema", existed |-> file.tables # "none" ]
  /\ UNCHANGED file

(* schemaSQL, one CREATE TABLE IF NOT EXISTS after the other: events comes *)
(* first.  A table that is there keeps the columns it has.                 *)
CreateTable ==
  /\ process.at = "schema"
  /\ \/ /\ file.tables = "none"
        /\ file' = [ file EXCEPT !.tables = "some",
                                 !.columns["sensor_lockout_sec"] = DefaultLockout ]
        /\ UNCHANGED process
     \/ /\ file.tables = "some"
        /\ file' = [ file EXCEPT !.tables = "all", !.columns["icon_rev"] = 0 ]
        /\ UNCHANGED process
     \/ /\ file.tables = "all"
        /\ GoTo("version")
        /\ UNCHANGED file

(* setSchemaVersion: a database that did not exist is born at the latest.  *)
Stamp ==
  /\ process.at = "version" /\ ~process.existed
  /\ file' = [ file EXCEPT !.version = Latest ]
  /\ GoTo("opened")

(* applyMigrations: nothing is pending, or a backup comes first; the start *)
(* fails with it.                                                          *)
CheckVersion ==
  /\ process.at = "version" /\ process.existed
  /\ IF file.version = Latest THEN GoTo("opened") ELSE GoTo("migrate") \/ process' = Down
  /\ UNCHANGED file

-----------------------------------------------------------------------------
AddColumnIfMissing(cols, c, default) ==
  IF HasColumn(cols, c) THEN cols ELSE [ cols EXCEPT ![c] = default ]

(* The columns after a step: an icon without a rev gets one (its rev is    *)
(* the time of day), a lockout in ms becomes one in seconds.               *)
Migrated(cols, step, icon) ==
  IF step = 1
  THEN LET wide == AddColumnIfMissing(cols, "icon_rev", 0)
       IN IF icon /\ wide["icon_rev"] = 0 THEN [ wide EXCEPT !["icon_rev"] = 1 ] ELSE wide
  ELSE [ AddColumnIfMissing(cols, "sensor_lockout_sec", DefaultLockout)
         EXCEPT !["sensor_lockout_sec"] = cols["sensor_lockout_ms"],
                !["sensor_lockout_ms"] = Absent ]

(* The second step reads a column that must be there.                      *)
Applies(cols, step) == step = 2 => HasColumn(cols, "sensor_lockout_ms")

NextStep == file.version + 1

(* A plausible slip: the version is written after the step is committed,   *)
(* and the process dies before that.                                       *)
ApplyBeforeBump ==
  /\ process.at = "migrate" /\ file.version < Latest /\ Applies(file.columns, NextStep)
  /\ file' = [ file EXCEPT !.columns = Migrated(file.columns, NextStep, file.icon) ]
  /\ process' = Down

(* applyOne: the step and its version in one transaction.                  *)
ApplyOne ==
  /\ process.at = "migrate" /\ file.version < Latest /\ Applies(file.columns, NextStep)
  /\ file' = [ file EXCEPT !.columns = Migrated(file.columns, NextStep, file.icon),
                           !.version = NextStep ]
  /\ UNCHANGED process

(* A step that fails is rolled back, and Open with it.                     *)
Refuse ==
  /\ process.at = "migrate" /\ file.version < Latest /\ ~Applies(file.columns, NextStep)
  /\ GoTo("refused")
  /\ UNCHANGED file

EndMigrations ==
  /\ process.at = "migrate" /\ file.version = Latest
  /\ GoTo("opened")
  /\ UNCHANGED file

OpenStep ==
  Open \/ CreateTable \/ Stamp \/ CheckVersion \/ ApplyOne \/ Refuse \/ EndMigrations

-----------------------------------------------------------------------------
(* What an older version has left is brought to the latest shape, wherever *)
(* the process died on the way: no step is refused, the version in the     *)
(* file is that of its columns, and neither the lockout the operator chose *)
(* nor the rev that tells a browser of an icon is lost (applyMigrations).  *)
UpgradeGoesThrough ==
  file.made = "before" =>
    /\ process.at # "refused"
    /\ \A c \in Columns : HasColumn(file.columns, c) <=> HasColumn(ShapeOf(file.version), c)
    /\ \A c \in {"sensor_lockout_ms", "sensor_lockout_sec"} :
         file.columns[c] \in {Absent, OldLockout}
    /\ file.columns["icon_rev"] # 0

(* internal/store/migrate.go:19 says of a step that "apply must be safe to *)
(* run against a database that may already be at (or past) version": none  *)
(* is ever refused.                                                        *)
StepsAreRepeatable == process.at # "refused"
=============================================================================
