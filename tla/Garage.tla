-------------------------------- MODULE Garage --------------------------------
(***************************************************************************)
(* The vehicles and whose they are: registration (internal/web/register.   *)
(* go), the vehicles of a participant (my.go), the administration of       *)
(* vehicles (admin_vehicles.go), on internal/store/vehicles.go; and all of *)
(* it together with the accounts.                                          *)
(***************************************************************************)
EXTENDS Accounts

MainOf(d)   == drivers[d].main
Owns(d, v)  == <<d, v>> \in entries

(* ListEntriesByDriver: deleted vehicles are not among them.               *)
ListsVehicle(d, v) == Owns(d, v) /\ ~vehicles[v]

CreateVehicle ==
  /\ Len(vehicles) < MaxVehicles
  /\ vehicles' = Append(vehicles, FALSE)

-----------------------------------------------------------------------------
(* handleRegister, while there is an event that is open for it, and        *)
(* handleAddMyVehicle.                                                     *)
BeginRegister(q) ==
  /\ event
  /\ \E v \in VehicleIds \cup {NoVehicle} : Begin(q, "register", "create", Emergency, v)

Register(q) ==
  /\ Doing(q, {"register"}, "create")
  /\ CreateDriver("user")
  /\ Wrote(q, [ To(q, "vehicle") EXCEPT !.by = Len(drivers') ])
  /\ UNCHANGED <<event, seedings, vehicles, entries, server>>

BeginAddVehicle(q) ==
  \E d \in DriverIds, v \in VehicleIds \cup {NoVehicle} :
    Live(d) /\ Begin(q, "add", "vehicle", d, v)

(* A plausible slip: the link is made with the id that was asked for.      *)
ResolveAsAsked(q) ==
  /\ Doing(q, {"register", "add"}, "vehicle")
  /\ IF request[q].id = NoVehicle THEN CreateVehicle ELSE UNCHANGED vehicles
  /\ Wrote(q, To(q, "link"))
  /\ UNCHANGED <<event, seedings, drivers, entries, server>>

(* resolveOrCreateVehicle: an existing one, deleted or not, or a new one.  *)
ResolveVehicle(q) ==
  /\ Doing(q, {"register", "add"}, "vehicle")
  /\ \/ /\ request[q].id # NoVehicle
        /\ Proceed(q, "link") /\ ReadOnly
     \/ /\ request[q].id = NoVehicle
        /\ CreateVehicle
        /\ Wrote(q, [ To(q, "link") EXCEPT !.id = Len(vehicles') ])
        /\ UNCHANGED <<event, seedings, drivers, entries, server>>

(* AddEntry: the first vehicle of a driver becomes the main one.           *)
MainAfterEntry(d, v) == IF MainOf(d) = NoVehicle THEN v ELSE MainOf(d)

AddEntry(q) ==
  LET d == request[q].by
      v == request[q].id
  IN /\ Doing(q, {"register", "add"}, "link")
     /\ entries' = entries \cup {<<d, v>>}
     /\ drivers' = [ drivers EXCEPT ![d].main = MainAfterEntry(d, v) ]
     /\ Wrote(q, IF request[q].does = "register" THEN To(q, "main") ELSE Idle)
     /\ UNCHANGED <<event, seedings, vehicles, server>>

(* handleSetMainVehicle: one of the driver's own.                          *)
BeginSetMain(q) ==
  \E d \in DriverIds, v \in VehicleIds : Live(d) /\ Begin(q, "setmain", "owned", d, v)

SetMainVehicle(q) ==
  /\ Doing(q, {"register", "setmain"}, "main")
  /\ drivers' = [ drivers EXCEPT ![request[q].by].main = request[q].id ]
  /\ Wrote(q, Idle)
  /\ UNCHANGED <<event, seedings, vehicles, entries, server>>

(* handleDeleteMyVehicle: the main vehicle is that of the driver's row as  *)
(* the request came.                                                       *)
BeginUnlink(q) ==
  \E d \in DriverIds, v \in VehicleIds : Live(d) /\ Begin(q, "unlink", "owned", d, v)

(* A plausible slip: whoever's vehicle it is.                              *)
NotMainOfAnyone(q) == TRUE

NotMain(q) == request[q].main # request[q].id

(* myVehicleID and its like.                                               *)
CheckOwned(q) ==
  /\ Doing(q, {"setmain", "unlink"}, "owned")
  /\ LET allowed == /\ ListsVehicle(request[q].by, request[q].id)
                    /\ request[q].does = "unlink" => NotMain(q)
     IN IF allowed THEN Proceed(q, IF request[q].does = "unlink" THEN "link" ELSE "main")
                   ELSE Answer(q)
  /\ ReadOnly

DeleteEntry(q) ==
  /\ Doing(q, {"unlink"}, "link")
  /\ entries' = entries \ {<<request[q].by, request[q].id>>}
  /\ Wrote(q, Idle)
  /\ UNCHANGED <<event, seedings, drivers, vehicles, server>>

(* handleAdminVehicleCreate and handleAdminVehicleDelete.                  *)
BeginVehicleAdmin(q) ==
  \E by \in Admins, v \in VehicleIds \cup {NoVehicle} : Begin(q, "vehicle", "write", by, v)

WriteVehicle(q) ==
  /\ Doing(q, {"vehicle"}, "write")
  /\ IF request[q].id = NoVehicle THEN CreateVehicle
                                  ELSE vehicles' = [ vehicles EXCEPT ![request[q].id] = TRUE ]
  /\ Wrote(q, Idle)
  /\ UNCHANGED <<event, seedings, drivers, entries, server>>

Next ==
  \/ AccountStep
  \/ \E q \in Requests :
       \/ BeginRegister(q) \/ Register(q) \/ BeginAddVehicle(q) \/ ResolveVehicle(q) \/ AddEntry(q)
       \/ BeginSetMain(q) \/ SetMainVehicle(q) \/ BeginUnlink(q) \/ CheckOwned(q) \/ DeleteEntry(q)
       \/ BeginVehicleAdmin(q) \/ WriteVehicle(q)

Spec == Init /\ [][Next]_vars

TypeOK == DatabaseTypeOK /\ AccountsTypeOK

-----------------------------------------------------------------------------
Stray == { d \in DriverIds : MainOf(d) # NoVehicle /\ ~Owns(d, MainOf(d)) }

(* The main vehicle of a driver is one of the driver's own, and stays so:  *)
(* the link goes, or another vehicle becomes the main one, only if         *)
(* requests overlap (AddEntry, handleSetMainVehicle,                       *)
(* handleDeleteMyVehicle).                                                 *)
MainIsOwn ==
  [][ Stray' \subseteq Stray \/
        \E q \in Requests : Busy(q) /\ request'[q] = Idle /\ ~request[q].alone ]_vars
=============================================================================
