------------------------------ MODULE MCCourse ------------------------------
(***************************************************************************)
(* Values for TLC: two drivers with one vehicle each, and the queue tables *)
(* a server can come up with.                                              *)
(***************************************************************************)
EXTENDS CourseProperties, TLC

CONSTANTS e1, e2, d1, d2   \* entries and drivers

MCDriverOf == (e1 :> d1) @@ (e2 :> d2)

Row(r, entry, status, tStart) ==
  [ id |-> r, ev |-> 1, entry |-> entry, pos |-> r, status |-> status,
    tStart |-> tStart, pt |-> 0, mc |-> FALSE ]

(* The slots requests arrive on are interchangeable.                       *)
Symmetry == Permutations(Requests)

(* One car: in the queue, READY, or RUNNING since instant 1.               *)
OneCar ==
  { <<Row(1, e1, "waiting", NoTime)>>,
    <<Row(1, e1, "on_course", NoTime)>>,
    <<Row(1, e1, "on_course", 1)>> }

(* One car on course and another one waiting, or both waiting.             *)
TwoCars ==
  { <<Row(1, e1, "on_course", 1), Row(2, e2, "waiting", NoTime)>>,
    <<Row(1, e1, "waiting", NoTime), Row(2, e2, "waiting", NoTime)>> }
=============================================================================
