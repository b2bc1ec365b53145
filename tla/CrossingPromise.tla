-------------------------- MODULE CrossingPromise ---------------------------
(***************************************************************************)
(* What the timing chain promises of a car that crosses the beam, without  *)
(* boards, datagrams or dispatcher: the course hears of it at most once,   *)
(* and never of a car that did not cross.                                  *)
(***************************************************************************)
EXTENDS Naturals

CONSTANTS Crossings, Ends   \* cars, and what can come of one

VARIABLES
  crossed,    \* the cars that have crossed
  told        \* what came of a car, each time it was settled

Init == /\ crossed = {}
        /\ told = [ c \in Crossings |-> {} ]

CarCrosses == \E c \in Crossings \ crossed : /\ crossed' = crossed \cup {c}
                                             /\ UNCHANGED told

CarIsSettled == \E c \in crossed, how \in Ends :
                  /\ told[c] = {}
                  /\ told' = [ told EXCEPT ![c] = {[ how |-> how, times |-> 1 ]} ]
                  /\ UNCHANGED crossed

Next == CarCrosses \/ CarIsSettled

Spec == Init /\ [][Next]_<<crossed, told>>
==============================================================================
