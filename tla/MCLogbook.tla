------------------------------ MODULE MCLogbook ------------------------------
(* Instances of Logbook for TLC.                                           *)
EXTENDS Logbook, TLC

Displacement == [ c \in Combos |-> 1500 ]

(* A clean run, and one with a pit touch: a slower one under the first     *)
(* rule, an invalid one - as a misscourse is under both - under the second.*)
SomeBodies == { [ raw |-> 1, pt |-> 0, mc |-> FALSE ],
                [ raw |-> 1, pt |-> 1, mc |-> FALSE ] }

BothRules == { [ mode |-> "add", penalty |-> 1 ], [ mode |-> "invalidate", penalty |-> 1 ] }

Editors == Permutations(Requests)
=============================================================================
