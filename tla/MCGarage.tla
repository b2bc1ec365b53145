------------------------------ MODULE MCGarage ------------------------------
(* Instances of Garage for TLC.                                            *)
EXTENDS Garage

Everything == { "setup", "user", "promote", "demote", "delete", "close", "open",
                "register", "add", "setmain", "unlink", "vehicle" }

Permuted == Permutations(Requests)
=============================================================================
