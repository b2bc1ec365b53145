-------------------------------- MODULE MCHub --------------------------------
(* Instances of Publishing for TLC.                                        *)
EXTENDS Publishing

(* Goroutines are alike.                                                   *)
Goroutines == Permutations(Publishers)
=============================================================================
