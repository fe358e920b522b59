------------------------------ MODULE MCCpQueue ------------------------------
(* A window's childs queue: four windows, ordered by their addresses.     *)
EXTENDS CpQueue, TLC

CONSTANTS w1, w2, w3, w4

MCElems == {w1, w2, w3, w4}
MCKey == (w1 :> 3 @@ w2 :> 1 @@ w3 :> 4 @@ w4 :> 2)
=============================================================================
