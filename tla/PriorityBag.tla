----------------------------- MODULE PriorityBag -----------------------------
(***************************************************************************)
(* What a priority queue with removal promises, without its layout: a     *)
(* bag of values; top-and-pop hands out a value no other value of the bag *)
(* compares greater than; remove takes out one copy of a value and says   *)
(* whether there was one; resort changes nothing a client can see.        *)
(***************************************************************************)
EXTENDS Integers, Bags, BagsExt

CONSTANTS
  Elems,   \* the values that can be pushed
  Key,     \* Key[e]: the quantity the queue's compare orders by
  MaxLen   \* bound on the number of values held

VARIABLES
  bag,     \* the values held, with their multiplicity
  result   \* what the last operation returned to its caller

vars == <<bag, result>>

Greatest(B) == {m \in DOMAIN B : \A y \in DOMAIN B : ~(Key[m] < Key[y])}

Init == bag = EmptyBag /\ result = "none"

Push(x) ==
  /\ BagCardinality(bag) < MaxLen
  /\ bag' = BagAdd(bag, x)
  /\ result' = "none"

TopPop ==
  /\ bag # EmptyBag
  /\ \E m \in Greatest(bag) : bag' = BagRemove(bag, m) /\ result' = m

Remove(x) ==
  /\ bag' = BagRemove(bag, x)
  /\ result' = IF x \in DOMAIN bag THEN "true" ELSE "false"

Resort == UNCHANGED bag /\ result' = "none"

Next == (\E x \in Elems : Push(x) \/ Remove(x)) \/ TopPop \/ Resort

Spec == Init /\ [][Next]_vars
=============================================================================
