\* Push, top-and-pop, remove and resort on a queue of up to five window
\* pointers, duplicates included, checked against PriorityBag.
CONSTANTS
  w1 = w1
  w2 = w2
  w3 = w3
  w4 = w4
  Elems <- MCElems
  Key <- MCKey
  MaxLen = 5
SPECIFICATION Spec
PROPERTY PriorityBagSpec
