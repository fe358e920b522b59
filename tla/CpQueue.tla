------------------------------- MODULE CpQueue -------------------------------
(***************************************************************************)
(* eka2l1::cp_queue (common/include/common/queue.h): std::priority_queue  *)
(* over a std::vector c, with remove(val) and resort() added.  push and   *)
(* pop are the inherited members; they and make_heap rearrange c as the    *)
(* libstdc++ heap algorithms do (__push_heap, __adjust_heap, make_heap),  *)
(* written over 0-based vector positions.  The one user in the sources,   *)
(* epoc::window::childs, is a cp_queue<window_ptr> with std::less, so     *)
(* compare reads the value's Key: the shared_ptr's address.              *)
(***************************************************************************)
EXTENDS Integers, Sequences, SequencesExt

CONSTANTS
  Elems,   \* the values that can be pushed
  Key,     \* Key[e]: what compare orders by
  MaxLen   \* bound on c's length

VARIABLES
  c,       \* the underlying vector, a max-heap under compare
  result   \* what the last operation returned: the popped value, or
           \* remove's bool as "true" / "false"

vars == <<c, result>>

Less(a, b) == Key[a] < Key[b]

At(v, i) == v[i + 1]
Put(v, i, x) == [v EXCEPT ![i + 1] = x]

RECURSIVE PushUp(_, _, _, _), Descend(_, _, _), MakeFrom(_, _, _)

(* __push_heap: move the hole up while its parent compares less than val. *)
PushUp(v, hole, top, val) ==
  LET parent == (hole - 1) \div 2
  IN IF hole > top /\ Less(At(v, parent), val)
     THEN PushUp(Put(v, hole, At(v, parent)), parent, top, val)
     ELSE Put(v, hole, val)

(* The first loop of __adjust_heap: the hole moves down to the greater    *)
(* child (the right one unless it compares less than the left).           *)
Descend(v, hole, len) ==
  IF hole < (len - 1) \div 2
  THEN LET right == 2 * (hole + 1)
           next == IF Less(At(v, right), At(v, right - 1)) THEN right - 1 ELSE right
       IN Descend(Put(v, hole, At(v, next)), next, len)
  ELSE <<v, hole>>

(* __adjust_heap: sink the hole to a leaf, take a lone left child up, and *)
(* push val up from there.                                                *)
AdjustHeap(v, top, len, val) ==
  LET r == Descend(v, top, len)
      lone == len % 2 = 0 /\ r[2] = (len - 2) \div 2
      w == IF lone THEN Put(r[1], r[2], At(r[1], 2 * r[2] + 1)) ELSE r[1]
      h == IF lone THEN 2 * r[2] + 1 ELSE r[2]
  IN PushUp(w, h, top, val)

(* std::make_heap: adjust every parent, from the last one down to 0.      *)
MakeFrom(v, parent, len) ==
  LET w == AdjustHeap(v, parent, len, At(v, parent))
  IN IF parent = 0 THEN w ELSE MakeFrom(w, parent - 1, len)

MakeHeap(v) == IF Len(v) < 2 THEN v ELSE MakeFrom(v, (Len(v) - 2) \div 2, Len(v))

-----------------------------------------------------------------------------
Init == c = <<>> /\ result = "none"

(* priority_queue::push: push_back, then push_heap.                       *)
Push(x) ==
  /\ Len(c) < MaxLen
  /\ c' = PushUp(Append(c, x), Len(c), 0, x)
  /\ result' = "none"

(* top() read by the caller, then priority_queue::pop: pop_heap moves the *)
(* front to the back and re-sinks the old back; pop_back drops it.         *)
TopPop ==
  /\ c # <<>>
  /\ LET len == Len(c)
     IN c' = IF len = 1 THEN <<>>
             ELSE SubSeq(AdjustHeap(Put(c, len - 1, At(c, 0)), 0, len - 1, At(c, len - 1)),
                         1, len - 1)
  /\ result' = At(c, 0)

(* Mutant: the element is erased but the heap is not rebuilt.             *)
CpRemoveNoHeapify(x) ==
  IF x \in Range(c) THEN c' = RemoveFirst(c, x) /\ result' = "true"
  ELSE UNCHANGED c /\ result' = "false"

(* cp_queue::remove: std::find the first equal value, erase it and        *)
(* make_heap the rest; false when there is none.                          *)
CpRemove(x) ==
  IF x \in Range(c) THEN c' = MakeHeap(RemoveFirst(c, x)) /\ result' = "true"
  ELSE UNCHANGED c /\ result' = "false"

(* cp_queue::resort                                                       *)
Resort == c' = MakeHeap(c) /\ result' = "none"

Next == (\E x \in Elems : Push(x) \/ CpRemove(x)) \/ TopPop \/ Resort

Spec == Init /\ [][Next]_vars

-----------------------------------------------------------------------------
(* The queue holds the values pushed and not yet popped or removed, hands *)
(* out from top-and-pop a value that nothing left in it compares greater  *)
(* than, and answers remove truthfully, across any sequence of push, pop, *)
(* remove (which erases from the middle of the heap) and resort.          *)
P == INSTANCE PriorityBag WITH bag <- ToBag(c)
PriorityBagSpec == P!Spec
=============================================================================
