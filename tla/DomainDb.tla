------------------------------ MODULE DomainDb ------------------------------
(***************************************************************************)
(* The domain tree of a hierarchy as services/src/domain/domain.cpp keeps *)
(* it in intrusive pointers, and the pure walks over it.  A tree is a     *)
(* record of functions from nodes to nodes (or None):                      *)
(*   parent, child (head of the child list), peer (next sibling), and     *)
(*   count (domain::child_count).                                          *)
(* A node is the position of its record in the hierarchy's database; the  *)
(* root sentinel, which has id 0, is node 0.                              *)
(***************************************************************************)
EXTENDS Integers, Sequences, FiniteSets, SequencesExt, Bitwise

CONSTANT None   \* a null domain_ptr

Root == 0

EmptyTree(N) ==
  [parent |-> [n \in N |-> None], child |-> [n \in N |-> None],
   peer |-> [n \in N |-> None], count |-> [n \in N |-> 0]]

(* The id of every node of db; nodes not (yet) in db read as the root id. *)
Ids(db, N) == [n \in N |-> IF n = Root \/ n > Len(db) THEN 0 ELSE db[n].id]

(* Mutant: the key keeps only the low byte of the domain id.              *)
StateDomainKeyLowByte(hier, id) == (hier * 256) | (id & 255)

(* make_state_domain_key: (hier << 8) | ((id << 8) & 0xff0000) | (id & 0xff). *)
(* hier is a u8 and id a u16, so no shift leaves the 32 bits of the key.   *)
StateDomainKey(hier, id) ==
  (hier * 256) | ((id * 256) & 16711680) | (id & 255)

(* Mutant: the search walks the child list without descending into it.  *)
LookupChildNoDescent(t, ids, n, id) ==
  LET RECURSIVE Walk(_)
      Walk(c) == IF c = None \/ ids[c] = id THEN c ELSE Walk(t.peer[c])
  IN Walk(t.child[n])

(* domain::lookup_child: depth-first search of the children of n, trying  *)
(* each child's subtree before moving on to its peer.                     *)
RECURSIVE LookupChild(_, _, _, _)
LookupChild(t, ids, n, id) ==
  LET RECURSIVE Walk(_)
      Walk(c) ==
        IF c = None \/ ids[c] = id THEN c
        ELSE LET dm == LookupChild(t, ids, c, id)
             IN IF dm # None THEN dm ELSE Walk(t.peer[c])
  IN Walk(t.child[n])

(* hierarchy::lookup: id 0 is the root, any other id is searched for.     *)
Lookup(t, ids, id) ==
  IF id = 0 THEN Root ELSE LookupChild(t, ids, Root, id)

(* Mutants: child_count is not incremented, or is decremented.           *)
LinkDomainNoCount(t, p, i) ==
  [t EXCEPT !.parent[i] = p, !.peer[i] = t.child[p], !.child[p] = i]
LinkDomainCountDown(t, p, i) ==
  [t EXCEPT !.count[p] = @ - 1, !.parent[i] = p, !.peer[i] = t.child[p], !.child[p] = i]

(* The linking half of construct_domain_from_database for record i: the   *)
(* domain goes on the front of its owner's child list.  The owner p is    *)
(* found by the caller.                                                    *)
LinkDomain(t, p, i) ==
  [t EXCEPT !.count[p] = @ + 1,
            !.parent[i] = p,
            !.peer[i] = t.child[p],
            !.child[p] = i]

(* construct_hier_from_database over a database whose owners all precede *)
(* their children.                                                        *)
BuildTree(db) ==
  LET N == 0 .. Len(db)
      Add(t, i) == LinkDomain(t, Lookup(t, Ids(db, N), db[i].own_id), i)
  IN FoldLeft(Add, EmptyTree(N), [i \in 1 .. Len(db) |-> i])

(* The sibling chain child -> peer -> ... of n, in list order.            *)
ChildSeq(t, n) ==
  LET RECURSIVE Chain(_, _)
      Chain(c, k) == IF c = None \/ k = 0 THEN <<>> ELSE <<c>> \o Chain(t.peer[c], k - 1)
  IN Chain(t.child[n], Cardinality(DOMAIN t.parent))

(* domain::set_observe: the nodes set_observe(n) marks, in call order.   *)
(* After marking n it walks next = child, next = next->child, recursing  *)
(* into each node it meets.                                               *)
RECURSIVE ObserveVisits(_, _)
ObserveVisits(t, n) ==
  LET RECURSIVE Spine(_)
      Spine(c) == IF c = None THEN <<>> ELSE ObserveVisits(t, c) \o Spine(t.child[c])
  IN <<n>> \o (IF t.count[n] > 0 THEN Spine(t.child[n]) ELSE <<>>)

(* Reference: the subtree of n, following parent links backwards.         *)
Subtree(t, n) ==
  LET RECURSIVE Below(_, _)
      Below(S, k) == IF k = 0 THEN S
                     ELSE Below(S \cup {m \in DOMAIN t.parent : t.parent[m] \in S}, k - 1)
  IN Below({n}, Cardinality(DOMAIN t.parent))
=============================================================================
