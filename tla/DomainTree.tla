----------------------------- MODULE DomainTree -----------------------------
(***************************************************************************)
(* Construction of a domain hierarchy from its static database record     *)
(* (construct_hier_from_database, construct_domain_from_database) and the *)
(* walks over the result: hierarchy::lookup and domain::set_observe.       *)
(* One step links one database record, so every property is checked on   *)
(* every partly built tree as well as on the finished one.                *)
(***************************************************************************)
EXTENDS DomainDb, FiniteSets

CONSTANTS
  DbSet,      \* the database records (sequences of [id, own_id]) to build
  HierId      \* the hierarchy id the records belong to

VARIABLES
  db,         \* the hierarchy's database record (hier_db.domains)
  next,       \* index of the next record construct_domain_from_database takes
  tree,       \* parent / child / peer / child_count of every domain
  stateProp,  \* domain::state_prop: the key of the property the domain publishes to
  props,      \* keys of the properties defined in dm_category
  crashed     \* a null domain_ptr was dereferenced

vars == <<db, next, tree, stateProp, props, crashed>>

Nodes == 0 .. Cardinality(UNION {DOMAIN d : d \in DbSet})

-----------------------------------------------------------------------------
(* construct_hier_from_database: a fresh root with no parent or peer.     *)
Init ==
  /\ db \in DbSet
  /\ next = 1
  /\ tree = EmptyTree(Nodes)
  /\ stateProp = [n \in Nodes |-> None]
  /\ props = {}
  /\ crashed = FALSE

(* construct_domain_from_database for record db[next]: look the owner up *)
(* in the tree built so far and link the domain under it; define a       *)
(* property keyed by make_state_domain_key in a local handle; register   *)
(* the timeout event through parent->child, a null dereference when the  *)
(* owner was not found.                                                  *)
ConstructDomain ==
  /\ ~crashed
  /\ next <= Len(db)
  /\ LET p == Lookup(tree, Ids(db, Nodes), db[next].own_id)
     IN /\ props' = props \cup {StateDomainKey(HierId, db[next].id)}
        /\ IF p = None
           THEN /\ crashed' = TRUE
                /\ UNCHANGED <<next, tree>>
           ELSE /\ tree' = LinkDomain(tree, p, next)
                /\ next' = next + 1
                /\ UNCHANGED crashed
  /\ UNCHANGED <<db, stateProp>>

Next == ConstructDomain

Spec == Init /\ [][Next]_vars

-----------------------------------------------------------------------------
Built == next > Len(db)

Linked == {Root} \cup {n \in Nodes : 1 <= n /\ n < next}

IdOf(n) == Ids(db, Nodes)[n]

TypeOK ==
  /\ next \in 1 .. Len(db) + 1
  /\ tree \in [parent : [Nodes -> Nodes \cup {None}], child : [Nodes -> Nodes \cup {None}],
               peer : [Nodes -> Nodes \cup {None}], count : [Nodes -> Nat]]
  /\ crashed \in BOOLEAN

(* The tree kept in the intrusive pointers is the one the database        *)
(* describes: child_count of every domain is the length of its sibling    *)
(* chain, the chain holds exactly the domains whose parent it is, and     *)
(* every linked domain hangs under the domain named by its own_id         *)
(* (spec section 3 and section 8 property 4).                             *)
ChildCountMatchesChain ==
  \A n \in Linked :
    /\ tree.count[n] = Len(ChildSeq(tree, n))
    /\ ToSet(ChildSeq(tree, n)) = {c \in Linked : tree.parent[c] = n}
    /\ n # Root => IdOf(tree.parent[n]) = db[n].own_id

(* hierarchy::lookup finds every domain of the tree built so far by its  *)
(* id, and none that has not been linked yet.                             *)
LookupFindsEveryDomain ==
  \A m \in 1 .. Len(db) :
    Lookup(tree, Ids(db, Nodes), db[m].id) = IF m \in Linked THEN m ELSE None

(* Distinct domains of a hierarchy are given distinct property keys, also *)
(* when their ids agree in the low byte.                                  *)
StateKeysDistinct ==
  \A m, n \in Linked \ {Root} :
    db[m].id # db[n].id => StateDomainKey(HierId, db[m].id) # StateDomainKey(HierId, db[n].id)
=============================================================================
