---------------------------- MODULE MCDomainTree ----------------------------
(***************************************************************************)
(* Every well-formed database of up to three domains: distinct ids taken  *)
(* from DomainIds, each own_id naming the root or an earlier record, as   *)
(* construct_hier_from_database requires.  Id 257 (0x101) shares its low *)
(* byte with id 1, the case the property key has to keep apart.          *)
(***************************************************************************)
EXTENDS DomainTree

DomainIds == {1, 2, 257}
MaxDomains == 3

WellFormed(s) ==
  /\ \A i, j \in DOMAIN s : i # j => s[i].id # s[j].id
  /\ \A i \in DOMAIN s : s[i].own_id \in {0} \cup {s[j].id : j \in 1 .. i - 1}

MCDbSet ==
  { s \in UNION { [1 .. k -> [id : DomainIds, own_id : {0} \cup DomainIds]] : k \in 0 .. MaxDomains } :
      WellFormed(s) }
=============================================================================
