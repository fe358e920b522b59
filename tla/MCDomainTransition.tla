------------------------- MODULE MCDomainTransition -------------------------
(* Hierarchies of a root with children 1 and 3 and a leaf 2 below 1, of   *)
(* a root with one child, and of a root with two leaves; one or two       *)
(* member sessions and at most two transitions.                           *)
EXTENDS DomainTransition

CONSTANTS s1, s2, ctl

MCDb == <<[id |-> 1, own_id |-> 0], [id |-> 2, own_id |-> 1], [id |-> 3, own_id |-> 0]>>
MCLeafDb == <<[id |-> 1, own_id |-> 0]>>
MCForkDb == <<[id |-> 1, own_id |-> 0], [id |-> 2, own_id |-> 0]>>
MCSess == {s1}
MCTwoSess == {s1, s2}
MCAckErrs == {"None", "KErrGeneral"}
MCObserveTypes == {{"TransRequest", "Pass", "Fail"}}

(* The engine driven by the manager, the members and the timer; the       *)
(* observer stays idle.                                                    *)
MCServerNext ==
  \/ AddHierarchy
  \/ JoinHierarchy
  \/ \E id \in DomainIds : RequestDomainTransition(id)
  \/ RequestSystemTransition
  \/ RequestCancelTransition
  \/ MemberNext
  \/ TimerNext

MCServerSpec == Init /\ [][MCServerNext]_vars /\ Fairness

(* Members that each join one domain once and set their notification      *)
(* before the transition is requested, as the client of one transition    *)
(* does, with the manager and the timer; no observer.  (A member that     *)
(* re-arms its notification while the members phase restarts can add a   *)
(* TimedOut failure per timeout without end.)                             *)
MCJoinOnceNext ==
  \/ AddHierarchy
  \/ JoinHierarchy
  \/ \E id \in DomainIds : RequestDomainTransition(id)
  \/ RequestSystemTransition
  \/ RequestCancelTransition
  \/ \E s \in Sess, id \in DomainIds : ctlDomain[s] = None /\ JoinDomain(s, id)
  \/ \E s \in Sess, on \in BOOLEAN : transitionId = 0 /\ SetTransitionNof(s, on)
  \/ \E s \in Sess, err \in AckErrs : Acknowledge(s, err)
  \/ TimerNext

MCJoinOnceSpec == Init /\ [][MCJoinOnceNext]_vars /\ Fairness
=============================================================================
