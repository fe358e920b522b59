-------------------------- MODULE DomainTransition --------------------------
(***************************************************************************)
(* The domain transition engine of services/src/domain/domain.cpp: one    *)
(* hierarchy, its domain tree, the manager-server control session (Ctl),  *)
(* domain-server member sessions, and the timing service's per-domain     *)
(* timeout events.                                                        *)
(*                                                                         *)
(* IPC dispatch and timer callbacks are serialised by the emulator, so    *)
(* every handler is one atomic step, including the synchronous recursion *)
(* through do_domain_transition / complete_*_transition it sets off.      *)
(* That recursion is written as operators from a record of the engine's   *)
(* state (Cas) to its successor.                                          *)
(*                                                                         *)
(* A null pointer dereference ends the emulator: crash records which one, *)
(* and no step follows it.                                                *)
(***************************************************************************)
EXTENDS DomainDb, FiniteSets

CONSTANTS
  Db,            \* the hierarchy's database record: <<[id, own_id], ...>>
  HierId,        \* the hierarchy's id
  Sess,          \* domain-server member sessions
  Ctl,           \* the manager-server session that joins the hierarchy
  FailPolicy,    \* fail_policy: "Stop" or "Continue"
  AckErrs,       \* errors members acknowledge with
  ObserveTypes,  \* observe_type bitsets the observer starts with
  BadId,         \* a domain id the database does not contain
  MaxTransitions \* bound on transition_id

ASSUME FailPolicy \in {"Stop", "Continue"}
ASSUME "None" \in AckErrs
ASSUME Ctl \notin Sess

T == BuildTree(Db)
Doms == 0 .. Len(Db)
MemberDoms == 1 .. Len(Db)
IdOf == Ids(Db, Doms)
Keys == Sess \cup {Ctl}

(* hierarchy::trans_domain is read by set_state and                       *)
(* complete_domain_transition and assigned nowhere in domain.cpp.         *)
TransDomain == None

(* make_state_domain_value: (transition_id << 24) | (state & 0xffffff) as  *)
(* a u32, kept as its two fields.                                          *)
StateDomainValue(tid, v) == [tid |-> tid % 256, val |-> v % 16777216]

VARIABLES
  hierAdded,        \* domain_manager::hierarchies holds the hierarchy
  ctlJoined,        \* hierarchy::control_session is Ctl
  ctlDomain,        \* domain_server::control_domains
  attached,         \* domain::attached_sessions
  nof,              \* domain_server::nof_enable
  pending,          \* hierarchy::acknowledge_pending
  deferral,         \* hierarchy::deferral_statuses: absent, empty entry, or parked request
  asyncSts,         \* the status of each session's last deferral / observer-notify request
  tcount,           \* domain::transition_count
  timers,           \* timeout events scheduled with the domain as payload
  prop,             \* the value of each domain's state property
  transitionId,     \* hierarchy::transition_id
  transPropValue,   \* hierarchy::transition_prop_value
  traverseDir,      \* hierarchy::traverse_dir
  transState,       \* hierarchy::trans_state
  transHeld,        \* hierarchy::trans_status: the transit request it holds, 0 for none
  transReplies,     \* completions written to each transit request, in order
  transTarget,      \* the domain the last transition was requested for
  failures,         \* hierarchy::transitions_fail
  obsLog,           \* hierarchy::transitions (the observer's log)
  observeSession,   \* hierarchy::observe_session is Ctl
  observerStarted,  \* hierarchy::observer_started
  observeType,      \* hierarchy::observe_type
  observedDomain,   \* hierarchy::observed_domain
  observed,         \* domain::observed
  observedChildren, \* hierarchy::observed_children
  crash             \* "none", or the null dereference that ended the emulator

cas == <<tcount, timers, nof, pending, prop, obsLog, failures, transHeld, transReplies,
         deferral, asyncSts, crash>>
vars == <<hierAdded, ctlJoined, ctlDomain, attached, transitionId, transPropValue,
          traverseDir, transState, transTarget, observeSession, observerStarted,
          observeType, observedDomain, observed, observedChildren, cas>>

Cas == [tcount |-> tcount, timers |-> timers, nof |-> nof, pending |-> pending,
        prop |-> prop, obsLog |-> obsLog, failures |-> failures, transHeld |-> transHeld,
        transReplies |-> transReplies, deferral |-> deferral, asyncSts |-> asyncSts,
        crash |-> crash, dir |-> traverseDir, pv |-> transPropValue]

Commit(r) ==
  /\ tcount' = r.tcount /\ timers' = r.timers /\ nof' = r.nof /\ pending' = r.pending
  /\ prop' = r.prop /\ obsLog' = r.obsLog /\ failures' = r.failures
  /\ transHeld' = r.transHeld /\ transReplies' = r.transReplies
  /\ deferral' = r.deferral /\ asyncSts' = r.asyncSts /\ crash' = r.crash

Live(st) == st.crash = "none"
Crash(st, why) == [st EXCEPT !.crash = why]

-----------------------------------------------------------------------------
(* Helpers of the hierarchy (their bodies are in domain.h).               *)

(* finish_trans_request: complete the held transit request with err.      *)
FinishTransRequest(st, err) ==
  IF st.transHeld = 0 THEN st
  ELSE [st EXCEPT !.transReplies[st.transHeld] = Append(@, err), !.transHeld = 0]

(* add_transition on an observed domain whose event kind is selected.    *)
(* observe_status is assigned nowhere, so is_observe_nof_outstanding is   *)
(* false and finish_observe_request is never reached.                     *)
NotifyObserver(st, d, kind, err) ==
  IF observed[d] /\ kind \in observeType
  THEN [st EXCEPT !.obsLog = Append(@, [dom |-> d, err |-> err])]
  ELSE st

(* hierarchy::add_transition_failure: transitions_fail.push_back.        *)
AddTransitionFailure(st, d, err) ==
  [st EXCEPT !.failures = Append(@, [dom |-> d, err |-> err])]

(* The deferral records that are not absent, and whether one of them is   *)
(* an empty entry (first = 0, second = nullptr) whose thread the loops    *)
(* over deferral_statuses dereference.                                    *)
LiveDeferrals(st) == {k \in Keys : st.deferral[k] # "absent"}
HasEmptyDeferral(st) == \E k \in Keys : st.deferral[k] = "empty"

(* Complete every parked deferral with err and clear the map.             *)
ResolveDeferrals(st, err) ==
  [st EXCEPT !.asyncSts = [k \in Keys |-> IF st.deferral[k] = "parked" THEN err ELSE @[k]],
             !.deferral = [k \in Keys |-> "absent"]]

-----------------------------------------------------------------------------
(* The synchronous traversal.                                             *)

RECURSIVE DoDomainTransition(_, _), DoMembersTransition(_, _),
          CompleteMembersTransition(_, _), CompleteChildrenTransition(_, _),
          CompleteDomainTransition(_, _), CancelTransition(_, _),
          DoChildrenTransitionFirstChild(_, _)

(* domain::cancel_transition: children first, then every deferral record  *)
(* is completed with Cancel and the count zeroed.  Timers stay scheduled. *)
CancelTransition(st, d) ==
  LET s1 == FoldLeft(LAMBDA acc, c : IF Live(acc) THEN CancelTransition(acc, c) ELSE acc,
                     st, ChildSeq(T, d))
  IN IF ~Live(s1) THEN s1
     ELSE IF HasEmptyDeferral(s1) THEN Crash(s1, "empty_deferral")
     ELSE [ResolveDeferrals(s1, "Cancel") EXCEPT !.tcount[d] = 0]

(* Mutant: the walk stops after the first child instead of following     *)
(* the peer list.                                                         *)
DoChildrenTransitionFirstChild(st, d) ==
  IF T.count[d] > 0 THEN DoDomainTransition(st, Head(ChildSeq(T, d)))
  ELSE CompleteChildrenTransition(st, d)

(* domain::do_children_transition                                         *)
DoChildrenTransition(st, d) ==
  IF T.count[d] > 0
  THEN FoldLeft(LAMBDA acc, c : IF Live(acc) THEN DoDomainTransition(acc, c) ELSE acc,
                st, ChildSeq(T, d))
  ELSE CompleteChildrenTransition(st, d)

(* domain::do_domain_transition                                           *)
DoDomainTransition(st, d) ==
  IF st.dir = "ChildrenFirst" THEN DoChildrenTransition(st, d) ELSE DoMembersTransition(st, d)

(* domain::do_members_transition: every attached session with             *)
(* notification enabled owes an acknowledgement; the observer may be      *)
(* told of the request; the value is published; a timeout is scheduled    *)
(* while acknowledgements are owed, else the members phase completes.     *)
(* The root has no state property, so publishing through it is a null    *)
(* dereference.                                                           *)
DoMembersTransition(st, d) ==
  LET owing == {s \in attached[d] : st.nof[s]}
      s1 == [st EXCEPT !.tcount[d] = @ + Cardinality(owing),
                       !.nof = [s \in Sess |-> @[s] /\ s \notin owing],
                       !.pending = [s \in Sess |-> @[s] \/ s \in owing]]
      s2 == NotifyObserver(s1, d, "TransRequest", "Outstanding")
  IN IF d = Root THEN Crash(s2, "root_state_prop")
     ELSE LET s3 == [s2 EXCEPT !.prop[d] = st.pv]
          IN IF s3.tcount[d] > 0 THEN [s3 EXCEPT !.timers[d] = @ + 1]
             ELSE CompleteMembersTransition(s3, d)

(* domain::complete_members_transition.  In any direction other than     *)
(* children first it calls do_members_transition again.  That call waits  *)
(* only if a member has re-enabled its notification or the count is still *)
(* positive; otherwise it calls back here, and so on without end: the     *)
(* stack overflows.                                                       *)
CompleteMembersTransition(st, d) ==
  IF st.dir = "ChildrenFirst" THEN CompleteDomainTransition(st, d)
  ELSE IF d # Root /\ st.tcount[d] <= 0 /\ \A s \in attached[d] : ~st.nof[s]
  THEN Crash(st, "members_recursion")
  ELSE DoMembersTransition(st, d)

(* domain::complete_children_transition                                   *)
CompleteChildrenTransition(st, d) ==
  IF st.dir = "ChildrenFirst" THEN DoMembersTransition(st, d)
  ELSE CompleteDomainTransition(st, d)

(* domain::complete_domain_transition: at trans_domain the transition is  *)
(* concluded; elsewhere the parent's transition_count is decremented and  *)
(* its children phase completes when it reaches zero.                     *)
CompleteDomainTransition(st, d) ==
  IF d = TransDomain
  THEN FinishTransRequest(CancelTransition(st, d),
                          IF Len(st.failures) > 0 THEN st.failures[1].err ELSE "None")
  ELSE IF T.parent[d] = None THEN Crash(st, "root_parent")
  ELSE LET p == T.parent[d]
           s1 == [st EXCEPT !.tcount[p] = @ - 1]
       IN IF s1.tcount[p] = 0 THEN CompleteChildrenTransition(s1, p) ELSE s1

(* The decrement that ends complete_acknowledge_with_err.                 *)
AcknowledgeDone(st, d) ==
  LET s1 == [st EXCEPT !.tcount[d] = @ - 1]
  IN IF s1.tcount[d] = 0
     THEN CompleteMembersTransition([s1 EXCEPT !.timers[d] = 0], d)
     ELSE s1

(* domain::complete_acknowledge_with_err                                  *)
CompleteAcknowledgeWithErr(st, d, err) ==
  IF err # "None"
  THEN LET s1 == NotifyObserver(AddTransitionFailure(st, d, err), d, "Fail", err)
       IN IF FailPolicy = "Stop" THEN FinishTransRequest(s1, err)
          ELSE AcknowledgeDone(s1, d)
  ELSE AcknowledgeDone(NotifyObserver(st, d, "Pass", "None"), d)

(* Mutant: under fail policy Continue the handler clears the pending     *)
(* flags and completes the members phase but leaves transition_count.     *)
TransitionTimeoutOfKeepCount(st, d) ==
  IF LiveDeferrals(st) # {}
  THEN IF HasEmptyDeferral(st) THEN Crash(st, "empty_deferral")
       ELSE [ResolveDeferrals(st, "None") EXCEPT !.timers[d] = @ + 1]
  ELSE LET s1 == AddTransitionFailure(st, d, "TimedOut")
       IN IF FailPolicy = "Stop"
          THEN CancelTransition(FinishTransRequest(s1, "TimedOut"), d)
          ELSE IF s1.tcount[d] # 0
          THEN CompleteMembersTransition([s1 EXCEPT !.pending = [s \in Sess |-> FALSE]], d)
          ELSE s1

(* domain::transition_timeout, after the timing service took the event.   *)
TransitionTimeoutOf(st, d) ==
  IF LiveDeferrals(st) # {}
  THEN IF HasEmptyDeferral(st) THEN Crash(st, "empty_deferral")
       ELSE [ResolveDeferrals(st, "None") EXCEPT !.timers[d] = @ + 1]
  ELSE LET s1 == AddTransitionFailure(st, d, "TimedOut")
       IN IF FailPolicy = "Stop"
          THEN CancelTransition(FinishTransRequest(s1, "TimedOut"), d)
          ELSE IF s1.tcount[d] # 0
          THEN CompleteMembersTransition([s1 EXCEPT !.pending = [s \in Sess |-> FALSE],
                                                    !.tcount[d] = 0], d)
          ELSE s1

-----------------------------------------------------------------------------
(* Initial state: the hierarchy as construct_hier_from_database leaves it *)
(* and empty server maps.  traverse_dir comes from the byte copy of the   *)
(* database record and is only read after set_state has written it.      *)
Init ==
  /\ hierAdded = FALSE
  /\ ctlJoined = FALSE
  /\ ctlDomain = [s \in Sess |-> None]
  /\ attached = [d \in Doms |-> {}]
  /\ nof = [s \in Sess |-> FALSE]
  /\ pending = [s \in Sess |-> FALSE]
  /\ deferral = [k \in Keys |-> "absent"]
  /\ asyncSts = [k \in Keys |-> "idle"]
  /\ tcount = [d \in Doms |-> 0]
  /\ timers = [d \in Doms |-> 0]
  /\ prop = [d \in MemberDoms |-> StateDomainValue(0, 0)]
  /\ transitionId = 0
  /\ transPropValue = StateDomainValue(0, 0)
  /\ traverseDir \in {"ParentFirst", "ChildrenFirst"}
  /\ transState = 0
  /\ transHeld = 0
  /\ transReplies = [r \in 1 .. MaxTransitions |-> <<>>]
  /\ transTarget = None
  /\ failures = <<>>
  /\ obsLog = <<>>
  /\ observeSession = FALSE
  /\ observerStarted = FALSE
  /\ observeType = {}
  /\ observedDomain = None
  /\ observed = [d \in Doms |-> FALSE]
  /\ observedChildren = 0
  /\ crash = "none"

Running == crash = "none"

Server == <<hierAdded, ctlJoined, ctlDomain, attached, transitionId, transPropValue,
            traverseDir, transState, transTarget>>
Observer == <<observeSession, observerStarted, observeType, observedDomain, observed,
              observedChildren>>

(* domainmngr_server::add_new_hierarchy with the database's id.           *)
AddHierarchy ==
  /\ Running /\ ~hierAdded
  /\ hierAdded' = TRUE
  /\ UNCHANGED <<ctlJoined, ctlDomain, attached, transitionId, transPropValue,
                 traverseDir, transState, transTarget, Observer, cas>>

(* domainmngr_server::join_hierarchy: one control session.               *)
JoinHierarchy ==
  /\ Running /\ hierAdded /\ ~ctlJoined
  /\ ctlJoined' = TRUE
  /\ UNCHANGED <<hierAdded, ctlDomain, attached, transitionId, transPropValue,
                 traverseDir, transState, transTarget, Observer, cas>>

(* domain::attach_session: attached_sessions.push_back.  A session pushed *)
(* twice is notified once: do_members_transition disables its            *)
(* notification at the first copy, so a set keeps what the walk counts.   *)
AttachSession(a, d, s) == [a EXCEPT ![d] = @ \cup {s}]

(* domain_server::join_domain: control_domains is overwritten, while the  *)
(* session is appended to the new domain's attached sessions.            *)
JoinDomain(s, id) ==
  /\ Running /\ hierAdded
  /\ LET d == Lookup(T, IdOf, id)
     IN /\ d # None
        /\ ctlDomain' = [ctlDomain EXCEPT ![s] = d]
        /\ attached' = AttachSession(attached, d, s)
  /\ UNCHANGED <<hierAdded, ctlJoined, transitionId, transPropValue, traverseDir,
                 transState, transTarget, Observer, cas>>

(* request_transition_nof / cancel_transition_nof                         *)
SetTransitionNof(s, on) ==
  /\ Running /\ nof[s] # on
  /\ nof' = [nof EXCEPT ![s] = on]
  /\ UNCHANGED <<Server, Observer, tcount, timers, pending, prop, obsLog, failures,
                 transHeld, transReplies, deferral, asyncSts, crash>>

(* domain_server::acknowledge_last_state quoting the value its domain     *)
(* publishes (any other value is answered NotFound and changes nothing).  *)
(* Looking the deferral up with operator[] leaves an empty entry for the  *)
(* session; the pending flag is cleared after the completion cascade.     *)
(* The root has no state property to compare with.                        *)
Acknowledge(s, err) ==
  /\ Running /\ ctlDomain[s] # None /\ pending[s]
  /\ LET d == ctlDomain[s]
         s1 == [Cas EXCEPT !.asyncSts[s] = IF deferral[s] = "parked" THEN "None" ELSE @,
                           !.deferral[s] = "empty"]
         s2 == CompleteAcknowledgeWithErr(s1, d, err)
     IN IF d = Root THEN Commit(Crash(Cas, "root_state_prop"))
        ELSE Commit([s2 EXCEPT !.pending[s] = FALSE])
  /\ UNCHANGED <<Server, Observer>>

(* std::map::emplace: inserts only when the key is absent.                *)
Emplace(f, k) == IF f[k] = "absent" THEN [f EXCEPT ![k] = "parked"] ELSE f

(* domain_server::defer_acknowledge.  The InUse test looks the record up  *)
(* with operator[], so the emplace that follows finds the key present.   *)
(* The request is completed only on the InUse / NotReady / NotFound       *)
(* paths.  A session has one deferral request outstanding at a time.     *)
DeferAcknowledge(s) ==
  /\ Running /\ asyncSts[s] # "waiting"
  /\ IF ctlDomain[s] = None
     THEN /\ asyncSts' = [asyncSts EXCEPT ![s] = "NotFound"]
          /\ UNCHANGED deferral
     ELSE IF deferral[s] = "parked"
     THEN /\ asyncSts' = [asyncSts EXCEPT ![s] = "InUse"]
          /\ UNCHANGED deferral
     ELSE LET looked == [deferral EXCEPT ![s] = "empty"]
          IN IF pending[s]
             THEN /\ deferral' = Emplace(looked, s)
                  /\ asyncSts' = [asyncSts EXCEPT ![s] = "waiting"]
             ELSE /\ deferral' = looked
                  /\ asyncSts' = [asyncSts EXCEPT ![s] = "NotReady"]
  /\ UNCHANGED <<Server, Observer, tcount, timers, nof, pending, prop, obsLog, failures,
                 transHeld, transReplies, crash>>

(* domain_server::cancel_defer_acknowledge: a parked request completes    *)
(* with InUse; the record is left as an empty entry either way.           *)
CancelDeferAcknowledge(s) ==
  /\ Running /\ ctlDomain[s] # None /\ deferral[s] # "empty"
  /\ asyncSts' = [asyncSts EXCEPT ![s] = IF deferral[s] = "parked" THEN "InUse" ELSE @]
  /\ deferral' = [deferral EXCEPT ![s] = "empty"]
  /\ UNCHANGED <<Server, Observer, tcount, timers, nof, pending, prop, obsLog, failures,
                 transHeld, transReplies, crash>>

(* TDmTraverseDirection numbered as Symbian's domaindefs.h numbers it     *)
(* (assumption A2): the literal 1 is children first, 2 the default.       *)
DirOf(lit) == <<"ParentFirst", "ChildrenFirst", "Default">>[lit + 1]

(* hierarchy::transition(sts, id, state, dir) followed by ctx.complete:  *)
(* the domain is looked up (a miss is answered BadDomainId and changes    *)
(* nothing); set_state keeps any direction but parent first, for which it *)
(* reads trans_domain->state; trans_status holds the request r; the value *)
(* publishes r and the domain id; the traversal starts at the domain; the *)
(* handler then completes the same request with None.                     *)
RequestTransition(id, state, lit) ==
  /\ Running /\ ctlJoined /\ transitionId < MaxTransitions
  /\ LET d == Lookup(T, IdOf, id)
         r == transitionId + 1
         s1 == DoDomainTransition([Cas EXCEPT !.dir = DirOf(lit), !.transHeld = r,
                                              !.pv = StateDomainValue(r, id)], d)
     IN /\ d # None
        /\ IF DirOf(lit) = "ParentFirst"
           THEN /\ Commit(Crash(Cas, "null_trans_domain"))
                /\ UNCHANGED Server
           ELSE /\ Commit(IF Live(s1) THEN [s1 EXCEPT !.transReplies[r] = Append(@, "None")]
                          ELSE s1)
                /\ traverseDir' = DirOf(lit)
                /\ transState' = state
                /\ transitionId' = r
                /\ transPropValue' = StateDomainValue(r, id)
                /\ transTarget' = d
                /\ UNCHANGED <<hierAdded, ctlJoined, ctlDomain, attached>>
  /\ UNCHANGED Observer

(* domainmngr_server::request_domain_transition: the target state and the *)
(* direction are the literals 1 and 2, not the message's arguments.       *)
RequestDomainTransition(id) == RequestTransition(id, 1, 2)

(* domainmngr_server::request_system_transition: state 0 and direction 1  *)
(* from the root (id 0).                                                   *)
RequestSystemTransition == RequestTransition(0, 0, 1)

(* domainmngr_server::cancel_transition.  A held transit request is       *)
(* completed through trans_status_thr, which domain.cpp only ever sets to *)
(* nullptr: the dereference ends the emulator.  observe_status is never   *)
(* set and trans_domain is null, so the other two branches are not taken, *)
(* and with no request held the handler only replies.                     *)
RequestCancelTransition ==
  /\ Running /\ ctlJoined /\ transHeld # 0
  /\ crash' = "null_trans_status_thr"
  /\ UNCHANGED <<Server, Observer, tcount, timers, nof, pending, prop, obsLog, failures,
                 transHeld, transReplies, deferral, asyncSts>>

(* domainmngr_server::observer_join                                       *)
ObserverJoin ==
  /\ Running /\ ctlJoined /\ ~observeSession
  /\ observeSession' = TRUE
  /\ obsLog' = <<>>
  /\ UNCHANGED <<Server, observerStarted, observeType, observedDomain, observed,
                 observedChildren, tcount, timers, nof, pending, prop, failures,
                 transHeld, transReplies, deferral, asyncSts, crash>>

(* domainmngr_server::observer_start: started and observe_type are set    *)
(* before the domain is looked up; a found domain is set_observe'd.       *)
ObserverStart(id, type) ==
  /\ Running /\ ctlJoined /\ observeSession /\ ~observerStarted
  /\ observerStarted' = TRUE
  /\ observeType' = type
  /\ LET d == Lookup(T, IdOf, id)
         visits == ObserveVisits(T, d)
     IN IF d = None
        THEN UNCHANGED <<observed, observedChildren, observedDomain>>
        ELSE /\ observed' = [n \in Doms |-> observed[n] \/ n \in ToSet(visits)]
             /\ observedChildren' = observedChildren + Len(visits)
             /\ observedDomain' = d
  /\ UNCHANGED <<Server, observeSession, cas>>

(* domainmngr_server::observer_cancel: set_observe(false) through         *)
(* observed_domain, which a failed start left null.                       *)
ObserverCancel ==
  /\ Running /\ ctlJoined /\ observeSession /\ observerStarted
  /\ IF observedDomain = None
     THEN /\ crash' = "null_observed_domain"
          /\ UNCHANGED <<observerStarted, observed, observedChildren, observedDomain>>
     ELSE LET visits == ObserveVisits(T, observedDomain)
          IN /\ observerStarted' = FALSE
             /\ observed' = [n \in Doms |-> observed[n] /\ n \notin ToSet(visits)]
             /\ observedChildren' = observedChildren - Len(visits)
             /\ observedDomain' = None
             /\ UNCHANGED crash
  /\ UNCHANGED <<Server, observeSession, observeType, tcount, timers, nof, pending, prop,
                 obsLog, failures, transHeld, transReplies, deferral, asyncSts>>

(* domainmngr_server::observer_notify parks the request in                *)
(* deferral_statuses under the observer's session id.                     *)
ObserverNotify ==
  /\ Running /\ ctlJoined /\ observeSession /\ observerStarted
  /\ asyncSts[Ctl] # "waiting"
  /\ deferral' = Emplace(deferral, Ctl)
  /\ asyncSts' = [asyncSts EXCEPT ![Ctl] = "waiting"]
  /\ UNCHANGED <<Server, Observer, tcount, timers, nof, pending, prop, obsLog, failures,
                 transHeld, transReplies, crash>>

(* The timing service delivers one timeout event of domain d.             *)
TransitionTimeout(d) ==
  /\ Running /\ timers[d] > 0
  /\ Commit(TransitionTimeoutOf([Cas EXCEPT !.timers[d] = @ - 1], d))
  /\ UNCHANGED <<Server, Observer>>

DomainIds == {IdOf[d] : d \in Doms} \cup {BadId}

(* Requests of the manager-server's control session.                      *)
ManagerNext ==
  \/ AddHierarchy
  \/ JoinHierarchy
  \/ \E id \in DomainIds : RequestDomainTransition(id)
  \/ RequestSystemTransition
  \/ RequestCancelTransition

(* Requests of the domain-server member sessions.                         *)
MemberNext ==
  \/ \E s \in Sess, id \in DomainIds : JoinDomain(s, id)
  \/ \E s \in Sess, on \in BOOLEAN : SetTransitionNof(s, on)
  \/ \E s \in Sess, err \in AckErrs : Acknowledge(s, err)
  \/ \E s \in Sess : DeferAcknowledge(s)
  \/ \E s \in Sess : CancelDeferAcknowledge(s)

(* The control session's observer requests.                               *)
ObserverNext ==
  \/ ObserverJoin
  \/ \E id \in DomainIds, type \in ObserveTypes : ObserverStart(id, type)
  \/ ObserverCancel
  \/ ObserverNotify

TimerNext == \E d \in Doms : TransitionTimeout(d)

Next == ManagerNext \/ MemberNext \/ ObserverNext \/ TimerNext

(* The timing service delivers every scheduled event; clients promise     *)
(* nothing.                                                               *)
Fairness == \A d \in Doms : WF_vars(TransitionTimeout(d))

Spec == Init /\ [][Next]_vars /\ Fairness

-----------------------------------------------------------------------------
Errors == {"None", "NotFound", "InUse", "NotReady", "Cancel", "TimedOut"} \cup AckErrs

TypeOK ==
  /\ hierAdded \in BOOLEAN /\ ctlJoined \in BOOLEAN
  /\ ctlDomain \in [Sess -> Doms \cup {None}]
  /\ attached \in [Doms -> SUBSET Sess]
  /\ nof \in [Sess -> BOOLEAN] /\ pending \in [Sess -> BOOLEAN]
  /\ deferral \in [Keys -> {"absent", "empty", "parked"}]
  /\ asyncSts \in [Keys -> {"idle", "waiting"} \cup Errors]
  /\ tcount \in [Doms -> Int]
  /\ timers \in [Doms -> Nat]
  /\ prop \in [MemberDoms -> [tid : 0 .. 255, val : Nat]]
  /\ transitionId \in 0 .. MaxTransitions
  /\ traverseDir \in {"ParentFirst", "ChildrenFirst", "Default"}
  /\ transHeld \in 0 .. MaxTransitions
  /\ transReplies \in [1 .. MaxTransitions -> Seq(Errors)]
  /\ transTarget \in Doms \cup {None}
  /\ failures \in Seq([dom : Doms, err : Errors])
  /\ obsLog \in Seq([dom : Doms, err : Errors \cup {"Outstanding"}])
  /\ observedDomain \in Doms \cup {None}
  /\ observed \in [Doms -> BOOLEAN]
  /\ observedChildren \in Int

(* A system transition reaches every leaf domain: in the step that       *)
(* requests it, each leaf of the tree publishes the new transition value  *)
(* (request_system_transition's children-first walk from the root through *)
(* do_children_transition's child / peer lists, spec scenario S4).        *)
TraversalReachesEveryLeaf ==
  [][(transitionId' = transitionId + 1 /\ transTarget' = Root /\ crash' = "none")
       => \A l \in MemberDoms : T.count[l] = 0 => prop'[l] = transPropValue']_vars

-----------------------------------------------------------------------------
(* Properties the code is checked against and fails; each run checks one. *)

(* The timeout handler never dereferences a deferral record without a    *)
(* thread (transition_timeout's loop over deferral_statuses).              *)
NoEmptyDeferralDereference == crash # "empty_deferral"

(* A TimedOut failure is recorded only for a domain that still owes       *)
(* acknowledgements to the transition in progress: the timeout event      *)
(* do_members_transition schedules is cleared when the domain completes   *)
(* (spec section 5, "Timeouts": cleared on completion), is cancelled, or  *)
(* the transition is finished.                                            *)
NewFailures == SubSeq(failures', Len(failures) + 1, Len(failures'))
TimeoutOnlyWhileAwaited ==
  [][\A d \in Doms :
       (\E i \in DOMAIN NewFailures : NewFailures[i] = [dom |-> d, err |-> "TimedOut"])
         => transHeld # 0 /\ tcount[d] > 0]_vars

(* domainmngr_server::get_transition_fail_count: what the handler        *)
(* replies, the size of transitions_fail, or BadHierarchyId to a session  *)
(* that has not joined the hierarchy.                                      *)
GetTransitionFailCount == IF ctlJoined THEN Len(failures) ELSE "BadHierarchyId"

(* domainmngr_server::observed_count: observed_children to the session    *)
(* that observes and has started, BadSequence to any other.                *)
ObservedCount ==
  IF ~ctlJoined THEN "BadHierarchyId"
  ELSE IF ~observeSession \/ ~observerStarted THEN "BadSequence"
  ELSE observedChildren

(* The failure count the manager reads counts the failures of the         *)
(* transition in progress only: in the step that requests a transition,   *)
(* transitions_fail holds nothing recorded before it.  Spec scenario S2   *)
(* reads GetTransitionFailureCount as 0 after a transition nobody failed, *)
(* and complete_domain_transition concludes with transitions_fail[0] as   *)
(* the transition's first failure.                                         *)
FailureCountIsPerTransition ==
  [][transitionId' # transitionId => GetTransitionFailCount' = Len(NewFailures)]_vars

(* When no member owes an acknowledgement, a transition publishes to      *)
(* every domain of the target's subtree in the step that requests it,     *)
(* parents after their children (children-first traversal, spec scenario *)
(* S4).                                                                    *)
TraversalReachesEveryDomain ==
  [][\A d \in Doms :
       (/\ transitionId' = transitionId + 1 /\ transTarget' = d /\ crash' = "none"
        /\ \A s \in Sess : ~nof[s])
         => \A n \in Subtree(T, d) \ {Root} : prop'[n] = transPropValue']_vars

(* A domain whose transition_count still counts owed acknowledgements    *)
(* has a member session that can deliver one: a session of that domain    *)
(* with acknowledge_pending set.  transition_timeout under fail policy    *)
(* Continue is documented to remove "the pending acknowledge of the       *)
(* current domain" only (comment above domain::transition_timeout).       *)
AwaitedAckDeliverable ==
  \A d \in MemberDoms :
    tcount[d] > 0 => \E s \in Sess : pending[s] /\ ctlDomain[s] = d

(* A domain waiting for acknowledgements stops waiting: once a member     *)
(* owes one, the timeout that do_members_transition schedules ends the    *)
(* wait by a TimedOut failure unless a deferral buys one more quantum     *)
(* (spec property 7: a second timeout with no new deferral records the    *)
(* failure).  observer_notify parks the observer's request among the      *)
(* members' deferrals, so an observer that re-arms its notify extends     *)
(* every timeout.                                                          *)
AcknowledgementWaitEnds ==
  \A d \in MemberDoms : tcount[d] > 0 ~> (tcount[d] <= 0 \/ crash # "none")

(* Spec scenario S2 and property 3: a transition whose members all        *)
(* acknowledge with Success completes.  When a domain's members phase     *)
(* ends, complete_members_transition must move on rather than restart the *)
(* members phase without end (stack overflow).                            *)
MembersPhaseEnds == crash # "members_recursion"
=============================================================================
