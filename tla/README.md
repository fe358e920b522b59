# TLA+ models of EKA2L1's domain manager, MMU accessors and cp_queue

This directory holds TLA+ specifications of three parts of the emulator. The first is the domain manager services in
`src/src/emu/services/src/domain/domain.cpp`. The second is the sized guest-memory accessors in
`src/src/emu/mem/src/mmu.cpp`. The third is the removable priority queue `cp_queue` in
`src/src/emu/common/include/common/queue.h`. Each part has the TLC configurations that check it.

## The system's parts

| Part | Source | Status |
|---|---|---|
| Domain tree construction, lookup and observe walk | domain.cpp 83-197, 231-253 | modelled (`DomainDb`, `DomainTree`) |
| Transition engine: `hierarchy`, `domain`, `domain_server` (members), `domainmngr_server` (manager and observer) | domain.cpp 40-855 | partly (`DomainTransition`) |
| MMU `read_N`/`write_N`, page-size profile | mmu.cpp 35-217 | modelled (`Mmu`, refines `GuestMemory`) |
| MMU CPU mapping and factory | mmu.cpp | not modelled: forwarding to the CPU backend only |
| Memory models and page tables | not in the sources | `get_host_pointer` modelled from the spec as a page lookup |
| CDL server | cdl.cpp | not modelled (see below) |
| `cp_queue` | common/queue.h | modelled (`CpQueue`, refines `PriorityBag`) |
| Window server headers, debugger and logger | window/common.h, window.h, debugger.h, logger.h | not modelled: declarations and UI only |

### How the domain parts interact

A *hierarchy* is a tree of *domains* built from a static database. Each record names a domain and its owner.

- The manager server (`domainmngr_server`) does the following:
  - adds and joins hierarchies;
  - requests transitions;
  - cancels transitions;
  - runs the observer.
- Member sessions (`domain_server`) do the following:
  - join a domain;
  - ask for transition notification;
  - acknowledge or defer.
- A transition works as follows:
  1. It starts at the target domain. In the children-first direction (system transitions) it walks the children before the members; in any other direction (domain transitions, see A2) it runs the target's members only.
  2. At each domain, it notifies the waiting member sessions.
  3. It counts the acknowledgements still owed.
  4. If any are owed, it schedules a timeout event.
  5. When a domain completes, it publishes `make_state_domain_value(transition_id, state)` to its property.
  6. It decrements the parent's pending count.
  7. At the transition's own domain, it finishes the manager's transit request.

Everything runs on the emulator's single kernel thread. Each IPC handler is therefore atomic, and so is the timer callback `transition_timeout`. In the model, each one is one action, and the synchronous recursive cascade inside a handler is a set of recursive operators. These operators work on one record of the engine state, so the cascade and its trailing updates happen in the same step.

## Modules

- **DomainDb**: pure operators over the tree kept in the intrusive pointers (`parent`, `child`, `peer`, `child_count`):
  - `LinkDomain` (construct_domain_from_database);
  - `Lookup`/`LookupChild`;
  - `ChildSeq`;
  - `ObserveVisits` (set_observe's walk);
  - `StateDomainKey` (with `Bitwise`).
  - `Subtree` is the reference definition that the walks are checked against.
- **DomainTree** (`MCDomainTree`): builds the tree one record per step from every well-formed database of up to three records.
- **DomainTransition** (`MCDomainTransition`): the whole engine.
  - State: the tree, `transition_count` and `timers` per domain, and the hierarchy's fields:
    - transition id, state and direction;
    - the held transit status (`transHeld`);
    - the transition failures;
    - the deferral map;
    - the observer fields.
  - Session state: `control_domains`, `acknowledge_pending` and the notification cells.
  - Actions: one per IPC handler (domain.cpp 200-798), plus `TransitionTimeout(d)` for the timer callback.
  - Crashes: a null dereference stops the model in a `crash` state naming the dereference. Nothing runs after it, which is why the engine configurations set `CHECK_DEADLOCK FALSE`.
  - Read-only handlers: `GetTransitionFailCount` and `ObservedCount` are the values `get_transition_fail_count` and `observed_count` reply; they change nothing, so they are operators, not actions.
  - Replies: each completion of a client's status is appended to a reply log (`transReplies`; `asyncSts` for deferral and observer-notify requests), so properties can count completions.
- **GuestMemory**: the abstract promise of the MMU for accesses within one page (spec 4.1 leaves alignment to the guest CPU). It is a byte-addressed, little-endian memory where a sized access succeeds exactly when its page is mapped.
- **PriorityBag**: the abstract promise of `cp_queue`: a bag of values; top-and-pop hands out a value nothing left compares greater than; remove takes one copy out and says whether there was one; resort changes nothing visible.
- **CpQueue** (`MCCpQueue`): the vector `c` under the libstdc++ heap algorithms that `push`, `pop` and `std::make_heap` run (`PushUp` is `__push_heap`, `AdjustHeap` is `__adjust_heap`, `MakeHeap` is `make_heap`), over 0-based positions. `CpRemove` is `remove` (find the first equal value, erase, make_heap) and `Resort` is `resort`. `CpQueue` instances `PriorityBag` with `bag <- ToBag(c)`. The compare is `std::less` on the value's key; for the one user in the sources, `window::childs` (a `cp_queue<window_ptr>`), that key is the shared pointer's address.
- **Mmu** (`MCMmu`): `read_N`/`write_N`. Each translates the start address with `get_host_pointer` and then copies N bytes of host memory. The host memory is a flat byte array, with frame *f* at `f * PageSize`. `Mmu` instances `GuestMemory` with the guest view of host memory as `mem` and checks `GuestMemorySpec`.

### Assumptions

- A1: the engine model lets every database domain publish to its property. The code never stores the property: `DomainTree` keeps `stateProp` and it stays `None` (construct_domain_from_database, line 162). Without it every transition would stop at the first null dereference.
- A2: `TDmTraverseDirection` is numbered as in Symbian's `domaindefs.h`: 0 parent first, 1 children first, 2 default. The enum is declared in `domain.h`, which is not in the sources; EKA2L1 shares the values with guest binaries, and spec scenario S4 reads `ReqSystemTrans` (literal 1, line 659) as children first. So `request_domain_transition` (literal 2, line 638) runs in the default direction, which `set_state` keeps and `complete_members_transition` treats as parent first, and `set_state`'s parent-first branch (the `trans_domain->state` read at line 413) is never taken. `DirOf` is the only place this reading enters the model.
- Every domain's `init_state` is 0.
- There is one hierarchy (id 1). The database is given by the configuration.
- The ids a client passes come from the database ids plus one unknown id (`BadId`). This covers the early returns.

## Runs

| Run (cfg) | Expect | What it shows |
|---|---|---|
| DomainTree | pass | The built tree matches the database (`ChildCountMatchesChain`). Lookup finds exactly the linked domains. Property keys are distinct. |
| DomainTransition | pass | The whole engine (`Spec`: manager, one member session that may defer, observer, timer) under policy Stop. A system transition's children-first walk from the root publishes to every leaf (`TraversalReachesEveryLeaf`). |
| DomainTransitionWaitEnds | pass | `AcknowledgementWaitEnds` (liveness, weak fairness of the timer only): a domain that counts owed acknowledgements stops waiting even if its members never answer, under policy Continue, with two sessions on sibling domains, each joined once and with its notification armed before the first transition, and two domain or system transitions. |
| DomainTransitionStaleFailures | violation | `FailureCountIsPerTransition`: a member fails one transition with KErrGeneral; when the next transition is requested, `transitions_fail` still holds that failure, so `GetTransitionFailureCount` (`GetTransitionFailCount`) reports 1 for a transition nobody failed (spec S2 expects 0). |
| DomainTransitionObserverExtends | violation | `AcknowledgementWaitEnds` (liveness): an observer that re-arms `observer_notify` keeps a domain waiting forever on a member that never acknowledges. The observer's request sits in `deferral_statuses`, so each timeout takes it for a member's deferral, completes it and reschedules itself instead of recording TimedOut. Without an observer the property holds (`DomainTransitionWaitEnds`). |
| DomainTransitionTimeoutCrash | violation | An acknowledgement or a deferral leaves an empty deferral record whose null thread the next timeout dereferences. |
| DomainTransitionStaleTimer | violation | `TimeoutOnlyWhileAwaited`: a domain transition leaves domain 1's member owing; a system transition's walk then decrements domain 1's `transition_count` as a parent (line 585), so domain 1 completes without unscheduling its timeout, which fires later and records TimedOut for a domain that owes nothing. |
| DomainTransitionMembersRecursion | violation | `MembersPhaseEnds`: a domain transition runs in the default direction (A2), so when its members phase ends `complete_members_transition` restarts it; with nobody left to notify the two calls recurse until the stack overflows (spec S2 expects Success). |
| DomainTransitionParent | violation | A parent's `transition_count` is never set to its number of children, so in a system transition parents never publish. |
| DomainTransitionRelease | violation | `AwaitedAckDeliverable`: under Continue, one domain's timeout clears every session's `acknowledge_pending`, against the handler's own comment. A sibling domain then waits for an acknowledgement nobody can give. |
| CpQueue | pass | push, top-and-pop, remove and resort implement `PriorityBag`. |
| Mmu | pass | Aligned accesses implement `GuestMemory`. |

### Bounds

- Database: `MCDb` is a root with domain 1 (and its child 2) and domain 3. It has depth 2 and two siblings, which is the smallest tree with both a sibling chain and a grandchild. That is what the walks and the parent counting need. `MCLeafDb` (one child) is used for the liveness run `DomainTransitionObserverExtends`: one domain with one member is enough for the observer's notify to extend its timeout. `MCForkDb` (two leaves) is used for the two-session run.
- Sessions: one member session, except in `DomainTransitionRelease` and `DomainTransitionWaitEnds`. There, two sessions each join one domain once and arm their notification before the first transition (`MCJoinOnceSpec`), so that one domain's timeout can reach a session of the other. Arming only before a transition also bounds the run: a member that re-arms while the default-direction members phase restarts adds a TimedOut failure per timeout without end.
- Transitions: the whole-engine run allows one transition, which keeps the full `Spec` (deferrals and the observer together) to about 1.4 million states in a minute; its liveness check did not finish in 15 minutes, so liveness has a run of its own on the two-leaf tree (about 4 thousand states). The violation runs on `MCServerSpec` (no observer) allow two, so that a second transition can start while acknowledgements are still owed, or after the first one recorded a failure (`DomainTransitionStaleFailures`).
- cp_queue: four windows with distinct addresses and at most five entries. Duplicates are allowed, so `remove` takes the first of several equal values. Five entries give a heap with a lone left child, which `__adjust_heap` treats on a path of its own, and a removal from the middle with two levels below.
- MMU: 4 KiB pages; three virtual pages, two mapped to swapped frames and one unmapped; access widths 1, 2, 4 and 8. The run uses the last 8 bytes of a page, so every width ends at or before the page's end.

### Fairness

`WF_vars(TransitionTimeout(d))` for every domain. The timing service delivers a scheduled event unless it is unscheduled (the model clears `timers[d]` where `complete_acknowledge_with_err` unschedules). No fairness is assumed for clients: a session may never acknowledge, and the timeout exists for that case. `AcknowledgementWaitEnds` relies on exactly this: under weak fairness of the timer alone, a member that never acknowledges must still stop holding its domain, and the counterexample is a behaviour in which the timer fires forever while the observer, a client acting as clients may, re-arms its notify.

## Not modelled, and why

The project holds at most 12 runs. The findings below were each seen while modelling. They have no run of their own because a single call shows most of them, and the runs went to multi-step hazards:
- `request_domain_transition` completes the transit request with None as soon as it has handed it to the hierarchy (line 647); `finish_trans_request` later writes the same cell again. Its body is in `domain.h`, which is not in the sources, so the model's `FinishTransRequest` follows the spec and no property is stated about the second write.
- `acknowledge_last_state` clears `acknowledge_pending` after the completion cascade (line 348). When the cascade restarts a default-direction members phase and the session has re-armed its notification, the session owes an acknowledgement it can no longer give. `AwaitedAckDeliverable` catches it when members may re-arm mid-transition; `DomainTransitionRelease` arms before the transition so that its trace shows the Continue timeout.
- No transition is ever concluded: `complete_domain_transition` concludes only at `trans_domain`, which nothing assigns (line 577).
- `set_observe` follows `child` instead of `peer` (line 105), so observing a domain with two children marks only the first child's spine; `ObserveVisits` keeps the walk as the code does.
- `domainmngr_server::cancel_transition` dereferences `trans_status_thr`, which `domain.cpp` only ever sets to nullptr (lines 189, 684), whenever a transit request is held (line 682): cancelling a transition ends the emulator. `RequestCancelTransition` has this crash.
- `observer_cancel` after `observer_start` with an unknown id dereferences a null `observed_domain` (lines 743 and 775).
- The published transition id keeps 8 bits and wraps at 256 (line 88, spec property 5).
- The target domain's id is published where the target state should be (line 446, spec property 3).
- The state property is never stored (line 162).

Properties the code cannot reach yet:
- Accesses that cross a page end: `read_N`/`write_N` translate the start address only, so such an access runs past the page's host frame (mmu.cpp 130). Spec 4.1 makes alignment the guest CPU's concern, so there is no contract to check it against.
- Spec property 6 (deferrals resolve to Cancel under Stop): `defer_acknowledge` never parks a request (its `operator[]` lookup makes the later `emplace` a no-op), so there is no parked deferral to resolve.
- Whether the observer is woken by a log entry: `observe_status` is never assigned, so `finish_observe_request` is unreachable; the observer is completed only by timeouts (`DomainTransitionObserverExtends`).
- A second transition requested while one is in flight (line 444) overwrites `trans_status`; the overwritten request is observable only through a liveness property of transit requests, and every request is already completed at once (line 647).

Parts left out:
- The CDL server: `notify_change` stores the requester in the session's notifier, overwriting an outstanding one, and nothing in the sources completes it. The only property is that such a request is lost, which one call shows; the spec treats CDL as an external skeleton.
- The 20-bit page profile: a 1 MiB page over a flat byte array of host memory is beyond TLC; the accessors do not depend on the page size except through `OffsetMask`, which the 12-bit run exercises.
- The domain manager constructor's init property (`dm_init_key` set to 1), a one-time boot signal outside the hierarchy.
- The IPC table's shared opcode: `REGISTER_IPC` (line 825) registers `cancel_defer_acknowledge` under `EDmStateDeferAcknowledgement`, the opcode of `defer_acknowledge`; which handler a message reaches depends on the server's dispatch table, which is not in the sources, so both handlers are kept reachable, as the spec lists both.
- `cn_queue`, which only adds iterators, and `cp_queue`'s iterators (no caller in the sources writes through them).
- The window server headers, apart from `window::childs`: declarations, enums and key tables, with no state machine. The code that pushes to and reads `childs` is not in the sources.
- The debugger and logger interfaces: UI declarations with no operations defined here.
- The MMU's CPU mapping and factory: `map_to_cpu`, `unmap_from_cpu` and `make_new_mmu` forward to the CPU backend or construct objects and keep no state of their own.
