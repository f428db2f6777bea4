--------------------------- MODULE WorkItemStore ---------------------------
(***************************************************************************)
(* The persistent half of a company run: the work items of one run and the *)
(* role sessions' focus and pending queue, with the operators through      *)
(* which every writer changes them.                                        *)
(*                                                                         *)
(* A store is a record d.  The connection adapter of the store never       *)
(* suspends, so an operator below, the phase hooks it fires included, is   *)
(* one indivisible step for every other coroutine of the process.          *)
(*                                                                         *)
(* A role has one role session, and an item belongs to one role, so the    *)
(* claim and the queued marker of an item, which name a session in the     *)
(* code, are Booleans: "held by" and "queued behind" its owner's session.  *)
(***************************************************************************)
EXTENDS WorkItemPhase, Naturals, SequencesExt

CONSTANTS
  MaxItems,    \* work items a run may hold (bound of the model)
  Roles,       \* roles, one session each
  Owner,       \* the role of every item
  Kind,        \* "execute", "delivery" (human accepts) or "dispatch"
  NoItem       \* the empty focus

Items == 1..MaxItems          \* numbered in creation order

ItemKinds == {"execute", "delivery", "dispatch"}

ASSUME MaxItemsAssumption == MaxItems \in Nat \ {0}
ASSUME OwnerAssumption == Owner \in [Items -> Roles]
ASSUME KindAssumption == Kind \in [Items -> ItemKinds]
ASSUME NoItemAssumption == NoItem \notin Items

\* The phase of an item nobody has created yet.
Absent == "absent"

(***************************************************************************)
(* phase, claim: columns of the work item.  marker: queued_behind_session. *)
(* deps: dependency_work_item_ids.  deleted: deleted_by_manager_tool.      *)
(* synth: synthesis_turn_started.  feedback: rework_feedback is not empty. *)
(* parent: parent_work_item_id.  hold: dispatch_hold of a suspended run.   *)
(* focus, pending: focused_work_item_id and pending_work_item_ids of the   *)
(* role session rows.  cached: pending_work_item_ids as the dispatcher in  *)
(* memory has them.                                                        *)
(***************************************************************************)
Stores ==
  [ phase    : [Items -> Phases \cup {Absent}],
    claim    : [Items -> BOOLEAN],
    marker   : [Items -> BOOLEAN],
    deps     : [Items -> SUBSET Items],
    deleted  : [Items -> BOOLEAN],
    synth    : [Items -> BOOLEAN],
    feedback : [Items -> BOOLEAN],
    parent   : [Items -> Items \cup {NoItem}],
    hold     : [Items -> BOOLEAN],
    focus    : [Roles -> Items \cup {NoItem}],
    pending  : [Roles -> Seq(Items)],
    cached   : [Roles -> Seq(Items)] ]

Created(d) == {i \in Items : d.phase[i] # Absent}

-----------------------------------------------------------------------------
(* Who may run *)

Orphaned(d, i) == d.phase[i] \in ResumablePhases /\ ~d.claim[i]

Dispatchable(d, i) ==
  /\ ~d.marker[i] /\ ~d.hold[i]
  /\ d.phase[i] \in RunnablePhases \/ Orphaned(d, i)

QueueCandidate(d, i) == d.phase[i] \in RunnablePhases /\ ~d.claim[i]

(***************************************************************************)
(* The dependencies that still count: manager-deleted targets and the item *)
(* itself drop out.                                                        *)
(***************************************************************************)
ActiveDeps(d, i) == {j \in d.deps[i] \ {i} : ~d.deleted[j]}

DepsApproved(d, i) == \A j \in ActiveDeps(d, i) : d.phase[j] = "approved"

-----------------------------------------------------------------------------
(* The serial queue of a role session *)

\* The items of S as a sequence, the n-th with n - 1 older ones before it.
InCreationOrder(S) ==
  [n \in 1..Cardinality(S) |-> CHOOSE i \in S : Cardinality({j \in S : j < i}) = n - 1]

\* The entries of the queue q at the positions K, in the order of the queue.
EntriesAt(q, K) == [n \in 1..Cardinality(K) |-> q[InCreationOrder(K)[n]]]

\* Mutant: the focused item itself is queued too, behind itself.
EnqueueBehindAnyFocus(d, S) ==
  LET late == {i \in S : /\ d.focus[Owner[i]] # NoItem
                         /\ i \notin Range(d.pending[Owner[i]])}
  IN [d EXCEPT
        !.pending = [r \in Roles |->
                       @[r] \o InCreationOrder({i \in late : Owner[i] = r})],
        !.marker  = [i \in Items |-> @[i] \/ i \in late]]

(***************************************************************************)
(* enqueue_session_work_on_runnable_hook for the items of S, which have    *)
(* just become runnable: one whose session is focused on another item goes *)
(* to the end of the pending queue and is marked.  The focus is taken as   *)
(* it stands, even on a finished item.  An item already in the queue is    *)
(* left as it is, marked or not.                                           *)
(***************************************************************************)
EnqueueBehindFocus(d, S) ==
  LET late == {i \in S : /\ d.focus[Owner[i]] \notin {NoItem, i}
                         /\ i \notin Range(d.pending[Owner[i]])}
  IN [d EXCEPT
        !.pending = [r \in Roles |->
                       @[r] \o InCreationOrder({i \in late : Owner[i] = r})],
        !.marker  = [i \in Items |-> @[i] \/ i \in late]]

ActiveFocus(d, r) ==
  IF d.focus[r] # NoItem /\ d.phase[d.focus[r]] \notin DonePhases
    THEN d.focus[r] ELSE NoItem

(***************************************************************************)
(* What reconcile_role_serial_queues finds for one session.  clean: the    *)
(* pending items that can still be dispatched.  front: the oldest          *)
(* candidate of the role that waits outside the queue; while there is one, *)
(* nothing is promoted.  blocker: what the rest of the queue waits for.    *)
(***************************************************************************)
QueueView(d, r) ==
  LET active == ActiveFocus(d, r)
      queued == d.pending[r]
      clean  == EntriesAt(queued, {k \in DOMAIN queued : QueueCandidate(d, queued[k])})
      loose  == {i \in Items : /\ Owner[i] = r
                               /\ QueueCandidate(d, i)
                               /\ i \notin Range(clean)
                               /\ ~d.marker[i]}
      front  == IF active = NoItem /\ loose # {}
                  THEN CHOOSE i \in loose : \A j \in loose : i <= j
                  ELSE NoItem
      promote == active = NoItem /\ front = NoItem /\ clean # << >>
  IN [ focus   |-> active,
       pending |-> IF promote THEN Tail(clean) ELSE clean,
       blocker |-> IF active # NoItem THEN active
                   ELSE IF promote THEN Head(clean) ELSE front ]

\* Mutant: markers are never dropped.
ReconcileKeepsMarkers(d, R) ==
  [d EXCEPT
     !.focus   = [r \in Roles |-> IF r \in R THEN QueueView(d, r).focus ELSE @[r]],
     !.pending = [r \in Roles |-> IF r \in R THEN QueueView(d, r).pending ELSE @[r]]]

(***************************************************************************)
(* reconcile_role_serial_queues for the sessions R: prune the queue, drop  *)
(* a dead focus, promote the head when nothing else is in the way, and     *)
(* keep a marker only on an item that is queued behind something.          *)
(***************************************************************************)
Reconcile(d, R) ==
  [d EXCEPT
     !.focus   = [r \in Roles |-> IF r \in R THEN QueueView(d, r).focus ELSE @[r]],
     !.pending = [r \in Roles |-> IF r \in R THEN QueueView(d, r).pending ELSE @[r]],
     !.marker  = [i \in Items |->
                    LET v == QueueView(d, Owner[i]) IN
                    @[i] /\ (Owner[i] \in R =>
                               /\ i \in Range(v.pending)
                               /\ v.blocker \notin {NoItem, i})]]

-----------------------------------------------------------------------------
(* The dependency frontier *)

(***************************************************************************)
(* A parent back from its children gets one synthesis turn, unless its     *)
(* work kind already is the gathering of results.                          *)
(***************************************************************************)
EntersSynthesis(d, i) ==
  /\ d.phase[i] = "waiting_for_children"
  /\ ActiveDeps(d, i) # {}
  /\ ~d.synth[i]
  /\ Kind[i] # "delivery"
  /\ \E c \in Items : d.parent[c] = i

\* Where an item goes whose dependencies are all approved ...
Released(d, i) ==
  CASE d.phase[i] = "waiting_for_children" ->
         IF EntersSynthesis(d, i) THEN "ready" ELSE "running"
    [] d.phase[i] = "waiting_dependencies" ->
         IF d.feedback[i] THEN "ready_for_rework" ELSE "ready"
    [] OTHER -> d.phase[i]

\* Mutant: only a running item goes back to waiting.
HeldIfRunning(p) == IF p = "running" THEN "waiting_for_children" ELSE p

\* ... and where one goes that has a dependency that is not.
Held(p) == CASE p = "ready"   -> "waiting_dependencies"
             [] p = "running" -> "waiting_for_children"
             [] OTHER -> p

FrontierTarget(d, i) ==
  IF d.deps[i] = {} THEN d.phase[i]
  ELSE IF DepsApproved(d, i) THEN Released(d, i) ELSE Held(d.phase[i])

\* The items of moved that wake from their children, and lose their claim.
ClaimLapses(d, moved) == {i \in moved : d.phase[i] = "waiting_for_children"}

(***************************************************************************)
(* refresh_dependents_for_run.  Every decision is taken from the items as  *)
(* they were when the pass began; a rejected write (an illegal transition) *)
(* is swallowed and leaves its item wholly unchanged.  A wake from         *)
(* waiting_for_children releases the claim.  The nested hooks can only     *)
(* enqueue: a nested refresh of the same run returns at once.              *)
(***************************************************************************)
RefreshDependents(d) ==
  LET target  == [i \in Items |-> FrontierTarget(d, i)]
      allowed == {i \in Created(d) : Legal(d.phase[i], target[i])}
      moved   == {i \in allowed : target[i] # d.phase[i]}
      written ==
        [d EXCEPT
           !.phase = [i \in Items |-> IF i \in moved THEN target[i] ELSE @[i]],
           !.deps  = [i \in Items |->
                        IF i \in allowed THEN ActiveDeps(d, i) ELSE @[i]],
           !.synth = [i \in Items |->
                        @[i] \/ (i \in moved /\ EntersSynthesis(d, i))],
           !.claim = [i \in Items |-> @[i] /\ i \notin ClaimLapses(d, moved)]]
  IN EnqueueBehindFocus(written, {i \in moved : target[i] \in RunnablePhases})

-----------------------------------------------------------------------------
(* Writing a phase *)

(***************************************************************************)
(* clear_session_focus_on_terminal_hook: only the owner's session can be   *)
(* focused on i.                                                           *)
(***************************************************************************)
ClearFocus(d, i) ==
  Reconcile([d EXCEPT !.focus[Owner[i]] = IF @ = i THEN NoItem ELSE @], {Owner[i]})

(***************************************************************************)
(* on_phase_transition after a save that changed the phase of i, the hooks *)
(* in the order they are registered.                                       *)
(***************************************************************************)
FireHooks(d, i) ==
  LET p         == d.phase[i]
      refreshed == IF p \in DependentRefreshTargets THEN RefreshDependents(d) ELSE d
      cleared   == IF p \in DonePhases THEN ClearFocus(refreshed, i) ELSE refreshed
  IN IF p \in RunnablePhases THEN EnqueueBehindFocus(cleared, {i}) ELSE cleared

(***************************************************************************)
(* A save of item i whose new phase is p; the caller has checked that the  *)
(* transition is legal.                                                    *)
(***************************************************************************)
SavePhase(d, i, p) ==
  IF p = d.phase[i] THEN d
  ELSE FireHooks([d EXCEPT !.phase[i] = p], i)

\* Mutant: a late writer overwrites where the item has moved meanwhile.
TransitionUnchecked(d, i, p) == SavePhase(d, i, p)

(***************************************************************************)
(* transition_work_item_from_task: a transition the table rejects, from a  *)
(* writer that comes too late, is preserved silently.                      *)
(***************************************************************************)
Transition(d, i, p) == IF Legal(d.phase[i], p) THEN SavePhase(d, i, p) ELSE d

(***************************************************************************)
(* reopen_approved_delegation_work_item_for_rework: the one write that     *)
(* bypasses the transition table.                                          *)
(***************************************************************************)
ReopenApproved(d, i) ==
  FireHooks([d EXCEPT !.phase[i] = "ready_for_rework", !.claim[i] = FALSE], i)

\* Mutant: the items are queued, and their phase is not written.
SaveReadyUnwritten(d, S) == EnqueueBehindFocus(d, S)

(***************************************************************************)
(* Several items that become runnable one after the other: each save fires *)
(* its enqueue hook, and no hook of theirs moves a phase or a focus.       *)
(***************************************************************************)
SaveReady(d, S) ==
  EnqueueBehindFocus([d EXCEPT !.phase = [i \in Items |->
                                            IF i \in S THEN "ready" ELSE @[i]]], S)

=============================================================================
