-------------------------- MODULE CompanyDispatch --------------------------
(***************************************************************************)
(* The kanban-push dispatcher of company mode: one loop that releases,     *)
(* queues and claims work items for the role sessions of a run, the turns  *)
(* it spawns (one coroutine each), and the actors that edit the board      *)
(* while turns are in flight: reviewers, the human, managers with their    *)
(* modify and delete tools, and peers that answer a blocking message.      *)
(*                                                                         *)
(* A step is what a coroutine does between two suspensions; everything     *)
(* that only touches the store belongs to the step (see WorkItemStore).    *)
(***************************************************************************)
EXTENDS WorkItemStore

CONSTANTS
  Reports,     \* Reports[r]: the roles r may delegate to
  MaxEdits,    \* bound on reworks, reopenings and manager edits in a run
  Rewiring     \* bound: whether managers' edits change dependencies too

ASSUME ReportsAssumption == Reports \in [Roles -> SUBSET Roles]
ASSUME MaxEditsAssumption == MaxEdits \in Nat
ASSUME RewiringAssumption == Rewiring \in BOOLEAN

VARIABLES
  db,          \* the store (WorkItemStore)
  sess,        \* in-memory member session of each role: status, focused item
  turn,        \* the turn in flight of each role, if any
  queue,       \* in-memory FIFO of dispatchable items of each role
  replied,     \* parked items whose blocking messages have been answered
  edits,       \* edits left
  loop         \* the dispatcher loop: "running", or "crashed"

vars == <<db, sess, turn, queue, replied, edits, loop>>

Root == 1      \* the item the run starts from

(***************************************************************************)
(* stage: "claimed" (spawned, not started), "running" (the agent works),   *)
(* "ending" (phase written, claim not yet completed).  stale: a manager    *)
(* has revised the item since the claim.  parks: the local task status is  *)
(* one that blocks the session.                                            *)
(***************************************************************************)
Turns    == [stage : {"none", "claimed", "running", "ending"},
             stale : BOOLEAN, parks : BOOLEAN]
NoTurn   == [stage |-> "none", stale |-> FALSE, parks |-> FALSE]
Sessions == [status : {"idle", "running", "blocked"}, item : Items \cup {NoItem}]
Idle     == [status |-> "idle", item |-> NoItem]

TypeOK ==
  /\ db \in Stores
  /\ sess \in [Roles -> Sessions]
  /\ turn \in [Roles -> Turns]
  /\ queue \in [Roles -> Seq(Items)]
  /\ replied \in SUBSET Items
  /\ edits \in 0..MaxEdits
  /\ loop \in {"running", "crashed"}

Init ==
  /\ db = [ phase    |-> [i \in Items |-> IF i = Root THEN "ready" ELSE Absent],
            claim    |-> [i \in Items |-> FALSE],
            marker   |-> [i \in Items |-> FALSE],
            deps     |-> [i \in Items |-> {}],
            deleted  |-> [i \in Items |-> FALSE],
            synth    |-> [i \in Items |-> FALSE],
            feedback |-> [i \in Items |-> FALSE],
            parent   |-> [i \in Items |-> NoItem],
            hold     |-> [i \in Items |-> FALSE],
            focus    |-> [r \in Roles |-> NoItem],
            pending  |-> [r \in Roles |-> << >>],
            cached   |-> [r \in Roles |-> << >>] ]
  /\ sess = [r \in Roles |-> Idle]
  /\ turn = [r \in Roles |-> NoTurn]
  /\ queue = [r \in Roles |-> << >>]
  /\ replied = {}
  /\ edits = MaxEdits
  /\ loop = "running"

(***************************************************************************)
(* save_delegation_role_session of the in-memory role session: the whole   *)
(* row, focus and pending queue included.  The queue in memory is the one  *)
(* bootstrap read when the run was started.                                *)
(***************************************************************************)
SaveRoleSession(d, r, focus) ==
  [d EXCEPT !.focus[r] = focus, !.pending[r] = d.cached[r]]

InFlight(r) == turn[r].stage # "none"
Flying(i) == InFlight(Owner[i]) /\ sess[Owner[i]].item = i

-----------------------------------------------------------------------------
(* The loop *)

(***************************************************************************)
(* _work_item_is_runnable: what a tick may put in a role's queue.          *)
(***************************************************************************)
Runnable(d, i) ==
  /\ \/ d.phase[i] \in RunnablePhases \cup {"paused", "needs_attention",
                                            "waiting_for_children"}
     \/ Orphaned(d, i)
  /\ ~d.deleted[i] /\ ~d.hold[i]
  /\ DepsApproved(d, i)

(***************************************************************************)
(* Items parked on a peer whose answers have all arrived; a turn still in  *)
(* flight keeps its item.                                                  *)
(***************************************************************************)
Unparkable(d) ==
  {i \in replied : d.phase[i] = "waiting_for_peer" /\ ~Flying(i)}

Satisfied(d) ==
  {i \in Items : d.phase[i] = "waiting_dependencies" /\ DepsApproved(d, i)}

(***************************************************************************)
(* _refresh_ready_work_items writes ready_for_rework for a satisfied item  *)
(* with feedback, a write the transition table rejects.  The exception is  *)
(* not caught in the loop.                                                 *)
(***************************************************************************)
ReleaseFault(d) == \E i \in Satisfied(d) : d.feedback[i]

(***************************************************************************)
(* enqueue_runnable_work_items: append what may run and is not queued.     *)
(***************************************************************************)
Enqueued(d, r) ==
  queue[r] \o InCreationOrder({i \in Items : /\ Owner[i] = r
                                             /\ Runnable(d, i)
                                             /\ Dispatchable(d, i)
                                             /\ i \notin Range(queue[r])})

(***************************************************************************)
(* _rehydrate_parked_member_sessions: a blocked session is freed when the  *)
(* item it is parked on has become dispatchable.                           *)
(***************************************************************************)
Rehydrated(d, s) ==
  IF s.status = "blocked" /\ Dispatchable(d, s.item) THEN Idle ELSE s

\* Mutant: the head of the queue is claimed as it is.
ClaimableUnchecked(d, q) == DOMAIN q

\* Mutant: an item whose turn is gone is not taken up again.
ClaimableFresh(d, q) == {k \in DOMAIN q : d.phase[q[k]] \in RunnablePhases /\ ~d.marker[q[k]]}

(***************************************************************************)
(* claim_runnable_tasks for the role r: an idle session pops its queue up  *)
(* to the first entry that is still dispatchable.  Only that is checked    *)
(* again, not the dependencies.                                            *)
(***************************************************************************)
Claimable(d, q) == {k \in DOMAIN q : Dispatchable(d, q[k])}
FirstClaimable(d, q) == CHOOSE k \in Claimable(d, q) :
                           \A j \in Claimable(d, q) : k <= j

(***************************************************************************)
(* The work items the claim pass C takes (one per role in its domain),     *)
(* written by _claim_role_session_work_item: running, unless the item is   *)
(* in review, claimed, and the whole role session row.                     *)
(***************************************************************************)
WriteClaims(d, C) ==
  LET taken == {C[r] : r \in DOMAIN C}
  IN [d EXCEPT
        !.phase   = [i \in Items |-> IF i \in taken /\ @[i] \notin InReviewPhases
                                       THEN "running" ELSE @[i]],
        !.claim   = [i \in Items |-> @[i] \/ i \in taken],
        !.focus   = [r \in Roles |-> IF r \in DOMAIN C THEN C[r] ELSE @[r]],
        !.pending = [r \in Roles |-> IF r \in DOMAIN C THEN d.cached[r] ELSE @[r]]]

(***************************************************************************)
(* Every idle role takes the first item of its queue it may claim; what    *)
(* stood before it in the queue is dropped (claim_next_work_item).         *)
(***************************************************************************)
ClaimWork(d, q, s) ==
  LET free  == {r \in Roles : s[r].status = "idle"}
      able  == {r \in free : Claimable(d, q[r]) # {}}
      claim == [r \in able |-> q[r][FirstClaimable(d, q[r])]]
  IN /\ db' = WriteClaims(d, claim)
     /\ sess' = [r \in Roles |->
                   IF r \in able THEN [status |-> "running", item |-> claim[r]]
                   ELSE s[r]]
     /\ turn' = [r \in Roles |->
                   IF r \in able THEN [NoTurn EXCEPT !.stage = "claimed"]
                   ELSE turn[r]]
     /\ queue' = [r \in Roles |->
                    IF r \in able
                      THEN SubSeq(q[r], FirstClaimable(d, q[r]) + 1, Len(q[r]))
                    ELSE IF r \in free THEN << >> ELSE q[r]]

(***************************************************************************)
(* One iteration of the loop up to the wait: unpark and release, reconcile *)
(* the serial queues, queue what is runnable, rehydrate, claim and spawn.  *)
(***************************************************************************)
Tick ==
  /\ loop = "running"
  /\ ~ReleaseFault(db)
  /\ \E unparked \in {SaveReady(db, Unparkable(db))}, due \in {Satisfied(db)} :
     \E released \in {SaveReady(unparked, due)} :
     \E d \in {Reconcile(released, Roles)} :
     \E q \in {[r \in Roles |-> Enqueued(d, r)]} :
     \E s \in {[r \in Roles |-> Rehydrated(d, sess[r])]} :
       ClaimWork(d, q, s)
  /\ replied' = replied \ Unparkable(db)
  /\ UNCHANGED <<edits, loop>>

(***************************************************************************)
(* The same iteration when the release raises: what was written before it  *)
(* stays (the unparked items, and the satisfied items older than the first *)
(* one at fault), the loop is gone, and the turns in flight are drained.   *)
(***************************************************************************)
TickRaises ==
  /\ loop = "running"
  /\ ReleaseFault(db)
  /\ db' = SaveReady(SaveReady(db, Unparkable(db)),
                     {i \in Satisfied(db) : \A j \in Satisfied(db) :
                                              db.feedback[j] => i < j})
  /\ loop' = "crashed"
  /\ replied' = replied \ Unparkable(db)
  /\ UNCHANGED <<sess, turn, queue, edits>>

Loop == Tick \/ TickRaises

-----------------------------------------------------------------------------
(* A turn *)

(***************************************************************************)
(* The coroutine marks its item running: when it starts, and again when    *)
(* the manager-dispatch guard has it repeat the turn.                      *)
(***************************************************************************)
StartTurn(r) ==
  /\ turn[r].stage \in {"claimed", "running"}
  /\ db' = Transition(db, sess[r].item, "running")
  /\ turn' = [turn EXCEPT ![r].stage = "running"]
  /\ UNCHANGED <<sess, queue, replied, edits, loop>>

(***************************************************************************)
(* delegate_work with one child: the next item, for a report of the role,  *)
(* waiting when it names dependencies; the parent then depends on it.      *)
(***************************************************************************)
Delegate(r) ==
  LET parent == sess[r].item
      new    == Cardinality(Created(db)) + 1
      peers  == {j \in Created(db) : db.parent[j] = parent /\ ~db.deleted[j]}
  IN /\ turn[r].stage = "running"
     /\ new \in Items
     /\ Owner[new] \in Reports[r]
     /\ \E deps \in SUBSET peers :
          LET child == [db EXCEPT
                          !.phase[new]  = IF deps = {} THEN "ready"
                                          ELSE "waiting_dependencies",
                          !.deps[new]   = deps,
                          !.parent[new] = parent]
              saved == IF deps = {} THEN EnqueueBehindFocus(child, {new}) ELSE child
          IN db' = [saved EXCEPT !.deps[parent] = ActiveDeps(saved, parent) \cup {new}]
     /\ UNCHANGED <<sess, turn, queue, replied, edits, loop>>

(***************************************************************************)
(* The turn of r ends and leaves the store d; parks is what complete_claim *)
(* will read from the local task status.                                   *)
(***************************************************************************)
EndTurn(r, d, parks) ==
  /\ turn[r].stage = "running"
  /\ db' = d
  /\ turn' = [turn EXCEPT ![r].stage = "ending", ![r].parks = parks]
  /\ UNCHANGED <<sess, queue, replied, edits, loop>>

\* The turn of r has a result, and no manager has changed the item since.
Returns(r) == turn[r].stage = "running" /\ ~turn[r].stale

(***************************************************************************)
(* A manager changed the item during the turn: the result is dropped.      *)
(***************************************************************************)
DropStaleResult(r) == turn[r].stale /\ EndTurn(r, db, FALSE)

(***************************************************************************)
(* _park_for_blocking_comms, or a result that awaits a peer: the session   *)
(* blocks (peer_wait) whether or not the phase could be written.           *)
(***************************************************************************)
ParkForPeer(r) ==
  /\ Returns(r)
  /\ EndTurn(r, Transition(db, sess[r].item, "waiting_for_peer"), TRUE)

(***************************************************************************)
(* What _park_for_delegated_children waits for: the dependencies that      *)
(* still count, or else the visible children filed against the item.       *)
(***************************************************************************)
WaitSet(d, i) ==
  IF ActiveDeps(d, i) # {} THEN ActiveDeps(d, i)
  ELSE {c \in Items : d.parent[c] = i /\ ~d.deleted[c]}

Unapproved(d, S) == {j \in S : d.phase[j] # "approved"}

ParkForChildren(r) ==
  LET i      == sess[r].item
      wait   == WaitSet(db, i)
      pruned == [db EXCEPT !.deps[i] = ActiveDeps(db, i)]
      lands  == Legal(db.phase[i], "waiting_for_children")
  IN /\ Returns(r)
     /\ Unapproved(db, wait) # {}
     /\ EndTurn(r, IF lands THEN SavePhase([pruned EXCEPT !.deps[i] = wait], i,
                                           "waiting_for_children")
                   ELSE pruned,
                lands)

(***************************************************************************)
(* Where _apply_done_transition sends a finished item.                     *)
(***************************************************************************)
DoneTarget(d, i) ==
  CASE Kind[i] = "delivery" -> "awaiting_human"
    [] Kind[i] = "dispatch" \/ d.synth[i] \/ i = Root -> "approved"
    [] OTHER -> "awaiting_manager_review"

FinishWork(r) ==
  LET i      == sess[r].item
      pruned == [db EXCEPT !.deps[i] = ActiveDeps(db, i)]
      target == DoneTarget(db, i)
  IN /\ Returns(r)
     /\ Unapproved(db, WaitSet(db, i)) = {}
     /\ EndTurn(r, Transition(pruned, i, target),
                target = "awaiting_human" /\ Legal(db.phase[i], target))

(***************************************************************************)
(* The turn exceeds its time limit, exhausts the dispatch guard or raises. *)
(* The revision of the item is not looked at on this path.                 *)
(***************************************************************************)
TurnTimesOut(r) == EndTurn(r, Transition(db, sess[r].item, "failed"), FALSE)

(***************************************************************************)
(* The agent returns a result that is neither done nor waiting: no phase   *)
(* is written.                                                             *)
(***************************************************************************)
TurnReturnsFailure(r) == Returns(r) /\ EndTurn(r, db, FALSE)

(***************************************************************************)
(* complete_claim: the session parks on the item or is idle again, and the *)
(* in-memory role session is saved.                                        *)
(***************************************************************************)
CompleteClaim(r) ==
  /\ turn[r].stage = "ending"
  /\ db' = SaveRoleSession(db, r, IF turn[r].parks THEN sess[r].item ELSE NoItem)
  /\ sess' = [sess EXCEPT ![r] = IF turn[r].parks THEN [@ EXCEPT !.status = "blocked"]
                                 ELSE Idle]
  /\ turn' = [turn EXCEPT ![r] = NoTurn]
  /\ UNCHANGED <<queue, replied, edits, loop>>

-----------------------------------------------------------------------------
(* The actors around the loop *)

\* The answers item i is parked for have arrived in its role's inbox.
PeerReplies(i) ==
  /\ db.phase[i] = "waiting_for_peer"
  /\ replied' = replied \cup {i}
  /\ UNCHANGED <<db, sess, turn, queue, edits, loop>>

Approve(i) ==
  /\ db.phase[i] \in InReviewPhases
  /\ \E b \in {FALSE, db.feedback[i]} :
        db' = SavePhase([db EXCEPT !.feedback[i] = b], i, "approved")
  /\ UNCHANGED <<sess, turn, queue, replied, edits, loop>>

\* A reviewer's reject, or the human's request for rework, which may have no text.
Rework(i) ==
  /\ db.phase[i] \in InReviewPhases
  /\ edits > 0
  /\ \E b \in {TRUE, db.feedback[i]} :
        db' = SavePhase([db EXCEPT !.feedback[i] = b], i, "ready_for_rework")
  /\ edits' = edits - 1
  /\ UNCHANGED <<sess, turn, queue, replied, loop>>

\* Mutant: the item is saved with the status of its task for a phase.
EscalateAsTaskStatus(i) ==
  /\ db.phase[i] = "awaiting_manager_review"
  /\ db' = SavePhase(db, i, "awaiting_human_input")
  /\ UNCHANGED <<sess, turn, queue, replied, edits, loop>>

\* The reviewer rejects at the rework cap, or escalates: a human has to decide.
EscalateToHuman(i) ==
  /\ db.phase[i] = "awaiting_manager_review"
  /\ \E b \in BOOLEAN :
        db' = SavePhase([db EXCEPT !.feedback[i] = b], i, "awaiting_human")
  /\ UNCHANGED <<sess, turn, queue, replied, edits, loop>>

\* The human rejects in the review panel.
HumanRejects(i) ==
  /\ db.phase[i] \in InReviewPhases
  /\ db' = SavePhase(db, i, "failed")
  /\ UNCHANGED <<sess, turn, queue, replied, edits, loop>>

(***************************************************************************)
(* What a manager mutation takes from the item, and the turns it outdates. *)
(***************************************************************************)
Mutated(d, S) ==
  [d EXCEPT !.marker   = [i \in Items |-> @[i] /\ i \notin S],
            !.claim    = [i \in Items |-> @[i] /\ i \notin S],
            !.hold     = [i \in Items |-> @[i] /\ i \notin S],
            !.feedback = [i \in Items |-> @[i] /\ i \notin S]]

Outdate(S) ==
  turn' = [r \in Roles |-> IF InFlight(r) /\ sess[r].item \in S
                             THEN [turn[r] EXCEPT !.stale = TRUE] ELSE turn[r]]

(***************************************************************************)
(* The manager's tools work in any of its turns: its own item's, a review  *)
(* card's, a conversation's.  The last two are not items of this module,   *)
(* so an edit may come at any time.                                        *)
(*                                                                         *)
(* modify_work_item on a child, which may get other dependencies: any      *)
(* items but itself, its parent and its own dependents included.  With     *)
(* reset_to_ready the item goes back to its worker (approved work is       *)
(* reopened) and the frontier is recomputed.                               *)
(***************************************************************************)
NewDeps(i) ==
  {db.deps[i]} \cup
  IF Rewiring THEN SUBSET {j \in Created(db) \ {i} : ~db.deleted[j]} ELSE {}

ModifyWorkItem(i, reset, deps) ==
  LET d      == [Mutated(db, {i}) EXCEPT !.deps[i] = deps]
      back   == IF d.phase[i] \in InReviewPhases \cup {"ready_for_rework"}
                  THEN "ready_for_rework" ELSE "ready"
  IN /\ edits > 0
     /\ i # Root
     /\ db.phase[i] \notin {Absent, "failed", "cancelled"}
     /\ db' = IF ~reset THEN d
              ELSE RefreshDependents(IF d.phase[i] = "approved"
                                       THEN ReopenApproved(d, i)
                                       ELSE SavePhase(d, i, back))
     /\ Outdate({i})
     /\ edits' = edits - 1
     /\ UNCHANGED <<sess, queue, replied, loop>>

\* i and every item below it; a child is younger than its parent.
Subtree(d, i) ==
  LET under[j \in Items] == j = i \/ (d.parent[j] # NoItem /\ under[d.parent[j]])
  IN {j \in Created(d) : under[j]}

(***************************************************************************)
(* delete_work_item: the subtree is marked deleted and cancelled (finished *)
(* items keep their phase), stale edges to the item are cut, an item that  *)
(* waited for nothing else wakes, and the frontier is recomputed.  The     *)
(* saves of the cascade are taken together, with their hooks once at the   *)
(* end; the code saves one item after the other within the same step.      *)
(***************************************************************************)
Cancelled(d, S) ==
  [d EXCEPT !.deleted = [j \in Items |-> @[j] \/ j \in S],
            !.phase   = [j \in Items |-> IF j \in S /\ @[j] \notin DonePhases
                                           THEN "cancelled" ELSE @[j]],
            !.focus   = [r \in Roles |-> IF @[r] \in S /\ d.phase[@[r]] \notin DonePhases
                                           THEN NoItem ELSE @[r]]]

DeleteWorkItem(i) ==
  LET S       == Subtree(db, i)
      live    == {j \in S : db.phase[j] \notin DonePhases}
      gone    == Cancelled(Mutated(db, S), S)
      hooked  == IF live = {} THEN gone
                 ELSE Reconcile(RefreshDependents(gone), {Owner[j] : j \in live})
      cut     == [hooked EXCEPT !.deps = [j \in Items |-> @[j] \ {i}]]
      woken   == {j \in Items : /\ i \in hooked.deps[j] /\ cut.deps[j] = {}
                                /\ cut.phase[j] \in {"waiting_dependencies",
                                                     "waiting_for_children"}}
      freed   == [cut EXCEPT !.claim = [j \in Items |-> @[j] /\ j \notin woken]]
  IN /\ edits > 0
     /\ i # Root
     /\ db.phase[i] # Absent
     /\ db' = RefreshDependents(SaveReady(freed, woken))
     /\ Outdate(S)
     /\ edits' = edits - 1
     /\ UNCHANGED <<sess, queue, replied, loop>>

-----------------------------------------------------------------------------

TurnGoesOn(r) ==
  \/ Delegate(r)
  \/ DropStaleResult(r)
  \/ ParkForPeer(r)
  \/ ParkForChildren(r)
  \/ FinishWork(r)
  \/ TurnTimesOut(r)
  \/ TurnReturnsFailure(r)
  \/ CompleteClaim(r)

TurnStep(r) == StartTurn(r) \/ TurnGoesOn(r)

BoardStep(i) ==
  \/ PeerReplies(i)
  \/ Approve(i)
  \/ Rework(i)
  \/ EscalateToHuman(i)
  \/ HumanRejects(i)
  \/ \E reset \in BOOLEAN, deps \in NewDeps(i) : ModifyWorkItem(i, reset, deps)
  \/ DeleteWorkItem(i)

Next ==
  \/ Tick
  \/ TickRaises
  \/ \E r \in Roles : TurnStep(r)
  \/ \E i \in Items : BoardStep(i)

Spec == Init /\ [][Next]_vars

(***************************************************************************)
(* The loop polls for as long as it lives, and a turn is limited in time,  *)
(* so that no turn stays in flight for ever.  Nothing is assumed of the    *)
(* people and peers around the loop.                                       *)
(***************************************************************************)
Fairness == WF_vars(Loop) /\ \A r \in Roles : []<>~InFlight(r)
FairSpec == Spec /\ Fairness

-----------------------------------------------------------------------------
(* Safety *)

(***************************************************************************)
(* No lost wake-up: an item waits for its children only while one of them  *)
(* is not approved, or the next tick finds it.  The parking turn, the      *)
(* refresh of every approval and the edits of the managers run in any      *)
(* order, and nothing polls a parked parent whose claim is held.           *)
(***************************************************************************)
NoLostWakeup ==
  \A i \in Items :
    db.phase[i] = "waiting_for_children" => ~DepsApproved(db, i) \/ Dispatchable(db, i)

(***************************************************************************)
(* A parked session has a waker: the item it is blocked on waits for a     *)
(* peer, for dependencies, or for a review, or the next tick frees the     *)
(* session.  It is never blocked on an item that runs nowhere under a held *)
(* claim, or that is queued behind something else.  It may be blocked on   *)
(* an item that finished meanwhile: the session is not freed by that.      *)
(***************************************************************************)
BlockedHasWaker ==
  \A r \in Roles : sess[r].status = "blocked" =>
    \/ db.phase[sess[r].item] \in InReviewPhases \cup DonePhases
         \cup {"waiting_for_peer", "waiting_for_children", "waiting_dependencies"}
    \/ Dispatchable(db, sess[r].item)

(***************************************************************************)
(* Finished work stays finished, whatever late turns, stale queue entries  *)
(* and edits still do: a failed or cancelled item never moves again, and   *)
(* an approved one only goes back to rework, by an edit of its manager.    *)
(***************************************************************************)
StaysFinished ==
  \A i \in Items :
    /\ db.phase[i] \in {"failed", "cancelled"} => db'.phase[i] = db.phase[i]
    /\ db.phase[i] = "approved" =>
         \/ db'.phase[i] = "approved"
         \/ db'.phase[i] = "ready_for_rework" /\ edits' < edits

FinishedStaysFinished == [][StaysFinished]_vars

(***************************************************************************)
(* An item that waits for its dependencies is sent to work only by a step  *)
(* after which all of them are approved: the refresh decides on a snapshot *)
(* while its hooks write, a manager's reset writes "ready" first and the   *)
(* refresh that follows has to hold the item back, and a deletion cuts     *)
(* edges.  (The claim itself does not look at dependencies: one reopened   *)
(* after the item was queued does not keep the item from starting.)        *)
(***************************************************************************)
ReleasedAfterItsDependencies ==
  [][\A i \in Items :
       db.phase[i] = "waiting_dependencies" =>
         \/ db'.phase[i] \in {"waiting_dependencies", "failed", "cancelled"}
         \/ DepsApproved(db', i)]_vars

(***************************************************************************)
(* After a tick no item is queued behind nothing: its session still has an *)
(* unfinished focus, or another item of its role is dispatchable.  (That   *)
(* one may be waiting for its dependencies in turn.)                       *)
(***************************************************************************)
QueuedBehindSomething ==
  [][Tick => \A i \in Items : db'.marker[i] =>
       \/ ActiveFocus(db', Owner[i]) # NoItem
       \/ \E j \in Items \ {i} : Owner[j] = Owner[i] /\ Dispatchable(db', j)]_vars

-----------------------------------------------------------------------------
(* Liveness *)

Due(i) == db.phase[i] = "ready" /\ DepsApproved(db, i)

(***************************************************************************)
(* A due item is taken, unless its session is parked on another one or the *)
(* loop died: serial queue, markers and in-memory queue never hide it for  *)
(* good.                                                                   *)
(***************************************************************************)
DueItemIsTaken ==
  \A i \in Items : Due(i) ~> \/ ~Due(i)
                             \/ sess[Owner[i]].status = "blocked"
                             \/ loop = "crashed"

(***************************************************************************)
(* An item whose dependencies are all approved does not wait for them any  *)
(* longer, also when they were approved before the item was created.       *)
(***************************************************************************)
SatisfiedItemIsReleased ==
  \A i \in Items : i \in Satisfied(db) ~> i \notin Satisfied(db) \/ loop = "crashed"

-----------------------------------------------------------------------------
(* What comments and docstrings of the code say, and the code does not do. *)

(***************************************************************************)
(* The release of a dependent is a legal write: the loop survives it.      *)
(***************************************************************************)
LoopSurvives == loop = "running"

(***************************************************************************)
(* An item queued behind its session is skipped "until its turn": the turn *)
(* comes, unless its session is parked or the loop died.                   *)
(***************************************************************************)
Reworkable(i) == db.phase[i] = "ready_for_rework" /\ ~db.deleted[i] /\ DepsApproved(db, i)

QueuedItemGetsItsTurn ==
  \A i \in Items : Reworkable(i) ~> \/ ~Reworkable(i)
                                    \/ sess[Owner[i]].status = "blocked"
                                    \/ loop = "crashed"

=============================================================================
