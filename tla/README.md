# A TLA+ model of OPC's company runtime

OPC lets a "company" of agents work on a request: a manager role delegates work
items to other roles, a dispatcher runs one turn per role at a time, finished
items are reviewed, and the results travel back up. Inside a turn an agent asks
a model, runs tools and waits for approvals; around it a person writes messages,
presses stop and continue, and closes the program. The part of the program whose
correctness depends on orders nobody wrote a test for is this runtime: a
persistent kanban board that hooks keep consistent, an event loop that claims
items from it, turns that run as coroutines for minutes, tool calls that run
beside each other, and people and agents that edit everything meanwhile. This
directory models that part.

Paths below are relative to `src/opc/`.

## Inventory

| Component | State | Operations | What is hard | What makes it correct |
|---|---|---|---|---|
| Work-item state machine (`layer2_organization/phase.py`) | the phase of an item | `validate_transition`, `is_dispatchable`, `is_orphaned` | which late write the table rejects, and who catches the rejection | done is final |
| Work-item store (`database/store.py`, `layer2_organization/phase_hooks.py`, `work_item_transition.py`) | items: phase, claim, dependencies, markers; role sessions: focus, pending queue | `update_delegation_work_item` and its hooks, `refresh_dependents_for_run`, `reconcile_role_serial_queues` | hooks that nest, decide on snapshots and write rows that others cache | no lost wake-up; a marker always has a queue behind it |
| Dispatcher (`company_mode.py`, `company_runtime.py`) | member sessions, in-memory queues, turns in flight | the loop, `claim_runnable_tasks`, `_run_work_item`, parking, `complete_claim` | claims against stale queue entries; a turn that ends after its item moved on | due items are taken; dependencies first; finished stays finished |
| Manager board tools (`layer4_tools/collaboration.py`) | the board | `delegate_work`, `modify_work_item`, `delete_work_item` | edits of an item whose turn is in flight | the edited item is neither lost nor resurrected |
| Review cycle (`company_mode.py`, `plugins/office_ui/ws_handler.py`) | hidden report and review cards, attempt, rework and retry counters | submit, report, verdict, retry, escalate, the human's decision | verdicts that arrive late, twice, unreadable or never | one review at a time; every review ends |
| Suspension, resume, restart (`engine.py`, `company_runtime.py`) | `dispatch_hold`, checkpoints, role-session rows | stop, continue, quit, crash, boot-time sweep and reconciliation | a stop between two writes of a turn, a crash between two writes of a stop or a resume | what is held can be released; no decision is forgotten |
| Session processing (`plugins/office_ui/ws_handler.py`, `engine.py`) | per-task locks and their holders, the status of the session's task | message, run, stop, restart | a lock taken out of its dictionary while others wait for it; a cancellation that arrives in a handler | one message at a time; no task left running |
| Approvals (`layer2_organization/approval.py`, `escalation.py`, `ws_handler.py`) | grants in memory and in a file, denial memory, pending prompts, cards | predict, authorize, prompt, answer, expire, answer late | an answer racing the timeout; prompts matched by their text | nothing runs without an approval that covers it |
| Tool executor (`layer3_agent/runtime_v2/streaming_tool_executor.py`) | calls, batches, results in flight | plan, admit, gate, run, retry in a wider sandbox | concurrent and exclusive calls; a failure that skips siblings | writes run alone and in order |
| Agent turn (`layer3_agent/runtime_v2/runtime.py`) | the response, early tool runs, retry counters | stream, collect, execute, retry, return | a stream that fails after its tools have started | every turn returns |
| Task lease, heartbeat scheduler (`database/store.py`, `layer2_organization/heartbeat.py`) | `execution_locked_at` | heartbeat, expiry, orphan reset | a restart within the lease | not modelled: the engine's own reconciliation precedes it |
| Collaboration RPC (`layer4_tools/collaboration_rpc.py`, `collaboration_dispatch.py`, `layer3_agent/external_broker.py`) | a named pipe of requests, one response pipe per call | call, time out, retry, serve, close | late, lost and repeated calls; a delegation that fails half-way | keyed work exists once; what was delegated is done before its manager |
| Messages (`comms.py`, `communication.py`, `cli_collab.py`) | inbox files | send, reply, block | replies before, during and after parking; a second process on the database | not modelled beyond `PeerReplies` |
| Everything else | | | prompts, network, files, presentation | not modelled, see below |

How they interact: an agent's turn calls the board tools, which write the store;
every write of a phase fires the hooks in the order *sync task status, wake the
dispatcher, refresh dependents, clear the session's focus, queue the item*; the
loop wakes, reads the store, and claims. `_run_claimed_work_item` ends a turn
with a phase write and then `complete_claim`. A finished item spawns a report
card, the report card a review card; both are work items that the same loop
claims for the worker's and the manager's sessions. The human decides in the
office UI, which writes the store directly. A message in the office UI runs as a
coroutine under the lock of its session; its engine call runs agent turns, whose
tool calls pass the permission gate, which may publish a prompt as a card of the
same UI and wait for the click.

The fact that shapes the models: the SQLite adapter of the store is synchronous
under its `async` signatures (`database/store.py:125`), so no store call ever
suspends. What a coroutine does between two real suspensions (an agent's turn, a
broadcast to the clients, the loop's wait, a lock) is one atomic step, hooks
included.

## Modules

| Module | Models | Built on |
|---|---|---|
| `WorkItemPhase` | phases and the transition table | |
| `WorkItemStore` | the store as a record and each of its writers as an operator on records: hooks, refresh, reconciliation, queueing | `WorkItemPhase` |
| `CompanyDispatch` | loop, turns, board tools, reviewers, human and peers as actions on the store and the in-memory sessions | `WorkItemStore` |
| `Board` | abstract: what a board with hands promises, whatever dispatcher is behind it | |
| `DispatchBoard` | `CompanyDispatch` implements `Board` (refinement mapping) | `CompanyDispatch`, INSTANCE `Board` |
| `DispatchProofs` | the proof that it does, and theorems about `CompanyDispatch` itself | `DispatchBoard` |
| `SuspendResume` | stop, continue, quit, crash, restart around the dispatcher | `CompanyDispatch` |
| `SuspendProofs` | theorems about `SuspendResume` | `SuspendResume`, `DispatchProofs` |
| `ReviewCycle` | one item from submission to decision, with its report card and all its review cards | `WorkItemPhase` |
| `ReviewCycleProofs` | theorems about `ReviewCycle` | `ReviewCycle` |
| `AgentTurn` | one turn of a native agent with its tool executor | |
| `AgentTurnProofs` | theorems about `AgentTurn` | `AgentTurn` |
| `Approvals` | approval engine, inline wait and cards | |
| `ApprovalsProofs` | theorems about `Approvals` | `Approvals` |
| `SessionTask` | the messages and runs of one chat session | |
| `SessionTaskProofs` | theorems about `SessionTask` | `SessionTask` |
| `SequenceLemmas` | what removing and appending do to a sequence without duplicates; used by the proofs | |
| `CollabRpc` | the board calls of one manager run by an external agent, and what its turn comes to | |
| `CollabRpcProofs` | theorems about `CollabRpc` | `CollabRpc` |
| `MC...` | the instances for TLC | the module they are named after |

### CompanyDispatch

`db` is the persistent half: `phase`, `claim`
(`claimed_by_role_runtime_session_id`), `marker`
(`metadata.queued_behind_session`), `deps`
(`metadata.dependency_work_item_ids`), `deleted`, `synth`, `feedback`, `parent`
and `hold` (`metadata.dispatch_hold`) of every item; `focus` and `pending` of
every role session, and `cached`, the queue a dispatcher read when it started
and writes back with every save of a session. `sess` holds the in-memory
`CompanyMemberSession`s, `turn` the coroutines in `active_work_item_tasks`,
`queue` the in-memory FIFO of `company_runtime.py`. A role has one session and
an item one role, so "claimed by" and "queued behind" are Booleans.

| Action | Code |
|---|---|
| `Tick` | the loop's body up to `asyncio.wait`: unpark, release, reconcile, queue, rehydrate, claim, spawn |
| `TickRaises` | the same when the release raises: its earlier writes stay, the loop is gone |
| `StartTurn`, `Delegate`, `ParkForPeer`, `ParkForChildren`, `FinishWork`, `TurnTimesOut`, `TurnReturnsFailure`, `DropStaleResult` | what a turn does and how it ends, with the phase write |
| `CompleteClaim` | `complete_claim`, a step of its own: board actions come between |
| `Approve`, `Rework`, `EscalateToHuman`, `HumanRejects` | what reviews come to (in detail in `ReviewCycle`) |
| `ModifyWorkItem`, `DeleteWorkItem` | the manager's tools, from its own turn, a review turn or a conversation, hence at any time; an edit may replace the dependencies of an item |
| `PeerReplies` | the answers a parked item waits for are in its inbox |

### Board

The abstract specification has two variables: the kanban column of every card
(`kanban_column`, with approved cards apart from closed ones, since a manager
may reopen the former) and the card in the hand of every role (the item of the
turn in flight). It says which actor may move what: a role takes a live card of
its own with an empty hand, a card leaves the columns of work only through the
hand that holds it or an edit, closed cards never move. Every step of the loop,
of hooks, late turns and edits maps to one of its actions or to a stutter. What
the board does not show (claims, markers, queues, dependencies) is covered by
the properties of `CompanyDispatch` itself.

### SuspendResume

`engine` says whether a dispatcher runs, is being cancelled, is down, or the
process is dead; `ckpts` are the active suspend checkpoints with the phases they
recorded.

| Action | Code |
|---|---|
| `Stop`, `CrashDuringStop` | the stop button: checkpoint, hold and unclaim every unfinished item, ask for cancellation; or the process ends between two of these writes |
| `CancelLands` | `CancelledError` in the dispatcher and its turns |
| `Quit`, `Crash` | the terminal is closed (cancels, takes no checkpoint); the process ends |
| `Boot` | `_sweep_stale_claims` and `_reconcile_interrupted_project_tasks` |
| `Resume`, `CrashDuringResume`, `Continue` | the Continue button with a checkpoint, the same cut short, and without one; all end in a new dispatcher |
| `Exit` | the dispatcher ends by itself |
| `Dispatching` | the steps of `CompanyDispatch` that can happen in that state of the engine |

Two assumptions are made about the time between a stop and its cancellation:
the loop gets no further, and a turn that calls its agent again does not come
back from it (`recalled`).

### ReviewCycle

`child` is the item under review with its submission number and the counters
`review_rework_count`, `review_verdict_parse_retry_count` and
`review_attempt_count`; `report` its report card; `cards` its review cards by
attempt. A card is spawned, queued, claimed, ended by the reviewer's turn (or a
timeout) and finalized, each a step, since both roles serve other items in
between. Each card carries the submission it was spawned or refreshed for (`of`)
and the one its turn started with (`seen`).

### AgentTurn

`plan` is the response so far, one kind of call per entry; `st` and `outcome` say
where each call is (an admitted call is in the state the permission gate
predicted for it) and what came of it; `early` are the calls started while the
response streamed, `orphans` those nobody awaits any more.

| Action | Code |
|---|---|
| `Chunk`, `StreamEnd` | deltas of the response; complete calls that are safe start at once |
| `Overflow`, `StreamError`, `Recover`, `Unrecovered` | the handlers of a failed stream: compact, feed back, reset, repeat without streaming, give up |
| `Collect` | `_collect_execution_results`: early runs are matched with the final response; one whose call has changed is asked to end and not awaited |
| `StartBatch`, `Admit`, `Gate`, `Answer`, `Begin`, `ToolEnds`, `RetryEnds`, `Deliver` | a batch and the life of a call in it: slot of the semaphore, prediction, second check of the failure flag, approval, the tool once the events of its pre hooks are out, one retry in a wider sandbox, the result |
| `EndResponse` | the results are in: next iteration, or wait for a human or a peer |
| `Stop`, `OrphanEnds` | cancellation from outside; an abandoned run ends |

### Approvals

A call asks for an action; a prompt is one attempt of a call that asked. `session`
and `disk` are the grants of the session in memory and in the file, read lazily
(`loaded`); `order` and `future` are `_pending_escalation_order` and the futures
of `_pending_escalations`; `card` is the chat store.

| Action | Code |
|---|---|
| `Predict`, `Authorize` | the engine's decision when the call is admitted and again at the gate, which publishes the prompt |
| `Scan` | `_handle_ui_escalation` looks for the record of its prompt, by text |
| `Replied`, `Expire`, `CancelledByOther` | the inline wait ends with a reply, with its timeout, or because another callback cancelled the same future |
| `Click`, `ClickExpired` | the human answers a live card (and the related ones with it) or one nobody awaits any more |
| `Again`, `Restart` | the agent asks again; the process restarts |

### SessionTask

`pc` places every coroutine of the session; `taskLock`, `holder` and `stopFlag`
are its entries in `_task_locks`, `_task_lock_holders` and
`_stop_requested_task_ids`; a lock is named after the coroutine that created it,
and `lockOf` says which one each coroutine holds or waits for. `row` is the
status of the session's task.

| Action | Code |
|---|---|
| `Send`, `Acquire` | `_get_task_lock` with its replacement of a lock whose holder died, and `async with lock` |
| `Begin`, `Execute`, `Retry`, `Settle` | the engine's `_execute_task` and its writes of the status |
| `Returns`, `Close`, `Raises`, `MarkFailed`, `CleanUp`, `Leave` | the rest of `_process_session_message`, with the finally clause that takes the lock out of the dictionary |
| `RunReturns`, `RunEnds`, `RunRaises` | the same for `_run_task` |
| `Stop`, `Cancel...` | the stop button, and the cancellation where it finds the coroutine: queue, engine, handler or cleanup |
| `Restart` | the process ends; the next one fails a task left running |

### CollabRpc

`call` and `tries` are the agent's view of its calls, `pipe` the lines in the
request pipe, `serving` the request whose answer is awaited; `deaf` says that the
task which reads the pipe has died. `children`,
`approved` and `deps` are what the store holds about the manager's item; `turn`,
`before`, `performed`, `outage` and `guardRetries` are what the dispatch guard
goes by. A child is named by its scope and the request that saved it;
`completed` is a history variable, the requests that reached the parent's stamp.

| Action | Code |
|---|---|
| `Send`, `SendGarbled`, `Timeout` | the `opc-collab` process: one line into the pipe, 30 s for the answer; two long lines that mix |
| `AgentEnds`, `AgentFails` | the agent's exit, with calls answered or not: with code 0, or with another code or killed by the broker |
| `ServeDelegate`, `DelegateFails`, `RefuseDelegate` | `delegate_work` as one step (no store call suspends): done, ended by a store call that raises with some children saved, or refused before anything was |
| `StartSlow`, `EndSlow` | a call that awaits a model (`respond_meeting`), and the lines behind it |
| `ReaderDies` | a line that is no text is more than the reader catches |
| `Close` | the broker's finally clause: what is served is cancelled, what is queued is gone. An agent that ended well goes to the guard; the result of one that failed is handed on without guard or phase, and its item stays running under its claim (`held`); what the reader died of is raised here, and the item is failed |
| `TurnTimesOut` | the limit of the work item |
| `GuardRetry`, `GuardFails`, `ParkForChildren`, `Submit` | `_enforce_manager_dispatch_guard`, `_park_for_delegated_children` and the done transition |
| `Release`, `ChildDone` | a child is approved; the last one gives the manager its next turn |

`Answer` reaches a client only if it still waits for that very request: the
response pipe of a call that was given up is unlinked.

## Runs

| Run | Instance | Shows |
|---|---|---|
| `dispatch_safety` | manager and worker, 3 items, 1 edit, rewiring; 373,071 states | `NoLostWakeup`, `BlockedHasWaker`, `FinishedStaysFinished`, `ReleasedAfterItsDependencies`, `QueuedBehindSomething`, `ImplementsBoard` |
| `dispatch_live` | the same roles, items approved by their turns, no rewiring; 43,399 states | `DueItemIsTaken`, `SatisfiedItemIsReleased` |
| `suspend` | manager and worker, 2 items, 1 edit, 1 stop, 1 end of the process; 296,728 states | `HeldWorkHasCheckpoint`, `ResumedParentWakes`, `DecisionsSurviveResume`, `StrandedWorkIsTaken` |
| `review` | 3 submissions, rework cap 1, 2 retries; 156,677 states | `OneActiveReview`, `ReviewIsDriven`, `LateVerdictIsIgnored`, `ReviewEnds` |
| `agent_turn` | responses of up to 3 calls of 3 kinds, 2 slots, 2 iterations; 265,755 states | `ExclusiveAlone`, `ConflictsInOrder`, `SandboxScoped`, `ConvergedHasCause`, `FailureClosesBatch`, `TurnReturns` |
| `approvals` | 3 calls of one task, 2 of them alike, 2 actions of one family, 1 restart; 127,991 states | `RunsOnlyApproved`, `ParkedHasCard`, `SessionGrantsStored`, `PromptEnds` |
| `session` | 2 messages and a run, 2 stops, 1 restart; 85,668 states | `SerialUntilQueued`, `NoGhostRunning`, `StoppedStaysResumable`, `WaiterIsServed` |
| `collab` | 2 delegations that share a key, the second with unkeyed work and sent up to twice, a slow call, 2 failures; 911,676 states | `KeyedOnce`, `DelegatedIsDone`, `TurnIsOver` |
| `dispatch_crash`, `dispatch_turn`, `review_stale`, `session_serial` | the smallest instances that show it | one disagreement between text and code each, see below |

Each passing run also checks the type invariant of its module (`dispatch_live`
leaves it to `dispatch_safety`).

Bounds and why they suffice.

* `MaxItems = 3` is a parent with two children: two children of one role are
  what a serial queue needs, one of them depending on the other is what the
  release needs, and two children are what it takes to approve one while the
  other is open. No instance has a third level, so an item that is child and
  parent at once is covered by the proofs only; the synthesis turn of a parent
  is covered by `dispatch_live`.
* `MaxEdits = 1` bounds reworks, reopenings and manager edits together; one
  edit at any moment of any turn already produces every kind of stale turn,
  reopened dependency and queued rework. What two edits do to each other is not
  checked.
* `Rewiring` says whether an edit may replace dependencies. Where it may, a
  manager can close a cycle, or put an open dependency in front of an item that
  is already queued or ready; what is live is therefore checked without
  it.
* `suspend` has one child only, because a stop multiplies the states by every
  moment it may land at; one stop, one crash and one edit cover a crash within a
  stop, a crash within a resume, and a decision between stop and resume.
* `MaxSubmissions = 3` against `MaxReworks = 1` lets the cap be passed;
  `MaxParseRetries = 2` is the code's value. The attempts are bounded by
  submissions plus retries, and `TypeCorrect` proves that this bound never cuts
  a behaviour short.
* `MaxCalls = 3` with two slots makes a call wait for a slot, and lets a write
  stand before, between and after reads; `MaxIterations = 2` lets a retry pay
  for an iteration and run out of them. The kinds are a read that may start
  early, one whose arguments do not parse, and a shell command.
* `Threshold = 2` is reached by one denial (which is recorded twice) and by two
  timeouts. Two calls of the instance have one attempt and the third two, so
  that an approval granted late is used. `ClicksDuringPublish = FALSE` leaves
  out a click between the creation of a prompt's record and its callback's scan,
  a few lines of code later; with it a callback may take another prompt's record.
* `MaxStops = 2` lets a second stop find a message in its cleanup;
  `MaxRestarts = 1`.
* In `collab` a second try lets a request be served after it was given up and
  sent again; the two delegations meet in a scope that has a key, and the unkeyed
  work shows what a key is needed for; two failures let a retry fail too. The
  guard's two retries are the code's. `ShowsOutage` says whether the agent's
  output carries the errors of its calls, which the broker reads from the
  completed-item events of one kind of agent, or the justification names; FALSE
  makes the guard more permissive and lets it do everything else it may do
  otherwise. The theorem that depends on it covers both.

Runs set `CHECK_DEADLOCK FALSE` where the system may really stop: a crashed loop
with all turns drained, a decided item, calls that are over, a session without
messages. `agent_turn` checks for deadlock; a turn that is over stutters.

Fairness. `WF(Loop)`: the loop waits at most 5 s (`asyncio.wait` with a
timeout), so the wake-up event is an optimisation. `[]<>~InFlight(r)`: a turn is
wrapped in a time limit, its exception handler completes the claim, and the
manager-dispatch guard repeats it a bounded number of times. `SuspendFairness`
keeps both while a dispatcher is up, and a requested cancellation arrives. In
`ReviewCycle` the same facts give weak fairness to queueing, claiming, ending
and finalizing a card. In `AgentTurn` the event loop runs what is ready, a
stream ends or fails, a tool returns or times out, and a prompt is answered or
expires; in `Approvals` the timer of the inline wait fires; in `SessionTask` the
engine answers at last and `asyncio.Lock` is fair. In `CollabRpc` a call's
deadline passes, an agent none of whose calls is open comes to its end, by itself
or killed by the broker (`AgentFails`), the broker closes the endpoint, and the
children are approved: what a manager waits for is worked on and reviewed, which
`dispatch_live` and `review` are about. It is not assumed that the broker kills
an agent whose call is open, nor that the limit of the work item passes. Nothing
is assumed of the broker's serving: a line may stay unread until the endpoint
closes. `TurnIsOver` counts an item that a failed agent leaves running as over;
no property says that somebody rescues it. Elsewhere nothing is
assumed of humans, peers, managers, of what a turn returns, of a worker that
goes on working, or of a crash. The code's loop also exits when nothing runs and
nothing can be claimed, to be started again by the next message;
`CompanyDispatch` lets it poll instead, which changes no claim it could make,
and `SuspendResume` models the exit.

## Where text and code disagree

* `LoopSurvives` (`dispatch_crash`). `_refresh_ready_work_items` releases a
  satisfied item that has rework feedback with WAITING_DEPENDENCIES →
  READY_FOR_REWORK. The docstring of `refresh_dependents_for_run` promises that
  transition; the table does not hold it. The refresh swallows the rejection,
  the loop does not, and ends for the whole run.
* `QueuedItemGetsItsTurn` (`dispatch_turn`). A reopened item queues behind the
  focus of its session without regard to dependencies. When the focused item
  depends on it, both wait for each other, the session idle.
* `VerdictJudgesItsSubmission` (`review_stale`). The comment at
  `company_mode.py:7068` means to apply a verdict only to an item that has not
  "already moved on"; the code asks only whether the item is in review. A human
  sends the item back during the reviewer's turn, the worker submits again, and
  the verdict on the old submission decides the new one, whose report card is
  still waiting to be claimed.
* `OneAtATime` (`session_serial`). "Per-task lock: same session serialized":
  the finishing message takes the lock out of its dictionary although others
  wait for it; the next message makes a new lock and is processed beside them.

Other behaviour that surprised and is contained in the models without a run of
its own:

* Dispatching. Saving a session overwrites the pending queue in the store with
  the one read at boot. A turn that returns a failure leaves its item running
  under a held claim. Timeouts and exceptions do not ask whether a manager
  changed the item during the turn. A session parked on an item that finishes
  without it is not freed. A failed child never satisfies its parent.
* Edits. A deleted item that was approved can be modified, which reopens it. An
  item rewired without a reset is claimed by its stale queue entry, and so is a
  leaf whose dependency was reopened after it had been queued (two edits): the
  claim asks `is_dispatchable` again, not the dependencies. That is why
  `ReleasedAfterItsDependencies` speaks of the release and not of the start. A
  ready item that is rewired keeps the focus and blocks its session's queue; the
  item that `QueuedBehindSomething` finds in front of a marked one may
  itself wait for that one. Dependency cycles can be made.
* Reviews. The comment that keeps the worker's last prose "as fallback" for a
  report turn that fails (`company_mode.py:5615`) has no effect on the review:
  only a report that succeeds spawns the card, so `ReviewIsDriven` and
  `ReviewEnds` exempt a lost report. The reviewer is told that an unreadable
  verdict escalates to a human after the retries
  (`layer3_agent/company_runtime_contract.py:95`); the code approves. A verdict
  "escalate" is normalised to one that no branch acts on and is retried likewise.
  A review card may still decide an item that has been handed to the human.
* Suspension. A resume that was cut short leaves its checkpoint "resuming"; no
  later stop supersedes it, and a later Continue replays it
  (`database/store.py:7099`, `engine.py:5293`). A crash leaves a session row
  running that the next dispatcher takes for busy (`company_runtime.py:880`). A
  resume can put an item back to running or waiting that was queued meanwhile,
  and leaves its marker; the reconciliation of the next tick drops it, which is
  why `ResumedParentWakes` speaks of the reconciled store.
  Closing the terminal holds items without a checkpoint to release them.
* Sessions. "Parent stays IDLE (suspend-for-resume" (`ws_handler.py:6357`): a
  stop while the engine executes the session's own task leaves it CANCELLED, for
  the engine's handler of the cancellation writes over the stop's IDLE
  (`engine.py:8030`); `StoppedStaysResumable` exempts it. A run whose engine
  raises leaves the row running (`ws_handler.py:4901`), and the stop button does
  not stop runs.
* Agent turns. Reads start early, before writes that precede them in the
  response. An overflow leaves early runs to themselves. A response that parks
  drops the results of the other calls. After the failure of a call, siblings
  that are past their check still start their tools: those that were just
  approved, and those that ask nobody while the events of their pre hooks are sent
  (`streaming_tool_executor.py:202-215`, `tool_hooks.py:61`);
  `FailureClosesBatch` says that they are the last. A response recovered from a
  protocol error ends the turn as cancelled if it awaits an early run that was
  cancelled.
* Approvals. Two prompts with the same text await one record (`escalation.py:51`,
  `ws_handler.py:2151`), so the answer to one card may reach nobody until the
  wait expires. The denial memory is asked before the grants.
* Collaboration RPC. "A manager that just dispatched MUST wait for its children"
  (`collaboration.py:2212`): `delegate_work` commits the children one by one and
  stamps the parent at the end. If a store call raises in between, the children
  run without their parent knowing. `_park_for_delegated_children` looks such
  children up, but only for an item without any dependency, although its comment
  says that it keeps a manager from review "while children are still running"
  (`company_mode.py:8923`): one later delegation hides them, and the manager
  submits while they are open. `LoneOrphansAreDone` is what the lookup achieves.
  Work without a `scope_key` is created again by every retry of a call that had
  been served late. Two lines that mix are skipped without an answer
  (`collaboration_rpc.py:404`), unless the mix splits a character: then the
  reader dies, and closing it fails the item however well the agent did. An
  agent that exits with an error or is killed leaves its item running under the
  claim, without guard or phase (`company_mode.py:5204`). A slow call times out
  every call behind it. Whether an outage is noticed depends on the agent's
  output: a manager whose calls all failed may justify having no children where
  the output does not show the errors.

## Proofs

All theorems hold for every value of the constants that the modules' named
assumptions allow (any roles, items, owners, kinds, submissions, messages, and
any bounds).

`ReviewCycleProofs`: `TypeCorrect`, `OneReviewAtATime` (`OneActiveReview`),
`ReviewAlwaysDriven` (`ReviewIsDriven`) and `LateVerdicts`
(`LateVerdictIsIgnored`), all from `InductiveInvariant`. None of the properties
is inductive by itself: that a spawned card has a slot (types) and that no older
card is active (`OneActiveReview`) need to know that attempts are paid for by
submissions and retries (`AttemptsAccounted`: attempts plus the report still to
come do not exceed submissions plus retries), that cards beyond the current
attempt do not exist and older ones are over (`CardsInOrder`), and that a queued
card is ready and a judged one has run (`CardsSound`).
`EnsureReviewSpawnsOne` is the lemma about `_ensure_review_work_item_for_work_item`;
`CardStep`, `NoCardStep`, `ReviewCardStep` and `VerdictStep` say what the four
shapes of step preserve, and `StepIInv` has one case per action.

`SessionTaskProofs`: `SerialWithoutQueue` (`SerialUntilQueued`),
`RowIsWrittenBack` (`NoGhostRunning`) and `StopLeavesResumable`
(`StoppedStaysResumable`) from the invariant `SInv`: while nobody has queued,
whoever is past the lock holds the session's lock, alone, and a registered
holder is that one or over; whoever may have marked the row running still has to
write it and was not cancelled without a handler to do it; and the stop flag
outlives the one coroutine whose handler asks for it.

`AgentTurnProofs`: `UnsafeToolsRunAlone` (`ExclusiveAlone`),
`WritesKeepTheirOrder` (`ConflictsInOrder`), `SlotsAreBounded` (`ParallelBound`,
in no run), `SandboxIsPutBack` (`SandboxScoped`), `FailureStopsItsBatchOnly`
(`ConvergedHasCause`), `FailureAdmitsNoMore` (`FailureClosesBatch`) and
`TurnTypes` (`TypeOK`), from the invariant `TInv`. The two on order are not
inductive: that an unsafe call runs alone needs to know that early runs only
read and are all collected before a batch starts (`EarlyReads`, `Quiet`), that
an unsafe call is a batch of its own (`BatchShape`), and that a batch starts at
the least call that is left, so that whatever precedes it is over
(`BatchOrder`). That the least call exists is `FirstIsLeast`: the intervals 1..n
are well-founded under inclusion. The sandbox needs that a retried call is a
shell call, hence unsafe and alone (`RetryIsShell`). What is past its check after
a failure is bounded by `SlotsAreBounded`: each such call holds a slot, and the
failed one has just given its own back (`Closed`). `CallMoves` says once what
the steps of a call may touch; the invariant's conjuncts are then shown to be
kept by the loop, the calls and the stop in turn.

`CollabRpcProofs`: `KeyedWorkExistsOnce` (`KeyedOnce`), `DelegatedWorkIsDone`
(`DelegatedIsDone`), `LoneOrphansAreWaitedFor` (`LoneOrphansAreDone`),
`NoChildlessOutage` (`ChildlessIsChosen`) and `CallTypes` (`TypeOK`), from
`CallsInvariant`; the third and fourth are in no run. Only
`KeyedOnce` is nearly inductive. That delegated work is
done needs that a completed delegation has stamped all it asked for, keyed
children it merely found included (`CompletedIsStamped`), and that a submitted
item has waited for what it was stamped with (`SubmittedHasWaited`), which holds
although children appear at any time, because none appear once the endpoint is
closed. The lone leftovers need that before any completed delegation, and with
at most one failure, the parent knows of all its children or of none
(`OrphansAlone`); the last property needs that a failed call shows in the output
and that the marks of a changed board stem from children (`FailuresShow`).

`DispatchProofs`: all the properties of the dispatcher but the live ones.

* `DispatcherImplementsBoard` (every behaviour of `CompanyDispatch` is, under the
  mapping of `DispatchBoard`, one of `Board`) and `FinishedWorkStaysFinished`,
  from `BoardInvariant`. The invariant `DInv` says what the mapping needs and no
  more: the shape of the store, that the created items are an initial segment,
  that a session with a turn in flight runs an existing item of its own role,
  that queues hold items of their role, and that edits are counted. The argument
  rests on lemmas about the store: whatever hooks, refresh, reconciliation and
  release do, however they nest, they only move open items between open phases;
  and the transition table lets no late write of a turn reach a finished item. So
  a column changes otherwise only by the hand that holds the card, a reviewer,
  the human or a counted edit.
* `DispatchTypes` (`TypeOK`), `NoWakeupIsLost` (`NoLostWakeup`) and
  `ParkedSessionsHaveWakers` (`BlockedHasWaker`) come from one invariant,
  `MovingInv`: the board's `DInv`, the types it leaves out (`Rows`), and `Moving`,
  which has four parts. The store is `Orderly`: typed, no item its own parent,
  none in a phase that nobody writes. Every parent is `Awake`: it has a child to
  wait for, or its claim is free. Every item that a session works at or is parked
  on is as the session relies on (`Serving`): not queued behind anything, alone in
  the focus of its role, and, when parked, not running under a claim. And the
  focus in the rows is on such an item too (`Attended`), for a later bootstrap
  reads its sessions from there. `Calm` is the relation between two stores that
  disturbs this for no item. One lemma per operator of `WorkItemStore`
  (`EnqueueFacts` to `CancelledFacts`) says whether it is calm and leaves the
  store orderly and awake, and one per action that `Moving` survives. Parents
  without any dependency need an argument of their own, since no refresh reaches
  them (`AwakeIfFree`). `MovingInv` says nothing of holds: that nothing is held,
  and that what works is not queued (`Unstopped`), is kept by every step of the
  dispatcher (`Tame`) and added for a run that is never stopped.
* `ReleasesWaitForDependencies` (`ReleasedAfterItsDependencies`) needs types only, and two relations between
  stores: `Patient`, what waits for its dependencies goes on waiting, ends, or has
  them all approved; and `Steady`, approved dependencies stay approved and what
  ended stays so. A patient step followed by a patient and steady one is patient,
  and every handler is a sequence of such steps.
* `NothingQueuedBehindNothing` (`QueuedBehindSomething`) needs `Filed`: the queues in the rows, the ones
  the sessions were read with and the one in memory hold items of their own role
  only. A pass of the loop then leaves a marker only on an item that
  `reconcile_role_serial_queues` has found in the queue of its role, behind a
  focus or behind the front it has just chosen.

`ApprovalsProofs`: `ApprovalTypes` (`TypeOK`), `GrantsAreStored`
(`SessionGrantsStored`), and, if nobody answers a prompt between its publication
and its callback's scan (`~ClicksDuringPublish`, a few lines without a
suspension on the user's side), `NothingRunsUnapproved` (`RunsOnlyApproved`),
`ParkedCallsHaveCards` (`ParkedHasCard`) and `RecordsListedOnce` (no run). Records are
matched by text, so that a callback may await a record of another prompt; what
keeps answers apart is that it is one with the same message. The invariant
`CardInv` keeps an account: for every message, there are at least as many listed
records that nobody awaits as callbacks that have published and not yet scanned
(`EnoughRecords`), so that a scan always finds one. It compares cardinalities of
two sets that change together, which is what `PublisherFinds`, `EnoughKept` and
the lemmas on publishing and scanning are about.

`SessionTaskProofs` also has `SessionTypes` (`TypeOK`) and `LineHoldsTheWaiters`
(no run): the line of each lock holds the coroutines that wait for it, each once.
`SequenceLemmas` has what these need about `RemoveFirst` and `Append`.

`SuspendProofs`: `StoppedRunsKeepTypes` (`SuspendTypeOK`), `HeldWorkCanBeReleased`
(`HeldWorkHasCheckpoint`), `ResumedParentsAreFound` (`ResumedParentWakes`) and
`DecisionsAreKept` (`DecisionsSurviveResume`), for any number of stops and crashes,
from the invariant `SuspendInv` and, for the last, `PendingInv`.

* The steps of the dispatcher keep `MovingInv`, as shown in `DispatchProofs`. A
  step around it writes a store and replaces the sessions by the rows in it, or
  leaves them: `HandsOver` is what the new store must keep of the old one for
  that (no role gets another focus, and the focus it keeps is served and let go
  as before), and `RowsMove` and `SessionsStay` conclude `MovingInv'` from it.
  Holding, unfocusing, sweeping and the rounds of a release each hand over
  (`PutOnHoldFacts`, `UnfocusedFacts`, `SweptFacts`, `ResumeItemReleases`).
* A release is a recursive function over the items; `ResumedRounds` unfolds it and
  `ResumedFacts` carries `Releases` through its rounds, by a least round that
  would fail.
* What is held is covered (`HeldInv`): it exists, and it was held by a quitting
  terminal, or has finished since, or is in the snapshot of the latest
  checkpoint. While a cancellation is on its way, the items it is going to hold
  are covered too. A snapshot is usable because it is one of an earlier state of
  the same store (`Taken`): nothing it knows has ceased to exist. Conversely an
  approved item that an edit reopens is no longer on hold (`Settles`), which is
  the one way in which held work could come back without a checkpoint.
* A release writes each item back to a phase derived from the snapshot. The table
  refuses most such writes on an item in review; what it accepts is a snapshot of
  `ready`, `ready_for_rework` or `awaiting_human` (`Reopening`, `ReviewIsKept`). So
  `PendingInv` says that no item snapshotted in one of these has reached another
  review since (`Unreached`): it stands where it stood, was put back or ended, or
  was put into progress by a turn that outlived the stop, and such a turn hands
  over nothing, as it has called its agent again and been cut off (`recalled`) or is
  outdated. This holds because a pending checkpoint is the latest one and no
  dispatcher runs: every step that is left (`TurnsRestrained`, `BoardRestrained`)
  brings an item no nearer to a review (`Recedes`) or is one of those turns. With it
  `ResumedDecisions` carries the claim through the rounds of a release, so that it
  also holds of a release that is cut short. The checkpoint of a resume that was
  cut short is not pending, and for it the property fails (see the hazards).

Only model-checked: the liveness properties. Liveness under fairness, ENABLED, and
induction over data are out of the prover's reach.

## Not modelled

Within the modelled parts:

* `CompanyDispatch`: QUEUED items with a release policy, soft and info
  dependencies, paused and needs_attention results, attention and response
  items, the intake's spawn of a delivery item, the replacement dependencies of
  a deletion, store writes that fail, a collaboration process that writes the
  same database (`CollabRpc` has failing writes of a delegation), the copy of the
  awaited children in `task.metadata`, which the code unites with the item's own
  (`company_mode.py:8874`). The cascade of a deletion fires its hooks once, at
  the end.
* `ReviewCycle`: a worker's report card that parks. The actions on review phases
  of `CompanyDispatch` and the cards of `ReviewCycle` are two views of the same
  code, not composed.
* `SuspendResume`: a text typed instead of Continue (`engine.py:10167-10271`,
  the final decider's turn), checkpoints of peers, a plan checkpoint found at
  boot (`engine.py:6436-6542`). Stop and release go by the phase of an item; the
  code also skips one whose task is in a final status (`engine.py:5333`, `5632`),
  which the hooks keep in step with the phase. A cancellation always lands; one
  that arrives while the loop awaits its own cancelled waiter is swallowed
  (`company_mode.py:4394`). While the run is down only the review panel and
  peers act, not managers.
* `AgentTurn`: the compaction of the context, hooks that change a call, todos,
  subagents. `Approvals`: risk heuristics and the LLM reviewer, global grants,
  legacy policies, free-text replies, several sessions; which prompts are related
  is a constant of the instance, where the code compares a semantic key
  (`ws_handler.py:1926`).
* `SessionTask`: the classification of a message before it takes the lock,
  deletion of a session, transcripts and progress, company sessions (their stop
  is `SuspendResume`). A second stop may cancel a message that the first has
  already taken off the list (`ws_handler.py:4378`); this adds behaviours only.
* `CollabRpc`: the TCP transport, which is used on Windows only; changes and
  deletions through the endpoint (their effect on the board is in
  `CompanyDispatch`); rejected tokens and payloads beyond the limit; follow-up
  items that count as delegation; the intake card, which hands its children to a
  delivery card instead of waiting; the gate of unread messages; external agents
  that open the database themselves for want of an endpoint; the fallback to the
  next agent where none was chosen.

Whole components: see the inventory and the notes in `PROJECT.json`. The task
lease is one comparison of timestamps that the engine's reconciliation precedes;
planning, prompts, memory, channels and UI have no protocol that a model would
say more about than their code.

## Plan

1. `Comms`: blocking messages, inbox and reply, refining `PeerReplies`, and with
   it the slow calls of `CollabRpc`; the composition of `CollabRpc` with
   `CompanyDispatch`, whose `Delegate` it details.
2. The composition of `ReviewCycle` with `CompanyDispatch`: cards as items of
   the board.
3. The retry loop of the LLM provider and the heartbeat scheduler, each small
   and self-contained.
