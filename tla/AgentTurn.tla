---------------------------- MODULE AgentTurn ----------------------------
(***************************************************************************)
(* One turn of a native agent (NativeRuntimeV2.execute) with its tool      *)
(* executor.  The agent asks the model for a response, starts safe calls   *)
(* while the response still streams, collects their results, runs the      *)
(* remaining calls batch by batch and asks again, until a response holds   *)
(* no call, a call needs a human or a peer, or the iterations are used up. *)
(* Everything runs on one event loop: an action is what happens between    *)
(* two awaits.  Arguments and results are abstracted to the kind of a call *)
(* and the outcome it had; permission verdicts are those of any engine.    *)
(***************************************************************************)
EXTENDS Naturals, Sequences, FiniteSets

CONSTANTS
    Kinds,          \* the kinds of call the model may ask for
    MaxCalls,       \* bound: calls of one response
    MaxIterations,  \* self.max_iterations
    MaxParallel,    \* native_runtime.max_parallel_read_tools
    MaxOverflows,   \* reactive_compaction.max_overflow_retries
    MaxFeedback,    \* max_stream_error_feedback_retries
    BaseMode        \* the sandbox mode the task was given

Modes == {"workspace-write", "elevated", "off"}

ASSUME TurnAssumption ==
    /\ Kinds \subseteq {"read", "garbled", "shell"}
    /\ MaxCalls \in Nat /\ MaxIterations \in Nat \ {0}
    /\ MaxParallel \in Nat \ {0}
    /\ MaxOverflows \in Nat /\ MaxFeedback \in Nat
    /\ BaseMode \in Modes

VARIABLES
    pc,          \* "stream", "collect", "execute" or "returned"
    status,      \* the TaskStatus the turn returned with, "running" until then
    iteration,   \* LLM requests made so far
    overflows, feedback, reset,   \* retries used up
    plan,        \* kinds of the calls of the current response
    early,       \* keys of early_tool_runs
    st,          \* where each call is; once admitted, its predicted permission
    outcome,     \* what its result says
    batch,       \* the calls of the batch in progress
    cascade,     \* batch_state["cascade_event"]
    sandbox,     \* the sandbox mode in task.metadata
    orphans      \* early runs of an abandoned response that nobody awaits

retryVars == <<overflows, feedback, reset>>
callVars  == <<st, outcome>>
vars == <<pc, status, iteration, retryVars, plan, early, callVars, batch,
          cascade, sandbox, orphans>>

Idx == 1..MaxCalls
Predictions == {"allow", "ask", "deny"}
Live == Predictions \cup {"asking", "cleared", "running", "retrying", "finished"}
CallStates == Live \cup {"none", "streamed", "returned", "cancelled"}
Outcomes == {"none", "ok", "peer", "failed", "rejected", "timeout", "converged"}
Bad == {"failed", "rejected", "timeout", "converged"}

TypeOK ==
    /\ pc \in {"stream", "collect", "execute", "returned"}
    /\ status \in {"running", "done", "failed", "awaiting_human", "awaiting_peer",
                   "stopped", "cancelled"}
    /\ iteration \in 1..MaxIterations
    /\ overflows \in 0..MaxOverflows /\ feedback \in 0..MaxFeedback /\ reset \in BOOLEAN
    /\ plan \in Seq(Kinds) /\ Len(plan) <= MaxCalls
    /\ early \subseteq Idx /\ batch \subseteq Idx
    /\ st \in [Idx -> CallStates] /\ outcome \in [Idx -> Outcomes]
    /\ cascade \in BOOLEAN /\ sandbox \in Modes /\ orphans \in Nat

Calls == 1..Len(plan)
Executing(i) == st[i] \in {"running", "retrying"}
\* Calls the collect step leaves to the executor, in the order of the response.
Remaining == {i \in Calls : i \notin early /\ st[i] = "streamed"}
\* ToolPlanner.is_concurrency_safe: here the shell-like tools are the others.
Safe(k) == k # "shell"

Blank ==
    /\ plan' = <<>> /\ early' = {} /\ batch' = {} /\ cascade' = FALSE
    /\ st' = [i \in Idx |-> "none"] /\ outcome' = [i \in Idx |-> "none"]

Init ==
    /\ pc = "stream" /\ status = "running" /\ iteration = 1
    /\ overflows = 0 /\ feedback = 0 /\ reset = FALSE
    /\ plan = <<>> /\ early = {} /\ batch = {} /\ cascade = FALSE
    /\ st = [i \in Idx |-> "none"] /\ outcome = [i \in Idx |-> "none"]
    /\ sandbox = BaseMode /\ orphans = 0

Return(s) == pc' = "returned" /\ status' = s

\* Mutant: a repeated request is not counted as an iteration.
NextIterationUncounted == Blank /\ pc' = "stream" /\ UNCHANGED <<iteration, status>>
(***************************************************************************)
(* The next iteration of the loop, or the end of its range.                *)
(***************************************************************************)
NextIteration ==
    /\ Blank
    /\ IF iteration < MaxIterations
       THEN iteration' = iteration + 1 /\ pc' = "stream" /\ UNCHANGED status
       ELSE Return("failed") /\ UNCHANGED iteration

----------------------------------------------------------------------------
(* Streaming *)

CanStartEarly(i) ==
    /\ plan[i] = "read" /\ i \notin early

(***************************************************************************)
(* The deltas of call n arrive: the calls before it are complete, and those*)
(* that are read-only, safe, parsed and predicted ALLOW start at once.     *)
(***************************************************************************)
Chunk(k) ==
    /\ pc = "stream" /\ Len(plan) < MaxCalls
    /\ plan' = Append(plan, k)
    /\ st' = [st EXCEPT ![Len(plan) + 1] = "streamed"]
    /\ \E allowed \in SUBSET {i \in Calls : CanStartEarly(i)} :
          early' = early \cup allowed
    /\ UNCHANGED <<pc, status, iteration, retryVars, outcome, batch,
                   cascade, sandbox, orphans>>

\* Early runs still under way, and what is left of a call whose run is cancelled.
Unfinished == {i \in early : st[i] # "returned"}
Cancelled(S) == [i \in Idx |-> IF i \in S THEN "cancelled" ELSE st[i]]

(***************************************************************************)
(* The stream ends.  A response without calls ends the turn, after the     *)
(* verification gate.                                                      *)
(***************************************************************************)
StreamEnd ==
    /\ pc = "stream"
    /\ feedback' = 0
    /\ \/ plan = <<>> /\ \E s \in {"done", "awaiting_human"} : Return(s)
       \/ plan # <<>> /\ pc' = "collect" /\ UNCHANGED status
    /\ UNCHANGED <<iteration, overflows, reset, plan, early, callVars, batch, cascade,
                   sandbox, orphans>>

\* Mutant: the retry of an overflow is not limited.
OverflowUnlimited ==
    /\ pc = "stream"
    /\ overflows' = overflows + 1
    /\ orphans' = orphans + Cardinality(Unfinished)
    /\ NextIteration
    /\ UNCHANGED <<feedback, reset, sandbox>>
(***************************************************************************)
(* The provider reports a context overflow: the loop compacts and goes on  *)
(* to its next iteration.  The early runs are neither cancelled nor        *)
(* awaited.                                                                *)
(***************************************************************************)
Overflow ==
    /\ pc = "stream" /\ overflows < MaxOverflows
    /\ overflows' = overflows + 1
    /\ orphans' = orphans + Cardinality(Unfinished)
    /\ NextIteration
    /\ UNCHANGED <<feedback, reset, sandbox>>

(***************************************************************************)
(* Any other stream error: the early runs are cancelled, then the error is *)
(* fed back a bounded number of times, then the context is reset once (if  *)
(* there is something to drop), then the turn fails.                       *)
(***************************************************************************)
StreamError ==
    /\ pc = "stream"
    /\ \/ /\ feedback < MaxFeedback
          /\ feedback' = feedback + 1
          /\ NextIteration
          /\ UNCHANGED reset
       \/ /\ feedback = MaxFeedback /\ ~reset
          /\ reset' = TRUE
          /\ NextIteration
          /\ UNCHANGED feedback
       \/ /\ feedback = MaxFeedback
          /\ reset' = TRUE
          /\ Return("failed") /\ Blank
          /\ UNCHANGED <<feedback, iteration>>
    /\ UNCHANGED <<overflows, sandbox, orphans>>

(***************************************************************************)
(* A tool-protocol error: the early runs are cancelled and the request is  *)
(* repeated without streaming.  The repaired response replaces the plan;   *)
(* early_tool_runs keeps its entries.                                      *)
(***************************************************************************)
Recover ==
    /\ pc = "stream"
    /\ \E n \in 0..MaxCalls : \E p \in [1..n -> Kinds] :
          /\ plan' = p
          /\ early' = early \cap 1..n
          /\ st' = [i \in Idx |-> IF i > n THEN "none"
                                  ELSE IF i \in early THEN Cancelled(Unfinished)[i]
                                  ELSE "streamed"]
          /\ IF n = 0
             THEN \E s \in {"done", "awaiting_human"} : Return(s)
             ELSE pc' = "collect" /\ UNCHANGED status
    /\ feedback' = 0
    /\ UNCHANGED <<iteration, overflows, reset, outcome, batch, cascade,
                   sandbox, orphans>>

(***************************************************************************)
(* A tool-protocol error that the repeated request does not repair.        *)
(***************************************************************************)
Unrecovered ==
    /\ pc = "stream"
    /\ \/ NextIteration
       \/ Return("failed") /\ Blank /\ UNCHANGED iteration
    /\ UNCHANGED <<retryVars, sandbox, orphans>>

----------------------------------------------------------------------------
(* Collecting the early runs *)

Underway == {i \in early : st[i] \notin {"returned", "cancelled"}}

\* A call is the one started early when its name and arguments are the same.
SameSignature(i) == plan[i] = "read"

(***************************************************************************)
(* _collect_execution_results: every early run whose call did not change is*)
(* awaited; a changed one is asked to end, not awaited, and its call left  *)
(* to the executor.  Awaiting a run that was cancelled raises its          *)
(* CancelledError in the turn.                                             *)
(***************************************************************************)
Collect ==
    /\ pc = "collect"
    /\ \E kept \in SUBSET {i \in early : SameSignature(i)} :
          LET changed == early \ kept IN
          /\ \A i \in kept : st[i] \in {"returned", "cancelled"}
          /\ IF \E i \in kept : st[i] = "cancelled"
             THEN Return("cancelled") /\ UNCHANGED <<early, callVars, orphans>>
             ELSE /\ pc' = "execute"
                  /\ early' = kept
                  /\ st' = [i \in Idx |-> IF i \in changed THEN "streamed" ELSE st[i]]
                  /\ outcome' = [i \in Idx |-> IF i \in changed THEN "none" ELSE outcome[i]]
                  /\ orphans' = orphans + Cardinality(changed \cap Underway)
                  /\ UNCHANGED status
    /\ UNCHANGED <<iteration, retryVars, plan, batch, cascade, sandbox>>

----------------------------------------------------------------------------
(* Batches *)

First(S) == CHOOSE i \in S : \A j \in S : i <= j

\* Mutant: the batch skips over an unsafe call to gather every safe one.
GatheredBatch(S) ==
    IF Safe(plan[First(S)]) THEN {i \in S : Safe(plan[i])} ELSE {First(S)}
\* Mutant: the response is one batch.
WholeBatch(S) == S
\* ToolPlanner.partition: the leading run of safe calls, or the first call alone.
NextBatch(S) ==
    IF Safe(plan[First(S)])
    THEN {i \in S : \A j \in S : j <= i => Safe(plan[j])}
    ELSE {First(S)}

\* Mutant: the batches of a response share one batch_state.
StartBatchSharedState ==
    /\ pc = "execute" /\ Remaining # {}
    /\ \A i \in batch : st[i] = "returned"
    /\ batch' = NextBatch(Remaining)
    /\ UNCHANGED <<pc, status, iteration, retryVars, plan, early, callVars, cascade, sandbox,
                   orphans>>
(***************************************************************************)
(* The next batch starts when the one before it is complete.               *)
(***************************************************************************)
StartBatch ==
    /\ pc = "execute" /\ Remaining # {}
    /\ \A i \in batch : st[i] = "returned"
    /\ batch' = NextBatch(Remaining)
    /\ cascade' = FALSE
    /\ UNCHANGED <<pc, status, iteration, retryVars, plan, early, callVars, sandbox,
                   orphans>>

Parallel(i) == i \in batch /\ Safe(plan[i])
\* The slots of the semaphore taken by the calls of the batch.
Holding == {i \in batch : st[i] \in Live}

\* A call moves on without a result.
MoveTo(i, s) ==
    /\ st' = [st EXCEPT ![i] = s]
    /\ UNCHANGED outcome

\* _build_converged_result: the call is skipped.
Converge(i) ==
    /\ outcome' = [outcome EXCEPT ![i] = "converged"]
    /\ st' = [st EXCEPT ![i] = "returned"]

(***************************************************************************)
(* A call gets a slot of the semaphore, in the order of the batch, and its *)
(* permission is predicted; after a sibling failed it is skipped.          *)
(***************************************************************************)
Admit(i) ==
    /\ st[i] = "streamed"
    /\ \/ i \in early
       \/ /\ i \in batch
          /\ \A j \in batch : j < i => st[j] # "streamed"
          /\ Cardinality(Holding) < MaxParallel
    /\ IF Parallel(i) /\ cascade
       THEN Converge(i)
       ELSE \E v \in Predictions : MoveTo(i, v)
    /\ UNCHANGED <<pc, status, iteration, retryVars, plan, early, batch, cascade, sandbox,
                   orphans>>

Finish(i, o) ==
    /\ st' = [st EXCEPT ![i] = "finished"]
    /\ outcome' = [outcome EXCEPT ![i] = o]

\* Mutant: the batch is not looked at again after the events of the admission.
GateUnchecked(i) ==
    /\ st[i] \in Predictions
    /\ IF st[i] = "deny" THEN Finish(i, "rejected")
       ELSE MoveTo(i, IF st[i] = "ask" THEN "asking" ELSE "cleared")
    /\ UNCHANGED <<pc, status, iteration, retryVars, plan, early, batch, cascade, sandbox,
                   orphans>>
(***************************************************************************)
(* The events of the admission are out: the batch is checked once more and *)
(* the permission gate acts on the prediction made at admission.  What it  *)
(* lets through has the events of its pre hooks still to send.             *)
(***************************************************************************)
Gate(i) ==
    /\ st[i] \in Predictions
    /\ IF Parallel(i) /\ cascade THEN Converge(i)
       ELSE IF st[i] = "deny" THEN Finish(i, "rejected")
       ELSE MoveTo(i, IF st[i] = "ask" THEN "asking" ELSE "cleared")
    /\ UNCHANGED <<pc, status, iteration, retryVars, plan, early, batch, cascade, sandbox,
                   orphans>>

(***************************************************************************)
(* The approval callback returns: allowed, rejected, or nobody answered in *)
(* time.  The batch is not consulted again.                                *)
(***************************************************************************)
Answer(i) ==
    /\ st[i] = "asking"
    /\ MoveTo(i, "cleared") \/ Finish(i, "rejected") \/ Finish(i, "timeout")
    /\ UNCHANGED <<pc, status, iteration, retryVars, plan, early, batch, cascade, sandbox,
                   orphans>>

(***************************************************************************)
(* The events of the pre hooks are out: the tool starts, unless the        *)
(* arguments of the call did not parse.  The batch is not consulted here   *)
(* either, although siblings went on while the events were sent.           *)
(***************************************************************************)
Begin(i) ==
    /\ st[i] = "cleared"
    /\ IF plan[i] = "garbled" THEN Finish(i, "failed") ELSE MoveTo(i, "running")
    /\ UNCHANGED <<pc, status, iteration, retryVars, plan, early, batch, cascade, sandbox,
                   orphans>>

\* _next_sandbox_mode; a mode without an entry has no successor.
NextMode == [m \in {"workspace-write", "elevated"} |->
                IF m = "workspace-write" THEN "elevated" ELSE "off"]

(***************************************************************************)
(* The tool returns or raises.  A shell call that failed in a sandbox is   *)
(* run once more with the next mode written to task.metadata.              *)
(***************************************************************************)
ToolEnds(i) ==
    /\ st[i] = "running"
    /\ \/ \E o \in {"ok", "failed"} \cup (IF plan[i] = "shell" THEN {"peer"} ELSE {}) :
             Finish(i, o) /\ UNCHANGED sandbox
       \/ /\ plan[i] = "shell" /\ sandbox \in DOMAIN NextMode
          /\ sandbox' = NextMode[sandbox]
          /\ MoveTo(i, "retrying")
    /\ UNCHANGED <<pc, status, iteration, retryVars, plan, early, batch, cascade, orphans>>

\* Mutant: the mode is put back only when the retry succeeded.
RetryKeepsMode(i) ==
    /\ st[i] = "retrying"
    /\ \E o \in {"ok", "failed"} :
          Finish(i, o) /\ sandbox' = IF o = "ok" THEN BaseMode ELSE sandbox
    /\ UNCHANGED <<pc, status, iteration, retryVars, plan, early, batch, cascade, orphans>>
(***************************************************************************)
(* The retried tool returns or raises: the mode is put back either way.    *)
(***************************************************************************)
RetryEnds(i) ==
    /\ st[i] = "retrying"
    /\ \E o \in {"ok", "failed"} : Finish(i, o)
    /\ sandbox' = BaseMode
    /\ UNCHANGED <<pc, status, iteration, retryVars, plan, early, batch, cascade, orphans>>

(***************************************************************************)
(* The result leaves _run_one; in a parallel batch a bad one stops the     *)
(* siblings that have not passed their check.                              *)
(***************************************************************************)
Deliver(i) ==
    /\ st[i] = "finished"
    /\ st' = [st EXCEPT ![i] = "returned"]
    /\ cascade' = (cascade \/ (Parallel(i) /\ outcome[i] \in Bad))
    /\ UNCHANGED <<pc, status, iteration, retryVars, plan, early, outcome,
                   batch, sandbox, orphans>>

(***************************************************************************)
(* All results are in.  The first call, in the order of the response, that *)
(* waits for a human or a peer ends the turn; otherwise the results are    *)
(* appended to the messages and the loop goes on.                          *)
(***************************************************************************)
EndResponse ==
    /\ pc = "execute"
    /\ \A i \in Calls : st[i] = "returned"
    /\ LET waits == {i \in Calls : outcome[i] \in {"timeout", "peer"}} IN
       IF waits = {} THEN NextIteration
       ELSE /\ Return(IF outcome[First(waits)] = "peer" THEN "awaiting_peer"
                      ELSE "awaiting_human")
            /\ Blank /\ UNCHANGED iteration
    /\ UNCHANGED <<retryVars, sandbox, orphans>>

(***************************************************************************)
(* The turn's task is cancelled from outside: the batch goes with it, the  *)
(* early runs are tasks of their own and go on.                            *)
(***************************************************************************)
Stop ==
    /\ pc # "returned"
    /\ Return("stopped")
    /\ Blank
    /\ sandbox' = BaseMode
    /\ orphans' = orphans + Cardinality(Unfinished)
    /\ UNCHANGED <<iteration, retryVars>>

\* An abandoned early run comes to its end.
OrphanEnds ==
    /\ orphans > 0
    /\ orphans' = orphans - 1
    /\ UNCHANGED <<pc, status, iteration, retryVars, plan, early, callVars, batch, cascade,
                   sandbox>>

----------------------------------------------------------------------------
(* The turn is over and nothing it started is left. *)
Over == pc = "returned" /\ orphans = 0 /\ UNCHANGED vars

LoopStep ==
    \/ \E k \in Kinds : Chunk(k)
    \/ StreamEnd \/ Overflow \/ StreamError \/ Recover \/ Unrecovered
    \/ Collect \/ StartBatch \/ EndResponse
CallStep ==
    \E i \in Idx : Admit(i) \/ Gate(i) \/ Answer(i) \/ Begin(i) \/ ToolEnds(i)
                  \/ RetryEnds(i) \/ Deliver(i)
Next == LoopStep \/ CallStep \/ Stop \/ OrphanEnds \/ Over

(***************************************************************************)
(* The event loop runs what is ready; a stream ends or fails, a tool       *)
(* returns or times out, and a prompt is answered or expires.              *)
(***************************************************************************)
Fairness == WF_vars(LoopStep) /\ WF_vars(CallStep) /\ WF_vars(OrphanEnds)
Spec == Init /\ [][Next]_vars /\ Fairness

----------------------------------------------------------------------------
(***************************************************************************)
(* A tool that is not safe to run beside others runs alone: no other call  *)
(* of the response is being executed, early ones included.  (Runs orphaned *)
(* by an overflow, a stop or a changed call are outside; they only read.)  *)
(***************************************************************************)
ExclusiveAlone ==
    \A i, j \in Calls : i # j /\ Executing(i) /\ Executing(j) => Safe(plan[i]) /\ Safe(plan[j])

(***************************************************************************)
(* Calls of which one may write keep the order of the response: when a call*)
(* that was not started early executes, every such earlier call is over.   *)
(***************************************************************************)
ConflictsInOrder ==
    \A i, j \in Calls :
        i < j /\ j \notin early /\ Executing(j) /\ (~Safe(plan[i]) \/ ~Safe(plan[j]))
            => st[i] = "returned"

(***************************************************************************)
(* A batch never holds more slots than the semaphore has, a call waiting   *)
(* for its approval included.                                              *)
(***************************************************************************)
ParallelBound == Cardinality({i \in batch : st[i] \in Live}) <= MaxParallel

(***************************************************************************)
(* The widened sandbox is visible to the retried call alone: whatever else *)
(* of the turn executes finds the mode the task was given, and the mode is *)
(* back when the turn has returned, however it ended.                      *)
(***************************************************************************)
SandboxScoped ==
    /\ sandbox # BaseMode => \E i \in Calls : st[i] = "retrying"
    /\ \A i \in Calls : st[i] = "running" => sandbox = BaseMode
    /\ pc = "returned" => sandbox = BaseMode

(***************************************************************************)
(* A call is skipped as converged only when a call of its own batch failed *)
(* by itself: a failure in one batch never skips a call of the next.       *)
(***************************************************************************)
ConvergedHasCause ==
    \A i \in batch : outcome[i] = "converged" =>
        \E j \in batch : outcome[j] \in {"failed", "rejected", "timeout"}

(***************************************************************************)
(* The first failure of a parallel batch closes it: from then on no call of*)
(* it passes its check, so that the only tools that still start are those  *)
(* of calls whose hooks or approval were under way, and these are fewer    *)
(* than the slots.                                                         *)
(***************************************************************************)
Passed == {i \in batch : st[i] \in {"asking", "cleared", "running", "retrying", "finished"}}
FailureClosesBatch ==
    [][/\ cascade' => Cardinality(Passed') < MaxParallel
       /\ cascade => Passed' \subseteq Passed]_vars

(***************************************************************************)
(* Every turn returns, whatever the stream, the tools and the approvals do *)
(* and however they interleave.                                            *)
(***************************************************************************)
TurnReturns == <>(pc = "returned")
=============================================================================
