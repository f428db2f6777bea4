---------------------------- MODULE SessionTask ----------------------------
(***************************************************************************)
(* The messages of one chat session of the office UI, in task mode.  Each  *)
(* is a coroutine (_process_session_message, or _run_task for the Run      *)
(* button) that takes the session's lock, marks the row of the session's   *)
(* task, has the engine work, marks the row again and cleans up.  The lock *)
(* lives in a dictionary; the coroutine that holds it takes it out again   *)
(* while it still does, and one whose holder has died is replaced.         *)
(*                                                                         *)
(* An action is what happens between two suspensions.  Calls of the store  *)
(* do not suspend, broadcasts to the clients do.                           *)
(***************************************************************************)
EXTENDS Naturals, Sequences, FiniteSets, SequencesExt

CONSTANTS
  Messages,    \* coroutines of the session
  Runs,        \* those of them started by the Run button
  NoOne,       \* no coroutine, no lock
  MaxStops,    \* bound on presses of the stop button
  MaxRestarts  \* bound on ends of the process

ASSUME RunsAssumption == Runs \subseteq Messages
ASSUME NoOneAssumption == NoOne \notin Messages
ASSUME BoundsAssumption == MaxStops \in Nat /\ MaxRestarts \in Nat

VARIABLES
  pc,          \* where each coroutine is
  lockOf,      \* the lock it waits for or holds; a lock is named after its creator
  line,        \* the waiters of all locks, in their order of arrival
  taskLock,    \* _task_locks: the session's lock
  holder,      \* _task_lock_holders: the coroutine registered as its holder
  cancelled,   \* coroutines asked to cancel, not yet resumed
  stopFlag,    \* the session is in _stop_requested_task_ids
  row,         \* status of the session's task in the store
  stops, restarts,
  queued,      \* history: some message has had to queue
  cut          \* history: a stop has reached a message while the engine executed it

lockVars == <<lockOf, line, taskLock, holder>>
bounded  == <<stops, restarts>>
history  == <<queued, cut>>
vars == <<pc, lockVars, cancelled, stopFlag, row, bounded, history>>

Executing == {"executing", "retrying"}
InEngine  == Executing \cup {"working", "settled"}
Holding   == InEngine \cup {"opening", "answered", "raised", "closing", "closed"}
InFlight  == Holding \cup {"waiting", "tail"}
Settled   == {"waiting", "done", "failed"}
Rows      == Settled \cup {"idle", "pending", "running", "cancelled"}

TypeOK ==
  /\ pc \in [Messages -> InFlight \cup {"unsent", "over", "broken"}]
  /\ lockOf \in [Messages -> Messages \cup {NoOne}]
  /\ line \in Seq(Messages)
  /\ taskLock \in Messages \cup {NoOne}
  /\ holder \in (Messages \ Runs) \cup {NoOne}
  /\ cancelled \in SUBSET (Messages \ Runs)
  /\ row \in Rows
  /\ stops \in 0..MaxStops /\ restarts \in 0..MaxRestarts
  /\ {stopFlag, queued, cut} \subseteq BOOLEAN

Init ==
  /\ pc = [m \in Messages |-> "unsent"]
  /\ lockOf = [m \in Messages |-> NoOne]
  /\ line = << >>
  /\ taskLock = NoOne /\ holder = NoOne
  /\ cancelled = {} /\ stopFlag = FALSE
  /\ row = "idle"
  /\ stops = 0 /\ restarts = 0
  /\ queued = FALSE /\ cut = FALSE

-----------------------------------------------------------------------------
(* The lock *)

Held(l) == \E m \in Messages : lockOf[m] = l /\ pc[m] \in Holding
Waiters(l) == {m \in Range(line) : lockOf[m] = l}

\* Mutant: a registered holder counts as dead whether or not it is.
DiedAtOnce == holder # NoOne

\* The registered holder has ended without taking its lock out.
HolderDied == holder # NoOne /\ pc[holder] = "over"

(***************************************************************************)
(* _get_task_lock for m: the session's lock, unless there is none or its   *)
(* holder has died.                                                        *)
(***************************************************************************)
LockFor(m) == IF taskLock = NoOne \/ HolderDied THEN m ELSE taskLock

\* Mutant: a run registers as the holder too.
EnterRegistered(m, registered) ==
  /\ pc' = [pc EXCEPT ![m] = IF m \in Runs THEN "working" ELSE "opening"]
  /\ holder' = m
  /\ row' = IF m \in Runs THEN row ELSE "running"

(***************************************************************************)
(* What a coroutine does first under the lock.  A message registers as the *)
(* holder and marks the row running; a run does neither.                   *)
(***************************************************************************)
Enter(m, registered) ==
  \/ /\ m \in Runs
     /\ pc' = [pc EXCEPT ![m] = "working"]
     /\ holder' = registered
     /\ UNCHANGED row
  \/ /\ m \notin Runs
     /\ pc' = [pc EXCEPT ![m] = "opening"]
     /\ holder' = m
     /\ row' = "running"

(***************************************************************************)
(* A message arrives, or the Run button is pressed: the coroutine gets as  *)
(* far as the lock, and through it when it is free and nobody waits for it *)
(* who was not cancelled.                                                  *)
(***************************************************************************)
Send(m) ==
  LET l          == LockFor(m)
      registered == IF HolderDied THEN NoOne ELSE holder
  IN /\ pc[m] = "unsent"
     /\ lockOf' = [lockOf EXCEPT ![m] = l]
     /\ taskLock' = l
     /\ \/ /\ ~Held(l) /\ Waiters(l) \subseteq cancelled
           /\ Enter(m, registered)
           /\ UNCHANGED <<line, queued>>
        \/ /\ Held(l) \/ Waiters(l) # {}
           /\ pc' = [pc EXCEPT ![m] = "waiting"]
           /\ line' = Append(line, m)
           /\ holder' = registered
           /\ queued' = TRUE
           /\ UNCHANGED row
     /\ UNCHANGED <<cancelled, stopFlag, bounded, cut>>

\* The waiters of m's lock that came before it.
Ahead(m) == {line[i] : i \in 1..(CHOOSE j \in DOMAIN line : line[j] = m) - 1}
              \cap Waiters(lockOf[m])

\* Mutant: a waiter goes on only under the lock the session has by now.
AcquireIfCurrent(m) ==
  /\ pc[m] = "waiting" /\ m \notin cancelled
  /\ ~Held(lockOf[m]) /\ lockOf[m] = taskLock
  /\ Ahead(m) \subseteq cancelled
  /\ line' = RemoveFirst(line, m)
  /\ Enter(m, holder)
  /\ UNCHANGED <<lockOf, taskLock, cancelled, stopFlag, bounded, history>>

\* asyncio.Lock is fair: the first waiter that was not cancelled goes next.
Acquire(m) ==
  /\ pc[m] = "waiting" /\ m \notin cancelled
  /\ ~Held(lockOf[m])
  /\ Ahead(m) \subseteq cancelled
  /\ line' = RemoveFirst(line, m)
  /\ Enter(m, holder)
  /\ UNCHANGED <<lockOf, taskLock, cancelled, stopFlag, bounded, history>>

-----------------------------------------------------------------------------
(* Under the lock.  Moves is a step of m that no cancellation has reached, *)
(* from one of the places in "from" to "to".                               *)

Moves(m, from, to) ==
  /\ pc[m] \in from /\ m \notin cancelled
  /\ pc' = [pc EXCEPT ![m] = to]
  /\ UNCHANGED <<lockVars, cancelled, bounded, history>>

\* The clients know that the session runs; the engine is called.
Begin(m) == Moves(m, {"opening"}, "working") /\ UNCHANGED <<stopFlag, row>>

\* The engine executes the session's task; some messages it answers without.
Execute(m) ==
  /\ Moves(m, {"working"}, "executing")
  /\ row' = "running"
  /\ UNCHANGED stopFlag

\* A failed result, while there are retries left.
Retry(m) ==
  /\ Moves(m, {"executing"}, "retrying")
  /\ row # "cancelled"
  /\ row' = "pending"
  /\ UNCHANGED stopFlag

\* The result is the row's status, unless it was cancelled meanwhile.
Settle(m) ==
  /\ Moves(m, Executing, "settled")
  /\ IF row = "cancelled" THEN UNCHANGED row ELSE row' \in Settled
  /\ UNCHANGED stopFlag

\* Mutant: the row is left as the engine left it.
ReturnsAsLeft(m) ==
  /\ m \notin Runs
  /\ Moves(m, {"working", "settled"}, "answered")
  /\ UNCHANGED <<stopFlag, row>>

\* The engine has answered: the row is idle unless the engine settled it.
Returns(m) ==
  /\ m \notin Runs
  /\ Moves(m, {"working", "settled"}, "answered")
  /\ row' = IF row \in {"pending", "running"} THEN "idle" ELSE row
  /\ UNCHANGED stopFlag

Close(m) == Moves(m, {"answered"}, "closing") /\ UNCHANGED <<stopFlag, row>>

\* The engine raised: the error is shown, and then the row has failed.
Raises(m) == m \notin Runs /\ Moves(m, InEngine, "raised") /\ UNCHANGED <<stopFlag, row>>
MarkFailed(m) ==
  /\ Moves(m, {"raised"}, "closing")
  /\ row' = "failed"
  /\ UNCHANGED stopFlag

(***************************************************************************)
(* The finally clause after its awaits: the lock of the session is taken   *)
(* out of the dictionary, whoever's it is by now, with the holder and the  *)
(* stop flag.  The lock itself is still held.                              *)
(***************************************************************************)
CleanUp(m) ==
  /\ pc[m] = "closing" /\ m \notin cancelled
  /\ pc' = [pc EXCEPT ![m] = "closed"]
  /\ taskLock' = NoOne /\ holder' = NoOne
  /\ stopFlag' = FALSE
  /\ UNCHANGED <<lockOf, line, cancelled, row, bounded, history>>

\* The last broadcast is out: the lock is released and the coroutine ends.
Leave(m) == Moves(m, {"closed"}, "over") /\ UNCHANGED <<stopFlag, row>>

(***************************************************************************)
(* A run lets go of the lock, which stays in place, when the engine has    *)
(* answered; after that its row is idle, whatever it was.  When the engine *)
(* raised, the clients are told and the row stays as it is.                *)
(***************************************************************************)
RunReturns(m) ==
  /\ m \in Runs
  /\ Moves(m, {"working", "settled"}, "tail")
  /\ UNCHANGED <<stopFlag, row>>

RunEnds(m) == Moves(m, {"tail"}, "over") /\ row' = "idle" /\ UNCHANGED stopFlag
RunRaises(m) == m \in Runs /\ Moves(m, InEngine, "broken") /\ UNCHANGED <<stopFlag, row>>

-----------------------------------------------------------------------------
(* Stop *)

(***************************************************************************)
(* The stop button: the row is idle, so that the session can be resumed,   *)
(* and every message of the session is cancelled; runs are not.            *)
(***************************************************************************)
Stop ==
  /\ stops < MaxStops
  /\ stops' = stops + 1
  /\ row' = "idle"
  /\ cancelled' = {m \in Messages \ Runs : pc[m] \in InFlight}
  /\ stopFlag' = TRUE
  /\ UNCHANGED <<pc, lockVars, restarts, history>>

\* CancelledError reaches m, which goes on at "to".
Cancels(m, from, to) ==
  /\ pc[m] \in from /\ m \in cancelled
  /\ pc' = [pc EXCEPT ![m] = to]
  /\ cancelled' = cancelled \ {m}
  /\ UNCHANGED <<lockOf, taskLock, holder, stopFlag, bounded, queued>>

CancelWaiting(m) ==
  /\ Cancels(m, {"waiting"}, "over")
  /\ line' = RemoveFirst(line, m)
  /\ UNCHANGED <<row, cut>>

(***************************************************************************)
(* A message cancelled before its try clause or in its finally clause ends *)
(* without taking out its lock, which is released all the same.            *)
(***************************************************************************)
CancelOutsideTry(m) ==
  /\ Cancels(m, {"opening", "closing", "closed"}, "over")
  /\ UNCHANGED <<line, row, cut>>

\* An except clause, or the first await of the finally clause, is cut short.
CancelInHandler(m) ==
  /\ Cancels(m, {"raised", "closing"}, "closing")
  /\ UNCHANGED <<line, row, cut>>

\* _mark_task_tree_cancelled_if_active: the stop button asks for no mark.
MarkCancelled == IF stopFlag \/ row \in {"cancelled", "done", "failed"} THEN row ELSE "cancelled"

\* Mutant: the handler does not know of the stop button.
CancelWorkingUnflagged(m) ==
  /\ Cancels(m, {"working", "retrying", "settled", "answered"}, "closing")
  /\ row' = IF row \in {"cancelled", "done", "failed"} THEN row ELSE "cancelled"
  /\ UNCHANGED <<line, cut>>

CancelWorking(m) ==
  /\ Cancels(m, {"working", "retrying", "settled", "answered"}, "closing")
  /\ row' = MarkCancelled
  /\ UNCHANGED <<line, cut>>

(***************************************************************************)
(* _execute_task: a task cancelled while it executes is marked so, by the  *)
(* engine, which knows of no stop button.                                  *)
(***************************************************************************)
CancelExecuting(m) ==
  /\ Cancels(m, {"executing"}, "closing")
  /\ row' = "cancelled"
  /\ cut' = TRUE
  /\ UNCHANGED line

Cancel(m) ==
  \/ CancelWaiting(m) \/ CancelOutsideTry(m) \/ CancelInHandler(m)
  \/ CancelWorking(m) \/ CancelExecuting(m)

(***************************************************************************)
(* The process ends and another one starts: the coroutines are gone, and   *)
(* _reconcile_interrupted_project_tasks fails a task left running.  (What  *)
(* is still running for reset_orphan_running_tasks belongs to projects     *)
(* that have no engine yet.)                                               *)
(***************************************************************************)
Restart ==
  /\ restarts < MaxRestarts
  /\ restarts' = restarts + 1
  /\ pc' = [m \in Messages |-> IF pc[m] = "unsent" THEN "unsent" ELSE "over"]
  /\ line' = << >> /\ taskLock' = NoOne /\ holder' = NoOne
  /\ cancelled' = {} /\ stopFlag' = FALSE
  /\ row' = IF row = "running" THEN "failed" ELSE row
  /\ UNCHANGED <<lockOf, stops, history>>

-----------------------------------------------------------------------------

Answers(m) ==
  \/ Returns(m) \/ Close(m) \/ Raises(m) \/ MarkFailed(m) \/ CleanUp(m) \/ Leave(m)
  \/ RunReturns(m) \/ RunEnds(m) \/ RunRaises(m)

Goes(m) ==
  \/ Acquire(m) \/ Begin(m) \/ Execute(m) \/ Retry(m) \/ Settle(m) \/ Answers(m)
  \/ Cancel(m)

Next ==
  \/ \E m \in Messages : Send(m) \/ Goes(m)
  \/ Stop
  \/ Restart

(***************************************************************************)
(* The event loop resumes every coroutine that can go on, and the engine   *)
(* answers at last.  Nobody has to write, stop or restart anything.        *)
(***************************************************************************)
Fairness == \A m \in Messages : WF_vars(Goes(m))
Spec == Init /\ [][Next]_vars /\ Fairness

-----------------------------------------------------------------------------

(***************************************************************************)
(* "Per-task lock: same session serialized": the messages of a session are *)
(* processed one at a time.                                                *)
(***************************************************************************)
OneAtATime ==
  \A m, k \in Messages : {pc[m], pc[k]} \subseteq InEngine \cup {"opening"} => m = k

(***************************************************************************)
(* They are, as long as no message has had to queue: the cleanup of one    *)
(* message, stops, dying holders and replaced locks let no two in by       *)
(* themselves.                                                             *)
(***************************************************************************)
SerialUntilQueued == ~queued => OneAtATime

(***************************************************************************)
(* No ghost: when no message is in flight the task is not left running,    *)
(* however the last ones ended, overlapped or were stopped.  The one       *)
(* exception is a run whose engine raised.                                 *)
(***************************************************************************)
NoGhostRunning ==
  row = "running" => \E m \in Messages : pc[m] \in InFlight \cup {"broken"}

(***************************************************************************)
(* The stop button leaves a task that can be resumed, and nobody marks it  *)
(* cancelled afterwards, unless the stop reached the engine while it       *)
(* executed the session's own task, or messages overlapped.                *)
(***************************************************************************)
StoppedStaysIdle == row # "cancelled"

StoppedStaysResumable == ~cut /\ ~queued => StoppedStaysIdle

(***************************************************************************)
(* A message that queues is served or cancelled, whichever lock it waits   *)
(* for, taken out of the dictionary and replaced as it may be.             *)
(***************************************************************************)
WaiterIsServed == \A m \in Messages : pc[m] = "waiting" ~> pc[m] # "waiting"

=============================================================================
