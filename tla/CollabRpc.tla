----------------------------- MODULE CollabRpc -----------------------------
(***************************************************************************)
(* The board calls of one manager whose turn is run by an external agent.  *)
(* The agent calls `opc-collab`, whose process writes one line into a      *)
(* named pipe and waits at most 30 s for the answer; the broker reads the  *)
(* pipe line by line and answers one request before it reads the next.     *)
(* A call that was given up may still be served, an answer may find nobody *)
(* waiting, two long lines may destroy each other and the reader of the    *)
(* pipe with them, and a delegation may fail half-way (`database is        *)
(* locked`).  When the agent has ended well, the dispatch guard judges the *)
(* turn by what it left on the board, and the manager's item waits for the *)
(* children it knows of, or is submitted.  An agent that fails, or that    *)
(* the broker kills, ends its turn without a guard and without a phase.    *)
(*                                                                         *)
(* A child is named by its scope and by the request that saved it.         *)
(***************************************************************************)
EXTENDS Naturals, Sequences, FiniteSets

CONSTANTS
    Calls,            \* the board calls the agent may make
    Slow,             \* those that await a model (respond_meeting's judge)
    Scopes,           \* the pieces of work delegated
    Keyed,            \* those the agent gives a scope_key
    ScopesOf,         \* what a call delegates
    TriesOf,          \* bound: how often a call is sent
    MaxFaults,        \* bound: delegations that fail half-way
    MaxGuardRetries,  \* manager_dispatch_guard_max_retries, 2 in the code
    ShowsOutage       \* does the agent's output show the errors of its calls

ASSUME CallsAssumption ==
    /\ Slow \subseteq Calls
    /\ Keyed \subseteq Scopes
    /\ ScopesOf \in [Calls -> SUBSET Scopes]
    /\ \A c \in Slow : ScopesOf[c] = {}
    /\ TriesOf \in [Calls -> Nat]
    /\ MaxFaults \in Nat
    /\ MaxGuardRetries \in Nat
    /\ ShowsOutage \in BOOLEAN

VARIABLES
    call,         \* how a call stands with the agent in this run
    tries,        \* how often it was sent
    pipe,         \* the lines in the request pipe
    serving,      \* the request whose answer is awaited: none or one
    deaf,         \* the task that reads the pipe has died of an exception
    children,     \* the saved children
    approved,     \* those of them that are approved
    deps,         \* the parent's dependency_work_item_ids
    turn,         \* where the manager's item stands
    before,       \* the guard's snapshot of the board, before this run
    performed,    \* manager_board_mutation_performed, or children waited for
    outage,       \* an infrastructure error in this run's output
    guardRetries, \* _manager_dispatch_retry_count
    faults,       \* delegations that failed half-way
    completed     \* history: the requests that reached the parent's stamp

agentVars == <<call, tries, outage>>
pipeVars == <<pipe, serving, deaf>>
boardVars == <<children, approved, deps>>
guardVars == <<before, performed, guardRetries>>
historyVars == <<faults, completed>>
vars == <<agentVars, pipeVars, boardVars, turn, guardVars, historyVars>>

Requests == UNION {{<<c, n>> : n \in 1 .. TriesOf[c]} : c \in Calls}
Children == Scopes \X Requests
CallStates == {"idle", "waiting", "answered", "failed", "left"}
TurnStates == {"running", "draining", "failing", "closed", "parked", "submitted", "failed",
               "held"}

\* A line of mixed pieces that is no text any more; a request counts from 1.
Broken == <<"broken", 0>>

Snapshot == [children |-> children, deps |-> deps]

Init ==
    /\ call = [c \in Calls |-> "idle"]
    /\ tries = [c \in Calls |-> 0]
    /\ pipe = <<>>
    /\ serving = {}
    /\ deaf = FALSE
    /\ children = {}
    /\ approved = {}
    /\ deps = {}
    /\ turn = "running"
    /\ before = [children |-> {}, deps |-> {}]
    /\ performed = FALSE
    /\ outage = FALSE
    /\ guardRetries = 0
    /\ faults = 0
    /\ completed = {}

-----------------------------------------------------------------------------
(* The agent's side. *)

MaySend(c) ==
    /\ turn = "running"
    /\ call[c] \in {"idle", "failed"}
    /\ tries[c] < TriesOf[c]

(* A call is made, or made again after an error that says "retryable". *)
Send(c) ==
    /\ MaySend(c)
    /\ call' = [call EXCEPT ![c] = "waiting"]
    /\ tries' = [tries EXCEPT ![c] = @ + 1]
    /\ pipe' = Append(pipe, <<c, tries[c] + 1>>)
    /\ UNCHANGED <<outage, serving, deaf, boardVars, turn, guardVars, historyVars>>

(* Two calls at once whose lines are longer than a pipe writes in one piece:
   the lines mix.  A line that does not parse is skipped without answer; one
   that splits a character is more than the reader catches. *)
SendGarbled(c, d) ==
    /\ c # d
    /\ MaySend(c)
    /\ MaySend(d)
    /\ call' = [call EXCEPT ![c] = "waiting", ![d] = "waiting"]
    /\ tries' = [tries EXCEPT ![c] = @ + 1, ![d] = @ + 1]
    /\ pipe' \in {pipe, Append(pipe, Broken)}
    /\ UNCHANGED <<outage, serving, deaf, boardVars, turn, guardVars, historyVars>>

\* Mutant: once its line has been read, a call waits without limit.
TimeoutUnlessRead(c) ==
    /\ turn = "running"
    /\ call[c] = "waiting"
    /\ \E i \in 1 .. Len(pipe) : pipe[i][1] = c
    /\ call' = [call EXCEPT ![c] = "failed"]
    /\ outage' = TRUE
    /\ UNCHANGED <<tries, pipeVars, boardVars, turn, guardVars, historyVars>>

(* The client gives up; its line stays in the pipe. *)
Timeout(c) ==
    /\ turn = "running"
    /\ call[c] = "waiting"
    /\ call' = [call EXCEPT ![c] = "failed"]
    /\ outage' = TRUE
    /\ UNCHANGED <<tries, pipeVars, boardVars, turn, guardVars, historyVars>>

(* The agent's process exits with code 0, whether or not its calls were
   answered. *)
AgentEnds ==
    /\ turn = "running"
    /\ turn' = "draining"
    /\ UNCHANGED <<agentVars, pipeVars, boardVars, guardVars, historyVars>>

(* It exits with another code, or the broker kills it: a hard, idle or startup
   limit is passed, or its output shows a fatal error. *)
AgentFails ==
    /\ turn = "running"
    /\ turn' = "failing"
    /\ UNCHANGED <<agentVars, pipeVars, boardVars, guardVars, historyVars>>

-----------------------------------------------------------------------------
(* The broker's side. *)

(* The answer reaches the client that still waits for this very request;
   otherwise its pipe is gone, and the answer is dropped. *)
Answer(r, state) ==
    IF turn = "running" /\ call[r[1]] = "waiting" /\ tries[r[1]] = r[2]
    THEN /\ call' = [call EXCEPT ![r[1]] = state]
         /\ outage' = (outage \/ state = "failed")
    ELSE UNCHANGED <<call, outage>>

Reads(r) ==
    /\ turn \in {"running", "draining", "failing"}
    /\ serving = {} /\ ~deaf
    /\ pipe # <<>>
    /\ r = Head(pipe)
    /\ pipe' = Tail(pipe)
    /\ UNCHANGED <<tries, turn, guardVars>>

\* Mutant: a key is looked up among the dependencies only.
MatchesAmongDependencies(k) == {i \in deps : i[1] = k}

(* The children of this board a scope_key stands for. *)
Matches(k) == {i \in children : i[1] = k}

\* Mutant: a child that is reused is not added to the dependencies.
ReusedNotStamped(c) == {}

Reused(c) == UNION {Matches(k) : k \in ScopesOf[c] \cap Keyed}

Created(r) == {<<k, r>> : k \in {s \in ScopesOf[r[1]] : s \in Keyed => Matches(s) = {}}}

Ambiguous(c) == \E k \in ScopesOf[c] \cap Keyed : Cardinality(Matches(k)) > 1

(* delegate_work runs without a pause: each new child is saved, and at the end
   the parent is stamped with what it waited for, the new and the reused. *)
ServeDelegate(r) ==
    /\ Reads(r)
    /\ r[1] \notin Slow
    /\ ~Ambiguous(r[1])
    /\ children' = children \cup Created(r)
    /\ deps' = deps \cup Reused(r[1]) \cup Created(r)
    /\ completed' = completed \cup {r}
    /\ Answer(r, "answered")
    /\ UNCHANGED <<serving, deaf, approved, faults>>

(* A store call raises: the children saved so far stay, and the agent is told
   of an infrastructure error.  The parent knows of none of them, unless it was
   the very last write, the task's own, that failed. *)
DelegateFails(r) ==
    /\ Reads(r)
    /\ r[1] \notin Slow
    /\ ~Ambiguous(r[1])
    /\ faults < MaxFaults
    /\ faults' = faults + 1
    /\ \E saved \in SUBSET Created(r), stamped \in BOOLEAN :
          /\ stamped => saved = Created(r)
          /\ children' = children \cup saved
          /\ deps' = IF stamped THEN deps \cup Reused(r[1]) \cup saved ELSE deps
          /\ completed' = IF stamped THEN completed \cup {r} ELSE completed
    /\ Answer(r, "failed")
    /\ UNCHANGED <<serving, deaf, approved>>

(* A malformed item, or a key that stands for several children: refused before
   anything is saved, with an error the agent takes as its answer. *)
RefuseDelegate(r) ==
    /\ Reads(r)
    /\ r[1] \notin Slow
    /\ Answer(r, "answered")
    /\ UNCHANGED <<serving, deaf, boardVars, historyVars>>

(* A call that awaits a model keeps the lines behind it waiting. *)
StartSlow(r) ==
    /\ Reads(r)
    /\ r[1] \in Slow
    /\ serving' = {r}
    /\ UNCHANGED <<call, outage, deaf, boardVars, historyVars>>

EndSlow(r) ==
    /\ r \in serving
    /\ serving' = {}
    /\ Answer(r, "answered")
    /\ UNCHANGED <<tries, pipe, deaf, boardVars, turn, guardVars, historyVars>>

(* The reader comes to a line it cannot decode and dies: nothing that follows
   is read in this run. *)
ReaderDies ==
    /\ Reads(Broken)
    /\ deaf' = TRUE
    /\ UNCHANGED <<call, outage, serving, boardVars, historyVars>>

Serve ==
    \/ ReaderDies
    \/ \E r \in Requests :
        \/ ServeDelegate(r)
        \/ DelegateFails(r)
        \/ RefuseDelegate(r)
        \/ StartSlow(r)
        \/ EndSlow(r)

(* The endpoint is closed: the request being served is cancelled, the lines
   that are left are gone. *)
EndpointGone ==
    /\ pipe' = <<>>
    /\ serving' = {}
    /\ call' = [c \in Calls |-> IF call[c] = "waiting" THEN "left" ELSE call[c]]
    /\ UNCHANGED <<tries, outage, deaf, boardVars, guardVars, historyVars>>

(* The broker has read the agent's last output and closes the endpoint.  Then
   the guard judges an agent that ended well; the result of one that failed is
   handed on, and its item stays as it is.  What a reader died of is raised by
   the closing, and the item is failed. *)
Close ==
    /\ turn \in {"draining", "failing"}
    /\ turn' = IF deaf THEN "failed" ELSE IF turn = "draining" THEN "closed" ELSE "held"
    /\ EndpointGone

(* The limit of the work item is passed: the broker is cancelled, kills the
   agent and closes the endpoint, and the item is failed. *)
TurnTimesOut ==
    /\ turn \in {"running", "draining", "failing"}
    /\ turn' = "failed"
    /\ EndpointGone

-----------------------------------------------------------------------------
(* The end of the turn. *)

BoardChanged ==
    \/ children \ before.children # {}
    \/ deps \ before.deps # {}
    \/ performed

(* A turn that left the board alone needs a reason, and an outage is none. *)
GuardAccepts(justified) ==
    \/ BoardChanged
    \/ justified /\ ~(outage /\ ShowsOutage)

(* What the item waits for: the dependencies it was stamped with, or else
   whatever was filed under it. *)
WaitSet == IF deps # {} THEN deps ELSE children

(* The agent runs once more, against a new endpoint. *)
NextRun ==
    /\ turn' = "running"
    /\ call' = [c \in Calls |-> "idle"]
    /\ outage' = FALSE
    /\ deaf' = FALSE
    /\ before' = Snapshot
    /\ UNCHANGED <<tries, pipe, serving>>

ParkForChildren ==
    /\ turn = "closed"
    /\ \E justified \in BOOLEAN : GuardAccepts(justified)
    /\ ~(WaitSet \subseteq approved)
    /\ turn' = "parked"
    /\ deps' = WaitSet
    /\ performed' = TRUE
    /\ guardRetries' = 0
    /\ UNCHANGED <<agentVars, pipeVars, children, approved, before, historyVars>>

Submit ==
    /\ turn = "closed"
    /\ \E justified \in BOOLEAN : GuardAccepts(justified)
    /\ WaitSet \subseteq approved
    /\ turn' = "submitted"
    /\ performed' = (BoardChanged \/ WaitSet # {})
    /\ guardRetries' = 0
    /\ UNCHANGED <<agentVars, pipeVars, boardVars, before, historyVars>>

\* Mutant: one retry too many.
GuardRetryOnceMore ==
    /\ turn = "closed"
    /\ \E justified \in BOOLEAN : ~GuardAccepts(justified)
    /\ guardRetries <= MaxGuardRetries
    /\ guardRetries' = guardRetries + 1
    /\ NextRun
    /\ UNCHANGED <<boardVars, performed, historyVars>>

GuardRetry ==
    /\ turn = "closed"
    /\ \E justified \in BOOLEAN : ~GuardAccepts(justified)
    /\ guardRetries < MaxGuardRetries
    /\ guardRetries' = guardRetries + 1
    /\ NextRun
    /\ UNCHANGED <<boardVars, performed, historyVars>>

GuardFails ==
    /\ turn = "closed"
    /\ \E justified \in BOOLEAN : ~GuardAccepts(justified)
    /\ guardRetries >= MaxGuardRetries
    /\ turn' = "failed"
    /\ UNCHANGED <<agentVars, pipeVars, boardVars, guardVars, historyVars>>

(* The last child is approved, and the manager gets its next turn. *)
Release ==
    /\ turn = "parked"
    /\ deps \subseteq approved
    /\ NextRun
    /\ UNCHANGED <<boardVars, performed, guardRetries, historyVars>>

(* A child is worked on as soon as it is saved, and approved at any time. *)
ChildDone(i) ==
    /\ i \in children \ approved
    /\ approved' = approved \cup {i}
    /\ UNCHANGED <<agentVars, pipeVars, children, deps, turn, guardVars, historyVars>>

EndOfTurn == ParkForChildren \/ Submit \/ GuardRetry \/ GuardFails \/ Release

Next ==
    \/ \E c \in Calls : Send(c) \/ Timeout(c)
    \/ \E c, d \in Calls : SendGarbled(c, d)
    \/ AgentEnds \/ AgentFails
    \/ Serve
    \/ Close \/ TurnTimesOut
    \/ EndOfTurn
    \/ \E i \in Children : ChildDone(i)

Spec == Init /\ [][Next]_vars

(* An agent whose calls are all over comes to an end, or is killed. *)
AgentDone ==
    /\ AgentEnds \/ AgentFails
    /\ \A c \in Calls : call[c] # "waiting"

Fairness ==
    /\ \A c \in Calls : WF_vars(Timeout(c))
    /\ WF_vars(AgentDone)
    /\ WF_vars(Close)
    /\ WF_vars(EndOfTurn)
    /\ \A i \in Children : WF_vars(ChildDone(i))

FairSpec == Spec /\ Fairness

-----------------------------------------------------------------------------
(* Properties *)

(* Types, and the counters within their bounds: the guard sends a manager back
   no more often than it is set to. *)
TypeOK ==
    /\ call \in [Calls -> CallStates]
    /\ tries \in [Calls -> Nat] /\ \A c \in Calls : tries[c] <= TriesOf[c]
    /\ pipe \in Seq(Requests \cup {Broken})
    /\ serving \subseteq Requests /\ deaf \in BOOLEAN
    /\ children \subseteq Children
    /\ approved \subseteq children
    /\ deps \subseteq children
    /\ turn \in TurnStates
    /\ before \in [children : SUBSET Children, deps : SUBSET Children]
    /\ performed \in BOOLEAN
    /\ outage \in BOOLEAN
    /\ guardRetries \in 0 .. MaxGuardRetries
    /\ faults \in 0 .. MaxFaults
    /\ completed \subseteq Requests

(* A piece of work that has a scope_key exists once, although its delegation is
   sent again after a timeout, the first request is still served later, and an
   earlier attempt may have saved the child without telling its parent. *)
KeyedOnce == \A i, j \in children : i[1] \in Keyed /\ i[1] = j[1] => i = j

(* What a delegation that came to its end asked for is done before the manager
   is: the children it created, and those of its keys it found, among them the
   leftovers of a delegation that had failed. *)
DelegatedIsDone ==
    turn = "submitted" =>
        \A r \in completed : \A k \in ScopesOf[r[1]] :
            IF k \in Keyed
            THEN /\ \E i \in children : i[1] = k
                 /\ \A i \in children : i[1] = k => i \in approved
            ELSE <<k, r>> \in approved

(* Children no delegation ever told the parent of are waited for all the same,
   as long as there are no others: this is what the parent's list of children
   is looked up for when it has no dependencies.  A second failure, in a later
   turn, is no longer noticed. *)
LoneOrphansAreDone ==
    turn = "submitted" /\ completed = {} /\ faults <= 1 => children \subseteq approved

(* A manager that submits without children waited in vain for no call of its
   last run: a lost, late or failed one is no reason to do without delegation.
   This holds for the agents whose output shows what their commands returned. *)
ChildlessIsChosen ==
    ShowsOutage /\ turn = "submitted" /\ children = {} =>
        \A c \in Calls : call[c] # "failed"

(* The manager's turns come to an end, whatever calls are lost, wait behind a
   slow one, are answered to nobody or find the reader dead: the item is
   submitted or failed, or an agent that failed leaves it running under its
   claim ("held"), which no code of the turn looks at again. *)
TurnIsOver == <>(turn \in {"submitted", "failed", "held"})

=============================================================================
