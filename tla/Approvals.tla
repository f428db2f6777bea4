---------------------------- MODULE Approvals ----------------------------
(***************************************************************************)
(* Human approval of tool calls: the approval engine with its grants and   *)
(* its denial memory (ApprovalEngine), the inline wait of a prompt         *)
(* (EscalationEngine) and the cards of the office UI (WSHandler), which    *)
(* stay answerable after the wait has expired.                             *)
(*                                                                         *)
(* A call is one action a task wants to run; all tasks share a session.  A *)
(* prompt is an attempt of a call that asked.  Patterns are abstracted to  *)
(* the actions they cover: the exact action, or its whole family.          *)
(***************************************************************************)
EXTENDS Naturals, Sequences, FiniteSets, SequencesExt

CONSTANTS
    Calls, Actions, Tasks, Families,
    ActionOf,    \* the action of a call
    TaskOf,      \* the task of a call
    FamilyOf,    \* the family of an action: what its allowlist patterns cover
    Threshold,   \* denial_memory.repeat_threshold
    MaxAttempts, \* bound: attempts of each call
    MaxRestarts, \* bound: restarts of the process
    ClicksDuringPublish   \* may a click be handled between the creation of a
                          \* prompt's record and the scan of its callback?

ASSUME ApprovalsAssumption ==
    /\ IsFiniteSet(Calls)
    /\ ActionOf \in [Calls -> Actions] /\ TaskOf \in [Calls -> Tasks]
    /\ FamilyOf \in [Actions -> Families]
    /\ Threshold \in Nat \ {0} /\ MaxAttempts \in [Calls -> Nat \ {0}] /\ MaxRestarts \in Nat
    /\ ClicksDuringPublish \in BOOLEAN

VARIABLES
    st,        \* where each call is
    attempt,   \* its current attempt
    awaits,    \* the prompt whose future its callback awaits
    denials,   \* _denial_counts, capped at Threshold
    loaded,    \* whether _session_allowlist holds the session's scope
    session,   \* that scope
    disk,      \* the session's grants in the allowlist file
    project,   \* the project's grants in the allowlist file
    order,     \* _pending_escalation_order
    future,    \* the futures of _pending_escalations
    card,      \* the cards in the chat store
    restarts,
    approved   \* history: actions a human has approved, by any card

callVars  == <<st, attempt, awaits>>
grantVars == <<loaded, session, disk, project>>
cardVars  == <<order, future, card>>
vars == <<callVars, denials, grantVars, cardVars, restarts, approved>>

Prompts == UNION {{c} \X (1..MaxAttempts[c]) : c \in Calls}
NoPrompt == <<>>
Replies == {"approve_once", "approve_session", "always_project", "deny"}
Asking == {"asking", "publishing", "waiting"}
Over == {"ran", "refused", "rejected", "lost", "dead"}

TypeOK ==
    /\ st \in [Calls -> Asking \cup Over \cup {"idle", "parked"}]
    /\ attempt \in [Calls -> Nat] /\ \A c \in Calls : attempt[c] \in 1..MaxAttempts[c]
    /\ awaits \in [Calls -> Prompts \cup {NoPrompt}]
    /\ denials \in [Actions -> 0..Threshold]
    /\ loaded \in BOOLEAN /\ session \subseteq Actions
    /\ disk \subseteq Actions /\ project \subseteq Actions
    /\ order \in Seq(Prompts)
    /\ future \in [Prompts -> Replies \cup {"none", "pending", "cancelled"}]
    /\ card \in [Prompts -> {"none", "pending", "closed"}]
    /\ restarts \in 0..MaxRestarts /\ approved \subseteq Actions
    /\ \A c \in Calls : (st[c] = "waiting") = (awaits[c] # NoPrompt)

Init ==
    /\ st = [c \in Calls |-> "idle"]
    /\ attempt = [c \in Calls |-> 1]
    /\ awaits = [c \in Calls |-> NoPrompt]
    /\ denials = [a \in Actions |-> 0]
    /\ loaded = FALSE /\ session = {} /\ disk = {} /\ project = {}
    /\ order = <<>>
    /\ future = [p \in Prompts |-> "none"] /\ card = [p \in Prompts |-> "none"]
    /\ restarts = 0 /\ approved = {}

Prompt(c) == <<c, attempt[c]>>
CallOf(p) == p[1]
Family(a) == {b \in Actions : FamilyOf[b] = FamilyOf[a]}

----------------------------------------------------------------------------
(* Grants and denials *)

\* _lookup_session_allowlist_policy reads the file on its first use.
Hydrated == IF loaded THEN session ELSE disk
Hydrate == loaded' = TRUE /\ session' = Hydrated
Granted(a) == a \in Hydrated \cup project

\* Mutant: an approval for the session is not written to the file.
AddToSessionInMemory(S) ==
    loaded' = TRUE /\ session' = session \cup S /\ UNCHANGED disk
\* _add_session_patterns_by_scope: a scope that was not read yet starts empty.
AddToSession(S) ==
    /\ loaded' = TRUE /\ session' = session \cup S
    /\ disk' = disk \cup S

\* What a reply grants, to the live prompt and to an expired card alike.
Grant(r, a) ==
    CASE r = "approve_once" -> AddToSession({a}) /\ UNCHANGED project
      [] r = "approve_session" -> AddToSession(Family(a)) /\ UNCHANGED project
      [] r = "always_project" -> project' = project \cup Family(a) /\ UNCHANGED <<loaded, session, disk>>
      [] r = "deny" -> UNCHANGED grantVars

\* record_denial, n times.
Deny(a, n) ==
    denials' = [denials EXCEPT ![a] = IF @ + n > Threshold THEN Threshold ELSE @ + n]

(***************************************************************************)
(* ApprovalEngine.predict for an action that needs approval: the denial    *)
(* memory is asked before the grants.  A refusal counts as a denial too.   *)
(***************************************************************************)
Predict(c) ==
    LET a == ActionOf[c] IN
    /\ st[c] = "idle"
    /\ IF denials[a] >= Threshold
       THEN st' = [st EXCEPT ![c] = "refused"] /\ Deny(a, 1) /\ UNCHANGED <<loaded, session>>
       ELSE /\ st' = [st EXCEPT ![c] = IF Granted(a) THEN "ran" ELSE "asking"]
            /\ Hydrate
            /\ UNCHANGED denials
    /\ UNCHANGED <<attempt, awaits, disk, project, cardVars, restarts, approved>>

----------------------------------------------------------------------------
(* The inline wait *)

(***************************************************************************)
(* The permission gate authorizes the call.  A grant made since the        *)
(* prediction lets it pass; otherwise the prompt is published: the UI      *)
(* remembers a record with a fresh future and stores the card.             *)
(***************************************************************************)
Authorize(c) ==
    /\ st[c] = "asking"
    /\ Hydrate
    /\ IF Granted(ActionOf[c])
       THEN st' = [st EXCEPT ![c] = "ran"] /\ UNCHANGED cardVars
       ELSE /\ st' = [st EXCEPT ![c] = "publishing"]
            /\ order' = Append(order, Prompt(c))
            /\ future' = [future EXCEPT ![Prompt(c)] = "pending"]
            /\ card' = [card EXCEPT ![Prompt(c)] = "pending"]
    /\ UNCHANGED <<attempt, awaits, denials, disk, project, restarts, approved>>

Pending == {i \in DOMAIN order : future[order[i]] = "pending"}
\* A prompt shows its task and its action, not its id.
Message(p) == <<TaskOf[CallOf(p)], ActionOf[CallOf(p)]>>
Newest(I) == order[CHOOSE i \in I : \A j \in I : j <= i]

\* Mutant: the callback takes the newest pending record without comparing.
MatchNewest(c) == Pending
\* Records _handle_ui_escalation prefers: the same message and options.
Matching(c) == {i \in Pending : Message(order[i]) = Message(Prompt(c))}

(***************************************************************************)
(* The callback looks for its record: the newest pending one with its      *)
(* message, else the newest pending one.  Without any it returns nothing   *)
(* and the call is left to a later decision.                               *)
(***************************************************************************)
Scan(c) ==
    /\ st[c] = "publishing"
    /\ IF Pending = {}
       THEN /\ st' = [st EXCEPT ![c] = "parked"]
            /\ Deny(ActionOf[c], 1)
            /\ UNCHANGED awaits
       ELSE /\ st' = [st EXCEPT ![c] = "waiting"]
            /\ awaits' = [awaits EXCEPT ![c] =
                   Newest(IF Matching(c) # {} THEN Matching(c) ELSE Pending)]
            /\ UNCHANGED denials
    /\ UNCHANGED <<attempt, grantVars, cardVars, restarts, approved>>

\* The id of a record is in the list once.
Without(p) == RemoveFirst(order, p)

(***************************************************************************)
(* The awaited future has a reply: the record is dropped, the call's card  *)
(* resolved, the grant stored.  A denial is recorded by the gate and again *)
(* when the blocked result is classified.                                  *)
(***************************************************************************)
Replied(c) ==
    LET r == future[awaits[c]] IN
    /\ st[c] = "waiting" /\ r \in Replies
    /\ order' = Without(awaits[c])
    /\ card' = [card EXCEPT ![Prompt(c)] = "closed"]
    /\ Grant(r, ActionOf[c])
    /\ IF r = "deny" THEN Deny(ActionOf[c], 2) ELSE UNCHANGED denials
    /\ st' = [st EXCEPT ![c] = IF r = "deny" THEN "rejected" ELSE "ran"]
    /\ awaits' = [awaits EXCEPT ![c] = NoPrompt]
    /\ UNCHANGED <<attempt, future, restarts, approved>>

\* Mutant: the callback is awaited without a timeout.
ExpireNever(c) == FALSE
\* Mutant: an expired prompt closes its card.
ExpireClosed(c) ==
    /\ st[c] = "waiting" /\ future[awaits[c]] = "pending"
    /\ order' = Without(awaits[c])
    /\ future' = [future EXCEPT ![awaits[c]] = "cancelled"]
    /\ card' = [card EXCEPT ![Prompt(c)] = "closed"]
    /\ Deny(ActionOf[c], 1)
    /\ st' = [st EXCEPT ![c] = "parked"]
    /\ awaits' = [awaits EXCEPT ![c] = NoPrompt]
    /\ UNCHANGED <<attempt, grantVars, restarts, approved>>
(***************************************************************************)
(* The wait expires, which cancels the awaited future.  No default is      *)
(* applied: the call parks and its card stays pending.  The gate records a *)
(* denial all the same.                                                    *)
(***************************************************************************)
Expire(c) ==
    /\ st[c] = "waiting" /\ future[awaits[c]] = "pending"
    /\ order' = Without(awaits[c])
    /\ future' = [future EXCEPT ![awaits[c]] = "cancelled"]
    /\ Deny(ActionOf[c], 1)
    /\ st' = [st EXCEPT ![c] = "parked"]
    /\ awaits' = [awaits EXCEPT ![c] = NoPrompt]
    /\ UNCHANGED <<attempt, grantVars, card, restarts, approved>>

(***************************************************************************)
(* A callback awaiting a future another one cancelled: the CancelledError  *)
(* passes through the prompt and ends the agent's turn.                    *)
(***************************************************************************)
CancelledByOther(c) ==
    /\ st[c] = "waiting" /\ future[awaits[c]] = "cancelled"
    /\ st' = [st EXCEPT ![c] = "dead"]
    /\ awaits' = [awaits EXCEPT ![c] = NoPrompt]
    /\ UNCHANGED <<attempt, denials, grantVars, cardVars, restarts, approved>>

----------------------------------------------------------------------------
(* The human *)

Covered(r, a) == CASE r = "deny" -> {} [] r = "approve_once" -> {a} [] OTHER -> Family(a)

MayClick(p) ==
    /\ card[p] = "pending"
    /\ ClicksDuringPublish \/ \A c \in Calls : st[c] # "publishing"

LivePrompt(p) == \E i \in Pending : order[i] = p

(***************************************************************************)
(* _resolve_related_pending_escalations: prompts of the same family that   *)
(* the reply covers too, of the same task when it is for the session.      *)
(***************************************************************************)
Related(p, r) ==
    {q \in Prompts \ {p} :
        /\ r \in {"approve_session", "always_project"}
        /\ LivePrompt(q)
        /\ FamilyOf[ActionOf[CallOf(q)]] = FamilyOf[ActionOf[CallOf(p)]]
        /\ r = "approve_session" => TaskOf[CallOf(q)] = TaskOf[CallOf(p)]}

(***************************************************************************)
(* A click on a card whose future is pending.                              *)
(***************************************************************************)
Click(p, r) ==
    /\ MayClick(p) /\ LivePrompt(p)
    /\ LET answered == {p} \cup Related(p, r) IN
       /\ future' = [q \in Prompts |-> IF q \in answered THEN r ELSE future[q]]
       /\ card' = [q \in Prompts |-> IF q \in answered THEN "closed" ELSE card[q]]
    /\ approved' = approved \cup Covered(r, ActionOf[CallOf(p)])
    /\ UNCHANGED <<callVars, denials, grantVars, order, restarts>>

(***************************************************************************)
(* A click on a card nobody awaits any more: the grant is stored and the   *)
(* calls the card's task is parked on are resumed, to run again or, after  *)
(* a denial, to be left out.                                               *)
(***************************************************************************)
ClickExpired(p, r) ==
    LET resumed == {c \in Calls : TaskOf[c] = TaskOf[CallOf(p)] /\ st[c] = "parked"} IN
    /\ MayClick(p) /\ ~LivePrompt(p)
    /\ \A c \in resumed : attempt[c] < MaxAttempts[c]
    /\ Grant(r, ActionOf[CallOf(p)])
    /\ card' = [card EXCEPT ![p] = "closed"]
    /\ st' = [c \in Calls |-> IF c \notin resumed THEN st[c]
                              ELSE IF r = "deny" THEN "rejected" ELSE "idle"]
    /\ attempt' = [c \in Calls |-> IF c \in resumed /\ r # "deny" THEN attempt[c] + 1
                                   ELSE attempt[c]]
    /\ approved' = approved \cup Covered(r, ActionOf[CallOf(p)])
    /\ UNCHANGED <<awaits, denials, order, future, restarts>>

----------------------------------------------------------------------------
(***************************************************************************)
(* The agent asks for the same action again.                               *)
(***************************************************************************)
Again(c) ==
    /\ st[c] \in Over /\ attempt[c] < MaxAttempts[c]
    /\ st' = [st EXCEPT ![c] = "idle"]
    /\ attempt' = [attempt EXCEPT ![c] = @ + 1]
    /\ UNCHANGED <<awaits, denials, grantVars, cardVars, restarts, approved>>

\* Mutant: the checkpoints of the calls in flight survive the restart.
RestartKeepsCalls ==
    /\ restarts < MaxRestarts
    /\ restarts' = restarts + 1
    /\ denials' = [a \in Actions |-> 0]
    /\ loaded' = FALSE /\ session' = {}
    /\ order' = <<>> /\ future' = [p \in Prompts |-> "none"]
    /\ awaits' = [c \in Calls |-> NoPrompt]
    /\ UNCHANGED <<st, attempt, disk, project, card, approved>>
(***************************************************************************)
(* The process restarts: what was in memory is gone, the allowlist file,   *)
(* the cards and the parked checkpoints stay.                              *)
(***************************************************************************)
Restart ==
    /\ restarts < MaxRestarts
    /\ restarts' = restarts + 1
    /\ denials' = [a \in Actions |-> 0]
    /\ loaded' = FALSE /\ session' = {}
    /\ order' = <<>> /\ future' = [p \in Prompts |-> "none"]
    /\ st' = [c \in Calls |-> IF st[c] \in Asking THEN "lost" ELSE st[c]]
    /\ awaits' = [c \in Calls |-> NoPrompt]
    /\ UNCHANGED <<attempt, disk, project, card, approved>>

CallStep(c) ==
    Predict(c) \/ Authorize(c) \/ Scan(c) \/ Replied(c) \/ Expire(c) \/ CancelledByOther(c)
Human == \E p \in Prompts, r \in Replies : Click(p, r) \/ ClickExpired(p, r)
Next == (\E c \in Calls : CallStep(c) \/ Again(c)) \/ Human \/ Restart

(***************************************************************************)
(* The event loop runs every ready callback and the wait_for timer fires;  *)
(* no human has to answer.                                                 *)
(***************************************************************************)
Fairness == \A c \in Calls : WF_vars(CallStep(c))
Spec == Init /\ [][Next]_vars /\ Fairness

----------------------------------------------------------------------------
(***************************************************************************)
(* An action runs only after a human has approved it, or a pattern that    *)
(* covers it, on some card: no reply to one prompt lets another action     *)
(* through, live, expired, by relation or after a restart.                 *)
(***************************************************************************)
RunsOnlyApproved == \A c \in Calls : st[c] = "ran" => ActionOf[c] \in approved

\* Another call of the task shows the same prompt.
Aliased(c) == \E b \in Calls \ {c} : Message(Prompt(b)) = Message(Prompt(c))

(***************************************************************************)
(* A call that waits for a later decision still has the card to make it    *)
(* on, also when the process has been restarted meanwhile.  (Of two calls  *)
(* with the same prompt one may have waited on the other's record.)        *)
(***************************************************************************)
ParkedHasCard ==
    \A c \in Calls : st[c] = "parked" /\ ~Aliased(c) => card[Prompt(c)] = "pending"

(***************************************************************************)
(* What the session's scope grants in memory is in the file: an approval   *)
(* for the session is not forgotten by a restart.                          *)
(***************************************************************************)
SessionGrantsStored == session \subseteq disk

(***************************************************************************)
(* A prompt nobody answers does not hold its agent for ever.               *)
(***************************************************************************)
PromptEnds == \A c \in Calls : st[c] \in Asking ~> st[c] \notin Asking

=============================================================================
