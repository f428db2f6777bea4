-------------------------- MODULE CollabRpcProofs --------------------------
(***************************************************************************)
(* What the board calls of an external agent leave behind, for any calls,  *)
(* scopes and bounds: a keyed piece of work exists once, a manager that is *)
(* submitted has its delegated work done, and lost calls are no reason for *)
(* a manager to have no children.                                          *)
(***************************************************************************)
EXTENDS CollabRpc, TLAPS

USE DEF CallStates, TurnStates

(* Every child of a completed delegation is a dependency of the parent. *)
CompletedIsStamped ==
    \A r \in completed : \A k \in ScopesOf[r[1]] :
        IF k \in Keyed
        THEN /\ \E i \in children : i[1] = k
             /\ \A i \in children : i[1] = k => i \in deps
        ELSE <<k, r>> \in deps

(* A submitted item waited for what it knew of. *)
SubmittedHasWaited == turn = "submitted" => WaitSet \subseteq approved

(* After one failure and no completed delegation the parent knows of all its
   children or of none; without a failure there are none. *)
OrphansAlone ==
    completed = {} /\ faults <= 1 =>
        /\ deps = {} \/ deps = children
        /\ faults = 0 => children = {}

(* A failed call is an error in the output, and the marks of a changed board
   are made by children only. *)
FailuresShow ==
    /\ \A c \in Calls : call[c] = "failed" => outage
    /\ performed => children # {}

IInv ==
    /\ TypeOK
    /\ KeyedOnce
    /\ CompletedIsStamped
    /\ SubmittedHasWaited
    /\ OrphansAlone
    /\ FailuresShow
    /\ ChildlessIsChosen

-----------------------------------------------------------------------------
(* What the actions have in common. *)

(* A delegation creates children of its own request, for scopes of its call,
   and none for a key that has one. *)
LEMMA CreatedChildren ==
    ASSUME NEW r \in Requests
    PROVE  /\ Created(r) \subseteq Children
           /\ \A i \in Created(r) : /\ i[2] = r
                                    /\ i[1] \in ScopesOf[r[1]]
                                    /\ i = <<i[1], r>>
                                    /\ i[1] \in Keyed => \A j \in children : j[1] # i[1]
           /\ \A k \in ScopesOf[r[1]] :
                  k \notin Keyed \/ (\A j \in children : j[1] # k) => <<k, r>> \in Created(r)
  <1>1. r[1] \in Calls
    BY DEF Requests
  <1>2. ScopesOf[r[1]] \subseteq Scopes
    BY <1>1, CallsAssumption
  <1> QED
    BY <1>2 DEF Created, Matches, Children

(* A delegation reuses children of this board. *)
LEMMA ReusedChildren ==
    ASSUME NEW c
    PROVE  /\ Reused(c) \subseteq children
           /\ \A i \in children : i[1] \in ScopesOf[c] \cap Keyed => i \in Reused(c)
  BY DEF Reused, Matches

(* An answer changes the state of one call, and shows what it is. *)
LEMMA AnswerTypes ==
    ASSUME TypeOK, NEW r \in Requests, NEW state \in CallStates, Answer(r, state)
    PROVE  /\ call' \in [Calls -> CallStates]
           /\ outage' \in BOOLEAN
           /\ turn # "running" => UNCHANGED <<call, outage>>
           /\ \A c \in Calls : call'[c] = "failed" => call[c] = "failed" \/ outage'
           /\ outage => outage'
  BY DEF Answer, TypeOK

(* Reading a line leaves a pipe of lines. *)
LEMMA ReadsTypes ==
    ASSUME TypeOK, NEW r \in Requests \cup {Broken}, Reads(r)
    PROVE  /\ pipe' \in Seq(Requests \cup {Broken})
           /\ turn \in {"running", "draining", "failing"}
           /\ UNCHANGED <<tries, turn, before, performed, guardRetries>>
  BY DEF Reads, TypeOK, guardVars

(* The types of a step that only saves children and stamps the parent. *)
LEMMA BoardStepTypes ==
    ASSUME TypeOK, NEW r \in Requests, NEW state \in CallStates,
           Reads(r), Answer(r, state), NEW saved \in SUBSET Created(r),
           children' = children \cup saved,
           deps' \in {deps, deps \cup Reused(r[1]) \cup saved},
           completed' \in {completed, completed \cup {r}},
           faults' \in 0 .. MaxFaults,
           UNCHANGED <<serving, deaf, approved>>
    PROVE  TypeOK'
  <1>1. saved \subseteq Children
    BY CreatedChildren
  <1>2. Reused(r[1]) \subseteq children
    BY ReusedChildren
  <1> QED
    BY <1>1, <1>2, AnswerTypes, ReadsTypes DEF TypeOK

-----------------------------------------------------------------------------
(* Types *)

LEMMA InitTypes == Init => TypeOK
  <1> SUFFICES ASSUME Init PROVE TypeOK
    OBVIOUS
  <1>1. <<>> \in Seq(Requests \cup {Broken})
    OBVIOUS
  <1>2. /\ tries \in [Calls -> Nat]
        /\ \A c \in Calls : tries[c] <= TriesOf[c]
    BY CallsAssumption DEF Init
  <1>3. guardRetries \in 0 .. MaxGuardRetries /\ faults \in 0 .. MaxFaults
    BY CallsAssumption DEF Init
  <1> QED
    BY <1>1, <1>2, <1>3 DEF Init, TypeOK

LEMMA StepTypes == TypeOK /\ [Next]_vars => TypeOK'
  <1> SUFFICES ASSUME TypeOK, [Next]_vars PROVE TypeOK'
    OBVIOUS
  <1> USE DEF TypeOK
  <1> USE DEF pipeVars
  <1>1. ASSUME NEW c \in Calls, Send(c) PROVE TypeOK'
    <2>1. tries[c] + 1 \in 1 .. TriesOf[c]
      <3>1. tries[c] \in Nat /\ TriesOf[c] \in Nat /\ tries[c] < TriesOf[c]
        BY <1>1, CallsAssumption DEF Send, MaySend
      <3> QED
        BY <3>1
    <2>2. <<c, tries[c] + 1>> \in Requests
      BY <2>1 DEF Requests
    <2> QED
      BY <1>1, <2>1, <2>2, CallsAssumption
      DEF Send, MaySend, boardVars, guardVars, historyVars
  <1>2. ASSUME NEW c \in Calls, NEW d \in Calls, SendGarbled(c, d) PROVE TypeOK'
    <2>1. \A e \in {c, d} : tries[e] \in Nat /\ tries[e] + 1 \in Nat /\ tries[e] + 1 <= TriesOf[e]
      <3>1. \A e \in {c, d} : tries[e] \in Nat /\ TriesOf[e] \in Nat /\ tries[e] < TriesOf[e]
        BY <1>2, CallsAssumption DEF SendGarbled, MaySend
      <3> QED
        BY <3>1
    <2>2. tries' \in [Calls -> Nat] /\ \A e \in Calls : tries'[e] <= TriesOf[e]
      BY <1>2, <2>1 DEF SendGarbled
    <2>3. pipe' \in Seq(Requests \cup {Broken})
      <3>1. Broken \in Requests \cup {Broken}
        OBVIOUS
      <3>2. Append(pipe, Broken) \in Seq(Requests \cup {Broken})
        BY <3>1
      <3> QED
        BY <1>2, <3>2 DEF SendGarbled
    <2>4. call' \in [Calls -> CallStates]
      BY <1>2 DEF SendGarbled
    <2> QED
      BY <1>2, <2>2, <2>3, <2>4 DEF SendGarbled, boardVars, guardVars, historyVars
  <1>3. ASSUME NEW c \in Calls, Timeout(c) PROVE TypeOK'
    BY <1>3 DEF Timeout, boardVars, guardVars, historyVars
  <1>4. CASE AgentEnds
    BY <1>4 DEF AgentEnds, agentVars, boardVars, guardVars, historyVars
  <1>4a. CASE AgentFails
    BY <1>4a DEF AgentFails, agentVars, boardVars, guardVars, historyVars
  <1>5. ASSUME NEW r \in Requests, ServeDelegate(r) PROVE TypeOK'
    BY <1>5, BoardStepTypes DEF ServeDelegate
  <1>6. ASSUME NEW r \in Requests, DelegateFails(r) PROVE TypeOK'
    <2>1. faults' \in 0 .. MaxFaults
      BY <1>6, CallsAssumption DEF DelegateFails
    <2> QED
      BY <1>6, <2>1, BoardStepTypes DEF DelegateFails
  <1>7. ASSUME NEW r \in Requests, RefuseDelegate(r) PROVE TypeOK'
    BY <1>7, AnswerTypes, ReadsTypes DEF RefuseDelegate, boardVars, historyVars
  <1>8. ASSUME NEW r \in Requests, StartSlow(r) PROVE TypeOK'
    BY <1>8, ReadsTypes DEF StartSlow, boardVars, historyVars
  <1>9. ASSUME NEW r \in Requests, EndSlow(r) PROVE TypeOK'
    BY <1>9, AnswerTypes DEF EndSlow, boardVars, guardVars, historyVars
  <1>9a. CASE ReaderDies
    BY <1>9a, ReadsTypes DEF ReaderDies, boardVars, historyVars
  <1>10. CASE Close
    BY <1>10 DEF Close, EndpointGone, boardVars, guardVars, historyVars
  <1>10a. CASE TurnTimesOut
    BY <1>10a DEF TurnTimesOut, EndpointGone, boardVars, guardVars, historyVars
  <1>11. CASE ParkForChildren
    BY <1>11, CallsAssumption DEF ParkForChildren, WaitSet, agentVars, historyVars
  <1>12. CASE Submit
    BY <1>12, CallsAssumption DEF Submit, BoardChanged, agentVars, boardVars, historyVars
  <1>13. CASE GuardRetry
    <2>1. guardRetries' \in 0 .. MaxGuardRetries
      BY <1>13, CallsAssumption DEF GuardRetry
    <2> QED
      BY <1>13, <2>1 DEF GuardRetry, NextRun, Snapshot, boardVars, historyVars
  <1>14. CASE GuardFails
    BY <1>14 DEF GuardFails, agentVars, boardVars, guardVars, historyVars
  <1>15. CASE Release
    BY <1>15 DEF Release, NextRun, Snapshot, boardVars, historyVars
  <1>16. ASSUME NEW i \in Children, ChildDone(i) PROVE TypeOK'
    BY <1>16 DEF ChildDone, agentVars, guardVars, historyVars
  <1>17. CASE UNCHANGED vars
    BY <1>17 DEF vars, agentVars, boardVars, guardVars, historyVars
  <1> QED
    BY <1>1, <1>2, <1>3, <1>4, <1>4a, <1>5, <1>6, <1>7, <1>8, <1>9, <1>9a, <1>10, <1>10a,
       <1>11, <1>12, <1>13, <1>14, <1>15, <1>16, <1>17
    DEF Next, Serve, EndOfTurn

-----------------------------------------------------------------------------
(* The invariant.  Steps fall in four: those that save children, the other
   steps of calls, those that end a turn, and a child's approval. *)

LEMMA InitIInv == Init => IInv
  BY InitTypes
  DEF Init, IInv, KeyedOnce, CompletedIsStamped, SubmittedHasWaited, OrphansAlone,
      FailuresShow, ChildlessIsChosen

(* A delegation, whole or failed: what it saves, it saves for keys that have no
   child yet, and what it stamps includes what it found. *)
LEMMA BoardStep ==
    ASSUME IInv, NEW r \in Requests, NEW state \in CallStates,
           Reads(r), Answer(r, state), NEW saved \in SUBSET Created(r),
           children' = children \cup saved,
           \/ /\ saved = Created(r)
              /\ deps' = deps \cup Reused(r[1]) \cup saved
              /\ completed' = completed \cup {r}
           \/ /\ faults' = faults + 1
              /\ deps' = deps
              /\ completed' = completed,
           faults' \in {faults, faults + 1}, faults' \in 0 .. MaxFaults,
           UNCHANGED <<serving, deaf, approved>>
    PROVE  IInv'
  <1>1. TypeOK'
    BY BoardStepTypes DEF IInv
  <1>2. KeyedOnce'
    BY CreatedChildren DEF IInv, KeyedOnce
  <1>3. CompletedIsStamped'
    <2> SUFFICES ASSUME NEW q \in completed', NEW k \in ScopesOf[q[1]]
                 PROVE  IF k \in Keyed
                        THEN /\ \E i \in children' : i[1] = k
                             /\ \A i \in children' : i[1] = k => i \in deps'
                        ELSE <<k, q>> \in deps'
      BY DEF CompletedIsStamped
    <2>1. CASE q \in completed
      BY <2>1, CreatedChildren DEF IInv, CompletedIsStamped
    <2>2. CASE q \notin completed
      <3>1. q = r /\ saved = Created(r) /\ deps' = deps \cup Reused(r[1]) \cup saved
        BY <2>2
      <3>2. CASE k \in Keyed
        <4>1. CASE \A j \in children : j[1] # k
          <5>1. <<k, r>> \in children' /\ <<k, r>>[1] = k
            BY <3>1, <4>1, CreatedChildren
          <5>2. \A i \in children' : i[1] = k => i \in saved
            BY <4>1
          <5> QED
            BY <3>1, <3>2, <5>1, <5>2
        <4>2. CASE \E j \in children : j[1] = k
          BY <3>1, <3>2, <4>2, CreatedChildren, ReusedChildren
        <4> QED
          BY <4>1, <4>2
      <3>3. CASE k \notin Keyed
        BY <3>1, <3>3, CreatedChildren
      <3> QED
        BY <3>2, <3>3
    <2> QED
      BY <2>1, <2>2
  <1>4. turn' # "submitted"
    BY ReadsTypes DEF IInv
  <1>5. OrphansAlone'
    BY DEF IInv, TypeOK, OrphansAlone
  <1>6. FailuresShow'
    BY AnswerTypes, ReadsTypes DEF IInv, FailuresShow
  <1> QED
    BY <1>1, <1>2, <1>3, <1>4, <1>5, <1>6
    DEF IInv, SubmittedHasWaited, ChildlessIsChosen

(* A step that leaves the board and its guard alone, and shows the failure of
   the call it lets fail. *)
LEMMA CallStep ==
    ASSUME IInv, TypeOK', turn \in {"running", "draining", "failing"}, turn' # "submitted",
           UNCHANGED <<boardVars, performed, historyVars>>,
           \A c \in Calls : call'[c] = "failed" => outage'
    PROVE  IInv'
  BY DEF IInv, KeyedOnce, CompletedIsStamped, SubmittedHasWaited, OrphansAlone,
         FailuresShow, ChildlessIsChosen, boardVars, historyVars

LEMMA StepIInv == IInv /\ [Next]_vars => IInv'
  <1> SUFFICES ASSUME IInv, [Next]_vars PROVE IInv'
    OBVIOUS
  <1>0. TypeOK /\ TypeOK'
    BY StepTypes DEF IInv
  <1>f. \A c \in Calls : call[c] = "failed" => outage
    BY DEF IInv, FailuresShow
  <1>1. ASSUME NEW c \in Calls, Send(c) PROVE IInv'
    <2>1. \A d \in Calls : call'[d] = "failed" => outage'
      BY <1>0, <1>1, <1>f DEF Send, TypeOK
    <2> QED
      BY <1>0, <1>1, <2>1, CallStep DEF Send, MaySend, guardVars
  <1>2. ASSUME NEW c \in Calls, NEW d \in Calls, SendGarbled(c, d) PROVE IInv'
    <2>1. \A e \in Calls : call'[e] = "failed" => outage'
      BY <1>0, <1>2, <1>f DEF SendGarbled, TypeOK
    <2> QED
      BY <1>0, <1>2, <2>1, CallStep DEF SendGarbled, MaySend, guardVars
  <1>3. ASSUME NEW c \in Calls, Timeout(c) PROVE IInv'
    BY <1>0, <1>3, CallStep DEF Timeout, guardVars
  <1>4. CASE AgentEnds
    BY <1>0, <1>4, <1>f, CallStep DEF AgentEnds, agentVars, guardVars
  <1>4a. CASE AgentFails
    BY <1>0, <1>4a, <1>f, CallStep DEF AgentFails, agentVars, guardVars
  <1>5. ASSUME NEW r \in Requests, ServeDelegate(r) PROVE IInv'
    BY <1>0, <1>5, BoardStep DEF ServeDelegate, TypeOK
  <1>6. ASSUME NEW r \in Requests, DelegateFails(r) PROVE IInv'
    <2>1. faults' = faults + 1 /\ faults' \in 0 .. MaxFaults
      BY <1>0, <1>6, CallsAssumption DEF DelegateFails, TypeOK
    <2> QED
      BY <1>6, <2>1, BoardStep DEF DelegateFails
  <1>7. ASSUME NEW r \in Requests, RefuseDelegate(r) PROVE IInv'
    BY <1>0, <1>7, <1>f, AnswerTypes, ReadsTypes, CallStep DEF RefuseDelegate
  <1>8. ASSUME NEW r \in Requests, StartSlow(r) PROVE IInv'
    BY <1>0, <1>8, <1>f, ReadsTypes, CallStep DEF StartSlow
  <1>9. ASSUME NEW r \in Requests, EndSlow(r) PROVE IInv'
    <2>1. CASE turn = "running"
      <3>1. \A c \in Calls : call'[c] = "failed" => outage'
        BY <1>0, <1>9, <1>f, AnswerTypes DEF EndSlow
      <3> QED
        BY <1>0, <1>9, <2>1, <3>1, CallStep DEF EndSlow, guardVars
    <2>2. CASE turn # "running"
      <3>1. UNCHANGED <<call, outage, boardVars, turn, guardVars, historyVars>>
        BY <1>0, <1>9, <2>2, AnswerTypes DEF EndSlow
      <3> QED
        BY <1>0, <3>1
        DEF IInv, KeyedOnce, CompletedIsStamped, SubmittedHasWaited, OrphansAlone, FailuresShow,
            ChildlessIsChosen, WaitSet, boardVars, guardVars, historyVars
    <2> QED
      BY <2>1, <2>2
  <1>9a. CASE ReaderDies
    BY <1>0, <1>9a, <1>f, ReadsTypes, CallStep DEF ReaderDies
  <1>10. CASE Close \/ TurnTimesOut
    <2>1. \A c \in Calls : call'[c] = "failed" => outage'
      BY <1>10, <1>f DEF Close, TurnTimesOut, EndpointGone
    <2> QED
      BY <1>0, <1>10, <2>1, CallStep DEF Close, TurnTimesOut, EndpointGone, guardVars
  <1>11. CASE ParkForChildren
    <2>1. WaitSet # {}
      BY <1>11 DEF ParkForChildren
    <2>2. children # {}
      BY <1>0, <2>1 DEF TypeOK, WaitSet
    <2>3. deps \subseteq deps' /\ deps' \in {deps, children}
      BY <1>0, <1>11 DEF ParkForChildren, WaitSet, TypeOK
    <2> QED
      BY <1>0, <1>11, <2>2, <2>3
      DEF IInv, ParkForChildren, KeyedOnce, CompletedIsStamped, SubmittedHasWaited, OrphansAlone,
          FailuresShow, ChildlessIsChosen, agentVars, historyVars
  <1>12. CASE Submit
    <2>1. BoardChanged \/ WaitSet # {} => children # {}
      BY <1>0 DEF IInv, FailuresShow, BoardChanged, WaitSet, TypeOK
    <2>2. ChildlessIsChosen'
      BY <1>0, <1>12, <1>f, <2>1
      DEF Submit, GuardAccepts, ChildlessIsChosen, agentVars, boardVars
    <2> QED
      BY <1>0, <1>12, <2>1, <2>2
      DEF IInv, Submit, KeyedOnce, CompletedIsStamped, SubmittedHasWaited, OrphansAlone,
          FailuresShow, WaitSet, agentVars, boardVars, historyVars
  <1>13. ASSUME NextRun, UNCHANGED <<boardVars, performed, historyVars>> PROVE IInv'
    BY <1>0, <1>13
    DEF NextRun, IInv, KeyedOnce, CompletedIsStamped, SubmittedHasWaited, OrphansAlone,
        FailuresShow, ChildlessIsChosen, boardVars, historyVars
  <1>14. CASE GuardFails
    BY <1>0, <1>14
    DEF IInv, GuardFails, KeyedOnce, CompletedIsStamped, SubmittedHasWaited, OrphansAlone,
        FailuresShow, ChildlessIsChosen, agentVars, boardVars, guardVars, historyVars
  <1>15. ASSUME NEW i \in Children, ChildDone(i) PROVE IInv'
    BY <1>0, <1>15
    DEF IInv, ChildDone, KeyedOnce, CompletedIsStamped, SubmittedHasWaited, OrphansAlone,
        FailuresShow, ChildlessIsChosen, WaitSet, agentVars, guardVars, historyVars
  <1>16. CASE UNCHANGED vars
    BY <1>0, <1>16
    DEF IInv, KeyedOnce, CompletedIsStamped, SubmittedHasWaited, OrphansAlone, FailuresShow,
        ChildlessIsChosen, WaitSet, vars, agentVars, boardVars, guardVars, historyVars
  <1> QED
    BY <1>1, <1>2, <1>3, <1>4, <1>4a, <1>5, <1>6, <1>7, <1>8, <1>9, <1>9a, <1>10, <1>11,
       <1>12, <1>13, <1>14, <1>15, <1>16
    DEF Next, Serve, EndOfTurn, GuardRetry, Release

(* The invariant holds whatever calls are lost, late or failed. *)
THEOREM CallsInvariant == Spec => []IInv
  BY InitIInv, StepIInv, PTL DEF Spec

(* The types hold, and the guard sends no manager back more often than it may
   (_run_work_item's retry counter). *)
THEOREM CallTypes == Spec => []TypeOK
  <1>1. IInv => TypeOK
    BY DEF IInv
  <1> QED
    BY <1>1, CallsInvariant, PTL

(* A key's child exists once: a request served late, a retry and a leftover of
   a failed delegation all find the same child (delegate_work). *)
THEOREM KeyedWorkExistsOnce == Spec => []KeyedOnce
  <1>1. IInv => KeyedOnce
    BY DEF IInv
  <1> QED
    BY <1>1, CallsInvariant, PTL

(* A manager is submitted after the work its completed delegations asked for
   (delegate_work's stamp, _park_for_delegated_children). *)
THEOREM DelegatedWorkIsDone == Spec => []DelegatedIsDone
  <1>1. IInv => DelegatedIsDone
    <2> SUFFICES ASSUME IInv, turn = "submitted", NEW r \in completed, NEW k \in ScopesOf[r[1]]
                 PROVE  IF k \in Keyed
                        THEN /\ \E i \in children : i[1] = k
                             /\ \A i \in children : i[1] = k => i \in approved
                        ELSE <<k, r>> \in approved
      BY DEF DelegatedIsDone
    <2>1. IF k \in Keyed
          THEN /\ \E i \in children : i[1] = k
               /\ \A i \in children : i[1] = k => i \in deps
          ELSE <<k, r>> \in deps
      BY DEF IInv, CompletedIsStamped
    <2>2. deps \subseteq approved
      BY <2>1 DEF IInv, SubmittedHasWaited, WaitSet
    <2> QED
      BY <2>1, <2>2
  <1> QED
    BY <1>1, CallsInvariant, PTL

(* One failed delegation, alone, is made good: its children are looked up and
   waited for (_park_for_delegated_children). *)
THEOREM LoneOrphansAreWaitedFor == Spec => []LoneOrphansAreDone
  <1>1. IInv => LoneOrphansAreDone
    BY DEF IInv, TypeOK, SubmittedHasWaited, WaitSet, OrphansAlone, LoneOrphansAreDone
  <1> QED
    BY <1>1, CallsInvariant, PTL

(* Where an agent's output shows its failed calls, no call given up in the last
   run lets a manager do without children (_enforce_manager_dispatch_guard). *)
THEOREM NoChildlessOutage == Spec => []ChildlessIsChosen
  <1>1. IInv => ChildlessIsChosen
    BY DEF IInv
  <1> QED
    BY <1>1, CallsInvariant, PTL

=============================================================================
