-------------------------- MODULE AgentTurnProofs --------------------------
(***************************************************************************)
(* What a turn promises for every number of calls, slots, iterations and   *)
(* retries: unsafe tools run alone and in the order of the response, the   *)
(* widened sandbox is seen by the retried call only, and a failure stops   *)
(* the calls of its own batch and no other.                                *)
(***************************************************************************)
EXTENDS AgentTurn, FiniteSetTheorems, TLAPS

----------------------------------------------------------------------------
(* The inductive invariant *)

\* A call of the response is in the hands of an early run, of the batch, or of nobody.
Split ==
    /\ early \subseteq Calls /\ batch \subseteq Calls
    /\ \A i \in early : i \notin batch
    /\ pc # "execute" => batch = {}
    /\ \A i \in Idx : st[i] \in Live => i \in early \cup batch
    /\ pc \in {"stream", "collect"} => \A i \in Calls : i \in early \/ st[i] = "streamed"

\* Only reads run early; a run whose call the repaired response replaced is over.
EarlyReads ==
    \A i \in early :
        \/ plan[i] = "read"
        \/ pc \in {"collect", "returned"} /\ st[i] \in {"returned", "cancelled"}

\* An unsafe call is a batch of its own.
BatchShape ==
    \/ \A i \in batch : Safe(plan[i])
    \/ \E i \in batch : batch = {i}

\* Outside the batch nothing of the response is in progress.
Quiet ==
    pc = "execute" =>
        \A i \in Calls : /\ i \in early => st[i] = "returned"
                         /\ i \notin early \cup batch => st[i] \in {"streamed", "returned"}

\* The calls before a batch are over.
BatchOrder ==
    \A i \in Calls : \A j \in batch : i < j /\ i \notin batch => st[i] = "returned"

\* Only a shell call of the batch is retried.
RetryIsShell == \A i \in Idx : st[i] = "retrying" => i \in batch /\ plan[i] = "shell"

\* A call has an outcome only at its end.
OutcomeAtEnd ==
    /\ \A i \in Calls : st[i] \notin {"finished", "returned", "cancelled"} => outcome[i] = "none"
    /\ pc = "stream" => \A i \in Idx : i \in early \/ outcome[i] = "none"

\* The failure flag of a batch was set by a failure in it.
CascadeHasCause ==
    cascade => \E j \in batch : outcome[j] \in {"failed", "rejected", "timeout"}

TInv ==
    /\ TypeOK
    /\ Split /\ EarlyReads /\ BatchShape /\ Quiet /\ BatchOrder
    /\ RetryIsShell /\ SandboxScoped
    /\ OutcomeAtEnd /\ CascadeHasCause /\ ConvergedHasCause

----------------------------------------------------------------------------
(* The operators *)

\* The first call of a set of calls is one of them, and none is before it.
LEMMA FirstIsLeast ==
    ASSUME NEW S \in SUBSET Nat, S # {}
    PROVE  First(S) \in S /\ \A j \in S : First(S) <= j
<1> DEFINE Below == {1..n : n \in S}
<1>1. Below \subseteq FiniteSubsetsOf(Nat)
  BY FS_Interval DEF FiniteSubsetsOf
<1>2. PICK U \in Below : \A V \in Below : <<V, U>> \notin StrictSubsetOrdering(Nat)
  <2> HIDE DEF Below
  <2>1. Below # {}
    BY DEF Below
  <2> QED BY <1>1, <2>1, WFMin, FS_StrictSubsetOrderingWellFounded
<1>3. PICK x \in S : U = 1..x
  BY <1>2
<1>4. ASSUME NEW y \in S PROVE x <= y
  <2>1. <<1..y, 1..x>> \notin StrictSubsetOrdering(Nat)
    BY <1>2, <1>3
  <2>2. ~(1..y \subseteq 1..x /\ 1..y # 1..x)
    BY <2>1 DEF StrictSubsetOrdering
  <2>3. CASE y < x
    <3>1. x \in 1..x /\ x \notin 1..y
      BY <2>3
    <3> QED BY <2>2, <2>3, <3>1
  <2> QED BY <2>3
<1> QED BY <1>4 DEF First

\* A batch is made of calls that remain, with none of them left before it.
LEMMA NextBatchLeads ==
    ASSUME NEW S \in SUBSET Nat, S # {}
    PROVE  /\ NextBatch(S) \subseteq S
           /\ \/ \A i \in NextBatch(S) : Safe(plan[i])
              \/ \E i \in NextBatch(S) : NextBatch(S) = {i}
           /\ \A j \in NextBatch(S) : \A i \in S : i < j => i \in NextBatch(S)
<1>1. First(S) \in S /\ \A j \in S : First(S) <= j
  BY FirstIsLeast
<1>2. CASE Safe(plan[First(S)])
  <2>1. \A i : i \in NextBatch(S) <=> i \in S /\ \A j \in S : j <= i => Safe(plan[j])
    BY <1>2 DEF NextBatch
  <2>2. ASSUME NEW i \in NextBatch(S) PROVE Safe(plan[i])
    <3>1. i \in S /\ i \in Nat
      BY <2>1
    <3>2. i <= i
      BY <3>1
    <3> QED BY <2>1, <3>1, <3>2, Zenon
  <2>3. ASSUME NEW j \in NextBatch(S), NEW i \in S, i < j PROVE i \in NextBatch(S)
    <3>1. ASSUME NEW k \in S, k <= i PROVE Safe(plan[k])
      <4>1. j \in S /\ j \in Nat /\ i \in Nat /\ k \in Nat
        BY <2>1, <2>3, <3>1
      <4>2. k <= j
        BY <2>3, <3>1, <4>1
      <4> QED BY <2>1, <3>1, <4>2, Zenon
    <3> QED BY <2>1, <2>3, <3>1, Zenon
  <2> QED BY <2>1, <2>2, <2>3
<1>3. CASE ~Safe(plan[First(S)])
  <2>1. NextBatch(S) = {First(S)}
    BY <1>3 DEF NextBatch
  <2>2. ASSUME NEW j \in NextBatch(S), NEW i \in S, i < j PROVE FALSE
    <3>1. j = First(S) /\ j \in Nat /\ i \in Nat /\ j <= i
      BY <1>1, <2>1, <2>2
    <3> QED BY <1>1, <2>2, <3>1
  <2> QED BY <1>1, <2>1, <2>2, Zenon
<1> QED BY <1>2, <1>3

LEMMA CallsAreIdx == TypeOK => Calls \subseteq Idx /\ Idx \subseteq Nat /\ Calls \subseteq Nat
  BY TurnAssumption DEF TypeOK, Calls, Idx

LEMMA EarlyAreCounted ==
    ASSUME TypeOK, NEW S, S \subseteq early
    PROVE  Cardinality(S) \in Nat
<1>1. IsFiniteSet(Idx)
  BY FS_Interval, TurnAssumption DEF Idx
<1>2. S \in SUBSET Idx
  BY DEF TypeOK
<1> QED BY <1>1, <1>2, FS_Subset, FS_CardinalityType

LEMMA UnfinishedCounted == TypeOK => Cardinality(Unfinished) \in Nat
  BY EarlyAreCounted DEF Unfinished

----------------------------------------------------------------------------
(* Types *)

LEMMA InitTInv == Init => TInv
<1> SUFFICES ASSUME Init PROVE TInv
  OBVIOUS
<1> USE TurnAssumption DEF Init
<1>1. TypeOK
  <2>1. plan \in Seq(Kinds) /\ Len(plan) = 0
    OBVIOUS
  <2>2. st \in [Idx -> CallStates] /\ outcome \in [Idx -> Outcomes]
    BY DEF CallStates, Outcomes
  <2>3. sandbox \in Modes /\ orphans \in Nat /\ iteration \in 1..MaxIterations
    OBVIOUS
  <2>4. reset \in BOOLEAN /\ cascade \in BOOLEAN
    OBVIOUS
  <2>5. overflows \in 0..MaxOverflows /\ feedback \in 0..MaxFeedback /\ Len(plan) <= MaxCalls
    BY <2>1
  <2>6. early \subseteq Idx /\ batch \subseteq Idx
    OBVIOUS
  <2> QED BY <2>1, <2>2, <2>3, <2>4, <2>5, <2>6 DEF TypeOK
<1>2. Split /\ EarlyReads /\ BatchShape /\ Quiet /\ BatchOrder
  BY DEF Split, EarlyReads, BatchShape, Quiet, BatchOrder, Calls, Idx, Live, Predictions
<1>3. RetryIsShell /\ SandboxScoped
  BY DEF RetryIsShell, SandboxScoped, Calls, Idx
<1>4. OutcomeAtEnd /\ CascadeHasCause /\ ConvergedHasCause
  BY DEF OutcomeAtEnd, CascadeHasCause, ConvergedHasCause, Calls, Idx
<1> QED BY <1>1, <1>2, <1>3, <1>4 DEF TInv

ControlTypes ==
    /\ pc \in {"stream", "collect", "execute", "returned"}
    /\ status \in {"running", "done", "failed", "awaiting_human", "awaiting_peer",
                   "stopped", "cancelled"}
    /\ iteration \in 1..MaxIterations
    /\ overflows \in 0..MaxOverflows /\ feedback \in 0..MaxFeedback /\ reset \in BOOLEAN

CallTypes ==
    /\ plan \in Seq(Kinds) /\ Len(plan) <= MaxCalls
    /\ early \subseteq Idx /\ batch \subseteq Idx
    /\ st \in [Idx -> CallStates] /\ outcome \in [Idx -> Outcomes]
    /\ cascade \in BOOLEAN

OtherTypes == sandbox \in Modes /\ orphans \in Nat

LEMMA TypeParts == TypeOK <=> ControlTypes /\ CallTypes /\ OtherTypes
  BY DEF TypeOK, ControlTypes, CallTypes, OtherTypes

LEMMA BlankTypes == Blank => CallTypes'
<1> SUFFICES ASSUME Blank PROVE CallTypes'
  OBVIOUS
<1> USE TurnAssumption DEF Blank
<1>1. plan' \in Seq(Kinds) /\ Len(plan') <= MaxCalls
  OBVIOUS
<1>2. st' \in [Idx -> CallStates] /\ outcome' \in [Idx -> Outcomes]
  BY DEF CallStates, Outcomes
<1>3. cascade' \in BOOLEAN /\ early' \subseteq Idx /\ batch' \subseteq Idx
  OBVIOUS
<1> QED BY <1>1, <1>2, <1>3 DEF CallTypes

\* The steps of the loop of the turn.
LEMMA LoopTypes == TypeOK /\ LoopStep => TypeOK'
<1> SUFFICES ASSUME TypeOK, LoopStep PROVE TypeOK'
  OBVIOUS
<1> USE TurnAssumption
<1>0. ControlTypes /\ CallTypes /\ OtherTypes
  BY TypeParts
<1>1. ASSUME NEW k \in Kinds, Chunk(k) PROVE TypeOK'
  <2>1. plan' \in Seq(Kinds) /\ Len(plan') <= MaxCalls /\ Len(plan) + 1 \in Idx
    BY <1>0, <1>1 DEF Chunk, CallTypes, Idx
  <2>2. st' \in [Idx -> CallStates]
    BY <1>0, <1>1, <2>1 DEF Chunk, CallTypes, CallStates
  <2>3. early' \subseteq Idx
    BY <1>0, <1>1, CallsAreIdx DEF Chunk, CallTypes
  <2>4. CallTypes'
    BY <1>0, <1>1, <2>1, <2>2, <2>3 DEF Chunk, CallTypes
  <2> QED BY <1>0, <1>1, <2>4 DEF TypeOK, Chunk, ControlTypes, CallTypes, OtherTypes, retryVars
<1>2. CASE StreamEnd
  <2>1. CallTypes' /\ OtherTypes'
    BY <1>0, <1>2 DEF StreamEnd, CallTypes, OtherTypes, callVars
  <2>2. ControlTypes'
    BY <1>0, <1>2 DEF StreamEnd, ControlTypes, Return
  <2> QED BY <2>1, <2>2 DEF TypeOK, ControlTypes, CallTypes, OtherTypes
<1>3. CASE Overflow
  <2>1. CallTypes'
    BY <1>3, BlankTypes DEF Overflow, NextIteration
  <2>2. OtherTypes'
    BY <1>0, <1>3, UnfinishedCounted DEF Overflow, OtherTypes
  <2>3. ControlTypes'
    BY <1>0, <1>3 DEF Overflow, NextIteration, Return, ControlTypes
  <2> QED BY <2>1, <2>2, <2>3 DEF TypeOK, ControlTypes, CallTypes, OtherTypes
<1>4. CASE StreamError
  <2>1. CallTypes'
    BY <1>4, BlankTypes DEF StreamError, NextIteration
  <2>2. OtherTypes'
    BY <1>0, <1>4 DEF StreamError, OtherTypes
  <2>3. ControlTypes'
    <3>1. overflows' \in 0..MaxOverflows /\ feedback' \in 0..MaxFeedback /\ reset' \in BOOLEAN
      <4>1. /\ \/ feedback' = feedback
               \/ feedback' = feedback + 1 /\ feedback < MaxFeedback
            /\ reset' = reset \/ reset' = TRUE
            /\ overflows' = overflows
        BY <1>4, Zenon DEF StreamError
      <4>2. feedback' \in 0..MaxFeedback
        BY <1>0, <4>1 DEF ControlTypes
      <4>3. reset' \in BOOLEAN
        BY <1>0, <4>1, Zenon DEF ControlTypes
      <4> QED BY <1>0, <4>1, <4>2, <4>3, Zenon DEF ControlTypes
    <3>2. NextIteration \/ (Return("failed") /\ UNCHANGED iteration)
      BY <1>4 DEF StreamError
    <3> QED BY <1>0, <3>1, <3>2 DEF NextIteration, Return, ControlTypes
  <2> QED BY <2>1, <2>2, <2>3 DEF TypeOK, ControlTypes, CallTypes, OtherTypes
<1>5. CASE Recover
  <2>1. CallTypes'
    <3>1. PICK n \in 0..MaxCalls : \E p \in [1..n -> Kinds] :
             /\ plan' = p
             /\ early' = early \cap 1..n
             /\ st' = [i \in Idx |-> IF i > n THEN "none"
                                     ELSE IF i \in early THEN Cancelled(Unfinished)[i]
                                     ELSE "streamed"]
      BY <1>5 DEF Recover
    <3>2. plan' \in Seq(Kinds) /\ Len(plan') <= MaxCalls
      <4>1. plan' \in [1..n -> Kinds]
        BY <3>1
      <4> QED BY <4>1
    <3>3. \A i \in Idx : Cancelled(Unfinished)[i] \in CallStates
      BY <1>0 DEF Cancelled, CallTypes, CallStates
    <3>4. st' \in [Idx -> CallStates]
      BY <3>1, <3>3 DEF CallStates
    <3> QED BY <1>0, <1>5, <3>1, <3>2, <3>4 DEF Recover, CallTypes
  <2>2. OtherTypes'
    BY <1>0, <1>5 DEF Recover, OtherTypes
  <2>3. ControlTypes'
    BY <1>0, <1>5 DEF Recover, Return, ControlTypes
  <2> QED BY <2>1, <2>2, <2>3 DEF TypeOK, ControlTypes, CallTypes, OtherTypes
<1>6. CASE Unrecovered
  <2>1. CallTypes'
    BY <1>6, BlankTypes DEF Unrecovered, NextIteration
  <2>2. OtherTypes'
    BY <1>0, <1>6 DEF Unrecovered, OtherTypes
  <2>3. ControlTypes'
    BY <1>0, <1>6 DEF Unrecovered, NextIteration, Return, ControlTypes, retryVars
  <2> QED BY <2>1, <2>2, <2>3 DEF TypeOK, ControlTypes, CallTypes, OtherTypes
<1>7. CASE Collect
  <2>1. CallTypes'
    <3>1. early' \subseteq Idx
      BY <1>0, <1>7 DEF Collect, CallTypes
    <3>2. st' \in [Idx -> CallStates] /\ outcome' \in [Idx -> Outcomes]
      BY <1>0, <1>7 DEF Collect, CallTypes, CallStates, Outcomes, callVars
    <3> QED BY <1>0, <1>7, <3>1, <3>2 DEF Collect, CallTypes, callVars
  <2>2. OtherTypes'
    <3>1. PICK kept \in SUBSET early :
             \/ UNCHANGED orphans
             \/ orphans' = orphans + Cardinality((early \ kept) \cap Underway)
      BY <1>7 DEF Collect
    <3>2. Cardinality((early \ kept) \cap Underway) \in Nat
      BY EarlyAreCounted
    <3> QED BY <1>0, <1>7, <3>1, <3>2 DEF Collect, OtherTypes
  <2>3. ControlTypes'
    BY <1>0, <1>7 DEF Collect, Return, ControlTypes, retryVars
  <2> QED BY <2>1, <2>2, <2>3 DEF TypeOK, ControlTypes, CallTypes, OtherTypes
<1>8. CASE StartBatch
  <2>1. batch' \subseteq Idx
    BY <1>0, <1>8, NextBatchLeads, CallsAreIdx DEF StartBatch, Remaining
  <2>2. CallTypes'
    BY <1>0, <1>8, <2>1 DEF StartBatch, CallTypes, callVars
  <2> QED BY <1>0, <1>8, <2>2 DEF TypeOK, StartBatch, ControlTypes, CallTypes, OtherTypes, retryVars
<1>9. CASE EndResponse
  <2>1. CallTypes'
    BY <1>9, BlankTypes DEF EndResponse, NextIteration
  <2>2. OtherTypes'
    BY <1>0, <1>9 DEF EndResponse, OtherTypes
  <2>3. ControlTypes'
    BY <1>0, <1>9 DEF EndResponse, NextIteration, Return, ControlTypes, retryVars
  <2> QED BY <2>1, <2>2, <2>3 DEF TypeOK, ControlTypes, CallTypes, OtherTypes
<1> QED BY <1>1, <1>2, <1>3, <1>4, <1>5, <1>6, <1>7, <1>8, <1>9 DEF LoopStep

\* The steps of a call, and what none of them changes.
StepOf(i) ==
    Admit(i) \/ Gate(i) \/ Answer(i) \/ Begin(i) \/ ToolEnds(i) \/ RetryEnds(i) \/ Deliver(i)

CallFrame ==
    UNCHANGED <<pc, status, iteration, retryVars, plan, early, batch, orphans>>

LEMMA CallStepTypes ==
    ASSUME TypeOK, NEW i \in Idx, StepOf(i)
    PROVE  TypeOK'
<1> USE TurnAssumption
<1>0. ControlTypes /\ CallTypes /\ OtherTypes
  BY TypeParts
<1>1. CallFrame
  BY DEF StepOf, CallFrame, Admit, Gate, Answer, Begin, ToolEnds, RetryEnds, Deliver
<1>2. ASSUME st' \in [Idx -> CallStates], outcome' \in [Idx -> Outcomes],
             cascade' \in BOOLEAN, sandbox' \in Modes
      PROVE  TypeOK'
  BY <1>0, <1>1, <1>2 DEF CallFrame, retryVars, TypeOK, ControlTypes, CallTypes, OtherTypes
<1> USE <1>0 DEF CallTypes, OtherTypes
<1>3. CASE Admit(i)
  <2>1. st' \in [Idx -> CallStates] /\ outcome' \in [Idx -> Outcomes]
    BY <1>3 DEF Admit, Converge, MoveTo, Predictions, CallStates, Live, Outcomes
  <2>2. cascade' \in BOOLEAN /\ sandbox' \in Modes
    BY <1>3 DEF Admit
  <2> QED BY <1>2, <2>1, <2>2
<1>4. CASE Gate(i)
  <2>1. st' \in [Idx -> CallStates] /\ outcome' \in [Idx -> Outcomes]
    BY <1>4 DEF Gate, Converge, Finish, MoveTo, CallStates, Live, Predictions, Outcomes
  <2>2. cascade' \in BOOLEAN /\ sandbox' \in Modes
    BY <1>4 DEF Gate
  <2> QED BY <1>2, <2>1, <2>2
<1>5. CASE Answer(i)
  <2>1. st' \in [Idx -> CallStates] /\ outcome' \in [Idx -> Outcomes]
    BY <1>5 DEF Answer, Finish, MoveTo, CallStates, Live, Predictions, Outcomes
  <2>2. cascade' \in BOOLEAN /\ sandbox' \in Modes
    BY <1>5 DEF Answer
  <2> QED BY <1>2, <2>1, <2>2
<1>6. CASE ToolEnds(i)
  <2>1. st' \in [Idx -> CallStates] /\ outcome' \in [Idx -> Outcomes]
    BY <1>6 DEF ToolEnds, Finish, MoveTo, CallStates, Live, Predictions, Outcomes
  <2>2. sandbox' \in Modes
    BY <1>6 DEF ToolEnds, NextMode, Modes
  <2>3. cascade' \in BOOLEAN
    BY <1>6 DEF ToolEnds
  <2> QED BY <1>2, <2>1, <2>2, <2>3
<1>7. CASE RetryEnds(i)
  <2>1. st' \in [Idx -> CallStates] /\ outcome' \in [Idx -> Outcomes]
    BY <1>7 DEF RetryEnds, Finish, CallStates, Live, Predictions, Outcomes
  <2>2. cascade' \in BOOLEAN /\ sandbox' \in Modes
    BY <1>7 DEF RetryEnds
  <2> QED BY <1>2, <2>1, <2>2
<1>8. CASE Deliver(i)
  <2>1. st' \in [Idx -> CallStates]
    BY <1>8 DEF Deliver, CallStates
  <2>2. UNCHANGED <<outcome, sandbox>>
    BY <1>8 DEF Deliver
  <2>3. cascade' \in BOOLEAN
    BY <1>8 DEF Deliver
  <2> QED BY <1>2, <2>1, <2>2, <2>3
<1>9. CASE Begin(i)
  <2>1. st' \in [Idx -> CallStates] /\ outcome' \in [Idx -> Outcomes]
    BY <1>9 DEF Begin, Finish, MoveTo, CallStates, Live, Predictions, Outcomes
  <2>2. cascade' \in BOOLEAN /\ sandbox' \in Modes
    BY <1>9 DEF Begin
  <2> QED BY <1>2, <2>1, <2>2
<1> QED BY <1>3, <1>4, <1>5, <1>6, <1>7, <1>8, <1>9 DEF StepOf

LEMMA TypeStep == TypeOK /\ [Next]_vars => TypeOK'
<1> SUFFICES ASSUME TypeOK, [Next]_vars PROVE TypeOK'
  OBVIOUS
<1> USE TurnAssumption
<1>0. ControlTypes /\ CallTypes /\ OtherTypes
  BY TypeParts
<1>1. CASE LoopStep
  BY <1>1, LoopTypes
<1>2. CASE CallStep
  BY <1>2, CallStepTypes DEF CallStep, StepOf
<1>3. CASE Stop
  <2>1. CallTypes'
    BY <1>3, BlankTypes DEF Stop
  <2>2. OtherTypes'
    BY <1>0, <1>3, UnfinishedCounted DEF Stop, OtherTypes
  <2>3. ControlTypes'
    BY <1>0, <1>3 DEF Stop, Return, ControlTypes, retryVars
  <2> QED BY <2>1, <2>2, <2>3 DEF TypeOK, ControlTypes, CallTypes, OtherTypes
<1>4. CASE OrphanEnds
  <2>1. CallTypes' /\ ControlTypes'
    BY <1>0, <1>4 DEF OrphanEnds, CallTypes, ControlTypes, callVars, retryVars
  <2>2. OtherTypes'
    BY <1>0, <1>4 DEF OrphanEnds, OtherTypes
  <2> QED BY <2>1, <2>2 DEF TypeOK, ControlTypes, CallTypes, OtherTypes
<1>5. CASE UNCHANGED vars
  BY <1>5 DEF vars, retryVars, callVars, TypeOK
<1> QED BY <1>1, <1>2, <1>3, <1>4, <1>5 DEF Next, Over

----------------------------------------------------------------------------
(* The steps of the loop *)

Parts ==
    /\ Split /\ EarlyReads /\ BatchShape /\ Quiet /\ BatchOrder
    /\ RetryIsShell /\ SandboxScoped
    /\ OutcomeAtEnd /\ CascadeHasCause /\ ConvergedHasCause

\* While the response streams, and until it is collected, the sandbox is the task's.
LEMMA SandboxWhileStreaming ==
    TInv /\ pc \in {"stream", "collect"} => sandbox = BaseMode
<1> SUFFICES ASSUME TInv, pc \in {"stream", "collect"}, sandbox # BaseMode PROVE FALSE
  OBVIOUS
<1>1. PICK i \in Calls : st[i] = "retrying"
  BY DEF TInv, SandboxScoped
<1>2. i \in batch
  BY <1>1, CallsAreIdx DEF TInv, RetryIsShell
<1> QED BY <1>2 DEF TInv, Split

\* A turn that forgets the response and leaves the sandbox as it was given.
LEMMA BlankParts ==
    ASSUME Blank, sandbox' = BaseMode PROVE Parts'
<1> USE DEF Blank
<1>1. Calls' = {}
  BY DEF Calls
<1>2. Split' /\ EarlyReads' /\ BatchShape' /\ Quiet' /\ BatchOrder'
  BY <1>1 DEF Split, EarlyReads, BatchShape, Quiet, BatchOrder, Live, Predictions
<1>3. RetryIsShell' /\ SandboxScoped'
  BY <1>1 DEF RetryIsShell, SandboxScoped
<1>4. OutcomeAtEnd' /\ CascadeHasCause' /\ ConvergedHasCause'
  BY <1>1 DEF OutcomeAtEnd, CascadeHasCause, ConvergedHasCause
<1> QED BY <1>2, <1>3, <1>4 DEF Parts

LEMMA ChunkParts == ASSUME TInv, NEW k \in Kinds, Chunk(k) PROVE Parts'
<1>0. plan \in Seq(Kinds) /\ Len(plan) \in Nat /\ st \in [Idx -> CallStates] /\ Calls \subseteq Idx
  BY CallsAreIdx DEF TInv, TypeOK
<1>1. /\ Calls' = 1..(Len(plan) + 1)
      /\ \A i \in Calls : plan'[i] = plan[i]
      /\ \A i \in Calls' : i \in Calls \/ i = Len(plan) + 1
      /\ \A i \in Calls : i \in Calls' /\ i # Len(plan) + 1
      /\ Len(plan) + 1 \in Idx
  BY <1>0, TurnAssumption DEF Chunk, Calls, Idx
<1>2. /\ \A i \in Idx : i # Len(plan) + 1 => st'[i] = st[i]
      /\ st'[Len(plan) + 1] = "streamed"
  BY <1>0, <1>1 DEF Chunk
<1>3. PICK allowed \in SUBSET {i \in Calls : CanStartEarly(i)} : early' = early \cup allowed
  BY DEF Chunk
<1>4. /\ pc = "stream" /\ pc' = "stream" /\ batch = {} /\ batch' = {} /\ ~cascade /\ ~cascade'
      /\ UNCHANGED <<outcome, sandbox>>
  BY DEF Chunk, TInv, Split, CascadeHasCause
<1>5. Split'
  <2>1. early' \subseteq Calls'
    BY <1>1, <1>3 DEF TInv, Split
  <2>2. ASSUME NEW i \in Idx, st'[i] \in Live PROVE i \in early'
    BY <1>2, <1>3, <1>4, <2>2 DEF TInv, Split, Live, Predictions
  <2>3. \A i \in Calls' : i \in early' \/ st'[i] = "streamed"
    BY <1>0, <1>1, <1>2, <1>3, <1>4 DEF TInv, Split
  <2> QED BY <1>4, <2>1, <2>2, <2>3 DEF Split
<1>6. EarlyReads'
  BY <1>1, <1>3, <1>4 DEF TInv, Split, EarlyReads, CanStartEarly
<1>7. RetryIsShell'
  BY <1>2, <1>4 DEF TInv, RetryIsShell
<1>8. sandbox = BaseMode
  BY <1>4, SandboxWhileStreaming
<1>9. OutcomeAtEnd'
  <2>1. ASSUME NEW i \in Calls' PROVE st'[i] \notin {"finished", "returned", "cancelled"}
                                        => outcome'[i] = "none"
    BY <1>0, <1>1, <1>2, <1>4 DEF TInv, Split, OutcomeAtEnd
  <2>2. \A i \in Idx : i \in early' \/ outcome'[i] = "none"
    BY <1>3, <1>4 DEF TInv, OutcomeAtEnd
  <2> QED BY <2>1, <2>2 DEF OutcomeAtEnd
<1> QED
  BY <1>4, <1>5, <1>6, <1>7, <1>8, <1>9
  DEF Parts, BatchShape, Quiet, BatchOrder, SandboxScoped, CascadeHasCause, ConvergedHasCause

LEMMA StreamEndParts == TInv /\ StreamEnd => Parts'
<1> SUFFICES ASSUME TInv, StreamEnd PROVE Parts'
  OBVIOUS
<1>1. /\ pc = "stream" /\ pc' \in {"collect", "returned"}
      /\ UNCHANGED <<plan, early, st, outcome, batch, cascade, sandbox>> /\ Calls' = Calls
  BY DEF StreamEnd, Return, callVars, Calls
<1>2. batch = {} /\ sandbox = BaseMode
  BY <1>1, SandboxWhileStreaming DEF TInv, Split
<1>3. Split' /\ EarlyReads' /\ RetryIsShell' /\ OutcomeAtEnd'
  BY <1>1 DEF TInv, Split, EarlyReads, RetryIsShell, OutcomeAtEnd
<1>4. CascadeHasCause'
  BY <1>1 DEF TInv, CascadeHasCause
<1> QED
  BY <1>1, <1>2, <1>3, <1>4
  DEF Parts, BatchShape, Quiet, BatchOrder, SandboxScoped, ConvergedHasCause

LEMMA RecoverParts == TInv /\ Recover => Parts'
<1> SUFFICES ASSUME TInv, Recover PROVE Parts'
  OBVIOUS
<1>0. st \in [Idx -> CallStates]
  BY DEF TInv, TypeOK
<1>1. PICK n \in 0..MaxCalls : \E p \in [1..n -> Kinds] :
         /\ plan' = p
         /\ early' = early \cap 1..n
         /\ st' = [i \in Idx |-> IF i > n THEN "none"
                                 ELSE IF i \in early THEN Cancelled(Unfinished)[i]
                                 ELSE "streamed"]
  BY DEF Recover
<1>2. Calls' = 1..n /\ 1..n \subseteq Idx
  <2>1. PICK p \in [1..n -> Kinds] : plan' = p
    BY <1>1
  <2>2. Len(plan') = n
    BY <2>1, TurnAssumption
  <2> QED BY <2>2, TurnAssumption DEF Calls, Idx
<1>3. \A i \in Idx : i \in early => Cancelled(Unfinished)[i] \in {"returned", "cancelled"}
  BY <1>0 DEF Cancelled, Unfinished
<1>4. /\ pc = "stream" /\ pc' \in {"collect", "returned"} /\ batch = {} /\ batch' = {}
      /\ UNCHANGED <<outcome, cascade, sandbox>> /\ ~cascade
  BY DEF Recover, Return, TInv, Split, CascadeHasCause
<1>5. /\ \A i \in Idx : st'[i] \in {"none", "streamed", "returned", "cancelled"}
      /\ \A i \in Calls' : st'[i] = "streamed" \/ i \in early'
      /\ \A i \in early' : i \in Calls' /\ st'[i] \in {"returned", "cancelled"}
      /\ \A i \in Calls' : i \in early => i \in early'
  BY <1>1, <1>2, <1>3, TurnAssumption DEF Idx
<1>6. sandbox = BaseMode
  BY <1>4, SandboxWhileStreaming
<1>7. Split' /\ EarlyReads' /\ RetryIsShell'
  BY <1>4, <1>5 DEF Split, EarlyReads, RetryIsShell, Live, Predictions
<1>8. OutcomeAtEnd'
  BY <1>2, <1>4, <1>5 DEF TInv, OutcomeAtEnd
<1> QED
  BY <1>4, <1>6, <1>7, <1>8
  DEF Parts, BatchShape, Quiet, BatchOrder, SandboxScoped, CascadeHasCause, ConvergedHasCause

LEMMA CollectParts == TInv /\ Collect => Parts'
<1> SUFFICES ASSUME TInv, Collect PROVE Parts'
  OBVIOUS
<1>0. st \in [Idx -> CallStates] /\ outcome \in [Idx -> Outcomes] /\ Calls \subseteq Idx
  BY CallsAreIdx DEF TInv, TypeOK
<1>1. /\ pc = "collect" /\ batch = {} /\ batch' = {} /\ UNCHANGED <<plan, cascade, sandbox>>
      /\ Calls' = Calls /\ ~cascade
  BY DEF Collect, TInv, Split, Calls, CascadeHasCause
<1>2. sandbox = BaseMode
  BY <1>1, SandboxWhileStreaming
<1>3. PICK kept \in SUBSET {i \in early : SameSignature(i)} :
         /\ \A i \in kept : st[i] \in {"returned", "cancelled"}
         /\ IF \E i \in kept : st[i] = "cancelled"
            THEN Return("cancelled") /\ UNCHANGED <<early, callVars, orphans>>
            ELSE /\ pc' = "execute"
                 /\ early' = kept
                 /\ st' = [i \in Idx |-> IF i \in early \ kept THEN "streamed" ELSE st[i]]
                 /\ outcome' = [i \in Idx |-> IF i \in early \ kept THEN "none" ELSE outcome[i]]
  BY DEF Collect
<1>4. CASE \E i \in kept : st[i] = "cancelled"
  <2>1. pc' = "returned" /\ UNCHANGED <<early, st, outcome>>
    BY <1>3, <1>4 DEF Return, callVars
  <2>2. Split' /\ EarlyReads' /\ RetryIsShell' /\ OutcomeAtEnd'
    BY <1>1, <2>1 DEF TInv, Split, EarlyReads, RetryIsShell, OutcomeAtEnd
  <2> QED
    BY <1>1, <1>2, <2>1, <2>2
    DEF Parts, BatchShape, Quiet, BatchOrder, SandboxScoped, CascadeHasCause, ConvergedHasCause
<1>5. CASE ~\E i \in kept : st[i] = "cancelled"
  <2>1. pc' = "execute" /\ early' = kept /\ kept \subseteq early
    BY <1>3, <1>5
  <2>2. \A i \in Idx : st'[i] = IF i \in early \ kept THEN "streamed" ELSE st[i]
    BY <1>3, <1>5
  <2>3. \A i \in Idx : outcome'[i] = IF i \in early \ kept THEN "none" ELSE outcome[i]
    BY <1>3, <1>5
  <2>4. \A i \in kept : st[i] = "returned" /\ plan[i] = "read"
    BY <1>3, <1>5 DEF SameSignature
  <2>5. Split'
    BY <1>0, <1>1, <2>1, <2>2 DEF TInv, Split, Live, Predictions
  <2>6. EarlyReads'
    BY <1>1, <2>1, <2>4 DEF EarlyReads
  <2>7. Quiet'
    BY <1>0, <1>1, <2>1, <2>2, <2>4 DEF TInv, Split, Quiet
  <2>8. RetryIsShell'
    BY <1>1, <2>2 DEF TInv, RetryIsShell
  <2>9. OutcomeAtEnd'
    BY <1>0, <1>1, <2>1, <2>2, <2>3 DEF TInv, OutcomeAtEnd
  <2> QED
    BY <1>1, <1>2, <2>1, <2>5, <2>6, <2>7, <2>8, <2>9
    DEF Parts, BatchShape, BatchOrder, SandboxScoped, CascadeHasCause, ConvergedHasCause
<1> QED BY <1>4, <1>5

LEMMA StartBatchParts == TInv /\ StartBatch => Parts'
<1> SUFFICES ASSUME TInv, StartBatch PROVE Parts'
  OBVIOUS
<1>0. Calls \subseteq Idx /\ Calls \subseteq Nat
  BY CallsAreIdx DEF TInv
<1>1. /\ pc = "execute" /\ pc' = "execute" /\ UNCHANGED <<plan, early, st, outcome, sandbox>>
      /\ Calls' = Calls /\ ~cascade' /\ batch' = NextBatch(Remaining)
      /\ \A i \in batch : st[i] = "returned"
  BY DEF StartBatch, callVars, Calls
<1>2. Remaining \in SUBSET Nat /\ Remaining # {}
  BY <1>0 DEF StartBatch, Remaining
<1>3. \A i \in Remaining : i \in Calls /\ i \notin early /\ st[i] = "streamed"
  BY DEF Remaining
<1>4. batch' \subseteq Remaining /\ \A j \in batch' : \A i \in Remaining : i < j => i \in batch'
  BY <1>1, <1>2, NextBatchLeads
<1>5. BatchShape'
  <2>1. \/ \A i \in batch' : Safe(plan[i])
        \/ \E i \in batch' : batch' = {i}
    BY <1>1, <1>2, NextBatchLeads
  <2> QED BY <1>1, <2>1 DEF BatchShape
<1>6. Split'
  BY <1>1, <1>3, <1>4 DEF TInv, Split, Live, Predictions
<1>7. EarlyReads' /\ OutcomeAtEnd'
  BY <1>1 DEF TInv, EarlyReads, OutcomeAtEnd
<1>8. Quiet'
  BY <1>1 DEF TInv, Quiet
<1>9. BatchOrder'
  <2>1. ASSUME NEW i \in Calls, NEW j \in batch', i < j, i \notin batch' PROVE st[i] = "returned"
    <3>1. i \notin Remaining
      BY <1>4, <2>1
    <3>2. i \in early \/ st[i] # "streamed"
      BY <3>1 DEF Remaining
    <3> QED BY <1>1, <3>2 DEF TInv, Quiet
  <2> QED BY <1>1, <2>1 DEF BatchOrder
<1>10. \A i \in Idx : st[i] # "retrying"
  BY <1>1 DEF TInv, RetryIsShell
<1>11. sandbox = BaseMode
  BY <1>0, <1>10 DEF TInv, SandboxScoped
<1>12. ConvergedHasCause' /\ CascadeHasCause'
  BY <1>1, <1>3, <1>4 DEF TInv, OutcomeAtEnd, ConvergedHasCause, CascadeHasCause
<1> QED
  BY <1>1, <1>5, <1>6, <1>7, <1>8, <1>9, <1>10, <1>11, <1>12
  DEF Parts, RetryIsShell, SandboxScoped

----------------------------------------------------------------------------
(* The steps of a call *)

Ended == {"finished", "returned", "cancelled"}

(***************************************************************************)
(* What a step of the call i does to it: it is in the hands of an early run*)
(* or of the batch, moves on, and gets an outcome only when it ends.       *)
(***************************************************************************)
Moves(i) ==
    /\ i \in early \cup batch
    /\ st[i] \in (Live \cup {"streamed"})
    /\ st'[i] \in Live \cup {"returned"}
    /\ \A j \in Idx : j # i => st'[j] = st[j] /\ outcome'[j] = outcome[j]
    /\ st[i] = "finished" => outcome'[i] = outcome[i]
    /\ st'[i] \notin Ended => outcome'[i] = outcome[i] /\ st[i] \notin Ended
    /\ outcome'[i] = "converged" /\ outcome[i] # "converged" => cascade
    /\ st'[i] = "retrying" => plan[i] = "shell" /\ st[i] = "running"

LEMMA CallMoves ==
    ASSUME TInv, NEW i \in Idx, StepOf(i)
    PROVE  Moves(i)
<1>0. st \in [Idx -> CallStates] /\ outcome \in [Idx -> Outcomes]
  BY DEF TInv, TypeOK
<1>a. st[i] \in Live => i \in early \cup batch
  BY DEF TInv, Split
<1> USE <1>0, <1>a DEF Moves, Live, Predictions, Ended
<1>1. CASE Admit(i)
  BY <1>1 DEF Admit, Converge, MoveTo, Predictions
<1>2. CASE Gate(i)
  BY <1>2 DEF Gate, Converge, Finish, MoveTo, Predictions
<1>3. CASE Answer(i)
  BY <1>3 DEF Answer, Finish, MoveTo
<1>4. CASE ToolEnds(i)
  BY <1>4 DEF ToolEnds, Finish, MoveTo
<1>5. CASE RetryEnds(i)
  BY <1>5 DEF RetryEnds, Finish
<1>6. CASE Deliver(i)
  BY <1>6 DEF Deliver
<1>7. CASE Begin(i)
  BY <1>7 DEF Begin, Finish, MoveTo
<1> QED BY <1>1, <1>2, <1>3, <1>4, <1>5, <1>6, <1>7 DEF StepOf

\* While a call is retried no other call of the response is in progress.
LEMMA RetriedAlone ==
    ASSUME TInv, NEW i \in Idx, NEW j \in Idx, st[i] = "retrying",
           j \in early \cup batch, st[j] \in Live \cup {"streamed"}
    PROVE  i = j
<1>1. i \in batch /\ plan[i] = "shell"
  BY DEF TInv, RetryIsShell
<1>2. pc = "execute"
  BY <1>1 DEF TInv, Split
<1>3. j \in batch
  BY <1>2, CallsAreIdx DEF TInv, Split, Quiet, Live, Predictions
<1> QED BY <1>1, <1>3 DEF TInv, BatchShape, Safe

LEMMA CallSandbox ==
    ASSUME TInv, NEW i \in Idx, Moves(i), CallFrame, StepOf(i)
    PROVE  SandboxScoped'
<1>0. st \in [Idx -> CallStates] /\ Calls \subseteq Idx /\ Calls' = Calls /\ UNCHANGED pc
  BY CallsAreIdx DEF TInv, TypeOK, CallFrame, Calls
<1>1. st[i] # "retrying" => sandbox = BaseMode
  <2>1. SUFFICES ASSUME st[i] # "retrying", sandbox # BaseMode PROVE FALSE
    OBVIOUS
  <2>2. PICK k \in Calls : st[k] = "retrying"
    BY <2>1 DEF TInv, SandboxScoped
  <2> QED BY <1>0, <2>1, <2>2, RetriedAlone DEF Moves
<1>2. ASSUME sandbox' = BaseMode PROVE SandboxScoped'
  BY <1>2 DEF SandboxScoped
<1>3. CASE RetryEnds(i)
  BY <1>2, <1>3 DEF RetryEnds
<1>4. CASE ToolEnds(i)
  <2>1. CASE UNCHANGED sandbox
    BY <1>1, <1>2, <1>4, <2>1 DEF ToolEnds
  <2>2. CASE ~UNCHANGED sandbox
    <3>1. plan[i] = "shell" /\ st[i] = "running" /\ st' = [st EXCEPT ![i] = "retrying"]
      BY <1>4, <2>2 DEF ToolEnds, MoveTo
    <3>2. i \in batch /\ pc = "execute"
      BY <3>1 DEF TInv, Split, EarlyReads, Moves, Live, Predictions
    <3>3. batch = {i}
      BY <3>1, <3>2 DEF TInv, BatchShape, Safe
    <3>4. ASSUME NEW j \in Calls, j # i, st[j] = "running" PROVE FALSE
      BY <1>0, <3>2, <3>3, <3>4 DEF TInv, Split, Quiet, Live, Predictions
    <3>5. i \in Calls /\ st'[i] = "retrying" /\ pc' # "returned"
      BY <1>0, <3>1, <3>2 DEF TInv, Split
    <3>6. \A j \in Calls : st'[j] # "running"
      BY <1>0, <3>1, <3>4
    <3> QED BY <1>0, <3>5, <3>6 DEF SandboxScoped
  <2> QED BY <2>1, <2>2
<1>5. CASE Admit(i) \/ Gate(i) \/ Answer(i) \/ Begin(i) \/ Deliver(i)
  <2>1. st[i] # "retrying" /\ UNCHANGED sandbox
    BY <1>5 DEF Admit, Gate, Answer, Begin, Deliver, Predictions
  <2> QED BY <1>1, <1>2, <2>1
<1> QED BY <1>3, <1>4, <1>5 DEF StepOf

LEMMA CallParts ==
    ASSUME TInv, NEW i \in Idx, StepOf(i)
    PROVE  Parts'
<1>0. st \in [Idx -> CallStates] /\ Calls \subseteq Idx
  BY CallsAreIdx DEF TInv, TypeOK
<1>1. Moves(i)
  BY CallMoves
<1>2. CallFrame
  BY DEF StepOf, CallFrame, Admit, Gate, Answer, Begin, ToolEnds, RetryEnds, Deliver
<1>3. UNCHANGED <<pc, plan, early, batch>> /\ Calls' = Calls
  BY <1>2 DEF CallFrame, Calls
<1>4. Split'
  <2>1. \A j \in Idx : st'[j] \in Live => j \in early \cup batch
    BY <1>1 DEF TInv, Split, Moves
  <2>2. pc \in {"stream", "collect"} => \A j \in Calls : j \in early \/ st'[j] = "streamed"
    BY <1>0, <1>1 DEF TInv, Split, Moves
  <2> QED BY <1>3, <2>1, <2>2 DEF TInv, Split
<1>5. EarlyReads'
  BY <1>0, <1>1, <1>3 DEF TInv, Split, EarlyReads, Moves, Live, Predictions
<1>6. BatchShape'
  BY <1>3 DEF TInv, BatchShape
<1>7. pc = "execute" => i \in batch
  BY <1>0, <1>1 DEF TInv, Split, Quiet, Moves, Live, Predictions
<1>8. Quiet'
  BY <1>0, <1>1, <1>3, <1>7 DEF TInv, Split, Quiet, Moves
<1>9. BatchOrder'
  <2>1. ASSUME NEW c \in Calls, NEW j \in batch, c < j, c \notin batch PROVE st'[c] = "returned"
    <3>1. pc = "execute" /\ st[c] = "returned"
      BY <2>1 DEF TInv, Split, BatchOrder
    <3> QED BY <1>0, <1>1, <1>7, <2>1, <3>1 DEF Moves
  <2> QED BY <1>3, <2>1 DEF BatchOrder
<1>10. RetryIsShell'
  <2>1. ASSUME NEW j \in Idx, st'[j] = "retrying" PROVE j \in batch /\ plan[j] = "shell"
    <3>1. CASE j # i
      BY <1>1, <2>1, <3>1 DEF TInv, RetryIsShell, Moves
    <3>2. CASE j = i
      <4>1. plan[i] = "shell" /\ st[i] = "running"
        BY <1>1, <2>1, <3>2 DEF Moves
      <4>2. i \notin early
        BY <4>1 DEF TInv, EarlyReads
      <4> QED BY <1>1, <3>2, <4>1, <4>2 DEF Moves
    <3> QED BY <3>1, <3>2
  <2> QED BY <1>3, <2>1 DEF RetryIsShell
<1>11. SandboxScoped'
  BY <1>1, <1>2, CallSandbox
<1>12. OutcomeAtEnd'
  <2>1. ASSUME NEW j \in Calls, st'[j] \notin Ended PROVE outcome'[j] = "none"
    BY <1>0, <1>1, <2>1 DEF TInv, OutcomeAtEnd, Moves, Ended
  <2>2. ASSUME pc = "stream", NEW j \in Idx, j \notin early PROVE outcome'[j] = "none"
    BY <1>1, <2>2 DEF TInv, Split, OutcomeAtEnd, Moves
  <2> QED BY <1>3, <2>1, <2>2 DEF OutcomeAtEnd, Ended
<1>13. \A j \in batch : outcome[j] \in {"failed", "rejected", "timeout"} => outcome'[j] = outcome[j]
  <2>1. ASSUME NEW j \in batch, outcome[j] # "none" PROVE outcome'[j] = outcome[j]
    <3>1. j \in Calls /\ j \in Idx
      BY <1>0 DEF TInv, Split
    <3>2. st[j] \in Ended
      BY <2>1, <3>1 DEF TInv, OutcomeAtEnd, Ended
    <3> QED BY <1>1, <3>1, <3>2 DEF Moves, Live, Predictions, Ended
  <2> QED BY <2>1
<1>14. CascadeHasCause'
  <2>1. CASE UNCHANGED cascade
    BY <1>3, <1>13, <2>1 DEF TInv, CascadeHasCause
  <2>2. CASE ~UNCHANGED cascade
    <3>1. Deliver(i)
      BY <2>2 DEF StepOf, Admit, Gate, Answer, Begin, ToolEnds, RetryEnds
    <3>2. i \in batch /\ outcome[i] \in Bad /\ UNCHANGED outcome
      BY <2>2, <3>1 DEF Deliver, Parallel, TInv, TypeOK
    <3>3. \E j \in batch : outcome[j] \in {"failed", "rejected", "timeout"}
      BY <3>2 DEF Bad, TInv, ConvergedHasCause
    <3> QED BY <1>3, <3>2, <3>3 DEF CascadeHasCause
  <2> QED BY <2>1, <2>2
<1>15. ConvergedHasCause'
  <2>1. ASSUME NEW j \in batch, outcome'[j] = "converged"
        PROVE  \E m \in batch : outcome[m] \in {"failed", "rejected", "timeout"}
    <3>1. j \in Idx
      BY <1>0 DEF TInv, Split
    <3>2. outcome[j] = "converged" \/ cascade
      BY <1>1, <2>1, <3>1 DEF Moves
    <3> QED BY <3>2 DEF TInv, ConvergedHasCause, CascadeHasCause
  <2> QED BY <1>3, <1>13, <2>1 DEF ConvergedHasCause
<1> QED
  BY <1>4, <1>5, <1>6, <1>8, <1>9, <1>10, <1>11, <1>12, <1>14, <1>15 DEF Parts

----------------------------------------------------------------------------
(* Every step *)

LEMMA StepTInv == TInv /\ [Next]_vars => TInv'
<1> SUFFICES ASSUME TInv, [Next]_vars PROVE Parts'
  BY TypeStep DEF TInv, Parts
<1>1. ASSUME NEW k \in Kinds, Chunk(k) PROVE Parts'
  BY <1>1, ChunkParts
<1>2. CASE StreamEnd
  BY <1>2, StreamEndParts
<1>3. CASE Overflow
  BY <1>3, BlankParts, SandboxWhileStreaming DEF Overflow, NextIteration
<1>4. CASE StreamError
  BY <1>4, BlankParts, SandboxWhileStreaming DEF StreamError, NextIteration
<1>5. CASE Recover
  BY <1>5, RecoverParts
<1>6. CASE Unrecovered
  BY <1>6, BlankParts, SandboxWhileStreaming DEF Unrecovered, NextIteration
<1>7. CASE Collect
  BY <1>7, CollectParts
<1>8. CASE StartBatch
  BY <1>8, StartBatchParts
<1>9. CASE EndResponse
  <2>1. Blank
    BY <1>9 DEF EndResponse, NextIteration
  <2>2. sandbox = BaseMode
    BY <1>9 DEF EndResponse, TInv, SandboxScoped
  <2> QED BY <1>9, <2>1, <2>2, BlankParts DEF EndResponse
<1>10. CASE CallStep
  BY <1>10, CallParts DEF CallStep, StepOf
<1>11. CASE Stop
  BY <1>11, BlankParts DEF Stop
<1>12. CASE OrphanEnds \/ UNCHANGED vars
  <2>1. UNCHANGED <<pc, plan, early, st, outcome, batch, cascade, sandbox>>
    BY <1>12 DEF OrphanEnds, vars, callVars
  <2> QED
    BY <2>1
    DEF TInv, Parts, Split, EarlyReads, BatchShape, Quiet, BatchOrder, RetryIsShell,
        SandboxScoped, OutcomeAtEnd, CascadeHasCause, ConvergedHasCause, Calls
<1> QED
  BY <1>1, <1>2, <1>3, <1>4, <1>5, <1>6, <1>7, <1>8, <1>9, <1>10, <1>11, <1>12
  DEF Next, LoopStep, Over

THEOREM TurnInvariant == Spec => []TInv
  BY InitTInv, StepTInv, PTL DEF Spec

(***************************************************************************)
(* The types of a turn, for every number of calls, slots and retries.      *)
(***************************************************************************)
THEOREM TurnTypes == Spec => []TypeOK
<1>1. TInv => TypeOK
  BY DEF TInv
<1> QED BY <1>1, TurnInvariant, PTL

(***************************************************************************)
(* An unsafe tool runs alone: the batch it is in holds nothing else, and   *)
(* the early runs were all collected before any batch started.             *)
(***************************************************************************)
THEOREM UnsafeToolsRunAlone == Spec => []ExclusiveAlone
<1>1. TInv => ExclusiveAlone
  <2> SUFFICES ASSUME TInv, NEW i \in Calls, NEW j \in Calls, i # j, Executing(i), Executing(j)
               PROVE  Safe(plan[i]) /\ Safe(plan[j])
    BY DEF ExclusiveAlone
  <2>1. i \in early \cup batch /\ j \in early \cup batch
    BY CallsAreIdx DEF TInv, Split, Executing, Live, Predictions
  <2>2. CASE pc = "execute"
    <3>1. i \in batch /\ j \in batch
      BY <2>1, <2>2 DEF TInv, Quiet, Executing
    <3> QED BY <3>1 DEF TInv, BatchShape
  <2>3. CASE pc # "execute"
    <3>1. i \in early /\ j \in early
      BY <2>1, <2>3 DEF TInv, Split
    <3> QED BY <3>1 DEF TInv, EarlyReads, Executing, Safe
  <2> QED BY <2>2, <2>3
<1> QED BY <1>1, TurnInvariant, PTL

(***************************************************************************)
(* Calls of which one may write keep the order of the response.            *)
(***************************************************************************)
THEOREM WritesKeepTheirOrder == Spec => []ConflictsInOrder
<1>1. TInv => ConflictsInOrder
  <2> SUFFICES ASSUME TInv, NEW i \in Calls, NEW j \in Calls, i < j, j \notin early,
                      Executing(j), ~Safe(plan[i]) \/ ~Safe(plan[j])
               PROVE  st[i] = "returned"
    BY DEF ConflictsInOrder
  <2>1. j \in batch
    BY CallsAreIdx DEF TInv, Split, Executing, Live, Predictions
  <2>2. i \notin batch
    <3>1. i # j
      BY CallsAreIdx DEF TInv
    <3> QED BY <2>1, <3>1 DEF TInv, BatchShape
  <2> QED BY <2>1, <2>2 DEF TInv, BatchOrder
<1> QED BY <1>1, TurnInvariant, PTL

(***************************************************************************)
(* A sandbox widened for a retry is seen by the retried call alone, and is *)
(* put back by whatever ends the turn.                                     *)
(***************************************************************************)
THEOREM SandboxIsPutBack == Spec => []SandboxScoped
<1>1. TInv => SandboxScoped
  BY DEF TInv
<1> QED BY <1>1, TurnInvariant, PTL

(***************************************************************************)
(* A skipped call has a sibling in its own batch that failed by itself.    *)
(***************************************************************************)
THEOREM FailureStopsItsBatchOnly == Spec => []ConvergedHasCause
<1>1. TInv => ConvergedHasCause
  BY DEF TInv
<1> QED BY <1>1, TurnInvariant, PTL

----------------------------------------------------------------------------
(* The slots of the semaphore *)

LEMMA FewerSlots ==
    ASSUME ParallelBound, TypeOK, Holding' \subseteq Holding PROVE ParallelBound'
<1>1. IsFiniteSet(Holding)
  <2>1. IsFiniteSet(Idx)
    BY FS_Interval, TurnAssumption DEF Idx
  <2>2. Holding \in SUBSET Idx
    BY DEF Holding, TypeOK
  <2> QED BY <2>1, <2>2, FS_Subset
<1>2. Cardinality(Holding') <= Cardinality(Holding) /\ IsFiniteSet(Holding')
  BY <1>1, FS_Subset
<1>3. Cardinality(Holding) \in Nat /\ Cardinality(Holding') \in Nat
  BY <1>1, <1>2, FS_CardinalityType
<1> QED BY <1>2, <1>3, TurnAssumption DEF ParallelBound, Holding

LEMMA SlotTaken ==
    ASSUME ParallelBound, TypeOK, NEW i \in Idx, Admit(i), i \in batch, i \notin early
    PROVE  ParallelBound'
<1>0. st \in [Idx -> CallStates] /\ batch \subseteq Idx /\ UNCHANGED batch
  BY DEF TypeOK, Admit
<1>1. Cardinality(Holding) < MaxParallel
  BY DEF Admit
<1>2. IsFiniteSet(Holding)
  <2>1. IsFiniteSet(Idx)
    BY FS_Interval, TurnAssumption DEF Idx
  <2>2. Holding \in SUBSET Idx
    BY <1>0 DEF Holding
  <2> QED BY <2>1, <2>2, FS_Subset
<1>3. Cardinality(Holding \cup {i}) <= MaxParallel /\ IsFiniteSet(Holding \cup {i})
  <2>1. Cardinality(Holding) \in Nat
    BY <1>2, FS_CardinalityType
  <2>2. /\ IsFiniteSet(Holding \cup {i})
        /\ \/ Cardinality(Holding \cup {i}) = Cardinality(Holding)
           \/ Cardinality(Holding \cup {i}) = Cardinality(Holding) + 1
    BY <1>2, FS_AddElement
  <2>3. MaxParallel \in Nat
    BY TurnAssumption
  <2>4. Cardinality(Holding) < MaxParallel
    BY <1>1
  <2> HIDE DEF Holding
  <2> QED BY <2>1, <2>2, <2>3, <2>4
<1>4. Holding' \in SUBSET (Holding \cup {i})
  BY <1>0 DEF Holding, Admit, Converge, MoveTo
<1>5. Cardinality(Holding') <= Cardinality(Holding \cup {i}) /\ IsFiniteSet(Holding')
  BY <1>3, <1>4, FS_Subset
<1>6. Cardinality(Holding') \in Nat /\ Cardinality(Holding \cup {i}) \in Nat
  BY <1>3, <1>5, FS_CardinalityType
<1> QED BY <1>3, <1>5, <1>6, TurnAssumption DEF ParallelBound, Holding

LEMMA SlotsStep == TInv /\ ParallelBound /\ [Next]_vars => ParallelBound'
<1> SUFFICES ASSUME TInv, ParallelBound, [Next]_vars PROVE ParallelBound'
  OBVIOUS
<1>0. TypeOK /\ st \in [Idx -> CallStates]
  BY DEF TInv, TypeOK
<1>1. CASE LoopStep
  <2>1. Holding' \subseteq Holding
    <3>1. CASE StartBatch
      <4>1. batch' \subseteq Remaining
        BY <3>1, NextBatchLeads, CallsAreIdx DEF StartBatch, Remaining, TInv
      <4> QED BY <3>1, <4>1 DEF StartBatch, Holding, Remaining, Live, Predictions, callVars
    <3>2. CASE EndResponse
      BY <3>2 DEF EndResponse, NextIteration, Blank, Holding
    <3>3. ASSUME LoopStep, ~StartBatch, ~EndResponse PROVE batch' = {}
      BY <3>3
      DEF LoopStep, Chunk, StreamEnd, Overflow, StreamError, Recover, Unrecovered, Collect,
          NextIteration, Blank, TInv, Split
    <3> QED BY <1>1, <3>1, <3>2, <3>3 DEF Holding
  <2> QED BY <1>0, <2>1, FewerSlots
<1>2. ASSUME NEW i \in Idx, StepOf(i)
      PROVE  ParallelBound'
  <2>1. Moves(i) /\ UNCHANGED batch
    BY <1>2, CallMoves DEF StepOf, Admit, Gate, Answer, Begin, ToolEnds, RetryEnds, Deliver
  <2>2. CASE st[i] \in Live \/ i \notin batch
    <3>1. Holding' \subseteq Holding
      BY <1>0, <2>1, <2>2 DEF Holding, Moves, TInv, TypeOK
    <3> QED BY <1>0, <3>1, FewerSlots
  <2>3. CASE st[i] \notin Live /\ i \in batch
    <3>1. Admit(i)
      BY <1>2, <2>3 DEF StepOf, Gate, Answer, Begin, ToolEnds, RetryEnds, Deliver, Live, Predictions
    <3>2. i \notin early
      BY <2>3 DEF TInv, Split
    <3> QED BY <1>0, <2>3, <3>1, <3>2, SlotTaken
  <2> QED BY <2>2, <2>3
<1>3. CASE Stop
  <2>1. Holding' \subseteq Holding
    BY <1>3 DEF Stop, Blank, Holding
  <2> QED BY <1>0, <2>1, FewerSlots
<1>4. CASE OrphanEnds \/ UNCHANGED vars
  <2>1. Holding' \subseteq Holding
    BY <1>4 DEF OrphanEnds, vars, callVars, Holding
  <2> QED BY <1>0, <2>1, FewerSlots
<1> QED BY <1>1, <1>2, <1>3, <1>4 DEF Next, CallStep, StepOf, Over

(***************************************************************************)
(* The calls of a batch never hold more slots than the semaphore has.      *)
(***************************************************************************)
THEOREM SlotsAreBounded == Spec => []ParallelBound
<1>1. Init => ParallelBound
  <2> SUFFICES ASSUME Init PROVE ParallelBound
    OBVIOUS
  <2>1. {i \in batch : st[i] \in Live} = {}
    BY DEF Init
  <2> QED BY <2>1, FS_EmptySet, TurnAssumption DEF ParallelBound
<1> QED BY <1>1, SlotsStep, TurnInvariant, PTL DEF Spec

----------------------------------------------------------------------------
(* A batch in which a call has failed *)

\* Only a parallel batch has a failure flag; the call that set it holds no slot.
Closed ==
    cascade => /\ \A i \in batch : Safe(plan[i])
               /\ Cardinality(Passed) < MaxParallel

LEMMA PassedIsFinite ==
    TypeOK => IsFiniteSet(Holding) /\ Passed \subseteq Holding /\ IsFiniteSet(Passed)
<1> SUFFICES ASSUME TypeOK
             PROVE  IsFiniteSet(Holding) /\ Passed \subseteq Holding /\ IsFiniteSet(Passed)
  OBVIOUS
<1>1. IsFiniteSet(Idx)
  BY FS_Interval, TurnAssumption DEF Idx
<1>2. Holding \in SUBSET Idx /\ Passed \subseteq Holding
  BY DEF Holding, Passed, Live, Predictions, TypeOK
<1> QED BY <1>1, <1>2, FS_Subset

\* No call passes its check while the flag is set.
LEMMA NoMorePass ==
    ASSUME TInv, Closed, cascade, [Next]_vars PROVE Passed' \subseteq Passed
<1>0. st \in [Idx -> CallStates] /\ batch \subseteq Idx
  BY DEF TInv, TypeOK
<1>1. CASE LoopStep
  <2>1. CASE StartBatch
    <3>1. batch' \subseteq Remaining
      BY <2>1, NextBatchLeads, CallsAreIdx DEF StartBatch, Remaining, TInv
    <3> QED BY <2>1, <3>1 DEF StartBatch, Passed, Remaining, callVars
  <2>2. CASE EndResponse
    BY <2>2 DEF EndResponse, NextIteration, Blank, Passed
  <2>3. ASSUME ~StartBatch, ~EndResponse PROVE batch' = {}
    BY <1>1, <2>3
    DEF LoopStep, Chunk, StreamEnd, Overflow, StreamError, Recover, Unrecovered, Collect,
        NextIteration, Blank, TInv, Split
  <2> QED BY <2>1, <2>2, <2>3 DEF Passed
<1>2. ASSUME NEW i \in Idx, StepOf(i) PROVE Passed' \subseteq Passed
  <2>1. UNCHANGED batch /\ \A j \in Idx : j # i => st'[j] = st[j]
    BY <1>2, CallMoves DEF StepOf, Admit, Gate, Answer, Begin, ToolEnds, RetryEnds, Deliver, Moves
  <2>2. SUFFICES ASSUME i \in Passed' PROVE i \in Passed
    BY <1>0, <2>1 DEF Passed
  <2>3. Parallel(i) /\ st'[i] # "returned"
    BY <2>1, <2>2 DEF Closed, Passed, Parallel
  <2>4. ~Admit(i) /\ ~Gate(i) /\ ~Deliver(i)
    BY <1>0, <2>3 DEF Admit, Gate, Deliver, Converge
  <2>5. st[i] \in {"asking", "cleared", "running", "retrying"}
    BY <1>2, <2>4 DEF StepOf, Answer, Begin, ToolEnds, RetryEnds
  <2> QED BY <2>3, <2>5 DEF Passed, Parallel
<1>3. CASE Stop
  BY <1>3 DEF Stop, Blank, Passed
<1>4. CASE OrphanEnds \/ UNCHANGED vars
  BY <1>4 DEF OrphanEnds, vars, callVars, Passed
<1> QED BY <1>1, <1>2, <1>3, <1>4 DEF Next, CallStep, StepOf, Over

LEMMA ClosedStep == TInv /\ ParallelBound /\ Closed /\ [Next]_vars => Closed'
<1> SUFFICES ASSUME TInv, ParallelBound, Closed, [Next]_vars, cascade' PROVE Closed'
  BY DEF Closed
<1>0. TypeOK /\ TypeOK'
  BY StepTInv DEF TInv
<1>1. MaxParallel \in Nat
  BY TurnAssumption
<1>2. CASE cascade
  <2>1. \A i \in batch' : Safe(plan'[i])
    <3>1. CASE UNCHANGED <<batch, plan>>
      BY <1>2, <3>1 DEF Closed, Safe
    <3>2. CASE LoopStep
      <4>1. ~StartBatch
        BY DEF StartBatch
      <4>2. CASE Collect
        BY <3>1, <4>2 DEF Collect
      <4>3. CASE ~Collect
        <5> batch' = {}
          BY <3>2, <4>1, <4>3
          DEF LoopStep, Chunk, StreamEnd, Overflow, StreamError, Recover, Unrecovered,
              EndResponse, NextIteration, Blank, TInv, Split
        <5> QED OBVIOUS
      <4> QED BY <4>2, <4>3
    <3>3. CASE CallStep
      <4> UNCHANGED <<batch, plan>>
        BY <3>3 DEF CallStep, Admit, Gate, Answer, Begin, ToolEnds, RetryEnds, Deliver
      <4> QED BY <3>1
    <3>4. CASE Stop
      BY <3>4 DEF Stop, Blank
    <3>5. CASE OrphanEnds \/ UNCHANGED vars
      BY <3>1, <3>5 DEF OrphanEnds, vars
    <3> QED BY <3>2, <3>3, <3>4, <3>5 DEF Next, Over
  <2>a. IsFiniteSet(Passed) /\ Passed' \subseteq Passed
    BY <1>0, <1>2, NoMorePass, PassedIsFinite
  <2>2. Cardinality(Passed') <= Cardinality(Passed) /\ IsFiniteSet(Passed')
    BY <2>a, FS_Subset
  <2>3. Cardinality(Passed') \in Nat /\ Cardinality(Passed) \in Nat
    BY <2>a, <2>2, FS_CardinalityType
  <2>4. Cardinality(Passed) < MaxParallel
    BY <1>2 DEF Closed
  <2>5. Cardinality(Passed') < MaxParallel
    BY <1>1, <2>2, <2>3, <2>4
  <2> QED BY <2>1, <2>5 DEF Closed
<1>3. CASE ~cascade
  <2>1. PICK i \in Idx : Deliver(i) /\ Parallel(i)
    BY <1>3
    DEF Next, LoopStep, Chunk, StreamEnd, Overflow, StreamError, Recover, Unrecovered,
        Collect, StartBatch, EndResponse, NextIteration, Blank, CallStep, Admit, Gate,
        Answer, Begin, ToolEnds, RetryEnds, Deliver, Stop, OrphanEnds, Over, vars
  <2>2. i \in Holding /\ Passed' \subseteq Holding \ {i}
    BY <1>0, <2>1 DEF Deliver, Parallel, Holding, Passed, Live, Predictions, TypeOK
  <2>3. IsFiniteSet(Holding) /\ Cardinality(Holding) <= MaxParallel
    BY <1>0, PassedIsFinite DEF ParallelBound, Holding
  <2>4. Cardinality(Holding \ {i}) = Cardinality(Holding) - 1 /\ IsFiniteSet(Holding \ {i})
    BY <2>2, <2>3, FS_RemoveElement
  <2>5. Cardinality(Passed') <= Cardinality(Holding \ {i}) /\ IsFiniteSet(Passed')
    BY <2>2, <2>4, FS_Subset
  <2>6. Cardinality(Holding) \in Nat /\ Cardinality(Passed') \in Nat
    BY <2>3, <2>5, FS_CardinalityType
  <2>7. Cardinality(Passed') < MaxParallel
    BY <1>1, <2>3, <2>4, <2>5, <2>6
  <2>8. \A j \in batch' : Safe(plan'[j])
    BY <2>1 DEF Deliver, Parallel, TInv, BatchShape, Safe
  <2> QED BY <2>7, <2>8 DEF Closed
<1> QED BY <1>2, <1>3

(***************************************************************************)
(* From the first failure of a parallel batch on no call of it passes its  *)
(* check (the second look at cascade_event in _run_one), and those that    *)
(* have passed it are fewer than the slots.                                *)
(***************************************************************************)
THEOREM FailureAdmitsNoMore == Spec => FailureClosesBatch
<1> DEFINE A == /\ cascade' => Cardinality(Passed') < MaxParallel
                /\ cascade => Passed' \subseteq Passed
<1>1. Init => Closed
  BY DEF Init, Closed
<1>2. Spec => []Closed
  BY <1>1, ClosedStep, SlotsAreBounded, TurnInvariant, PTL DEF Spec
<1>3. TInv /\ ParallelBound /\ Closed /\ [Next]_vars => [A]_vars
  BY ClosedStep, NoMorePass DEF Closed
<1>4. Spec => [][A]_vars
  BY <1>2, <1>3, SlotsAreBounded, TurnInvariant, PTL DEF Spec
<1> QED BY <1>4 DEF FailureClosesBatch

=============================================================================
