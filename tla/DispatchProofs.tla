--------------------------- MODULE DispatchProofs ---------------------------
(***************************************************************************)
(* The dispatcher, for any number of items and roles, any organisation and *)
(* any edits, rewired dependencies included.                               *)
(*                                                                         *)
(* First, it implements the board and leaves finished work alone: the      *)
(* operators of WorkItemStore are shown to shift open items at most; then  *)
(* every action is a step of the board or none, and moves no finished item *)
(* unless a manager reopens it.                                            *)
(*                                                                         *)
(* Second, it keeps work moving: each operator leaves the store orderly,   *)
(* disturbs no parked or working session (Calm), and a parent that waits   *)
(* for children waits for one that is not approved, or has no claim        *)
(* (Awake).  Nothing is assumed of what is on hold or queued, so that the  *)
(* invariant, MovingInv, serves for runs that are stopped and resumed too. *)
(*                                                                         *)
(* Third, releases wait for dependencies, and nothing is queued behind     *)
(* nothing: two relations between stores, and the owners of queues.        *)
(***************************************************************************)
EXTENDS DispatchBoard, FiniteSetTheorems, SequenceTheorems, WellFoundedInduction, TLAPS

\* The fields of the store that the operators write, and the phases in it.
Fields == {"phase", "claim", "marker", "deps", "deleted", "synth", "feedback",
           "parent", "hold", "focus", "pending", "cached"}
Shaped(d) == Fields \subseteq DOMAIN d /\ d.phase \in [Items -> Phases \cup {Absent}]

\* From d to e the item i stays in its column, or is open before and after.
Shift(d, e, i) ==
  \/ e.phase[i] = d.phase[i]
  \/ KanbanColumn(d.phase[i]) \in B!Open /\ KanbanColumn(e.phase[i]) \in B!Open

\* Queueing runnable items behind the focus of their role writes no phase.
LEMMA EnqueueKeepsPhases ==
  ASSUME NEW d, Shaped(d), NEW S
  PROVE  /\ Shaped(EnqueueBehindFocus(d, S))
         /\ EnqueueBehindFocus(d, S).phase = d.phase
         /\ EnqueueBehindFocus(d, S).hold = d.hold
BY DEF Shaped, Fields, EnqueueBehindFocus

\* Reconciling the serial queues writes no phase.
LEMMA ReconcileKeepsPhases ==
  ASSUME NEW d, Shaped(d), NEW R
  PROVE  /\ Shaped(Reconcile(d, R))
         /\ Reconcile(d, R).phase = d.phase
         /\ Reconcile(d, R).hold = d.hold
BY DEF Shaped, Fields, Reconcile

\* The phase a refresh proposes for an item is its own, or both are open.
LEMMA FrontierShifts ==
  ASSUME NEW d, Shaped(d), NEW i \in Items
  PROVE  /\ FrontierTarget(d, i) \in Phases \cup {Absent}
         /\ \/ FrontierTarget(d, i) = d.phase[i]
            \/ /\ KanbanColumn(d.phase[i]) \in B!Open
               /\ KanbanColumn(FrontierTarget(d, i)) \in B!Open
BY DEF Shaped, FrontierTarget, Released, Held, KanbanColumn, B!Open, Phases, Absent, TodoPhases,
       InProgressPhases, InReviewPhases

\* A refresh of dependents leaves the phase of an item or writes the one
\* proposed for it.
LEMMA RefreshKeepsPhases ==
  ASSUME NEW d, Shaped(d)
  PROVE  /\ Shaped(RefreshDependents(d))
         /\ RefreshDependents(d).hold = d.hold
         /\ \A i \in Items : RefreshDependents(d).phase[i] \in {d.phase[i], FrontierTarget(d, i)}
<1> DEFINE target  == [i \in Items |-> FrontierTarget(d, i)]
           allowed == {i \in Created(d) : Legal(d.phase[i], target[i])}
           moved   == {i \in allowed : target[i] # d.phase[i]}
           written ==
             [d EXCEPT
                !.phase = [i \in Items |-> IF i \in moved THEN target[i] ELSE @[i]],
                !.deps  = [i \in Items |->
                             IF i \in allowed THEN ActiveDeps(d, i) ELSE @[i]],
                !.synth = [i \in Items |->
                             @[i] \/ (i \in moved /\ EntersSynthesis(d, i))],
                !.claim = [i \in Items |-> @[i] /\ i \notin ClaimLapses(d, moved)]]
<1>1. RefreshDependents(d)
        = EnqueueBehindFocus(written, {i \in moved : target[i] \in RunnablePhases})
  BY DEF RefreshDependents
<1>2. /\ Fields \subseteq DOMAIN written
      /\ written.hold = d.hold
      /\ written.phase = [i \in Items |-> IF i \in moved THEN target[i] ELSE d.phase[i]]
  BY DEF Shaped, Fields
<1>3. Shaped(written)
  BY <1>2, FrontierShifts DEF Shaped
<1>4. \A i \in Items : written.phase[i] \in {d.phase[i], FrontierTarget(d, i)}
  BY <1>2
<1> HIDE DEF written, target, moved
<1> QED
  BY <1>1, <1>2, <1>3, <1>4, EnqueueKeepsPhases

\* A refresh of dependents only shifts open items.
LEMMA RefreshShifts ==
  ASSUME NEW d, Shaped(d), NEW i \in Items
  PROVE  /\ Shift(d, RefreshDependents(d), i)
         /\ d.phase[i] \notin {"ready", "running", "waiting_for_children", "waiting_dependencies"}
              => RefreshDependents(d).phase[i] = d.phase[i]
<1>1. RefreshDependents(d).phase[i] \in {d.phase[i], FrontierTarget(d, i)}
  BY RefreshKeepsPhases
<1>2. Shift(d, RefreshDependents(d), i)
  BY <1>1, FrontierShifts DEF Shift
<1>3. d.phase[i] \notin {"ready", "running", "waiting_for_children", "waiting_dependencies"}
        => FrontierTarget(d, i) = d.phase[i]
  BY DEF FrontierTarget, Released, Held
<1> QED
  BY <1>1, <1>2, <1>3

\* The hooks of a phase write leave the phase written, and shift the others.
LEMMA FireHooksShift ==
  ASSUME NEW d, Shaped(d), NEW i \in Items
  PROVE  /\ Shaped(FireHooks(d, i))
         /\ FireHooks(d, i).hold = d.hold
         /\ FireHooks(d, i).phase[i] = d.phase[i]
         /\ \A j \in Items : Shift(d, FireHooks(d, i), j)
<1> DEFINE p         == d.phase[i]
           refreshed == IF p \in DependentRefreshTargets THEN RefreshDependents(d) ELSE d
           cleared   == IF p \in DonePhases THEN ClearFocus(refreshed, i) ELSE refreshed
<1>1. /\ Shaped(refreshed)
      /\ refreshed.hold = d.hold
      /\ refreshed.phase[i] = p
      /\ \A j \in Items : Shift(d, refreshed, j)
  BY RefreshKeepsPhases, RefreshShifts DEF Shift, DependentRefreshTargets, DonePhases
<1>2. Shaped(cleared) /\ cleared.phase = refreshed.phase /\ cleared.hold = refreshed.hold
  <2> DEFINE f == [refreshed EXCEPT !.focus[Owner[i]] = IF @ = i THEN NoItem ELSE @]
  <2>1. Shaped(f) /\ f.phase = refreshed.phase /\ f.hold = refreshed.hold
    BY <1>1 DEF Shaped, Fields
  <2>2. ClearFocus(refreshed, i) = Reconcile(f, {Owner[i]})
    BY DEF ClearFocus
  <2> HIDE DEF f, refreshed, p
  <2>3. /\ Shaped(Reconcile(f, {Owner[i]}))
        /\ Reconcile(f, {Owner[i]}).phase = f.phase
        /\ Reconcile(f, {Owner[i]}).hold = f.hold
    BY <2>1, ReconcileKeepsPhases
  <2> QED
    BY <1>1, <2>1, <2>2, <2>3
<1>3. FireHooks(d, i) = IF p \in RunnablePhases THEN EnqueueBehindFocus(cleared, {i}) ELSE cleared
  BY DEF FireHooks
<1> HIDE DEF p, refreshed, cleared
<1>4. /\ Shaped(FireHooks(d, i))
      /\ FireHooks(d, i).phase = refreshed.phase
      /\ FireHooks(d, i).hold = refreshed.hold
  BY <1>2, <1>3, EnqueueKeepsPhases
<1> QED
  BY <1>1, <1>4 DEF Shift, p

\* A saved phase write writes the phase, and shifts the other items.
LEMMA SavePhaseShifts ==
  ASSUME NEW d, Shaped(d), NEW i \in Items, NEW p \in Phases
  PROVE  /\ Shaped(SavePhase(d, i, p))
         /\ SavePhase(d, i, p).phase[i] = p
         /\ \A j \in Items \ {i} : Shift(d, SavePhase(d, i, p), j)
<1>1. CASE p = d.phase[i]
  BY <1>1 DEF SavePhase, Shift
<1>2. CASE p # d.phase[i]
  <2> DEFINE e == [d EXCEPT !.phase[i] = p]
  <2>1. Shaped(e) /\ e.phase = [d.phase EXCEPT ![i] = p]
    BY DEF Shaped, Fields
  <2>2. SavePhase(d, i, p) = FireHooks(e, i)
    BY <1>2 DEF SavePhase
  <2>3. e.phase[i] = p /\ \A j \in Items \ {i} : e.phase[j] = d.phase[j]
    BY <2>1 DEF Shaped
  <2> HIDE DEF e
  <2> QED
    <3>1. \A j \in Items : Shift(e, FireHooks(e, i), j)
      BY <2>1, FireHooksShift
    <3>2. \A j \in Items \ {i} : Shift(d, FireHooks(e, i), j)
      BY <3>1, <2>3 DEF Shift
    <3>3. Shaped(FireHooks(e, i)) /\ FireHooks(e, i).phase[i] = p
      BY <2>1, <2>3, FireHooksShift
    <3> QED
      BY <2>2, <3>2, <3>3
<1> QED
  BY <1>1, <1>2

\* Releasing a set of items makes them ready and leaves the others.
LEMMA SaveReadyWrites ==
  ASSUME NEW d, Shaped(d), NEW S
  PROVE  /\ Shaped(SaveReady(d, S))
         /\ SaveReady(d, S).phase = [i \in Items |-> IF i \in S THEN "ready" ELSE d.phase[i]]
<1> DEFINE e == [d EXCEPT !.phase = [i \in Items |-> IF i \in S THEN "ready" ELSE @[i]]]
<1>1. e.phase = [i \in Items |-> IF i \in S THEN "ready" ELSE d.phase[i]]
  BY DEF Shaped, Fields
<1>2. Shaped(e)
  <2>1. Fields \subseteq DOMAIN e
    BY DEF Shaped, Fields
  <2>2. "ready" \in Phases
    BY DEF Phases
  <2> QED
    BY <1>1, <2>1, <2>2 DEF Shaped
<1> HIDE DEF e
<1> QED
  BY <1>1, <1>2, EnqueueKeepsPhases DEF SaveReady, e

\* Sets of items, and of positions in a queue, are finite sets of positive
\* numbers.
LEMMA NumberSets ==
  ASSUME NEW m \in Nat, NEW S \in SUBSET (1..m)
  PROVE  /\ IsFiniteSet(S)
         /\ Cardinality(S) \in Nat
         /\ \A j \in S : j \in Nat \ {0} /\ j <= m
<1>1. IsFiniteSet(1..m)
  BY FS_Interval
<1>2. IsFiniteSet(S)
  BY <1>1, FS_Subset
<1>3. Cardinality(S) \in Nat
  BY <1>2, FS_CardinalityType
<1>4. \A j \in 1..m : j \in Nat \ {0} /\ j <= m
  OBVIOUS
<1> QED
  BY <1>2, <1>3, <1>4

\* A set of n numbers has a first one, ..., and an nth one.
LEMMA NthExists ==
  ASSUME NEW m \in Nat, NEW S \in SUBSET (1..m), NEW n \in 1..Cardinality(S)
  PROVE  \E i \in S : Cardinality({j \in S : j < i}) = n - 1
<1> DEFINE below(k) == {j \in S : j < k}
           T == {k \in Nat : Cardinality(below(k)) >= n}
<1>1. /\ IsFiniteSet(S)
      /\ Cardinality(S) \in Nat
      /\ \A j \in S : j \in Nat \ {0} /\ j <= m
  BY NumberSets
<1>2. \A k \in Nat : IsFiniteSet(below(k)) /\ Cardinality(below(k)) \in Nat
  BY <1>1, FS_Subset, FS_CardinalityType
<1>3. m + 1 \in T
  <2>1. \A j \in S : j < m + 1
    BY <1>1
  <2>2. below(m + 1) = S
    BY <2>1
  <2> QED
    BY <2>2, <1>1
<1>4. PICK k \in T : \A l \in T : ~(l < k)
  <2>1. T \subseteq Nat /\ T # {}
    BY <1>3
  <2> HIDE DEF T
  <2>2. \E k \in T : \A l \in T : ~(<<l, k>> \in OpToRel(<, Nat))
    BY <2>1, NatLessThanWellFounded, WFMin
  <2> QED
    BY <2>1, <2>2 DEF OpToRel
<1>5. k # 0
  <2>1. \A j \in S : ~(j < 0)
    BY <1>1
  <2>2. below(0) = {}
    BY <2>1
  <2> QED
    BY <2>2, FS_EmptySet
<1>6. k - 1 \in Nat /\ k - 1 \notin T /\ k - 1 < k /\ k \in Nat
  BY <1>4, <1>5
<1>7. Cardinality(below(k - 1)) < n
  <2>1. ~(Cardinality(below(k - 1)) >= n)
    BY <1>6
  <2>2. Cardinality(below(k - 1)) \in Nat
    BY <1>2, <1>6
  <2> QED
    BY <2>1, <2>2, <1>1
<1>8. \A j \in S : j < k <=> j < k - 1 \/ j = k - 1
  BY <1>1, <1>6
<1>9. Cardinality(below(k)) >= n /\ Cardinality(below(k)) \in Nat
  BY <1>2, <1>4, <1>6
<1>10. k - 1 \in S
  <2>1. SUFFICES ASSUME k - 1 \notin S PROVE FALSE
    OBVIOUS
  <2>2. below(k) = below(k - 1)
    BY <2>1, <1>8
  <2> HIDE DEF below
  <2> QED
    BY <2>2, <1>7, <1>9, <1>1
<1>11. below(k) = below(k - 1) \cup {k - 1}
  BY <1>8, <1>10
<1>12. Cardinality(below(k)) = Cardinality(below(k - 1)) + 1
  <2>1. k - 1 \notin below(k - 1)
    BY <1>6
  <2> HIDE DEF below
  <2> QED
    BY <2>1, <1>11, <1>2, <1>6, FS_AddElement
<1>13. Cardinality(below(k - 1)) = n - 1
  <2>1. Cardinality(below(k - 1)) \in Nat
    BY <1>2, <1>6
  <2> HIDE DEF below
  <2> QED
    BY <2>1, <1>7, <1>9, <1>12, <1>1
<1> QED
  BY <1>10, <1>13

\* A set of numbers in their order is a sequence of its members.
LEMMA NumbersInOrder ==
  ASSUME NEW m \in Nat, NEW S \in SUBSET (1..m)
  PROVE  InCreationOrder(S) \in Seq(S)
<1> DEFINE nth(n) == CHOOSE i \in S : Cardinality({j \in S : j < i}) = n - 1
<1>1. Cardinality(S) \in Nat
  BY NumberSets
<1>2. \A n \in 1..Cardinality(S) : nth(n) \in S
  <2>1. TAKE n \in 1..Cardinality(S)
  <2>2. \E i \in S : Cardinality({j \in S : j < i}) = n - 1
    BY NthExists
  <2> QED
    BY <2>2
<1>3. InCreationOrder(S) = [n \in 1..Cardinality(S) |-> nth(n)]
  BY DEF InCreationOrder
<1> HIDE DEF nth
<1> QED
  BY <1>1, <1>2, <1>3

\* A set of items in creation order is a sequence of its members.
LEMMA CreationOrder ==
  ASSUME NEW S \in SUBSET Items
  PROVE  InCreationOrder(S) \in Seq(S)
BY NumbersInOrder, MaxItemsAssumption DEF Items

OwnedBy(r) == {i \in Items : Owner[i] = r}

(***************************************************************************)
(* The invariant: the created items are an initial segment, so that a new  *)
(* one is always absent before; a turn in flight has a running session and *)
(* works at an existing item; and a role queues its own items only.        *)
(***************************************************************************)
DInv ==
  /\ Shaped(db)
  /\ \E n \in Nat : Created(db) = 1..n
  /\ sess \in [Roles -> Sessions]
  /\ turn \in [Roles -> Turns]
  /\ \A r \in Roles : queue[r] \in Seq(OwnedBy(r))
  /\ \A r \in Roles : InFlight(r) => /\ sess[r].status = "running"
                                     /\ sess[r].item \in Created(db)

\* Which phases every column of the board holds.
LEMMA ColumnPhases ==
  ASSUME NEW p
  PROVE  /\ KanbanColumn(p) = "absent" <=> p = Absent
         /\ KanbanColumn(p) = "todo" <=> p \in TodoPhases
         /\ KanbanColumn(p) = "in_progress" <=> p \in InProgressPhases
         /\ KanbanColumn(p) = "in_review" <=> p \in InReviewPhases
         /\ KanbanColumn(p) = "approved" <=> p = "approved"
         /\ p \in {"failed", "cancelled"} => KanbanColumn(p) = "closed"
BY DEF KanbanColumn, Absent, TodoPhases, InProgressPhases, InReviewPhases

\* Shifts, and writes from phase to phase, create no item and remove none.
LEMMA CreatedKept ==
  ASSUME NEW d, NEW e, NEW C,
         \A j \in Items \ C : Shift(d, e, j),
         \A j \in C : d.phase[j] # Absent /\ e.phase[j] # Absent
  PROVE  Created(e) = Created(d)
<1>1. \A j \in Items : d.phase[j] = Absent <=> e.phase[j] = Absent
  <2>1. TAKE j \in Items
  <2>2. CASE j \in C
    BY <2>2
  <2>3. CASE j \notin C
    BY <2>3, ColumnPhases DEF Shift, B!Open
  <2> QED
    BY <2>2, <2>3
<1> QED
  BY <1>1 DEF Created

\* A step that writes the phases of the items C, shifts the others and keeps
\* sessions, queues and the turns in flight, preserves the invariant, and the
\* board shows no more than that.
LEMMA Effects ==
  ASSUME DInv, NEW C \in SUBSET Items,
         Shaped(db'),
         \A j \in Items \ C : Shift(db, db', j),
         \A j \in C : db.phase[j] # Absent /\ db'.phase[j] # Absent,
         UNCHANGED <<sess, queue>>,
         turn' \in [Roles -> Turns],
         \A r \in Roles : turn'[r].stage = "none" <=> turn[r].stage = "none"
  PROVE  DInv' /\ handOf' = handOf /\ B!OthersShift(C)
<1>1. Created(db') = Created(db)
  BY CreatedKept
<1>2. \A r \in Roles : InFlight(r)' = InFlight(r)
  BY DEF InFlight
<1>3. DInv'
  BY <1>1, <1>2 DEF DInv
<1>4. handOf' = handOf
  BY <1>2 DEF handOf
<1>5. B!OthersShift(C)
  BY DEF B!OthersShift, B!OnlyShifts, columnOf, Shift
<1> QED
  BY <1>3, <1>4, <1>5

(***************************************************************************)
(* Finished items stay finished, but for those that are reopened, and what *)
(* is reopened is not on hold.                                             *)
(***************************************************************************)
Settles ==
  /\ StaysFinished
  /\ \A i \in Items : db.phase[i] = "approved" /\ db'.phase[i] # "approved" => ~db'.hold[i]

\* A step that shifts items, writes unfinished ones, or reopens approved ones
\* at the cost of an edit, leaves what is finished.
LEMMA Settled ==
  ASSUME \A j \in Items : \/ Shift(db, db', j)
                          \/ db.phase[j] \notin DonePhases
                          \/ /\ db.phase[j] = "approved"
                             /\ db'.phase[j] = "ready_for_rework" /\ edits' < edits
                             /\ ~db'.hold[j]
  PROVE  Settles
<1>1. \A j \in Items : db.phase[j] \in DonePhases => KanbanColumn(db.phase[j]) \notin B!Open
  BY DEF DonePhases, KanbanColumn, B!Open, Absent, TodoPhases, InProgressPhases, InReviewPhases
<1> QED
  BY <1>1 DEF Shift, Settles, StaysFinished, DonePhases

\* The same without written items: for the board nobody takes anything.
LEMMA EffectTake ==
  ASSUME DInv,
         Shaped(db'),
         \A j \in Items : Shift(db, db', j),
         UNCHANGED <<sess, queue>>,
         turn' \in [Roles -> Turns],
         \A r \in Roles : turn'[r].stage = "none" <=> turn[r].stage = "none"
  PROVE  DInv' /\ B!Take /\ Settles
<1>1. DInv' /\ handOf' = handOf /\ B!OthersShift({})
  BY Effects
<1>2. Settles
  BY Settled
<1> QED
  BY <1>1, <1>2 DEF B!Take

\* Shifts compose.
LEMMA ShiftTransitive ==
  ASSUME NEW d, NEW e, NEW f, NEW i, Shift(d, e, i), Shift(e, f, i)
  PROVE  Shift(d, f, i)
BY DEF Shift

\* Which phases a legal write may leave for the phase it writes.
LEMMA LegalFrom ==
  ASSUME NEW p \in Phases, NEW q \in Phases, Legal(p, q), p # q
  PROVE  /\ p \notin DonePhases
         /\ q \in {"approved", "awaiting_human"} => p \in {"running"} \cup InReviewPhases
         /\ q = "awaiting_manager_review" => p = "running"
         /\ q = "running" => p \in RunnablePhases \cup InProgressPhases
         /\ q \in {"waiting_for_peer", "waiting_for_children"} => p = "running"
BY DEF Legal, AllowedTransitions, UniversalExits, RecoveryExits, Phases, DonePhases,
       InReviewPhases, RunnablePhases, InProgressPhases

\* The item of a turn in flight exists, and its role has it in hand.
LEMMA TurnItem ==
  ASSUME DInv, NEW r \in Roles, InFlight(r)
  PROVE  /\ sess[r].item \in Items
         /\ db.phase[sess[r].item] \in Phases
         /\ handOf[r] = sess[r].item
         /\ handOf[r] # NoItem
         /\ sess[r].status = "running"
<1>1. sess[r].item \in Created(db) /\ sess[r].status = "running"
  BY DEF DInv
<1>2. sess[r].item \in Items /\ db.phase[sess[r].item] \in Phases
  BY <1>1 DEF Created, DInv, Shaped
<1> QED
  BY <1>1, <1>2, NoItemAssumption DEF handOf

\* The end of a turn writes what it is given, and the claim is still held.
LEMMA EndTurnKeeps ==
  ASSUME DInv, NEW r \in Roles, NEW d, NEW parks \in BOOLEAN, EndTurn(r, d, parks)
  PROVE  /\ db' = d
         /\ UNCHANGED <<sess, queue>>
         /\ turn' \in [Roles -> Turns]
         /\ \A s \in Roles : turn'[s].stage = "none" <=> turn[s].stage = "none"
         /\ InFlight(r)
BY DEF EndTurn, DInv, Turns, InFlight

\* A step of the board, or nothing happens on it.
BoardStepped == [B!BoardNext]_(B!boardVars)

\* A take is a step of the board.
LEMMA TakeStep == ASSUME B!Take PROVE BoardStepped
BY DEF B!BoardNext, BoardStepped

\* A delivery is a step of the board.
LEMMA DeliverStep == ASSUME NEW r \in Roles, B!Deliver(r) PROVE BoardStepped
BY DEF B!BoardNext, BoardStepped

\* A write of a phase of work keeps every item among the open columns.
LEMMA OpenWrite ==
  ASSUME NEW d, Shaped(d), NEW i \in Items, NEW p \in {"running", "waiting_for_peer", "waiting_for_children"},
         d.phase[i] \in Phases
  PROVE  /\ Shaped(Transition(d, i, p))
         /\ \A j \in Items : Shift(d, Transition(d, i, p), j)
<1>1. CASE ~Legal(d.phase[i], p)
  BY <1>1 DEF Transition, Shift
<1>2. CASE Legal(d.phase[i], p)
  <2>1. p \in Phases /\ KanbanColumn(p) \in B!Open
    <3>1. p \in Phases /\ p \in InProgressPhases
      BY DEF Phases, InProgressPhases
    <3> QED
      BY <3>1, ColumnPhases DEF B!Open
  <2>2. /\ Shaped(SavePhase(d, i, p))
        /\ SavePhase(d, i, p).phase[i] = p
        /\ \A j \in Items \ {i} : Shift(d, SavePhase(d, i, p), j)
    BY <2>1, SavePhaseShifts
  <2>3. Shift(d, SavePhase(d, i, p), i)
    <3>1. CASE d.phase[i] = p
      BY <3>1, <2>2 DEF Shift
    <3>2. CASE d.phase[i] # p
      <4>1. d.phase[i] \in RunnablePhases \cup InProgressPhases
        BY <1>2, <2>1, <3>2, LegalFrom DEF InProgressPhases
      <4>2. KanbanColumn(d.phase[i]) \in B!Open
        <5>1. d.phase[i] \in TodoPhases \cup InProgressPhases
          BY <4>1 DEF RunnablePhases, TodoPhases
        <5> QED
          BY <5>1, ColumnPhases DEF B!Open
      <4> QED
        BY <4>2, <2>1, <2>2 DEF Shift
    <3> QED
      BY <3>1, <3>2
  <2> QED
    BY <1>2, <2>2, <2>3 DEF Transition
<1> QED
  BY <1>1, <1>2

\* The step lemmas: what an action of the dispatcher is on the board.  A turn
\* that starts shifts its item.
LEMMA StartTurnStep ==
  ASSUME DInv, NEW r \in Roles, StartTurn(r)
  PROVE  DInv' /\ BoardStepped /\ Settles
<1>1. InFlight(r)
  BY DEF StartTurn, InFlight
<1>2. Shaped(db') /\ \A j \in Items : Shift(db, db', j)
  BY <1>1, TurnItem, OpenWrite DEF StartTurn, DInv
<1>3. /\ UNCHANGED <<sess, queue>>
      /\ turn' \in [Roles -> Turns]
      /\ \A s \in Roles : turn'[s].stage = "none" <=> turn[s].stage = "none"
  BY DEF StartTurn, DInv, Turns
<1> QED
  BY <1>2, <1>3, EffectTake, TakeStep

\* A turn that parks for a peer shifts its item.
LEMMA ParkForPeerStep ==
  ASSUME DInv, NEW r \in Roles, ParkForPeer(r)
  PROVE  DInv' /\ BoardStepped /\ Settles
<1> DEFINE d == Transition(db, sess[r].item, "waiting_for_peer")
<1>1. EndTurn(r, d, TRUE)
  BY DEF ParkForPeer
<1>2. /\ db' = d
      /\ UNCHANGED <<sess, queue>>
      /\ turn' \in [Roles -> Turns]
      /\ \A s \in Roles : turn'[s].stage = "none" <=> turn[s].stage = "none"
      /\ InFlight(r)
  BY <1>1, EndTurnKeeps
<1>3. Shaped(d) /\ \A j \in Items : Shift(db, d, j)
  BY <1>2, TurnItem, OpenWrite DEF DInv
<1> QED
  BY <1>2, <1>3, EffectTake, TakeStep

\* Pruning the dependencies of an item moves nothing.
LEMMA DepsWritten ==
  ASSUME NEW d, Shaped(d), NEW i, NEW D
  PROVE  /\ Shaped([d EXCEPT !.deps[i] = D])
         /\ [d EXCEPT !.deps[i] = D].phase = d.phase
         /\ [d EXCEPT !.deps[i] = D].hold = d.hold
BY DEF Shaped, Fields

\* A turn that parks for children shifts its item, and its dependents.
LEMMA ParkForChildrenStep ==
  ASSUME DInv, NEW r \in Roles, ParkForChildren(r)
  PROVE  DInv' /\ BoardStepped /\ Settles
<1> DEFINE i      == sess[r].item
           wait   == WaitSet(db, i)
           pruned == [db EXCEPT !.deps[i] = ActiveDeps(db, i)]
           waits  == [pruned EXCEPT !.deps[i] = wait]
           lands  == Legal(db.phase[i], "waiting_for_children")
           d      == IF lands THEN SavePhase(waits, i, "waiting_for_children") ELSE pruned
<1>1. EndTurn(r, d, lands)
  BY DEF ParkForChildren
<1>2. lands \in BOOLEAN
  BY DEF Legal
<1> HIDE DEF lands
<1>3. /\ db' = d
      /\ UNCHANGED <<sess, queue>>
      /\ turn' \in [Roles -> Turns]
      /\ \A s \in Roles : turn'[s].stage = "none" <=> turn[s].stage = "none"
      /\ InFlight(r)
  BY <1>1, <1>2, EndTurnKeeps
<1>4. i \in Items /\ db.phase[i] \in Phases /\ Shaped(db)
  BY <1>3, TurnItem DEF DInv
<1>5. Shaped(pruned) /\ pruned.phase = db.phase /\ Shaped(waits) /\ waits.phase = db.phase
  <2>1. Shaped(pruned) /\ pruned.phase = db.phase
    BY <1>4, DepsWritten
  <2> HIDE DEF pruned
  <2>2. Shaped(waits) /\ waits.phase = pruned.phase
    BY <2>1, DepsWritten
  <2> QED
    BY <2>1, <2>2
<1>6. Shaped(d) /\ \A j \in Items : Shift(db, d, j)
  <2>1. CASE lands
    <3>1. /\ Shaped(Transition(waits, i, "waiting_for_children"))
          /\ \A j \in Items : Shift(waits, Transition(waits, i, "waiting_for_children"), j)
      BY <1>4, <1>5, OpenWrite
    <3>2. Transition(waits, i, "waiting_for_children") = d
      BY <2>1, <1>5 DEF Transition, lands
    <3> QED
      BY <3>1, <3>2, <1>5 DEF Shift
  <2>2. CASE ~lands
    BY <2>2, <1>5 DEF Shift
  <2> QED
    BY <2>1, <2>2
<1> QED
  BY <1>3, <1>6, EffectTake, TakeStep

\* A turn that is done delivers its item, unless the write is refused.
LEMMA FinishWorkStep ==
  ASSUME DInv, NEW r \in Roles, FinishWork(r)
  PROVE  DInv' /\ BoardStepped /\ Settles
<1> DEFINE i      == sess[r].item
           pruned == [db EXCEPT !.deps[i] = ActiveDeps(db, i)]
           target == DoneTarget(db, i)
           d      == Transition(pruned, i, target)
           parks  == target = "awaiting_human" /\ Legal(db.phase[i], target)
<1>1. EndTurn(r, d, parks)
  BY DEF FinishWork
<1>2. parks \in BOOLEAN
  OBVIOUS
<1>3. target \in {"approved", "awaiting_human", "awaiting_manager_review"} /\ target \in Phases
  BY DEF DoneTarget, Phases
<1> HIDE DEF parks, target
<1>4. /\ db' = d
      /\ UNCHANGED <<sess, queue>>
      /\ turn' \in [Roles -> Turns]
      /\ \A s \in Roles : turn'[s].stage = "none" <=> turn[s].stage = "none"
      /\ InFlight(r)
  BY <1>1, <1>2, EndTurnKeeps
<1>5. i \in Items /\ db.phase[i] \in Phases /\ Shaped(db) /\ handOf[r] = i /\ handOf[r] # NoItem
  BY <1>4, TurnItem DEF DInv
<1>6. Shaped(pruned) /\ pruned.phase = db.phase
  BY <1>5, DepsWritten
<1>7. CASE ~Legal(db.phase[i], target) \/ db.phase[i] = target
  <2>1. d = pruned
    BY <1>6, <1>7 DEF Transition, SavePhase
  <2> QED
    BY <2>1, <1>4, <1>6, EffectTake, TakeStep DEF Shift
<1>8. CASE Legal(db.phase[i], target) /\ db.phase[i] # target
  <2>1. d = SavePhase(pruned, i, target)
    BY <1>6, <1>8 DEF Transition
  <2>2. /\ Shaped(d) /\ d.phase[i] = target
        /\ \A j \in Items \ {i} : Shift(db, d, j)
    <3>1. /\ Shaped(d) /\ d.phase[i] = target
          /\ \A j \in Items \ {i} : Shift(pruned, d, j)
      <4> HIDE DEF pruned, d, i
      <4> QED
        BY <2>1, <1>3, <1>5, <1>6, SavePhaseShifts
    <3> QED
      BY <3>1, <1>6 DEF Shift
  <2>3. db.phase[i] \in {"running"} \cup InReviewPhases
    BY <1>3, <1>5, <1>8, LegalFrom
  <2>4. db.phase[i] # Absent /\ d.phase[i] # Absent
    BY <2>2, <2>3, <1>3 DEF Absent, InReviewPhases
  <2>5. DInv' /\ handOf' = handOf /\ B!OthersShift({i})
    BY <1>4, <1>5, <2>2, <2>4, Effects
  <2>6. columnOf[i] \in {"in_progress", "in_review"} /\ columnOf'[i] \in {"in_review", "approved"}
    BY <1>4, <1>5, <2>2, <2>3, <1>3, ColumnPhases
       DEF columnOf, InReviewPhases, InProgressPhases
  <2>7. B!Deliver(r)
    BY <2>5, <2>6, <1>5 DEF B!Deliver
  <2>8. Settles
    <3>1. \A j \in {i} : db.phase[j] \notin DonePhases
      BY <2>3 DEF InReviewPhases, DonePhases
    <3> QED
      BY <2>2, <3>1, <1>4, Settled
  <2> QED
    BY <2>5, <2>7, <2>8, DeliverStep
<1> QED
  BY <1>7, <1>8

\* A turn that times out or raises closes its item as failed, unless the
\* write is refused.
LEMMA TurnTimesOutStep ==
  ASSUME DInv, NEW r \in Roles, TurnTimesOut(r)
  PROVE  DInv' /\ BoardStepped /\ Settles
<1> DEFINE i == sess[r].item
           d == Transition(db, i, "failed")
<1>1. EndTurn(r, d, FALSE)
  BY DEF TurnTimesOut
<1>2. /\ db' = d
      /\ UNCHANGED <<sess, queue>>
      /\ turn' \in [Roles -> Turns]
      /\ \A s \in Roles : turn'[s].stage = "none" <=> turn[s].stage = "none"
      /\ InFlight(r)
  BY <1>1, EndTurnKeeps
<1>3. i \in Items /\ db.phase[i] \in Phases /\ Shaped(db) /\ handOf[r] = i /\ handOf[r] # NoItem
  BY <1>2, TurnItem DEF DInv
<1>4. CASE ~Legal(db.phase[i], "failed") \/ db.phase[i] = "failed"
  <2>1. d = db
    BY <1>4 DEF Transition, SavePhase
  <2> QED
    BY <2>1, <1>2, <1>3, EffectTake, TakeStep DEF Shift
<1>5. CASE Legal(db.phase[i], "failed") /\ db.phase[i] # "failed"
  <2>1. "failed" \in Phases
    BY DEF Phases
  <2>2. /\ Shaped(d) /\ d.phase[i] = "failed"
        /\ \A j \in Items \ {i} : Shift(db, d, j)
    BY <1>3, <1>5, <2>1, SavePhaseShifts DEF Transition
  <2>3. db.phase[i] \in Phases \ DonePhases
    BY <1>3, <1>5, <2>1, LegalFrom
  <2>4. db.phase[i] # Absent /\ d.phase[i] # Absent
    BY <2>2, <2>3 DEF Absent, Phases
  <2>5. DInv' /\ handOf' = handOf /\ B!OthersShift({i})
    BY <1>2, <1>3, <2>2, <2>4, Effects
  <2>6. columnOf[i] \in B!Live /\ columnOf'[i] = "closed"
    BY <1>2, <1>3, <2>2, <2>3
       DEF columnOf, KanbanColumn, B!Live, B!Open, Absent, Phases, DonePhases, TodoPhases,
           InProgressPhases, InReviewPhases
  <2>7. B!Deliver(r)
    BY <2>5, <2>6, <1>3 DEF B!Deliver
  <2>8. Settles
    BY <2>2, <2>3, <1>2, Settled
  <2> QED
    BY <2>5, <2>7, <2>8, DeliverStep
<1> QED
  BY <1>4, <1>5

\* A turn that ends without a write moves nothing.
LEMMA SilentEndStep ==
  ASSUME DInv, NEW r \in Roles, EndTurn(r, db, FALSE)
  PROVE  DInv' /\ BoardStepped /\ Settles
<1>1. /\ db' = db
      /\ UNCHANGED <<sess, queue>>
      /\ turn' \in [Roles -> Turns]
      /\ \A s \in Roles : turn'[s].stage = "none" <=> turn[s].stage = "none"
  BY EndTurnKeeps
<1>2. Shaped(db') /\ \A j \in Items : Shift(db, db', j)
  BY <1>1 DEF DInv, Shift
<1> QED
  BY <1>1, <1>2, EffectTake, TakeStep

\* Delegation files the next item, which the board does not have yet.
LEMMA DelegateStep ==
  ASSUME DInv, NEW r \in Roles, Delegate(r)
  PROVE  DInv' /\ BoardStepped /\ Settles
<1> DEFINE parent == sess[r].item
           new    == Cardinality(Created(db)) + 1
           peers  == {j \in Created(db) : db.parent[j] = parent /\ ~db.deleted[j]}
           child(deps) == [db EXCEPT
                             !.phase[new]  = IF deps = {} THEN "ready"
                                             ELSE "waiting_dependencies",
                             !.deps[new]   = deps,
                             !.parent[new] = parent]
           saved(deps) == IF deps = {} THEN EnqueueBehindFocus(child(deps), {new})
                          ELSE child(deps)
<1>1. PICK deps \in SUBSET peers :
        db' = [saved(deps) EXCEPT !.deps[parent] = ActiveDeps(saved(deps), parent) \cup {new}]
  BY DEF Delegate
<1>2. /\ new \in Items
      /\ InFlight(r)
      /\ UNCHANGED <<sess, turn, queue>>
  BY DEF Delegate, InFlight
<1>3. PICK n \in Nat : Created(db) = 1..n
  BY DEF DInv
<1>4. new = n + 1
  <2>1. Cardinality(1..n) = n
    BY FS_Interval
  <2> QED
    BY <1>3, <2>1
<1> HIDE DEF new, peers
<1>5. db.phase[new] = Absent
  BY <1>2, <1>3, <1>4 DEF Created
<1> DEFINE c == child(deps)
           first == IF deps = {} THEN "ready" ELSE "waiting_dependencies"
<1>6. Shaped(c) /\ c.phase = [db.phase EXCEPT ![new] = first]
  <2>1. Fields \subseteq DOMAIN db /\ db.phase \in [Items -> Phases \cup {Absent}]
    BY DEF DInv, Shaped
  <2>2. Fields \subseteq DOMAIN c /\ c.phase = [db.phase EXCEPT ![new] = first]
    BY <2>1 DEF Fields
  <2>3. first \in Phases
    BY DEF Phases
  <2> HIDE DEF c, first
  <2> QED
    BY <2>1, <2>2, <2>3 DEF Shaped
<1>7. Shaped(saved(deps)) /\ saved(deps).phase = c.phase
  <2> HIDE DEF child
  <2> QED
    BY <1>6, EnqueueKeepsPhases
<1>8. Shaped(db') /\ db'.phase = [db.phase EXCEPT ![new] = first]
  <2> DEFINE s == saved(deps)
             D == ActiveDeps(s, parent) \cup {new}
  <2>1. db' = [s EXCEPT !.deps[parent] = D]
    BY <1>1
  <2>2. Shaped(s) /\ s.phase = [db.phase EXCEPT ![new] = first]
    BY <1>6, <1>7
  <2> HIDE DEF s, D, parent, first
  <2> QED
    BY <2>1, <2>2, DepsWritten
<1> HIDE DEF c, child, saved
<1>9. /\ \A j \in Items \ {new} : db'.phase[j] = db.phase[j]
      /\ db'.phase[new] = first
  BY <1>2, <1>8 DEF DInv, Shaped
<1>10. first \in TodoPhases /\ first # Absent
  BY DEF TodoPhases, Absent
<1> HIDE DEF first
<1>11. Created(db') = Created(db) \cup {new}
  BY <1>2, <1>9, <1>10 DEF Created
<1>12. Created(db') = 1..(n + 1)
  BY <1>3, <1>4, <1>11
<1>13. DInv'
  <2>1. \A s \in Roles : InFlight(s)' = InFlight(s)
    BY <1>2 DEF InFlight
  <2>2. \A s \in Roles : InFlight(s)' => sess'[s].status = "running" /\ sess'[s].item \in Created(db')
    BY <1>2, <1>11, <2>1 DEF DInv
  <2>3. \E m \in Nat : Created(db') = 1..m
    BY <1>12
  <2> QED
    BY <1>2, <1>8, <2>2, <2>3 DEF DInv
<1>14. columnOf[new] = "absent" /\ columnOf'[new] = "todo"
  BY <1>2, <1>5, <1>9, <1>10, ColumnPhases DEF columnOf
<1>15. B!OthersShift({new})
  BY <1>9 DEF B!OthersShift, B!OnlyShifts, columnOf
<1>16. handOf' = handOf
  BY <1>2 DEF handOf, InFlight
<1>17. B!File(r)
  BY <1>2, <1>14, <1>15, <1>16, TurnItem DEF B!File
<1>18. Settles
  <2>1. \A j \in Items \ {new} : Shift(db, db', j)
    BY <1>9 DEF Shift
  <2>2. \A j \in {new} : db.phase[j] \notin DonePhases
    BY <1>5 DEF Absent, DonePhases
  <2> QED
    BY <2>1, <2>2, Settled
<1> QED
  BY <1>13, <1>17, <1>18 DEF BoardStepped, B!BoardNext

\* A completed claim empties the hand of its role and moves nothing.
LEMMA CompleteClaimStep ==
  ASSUME DInv, NEW r \in Roles, CompleteClaim(r)
  PROVE  DInv' /\ BoardStepped /\ Settles
<1>1. InFlight(r)
  BY DEF CompleteClaim, InFlight
<1>2. Shaped(db') /\ db'.phase = db.phase
  BY DEF DInv, Shaped, Fields, CompleteClaim, SaveRoleSession
<1>3. Created(db') = Created(db)
  BY <1>2 DEF Created
<1>4. /\ sess[r].item \in Items /\ handOf[r] # NoItem
  BY <1>1, TurnItem
<1>5. /\ sess' \in [Roles -> Sessions]
      /\ \A s \in Roles \ {r} : sess'[s] = sess[s]
  BY <1>4 DEF CompleteClaim, DInv, Sessions, Idle
<1>6. /\ turn' \in [Roles -> Turns]
      /\ \A s \in Roles \ {r} : turn'[s] = turn[s]
      /\ turn'[r].stage = "none"
  BY DEF CompleteClaim, DInv, Turns, NoTurn
<1>7. /\ ~InFlight(r)'
      /\ \A s \in Roles \ {r} : InFlight(s)' = InFlight(s)
  BY <1>6 DEF InFlight
<1>8. DInv'
  <2>1. \A s \in Roles : InFlight(s)' => sess'[s].status = "running" /\ sess'[s].item \in Created(db')
    BY <1>3, <1>5, <1>7 DEF DInv
  <2>2. queue' = queue
    BY DEF CompleteClaim
  <2> QED
    BY <1>2, <1>3, <1>5, <1>6, <2>1, <2>2 DEF DInv
<1>9. handOf' = [handOf EXCEPT ![r] = NoItem]
  <2>1. \A s \in Roles : handOf'[s] = [handOf EXCEPT ![r] = NoItem][s]
    BY <1>5, <1>7 DEF handOf
  <2> QED
    BY <2>1 DEF handOf
<1>10. columnOf' = columnOf
  BY <1>2 DEF columnOf
<1>11. B!LayDown(r)
  BY <1>4, <1>9, <1>10 DEF B!LayDown
<1>12. Settles
  BY <1>2 DEF Settles, StaysFinished
<1> QED
  BY <1>8, <1>11, <1>12 DEF BoardStepped, B!BoardNext

\* The answer of a peer is not on the board.
LEMMA PeerRepliesStep ==
  ASSUME DInv, NEW i \in Items, PeerReplies(i)
  PROVE  DInv' /\ BoardStepped /\ Settles
<1>1. UNCHANGED <<db, sess, turn, queue>>
  BY DEF PeerReplies
<1>2. DInv'
  BY <1>1 DEF DInv, InFlight
<1>3. UNCHANGED <<columnOf, handOf>>
  BY <1>1 DEF columnOf, handOf, InFlight
<1> QED
  BY <1>1, <1>2, <1>3 DEF BoardStepped, B!boardVars, Settles, StaysFinished

\* Writing the feedback of an item moves nothing.
LEMMA FeedbackWritten ==
  ASSUME NEW d, Shaped(d), NEW i, NEW b
  PROVE  /\ Shaped([d EXCEPT !.feedback[i] = b])
         /\ [d EXCEPT !.feedback[i] = b].phase = d.phase
BY DEF Shaped, Fields

\* A decision on an item in review: the item goes to p, the others shift.
LEMMA Decision ==
  ASSUME DInv, NEW i \in Items, db.phase[i] \in InReviewPhases,
         NEW d, Shaped(d), d.phase = db.phase,
         NEW p \in Phases, db' = SavePhase(d, i, p),
         UNCHANGED <<sess, turn, queue>>
  PROVE  /\ DInv' /\ handOf' = handOf /\ B!OthersShift({i})
         /\ columnOf[i] = "in_review" /\ columnOf'[i] = KanbanColumn(p)
         /\ Settles
<1>1. /\ Shaped(db') /\ db'.phase[i] = p
      /\ \A j \in Items \ {i} : Shift(d, db', j)
  BY SavePhaseShifts
<1>2. \A j \in Items \ {i} : Shift(db, db', j)
  BY <1>1 DEF Shift
<1>3. db.phase[i] # Absent /\ db'.phase[i] # Absent
  BY <1>1 DEF Phases, InReviewPhases, Absent
<1>4. turn' \in [Roles -> Turns] /\ \A r \in Roles : turn'[r].stage = "none" <=> turn[r].stage = "none"
  BY DEF DInv
<1>5. DInv' /\ handOf' = handOf /\ B!OthersShift({i})
  BY <1>1, <1>2, <1>3, <1>4, Effects
<1>6. columnOf[i] = "in_review" /\ columnOf'[i] = KanbanColumn(p)
  BY <1>1, ColumnPhases DEF columnOf
<1>7. Settles
  <2>1. \A j \in {i} : db.phase[j] \notin DonePhases
    BY DEF InReviewPhases, DonePhases
  <2> QED
    BY <2>1, <1>2, Settled
<1> QED
  BY <1>5, <1>6, <1>7

\* Approval, rework and rejection judge an item in review.
LEMMA JudgeStep ==
  ASSUME DInv, NEW i \in Items, Approve(i) \/ Rework(i) \/ HumanRejects(i)
  PROVE  DInv' /\ BoardStepped /\ Settles
<1>1. Shaped(db)
  BY DEF DInv
<1>2. CASE Approve(i)
  <2>1. "approved" \in Phases /\ KanbanColumn("approved") = "approved"
    BY ColumnPhases DEF Phases
  <2>2. /\ DInv' /\ handOf' = handOf /\ B!OthersShift({i})
        /\ columnOf[i] = "in_review" /\ columnOf'[i] = "approved"
        /\ Settles
    <3>0. PICK b \in {FALSE, db.feedback[i]} :
            db' = SavePhase([db EXCEPT !.feedback[i] = b], i, "approved")
      BY <1>2 DEF Approve
    <3> DEFINE d == [db EXCEPT !.feedback[i] = b]
    <3>1. Shaped(d) /\ d.phase = db.phase
      BY <1>1, <3>0, FeedbackWritten
    <3>2. /\ db.phase[i] \in InReviewPhases
          /\ db' = SavePhase(d, i, "approved")
          /\ UNCHANGED <<sess, turn, queue>>
      BY <1>2, <3>0 DEF Approve
    <3> HIDE DEF d
    <3> QED
      BY <2>1, <3>1, <3>2, Decision
  <2> QED
    BY <2>2 DEF B!Judge, BoardStepped, B!BoardNext
<1>3. CASE Rework(i)
  <2>1. "ready_for_rework" \in Phases /\ KanbanColumn("ready_for_rework") = "todo"
    BY ColumnPhases DEF Phases, TodoPhases
  <2>2. /\ DInv' /\ handOf' = handOf /\ B!OthersShift({i})
        /\ columnOf[i] = "in_review" /\ columnOf'[i] = "todo"
        /\ Settles
    <3>0. PICK b \in {TRUE, db.feedback[i]} :
            db' = SavePhase([db EXCEPT !.feedback[i] = b], i, "ready_for_rework")
      BY <1>3 DEF Rework
    <3> DEFINE d == [db EXCEPT !.feedback[i] = b]
    <3>1. Shaped(d) /\ d.phase = db.phase
      BY <1>1, <3>0, FeedbackWritten
    <3>2. /\ db.phase[i] \in InReviewPhases
          /\ db' = SavePhase(d, i, "ready_for_rework")
          /\ UNCHANGED <<sess, turn, queue>>
      BY <1>3, <3>0 DEF Rework
    <3> HIDE DEF d
    <3> QED
      BY <2>1, <3>1, <3>2, Decision
  <2> QED
    BY <2>2 DEF B!Judge, BoardStepped, B!BoardNext
<1>4. CASE HumanRejects(i)
  <2>1. "failed" \in Phases /\ KanbanColumn("failed") = "closed"
    BY ColumnPhases DEF Phases
  <2>2. /\ DInv' /\ handOf' = handOf /\ B!OthersShift({i})
        /\ columnOf[i] = "in_review" /\ columnOf'[i] = "closed"
        /\ Settles
    BY <1>1, <1>4, <2>1, Decision DEF HumanRejects
  <2> QED
    BY <2>2 DEF B!Judge, BoardStepped, B!BoardNext
<1> QED
  BY <1>2, <1>3, <1>4

\* An escalated item stays in review.
LEMMA EscalateStep ==
  ASSUME DInv, NEW i \in Items, EscalateToHuman(i)
  PROVE  DInv' /\ BoardStepped /\ Settles
<1>1. Shaped(db) /\ db.phase[i] \in InReviewPhases
  BY DEF DInv, EscalateToHuman, InReviewPhases
<1>2. "awaiting_human" \in Phases /\ KanbanColumn("awaiting_human") = "in_review"
  BY ColumnPhases DEF Phases, InReviewPhases
<1>3. /\ DInv' /\ handOf' = handOf /\ B!OthersShift({i})
      /\ columnOf[i] = "in_review" /\ columnOf'[i] = "in_review"
      /\ Settles
  <2>0. PICK b \in BOOLEAN :
          db' = SavePhase([db EXCEPT !.feedback[i] = b], i, "awaiting_human")
    BY DEF EscalateToHuman
  <2> DEFINE d == [db EXCEPT !.feedback[i] = b]
  <2>1. Shaped(d) /\ d.phase = db.phase
    BY <1>1, FeedbackWritten
  <2>2. db' = SavePhase(d, i, "awaiting_human") /\ UNCHANGED <<sess, turn, queue>>
    BY <2>0 DEF EscalateToHuman
  <2> HIDE DEF d
  <2> QED
    BY <1>1, <1>2, <2>1, <2>2, Decision
<1>4. B!OthersShift({})
  BY <1>3 DEF B!OthersShift, B!OnlyShifts
<1>5. B!Take
  BY <1>3, <1>4 DEF B!Take
<1> QED
  BY <1>3, <1>5, TakeStep

\* Outdating the turns in flight keeps them in flight.
LEMMA OutdateKeeps ==
  ASSUME DInv, NEW S, Outdate(S)
  PROVE  /\ turn' \in [Roles -> Turns]
         /\ \A r \in Roles : turn'[r].stage = "none" <=> turn[r].stage = "none"
<1>1. \A r \in Roles : turn'[r] \in Turns /\ turn'[r].stage = turn[r].stage
  BY DEF Outdate, DInv, Turns
<1>2. turn' \in [Roles -> Turns]
  BY <1>1 DEF Outdate
<1> QED
  BY <1>1, <1>2

\* The marks of a manager's edit write no phase.
LEMMA MutatedKeepsPhases ==
  ASSUME NEW d, Shaped(d), NEW S
  PROVE  /\ Shaped(Mutated(d, S))
         /\ Mutated(d, S).phase = d.phase
         /\ Mutated(d, S).hold = [j \in Items |-> d.hold[j] /\ j \notin S]
BY DEF Shaped, Fields, Mutated

\* Sent back to its worker, an item is among the cards to do.
LEMMA SentBack ==
  ASSUME NEW d, Shaped(d), NEW i \in Items, NEW e, Shaped(e),
         e.phase[i] \in RunnablePhases,
         \A j \in Items \ {i} : Shift(d, e, j)
  PROVE  /\ Shaped(RefreshDependents(e))
         /\ RefreshDependents(e).hold = e.hold
         /\ e.phase[i] = "ready_for_rework" => RefreshDependents(e).phase[i] = "ready_for_rework"
         /\ RefreshDependents(e).phase[i] \in TodoPhases
         /\ \A j \in Items \ {i} : Shift(d, RefreshDependents(e), j)
<1>1. RefreshDependents(e).phase[i] \in {e.phase[i], FrontierTarget(e, i)}
  BY RefreshKeepsPhases
<1>2. FrontierTarget(e, i) \in TodoPhases
  BY DEF FrontierTarget, Released, Held, RunnablePhases, TodoPhases
<1>3. \A j \in Items : Shift(e, RefreshDependents(e), j)
  BY RefreshShifts
<1>4. \A j \in Items \ {i} : Shift(d, RefreshDependents(e), j)
  BY <1>3, ShiftTransitive
<1>5. e.phase[i] = "ready_for_rework" => RefreshDependents(e).phase[i] = "ready_for_rework"
  BY RefreshShifts
<1> QED
  BY <1>1, <1>2, <1>4, <1>5, RefreshKeepsPhases DEF RunnablePhases, TodoPhases

\* A modified item is sent back, or shifts.
LEMMA ModifyStep ==
  ASSUME DInv, edits \in Nat, NEW i \in Items, NEW reset \in BOOLEAN, NEW deps \in NewDeps(i),
         ModifyWorkItem(i, reset, deps)
  PROVE  DInv' /\ BoardStepped /\ Settles
<1> DEFINE d    == [Mutated(db, {i}) EXCEPT !.deps[i] = deps]
           back == IF d.phase[i] \in InReviewPhases \cup {"ready_for_rework"}
                     THEN "ready_for_rework" ELSE "ready"
           e    == IF d.phase[i] = "approved" THEN ReopenApproved(d, i)
                   ELSE SavePhase(d, i, back)
<1>1. Shaped(db)
  BY DEF DInv
<1>2. Shaped(d) /\ d.phase = db.phase /\ ~d.hold[i]
  <2> DEFINE m == Mutated(db, {i})
  <2>1. Shaped(m) /\ m.phase = db.phase /\ ~m.hold[i]
    <3>1. /\ Shaped(m) /\ m.phase = db.phase
          /\ m.hold = [j \in Items |-> db.hold[j] /\ j \notin {i}]
      BY <1>1, MutatedKeepsPhases
    <3> HIDE DEF m
    <3> QED
      BY <3>1
  <2>2. d = [m EXCEPT !.deps[i] = deps]
    OBVIOUS
  <2> HIDE DEF m, d
  <2> QED
    BY <2>1, <2>2, DepsWritten
<1>3. /\ db.phase[i] \notin {Absent, "failed", "cancelled"}
      /\ db' = IF ~reset THEN d ELSE RefreshDependents(e)
      /\ Outdate({i})
      /\ UNCHANGED <<sess, queue>>
  BY DEF ModifyWorkItem
<1>4. /\ turn' \in [Roles -> Turns]
      /\ \A r \in Roles : turn'[r].stage = "none" <=> turn[r].stage = "none"
  BY <1>3, OutdateKeeps
<1>5. CASE ~reset
  <2>1. Shaped(db') /\ \A j \in Items : Shift(db, db', j)
    BY <1>2, <1>3, <1>5 DEF Shift
  <2> QED
    BY <2>1, <1>3, <1>4, EffectTake, TakeStep
<1>6. CASE reset
  <2> back \in Phases /\ back \in RunnablePhases
    BY DEF Phases, RunnablePhases
  <2> HIDE DEF d, back
  <2>1. /\ Shaped(e) /\ e.phase[i] \in RunnablePhases
        /\ d.phase[i] = "approved" => e.phase[i] = "ready_for_rework" /\ e.hold = d.hold
        /\ \A j \in Items \ {i} : Shift(d, e, j)
    <3>1. CASE d.phase[i] = "approved"
      <4> DEFINE f == [d EXCEPT !.phase[i] = "ready_for_rework", !.claim[i] = FALSE]
      <4>1. /\ Fields \subseteq DOMAIN f /\ f.phase = [d.phase EXCEPT ![i] = "ready_for_rework"]
            /\ f.hold = d.hold
        BY <1>2 DEF Shaped, Fields
      <4>2. "ready_for_rework" \in Phases \cap RunnablePhases
        BY DEF Phases, RunnablePhases
      <4>3. e = FireHooks(f, i)
        BY <3>1 DEF ReopenApproved
      <4> HIDE DEF f, e
      <4>4. Shaped(f) /\ f.phase[i] = "ready_for_rework" /\ \A j \in Items \ {i} : f.phase[j] = d.phase[j]
        BY <1>2, <4>1, <4>2 DEF Shaped
      <4>5. /\ Shaped(e) /\ e.phase[i] = f.phase[i] /\ e.hold = f.hold
            /\ \A j \in Items : Shift(f, e, j)
        BY <4>3, <4>4, FireHooksShift
      <4> QED
        BY <4>1, <4>2, <4>4, <4>5 DEF Shift
    <3>2. CASE d.phase[i] # "approved"
      <4>1. e = SavePhase(d, i, back)
        BY <3>2
      <4> HIDE DEF e
      <4> QED
        BY <1>2, <3>2, <4>1, SavePhaseShifts
    <3> QED
      BY <3>1, <3>2
  <2> HIDE DEF e
  <2>2. \A j \in Items \ {i} : Shift(db, e, j)
    BY <1>2, <2>1 DEF Shift
  <2>3. /\ Shaped(db') /\ db'.phase[i] \in TodoPhases /\ db'.hold = e.hold
        /\ e.phase[i] = "ready_for_rework" => db'.phase[i] = "ready_for_rework"
        /\ \A j \in Items \ {i} : Shift(db, db', j)
    BY <1>1, <1>3, <1>6, <2>1, <2>2, SentBack
  <2>4. db.phase[i] # Absent /\ db'.phase[i] # Absent
    BY <1>3, <2>3 DEF TodoPhases, Absent
  <2>5. DInv' /\ handOf' = handOf /\ B!OthersShift({i})
    BY <1>3, <1>4, <2>3, <2>4, Effects
  <2>6. columnOf[i] \in B!Live \cup {"approved"} /\ columnOf'[i] = "todo"
    <3>1. db.phase[i] \in TodoPhases \cup InProgressPhases \cup InReviewPhases \cup {"approved"}
      BY <1>1, <1>3 DEF Shaped, Phases, TodoPhases, InProgressPhases, InReviewPhases
    <3> QED
      BY <3>1, <2>3, ColumnPhases DEF columnOf, B!Live, B!Open
  <2>7. B!SendBack(i)
    BY <2>5, <2>6 DEF B!SendBack
  <2>8. Settles
    <3>1. edits' < edits
      BY DEF ModifyWorkItem
    <3>2. \A j \in {i} : \/ db.phase[j] \notin DonePhases
                         \/ /\ db.phase[j] = "approved"
                            /\ db'.phase[j] = "ready_for_rework" /\ edits' < edits
                            /\ ~db'.hold[j]
      BY <1>2, <1>3, <2>1, <2>3, <3>1 DEF DonePhases
    <3> QED
      BY <2>3, <3>2, Settled
  <2> QED
    BY <2>5, <2>7, <2>8 DEF BoardStepped, B!BoardNext
<1> QED
  BY <1>5, <1>6

\* A cancellation writes the unfinished items of its set only.
LEMMA CancelledPhases ==
  ASSUME NEW d, Shaped(d), NEW S
  PROVE  /\ Shaped(Cancelled(d, S))
         /\ Cancelled(d, S).phase = [j \in Items |-> IF j \in S /\ d.phase[j] \notin DonePhases
                                                      THEN "cancelled" ELSE d.phase[j]]
<1> DEFINE e == Cancelled(d, S)
<1>1. /\ Fields \subseteq DOMAIN e
      /\ e.phase = [j \in Items |-> IF j \in S /\ d.phase[j] \notin DonePhases
                                      THEN "cancelled" ELSE d.phase[j]]
  BY DEF Shaped, Fields, Cancelled
<1>2. "cancelled" \in Phases
  BY DEF Phases
<1> HIDE DEF e
<1>3. Shaped(e)
  BY <1>1, <1>2 DEF Shaped
<1> QED
  BY <1>1, <1>3 DEF e

\* A deletion withdraws the live items of the subtree.
LEMMA DeleteStep ==
  ASSUME DInv, NEW i \in Items, DeleteWorkItem(i)
  PROVE  DInv' /\ BoardStepped /\ Settles
<1> DEFINE S       == Subtree(db, i)
           live    == {j \in S : db.phase[j] \notin DonePhases}
           gone    == Cancelled(Mutated(db, S), S)
           hooked  == IF live = {} THEN gone
                      ELSE Reconcile(RefreshDependents(gone), {Owner[j] : j \in live})
           cut     == [hooked EXCEPT !.deps = [j \in Items |-> @[j] \ {i}]]
           woken   == {j \in Items : /\ i \in hooked.deps[j] /\ cut.deps[j] = {}
                                     /\ cut.phase[j] \in {"waiting_dependencies",
                                                          "waiting_for_children"}}
           freed   == [cut EXCEPT !.claim = [j \in Items |-> @[j] /\ j \notin woken]]
           ready   == SaveReady(freed, woken)
<1>1. /\ db' = RefreshDependents(ready)
      /\ Outdate(S)
      /\ UNCHANGED <<sess, queue>>
  BY DEF DeleteWorkItem
<1>2. Shaped(db)
  BY DEF DInv
<1>3. S \subseteq Items /\ \A j \in S : db.phase[j] # Absent
  BY DEF Subtree, Created
<1>4. /\ turn' \in [Roles -> Turns]
      /\ \A r \in Roles : turn'[r].stage = "none" <=> turn[r].stage = "none"
  BY <1>1, OutdateKeeps
<1> HIDE DEF S
<1>5. /\ Shaped(gone)
      /\ gone.phase = [j \in Items |-> IF j \in live THEN "cancelled" ELSE db.phase[j]]
  <2> DEFINE m == Mutated(db, S)
  <2>1. Shaped(m) /\ m.phase = db.phase
    BY <1>2, MutatedKeepsPhases
  <2>2. gone = Cancelled(m, S)
    OBVIOUS
  <2> HIDE DEF m, gone
  <2> QED
    BY <2>1, <2>2, CancelledPhases
<1> HIDE DEF gone
<1>6. /\ Shaped(hooked)
      /\ \A j \in Items : Shift(gone, hooked, j)
      /\ \A j \in live : hooked.phase[j] = "cancelled"
  <2>1. \A j \in live : gone.phase[j] = "cancelled"
    BY <1>3, <1>5
  <2>2. CASE live = {}
    BY <1>5, <2>2 DEF Shift
  <2>3. CASE live # {}
    <3>1. /\ Shaped(RefreshDependents(gone))
          /\ \A j \in Items : Shift(gone, RefreshDependents(gone), j)
          /\ \A j \in live : RefreshDependents(gone).phase[j] = "cancelled"
      BY <1>3, <1>5, <2>1, RefreshKeepsPhases, RefreshShifts
    <3> QED
      BY <2>3, <3>1, ReconcileKeepsPhases DEF Shift
  <2> QED
    BY <2>2, <2>3
<1> HIDE DEF hooked
<1>7. Shaped(cut) /\ cut.phase = hooked.phase
  BY <1>6 DEF Shaped, Fields
<1>8. woken \subseteq {j \in Items : cut.phase[j] \in {"waiting_dependencies", "waiting_for_children"}}
  OBVIOUS
<1> HIDE DEF woken, cut
<1>9. Shaped(freed) /\ freed.phase = cut.phase
  BY <1>7 DEF Shaped, Fields
<1> HIDE DEF freed
<1>10. /\ Shaped(ready)
       /\ \A j \in Items : ready.phase[j] = IF j \in woken THEN "ready" ELSE freed.phase[j]
  <2>1. Shaped(ready) /\ ready.phase = [j \in Items |-> IF j \in woken THEN "ready" ELSE freed.phase[j]]
    BY <1>9, SaveReadyWrites
  <2> HIDE DEF ready
  <2> QED
    BY <2>1
<1>11. /\ \A j \in Items : Shift(hooked, ready, j)
       /\ \A j \in live : ready.phase[j] = "cancelled"
  <2>1. \A j \in Items : j \in woken =>
          freed.phase[j] \in TodoPhases \cup InProgressPhases
    BY <1>8, <1>9 DEF TodoPhases, InProgressPhases
  <2>2. KanbanColumn("ready") = "todo"
    BY ColumnPhases DEF TodoPhases
  <2>3. \A j \in Items : Shift(hooked, ready, j)
    BY <1>7, <1>9, <1>10, <2>1, <2>2, ColumnPhases DEF Shift, B!Open
  <2>4. \A j \in live : j \in Items /\ j \notin woken
    BY <1>3, <1>6, <1>7, <1>8
  <2> QED
    BY <1>6, <1>7, <1>9, <1>10, <2>3, <2>4
<1> HIDE DEF ready
<1>12. /\ Shaped(db')
       /\ \A j \in Items : Shift(ready, db', j)
       /\ \A j \in live : db'.phase[j] = "cancelled"
  BY <1>1, <1>3, <1>10, <1>11, RefreshKeepsPhases, RefreshShifts
<1>13. \A j \in Items \ live : Shift(db, db', j)
  <2>1. \A j \in Items \ live : gone.phase[j] = db.phase[j]
    BY <1>5
  <2> QED
    BY <2>1, <1>6, <1>11, <1>12 DEF Shift
<1>14. \A j \in live : db.phase[j] # Absent /\ db'.phase[j] # Absent
  BY <1>3, <1>12 DEF Absent
<1>15. live \in SUBSET Items
  BY <1>3
<1>16. DInv' /\ handOf' = handOf /\ B!OthersShift(live)
  <2> HIDE DEF live
  <2> QED
    BY <1>1, <1>4, <1>12, <1>13, <1>14, <1>15, Effects
<1>17. \A j \in live : columnOf[j] \in B!Live /\ columnOf'[j] = "closed"
  <2>1. \A j \in live : db.phase[j] \in TodoPhases \cup InProgressPhases \cup InReviewPhases
    BY <1>2, <1>3
       DEF Shaped, Phases, DonePhases, TodoPhases, InProgressPhases, InReviewPhases
  <2> QED
    BY <1>12, <1>15, <2>1, ColumnPhases DEF columnOf, B!Live, B!Open
<1>18. B!Withdraw(live)
  BY <1>16, <1>17 DEF B!Withdraw
<1>19. \A j \in live : db.phase[j] \notin DonePhases
  OBVIOUS
<1> HIDE DEF live
<1>20. Settles
  BY <1>13, <1>19, Settled
<1> QED
  BY <1>15, <1>16, <1>18, <1>20 DEF BoardStepped, B!BoardNext

\* The first claimable entry of a queue is one of its claimable entries.
LEMMA FirstIsClaimable ==
  ASSUME NEW d, NEW X, NEW q \in Seq(X), Claimable(d, q) # {}
  PROVE  FirstClaimable(d, q) \in Claimable(d, q)
<1> DEFINE T == Claimable(d, q)
<1>1. T \subseteq Nat /\ \A k \in T : k \in Nat
  <2>1. DOMAIN q = 1..Len(q) /\ Len(q) \in Nat
    BY LenProperties
  <2> QED
    BY <2>1 DEF Claimable
<1> HIDE DEF T
<1>2. \E k \in T : \A m \in T : ~(<<m, k>> \in OpToRel(<, Nat))
  BY <1>1, NatLessThanWellFounded, WFMin DEF T
<1>3. \E k \in T : \A m \in T : k <= m
  <2>1. PICK k \in T : \A m \in T : ~(<<m, k>> \in OpToRel(<, Nat))
    BY <1>2
  <2>2. \A m \in T : ~(m < k)
    BY <1>1, <2>1 DEF OpToRel
  <2>3. \A m \in T : k <= m
    BY <1>1, <2>2
  <2> QED
    BY <2>3
<1> QED
  BY <1>3 DEF FirstClaimable, T

\* A role queues its own items only.
LEMMA EnqueuedOwned ==
  ASSUME DInv, NEW d, NEW r \in Roles
  PROVE  Enqueued(d, r) \in Seq(OwnedBy(r))
<1> DEFINE N == {i \in Items : /\ Owner[i] = r
                               /\ Runnable(d, i)
                               /\ Dispatchable(d, i)
                               /\ i \notin Range(queue[r])}
<1>1. N \in SUBSET Items /\ N \subseteq OwnedBy(r)
  BY DEF OwnedBy
<1>2. Enqueued(d, r) = queue[r] \o InCreationOrder(N)
  BY DEF Enqueued
<1> HIDE DEF N
<1>3. InCreationOrder(N) \in Seq(N)
  BY <1>1, CreationOrder
<1>4. InCreationOrder(N) \in Seq(OwnedBy(r))
  BY <1>1, <1>3, SeqMonotonic
<1>5. queue[r] \in Seq(OwnedBy(r))
  BY DEF DInv
<1> QED
  BY <1>2, <1>4, <1>5, ConcatProperties

\* Items released from waiting stay among the open ones.
LEMMA ReleaseShifts ==
  ASSUME NEW d, Shaped(d), NEW S,
         \A i \in S : i \in Items => d.phase[i] \in {"waiting_for_peer", "waiting_dependencies"}
  PROVE  /\ Shaped(SaveReady(d, S))
         /\ \A j \in Items : Shift(d, SaveReady(d, S), j)
<1>1. /\ Shaped(SaveReady(d, S))
      /\ SaveReady(d, S).phase = [i \in Items |-> IF i \in S THEN "ready" ELSE d.phase[i]]
  BY SaveReadyWrites
<1>2. KanbanColumn("ready") = "todo"
  BY ColumnPhases DEF TodoPhases
<1>3. \A i \in S : i \in Items => d.phase[i] \in TodoPhases \cup InProgressPhases
  BY DEF TodoPhases, InProgressPhases
<1> QED
  BY <1>1, <1>2, <1>3, ColumnPhases DEF Shift, B!Open

\* What a tick releases shifts, also if it raises after some of the items.
LEMMA TickReleases ==
  ASSUME DInv, NEW due \in SUBSET Satisfied(db)
  PROVE  /\ Shaped(SaveReady(SaveReady(db, Unparkable(db)), due))
         /\ \A j \in Items : Shift(db, SaveReady(SaveReady(db, Unparkable(db)), due), j)
<1> DEFINE unparked == SaveReady(db, Unparkable(db))
<1>1. Shaped(db)
  BY DEF DInv
<1>2. \A i \in Unparkable(db) : db.phase[i] = "waiting_for_peer"
  BY DEF Unparkable
<1>3. /\ Shaped(unparked)
      /\ \A j \in Items : Shift(db, unparked, j)
  BY <1>1, <1>2, ReleaseShifts
<1>4. \A i \in due : i \in Items /\ unparked.phase[i] = "waiting_dependencies"
  <2>1. unparked.phase = [i \in Items |-> IF i \in Unparkable(db) THEN "ready" ELSE db.phase[i]]
    BY <1>1, SaveReadyWrites
  <2>2. \A i \in due : i \in Items /\ db.phase[i] = "waiting_dependencies"
    BY DEF Satisfied
  <2> HIDE DEF unparked
  <2> QED
    BY <1>2, <2>1, <2>2
<1> HIDE DEF unparked
<1>5. /\ Shaped(SaveReady(unparked, due))
      /\ \A j \in Items : Shift(unparked, SaveReady(unparked, due), j)
  BY <1>3, <1>4, ReleaseShifts
<1>6. \A j \in Items : Shift(db, SaveReady(unparked, due), j)
  BY <1>3, <1>5, ShiftTransitive
<1> QED
  BY <1>5, <1>6 DEF unparked

\* A tick that raises shifts the items it released.
LEMMA TickRaisesStep ==
  ASSUME DInv, TickRaises
  PROVE  DInv' /\ BoardStepped /\ Settles
<1> DEFINE due == {i \in Satisfied(db) : \A j \in Satisfied(db) : db.feedback[j] => i < j}
<1>1. Shaped(db') /\ \A j \in Items : Shift(db, db', j)
  <2>1. db' = SaveReady(SaveReady(db, Unparkable(db)), due)
    BY DEF TickRaises
  <2>2. due \in SUBSET Satisfied(db)
    OBVIOUS
  <2> HIDE DEF due
  <2> QED
    BY <2>1, <2>2, TickReleases
<1>2. UNCHANGED <<sess, turn, queue>>
  BY DEF TickRaises
<1>3. turn' \in [Roles -> Turns] /\ \A r \in Roles : turn'[r].stage = "none" <=> turn[r].stage = "none"
  BY <1>2 DEF DInv
<1> QED
  BY <1>1, <1>2, <1>3, EffectTake, TakeStep

\* The claims of a tick shift the items they take, and leave those in review.
LEMMA ClaimsShift ==
  ASSUME NEW d, Shaped(d), NEW C,
         \A r \in DOMAIN C : C[r] \in Items /\ Dispatchable(d, C[r])
  PROVE  /\ Shaped(WriteClaims(d, C))
         /\ \A j \in Items : Shift(d, WriteClaims(d, C), j)
<1> DEFINE taken == {C[r] : r \in DOMAIN C}
           e     == WriteClaims(d, C)
<1>1. /\ Fields \subseteq DOMAIN e
      /\ e.phase = [i \in Items |-> IF i \in taken /\ d.phase[i] \notin InReviewPhases
                                      THEN "running" ELSE d.phase[i]]
  BY DEF Shaped, Fields, WriteClaims
<1>2. "running" \in Phases /\ KanbanColumn("running") = "in_progress"
  BY ColumnPhases DEF Phases, InProgressPhases
<1>3. \A i \in taken : i \in Items /\ d.phase[i] \in RunnablePhases \cup ResumablePhases
  BY DEF Dispatchable, Orphaned
<1>4. \A i \in taken : d.phase[i] \in TodoPhases \cup InProgressPhases \cup InReviewPhases
  BY <1>3 DEF RunnablePhases, ResumablePhases, TodoPhases
<1> HIDE DEF e, taken
<1>5. Shaped(e)
  BY <1>1, <1>2 DEF Shaped
<1>6. \A j \in Items : Shift(d, e, j)
  BY <1>1, <1>2, <1>4, ColumnPhases DEF Shift, B!Open
<1> QED
  BY <1>5, <1>6 DEF e

\* A tick shifts what it releases, and idle roles take live items of theirs.
LEMMA TickStep ==
  ASSUME DInv, Tick
  PROVE  DInv' /\ BoardStepped /\ Settles
<1> DEFINE released == SaveReady(SaveReady(db, Unparkable(db)), Satisfied(db))
           d        == Reconcile(released, Roles)
           q        == [r \in Roles |-> Enqueued(d, r)]
           s        == [r \in Roles |-> Rehydrated(d, sess[r])]
           free     == {r \in Roles : s[r].status = "idle"}
           able     == {r \in free : Claimable(d, q[r]) # {}}
           claim    == [r \in able |-> q[r][FirstClaimable(d, q[r])]]
<1>1. /\ db' = WriteClaims(d, claim)
      /\ sess' = [r \in Roles |-> IF r \in able THEN [status |-> "running", item |-> claim[r]]
                                  ELSE s[r]]
      /\ turn' = [r \in Roles |-> IF r \in able THEN [NoTurn EXCEPT !.stage = "claimed"]
                                  ELSE turn[r]]
      /\ queue' = [r \in Roles |->
                     IF r \in able THEN SubSeq(q[r], FirstClaimable(d, q[r]) + 1, Len(q[r]))
                     ELSE IF r \in free THEN << >> ELSE q[r]]
  <2>1. ClaimWork(d, q, s)
    BY DEF Tick
  <2> HIDE DEF d, q, s
  <2> QED
    BY <2>1 DEF ClaimWork
<1>2. Shaped(d) /\ \A j \in Items : Shift(db, d, j)
  <2>1. Shaped(released) /\ \A j \in Items : Shift(db, released, j)
    BY TickReleases
  <2> HIDE DEF released
  <2> QED
    BY <2>1, ReconcileKeepsPhases DEF Shift
<1> HIDE DEF d
<1>3. \A r \in Roles : q[r] \in Seq(OwnedBy(r))
  BY EnqueuedOwned
<1>4. \A r \in Roles : s[r] \in Sessions /\ (sess[r].status = "running" => s[r] = sess[r])
                       /\ s[r] \in {Idle, sess[r]}
  BY DEF Rehydrated, Idle, Sessions, DInv
<1> HIDE DEF q, s
<1>5. \A r \in able : /\ r \in Roles
                      /\ FirstClaimable(d, q[r]) \in 1..Len(q[r])
                      /\ claim[r] \in OwnedBy(r)
                      /\ Dispatchable(d, claim[r])
  <2>1. TAKE r \in able
  <2>2. r \in Roles /\ Claimable(d, q[r]) # {} /\ q[r] \in Seq(OwnedBy(r))
    BY <1>3
  <2>3. FirstClaimable(d, q[r]) \in Claimable(d, q[r])
    BY <2>2, FirstIsClaimable
  <2>4. DOMAIN q[r] = 1..Len(q[r])
    BY <2>2, LenProperties
  <2>5. FirstClaimable(d, q[r]) \in 1..Len(q[r]) /\ Dispatchable(d, q[r][FirstClaimable(d, q[r])])
    BY <2>3, <2>4 DEF Claimable
  <2>6. q[r][FirstClaimable(d, q[r])] \in OwnedBy(r)
    BY <2>2, <2>5, ElementOfSeq
  <2> QED
    BY <2>2, <2>5, <2>6
<1>6. \A r \in able : claim[r] \in Items /\ Owner[claim[r]] = r
  BY <1>5 DEF OwnedBy
<1>7. /\ Shaped(db')
      /\ \A j \in Items : Shift(d, db', j)
  <2>1. DOMAIN claim = able
    OBVIOUS
  <2> HIDE DEF claim
  <2> QED
    BY <1>1, <1>2, <1>5, <1>6, <2>1, ClaimsShift
<1>8. \A j \in Items : Shift(db, db', j)
  BY <1>2, <1>7, ShiftTransitive
<1>9. Created(db') = Created(db)
  <2> DEFINE none == {}
  <2>1. \A j \in Items \ none : Shift(db, db', j)
    BY <1>8
  <2>2. \A j \in none : db.phase[j] # Absent /\ db'.phase[j] # Absent
    OBVIOUS
  <2> HIDE DEF none
  <2> QED
    BY <2>1, <2>2, CreatedKept
<1>10. \A r \in able : ~InFlight(r) /\ InFlight(r)' /\ sess'[r] = [status |-> "running", item |-> claim[r]]
  <2>1. TAKE r \in able
  <2>2. r \in Roles /\ s[r].status = "idle"
    OBVIOUS
  <2>3. sess[r].status # "running"
    BY <1>4, <2>2
  <2>4. ~InFlight(r)
    BY <2>2, <2>3 DEF DInv
  <2>5. turn'[r].stage = "claimed" /\ sess'[r] = [status |-> "running", item |-> claim[r]]
    BY <1>1, <2>2 DEF NoTurn
  <2> QED
    BY <2>4, <2>5 DEF InFlight
<1>11. \A r \in Roles \ able : /\ InFlight(r)' = InFlight(r)
                               /\ sess'[r] = s[r]
                               /\ InFlight(r) => sess'[r] = sess[r]
  BY <1>1, <1>4 DEF InFlight, DInv
<1>12. \A r \in able : /\ db.phase[claim[r]] # Absent
                       /\ columnOf[claim[r]] \in B!Live
                       /\ claim[r] \in Created(db)
  <2>1. TAKE r \in able
  <2>2. claim[r] \in Items /\ d.phase[claim[r]] \in RunnablePhases \cup ResumablePhases
    BY <1>5, <1>6 DEF Dispatchable, Orphaned
  <2>3. d.phase[claim[r]] \in TodoPhases \cup InProgressPhases \cup InReviewPhases
    BY <2>2 DEF RunnablePhases, ResumablePhases, TodoPhases
  <2> HIDE DEF claim
  <2>4. KanbanColumn(d.phase[claim[r]]) \in B!Live
    BY <2>3, ColumnPhases DEF B!Live, B!Open
  <2>5. KanbanColumn(db.phase[claim[r]]) \in B!Live
    BY <1>2, <2>2, <2>4 DEF Shift, B!Live
  <2>6. db.phase[claim[r]] # Absent
    BY <2>5, ColumnPhases DEF B!Live, B!Open
  <2> QED
    BY <2>2, <2>5, <2>6 DEF columnOf, Created
<1>13. DInv'
  <2>1. sess' \in [Roles -> Sessions]
    <3>1. \A r \in Roles : sess'[r] \in Sessions
      <4> HIDE DEF claim, able
      <4> QED
        BY <1>1, <1>4, <1>6 DEF Sessions
    <3> QED
      BY <1>1, <3>1
  <2>2. turn' \in [Roles -> Turns]
    BY <1>1 DEF DInv, Turns, NoTurn
  <2>3. \A r \in Roles : queue'[r] \in Seq(OwnedBy(r))
    <3>1. TAKE r \in Roles
    <3>2. q[r] \in Seq(OwnedBy(r))
      BY <1>3
    <3>3. CASE r \in able
      <4> DEFINE k == FirstClaimable(d, q[r])
      <4>1. k \in 1..Len(q[r]) /\ Len(q[r]) \in Nat
        BY <1>5, <3>2, <3>3, LenProperties
      <4>2. queue'[r] = SubSeq(q[r], k + 1, Len(q[r]))
        BY <1>1, <3>3
      <4>3. \A j \in (k + 1)..Len(q[r]) : q[r][j] \in OwnedBy(r)
        <5>1. TAKE j \in (k + 1)..Len(q[r])
        <5> HIDE DEF k
        <5>2. j \in 1..Len(q[r])
          BY <4>1
        <5> QED
          BY <3>2, <5>2, ElementOfSeq
      <4> HIDE DEF k
      <4>4. k + 1 \in Int /\ Len(q[r]) \in Int
        BY <4>1
      <4> QED
        BY <4>2, <4>3, <4>4, SubSeqProperties
    <3>4. CASE r \notin able /\ r \in free
      BY <1>1, <3>4, EmptySeq
    <3>5. CASE r \notin able /\ r \notin free
      BY <1>1, <3>2, <3>5
    <3> QED
      BY <3>3, <3>4, <3>5
  <2>4. \A r \in Roles : InFlight(r)' => /\ sess'[r].status = "running"
                                         /\ sess'[r].item \in Created(db')
    <3>1. TAKE r \in Roles
    <3>2. CASE r \in able
      <4> HIDE DEF claim, able
      <4>1. sess'[r] = [status |-> "running", item |-> claim[r]]
        BY <1>10, <3>2
      <4> QED
        BY <1>9, <1>12, <3>2, <4>1
    <3>3. CASE r \notin able
      BY <1>9, <1>11, <3>3 DEF DInv
    <3> QED
      BY <3>2, <3>3
  <2> QED
    BY <1>7, <1>9, <2>1, <2>2, <2>3, <2>4 DEF DInv
<1>14. \A r \in Roles : handOf'[r] # handOf[r] =>
         /\ handOf[r] = NoItem
         /\ handOf'[r] \in Items /\ Owner[handOf'[r]] = r
         /\ columnOf[handOf'[r]] \in B!Live
  <2>1. TAKE r \in Roles
  <2>2. CASE r \in able
    <3>1. handOf'[r] = claim[r] /\ handOf[r] = NoItem
      <4> HIDE DEF claim, able
      <4>1. InFlight(r)' /\ ~InFlight(r) /\ sess'[r] = [status |-> "running", item |-> claim[r]]
        BY <1>10, <2>2 DEF InFlight
      <4>2. handOf'[r] = sess'[r].item /\ handOf[r] = NoItem
        BY <4>1 DEF handOf
      <4> QED
        BY <4>1, <4>2
    <3> HIDE DEF claim
    <3> QED
      BY <1>6, <1>12, <2>2, <3>1
  <2>3. CASE r \notin able
    BY <1>11, <2>3 DEF handOf
  <2> QED
    BY <2>2, <2>3
<1>15. B!OthersShift({})
  BY <1>8 DEF B!OthersShift, B!OnlyShifts, columnOf, Shift
<1>16. B!Take
  BY <1>14, <1>15 DEF B!Take
<1>17. Settles
  BY <1>8, Settled
<1> QED
  BY <1>13, <1>16, <1>17, TakeStep

\* The invariant holds at first, and the board starts as it should.
LEMMA InitDInv == Init => DInv /\ B!BoardInit
<1> SUFFICES ASSUME Init PROVE DInv /\ B!BoardInit
  OBVIOUS
<1>1. 1 \in Items /\ Root = 1
  BY MaxItemsAssumption DEF Items, Root
<1>2. /\ db.phase = [i \in Items |-> IF i = Root THEN "ready" ELSE Absent]
      /\ Fields \subseteq DOMAIN db
      /\ sess = [r \in Roles |-> Idle]
      /\ turn = [r \in Roles |-> NoTurn]
      /\ queue = [r \in Roles |-> << >>]
  BY DEF Init, Fields
<1>3. Shaped(db)
  BY <1>2 DEF Shaped, Phases
<1>4. Created(db) = 1..1
  <2>1. Created(db) = {1}
    BY <1>1, <1>2 DEF Created, Absent
  <2> QED
    BY <2>1
<1>5. \A r \in Roles : ~InFlight(r)
  BY <1>2 DEF InFlight, NoTurn
<1>6. DInv
  BY <1>2, <1>3, <1>4, <1>5, EmptySeq DEF DInv, Idle, NoTurn, Sessions, Turns
<1>7. B!BoardInit
  <2>1. columnOf = [c \in Items |-> IF c = Root THEN "todo" ELSE "absent"]
    <3>1. KanbanColumn("ready") = "todo" /\ KanbanColumn(Absent) = "absent"
      BY ColumnPhases DEF TodoPhases
    <3> QED
      BY <1>2, <3>1 DEF columnOf
  <2>2. handOf = [r \in Roles |-> NoItem]
    BY <1>5 DEF handOf
  <2> QED
    BY <2>1, <2>2 DEF B!BoardInit
<1> QED
  BY <1>6, <1>7

\* Every step of the dispatcher preserves the invariant, is a step of the
\* board or none, and moves no finished item that is not reopened.
LEMMA NextDInv ==
  ASSUME DInv, edits \in Nat, [Next]_vars
  PROVE  DInv' /\ BoardStepped /\ Settles
<1>1. CASE UNCHANGED vars
  <2>1. UNCHANGED <<db, sess, turn, queue>>
    BY <1>1 DEF vars
  <2>2. DInv'
    BY <2>1 DEF DInv, InFlight
  <2>3. UNCHANGED <<columnOf, handOf>>
    BY <2>1 DEF columnOf, handOf, InFlight
  <2> QED
    BY <2>1, <2>2, <2>3 DEF BoardStepped, B!boardVars, Settles, StaysFinished
<1>2. CASE Tick
  BY <1>2, TickStep
<1>3. CASE TickRaises
  BY <1>3, TickRaisesStep
<1>4. ASSUME NEW r \in Roles, TurnStep(r) PROVE DInv' /\ BoardStepped /\ Settles
  <2>1. CASE StartTurn(r)
    BY <2>1, StartTurnStep
  <2>2. CASE Delegate(r)
    BY <2>2, DelegateStep
  <2>3. CASE DropStaleResult(r) \/ TurnReturnsFailure(r)
    BY <2>3, SilentEndStep DEF DropStaleResult, TurnReturnsFailure
  <2>4. CASE ParkForPeer(r)
    BY <2>4, ParkForPeerStep
  <2>5. CASE ParkForChildren(r)
    BY <2>5, ParkForChildrenStep
  <2>6. CASE FinishWork(r)
    BY <2>6, FinishWorkStep
  <2>7. CASE TurnTimesOut(r)
    BY <2>7, TurnTimesOutStep
  <2>8. CASE CompleteClaim(r)
    BY <2>8, CompleteClaimStep
  <2> QED
    BY <1>4, <2>1, <2>2, <2>3, <2>4, <2>5, <2>6, <2>7, <2>8 DEF TurnStep, TurnGoesOn
<1>5. ASSUME NEW i \in Items, BoardStep(i) PROVE DInv' /\ BoardStepped /\ Settles
  <2>1. CASE PeerReplies(i)
    BY <2>1, PeerRepliesStep
  <2>2. CASE Approve(i) \/ Rework(i) \/ HumanRejects(i)
    BY <2>2, JudgeStep
  <2>3. CASE EscalateToHuman(i)
    BY <2>3, EscalateStep
  <2>4. CASE \E reset \in BOOLEAN, deps \in NewDeps(i) : ModifyWorkItem(i, reset, deps)
    BY <2>4, ModifyStep
  <2>5. CASE DeleteWorkItem(i)
    BY <2>5, DeleteStep
  <2> QED
    BY <1>5, <2>1, <2>2, <2>3, <2>4, <2>5 DEF BoardStep
<1> QED
  BY <1>1, <1>2, <1>3, <1>4, <1>5 DEF Next

-----------------------------------------------------------------------------

\* The invariant with the edits left, which reopening takes from.
CountedInv == DInv /\ edits \in Nat

\* Every step leaves the edits that are left alone, or takes one of them.
LEMMA EditsCounted ==
  ASSUME edits \in Nat, [Next]_vars
  PROVE  edits' \in 0..edits
<1>1. CASE UNCHANGED vars
  BY <1>1 DEF vars
<1>2. CASE Tick \/ TickRaises
  BY <1>2 DEF Tick, TickRaises
<1>3. ASSUME NEW r \in Roles, TurnStep(r) PROVE edits' \in 0..edits
  <2>1. CASE \E d, parks : EndTurn(r, d, parks)
    BY <2>1 DEF EndTurn
  <2>2. CASE StartTurn(r)
    BY <2>2 DEF StartTurn
  <2>3. CASE Delegate(r)
    <3>1. edits' = edits
      BY <2>3 DEF Delegate
    <3> QED
      BY <3>1
  <2>4. CASE CompleteClaim(r)
    BY <2>4 DEF CompleteClaim
  <2> QED
    BY <1>3, <2>1, <2>2, <2>3, <2>4
    DEF TurnStep, TurnGoesOn, DropStaleResult, ParkForPeer, ParkForChildren, FinishWork,
        TurnTimesOut, TurnReturnsFailure
<1>4. ASSUME NEW i \in Items, BoardStep(i) PROVE edits' \in 0..edits
  <2>1. CASE PeerReplies(i) \/ Approve(i) \/ Rework(i) \/ EscalateToHuman(i) \/ HumanRejects(i)
    BY <2>1 DEF PeerReplies, Approve, Rework, EscalateToHuman, HumanRejects
  <2>2. CASE \E reset \in BOOLEAN, deps \in NewDeps(i) : ModifyWorkItem(i, reset, deps)
    BY <2>2 DEF ModifyWorkItem
  <2>3. CASE DeleteWorkItem(i)
    <3>1. edits > 0 /\ edits' = edits - 1
      BY <2>3 DEF DeleteWorkItem
    <3> QED
      BY <3>1
  <2> QED
    BY <1>4, <2>1, <2>2, <2>3 DEF BoardStep
<1> QED
  BY <1>1, <1>2, <1>3, <1>4 DEF Next

(***************************************************************************)
(* The created items stay an initial segment, and no turn is in flight at  *)
(* an item that does not exist or without its session being busy, however  *)
(* the loop, the turns, the reviewers and the edits interleave.            *)
(***************************************************************************)
THEOREM BoardInvariant == Spec => []CountedInv
<1>1. Init => CountedInv
  BY InitDInv, MaxEditsAssumption DEF Init, CountedInv
<1>2. CountedInv /\ [Next]_vars => CountedInv'
  BY NextDInv, EditsCounted DEF CountedInv
<1> QED
  BY <1>1, <1>2, PTL DEF Spec

(***************************************************************************)
(* Every behaviour of the dispatcher is, on the kanban board, a behaviour  *)
(* of Board: work leaves the columns of work only through the hand of its  *)
(* role, a decision in review or a withdrawal, a role has one card in hand *)
(* at most, and what is closed stays closed.                               *)
(***************************************************************************)
THEOREM DispatcherImplementsBoard == Spec => ImplementsBoard
<1>1. Init => B!BoardInit
  BY InitDInv
<1>2. CountedInv /\ [Next]_vars => [B!BoardNext]_(B!boardVars)
  BY NextDInv DEF CountedInv, BoardStepped
<1>3. Spec => []CountedInv
  BY BoardInvariant
<1> QED
  BY <1>1, <1>2, <1>3, PTL DEF Spec, ImplementsBoard, B!BoardSpec

(***************************************************************************)
(* Late turns, refreshes, stale queue entries and claims never move an     *)
(* item that is finished; an approved one costs an edit to be reopened.    *)
(***************************************************************************)
THEOREM FinishedWorkStaysFinished == Spec => FinishedStaysFinished
<1>1. CountedInv /\ [Next]_vars => [StaysFinished]_vars
  BY NextDInv DEF CountedInv, Settles
<1>2. Spec => []CountedInv
  BY BoardInvariant
<1> QED
  BY <1>1, <1>2, PTL DEF Spec, FinishedStaysFinished


-----------------------------------------------------------------------------
(* The serial queues hold items *)

\* The entries of a queue at some of its positions are what stands there.
LEMMA EntriesChosen ==
  ASSUME NEW T, NEW q \in Seq(T), NEW K \in SUBSET DOMAIN q, NEW U, \A k \in K : q[k] \in U
  PROVE  EntriesAt(q, K) \in Seq(U)
<1>1. Len(q) \in Nat /\ DOMAIN q = 1..Len(q)
  BY LenProperties
<1>2. InCreationOrder(K) \in Seq(K) /\ Cardinality(K) \in Nat
  BY <1>1, NumbersInOrder, NumberSets
<1>3. \A n \in 1..Cardinality(K) : InCreationOrder(K)[n] \in K
  <2>1. DOMAIN InCreationOrder(K) = 1..Cardinality(K)
    BY DEF InCreationOrder
  <2>2. Len(InCreationOrder(K)) = Cardinality(K)
    BY <1>2, <2>1, LenProperties
  <2> QED
    BY <1>2, <2>2, ElementOfSeq
<1>4. \A n \in 1..Cardinality(K) : q[InCreationOrder(K)[n]] \in U
  BY <1>3
<1>5. EntriesAt(q, K) \in [1..Cardinality(K) -> U]
  BY <1>4 DEF EntriesAt
<1>6. ASSUME NEW n \in Nat, NEW f \in [1..n -> U] PROVE f \in Seq(U)
  OBVIOUS
<1> QED
  BY <1>2, <1>5, <1>6

\* They are of its kind.
LEMMA EntriesStay ==
  ASSUME NEW T, NEW q \in Seq(T), NEW K \in SUBSET DOMAIN q
  PROVE  EntriesAt(q, K) \in Seq(T)
<1>1. \A k \in K : q[k] \in T
  BY LenProperties, ElementOfSeq
<1> QED
  BY <1>1, EntriesChosen

\* What reconciliation finds for a session is a queue of items and a focus.
LEMMA ViewTypes ==
  ASSUME NEW d \in Stores, NEW r \in Roles
  PROVE  /\ QueueView(d, r).focus \in {d.focus[r], NoItem}
         /\ QueueView(d, r).pending \in Seq(Items)
<1> DEFINE active  == ActiveFocus(d, r)
           queued  == d.pending[r]
           clean   == EntriesAt(queued, {k \in DOMAIN queued : QueueCandidate(d, queued[k])})
           loose   == {i \in Items : /\ Owner[i] = r
                                     /\ QueueCandidate(d, i)
                                     /\ i \notin Range(clean)
                                     /\ ~d.marker[i]}
           front   == IF active = NoItem /\ loose # {}
                        THEN CHOOSE i \in loose : \A j \in loose : i <= j
                        ELSE NoItem
           promote == active = NoItem /\ front = NoItem /\ clean # << >>
<1>1. d.pending[r] \in Seq(Items)
  BY DEF Stores
<1>2. clean \in Seq(Items)
  BY <1>1, EntriesStay
<1>3. /\ QueueView(d, r).focus = active
      /\ QueueView(d, r).pending = IF promote THEN Tail(clean) ELSE clean
  BY DEF QueueView
<1>4. clean # << >> => Tail(clean) \in Seq(Items)
  BY <1>2, HeadTailProperties
<1>5. active \in {d.focus[r], NoItem}
  BY DEF ActiveFocus
<1> HIDE DEF clean, active, front
<1> QED
  BY <1>2, <1>3, <1>4, <1>5

\* A queue grown by a set of items is a queue of items.
LEMMA GrownQueue ==
  ASSUME NEW q \in Seq(Items), NEW S \in SUBSET Items
  PROVE  q \o InCreationOrder(S) \in Seq(Items)
<1>1. InCreationOrder(S) \in Seq(Items)
  BY CreationOrder, SeqMonotonic
<1> QED
  BY <1>1, ConcatProperties

-----------------------------------------------------------------------------
(* What every operator keeps *)

(***************************************************************************)
(* An orderly store: well typed; no item is its own parent; nothing is in  *)
(* one of the phases that no writer writes; and what is not created yet is *)
(* not deleted.                                                            *)
(***************************************************************************)
Unwritten == {"queued", "paused", "needs_attention"}

Orderly(d) ==
  /\ d \in Stores
  /\ \A i \in Items : /\ d.phase[i] \notin Unwritten
                      /\ d.parent[i] # i
                      /\ d.phase[i] = Absent => ~d.deleted[i]

(***************************************************************************)
(* What a session that works at the item i, or is parked on it, relies on: *)
(* i exists, is not queued behind anything, and its role focuses on        *)
(* nothing else.                                                           *)
(***************************************************************************)
Served(d, i) == /\ d.phase[i] # Absent
                /\ ~d.marker[i]
                /\ d.focus[Owner[i]] \in {NoItem, i}

\* The item i does not run under a claim that a parked session would hold.
LetGo(d, i) == d.phase[i] = "running" => ~d.claim[i]

(***************************************************************************)
(* An item that runs, or waits for its children, is not queued behind      *)
(* anything: turns run it, and they are served.                            *)
(***************************************************************************)
Working == {"running", "waiting_for_children"}
Unmarked(d) == \A i \in Items : d.phase[i] \in Working => ~d.marker[i]

\* From d to e nothing is put on hold, and no role gets another focus.
Frees(d, e) ==
  /\ \A i \in Items : e.hold[i] => d.hold[i]
  /\ \A r \in Roles : e.focus[r] \in {d.focus[r], NoItem}

\* From d to e no session is disturbed: none of these facts is lost.
Calm(d, e) ==
  /\ \A i \in Items : (Served(d, i) => Served(e, i)) /\ (LetGo(d, i) => LetGo(e, i))
  /\ Unmarked(d) => Unmarked(e)
  /\ Frees(d, e)

\* The item i does not wait for its children, or has one to wait for, or is
\* free for the loop to take.
Woken(d, i) ==
  d.phase[i] = "waiting_for_children" => ~DepsApproved(d, i) \/ ~d.claim[i]
Awake(d) == \A i \in Items : Woken(d, i)

\* The same of the items without any dependency: a refresh sees to the others.
AwakeIfFree(d) ==
  \A i \in Items : d.phase[i] = "waiting_for_children" /\ d.deps[i] = {} => ~d.claim[i]

Overslept(d) ==
  {i \in Items : d.phase[i] = "waiting_for_children" /\ d.deps[i] = {} /\ d.claim[i]}

\* An orderly store has the shape the lemmas on phases ask for.
LEMMA OrderlyShape ==
  ASSUME NEW d, Orderly(d)
  PROVE  Shaped(d)
BY DEF Orderly, Stores, Shaped, Fields

\* An item without dependencies has none that is not approved.
LEMMA AwakeWeakens ==
  ASSUME NEW d, Awake(d)
  PROVE  AwakeIfFree(d)
BY DEF Awake, Woken, AwakeIfFree, DepsApproved, ActiveDeps

\* Calm steps compose.
LEMMA CalmTransitive ==
  ASSUME NEW d, NEW e, NEW f, Calm(d, e), Calm(e, f)
  PROVE  Calm(d, f)
BY DEF Calm, Frees

\* To leave the store alone disturbs nothing.
LEMMA CalmReflexive ==
  ASSUME NEW d
  PROVE  Calm(d, d)
BY DEF Calm, Frees

\* Queueing items behind the focus of their role.
LEMMA EnqueueFacts ==
  ASSUME NEW d, Orderly(d), NEW S \in SUBSET Items, \A i \in S : d.phase[i] \notin Working
  PROVE  /\ Orderly(EnqueueBehindFocus(d, S))
         /\ EnqueueBehindFocus(d, S).phase = d.phase
         /\ EnqueueBehindFocus(d, S).deleted = d.deleted
         /\ Calm(d, EnqueueBehindFocus(d, S))
         /\ Awake(d) => Awake(EnqueueBehindFocus(d, S))
         /\ AwakeIfFree(d) => AwakeIfFree(EnqueueBehindFocus(d, S))
<1> DEFINE late == {i \in S : /\ d.focus[Owner[i]] \notin {NoItem, i}
                              /\ i \notin Range(d.pending[Owner[i]])}
           queues == [r \in Roles |->
                        d.pending[r] \o InCreationOrder({i \in late : Owner[i] = r})]
           marks  == [i \in Items |-> d.marker[i] \/ i \in late]
           e      == EnqueueBehindFocus(d, S)
<1>1. d \in Stores
  BY DEF Orderly
<1>2. e = [d EXCEPT !.pending = queues, !.marker = marks]
  BY <1>1 DEF EnqueueBehindFocus, Stores
<1>3. queues \in [Roles -> Seq(Items)]
  <2>1. \A r \in Roles : d.pending[r] \o InCreationOrder({i \in late : Owner[i] = r}) \in Seq(Items)
    BY <1>1, GrownQueue DEF Stores
  <2> QED
    BY <2>1
<1>4. marks \in [Items -> BOOLEAN]
  OBVIOUS
<1>5. \A i \in Items : marks[i] = (d.marker[i] \/ i \in late)
  OBVIOUS
<1>6. \A i \in late : i \in S /\ d.focus[Owner[i]] \notin {NoItem, i}
  OBVIOUS
<1> HIDE DEF queues, marks, late, e
<1>7. e \in Stores
  BY <1>1, <1>2, <1>3, <1>4 DEF Stores
<1>8. /\ e.marker = marks
      /\ e.phase = d.phase /\ e.hold = d.hold /\ e.parent = d.parent /\ e.deleted = d.deleted
      /\ e.claim = d.claim /\ e.deps = d.deps /\ e.focus = d.focus
  BY <1>1, <1>2 DEF Stores
<1>9. Orderly(e)
  BY <1>7, <1>8 DEF Orderly
<1>10. Calm(d, e)
  <2>1. Unmarked(d) => Unmarked(e)
    BY <1>5, <1>6, <1>8 DEF Unmarked
  <2> QED
    BY <1>5, <1>6, <1>8, <2>1 DEF Calm, Served, LetGo, Frees
<1>11. (Awake(d) => Awake(e)) /\ (AwakeIfFree(d) => AwakeIfFree(e))
  BY <1>8 DEF Awake, Woken, AwakeIfFree, DepsApproved, ActiveDeps
<1> QED
  BY <1>8, <1>9, <1>10, <1>11 DEF e

\* Reconciling the serial queues.
LEMMA ReconcileFacts ==
  ASSUME NEW d, Orderly(d), NEW R \in SUBSET Roles
  PROVE  /\ Orderly(Reconcile(d, R))
         /\ Reconcile(d, R).phase = d.phase
         /\ Reconcile(d, R).claim = d.claim
         /\ Calm(d, Reconcile(d, R))
         /\ Awake(d) => Awake(Reconcile(d, R))
         /\ AwakeIfFree(d) => AwakeIfFree(Reconcile(d, R))
<1> DEFINE foci   == [r \in Roles |-> IF r \in R THEN QueueView(d, r).focus ELSE d.focus[r]]
           queues == [r \in Roles |-> IF r \in R THEN QueueView(d, r).pending ELSE d.pending[r]]
           marks  == [i \in Items |->
                        LET v == QueueView(d, Owner[i]) IN
                        d.marker[i] /\ (Owner[i] \in R =>
                                          /\ i \in Range(v.pending)
                                          /\ v.blocker \notin {NoItem, i})]
           e      == Reconcile(d, R)
<1>1. d \in Stores
  BY DEF Orderly
<1>2. e = [d EXCEPT !.focus = foci, !.pending = queues, !.marker = marks]
  BY <1>1 DEF Reconcile, Stores
<1>3. /\ foci \in [Roles -> Items \cup {NoItem}]
      /\ \A r \in Roles : foci[r] \in {d.focus[r], NoItem}
  <2>1. \A r \in Roles : d.focus[r] \in Items \cup {NoItem}
    BY <1>1 DEF Stores
  <2> QED
    BY <1>1, <2>1, ViewTypes
<1>4. queues \in [Roles -> Seq(Items)]
  <2>1. \A r \in Roles : d.pending[r] \in Seq(Items)
    BY <1>1 DEF Stores
  <2> QED
    BY <1>1, <2>1, ViewTypes
<1>5. marks \in [Items -> BOOLEAN] /\ \A i \in Items : marks[i] => d.marker[i]
  BY <1>1 DEF Stores
<1> HIDE DEF foci, queues, marks, e
<1>6. e \in Stores
  BY <1>1, <1>2, <1>3, <1>4, <1>5 DEF Stores
<1>7. /\ e.marker = marks /\ e.focus = foci
      /\ e.phase = d.phase /\ e.hold = d.hold /\ e.parent = d.parent /\ e.deleted = d.deleted
      /\ e.claim = d.claim /\ e.deps = d.deps
  BY <1>1, <1>2 DEF Stores
<1>8. Orderly(e)
  BY <1>6, <1>7 DEF Orderly
<1>9. Calm(d, e)
  <2>1. \A i \in Items : Owner[i] \in Roles
    BY OwnerAssumption
  <2>2. Unmarked(d) => Unmarked(e)
    BY <1>5, <1>7 DEF Unmarked
  <2>3. Frees(d, e)
    BY <1>3, <1>7 DEF Frees
  <2> QED
    BY <1>3, <1>5, <1>7, <2>1, <2>2, <2>3 DEF Calm, Served, LetGo
<1>10. Awake(d) => Awake(e)
  BY <1>7 DEF Awake, Woken, DepsApproved, ActiveDeps
<1>11. AwakeIfFree(d) => AwakeIfFree(e)
  BY <1>7 DEF AwakeIfFree
<1> QED
  BY <1>7, <1>8, <1>9, <1>10, <1>11 DEF e

\* What a refresh decides for an item.
LEMMA FrontierFacts ==
  ASSUME NEW d, Orderly(d), NEW i \in Items
  PROVE  /\ FrontierTarget(d, i) \in (Phases \cup {Absent}) \ Unwritten
         /\ FrontierTarget(d, i) = "approved" => d.phase[i] = "approved"
         /\ FrontierTarget(d, i) = Absent => d.phase[i] = Absent
         /\ FrontierTarget(d, i) = "running" => d.phase[i] \in {"running", "waiting_for_children"}
         /\ FrontierTarget(d, i) \in Working => d.phase[i] \in Working
         /\ FrontierTarget(d, i) = "waiting_for_children" =>
              \/ ~DepsApproved(d, i)
              \/ d.deps[i] = {} /\ d.phase[i] = "waiting_for_children"
<1>1. d.phase[i] \in (Phases \cup {Absent}) \ Unwritten
  BY DEF Orderly, Stores
<1>2. CASE d.deps[i] = {}
  BY <1>1, <1>2 DEF FrontierTarget
<1>3. CASE d.deps[i] # {} /\ DepsApproved(d, i)
  BY <1>1, <1>3 DEF FrontierTarget, Released, Phases, Unwritten, Absent, Working
<1>4. CASE d.deps[i] # {} /\ ~DepsApproved(d, i)
  BY <1>1, <1>4 DEF FrontierTarget, Held, Phases, Unwritten, Absent, Working
<1> QED
  BY <1>2, <1>3, <1>4

\* Recomputing the dependency frontier: it wakes every parent that waits for
\* approved children, and leaves one waiting only if it has nothing to wait for.
LEMMA RefreshFacts ==
  ASSUME NEW d, Orderly(d)
  PROVE  /\ Orderly(RefreshDependents(d))
         /\ Calm(d, RefreshDependents(d))
         /\ AwakeIfFree(d) => Awake(RefreshDependents(d))
<1> DEFINE target  == [i \in Items |-> FrontierTarget(d, i)]
           allowed == {i \in Created(d) : Legal(d.phase[i], target[i])}
           moved   == {i \in allowed : target[i] # d.phase[i]}
           phases  == [i \in Items |-> IF i \in moved THEN target[i] ELSE d.phase[i]]
           deps    == [i \in Items |-> IF i \in allowed THEN ActiveDeps(d, i) ELSE d.deps[i]]
           synths  == [i \in Items |-> d.synth[i] \/ (i \in moved /\ EntersSynthesis(d, i))]
           claims  == [i \in Items |-> d.claim[i] /\ i \notin ClaimLapses(d, moved)]
           written == [d EXCEPT !.phase = phases, !.deps = deps, !.synth = synths,
                                !.claim = claims]
           runs    == {i \in moved : target[i] \in RunnablePhases}
           e       == RefreshDependents(d)
<1>1. d \in Stores
  BY DEF Orderly
<1>2. e = EnqueueBehindFocus(written, runs)
  BY <1>1 DEF RefreshDependents, Stores
<1>3. runs \in SUBSET Items /\ moved \in SUBSET Items
  BY DEF Created
<1>4. \A i \in Items : target[i] = FrontierTarget(d, i)
  OBVIOUS
<1>5. \A i \in Items : i \in moved <=> /\ d.phase[i] # Absent
                                       /\ Legal(d.phase[i], target[i])
                                       /\ target[i] # d.phase[i]
  BY DEF Created
<1>6. phases \in [Items -> Phases \cup {Absent}]
  BY <1>1, FrontierFacts DEF Stores
<1>7. /\ deps \in [Items -> SUBSET Items]
      /\ \A i \in Items : deps[i] \in {d.deps[i], ActiveDeps(d, i)}
  BY <1>1 DEF Stores, ActiveDeps
<1>8. synths \in [Items -> BOOLEAN] /\ claims \in [Items -> BOOLEAN]
  OBVIOUS
<1>9. \A i \in Items : /\ claims[i] => d.claim[i]
                       /\ i \in moved /\ d.phase[i] = "waiting_for_children" => ~claims[i]
  BY <1>1 DEF ClaimLapses, Stores
<1>10. \A i \in Items : phases[i] = IF i \in moved THEN target[i] ELSE d.phase[i]
  OBVIOUS
<1>11. \A i \in runs : i \in moved /\ target[i] \in RunnablePhases
  OBVIOUS
<1> HIDE DEF target, allowed, moved, phases, deps, synths, claims, written, runs, e
<1>12. written \in Stores
  BY <1>1, <1>6, <1>7, <1>8 DEF written, Stores
<1>13. /\ written.phase = phases /\ written.deps = deps /\ written.claim = claims
       /\ written.hold = d.hold /\ written.parent = d.parent /\ written.deleted = d.deleted
       /\ written.marker = d.marker /\ written.focus = d.focus
  BY <1>1 DEF written, Stores
<1>14. Orderly(written)
  BY <1>4, <1>10, <1>12, <1>13, FrontierFacts DEF Orderly
<1>15. Calm(d, written)
  <2>1. ASSUME NEW i \in Items, LetGo(d, i), phases[i] = "running" PROVE ~claims[i]
    BY <1>4, <1>9, <1>10, <2>1, FrontierFacts DEF LetGo
  <2>2. \A i \in Items : d.phase[i] # Absent => phases[i] # Absent
    BY <1>4, <1>10, FrontierFacts
  <2>3. Unmarked(d) => Unmarked(written)
    BY <1>4, <1>10, <1>13, FrontierFacts DEF Unmarked
  <2>4. Frees(d, written)
    BY <1>13 DEF Frees
  <2> QED
    BY <1>13, <2>1, <2>2, <2>3, <2>4 DEF Calm, Served, LetGo
<1>16. ASSUME AwakeIfFree(d) PROVE Awake(written)
  <2>1. SUFFICES ASSUME NEW i \in Items, phases[i] = "waiting_for_children"
                 PROVE  ~DepsApproved(written, i) \/ ~written.claim[i]
    BY <1>13 DEF Awake, Woken
  <2>2. ASSUME ~DepsApproved(d, i) PROVE ~DepsApproved(written, i)
    <3>1. PICK j \in ActiveDeps(d, i) : d.phase[j] # "approved"
      BY <2>2 DEF DepsApproved
    <3>2. j \in Items /\ j \in deps[i] \ {i} /\ ~d.deleted[j]
      BY <1>1, <1>7, <3>1 DEF ActiveDeps, Stores
    <3>3. phases[j] # "approved"
      BY <1>4, <1>10, <3>1, <3>2, FrontierFacts
    <3> QED
      BY <1>13, <3>2, <3>3 DEF DepsApproved, ActiveDeps
  <2>3. CASE i \in moved
    <3>1. target[i] = "waiting_for_children" /\ d.phase[i] # "waiting_for_children"
      BY <1>5, <1>10, <2>1, <2>3
    <3> QED
      BY <1>4, <2>2, <3>1, FrontierFacts
  <2>4. CASE i \notin moved
    <3>1. d.phase[i] = "waiting_for_children"
      BY <1>10, <2>1, <2>4
    <3>2. ~(d.deps[i] # {} /\ DepsApproved(d, i))
      <4>1. SUFFICES ASSUME d.deps[i] # {}, DepsApproved(d, i) PROVE FALSE
        OBVIOUS
      <4>2. target[i] \in {"ready", "running"}
        BY <1>4, <3>1, <4>1 DEF FrontierTarget, Released
      <4>3. Legal("waiting_for_children", target[i])
        BY <4>2 DEF Legal, AllowedTransitions, Phases, DonePhases, InProgressPhases,
                    UniversalExits, RecoveryExits
      <4> QED
        BY <1>5, <2>4, <3>1, <4>2, <4>3 DEF Absent
    <3>3. CASE d.deps[i] = {}
      <4>1. ~d.claim[i]
        BY <1>16, <3>1, <3>3 DEF AwakeIfFree
      <4> QED
        BY <1>9, <1>13, <4>1
    <3> QED
      BY <2>2, <3>2, <3>3
  <2> QED
    BY <2>3, <2>4
<1>17. \A i \in runs : written.phase[i] \notin Working
  BY <1>3, <1>10, <1>11, <1>13 DEF RunnablePhases, Working
<1> QED
  BY <1>2, <1>3, <1>14, <1>15, <1>16, <1>17, EnqueueFacts, CalmTransitive DEF e

\* The hooks of a phase write: those of an approval, or of any other phase
\* that ends an item or sends it back, wake the parents that depend on it.
LEMMA FireHooksFacts ==
  ASSUME NEW d, Orderly(d), NEW i \in Items, d.phase[i] # Absent
  PROVE  /\ Orderly(FireHooks(d, i))
         /\ Calm(d, FireHooks(d, i))
         /\ Awake(d) => Awake(FireHooks(d, i))
         /\ d.phase[i] \in DependentRefreshTargets /\ AwakeIfFree(d) => Awake(FireHooks(d, i))
<1> DEFINE p         == d.phase[i]
           refreshed == IF p \in DependentRefreshTargets THEN RefreshDependents(d) ELSE d
           unfocused == [refreshed EXCEPT !.focus[Owner[i]] = IF @ = i THEN NoItem ELSE @]
           cleared   == IF p \in DonePhases THEN Reconcile(unfocused, {Owner[i]}) ELSE refreshed
           awake     == Awake(d) \/ (p \in DependentRefreshTargets /\ AwakeIfFree(d))
<1>1. FireHooks(d, i) = IF p \in RunnablePhases THEN EnqueueBehindFocus(cleared, {i}) ELSE cleared
  BY DEF FireHooks, ClearFocus
<1>2. Owner[i] \in Roles
  BY OwnerAssumption
<1>3. Calm(d, d)
  BY CalmReflexive
<1>4. Orderly(refreshed) /\ Calm(d, refreshed) /\ (awake => Awake(refreshed))
  BY <1>3, RefreshFacts, AwakeWeakens
<1>5. p \in RunnablePhases => refreshed.phase[i] = p
  <2>1. Shaped(d)
    BY OrderlyShape
  <2>2. CASE p = "ready_for_rework"
    BY <2>1, <2>2, RefreshShifts
  <2>3. CASE p # "ready_for_rework"
    BY <2>3 DEF RunnablePhases, DependentRefreshTargets, DonePhases
  <2> QED
    BY <2>2, <2>3
<1> HIDE DEF refreshed, awake
<1>6. /\ Orderly(unfocused)
      /\ Calm(refreshed, unfocused)
      /\ Awake(refreshed) => Awake(unfocused)
  <2>1. refreshed \in Stores
    BY <1>4 DEF Orderly
  <2>2. /\ unfocused \in Stores
        /\ unfocused.phase = refreshed.phase /\ unfocused.claim = refreshed.claim
        /\ unfocused.marker = refreshed.marker /\ unfocused.deps = refreshed.deps
        /\ unfocused.deleted = refreshed.deleted /\ unfocused.hold = refreshed.hold
        /\ unfocused.parent = refreshed.parent
    BY <1>2, <2>1 DEF Stores
  <2>3. \A r \in Roles : unfocused.focus[r] \in {refreshed.focus[r], NoItem}
    BY <2>1 DEF Stores
  <2>4. \A j \in Items : Owner[j] \in Roles
    BY OwnerAssumption
  <2> HIDE DEF unfocused
  <2>5. Orderly(unfocused)
    BY <1>4, <2>2 DEF Orderly
  <2>6. Calm(refreshed, unfocused)
    <3>1. Unmarked(refreshed) => Unmarked(unfocused)
      BY <2>2 DEF Unmarked
    <3>2. Frees(refreshed, unfocused)
      BY <2>2, <2>3 DEF Frees
    <3> QED
      BY <2>2, <2>3, <2>4, <3>1, <3>2 DEF Calm, Served, LetGo
  <2>7. Awake(refreshed) => Awake(unfocused)
    BY <2>2 DEF Awake, Woken, DepsApproved, ActiveDeps
  <2> QED
    BY <2>5, <2>6, <2>7
<1> HIDE DEF unfocused
<1>7. /\ Orderly(cleared)
      /\ Calm(d, cleared)
      /\ awake => Awake(cleared)
      /\ p \notin DonePhases => cleared = refreshed
  BY <1>2, <1>4, <1>6, ReconcileFacts, CalmTransitive
<1>8. p \in RunnablePhases => cleared.phase[i] \notin Working
  BY <1>5, <1>7 DEF RunnablePhases, DonePhases, Working
<1> HIDE DEF cleared, p
<1>9. CASE p \in RunnablePhases
  <2> DEFINE e == EnqueueBehindFocus(cleared, {i})
  <2>1. {i} \in SUBSET Items /\ \A j \in {i} : cleared.phase[j] \notin Working
    BY <1>8, <1>9
  <2>2. Orderly(e) /\ Calm(cleared, e) /\ (Awake(cleared) => Awake(e))
    BY <1>7, <2>1, EnqueueFacts
  <2>3. Calm(d, e)
    BY <1>7, <2>2, CalmTransitive
  <2>4. FireHooks(d, i) = e
    BY <1>1, <1>9
  <2> HIDE DEF e
  <2> QED
    BY <1>7, <2>2, <2>3, <2>4 DEF awake, p
<1>10. CASE p \notin RunnablePhases
  BY <1>1, <1>7, <1>10 DEF awake, p
<1> QED
  BY <1>9, <1>10 DEF awake, p

\* Writing the phase of an item, without its hooks.
LEMMA PhaseWrite ==
  ASSUME NEW d, Orderly(d), NEW i \in Items, NEW p \in Phases \ Unwritten
  PROVE  LET e == [d EXCEPT !.phase[i] = p] IN
         /\ Orderly(e)
         /\ \A j \in Items : /\ Served(d, j) => Served(e, j)
                             /\ (j # i \/ p # "running") /\ LetGo(d, j) => LetGo(e, j)
         /\ Frees(d, e)
         /\ Unmarked(d) /\ (p \in Working => ~d.marker[i]) => Unmarked(e)
         /\ Awake(d) /\ p # "approved" /\ Woken(e, i) => Awake(e)
         /\ AwakeIfFree(d) /\ p # "waiting_for_children" => AwakeIfFree(e)
<1> DEFINE e == [d EXCEPT !.phase[i] = p]
<1>1. d \in Stores /\ p # Absent
  BY DEF Orderly, Phases, Absent
<1>2. e \in Stores
  BY <1>1 DEF Stores
<1>3. /\ \A j \in Items : e.phase[j] = IF j = i THEN p ELSE d.phase[j]
      /\ e.deleted = d.deleted /\ e.hold = d.hold /\ e.parent = d.parent /\ e.claim = d.claim
      /\ e.marker = d.marker /\ e.focus = d.focus /\ e.deps = d.deps
  BY <1>1 DEF Stores
<1> HIDE DEF e
<1>4. Orderly(e)
  BY <1>1, <1>2, <1>3 DEF Orderly
<1>5. \A j \in Items : /\ Served(d, j) => Served(e, j)
                       /\ (j # i \/ p # "running") /\ LetGo(d, j) => LetGo(e, j)
  BY <1>1, <1>3 DEF Served, LetGo
<1>6. Frees(d, e) /\ (Unmarked(d) /\ (p \in Working => ~d.marker[i]) => Unmarked(e))
  BY <1>3 DEF Frees, Unmarked
<1>7. ASSUME Awake(d), p # "approved", Woken(e, i)
      PROVE  Awake(e)
  <2>1. SUFFICES ASSUME NEW j \in Items, j # i, e.phase[j] = "waiting_for_children"
                 PROVE  ~DepsApproved(e, j) \/ ~e.claim[j]
    BY <1>7 DEF Awake, Woken
  <2>2. DepsApproved(e, j) => DepsApproved(d, j)
    <3>1. \A k \in ActiveDeps(d, j) : k \in Items
      BY <1>1 DEF ActiveDeps, Stores
    <3> QED
      BY <1>3, <1>7, <3>1 DEF DepsApproved, ActiveDeps
  <2> QED
    BY <1>3, <1>7, <2>1, <2>2 DEF Awake, Woken
<1>8. AwakeIfFree(d) /\ p # "waiting_for_children" => AwakeIfFree(e)
  BY <1>3 DEF AwakeIfFree
<1> QED
  BY <1>4, <1>5, <1>6, <1>7, <1>8 DEF e

\* Saving a phase.  Only an item that is set running may be held by its claim
\* afterwards, and only one that waits for an open dependency may be put to
\* wait for its children.
LEMMA SavePhaseFacts ==
  ASSUME NEW d, Orderly(d), NEW i \in Items, NEW p \in Phases \ Unwritten
  PROVE  LET e == SavePhase(d, i, p) IN
         /\ Orderly(e)
         /\ \A j \in Items : /\ Served(d, j) => Served(e, j)
                             /\ (j # i \/ p # "running") /\ LetGo(d, j) => LetGo(e, j)
         /\ Frees(d, e)
         /\ Unmarked(d) /\ (p \in Working => ~d.marker[i]) => Unmarked(e)
         /\ Awake(d) /\ (p = "waiting_for_children" => Woken([d EXCEPT !.phase[i] = p], i))
              => Awake(e)
<1>1. CASE p = d.phase[i]
  BY <1>1 DEF SavePhase, Frees
<1>2. CASE p # d.phase[i]
  <2> DEFINE w == [d EXCEPT !.phase[i] = p]
             e == SavePhase(d, i, p)
  <2>1. e = FireHooks(w, i)
    BY <1>2 DEF SavePhase
  <2>2. w.phase[i] = p
    BY DEF Orderly, Stores
  <2>3. /\ Orderly(w)
        /\ \A j \in Items : /\ Served(d, j) => Served(w, j)
                            /\ (j # i \/ p # "running") /\ LetGo(d, j) => LetGo(w, j)
        /\ Frees(d, w)
        /\ Unmarked(d) /\ (p \in Working => ~d.marker[i]) => Unmarked(w)
        /\ Awake(d) /\ p # "approved" /\ Woken(w, i) => Awake(w)
        /\ AwakeIfFree(d) /\ p # "waiting_for_children" => AwakeIfFree(w)
    BY PhaseWrite
  <2>4. p # Absent
    BY DEF Phases, Absent
  <2> HIDE DEF w, e
  <2>5. /\ Orderly(e)
        /\ Calm(w, e)
        /\ Awake(w) => Awake(e)
        /\ p \in DependentRefreshTargets /\ AwakeIfFree(w) => Awake(e)
    BY <2>1, <2>2, <2>3, <2>4, FireHooksFacts
  <2>6. Awake(d) /\ (p = "waiting_for_children" => Woken(w, i)) => Awake(e)
    <3>1. p # "waiting_for_children" => Woken(w, i)
      BY <2>2 DEF Woken
    <3> QED
      BY <2>3, <2>5, <3>1, AwakeWeakens DEF DependentRefreshTargets, DonePhases
  <2>7. \A j \in Items : /\ Served(d, j) => Served(e, j)
                         /\ (j # i \/ p # "running") /\ LetGo(d, j) => LetGo(e, j)
    BY <2>3, <2>5 DEF Calm
  <2>8. Frees(d, e) /\ (Unmarked(d) /\ (p \in Working => ~d.marker[i]) => Unmarked(e))
    BY <2>3, <2>5 DEF Calm, Frees
  <2> QED
    BY <2>5, <2>6, <2>7, <2>8 DEF w, e
<1> QED
  BY <1>1, <1>2

\* Items that become runnable, one after the other.
LEMMA SaveReadyFacts ==
  ASSUME NEW d, Orderly(d), NEW S \in SUBSET Items
  PROVE  /\ Orderly(SaveReady(d, S))
         /\ Calm(d, SaveReady(d, S))
         /\ Awake(d) => Awake(SaveReady(d, S))
         /\ Overslept(d) \subseteq S => AwakeIfFree(SaveReady(d, S))
<1> DEFINE phases == [i \in Items |-> IF i \in S THEN "ready" ELSE d.phase[i]]
           w      == [d EXCEPT !.phase = phases]
<1>1. d \in Stores
  BY DEF Orderly
<1>2. SaveReady(d, S) = EnqueueBehindFocus(w, S)
  BY <1>1 DEF SaveReady, Stores
<1>3. phases \in [Items -> Phases \cup {Absent}]
  <2>1. d.phase \in [Items -> Phases \cup {Absent}] /\ "ready" \in Phases
    BY <1>1 DEF Stores, Phases
  <2> QED
    BY <2>1
<1>4. \A i \in Items : phases[i] = IF i \in S THEN "ready" ELSE d.phase[i]
  OBVIOUS
<1> HIDE DEF phases
<1>5. w \in Stores
  BY <1>1, <1>3 DEF Stores
<1>6. /\ w.phase = phases
      /\ w.deleted = d.deleted /\ w.hold = d.hold /\ w.parent = d.parent /\ w.claim = d.claim
      /\ w.marker = d.marker /\ w.focus = d.focus /\ w.deps = d.deps
  BY <1>1 DEF Stores
<1> HIDE DEF w
<1>7. Orderly(w)
  BY <1>4, <1>5, <1>6 DEF Orderly, Unwritten, Absent
<1>8. Calm(d, w)
  <2>1. (Unmarked(d) => Unmarked(w)) /\ Frees(d, w)
    BY <1>4, <1>6 DEF Unmarked, Working, Frees
  <2> QED
    BY <1>4, <1>6, <2>1 DEF Calm, Served, LetGo, Absent
<1>9. ASSUME Awake(d) PROVE Awake(w)
  <2>1. SUFFICES ASSUME NEW j \in Items, w.phase[j] = "waiting_for_children"
                 PROVE  ~DepsApproved(w, j) \/ ~w.claim[j]
    BY DEF Awake, Woken
  <2>2. w.phase[j] = d.phase[j]
    BY <1>4, <1>6, <2>1
  <2>3. DepsApproved(w, j) => DepsApproved(d, j)
    <3>1. \A k \in ActiveDeps(d, j) : k \in Items
      BY <1>1 DEF ActiveDeps, Stores
    <3> QED
      BY <1>4, <1>6, <3>1 DEF DepsApproved, ActiveDeps
  <2> QED
    BY <1>6, <1>9, <2>1, <2>2, <2>3 DEF Awake, Woken
<1>10. \A i \in S : w.phase[i] \notin Working
  BY <1>4, <1>6 DEF Working
<1>11. Overslept(d) \subseteq S => AwakeIfFree(w)
  BY <1>4, <1>6 DEF AwakeIfFree, Overslept
<1> QED
  BY <1>2, <1>7, <1>8, <1>9, <1>10, <1>11, EnqueueFacts, CalmTransitive

\* A write of fields that no wake-up and no session looks at: feedback and
\* the synthesis turn.
LEMMA SideWrite ==
  ASSUME NEW d, Orderly(d), NEW e \in Stores,
         e.phase = d.phase, e.claim = d.claim, e.marker = d.marker, e.deps = d.deps,
         e.deleted = d.deleted, e.parent = d.parent, e.hold = d.hold, e.focus = d.focus
  PROVE  /\ Orderly(e)
         /\ Calm(d, e)
         /\ Awake(d) => Awake(e)
<1>1. (Unmarked(d) => Unmarked(e)) /\ Frees(d, e)
  BY DEF Unmarked, Frees
<1> QED
  BY <1>1 DEF Orderly, Calm, Served, LetGo, Awake, Woken, DepsApproved, ActiveDeps

\* Feedback written or dropped.
LEMMA FeedbackFacts ==
  ASSUME NEW d, Orderly(d), NEW i \in Items, NEW b \in BOOLEAN
  PROVE  LET e == [d EXCEPT !.feedback[i] = b] IN
         Orderly(e) /\ Calm(d, e) /\ (Awake(d) => Awake(e))
<1> DEFINE e == [d EXCEPT !.feedback[i] = b]
<1>1. d \in Stores
  BY DEF Orderly
<1>2. /\ e \in Stores
      /\ e.phase = d.phase /\ e.claim = d.claim /\ e.marker = d.marker /\ e.deps = d.deps
      /\ e.deleted = d.deleted /\ e.parent = d.parent /\ e.hold = d.hold /\ e.focus = d.focus
  BY <1>1 DEF Stores
<1> HIDE DEF e
<1> QED
  BY <1>2, SideWrite DEF e

\* Other dependencies for one item, the old ones without what dropped out for
\* instance.  An item that waits for its children may need an open one.
LEMMA DepsWrite ==
  ASSUME NEW d, Orderly(d), NEW i \in Items, NEW D \in SUBSET Items
  PROVE  LET e == [d EXCEPT !.deps[i] = D] IN
         /\ Orderly(e)
         /\ Calm(d, e)
         /\ ActiveDeps(e, i) = {j \in D \ {i} : ~d.deleted[j]}
         /\ Awake(d) /\ Woken(e, i) => Awake(e)
<1> DEFINE e == [d EXCEPT !.deps[i] = D]
<1>1. d \in Stores
  BY DEF Orderly
<1>2. /\ e \in Stores
      /\ \A j \in Items : e.deps[j] = IF j = i THEN D ELSE d.deps[j]
      /\ e.phase = d.phase /\ e.claim = d.claim /\ e.marker = d.marker
      /\ e.deleted = d.deleted /\ e.parent = d.parent /\ e.hold = d.hold /\ e.focus = d.focus
  BY <1>1 DEF Stores
<1> HIDE DEF e
<1>3. Orderly(e) /\ Calm(d, e)
  <2>1. (Unmarked(d) => Unmarked(e)) /\ Frees(d, e)
    BY <1>2 DEF Unmarked, Frees
  <2> QED
    BY <1>2, <2>1 DEF Orderly, Calm, Served, LetGo
<1>4. ActiveDeps(e, i) = {j \in D \ {i} : ~d.deleted[j]}
  BY <1>2 DEF ActiveDeps
<1>5. ASSUME Awake(d), Woken(e, i) PROVE Awake(e)
  <2>1. \A j \in Items : j # i /\ Woken(d, j) => Woken(e, j)
    BY <1>2 DEF Woken, DepsApproved, ActiveDeps
  <2> QED
    BY <1>5, <2>1 DEF Awake
<1> QED
  BY <1>3, <1>4, <1>5 DEF e

\* The dependencies of an item without those that no longer count.
LEMMA PrunedFacts ==
  ASSUME NEW d, Orderly(d), NEW i \in Items
  PROVE  LET e == [d EXCEPT !.deps[i] = ActiveDeps(d, i)] IN
         Orderly(e) /\ Calm(d, e) /\ (Awake(d) => Awake(e))
<1> DEFINE e == [d EXCEPT !.deps[i] = ActiveDeps(d, i)]
<1>1. ActiveDeps(d, i) \in SUBSET Items
  BY DEF ActiveDeps, Orderly, Stores
<1>2. /\ Orderly(e)
      /\ Calm(d, e)
      /\ ActiveDeps(e, i) = {j \in ActiveDeps(d, i) \ {i} : ~d.deleted[j]}
      /\ Awake(d) /\ Woken(e, i) => Awake(e)
  BY <1>1, DepsWrite
<1>3. ActiveDeps(e, i) = ActiveDeps(d, i)
  BY <1>2 DEF ActiveDeps
<1>4. e.phase = d.phase /\ e.claim = d.claim
  BY DEF Orderly, Stores
<1> HIDE DEF e
<1>5. Awake(d) => Woken(e, i)
  BY <1>3, <1>4 DEF Awake, Woken, DepsApproved
<1> QED
  BY <1>2, <1>5 DEF e

\* What a manager's edit takes from the items frees and wakes, if anything;
\* an edited item has no claim.
LEMMA MutatedFacts ==
  ASSUME NEW d, Orderly(d), NEW S \in SUBSET Items
  PROVE  /\ Orderly(Mutated(d, S))
         /\ Mutated(d, S).phase = d.phase
         /\ Mutated(d, S).deps = d.deps
         /\ Calm(d, Mutated(d, S))
         /\ Awake(d) => Awake(Mutated(d, S))
         /\ \A i \in S : ~Mutated(d, S).claim[i]
<1> DEFINE markers == [i \in Items |-> d.marker[i] /\ i \notin S]
           claims  == [i \in Items |-> d.claim[i] /\ i \notin S]
           holds   == [i \in Items |-> d.hold[i] /\ i \notin S]
           backs   == [i \in Items |-> d.feedback[i] /\ i \notin S]
           e       == Mutated(d, S)
<1>1. d \in Stores
  BY DEF Orderly
<1>2. e = [d EXCEPT !.marker = markers, !.claim = claims, !.hold = holds, !.feedback = backs]
  BY <1>1 DEF Mutated, Stores
<1>3. /\ markers \in [Items -> BOOLEAN] /\ claims \in [Items -> BOOLEAN]
      /\ holds \in [Items -> BOOLEAN] /\ backs \in [Items -> BOOLEAN]
  OBVIOUS
<1>4. \A i \in Items : /\ markers[i] = (d.marker[i] /\ i \notin S)
                       /\ claims[i] = (d.claim[i] /\ i \notin S)
                       /\ holds[i] = (d.hold[i] /\ i \notin S)
  OBVIOUS
<1> HIDE DEF markers, claims, holds, backs, e
<1>5. e \in Stores
  BY <1>1, <1>2, <1>3 DEF Stores
<1>6. /\ e.phase = d.phase /\ e.deps = d.deps /\ e.deleted = d.deleted /\ e.parent = d.parent
      /\ e.focus = d.focus
      /\ e.marker = markers /\ e.claim = claims /\ e.hold = holds
  BY <1>1, <1>2 DEF Stores
<1>7. Orderly(e)
  BY <1>4, <1>5, <1>6 DEF Orderly
<1>8. Calm(d, e)
  <2>1. (Unmarked(d) => Unmarked(e)) /\ Frees(d, e)
    BY <1>4, <1>6 DEF Unmarked, Frees
  <2> QED
    BY <1>4, <1>6, <2>1 DEF Calm, Served, LetGo
<1>9. Awake(d) => Awake(e)
  <2>1. \A i \in Items : e.claim[i] => d.claim[i]
    BY <1>4, <1>6
  <2>2. \A i \in Items : DepsApproved(e, i) = DepsApproved(d, i)
    BY <1>6 DEF DepsApproved, ActiveDeps
  <2> QED
    BY <1>6, <2>1, <2>2 DEF Awake, Woken
<1>10. \A i \in S : ~e.claim[i]
  BY <1>4, <1>6
<1> QED
  BY <1>6, <1>7, <1>8, <1>9, <1>10 DEF e

\* Cancelling created items.
LEMMA CancelledFacts ==
  ASSUME NEW d, Orderly(d), NEW S \in SUBSET Created(d)
  PROVE  /\ Orderly(Cancelled(d, S))
         /\ Calm(d, Cancelled(d, S))
         /\ AwakeIfFree(d) => AwakeIfFree(Cancelled(d, S))
<1> DEFINE gone   == [j \in Items |-> d.deleted[j] \/ j \in S]
           phases == [j \in Items |-> IF j \in S /\ d.phase[j] \notin DonePhases
                                        THEN "cancelled" ELSE d.phase[j]]
           foci   == [r \in Roles |-> IF d.focus[r] \in S /\ d.phase[d.focus[r]] \notin DonePhases
                                        THEN NoItem ELSE d.focus[r]]
           e      == Cancelled(d, S)
<1>1. d \in Stores
  BY DEF Orderly
<1>2. e = [d EXCEPT !.deleted = gone, !.phase = phases, !.focus = foci]
  BY <1>1 DEF Cancelled, Stores
<1>3. gone \in [Items -> BOOLEAN] /\ \A j \in Items : gone[j] = (d.deleted[j] \/ j \in S)
  OBVIOUS
<1>4. /\ phases \in [Items -> Phases \cup {Absent}]
      /\ \A j \in Items : \/ phases[j] = d.phase[j]
                          \/ j \in S /\ phases[j] = "cancelled"
  <2>1. "cancelled" \in Phases /\ \A j \in Items : d.phase[j] \in Phases \cup {Absent}
    BY <1>1 DEF Stores, Phases
  <2> QED
    BY <2>1
<1>5. /\ foci \in [Roles -> Items \cup {NoItem}]
      /\ \A r \in Roles : foci[r] \in {d.focus[r], NoItem}
  BY <1>1 DEF Stores
<1>6. \A j \in S : d.phase[j] # Absent
  BY DEF Created
<1> HIDE DEF gone, phases, foci, e
<1>7. e \in Stores
  BY <1>1, <1>2, <1>3, <1>4, <1>5 DEF Stores
<1>8. /\ e.deleted = gone /\ e.phase = phases /\ e.focus = foci
      /\ e.hold = d.hold /\ e.parent = d.parent /\ e.claim = d.claim
      /\ e.marker = d.marker /\ e.deps = d.deps
  BY <1>1, <1>2 DEF Stores
<1>9. Orderly(e)
  BY <1>3, <1>4, <1>6, <1>7, <1>8 DEF Orderly, Unwritten, Absent
<1>10. Calm(d, e)
  <2>1. \A j \in Items : Owner[j] \in Roles
    BY OwnerAssumption
  <2>2. (Unmarked(d) => Unmarked(e)) /\ Frees(d, e)
    BY <1>4, <1>5, <1>8 DEF Unmarked, Working, Frees
  <2> QED
    BY <1>4, <1>5, <1>8, <2>1, <2>2 DEF Calm, Served, LetGo, Absent
<1>11. AwakeIfFree(d) => AwakeIfFree(e)
  BY <1>4, <1>8 DEF AwakeIfFree
<1> QED
  BY <1>9, <1>10, <1>11 DEF e

\* The whole row of a role session, as the dispatcher has it in memory.
LEMMA SaveRowFacts ==
  ASSUME NEW d, Orderly(d), NEW r \in Roles, NEW focus \in Items \cup {NoItem}
  PROVE  LET e == SaveRoleSession(d, r, focus) IN
         /\ Orderly(e)
         /\ \A i \in Items : /\ Owner[i] # r \/ focus \in {NoItem, i} =>
                                  (Served(d, i) => Served(e, i))
                             /\ LetGo(d, i) => LetGo(e, i)
         /\ \A i \in Items : e.hold[i] => d.hold[i]
         /\ \A s \in Roles : e.focus[s] = IF s = r THEN focus ELSE d.focus[s]
         /\ Unmarked(d) => Unmarked(e)
         /\ Awake(d) => Awake(e)
<1> DEFINE e == SaveRoleSession(d, r, focus)
<1>1. d \in Stores
  BY DEF Orderly
<1>2. e \in Stores
  BY <1>1 DEF SaveRoleSession, Stores
<1>3. /\ e.phase = d.phase /\ e.claim = d.claim /\ e.marker = d.marker /\ e.deps = d.deps
      /\ e.deleted = d.deleted /\ e.parent = d.parent /\ e.hold = d.hold
      /\ \A s \in Roles : e.focus[s] = IF s = r THEN focus ELSE d.focus[s]
  BY <1>1 DEF SaveRoleSession, Stores
<1> HIDE DEF e
<1>4. Orderly(e)
  BY <1>2, <1>3 DEF Orderly
<1>5. \A i \in Items : Owner[i] \in Roles
  BY OwnerAssumption
<1>6. \A i \in Items : /\ Owner[i] # r \/ focus \in {NoItem, i} =>
                            (Served(d, i) => Served(e, i))
                       /\ LetGo(d, i) => LetGo(e, i)
  BY <1>3, <1>5 DEF Served, LetGo
<1>7. Awake(d) => Awake(e)
  BY <1>3 DEF Awake, Woken, DepsApproved, ActiveDeps
<1>8. Unmarked(d) => Unmarked(e)
  BY <1>3 DEF Unmarked
<1> QED
  BY <1>3, <1>4, <1>6, <1>7, <1>8 DEF e

\* The claims of a tick: the taken items are served by their roles, and the
\* sessions of the other roles are not disturbed.
LEMMA ClaimsFacts ==
  ASSUME NEW d, Orderly(d), NEW C, DOMAIN C \subseteq Roles,
         \A r \in DOMAIN C : C[r] \in Items /\ Owner[C[r]] = r /\ Dispatchable(d, C[r])
  PROVE  LET e == WriteClaims(d, C) IN
         /\ Orderly(e)
         /\ \A r \in DOMAIN C : Served(e, C[r])
         /\ \A i \in Items : Owner[i] \notin DOMAIN C =>
              (Served(d, i) => Served(e, i)) /\ (LetGo(d, i) => LetGo(e, i))
         /\ \A i \in Items : e.hold[i] => d.hold[i]
         /\ \A r \in Roles : e.focus[r] = IF r \in DOMAIN C THEN C[r] ELSE d.focus[r]
         /\ Unmarked(d) => Unmarked(e)
         /\ Awake(d) => Awake(e)
<1> DEFINE taken  == {C[r] : r \in DOMAIN C}
           phases == [i \in Items |-> IF i \in taken /\ d.phase[i] \notin InReviewPhases
                                        THEN "running" ELSE d.phase[i]]
           claims == [i \in Items |-> d.claim[i] \/ i \in taken]
           foci   == [r \in Roles |-> IF r \in DOMAIN C THEN C[r] ELSE d.focus[r]]
           queues == [r \in Roles |-> IF r \in DOMAIN C THEN d.cached[r] ELSE d.pending[r]]
           e      == WriteClaims(d, C)
<1>1. d \in Stores
  BY DEF Orderly
<1>2. e = [d EXCEPT !.phase = phases, !.claim = claims, !.focus = foci, !.pending = queues]
  BY <1>1 DEF WriteClaims, Stores
<1>3. /\ phases \in [Items -> Phases \cup {Absent}]
      /\ \A i \in Items : phases[i] = IF i \in taken /\ d.phase[i] \notin InReviewPhases
                                        THEN "running" ELSE d.phase[i]
  <2>1. "running" \in Phases /\ \A j \in Items : d.phase[j] \in Phases \cup {Absent}
    BY <1>1 DEF Stores, Phases
  <2> HIDE DEF taken
  <2> QED
    BY <2>1
<1>4. /\ claims \in [Items -> BOOLEAN]
      /\ \A i \in Items : claims[i] = (d.claim[i] \/ i \in taken)
  OBVIOUS
<1>5. /\ foci \in [Roles -> Items \cup {NoItem}]
      /\ \A r \in Roles : foci[r] = IF r \in DOMAIN C THEN C[r] ELSE d.focus[r]
  BY <1>1 DEF Stores
<1>6. queues \in [Roles -> Seq(Items)]
  BY <1>1 DEF Stores
<1>7. /\ \A i \in taken : Owner[i] \in DOMAIN C /\ C[Owner[i]] = i /\ i \in Items
                          /\ ~d.marker[i]
                          /\ d.phase[i] \in RunnablePhases \cup ResumablePhases
      /\ \A r \in DOMAIN C : C[r] \in taken
  BY DEF Dispatchable, Orphaned
<1> HIDE DEF taken, phases, claims, foci, queues, e
<1>8. e \in Stores
  BY <1>1, <1>2, <1>3, <1>4, <1>5, <1>6 DEF Stores
<1>9. /\ e.phase = phases /\ e.claim = claims /\ e.focus = foci
      /\ e.marker = d.marker /\ e.deps = d.deps /\ e.deleted = d.deleted
      /\ e.parent = d.parent /\ e.hold = d.hold
  BY <1>1, <1>2 DEF Stores
<1>10. Orderly(e)
  BY <1>3, <1>8, <1>9 DEF Orderly, Unwritten, Absent
<1>11. \A r \in DOMAIN C : Served(e, C[r])
  <2>1. TAKE r \in DOMAIN C
  <2>2. C[r] \in taken /\ C[r] \in Items /\ Owner[C[r]] = r /\ r \in Roles
    BY <1>7
  <2>3. phases[C[r]] # Absent
    BY <1>3, <1>7, <2>2 DEF RunnablePhases, ResumablePhases, InProgressPhases, InReviewPhases,
                            Absent
  <2> QED
    BY <1>5, <1>7, <1>9, <2>2, <2>3 DEF Served
<1>12. \A i \in Items : Owner[i] \notin DOMAIN C =>
         (Served(d, i) => Served(e, i)) /\ (LetGo(d, i) => LetGo(e, i))
  <2>1. \A i \in Items : Owner[i] \in Roles
    BY OwnerAssumption
  <2> QED
    BY <1>3, <1>4, <1>5, <1>7, <1>9, <2>1 DEF Served, LetGo
<1>13. ASSUME Awake(d) PROVE Awake(e)
  <2>1. SUFFICES ASSUME NEW j \in Items, e.phase[j] = "waiting_for_children"
                 PROVE  ~DepsApproved(e, j) \/ ~e.claim[j]
    BY DEF Awake, Woken
  <2>2. d.phase[j] = "waiting_for_children" /\ claims[j] = d.claim[j]
    <3>1. j \notin taken /\ d.phase[j] = "waiting_for_children"
      BY <1>3, <1>9, <2>1 DEF InReviewPhases
    <3>2. d.claim[j] \in BOOLEAN
      BY <1>1 DEF Stores
    <3> QED
      BY <1>4, <3>1, <3>2
  <2>3. DepsApproved(e, j) => DepsApproved(d, j)
    <3>1. \A k \in ActiveDeps(d, j) : k \in Items
      BY <1>1 DEF ActiveDeps, Stores
    <3> QED
      BY <1>3, <1>9, <3>1 DEF DepsApproved, ActiveDeps
  <2> QED
    BY <1>9, <1>13, <2>1, <2>2, <2>3 DEF Awake, Woken
<1>14. Unmarked(d) => Unmarked(e)
  BY <1>3, <1>7, <1>9 DEF Unmarked
<1> QED
  BY <1>5, <1>9, <1>10, <1>11, <1>12, <1>13, <1>14 DEF e

-----------------------------------------------------------------------------
(* The actions *)

(***************************************************************************)
(* A session that is not idle serves an item of its role.  One that is     *)
(* parked, or is about to park when its turn has ended, has an item that   *)
(* does not run under a held claim.                                        *)
(***************************************************************************)
Serving ==
  \A r \in Roles :
    /\ sess[r].status # "idle" => /\ sess[r].item \in Items
                                  /\ Owner[sess[r].item] = r
                                  /\ Served(db, sess[r].item)
    /\ sess[r].status = "blocked" \/ turn[r].parks => LetGo(db, sess[r].item)
    /\ turn[r].parks => turn[r].stage = "ending"

(***************************************************************************)
(* A role's focus in the store is an item of the role, which is served;    *)
(* the session works at it, or it does not run under a held claim.         *)
(***************************************************************************)
Attended ==
  \A r \in Roles : db.focus[r] # NoItem =>
    /\ Owner[db.focus[r]] = r
    /\ Served(db, db.focus[r])
    /\ sess[r] = [status |-> "running", item |-> db.focus[r]] \/ LetGo(db, db.focus[r])

Moving == Orderly(db) /\ Awake(db) /\ Serving /\ Attended

\* A step puts nothing on hold and marks nothing that is worked at.
Tame ==
  /\ \A i \in Items : db'.hold[i] => db.hold[i]
  /\ Unmarked(db) => Unmarked(db')

\* The item a role focuses on.
LEMMA FocusItem ==
  ASSUME Moving, NEW r \in Roles, db.focus[r] # NoItem
  PROVE  db.focus[r] \in Items
BY DEF Moving, Orderly, Stores

\* A step that disturbs no session and leaves the turns where they are.
LEMMA RestStep ==
  ASSUME DInv, Moving, Orderly(db'), Awake(db'), Calm(db, db'), UNCHANGED sess,
         \A r \in Roles : turn'[r].stage = turn[r].stage /\ turn'[r].parks = turn[r].parks
  PROVE  Moving' /\ Tame
<1>1. Serving'
  <2>1. SUFFICES ASSUME NEW r \in Roles
                 PROVE  /\ sess[r].status # "idle" => /\ sess[r].item \in Items
                                                      /\ Owner[sess[r].item] = r
                                                      /\ Served(db', sess[r].item)
                        /\ sess[r].status = "blocked" \/ turn[r].parks => LetGo(db', sess[r].item)
                        /\ turn[r].parks => turn[r].stage = "ending"
    BY DEF Serving
  <2>2. turn[r].parks => sess[r].status = "running"
    BY DEF Moving, Serving, DInv, InFlight
  <2>3. sess[r].status # "idle" => /\ sess[r].item \in Items
                                   /\ Owner[sess[r].item] = r
                                   /\ Served(db', sess[r].item)
    BY DEF Moving, Serving, Calm
  <2>4. sess[r].status = "blocked" \/ turn[r].parks => LetGo(db', sess[r].item)
    BY <2>2, <2>3 DEF Moving, Serving, Calm
  <2> QED
    BY <2>3, <2>4 DEF Moving, Serving
<1>2. Attended'
  <2>1. SUFFICES ASSUME NEW r \in Roles, db'.focus[r] # NoItem
                 PROVE  /\ Owner[db'.focus[r]] = r
                        /\ Served(db', db'.focus[r])
                        /\ \/ sess[r] = [status |-> "running", item |-> db'.focus[r]]
                           \/ LetGo(db', db'.focus[r])
    BY DEF Attended
  <2>2. db'.focus[r] = db.focus[r]
    BY <2>1 DEF Calm, Frees
  <2>3. db.focus[r] # NoItem /\ db.focus[r] \in Items
    BY <2>1, <2>2, FocusItem
  <2> QED
    BY <2>2, <2>3 DEF Moving, Attended, Calm
<1>3. Tame
  BY DEF Tame, Calm, Frees
<1> QED
  BY <1>1, <1>2, <1>3 DEF Moving

\* The store after a step of the turn of r, which other sessions do not notice.
LEMMA TurnEnds ==
  ASSUME DInv, Moving, NEW r \in Roles, NEW d, NEW parks \in BOOLEAN, EndTurn(r, d, parks),
         Orderly(d), Awake(d),
         \A j \in Items : Served(db, j) => Served(d, j),
         \A j \in Items : j # sess[r].item /\ LetGo(db, j) => LetGo(d, j),
         parks => LetGo(d, sess[r].item),
         Frees(db, d), Unmarked(db) => Unmarked(d)
  PROVE  Moving' /\ Tame
<1>1. /\ db' = d /\ sess' = sess
      /\ turn[r].stage = "running"
      /\ \A s \in Roles : turn'[s].parks = IF s = r THEN parks ELSE turn[s].parks
      /\ \A s \in Roles : turn'[s].stage = IF s = r THEN "ending" ELSE turn[s].stage
  BY DEF EndTurn, DInv, Turns
<1>2. sess[r].status = "running" /\ sess[r] = [status |-> "running", item |-> sess[r].item]
  BY <1>1 DEF DInv, InFlight, Sessions
<1>3. \A s \in Roles : turn[s].parks => sess[s].status = "running"
  BY DEF Moving, Serving, DInv, InFlight
<1>4. Serving'
  <2>1. SUFFICES ASSUME NEW s \in Roles
                 PROVE  /\ sess[s].status # "idle" => /\ sess[s].item \in Items
                                                      /\ Owner[sess[s].item] = s
                                                      /\ Served(d, sess[s].item)
                        /\ sess[s].status = "blocked" \/ turn'[s].parks => LetGo(d, sess[s].item)
                        /\ turn'[s].parks => turn'[s].stage = "ending"
    BY <1>1 DEF Serving
  <2>2. sess[s].status # "idle" => /\ sess[s].item \in Items
                                   /\ Owner[sess[s].item] = s
                                   /\ Served(d, sess[s].item)
    BY DEF Moving, Serving
  <2>3. sess[s].status = "blocked" \/ turn'[s].parks => LetGo(d, sess[s].item)
    <3>1. CASE s = r
      BY <1>1, <1>2, <3>1
    <3>2. CASE s # r /\ (sess[s].status = "blocked" \/ turn[s].parks)
      <4>1. LetGo(db, sess[s].item) /\ sess[s].item \in Items /\ Owner[sess[s].item] = s
        BY <1>3, <3>2 DEF Moving, Serving
      <4>2. Owner[sess[r].item] = r
        BY <1>2 DEF Moving, Serving
      <4> QED
        BY <3>2, <4>1, <4>2
    <3> QED
      BY <1>1, <3>1, <3>2
  <2> QED
    BY <1>1, <2>2, <2>3 DEF Moving, Serving
<1>5. Attended'
  <2>1. SUFFICES ASSUME NEW s \in Roles, d.focus[s] # NoItem
                 PROVE  /\ Owner[d.focus[s]] = s
                        /\ Served(d, d.focus[s])
                        /\ \/ sess[s] = [status |-> "running", item |-> d.focus[s]]
                           \/ LetGo(d, d.focus[s])
    BY <1>1 DEF Attended
  <2>2. d.focus[s] = db.focus[s]
    BY <2>1 DEF Frees
  <2>3. db.focus[s] # NoItem /\ db.focus[s] \in Items
    BY <2>1, <2>2, FocusItem
  <2>4. Owner[d.focus[s]] = s /\ Served(d, d.focus[s])
    BY <2>2, <2>3 DEF Moving, Attended
  <2>5. CASE d.focus[s] = sess[r].item
    <3>1. s = r
      BY <1>2, <2>4, <2>5 DEF Moving, Serving
    <3> QED
      BY <1>2, <2>4, <2>5, <3>1
  <2>6. CASE d.focus[s] # sess[r].item
    BY <2>2, <2>3, <2>4, <2>6 DEF Moving, Attended
  <2> QED
    BY <2>5, <2>6
<1>6. Tame
  BY <1>1 DEF Tame, Frees
<1> QED
  BY <1>1, <1>4, <1>5, <1>6 DEF Moving

\* Which item a turn works at, and that it ends without having parked.
LEMMA Worker ==
  ASSUME DInv, Moving, NEW r \in Roles, InFlight(r)
  PROVE  /\ sess[r].status = "running"
         /\ sess[r].item \in Items
         /\ Owner[sess[r].item] = r
         /\ Served(db, sess[r].item)
         /\ db.phase[sess[r].item] \in Phases \ Unwritten
<1>1. /\ sess[r].status = "running"
      /\ sess[r].item \in Items
      /\ Owner[sess[r].item] = r
      /\ Served(db, sess[r].item)
  BY DEF DInv, Moving, Serving
<1> QED
  BY <1>1 DEF Served, Moving, Orderly, Stores

\* A turn that starts runs its item: no other session has it.
LEMMA StartTurnMoves ==
  ASSUME DInv, Moving, NEW r \in Roles, StartTurn(r)
  PROVE  Moving' /\ Tame
<1> DEFINE i == sess[r].item
           d == Transition(db, i, "running")
<1>1. /\ db' = d /\ sess' = sess
      /\ turn[r].stage \in {"claimed", "running"}
      /\ \A s \in Roles : turn'[s].parks = turn[s].parks
      /\ \A s \in Roles \ {r} : turn'[s].stage = turn[s].stage
  BY DEF StartTurn, DInv, Turns
<1>2. InFlight(r) /\ ~turn[r].parks
  BY <1>1 DEF InFlight, Moving, Serving
<1>3. /\ i \in Items /\ Owner[i] = r /\ sess[r].status = "running"
      /\ Served(db, i)
      /\ sess[r] = [status |-> "running", item |-> i]
  BY <1>2, Worker DEF DInv, Sessions
<1>4. /\ Orderly(d)
      /\ Awake(d)
      /\ \A j \in Items : /\ Served(db, j) => Served(d, j)
                          /\ j # i /\ LetGo(db, j) => LetGo(d, j)
      /\ Frees(db, d)
      /\ Unmarked(db) => Unmarked(d)
  <2>1. "running" \in Phases \ Unwritten
    BY DEF Phases, Unwritten
  <2>2. Frees(db, db) /\ ~db.marker[i]
    BY <1>3 DEF Frees, Served
  <2>3. Orderly(db) /\ Awake(db)
    BY DEF Moving
  <2> DEFINE e == SavePhase(db, i, "running")
  <2>4. /\ Orderly(e) /\ Awake(e) /\ Frees(db, e) /\ (Unmarked(db) => Unmarked(e))
        /\ \A j \in Items : /\ Served(db, j) => Served(e, j)
                            /\ j # i /\ LetGo(db, j) => LetGo(e, j)
    BY <1>3, <2>1, <2>2, <2>3, SavePhaseFacts
  <2>5. d \in {e, db}
    BY DEF Transition
  <2> HIDE DEF d, e
  <2> QED
    BY <2>2, <2>3, <2>4, <2>5
<1> HIDE DEF d, i
<1>5. \A s \in Roles : turn[s].parks => sess[s].status = "running"
  BY DEF Moving, Serving, DInv, InFlight
<1>6. Serving'
  <2>1. SUFFICES ASSUME NEW s \in Roles
                 PROVE  /\ sess[s].status # "idle" => /\ sess[s].item \in Items
                                                      /\ Owner[sess[s].item] = s
                                                      /\ Served(d, sess[s].item)
                        /\ sess[s].status = "blocked" \/ turn[s].parks => LetGo(d, sess[s].item)
                        /\ turn[s].parks => turn'[s].stage = "ending"
    BY <1>1 DEF Serving
  <2>2. sess[s].status # "idle" => /\ sess[s].item \in Items
                                   /\ Owner[sess[s].item] = s
                                   /\ Served(d, sess[s].item)
    BY <1>4 DEF Moving, Serving
  <2>3. ASSUME sess[s].status = "blocked" \/ turn[s].parks PROVE LetGo(d, sess[s].item)
    <3>1. s # r
      BY <1>2, <1>3, <2>3
    <3>2. LetGo(db, sess[s].item) /\ sess[s].item \in Items /\ Owner[sess[s].item] = s
      BY <1>5, <2>3 DEF Moving, Serving
    <3> QED
      BY <1>3, <1>4, <3>1, <3>2
  <2>4. turn[s].parks => turn'[s].stage = "ending"
    BY <1>1, <1>2 DEF Moving, Serving
  <2> QED
    BY <2>2, <2>3, <2>4
<1>7. Attended'
  <2>1. SUFFICES ASSUME NEW s \in Roles, d.focus[s] # NoItem
                 PROVE  /\ Owner[d.focus[s]] = s
                        /\ Served(d, d.focus[s])
                        /\ \/ sess[s] = [status |-> "running", item |-> d.focus[s]]
                           \/ LetGo(d, d.focus[s])
    BY <1>1 DEF Attended
  <2>2. d.focus[s] = db.focus[s]
    BY <1>4, <2>1 DEF Frees
  <2>3. db.focus[s] # NoItem /\ db.focus[s] \in Items
    BY <2>1, <2>2, FocusItem
  <2>4. Owner[d.focus[s]] = s /\ Served(d, d.focus[s])
    BY <1>4, <2>2, <2>3 DEF Moving, Attended
  <2>5. CASE d.focus[s] = i
    BY <1>3, <2>4, <2>5
  <2>6. CASE d.focus[s] # i
    BY <1>4, <2>2, <2>3, <2>4, <2>6 DEF Moving, Attended
  <2> QED
    BY <2>5, <2>6
<1>8. Tame
  BY <1>1, <1>4 DEF Tame, Frees
<1> QED
  BY <1>1, <1>4, <1>6, <1>7, <1>8 DEF Moving

\* The write of a phase in which nobody works disturbs no session.
LEMMA IdleWrite ==
  ASSUME NEW d, Orderly(d), Awake(d), NEW i \in Items, NEW p \in Phases \ Unwritten,
         p \notin Working
  PROVE  /\ Orderly(SavePhase(d, i, p)) /\ Awake(SavePhase(d, i, p)) /\ Calm(d, SavePhase(d, i, p))
         /\ Orderly(Transition(d, i, p)) /\ Awake(Transition(d, i, p))
         /\ Calm(d, Transition(d, i, p))
<1> DEFINE e == SavePhase(d, i, p)
<1>1. Orderly(e) /\ Awake(e) /\ Calm(d, e)
  <2>1. p \notin {"running", "waiting_for_children"}
    BY DEF Working
  <2> QED
    BY <2>1, SavePhaseFacts DEF Calm
<1>2. Transition(d, i, p) \in {e, d}
  BY DEF Transition
<1> HIDE DEF e
<1> QED
  BY <1>1, <1>2, CalmReflexive DEF e

\* A turn that ends without a result or a phase.
LEMMA SilentEndMoves ==
  ASSUME DInv, Moving, NEW r \in Roles, EndTurn(r, db, FALSE)
  PROVE  Moving' /\ Tame
BY TurnEnds DEF Moving, Frees

\* A turn that fails.
LEMMA TimesOutMoves ==
  ASSUME DInv, Moving, NEW r \in Roles, TurnTimesOut(r)
  PROVE  Moving' /\ Tame
<1> DEFINE d == Transition(db, sess[r].item, "failed")
<1>1. EndTurn(r, d, FALSE) /\ InFlight(r)
  BY DEF TurnTimesOut, EndTurn, InFlight
<1>2. sess[r].item \in Items
  BY <1>1, Worker
<1>3. Orderly(d) /\ Awake(d) /\ Calm(db, d)
  <2>1. "failed" \in Phases \ Unwritten /\ "failed" \notin Working
    BY DEF Phases, Unwritten, Working
  <2> QED
    BY <1>2, <2>1, IdleWrite DEF Moving
<1> HIDE DEF d
<1> QED
  BY <1>1, <1>3, TurnEnds DEF Calm

\* A turn that parks for a peer: whether or not the phase could be written, the
\* item does not run any more, or its claim has lapsed.
LEMMA ParkForPeerMoves ==
  ASSUME DInv, Moving, NEW r \in Roles, ParkForPeer(r)
  PROVE  Moving' /\ Tame
<1> DEFINE i == sess[r].item
           d == Transition(db, i, "waiting_for_peer")
<1>1. EndTurn(r, d, TRUE) /\ InFlight(r)
  BY DEF ParkForPeer, EndTurn, InFlight
<1>2. i \in Items /\ db.phase[i] \in Phases
  BY <1>1, Worker
<1>3. "waiting_for_peer" \in Phases \ Unwritten
  BY DEF Phases, Unwritten
<1>4. Orderly(d) /\ Awake(d) /\ Calm(db, d)
  BY <1>2, <1>3, IdleWrite DEF Moving, Working
<1>5. d.phase[i] # "running"
  <2>1. Legal("running", "waiting_for_peer")
    BY DEF Legal, AllowedTransitions, Phases, DonePhases, InProgressPhases
  <2>2. CASE Legal(db.phase[i], "waiting_for_peer")
    BY <1>2, <1>3, <2>2, SavePhaseShifts DEF Transition, DInv
  <2>3. CASE ~Legal(db.phase[i], "waiting_for_peer")
    BY <2>1, <2>3 DEF Transition
  <2> QED
    BY <2>2, <2>3
<1> HIDE DEF d, i
<1> QED
  BY <1>1, <1>4, <1>5, TurnEnds DEF Calm, LetGo, i

\* A turn that parks for its children waits for one that is not approved.
LEMMA ParkForChildrenMoves ==
  ASSUME DInv, Moving, NEW r \in Roles, ParkForChildren(r)
  PROVE  Moving' /\ Tame
<1> DEFINE i      == sess[r].item
           wait   == WaitSet(db, i)
           pruned == [db EXCEPT !.deps[i] = ActiveDeps(db, i)]
           lands  == Legal(db.phase[i], "waiting_for_children")
           filed  == [pruned EXCEPT !.deps[i] = wait]
           d      == IF lands THEN SavePhase(filed, i, "waiting_for_children") ELSE pruned
<1>1. EndTurn(r, d, lands) /\ InFlight(r) /\ Unapproved(db, wait) # {}
  BY DEF ParkForChildren, EndTurn, InFlight
<1>2. i \in Items /\ lands \in BOOLEAN
  BY <1>1, Worker DEF Legal
<1>3. Orderly(db) /\ Awake(db)
  BY DEF Moving
<1>4. /\ wait \in SUBSET Items
      /\ \A c \in wait : c # i /\ ~db.deleted[c]
  BY <1>2, <1>3 DEF WaitSet, ActiveDeps, Orderly, Stores
<1>5. PICK c \in wait : db.phase[c] # "approved"
  BY <1>1 DEF Unapproved
<1>6. Orderly(pruned) /\ Calm(db, pruned) /\ Awake(pruned)
  BY <1>2, <1>3, PrunedFacts
<1>7. pruned.phase = db.phase /\ pruned.deleted = db.deleted
  BY <1>3 DEF Orderly, Stores
<1> HIDE DEF wait, pruned, lands
<1>8. filed.phase = db.phase /\ filed.deleted = db.deleted
  BY <1>6, <1>7 DEF Orderly, Stores
<1>9. /\ Orderly(filed)
      /\ Calm(pruned, filed)
      /\ ActiveDeps(filed, i) = {j \in wait \ {i} : ~pruned.deleted[j]}
      /\ Awake(pruned) /\ Woken(filed, i) => Awake(filed)
  BY <1>2, <1>4, <1>6, DepsWrite
<1>10. c \in ActiveDeps(filed, i)
  BY <1>4, <1>7, <1>9
<1> DEFINE waiting == [filed EXCEPT !.phase[i] = "waiting_for_children"]
           parked  == SavePhase(filed, i, "waiting_for_children")
<1>11. /\ ActiveDeps(waiting, i) = ActiveDeps(filed, i)
       /\ waiting.phase[c] = filed.phase[c]
  BY <1>2, <1>4, <1>9 DEF Orderly, Stores, ActiveDeps
<1>12. /\ "waiting_for_children" \in Phases \ Unwritten
       /\ Shaped(filed)
  BY <1>9, OrderlyShape DEF Phases, Unwritten
<1> HIDE DEF filed
<1>13. ~DepsApproved(filed, i) /\ ~DepsApproved(waiting, i)
  BY <1>5, <1>8, <1>10, <1>11 DEF DepsApproved
<1>14. Awake(filed)
  BY <1>6, <1>9, <1>13 DEF Woken
<1>15. /\ Orderly(parked) /\ Awake(parked)
       /\ \A j \in Items : /\ Served(filed, j) => Served(parked, j)
                           /\ LetGo(filed, j) => LetGo(parked, j)
       /\ parked.phase[i] = "waiting_for_children"
       /\ Frees(filed, parked)
       /\ Unmarked(filed) => Unmarked(parked)
  <2>1. /\ Orderly(parked)
        /\ \A j \in Items : /\ Served(filed, j) => Served(parked, j)
                            /\ LetGo(filed, j) => LetGo(parked, j)
        /\ Frees(filed, parked)
        /\ Unmarked(filed) /\ ~filed.marker[i] => Unmarked(parked)
        /\ Awake(filed) /\ Woken(waiting, i) => Awake(parked)
    BY <1>2, <1>9, <1>12, SavePhaseFacts
  <2>2. parked.phase[i] = "waiting_for_children"
    BY <1>2, <1>12, SavePhaseShifts
  <2>3. ~filed.marker[i]
    BY <1>1, <1>2, <1>6, <1>9, Worker DEF Calm, Served
  <2>4. Woken(waiting, i)
    BY <1>13 DEF Woken
  <2> QED
    BY <1>14, <2>1, <2>2, <2>3, <2>4
<1> HIDE DEF parked, waiting
<1>16. CASE lands
  <2>1. d = parked
    BY <1>16 DEF parked
  <2>2. \A j \in Items : Served(db, j) => Served(parked, j)
    BY <1>6, <1>9, <1>15 DEF Calm
  <2>3. \A j \in Items : LetGo(db, j) => LetGo(parked, j)
    BY <1>6, <1>9, <1>15 DEF Calm
  <2>4. LetGo(parked, i)
    BY <1>15 DEF LetGo
  <2>5. Frees(db, parked) /\ (Unmarked(db) => Unmarked(parked))
    BY <1>6, <1>9, <1>15 DEF Calm, Frees
  <2> HIDE DEF d
  <2> QED
    BY <1>1, <1>2, <1>15, <1>16, <2>1, <2>2, <2>3, <2>4, <2>5, TurnEnds
<1>17. CASE ~lands
  <2>1. d = pruned
    BY <1>17
  <2> HIDE DEF d
  <2> QED
    BY <1>1, <1>2, <1>6, <1>17, <2>1, TurnEnds DEF Calm
<1> QED
  BY <1>16, <1>17

\* A turn that finishes its item parks only for the human's decision.
LEMMA FinishWorkMoves ==
  ASSUME DInv, Moving, NEW r \in Roles, FinishWork(r)
  PROVE  Moving' /\ Tame
<1> DEFINE i      == sess[r].item
           pruned == [db EXCEPT !.deps[i] = ActiveDeps(db, i)]
           target == DoneTarget(db, i)
           lands  == Legal(db.phase[i], target)
           d      == Transition(pruned, i, target)
           parks  == target = "awaiting_human" /\ lands
<1>1. EndTurn(r, d, parks) /\ InFlight(r)
  BY DEF FinishWork, EndTurn, InFlight
<1>2. i \in Items
  BY <1>1, Worker
<1>3. target \in Phases \ Unwritten /\ target \notin Working
  BY DEF DoneTarget, Phases, Unwritten, Working
<1>4. Orderly(pruned) /\ Calm(db, pruned) /\ Awake(pruned) /\ pruned.phase = db.phase
  <2>1. Orderly(db) /\ Awake(db)
    BY DEF Moving
  <2>2. pruned.phase = db.phase
    BY <2>1 DEF Orderly, Stores
  <2> QED
    BY <1>2, <2>1, <2>2, PrunedFacts
<1> HIDE DEF pruned, target
<1>5. d = IF lands THEN SavePhase(pruned, i, target) ELSE pruned
  BY <1>4 DEF Transition
<1>6. Orderly(d) /\ Awake(d) /\ Calm(pruned, d)
  BY <1>2, <1>3, <1>4, IdleWrite
<1>7. parks => d.phase[i] = "awaiting_human"
  BY <1>2, <1>3, <1>4, <1>5, OrderlyShape, SavePhaseShifts
<1>8. Calm(db, d) /\ parks \in BOOLEAN
  BY <1>4, <1>6, CalmTransitive
<1> HIDE DEF d, parks
<1> QED
  BY <1>1, <1>6, <1>7, <1>8, TurnEnds DEF Calm, LetGo

\* A new item is open, so that its parent has something to wait for.
LEMMA DelegateMoves ==
  ASSUME DInv, Moving, NEW r \in Roles, Delegate(r)
  PROVE  Moving' /\ Tame
<1> DEFINE parent == sess[r].item
           new    == Cardinality(Created(db)) + 1
           peers  == {j \in Created(db) : db.parent[j] = parent /\ ~db.deleted[j]}
           first(deps) == IF deps = {} THEN "ready" ELSE "waiting_dependencies"
           child(deps) == [db EXCEPT !.phase[new]  = first(deps),
                                     !.deps[new]   = deps,
                                     !.parent[new] = parent]
           saved(deps) == IF deps = {} THEN EnqueueBehindFocus(child(deps), {new})
                          ELSE child(deps)
<1>1. PICK deps \in SUBSET peers :
        db' = [saved(deps) EXCEPT !.deps[parent] = ActiveDeps(saved(deps), parent) \cup {new}]
  BY DEF Delegate
<1>2. /\ new \in Items
      /\ InFlight(r)
      /\ UNCHANGED <<sess, turn>>
      /\ deps \in SUBSET Items
  BY DEF Delegate, InFlight, Created
<1>3. PICK n \in Nat : Created(db) = 1..n
  BY DEF DInv
<1>4. new = n + 1
  <2>1. Cardinality(1..n) = n
    BY <1>3, FS_Interval
  <2> QED
    BY <1>3, <2>1
<1> HIDE DEF new, peers
<1>5. db.phase[new] = Absent
  <2>1. new \notin Created(db)
    BY <1>3, <1>4
  <2> QED
    BY <1>2, <2>1 DEF Created
<1>6. /\ parent \in Items /\ parent # new
  <2>1. parent \in Items /\ db.phase[parent] # Absent
    BY <1>2, Worker DEF Served
  <2> QED
    BY <1>5, <2>1
<1> DEFINE c == child(deps)
           s == saved(deps)
<1>7. Orderly(db) /\ Awake(db) /\ db \in Stores
  BY DEF Moving, Orderly
<1>8. first(deps) \in {"ready", "waiting_dependencies"}
  OBVIOUS
<1> HIDE DEF first
<1>9. /\ c \in Stores
      /\ \A j \in Items : /\ c.phase[j] = IF j = new THEN first(deps) ELSE db.phase[j]
                          /\ c.parent[j] = IF j = new THEN parent ELSE db.parent[j]
                          /\ c.deps[j] = IF j = new THEN deps ELSE db.deps[j]
      /\ c.claim = db.claim /\ c.marker = db.marker /\ c.deleted = db.deleted
      /\ c.hold = db.hold /\ c.focus = db.focus
  <2>1. first(deps) \in Phases
    BY <1>8 DEF Phases
  <2> QED
    BY <1>2, <1>6, <1>7, <2>1 DEF Stores
<1>10. s = IF deps = {} THEN EnqueueBehindFocus(c, {new}) ELSE c
  OBVIOUS
<1>11. db' = [s EXCEPT !.deps[parent] = ActiveDeps(s, parent) \cup {new}]
  BY <1>1
<1> HIDE DEF c, s, child, saved, parent
<1>12. Orderly(c)
  BY <1>5, <1>6, <1>7, <1>8, <1>9 DEF Orderly, Unwritten, Absent
<1>13. Calm(db, c)
  <2>1. (Unmarked(db) => Unmarked(c)) /\ Frees(db, c)
    BY <1>8, <1>9 DEF Unmarked, Working, Frees
  <2> QED
    BY <1>5, <1>8, <1>9, <2>1 DEF Calm, Served, LetGo
<1>14. Awake(c)
  <2>1. SUFFICES ASSUME NEW j \in Items, c.phase[j] = "waiting_for_children"
                 PROVE  ~DepsApproved(c, j) \/ ~c.claim[j]
    BY DEF Awake, Woken
  <2>2. j # new
    BY <1>8, <1>9, <2>1
  <2>3. DepsApproved(c, j) => DepsApproved(db, j)
    <3>1. \A k \in ActiveDeps(db, j) : k \in Items
      BY <1>7 DEF ActiveDeps, Stores
    <3> QED
      BY <1>8, <1>9, <2>2, <3>1 DEF DepsApproved, ActiveDeps
  <2> QED
    BY <1>7, <1>9, <2>1, <2>2, <2>3 DEF Awake, Woken
<1>15. /\ Orderly(s) /\ Calm(c, s) /\ Awake(s)
       /\ s.phase[new] # "approved" /\ ~s.deleted[new]
  <2>1. \A i \in {new} : c.phase[i] \notin Working
    BY <1>2, <1>8, <1>9 DEF Working
  <2>2. {new} \in SUBSET Items
    BY <1>2
  <2>3. c.phase[new] # "approved" /\ ~c.deleted[new]
    BY <1>2, <1>5, <1>7, <1>8, <1>9 DEF Orderly
  <2>4. Calm(c, c)
    BY CalmReflexive
  <2> QED
    BY <1>10, <1>12, <1>14, <2>1, <2>2, <2>3, <2>4, EnqueueFacts
<1> DEFINE D == ActiveDeps(s, parent) \cup {new}
<1>16. D \in SUBSET Items
  BY <1>2, <1>6, <1>15 DEF ActiveDeps, Orderly, Stores
<1>17. new \in D
  OBVIOUS
<1> HIDE DEF D
<1>18. /\ Orderly(db')
       /\ Calm(s, db')
       /\ ActiveDeps(db', parent) = {j \in D \ {parent} : ~s.deleted[j]}
       /\ Awake(s) /\ Woken(db', parent) => Awake(db')
  BY <1>6, <1>11, <1>15, <1>16, DepsWrite DEF D
<1>19. Woken(db', parent)
  <2>1. new \in ActiveDeps(db', parent)
    BY <1>6, <1>15, <1>17, <1>18
  <2>2. db'.phase = s.phase
    BY <1>11, <1>15 DEF Orderly, Stores
  <2> QED
    BY <1>15, <2>1, <2>2 DEF Woken, DepsApproved
<1>20. Calm(db, db')
  BY <1>13, <1>15, <1>18, CalmTransitive
<1> QED
  BY <1>2, <1>15, <1>18, <1>19, <1>20, RestStep

\* A session is completed: it is idle again, or blocks on the item it parked.
LEMMA CompleteClaimMoves ==
  ASSUME DInv, Moving, NEW r \in Roles, CompleteClaim(r)
  PROVE  Moving' /\ Tame
<1> DEFINE focus == IF turn[r].parks THEN sess[r].item ELSE NoItem
<1>1. /\ db' = SaveRoleSession(db, r, focus)
      /\ \A s \in Roles \ {r} : sess'[s] = sess[s] /\ turn'[s] = turn[s]
      /\ turn'[r] = NoTurn
      /\ IF turn[r].parks THEN sess'[r] = [sess[r] EXCEPT !.status = "blocked"]
                          ELSE sess'[r] = Idle
      /\ turn[r].stage = "ending"
  BY DEF CompleteClaim, DInv
<1>2. InFlight(r)
  BY <1>1 DEF InFlight
<1>3. sess[r].item \in Items /\ Owner[sess[r].item] = r /\ sess[r] \in Sessions
  BY <1>2, Worker DEF DInv
<1>4. /\ Orderly(db')
      /\ \A i \in Items : /\ Owner[i] # r \/ focus \in {NoItem, i} =>
                                (Served(db, i) => Served(db', i))
                          /\ LetGo(db, i) => LetGo(db', i)
      /\ Awake(db) => Awake(db')
      /\ \A i \in Items : db'.hold[i] => db.hold[i]
      /\ \A s \in Roles : db'.focus[s] = IF s = r THEN focus ELSE db.focus[s]
      /\ Unmarked(db) => Unmarked(db')
  <2>1. focus \in Items \cup {NoItem}
    BY <1>3
  <2> HIDE DEF focus
  <2> QED
    BY <1>1, <2>1, SaveRowFacts DEF Moving
<1>5. turn[r].parks => /\ sess'[r].status = "blocked" /\ sess'[r].item = sess[r].item
                       /\ focus = sess[r].item
  BY <1>1, <1>3 DEF Sessions
<1>6. ~turn[r].parks => sess'[r].status = "idle" /\ focus = NoItem
  BY <1>1 DEF Idle
<1> HIDE DEF focus
<1>7. Serving'
  <2>1. SUFFICES ASSUME NEW s \in Roles
                 PROVE  /\ sess'[s].status # "idle" => /\ sess'[s].item \in Items
                                                       /\ Owner[sess'[s].item] = s
                                                       /\ Served(db', sess'[s].item)
                        /\ sess'[s].status = "blocked" \/ turn'[s].parks => LetGo(db', sess'[s].item)
                        /\ turn'[s].parks => turn'[s].stage = "ending"
    BY DEF Serving
  <2>2. CASE s = r
    <3>1. ~turn'[r].parks
      BY <1>1 DEF NoTurn
    <3>2. CASE turn[r].parks
      <4>1. LetGo(db, sess[r].item) /\ Served(db, sess[r].item)
        BY <1>2, <3>2, Worker DEF Moving, Serving
      <4> QED
        BY <1>3, <1>4, <1>5, <2>2, <3>1, <3>2, <4>1
    <3>3. CASE ~turn[r].parks
      BY <1>6, <2>2, <3>1, <3>3
    <3> QED
      BY <3>2, <3>3
  <2>3. CASE s # r
    <3>1. sess'[s] = sess[s] /\ turn'[s] = turn[s]
      BY <1>1, <2>3
    <3>2. turn[s].parks => sess[s].status = "running"
      BY DEF Moving, Serving, DInv, InFlight
    <3>3. sess[s].status # "idle" => /\ sess[s].item \in Items
                                     /\ Owner[sess[s].item] = s
                                     /\ Served(db', sess[s].item)
      BY <1>4, <2>3 DEF Moving, Serving
    <3> QED
      BY <1>4, <3>1, <3>2, <3>3 DEF Moving, Serving
  <2> QED
    BY <2>2, <2>3
<1>8. Attended'
  <2>1. SUFFICES ASSUME NEW s \in Roles, db'.focus[s] # NoItem
                 PROVE  /\ Owner[db'.focus[s]] = s
                        /\ Served(db', db'.focus[s])
                        /\ \/ sess'[s] = [status |-> "running", item |-> db'.focus[s]]
                           \/ LetGo(db', db'.focus[s])
    BY DEF Attended
  <2>2. CASE s = r
    <3>1. db'.focus[s] = focus /\ turn[r].parks
      BY <1>4, <1>6, <2>1, <2>2
    <3>2. LetGo(db, sess[r].item) /\ Served(db, sess[r].item)
      BY <1>2, <3>1, Worker DEF Moving, Serving
    <3> QED
      BY <1>3, <1>4, <1>5, <2>2, <3>1, <3>2
  <2>3. CASE s # r
    <3>1. sess'[s] = sess[s] /\ db'.focus[s] = db.focus[s]
      BY <1>1, <1>4, <2>3
    <3>2. db.focus[s] # NoItem /\ db.focus[s] \in Items
      BY <2>1, <3>1, FocusItem
    <3> QED
      BY <1>4, <2>3, <3>1, <3>2 DEF Moving, Attended
  <2> QED
    BY <2>2, <2>3
<1> QED
  BY <1>4, <1>7, <1>8 DEF Moving, Tame

\* An answer of a peer touches neither the store nor the sessions.
LEMMA PeerRepliesMoves ==
  ASSUME DInv, Moving, NEW i \in Items, PeerReplies(i)
  PROVE  Moving' /\ Tame
<1>1. UNCHANGED <<db, sess, turn>>
  BY DEF PeerReplies
<1>2. Calm(db, db')
  BY <1>1, CalmReflexive
<1> QED
  BY <1>1, <1>2, RestStep DEF Moving

\* A decision in review: a phase that is neither running nor waiting.
LEMMA DecisionMoves ==
  ASSUME DInv, Moving, NEW i \in Items, UNCHANGED <<sess, turn>>,
         NEW d, Orderly(d), Calm(db, d), Awake(d),
         NEW p \in Phases \ Unwritten, p \notin Working,
         db' = SavePhase(d, i, p)
  PROVE  Moving' /\ Tame
<1>1. Orderly(db') /\ Awake(db') /\ Calm(d, db')
  BY IdleWrite
<1>2. Calm(db, db')
  BY <1>1, CalmTransitive
<1> QED
  BY <1>1, <1>2, RestStep

\* The decisions of reviewers and of the human.
LEMMA JudgeMoves ==
  ASSUME DInv, Moving, NEW i \in Items,
         Approve(i) \/ Rework(i) \/ EscalateToHuman(i) \/ HumanRejects(i)
  PROVE  Moving' /\ Tame
<1>1. UNCHANGED <<sess, turn>>
  BY DEF Approve, Rework, EscalateToHuman, HumanRejects
<1>2. {"approved", "ready_for_rework", "awaiting_human", "failed"}
        \subseteq (Phases \ Unwritten) \ Working
  BY DEF Phases, Unwritten, Working
<1>3. Orderly(db) /\ Awake(db) /\ Calm(db, db)
  BY CalmReflexive DEF Moving
<1>4. CASE HumanRejects(i)
  <2>1. db' = SavePhase(db, i, "failed")
    BY <1>4 DEF HumanRejects
  <2> QED
    BY <1>1, <1>2, <1>3, <2>1, DecisionMoves
<1>5. ASSUME NEW b \in BOOLEAN, NEW p \in {"approved", "ready_for_rework", "awaiting_human"},
             db' = SavePhase([db EXCEPT !.feedback[i] = b], i, p)
      PROVE  Moving' /\ Tame
  <2> DEFINE d == [db EXCEPT !.feedback[i] = b]
  <2>1. Orderly(d) /\ Calm(db, d) /\ Awake(d)
    BY <1>3, FeedbackFacts
  <2>2. db' = SavePhase(d, i, p)
    BY <1>5
  <2> HIDE DEF d
  <2> QED
    BY <1>1, <1>2, <2>1, <2>2, DecisionMoves
<1>f. db.feedback[i] \in BOOLEAN
  BY <1>3 DEF Orderly, Stores
<1>6. CASE Approve(i)
  BY <1>5, <1>f, <1>6 DEF Approve
<1>7. CASE Rework(i)
  BY <1>5, <1>f, <1>7 DEF Rework
<1>8. CASE EscalateToHuman(i)
  BY <1>5, <1>8 DEF EscalateToHuman
<1> QED
  BY <1>4, <1>6, <1>7, <1>8

\* The marks of an edit on the turns leave them where they are.
LEMMA OutdateStays ==
  ASSUME DInv, NEW S, Outdate(S)
  PROVE  \A r \in Roles : turn'[r].stage = turn[r].stage /\ turn'[r].parks = turn[r].parks
BY DEF Outdate, DInv, Turns

\* Approved work that is reopened.
LEMMA ReopenFacts ==
  ASSUME NEW d, Orderly(d), Awake(d), NEW i \in Items
  PROVE  LET e == ReopenApproved(d, i) IN Orderly(e) /\ Calm(d, e) /\ Awake(e)
<1> DEFINE w == [d EXCEPT !.phase[i] = "ready_for_rework", !.claim[i] = FALSE]
           e == ReopenApproved(d, i)
<1>1. d \in Stores
  BY DEF Orderly
<1>2. e = FireHooks(w, i)
  BY DEF ReopenApproved
<1>3. /\ w \in Stores
      /\ \A j \in Items : /\ w.phase[j] = IF j = i THEN "ready_for_rework" ELSE d.phase[j]
                          /\ j # i => w.claim[j] = d.claim[j]
      /\ w.deleted = d.deleted /\ w.hold = d.hold /\ w.parent = d.parent
      /\ w.marker = d.marker /\ w.focus = d.focus /\ w.deps = d.deps
  BY <1>1 DEF Stores, Phases
<1> HIDE DEF w, e
<1>4. Orderly(w)
  BY <1>3 DEF Orderly, Unwritten, Absent
<1>5. Calm(d, w)
  <2>1. (Unmarked(d) => Unmarked(w)) /\ Frees(d, w)
    BY <1>3 DEF Unmarked, Working, Frees
  <2> QED
    BY <1>3, <2>1 DEF Calm, Served, LetGo, Absent
<1>6. AwakeIfFree(w)
  <2>1. AwakeIfFree(d)
    BY AwakeWeakens
  <2> QED
    BY <1>3, <2>1 DEF AwakeIfFree
<1>7. w.phase[i] # Absent /\ w.phase[i] \in DependentRefreshTargets
  BY <1>3 DEF Absent, DependentRefreshTargets
<1>8. Orderly(e) /\ Calm(w, e) /\ Awake(e)
  BY <1>2, <1>4, <1>6, <1>7, FireHooksFacts
<1> QED
  BY <1>5, <1>8, CalmTransitive DEF e

\* An edited item has no claim left: if it waits, it is free for the loop to
\* take, whatever its new dependencies are.
LEMMA ModifyMoves ==
  ASSUME DInv, Moving, NEW i \in Items, NEW reset \in BOOLEAN, NEW deps \in NewDeps(i),
         ModifyWorkItem(i, reset, deps)
  PROVE  Moving' /\ Tame
<1> DEFINE m    == Mutated(db, {i})
           d    == [m EXCEPT !.deps[i] = deps]
           back == IF d.phase[i] \in InReviewPhases \cup {"ready_for_rework"}
                     THEN "ready_for_rework" ELSE "ready"
<1>1. /\ db' = IF ~reset THEN d
               ELSE RefreshDependents(IF d.phase[i] = "approved" THEN ReopenApproved(d, i)
                                      ELSE SavePhase(d, i, back))
      /\ Outdate({i})
      /\ UNCHANGED sess
  BY DEF ModifyWorkItem
<1>2. Orderly(db) /\ Awake(db) /\ db \in Stores
  BY DEF Moving, Orderly
<1>3. deps \in SUBSET Items
  BY <1>2 DEF NewDeps, Created, Stores
<1>4. /\ Orderly(m) /\ Calm(db, m) /\ Awake(m)
      /\ m.phase = db.phase
      /\ ~m.claim[i]
  BY <1>2, MutatedFacts
<1> HIDE DEF m
<1>5. /\ Orderly(d) /\ Calm(m, d)
      /\ Awake(m) /\ Woken(d, i) => Awake(d)
  BY <1>3, <1>4, DepsWrite
<1>6. Woken(d, i)
  <2>1. d.claim = m.claim
    BY <1>4 DEF Orderly, Stores
  <2> HIDE DEF d
  <2> QED
    BY <1>4, <2>1 DEF Woken
<1>7. Orderly(d) /\ Calm(db, d) /\ Awake(d)
  BY <1>4, <1>5, <1>6, CalmTransitive
<1>8. back \in Phases \ Unwritten /\ back \notin Working
  BY DEF Phases, Unwritten, Working
<1> HIDE DEF d, back
<1>9. Orderly(db') /\ Calm(db, db') /\ Awake(db')
  <2>1. CASE ~reset
    BY <1>1, <1>7, <2>1
  <2>2. CASE reset
    <3> DEFINE e == IF d.phase[i] = "approved" THEN ReopenApproved(d, i) ELSE SavePhase(d, i, back)
    <3>1. Orderly(e) /\ Calm(d, e) /\ Awake(e)
      BY <1>7, <1>8, ReopenFacts, IdleWrite
    <3>2. db' = RefreshDependents(e)
      BY <1>1, <2>2
    <3> HIDE DEF e
    <3> QED
      BY <1>7, <3>1, <3>2, RefreshFacts, AwakeWeakens, CalmTransitive
  <2> QED
    BY <2>1, <2>2
<1> QED
  BY <1>1, <1>9, OutdateStays, RestStep

\* A deletion wakes the items that waited for nothing but the deleted one, and
\* the refresh sees to the parents of the others.
LEMMA DeleteMoves ==
  ASSUME DInv, Moving, NEW i \in Items, DeleteWorkItem(i)
  PROVE  Moving' /\ Tame
<1> DEFINE S       == Subtree(db, i)
           live    == {j \in S : db.phase[j] \notin DonePhases}
           gone    == Cancelled(Mutated(db, S), S)
           owners  == {Owner[j] : j \in live}
           hooked  == IF live = {} THEN gone ELSE Reconcile(RefreshDependents(gone), owners)
           fewer   == [j \in Items |-> hooked.deps[j] \ {i}]
           cut     == [hooked EXCEPT !.deps = fewer]
           woken   == {j \in Items : /\ i \in hooked.deps[j] /\ cut.deps[j] = {}
                                     /\ cut.phase[j] \in {"waiting_dependencies",
                                                          "waiting_for_children"}}
           held    == [j \in Items |-> cut.claim[j] /\ j \notin woken]
           freed   == [cut EXCEPT !.claim = held]
           ready   == SaveReady(freed, woken)
<1>1. Orderly(db) /\ Awake(db) /\ S \in SUBSET Created(db) /\ S \in SUBSET Items
  BY DEF Moving, Subtree, Created
<1> HIDE DEF S
<1>2. Orderly(gone) /\ Calm(db, gone) /\ AwakeIfFree(gone)
  <2> DEFINE m == Mutated(db, S)
  <2>1. Orderly(m) /\ Calm(db, m) /\ Awake(m) /\ m.phase = db.phase
    BY <1>1, MutatedFacts
  <2> HIDE DEF m
  <2>2. S \in SUBSET Created(m)
    BY <1>1, <2>1 DEF Created
  <2>3. Orderly(Cancelled(m, S)) /\ Calm(m, Cancelled(m, S)) /\ AwakeIfFree(Cancelled(m, S))
    BY <2>1, <2>2, CancelledFacts, AwakeWeakens
  <2> QED
    BY <2>1, <2>3, CalmTransitive DEF m
<1>3. owners \in SUBSET Roles
  BY <1>1, OwnerAssumption
<1> HIDE DEF gone, owners
<1>4. Orderly(hooked) /\ Calm(db, hooked) /\ AwakeIfFree(hooked)
  <2> DEFINE e == RefreshDependents(gone)
  <2>1. Orderly(e) /\ Calm(gone, e) /\ AwakeIfFree(e)
    BY <1>2, RefreshFacts, AwakeWeakens
  <2> HIDE DEF e
  <2>2. /\ Orderly(Reconcile(e, owners)) /\ Calm(e, Reconcile(e, owners))
        /\ AwakeIfFree(Reconcile(e, owners))
    BY <1>3, <2>1, ReconcileFacts
  <2>3. Calm(db, Reconcile(e, owners))
    BY <1>2, <2>1, <2>2, CalmTransitive
  <2>4. hooked = IF live = {} THEN gone ELSE Reconcile(e, owners)
    BY DEF e
  <2> HIDE DEF hooked
  <2> QED
    BY <1>2, <2>2, <2>3, <2>4
<1>5. db' = RefreshDependents(ready) /\ Outdate(S) /\ UNCHANGED sess
  <2>1. cut = [hooked EXCEPT !.deps = [j \in Items |-> @[j] \ {i}]]
    BY <1>4 DEF Orderly, Stores
  <2>2. freed = [cut EXCEPT !.claim = [j \in Items |-> @[j] /\ j \notin woken]]
    <3>1. cut \in Stores
      BY <1>4 DEF Orderly, Stores
    <3> HIDE DEF cut, woken
    <3> QED
      BY <3>1 DEF Stores
  <2> QED
    BY <2>1, <2>2 DEF DeleteWorkItem, S, gone, owners
<1> HIDE DEF hooked, live
<1>6. /\ cut \in Stores
      /\ cut.phase = hooked.phase /\ cut.claim = hooked.claim /\ cut.marker = hooked.marker
      /\ cut.hold = hooked.hold /\ cut.parent = hooked.parent /\ cut.focus = hooked.focus
      /\ cut.deleted = hooked.deleted
      /\ \A j \in Items : cut.deps[j] = hooked.deps[j] \ {i}
  BY <1>4 DEF Orderly, Stores
<1> HIDE DEF cut
<1>7. /\ freed \in Stores
      /\ freed.phase = cut.phase /\ freed.marker = cut.marker /\ freed.deps = cut.deps
      /\ freed.hold = cut.hold /\ freed.parent = cut.parent /\ freed.focus = cut.focus
      /\ freed.deleted = cut.deleted
      /\ \A j \in Items : freed.claim[j] = (cut.claim[j] /\ j \notin woken)
  <2> HIDE DEF woken
  <2> QED
    BY <1>6 DEF Stores
<1>8. woken \in SUBSET Items /\ \A j \in Items :
        cut.phase[j] = "waiting_for_children" /\ i \in hooked.deps[j] /\ cut.deps[j] = {}
          => j \in woken
  OBVIOUS
<1> HIDE DEF freed, woken
<1>9. Orderly(freed) /\ Calm(hooked, freed)
  <2>1. Orderly(freed)
    BY <1>4, <1>6, <1>7 DEF Orderly
  <2>2. \A j \in Items : freed.claim[j] => hooked.claim[j]
    BY <1>6, <1>7
  <2>3. (Unmarked(hooked) => Unmarked(freed)) /\ Frees(hooked, freed)
    BY <1>6, <1>7 DEF Unmarked, Frees
  <2>4. Calm(hooked, freed)
    BY <1>6, <1>7, <2>2, <2>3 DEF Calm, Served, LetGo
  <2> QED
    BY <2>1, <2>4
<1>10. Overslept(freed) \subseteq woken
  <2>1. SUFFICES ASSUME NEW j \in Items, freed.phase[j] = "waiting_for_children",
                        freed.deps[j] = {}, freed.claim[j], j \notin woken
                 PROVE  FALSE
    BY DEF Overslept
  <2>2. hooked.phase[j] = "waiting_for_children" /\ hooked.deps[j] = {}
    BY <1>6, <1>7, <1>8, <2>1
  <2>3. ~hooked.claim[j]
    BY <1>4, <2>2 DEF AwakeIfFree
  <2> QED
    BY <1>6, <1>7, <2>1, <2>3
<1>11. Orderly(ready) /\ Calm(freed, ready) /\ AwakeIfFree(ready)
  BY <1>8, <1>9, <1>10, SaveReadyFacts
<1> HIDE DEF ready
<1>12. Orderly(db') /\ Calm(ready, db') /\ Awake(db')
  BY <1>5, <1>11, RefreshFacts
<1>13. Calm(db, db')
  BY <1>4, <1>9, <1>11, <1>12, CalmTransitive
<1> QED
  BY <1>5, <1>12, <1>13, OutdateStays, RestStep

\* What a tick releases, also if it raises after some of the items.
LEMMA ReleaseFacts ==
  ASSUME Moving, replied \in SUBSET Items, NEW due \in SUBSET Satisfied(db)
  PROVE  LET e == SaveReady(SaveReady(db, Unparkable(db)), due) IN
         Orderly(e) /\ Calm(db, e) /\ Awake(e)
<1> DEFINE unparked == SaveReady(db, Unparkable(db))
<1>1. Unparkable(db) \in SUBSET Items /\ due \in SUBSET Items
  BY DEF Unparkable, Satisfied
<1>2. Orderly(unparked) /\ Calm(db, unparked) /\ Awake(unparked)
  BY <1>1, SaveReadyFacts DEF Moving
<1> HIDE DEF unparked
<1>3. /\ Orderly(SaveReady(unparked, due)) /\ Calm(unparked, SaveReady(unparked, due))
      /\ Awake(SaveReady(unparked, due))
  BY <1>1, <1>2, SaveReadyFacts
<1>4. Calm(db, SaveReady(unparked, due))
  BY <1>2, <1>3, CalmTransitive
<1> QED
  BY <1>3, <1>4 DEF unparked

\* A tick that raises.
LEMMA TickRaisesMoves ==
  ASSUME DInv, Moving, replied \in SUBSET Items, TickRaises
  PROVE  Moving' /\ Tame
<1> DEFINE due == {i \in Satisfied(db) : \A j \in Satisfied(db) : db.feedback[j] => i < j}
<1>1. /\ db' = SaveReady(SaveReady(db, Unparkable(db)), due)
      /\ due \in SUBSET Satisfied(db)
      /\ UNCHANGED <<sess, turn>>
  BY DEF TickRaises
<1> HIDE DEF due
<1>2. Orderly(db') /\ Calm(db, db') /\ Awake(db')
  BY <1>1, ReleaseFacts
<1> QED
  BY <1>1, <1>2, RestStep

\* A tick: the roles that claim serve what they take, and a session that it
\* does not free keeps its item, which no other role can take.
LEMMA TickMoves ==
  ASSUME DInv, Moving, replied \in SUBSET Items, Tick
  PROVE  Moving' /\ Tame /\ replied' \in SUBSET Items /\ queue' = [r \in Roles |-> queue'[r]]
<1> DEFINE released == SaveReady(SaveReady(db, Unparkable(db)), Satisfied(db))
           d        == Reconcile(released, Roles)
           q        == [r \in Roles |-> Enqueued(d, r)]
           s        == [r \in Roles |-> Rehydrated(d, sess[r])]
           free     == {r \in Roles : s[r].status = "idle"}
           able     == {r \in free : Claimable(d, q[r]) # {}}
           claim    == [r \in able |-> q[r][FirstClaimable(d, q[r])]]
<1>1. /\ db' = WriteClaims(d, claim)
      /\ sess' = [r \in Roles |-> IF r \in able THEN [status |-> "running", item |-> claim[r]]
                                  ELSE s[r]]
      /\ turn' = [r \in Roles |-> IF r \in able THEN [NoTurn EXCEPT !.stage = "claimed"]
                                  ELSE turn[r]]
      /\ queue' = [r \in Roles |-> queue'[r]]
  <2>1. ClaimWork(d, q, s)
    BY DEF Tick
  <2> HIDE DEF d, q, s
  <2> QED
    BY <2>1 DEF ClaimWork
<1>2. replied' \in SUBSET Items
  BY DEF Tick
<1>3. Orderly(d) /\ Calm(db, d) /\ Awake(d)
  <2>1. Orderly(released) /\ Calm(db, released) /\ Awake(released)
    BY ReleaseFacts
  <2> HIDE DEF released
  <2> QED
    BY <2>1, ReconcileFacts, CalmTransitive
<1> HIDE DEF d
<1>4. \A r \in Roles : q[r] \in Seq(OwnedBy(r))
  BY EnqueuedOwned
<1>5. \A r \in Roles : /\ s[r] \in {Idle, sess[r]}
                       /\ sess[r].status = "running" => s[r] = sess[r]
  BY DEF Rehydrated
<1> HIDE DEF q, s
<1>6. \A r \in able : /\ r \in Roles
                      /\ claim[r] \in Items /\ Owner[claim[r]] = r
                      /\ Dispatchable(d, claim[r])
  <2>1. TAKE r \in able
  <2>2. r \in Roles /\ Claimable(d, q[r]) # {} /\ q[r] \in Seq(OwnedBy(r))
    BY <1>4
  <2>3. FirstClaimable(d, q[r]) \in Claimable(d, q[r])
    BY <2>2, FirstIsClaimable
  <2>4. DOMAIN q[r] = 1..Len(q[r])
    BY <2>2, LenProperties
  <2>5. FirstClaimable(d, q[r]) \in 1..Len(q[r]) /\ Dispatchable(d, q[r][FirstClaimable(d, q[r])])
    BY <2>3, <2>4 DEF Claimable
  <2>6. q[r][FirstClaimable(d, q[r])] \in OwnedBy(r)
    BY <2>2, <2>5, ElementOfSeq
  <2> QED
    BY <2>2, <2>5, <2>6 DEF OwnedBy
<1>7. DOMAIN claim = able /\ able \subseteq Roles
  OBVIOUS
<1>8. \A r \in able : r \in Roles /\ s[r].status = "idle"
  OBVIOUS
<1> HIDE DEF claim, able
<1>9. /\ Orderly(db')
      /\ \A r \in able : Served(db', claim[r])
      /\ \A i \in Items : Owner[i] \notin able =>
           (Served(d, i) => Served(db', i)) /\ (LetGo(d, i) => LetGo(db', i))
      /\ Awake(db')
      /\ \A i \in Items : db'.hold[i] => d.hold[i]
      /\ \A r \in Roles : db'.focus[r] = IF r \in able THEN claim[r] ELSE d.focus[r]
      /\ Unmarked(d) => Unmarked(db')
  BY <1>1, <1>3, <1>6, <1>7, ClaimsFacts
<1>10. Serving'
  <2>1. SUFFICES ASSUME NEW r \in Roles
                 PROVE  /\ sess'[r].status # "idle" => /\ sess'[r].item \in Items
                                                       /\ Owner[sess'[r].item] = r
                                                       /\ Served(db', sess'[r].item)
                        /\ sess'[r].status = "blocked" \/ turn'[r].parks => LetGo(db', sess'[r].item)
                        /\ turn'[r].parks => turn'[r].stage = "ending"
    BY DEF Serving
  <2>2. CASE r \in able
    <3>1. sess'[r] = [status |-> "running", item |-> claim[r]] /\ ~turn'[r].parks
      BY <1>1, <2>2 DEF NoTurn
    <3> QED
      BY <1>6, <1>9, <2>2, <3>1
  <2>3. CASE r \notin able
    <3>1. sess'[r] = s[r] /\ turn'[r] = turn[r]
      BY <1>1, <2>3
    <3>2. turn[r].parks => sess[r].status = "running"
      BY DEF Moving, Serving, DInv, InFlight
    <3>3. CASE s[r] = sess[r]
      <4>1. sess[r].status # "idle" => /\ sess[r].item \in Items
                                       /\ Owner[sess[r].item] = r
                                       /\ Served(db', sess[r].item)
        BY <1>3, <1>9, <2>3 DEF Moving, Serving, Calm
      <4>2. sess[r].status = "blocked" \/ turn[r].parks => LetGo(db', sess[r].item)
        BY <1>3, <1>9, <2>3, <3>2, <4>1 DEF Moving, Serving, Calm
      <4> QED
        BY <3>1, <3>3, <4>1, <4>2 DEF Moving, Serving
    <3>4. CASE s[r] = Idle /\ s[r] # sess[r]
      BY <1>5, <3>1, <3>2, <3>4 DEF Idle
    <3> QED
      BY <1>5, <3>3, <3>4
  <2> QED
    BY <2>2, <2>3
<1>11. Attended'
  <2>1. SUFFICES ASSUME NEW r \in Roles, db'.focus[r] # NoItem
                 PROVE  /\ Owner[db'.focus[r]] = r
                        /\ Served(db', db'.focus[r])
                        /\ \/ sess'[r] = [status |-> "running", item |-> db'.focus[r]]
                           \/ LetGo(db', db'.focus[r])
    BY DEF Attended
  <2>2. CASE r \in able
    BY <1>1, <1>6, <1>9, <2>2
  <2>3. CASE r \notin able
    <3> DEFINE j == db'.focus[r]
    <3>1. j = db.focus[r]
      BY <1>3, <1>9, <2>1, <2>3 DEF Calm, Frees
    <3>2. j \in Items
      BY <2>1, <3>1, FocusItem
    <3>3. /\ Owner[j] = r /\ Served(db, j)
          /\ sess[r] = [status |-> "running", item |-> j] \/ LetGo(db, j)
      BY <2>1, <3>1 DEF Moving, Attended
    <3>4. sess[r] = [status |-> "running", item |-> j] => sess'[r] = sess[r]
      BY <1>1, <1>5, <2>3
    <3> HIDE DEF j
    <3>5. Served(db', j) /\ (LetGo(db, j) => LetGo(db', j))
      BY <1>3, <1>9, <2>3, <3>2, <3>3 DEF Calm
    <3> QED
      BY <3>3, <3>4, <3>5 DEF j
  <2> QED
    BY <2>2, <2>3
<1>12. Tame
  BY <1>3, <1>9 DEF Tame, Calm, Frees
<1> QED
  BY <1>1, <1>2, <1>9, <1>10, <1>11, <1>12 DEF Moving

-----------------------------------------------------------------------------
(* The invariant *)

(***************************************************************************)
(* The rest of what the types say: the board's invariant knows the members *)
(* of the in-memory queues.                                                *)
(***************************************************************************)
Rows ==
  /\ queue = [r \in Roles |-> queue[r]]
  /\ replied \in SUBSET Items
  /\ edits \in 0..MaxEdits
  /\ loop \in {"running", "crashed"}

MovingInv == DInv /\ Moving /\ Rows

\* The invariant types every variable.
LEMMA MovingTypes == ASSUME MovingInv PROVE TypeOK
<1>1. \A r \in Roles : queue[r] \in Seq(Items)
  <2>1. TAKE r \in Roles
  <2>2. queue[r] \in Seq(OwnedBy(r)) /\ OwnedBy(r) \subseteq Items
    BY DEF MovingInv, DInv, OwnedBy
  <2> QED
    BY <2>2, SeqMonotonic
<1>2. queue \in [Roles -> Seq(Items)]
  BY <1>1 DEF MovingInv, Rows
<1> QED
  BY <1>2 DEF MovingInv, DInv, Moving, Orderly, Rows, TypeOK

\* The invariant holds at first.
LEMMA InitMoves == Init => MovingInv
<1> SUFFICES ASSUME Init PROVE MovingInv
  OBVIOUS
<1>1. DInv
  BY InitDInv
<1>2. /\ db \in Stores
      /\ \A i \in Items : /\ db.phase[i] \in {"ready", Absent}
                          /\ ~db.hold[i] /\ ~db.deleted[i] /\ db.parent[i] = NoItem
  <2>1. "ready" \in Phases /\ << >> \in Seq(Items)
    BY EmptySeq DEF Phases
  <2> QED
    BY <2>1 DEF Init, Stores
<1>3. Orderly(db)
  BY <1>2, NoItemAssumption DEF Orderly, Unwritten, Absent
<1>4. Awake(db)
  BY <1>2 DEF Awake, Woken, Absent
<1>5. Serving /\ Attended
  BY DEF Init, Idle, NoTurn, Serving, Attended
<1>6. Rows
  BY MaxEditsAssumption DEF Init, Rows
<1> QED
  BY <1>1, <1>3, <1>4, <1>5, <1>6 DEF MovingInv, Moving

\* Every step preserves it.
LEMMA NextMoves == MovingInv /\ [Next]_vars => MovingInv' /\ Tame
<1> SUFFICES ASSUME MovingInv, [Next]_vars PROVE MovingInv' /\ Tame
  OBVIOUS
<1>1. DInv /\ Moving /\ Rows /\ edits \in 0..MaxEdits /\ MaxEdits \in Nat
  BY MaxEditsAssumption DEF MovingInv, Rows
<1>2. edits \in Nat
  BY <1>1
<1>3. DInv'
  BY <1>1, <1>2, NextDInv
<1>4. edits' \in 0..MaxEdits
  <2>1. edits' \in 0..edits
    BY <1>2, EditsCounted
  <2> QED
    BY <1>1, <2>1
<1> DEFINE Kept == /\ queue' = [r \in Roles |-> queue'[r]]
                   /\ replied' \in SUBSET Items
                   /\ loop' \in {"running", "crashed"}
<1>5. Moving' /\ Tame /\ Kept
  <2>1. CASE UNCHANGED vars
    <3>1. UNCHANGED <<db, sess, turn, queue, replied, loop>>
      BY <2>1 DEF vars
    <3>2. Calm(db, db')
      BY <3>1, CalmReflexive
    <3> QED
      BY <1>1, <3>1, <3>2, RestStep DEF Moving, Rows
  <2>2. CASE Tick
    <3>1. loop' = loop
      BY <2>2 DEF Tick
    <3> QED
      BY <1>1, <2>2, <3>1, TickMoves DEF Rows
  <2>3. CASE TickRaises
    <3>1. queue' = queue /\ loop' = "crashed" /\ replied' \in SUBSET Items
      BY <1>1, <2>3 DEF TickRaises, Rows
    <3> QED
      BY <1>1, <2>3, <3>1, TickRaisesMoves DEF Rows
  <2>4. ASSUME NEW r \in Roles, TurnStep(r) PROVE Moving' /\ Tame /\ Kept
    <3>1. UNCHANGED <<queue, replied, loop>>
      <4>1. CASE \E d, parks : EndTurn(r, d, parks)
        BY <4>1 DEF EndTurn
      <4>2. CASE StartTurn(r)
        BY <4>2 DEF StartTurn
      <4>3. CASE Delegate(r)
        BY <4>3 DEF Delegate
      <4>4. CASE CompleteClaim(r)
        BY <4>4 DEF CompleteClaim
      <4> QED
        BY <2>4, <4>1, <4>2, <4>3, <4>4
        DEF TurnStep, TurnGoesOn, DropStaleResult, ParkForPeer, ParkForChildren, FinishWork,
            TurnTimesOut, TurnReturnsFailure
    <3>2. Moving' /\ Tame
      <4>1. CASE StartTurn(r)
        BY <1>1, <4>1, StartTurnMoves
      <4>2. CASE Delegate(r)
        BY <1>1, <4>2, DelegateMoves
      <4>3. CASE DropStaleResult(r) \/ TurnReturnsFailure(r)
        BY <1>1, <4>3, SilentEndMoves DEF DropStaleResult, TurnReturnsFailure
      <4>4. CASE ParkForPeer(r)
        BY <1>1, <4>4, ParkForPeerMoves
      <4>5. CASE ParkForChildren(r)
        BY <1>1, <4>5, ParkForChildrenMoves
      <4>6. CASE FinishWork(r)
        BY <1>1, <4>6, FinishWorkMoves
      <4>7. CASE TurnTimesOut(r)
        BY <1>1, <4>7, TimesOutMoves
      <4>8. CASE CompleteClaim(r)
        BY <1>1, <4>8, CompleteClaimMoves
      <4> QED
        BY <2>4, <4>1, <4>2, <4>3, <4>4, <4>5, <4>6, <4>7, <4>8 DEF TurnStep, TurnGoesOn
    <3> QED
      BY <1>1, <3>1, <3>2 DEF Rows
  <2>5. ASSUME NEW i \in Items, BoardStep(i) PROVE Moving' /\ Tame /\ Kept
    <3>1. CASE PeerReplies(i)
      <4>1. queue' = queue /\ loop' = loop /\ replied' = replied \cup {i}
        BY <3>1 DEF PeerReplies
      <4> QED
        BY <1>1, <3>1, <4>1, PeerRepliesMoves DEF Rows
    <3>2. CASE Approve(i) \/ Rework(i) \/ EscalateToHuman(i) \/ HumanRejects(i)
      <4>1. UNCHANGED <<queue, replied, loop>>
        BY <3>2 DEF Approve, Rework, EscalateToHuman, HumanRejects
      <4> QED
        BY <1>1, <3>2, <4>1, JudgeMoves DEF Rows
    <3>3. ASSUME NEW reset \in BOOLEAN, NEW deps \in NewDeps(i), ModifyWorkItem(i, reset, deps)
          PROVE  Moving' /\ Tame /\ Kept
      <4>1. UNCHANGED <<queue, replied, loop>>
        BY <3>3 DEF ModifyWorkItem
      <4> QED
        BY <1>1, <3>3, <4>1, ModifyMoves DEF Rows
    <3>4. CASE DeleteWorkItem(i)
      <4>1. UNCHANGED <<queue, replied, loop>>
        BY <3>4 DEF DeleteWorkItem
      <4> QED
        BY <1>1, <3>4, <4>1, DeleteMoves DEF Rows
    <3> QED
      BY <2>5, <3>1, <3>2, <3>3, <3>4 DEF BoardStep
  <2> QED
    BY <2>1, <2>2, <2>3, <2>4, <2>5 DEF Next
<1> QED
  BY <1>3, <1>4, <1>5 DEF MovingInv, Rows

LEMMA MovingInvariant == Spec => []MovingInv
BY InitMoves, NextMoves, PTL DEF Spec

(***************************************************************************)
(* While no run is stopped nothing is on hold, and what is worked at is    *)
(* not queued behind anything.                                             *)
(***************************************************************************)
Unstopped == Unmarked(db) /\ \A i \in Items : ~db.hold[i]

LEMMA NeverStopped == Spec => [](MovingInv /\ Unstopped)
<1>1. Init => Unstopped
  BY DEF Init, Unstopped, Unmarked
<1>2. MovingInv /\ Unstopped /\ [Next]_vars => Unstopped'
  BY NextMoves DEF Unstopped, Tame
<1> QED
  BY <1>1, <1>2, InitMoves, NextMoves, PTL DEF Spec

\* The next tick finds an item that is free and waits for its children.
LEMMA FreeIsDispatchable ==
  ASSUME NEW d, NEW i \in Items, d.phase[i] = "waiting_for_children",
         ~d.claim[i], ~d.marker[i], ~d.hold[i]
  PROVE  Dispatchable(d, i)
BY DEF Dispatchable, Orphaned, ResumablePhases, InProgressPhases

(***************************************************************************)
(* Whatever the loop, the turns, the reviewers and the edits write, the    *)
(* store, the sessions, the turns and the queues keep their types.         *)
(***************************************************************************)
THEOREM DispatchTypes == Spec => []TypeOK
BY MovingInvariant, MovingTypes, PTL

(***************************************************************************)
(* No lost wake-up: however the parking of a parent, the approvals of its  *)
(* children, refreshes and edits interleave, a parent waits only for a     *)
(* child that is not approved, or the next tick finds it.                  *)
(***************************************************************************)
THEOREM NoWakeupIsLost == Spec => []NoLostWakeup
<1>1. MovingInv /\ Unstopped => NoLostWakeup
  BY FreeIsDispatchable
     DEF MovingInv, Moving, Awake, Woken, NoLostWakeup, Unstopped, Unmarked, Working
<1> QED
  BY <1>1, NeverStopped, PTL

(***************************************************************************)
(* A parked session has a waker: its item waits for somebody, is finished, *)
(* or is dispatchable, and the next tick frees the session.                *)
(***************************************************************************)
THEOREM ParkedSessionsHaveWakers == Spec => []BlockedHasWaker
<1>1. MovingInv /\ Unstopped => BlockedHasWaker
  <2>1. SUFFICES ASSUME MovingInv, Unstopped, NEW r \in Roles, sess[r].status = "blocked"
                 PROVE  \/ db.phase[sess[r].item] \in InReviewPhases \cup DonePhases
                             \cup {"waiting_for_peer", "waiting_for_children",
                                   "waiting_dependencies"}
                        \/ Dispatchable(db, sess[r].item)
    BY DEF BlockedHasWaker
  <2> DEFINE i == sess[r].item
  <2>2. i \in Items /\ Served(db, i) /\ LetGo(db, i)
    BY <2>1 DEF MovingInv, Moving, Serving
  <2>3. db.phase[i] \in Phases \ Unwritten /\ ~db.hold[i]
    BY <2>1, <2>2 DEF MovingInv, Moving, Orderly, Stores, Served, Unstopped
  <2>4. CASE db.phase[i] \in {"ready", "ready_for_rework", "running"}
    BY <2>2, <2>3, <2>4
       DEF Dispatchable, Orphaned, Served, LetGo, RunnablePhases, ResumablePhases,
           InProgressPhases
  <2>5. CASE db.phase[i] \notin {"ready", "ready_for_rework", "running"}
    BY <2>3, <2>5 DEF Phases, Unwritten, InReviewPhases, DonePhases
  <2> QED
    BY <2>4, <2>5
<1> QED
  BY <1>1, NeverStopped, PTL

-----------------------------------------------------------------------------
(* Dependencies *)

(***************************************************************************)
(* From d to e: an item that waits for its dependencies goes on waiting,   *)
(* ends, or has all of them approved (Patient); and what is approved or    *)
(* ended stays so, with no new dependency for anybody (Steady).            *)
(***************************************************************************)
Ended == {"failed", "cancelled"}

Patient(d, e) ==
  \A i \in Items :
    d.phase[i] = "waiting_dependencies" =>
      e.phase[i] \in {"waiting_dependencies"} \cup Ended \/ DepsApproved(e, i)

Steady(d, e) ==
  \A i \in Items : /\ d.phase[i] \in Ended => e.phase[i] \in Ended
                   /\ DepsApproved(d, i) => DepsApproved(e, i)

\* A steady step after a patient one does not undo what that one waited for.
LEMMA PatientThenSteady ==
  ASSUME NEW d, NEW e, NEW f, Patient(d, e), Patient(e, f), Steady(e, f)
  PROVE  Patient(d, f)
BY DEF Patient, Steady

LEMMA SteadyTransitive ==
  ASSUME NEW d, NEW e, NEW f, Steady(d, e), Steady(e, f)
  PROVE  Steady(d, f)
BY DEF Steady

\* Whatever else is written, nothing that waits moves with the phases unchanged.
LEMMA SamePhasesWait ==
  ASSUME NEW d, NEW e, \A i \in Items : d.phase[i] = "waiting_dependencies" =>
                         e.phase[i] = "waiting_dependencies"
  PROVE  Patient(d, e)
BY DEF Patient

\* Approved dependencies stay approved while nothing approved is taken back
\* and no dependency is added.
LEMMA ApprovedStay ==
  ASSUME NEW d \in Stores, NEW e,
         \A i \in Items : d.phase[i] = "approved" => e.phase[i] = "approved",
         \A i \in Items : d.phase[i] \in Ended => e.phase[i] \in Ended,
         \A i \in Items : ActiveDeps(e, i) \subseteq ActiveDeps(d, i)
  PROVE  Steady(d, e)
<1>1. \A i \in Items : ActiveDeps(d, i) \subseteq Items
  BY DEF ActiveDeps, Stores
<1> QED
  BY <1>1 DEF Steady, DepsApproved

\* Writes of other fields.
LEMMA OtherFieldsWait ==
  ASSUME NEW d \in Stores, NEW e, e.phase = d.phase, e.deps = d.deps, e.deleted = d.deleted
  PROVE  Patient(d, e) /\ Steady(d, e)
<1>1. \A i \in Items : ActiveDeps(e, i) = ActiveDeps(d, i)
  BY DEF ActiveDeps
<1> QED
  BY <1>1, ApprovedStay, SamePhasesWait

LEMMA EnqueueWaits ==
  ASSUME NEW d \in Stores, NEW S
  PROVE  LET e == EnqueueBehindFocus(d, S) IN
         Patient(d, e) /\ Steady(d, e) /\ e.phase = d.phase /\ e.deps = d.deps
<1>1. /\ EnqueueBehindFocus(d, S).phase = d.phase
      /\ EnqueueBehindFocus(d, S).deps = d.deps
      /\ EnqueueBehindFocus(d, S).deleted = d.deleted
  BY DEF EnqueueBehindFocus, Stores
<1> QED
  BY <1>1, OtherFieldsWait

LEMMA ReconcileWaits ==
  ASSUME NEW d \in Stores, NEW R
  PROVE  Patient(d, Reconcile(d, R)) /\ Steady(d, Reconcile(d, R))
<1>1. /\ Reconcile(d, R).phase = d.phase
      /\ Reconcile(d, R).deps = d.deps
      /\ Reconcile(d, R).deleted = d.deleted
  BY DEF Reconcile, Stores
<1> QED
  BY <1>1, OtherFieldsWait

\* A refresh decides on the store it found: what it releases has only approved
\* dependencies, it takes no approval back, and it holds what should wait.
LEMMA RefreshWaits ==
  ASSUME NEW d, Orderly(d)
  PROVE  LET e == RefreshDependents(d) IN
         /\ Patient(d, e)
         /\ Steady(d, e)
         /\ \A i \in Items : d.phase[i] = "ready" =>
              e.phase[i] = "waiting_dependencies" \/ DepsApproved(e, i)
<1> DEFINE target  == [i \in Items |-> FrontierTarget(d, i)]
           allowed == {i \in Created(d) : Legal(d.phase[i], target[i])}
           moved   == {i \in allowed : target[i] # d.phase[i]}
           phases  == [i \in Items |-> IF i \in moved THEN target[i] ELSE d.phase[i]]
           deps    == [i \in Items |-> IF i \in allowed THEN ActiveDeps(d, i) ELSE d.deps[i]]
           synths  == [i \in Items |-> d.synth[i] \/ (i \in moved /\ EntersSynthesis(d, i))]
           claims  == [i \in Items |-> d.claim[i] /\ i \notin ClaimLapses(d, moved)]
           written == [d EXCEPT !.phase = phases, !.deps = deps, !.synth = synths,
                                !.claim = claims]
           runs    == {i \in moved : target[i] \in RunnablePhases}
           e       == RefreshDependents(d)
<1>1. d \in Stores
  BY DEF Orderly
<1>2. e = EnqueueBehindFocus(written, runs)
  BY <1>1 DEF RefreshDependents, Stores
<1>3. \A i \in Items : target[i] = FrontierTarget(d, i)
  OBVIOUS
<1>4. \A i \in Items : i \in moved <=> /\ d.phase[i] # Absent
                                       /\ Legal(d.phase[i], target[i])
                                       /\ target[i] # d.phase[i]
  BY DEF Created
<1>5. \A i \in Items : phases[i] = IF i \in moved THEN target[i] ELSE d.phase[i]
  OBVIOUS
<1>6. \A i \in Items : deps[i] \in {d.deps[i], ActiveDeps(d, i)}
  BY <1>1
<1> HIDE DEF target, allowed, moved, phases, deps, synths, claims, runs, e
<1>7. e.phase = phases /\ e.deps = deps /\ e.deleted = d.deleted
  BY <1>1, <1>2 DEF EnqueueBehindFocus, Stores
<1>8. \A i \in Items : ActiveDeps(e, i) \subseteq ActiveDeps(d, i)
  BY <1>6, <1>7 DEF ActiveDeps
<1>9. \A i \in Items : d.phase[i] \in DonePhases => phases[i] = d.phase[i]
  <2>1. \A i \in Items : d.phase[i] \in DonePhases => target[i] = d.phase[i]
    BY <1>3 DEF FrontierTarget, Released, Held, DonePhases
  <2> QED
    BY <1>5, <2>1
<1>10. Steady(d, e)
  BY <1>1, <1>7, <1>8, <1>9, ApprovedStay DEF DonePhases, Ended
<1>11. ASSUME NEW i \in Items, d.phase[i] \in {"ready", "waiting_dependencies"}, ~DepsApproved(d, i)
       PROVE  e.phase[i] = "waiting_dependencies"
  <2>1. d.deps[i] # {}
    BY <1>11 DEF DepsApproved, ActiveDeps
  <2>2. target[i] = "waiting_dependencies"
    BY <1>3, <1>11, <2>1 DEF FrontierTarget, Held
  <2>3. Legal("ready", "waiting_dependencies") /\ d.phase[i] # Absent
    BY <1>11 DEF Legal, AllowedTransitions, Phases, DonePhases, InProgressPhases, UniversalExits,
                 RecoveryExits, Absent
  <2> QED
    BY <1>4, <1>5, <1>7, <1>11, <2>2, <2>3
<1>12. \A i \in Items : d.phase[i] \in {"ready", "waiting_dependencies"} =>
         e.phase[i] = "waiting_dependencies" \/ DepsApproved(e, i)
  BY <1>10, <1>11 DEF Steady
<1> QED
  BY <1>10, <1>12 DEF Patient, e

\* The hooks of a phase write.
LEMMA FireHooksWait ==
  ASSUME NEW d, Orderly(d), NEW i \in Items
  PROVE  Patient(d, FireHooks(d, i)) /\ Steady(d, FireHooks(d, i))
<1> DEFINE p         == d.phase[i]
           refreshed == IF p \in DependentRefreshTargets THEN RefreshDependents(d) ELSE d
           unfocused == [refreshed EXCEPT !.focus[Owner[i]] = IF @ = i THEN NoItem ELSE @]
           cleared   == IF p \in DonePhases THEN Reconcile(unfocused, {Owner[i]}) ELSE refreshed
<1>1. FireHooks(d, i) = IF p \in RunnablePhases THEN EnqueueBehindFocus(cleared, {i}) ELSE cleared
  BY DEF FireHooks, ClearFocus
<1>2. d \in Stores /\ Owner[i] \in Roles
  BY OwnerAssumption DEF Orderly
<1>3. Patient(d, d) /\ Steady(d, d)
  BY DEF Patient, Steady
<1>4. refreshed \in Stores /\ Patient(d, refreshed) /\ Steady(d, refreshed)
  BY <1>2, <1>3, RefreshFacts, RefreshWaits DEF Orderly
<1> HIDE DEF refreshed
<1>5. unfocused \in Stores /\ Patient(refreshed, unfocused) /\ Steady(refreshed, unfocused)
  <2>1. /\ unfocused \in Stores
        /\ unfocused.phase = refreshed.phase /\ unfocused.deps = refreshed.deps
        /\ unfocused.deleted = refreshed.deleted
    BY <1>2, <1>4 DEF Stores
  <2> HIDE DEF unfocused
  <2> QED
    BY <1>4, <2>1, OtherFieldsWait
<1>6. Orderly(cleared) /\ Patient(d, cleared) /\ Steady(d, cleared)
  <2>1. Orderly(refreshed)
    BY RefreshFacts DEF refreshed
  <2>2. Orderly(unfocused)
    BY <1>2, <1>5, <2>1 DEF Orderly, Stores
  <2> HIDE DEF unfocused
  <2>3. LET c == Reconcile(unfocused, {Owner[i]}) IN
        Orderly(c) /\ Patient(unfocused, c) /\ Steady(unfocused, c)
    BY <1>2, <1>5, <2>2, ReconcileFacts, ReconcileWaits
  <2> QED
    BY <1>4, <1>5, <2>1, <2>3, PatientThenSteady, SteadyTransitive
<1> HIDE DEF cleared
<1>7. cleared \in Stores
  BY <1>6 DEF Orderly
<1> QED
  BY <1>1, <1>6, <1>7, EnqueueWaits, PatientThenSteady, SteadyTransitive

\* Saving a phase of an item that is not finished: only a waiting item that is
\* sent on with an open dependency would lose patience.
LEMMA SavePhaseWaits ==
  ASSUME NEW d, Orderly(d), NEW i \in Items, NEW p \in Phases \ Unwritten,
         d.phase[i] \notin DonePhases
  PROVE  LET e == SavePhase(d, i, p) IN
         /\ Steady(d, e)
         /\ d.phase[i] # "waiting_dependencies" \/ p \in {"waiting_dependencies"} \cup Ended =>
              Patient(d, e)
<1>1. CASE p = d.phase[i]
  BY <1>1 DEF SavePhase, Patient, Steady
<1>2. CASE p # d.phase[i]
  <2> DEFINE w == [d EXCEPT !.phase[i] = p]
  <2>1. SavePhase(d, i, p) = FireHooks(w, i)
    BY <1>2 DEF SavePhase
  <2>2. /\ Orderly(w)
        /\ \A j \in Items : w.phase[j] = IF j = i THEN p ELSE d.phase[j]
        /\ \A j \in Items : ActiveDeps(w, j) = ActiveDeps(d, j)
    <3>1. Orderly(w)
      BY PhaseWrite
    <3>2. /\ \A j \in Items : w.phase[j] = IF j = i THEN p ELSE d.phase[j]
          /\ w.deps = d.deps /\ w.deleted = d.deleted
      BY DEF Orderly, Stores
    <3> HIDE DEF w
    <3> QED
      BY <3>1, <3>2 DEF ActiveDeps
  <2> HIDE DEF w
  <2>3. d \in Stores
    BY DEF Orderly
  <2>4. Steady(d, w)
    BY <2>2, <2>3, ApprovedStay DEF DonePhases, Ended
  <2>5. d.phase[i] # "waiting_dependencies" \/ p \in {"waiting_dependencies"} \cup Ended =>
          Patient(d, w)
    BY <2>2 DEF Patient
  <2> QED
    BY <2>1, <2>2, <2>4, <2>5, FireHooksWait, PatientThenSteady, SteadyTransitive
<1> QED
  BY <1>1, <1>2

\* A turn's write that the table lets through; it lets a waiting item only
\* become ready or end.
LEMMA TransitionWaits ==
  ASSUME NEW d, Orderly(d), NEW i \in Items, NEW p \in Phases \ Unwritten, p # "ready"
  PROVE  Patient(d, Transition(d, i, p))
<1>1. CASE ~Legal(d.phase[i], p) \/ p = d.phase[i]
  BY <1>1 DEF Transition, SavePhase, Patient
<1>2. CASE Legal(d.phase[i], p) /\ p # d.phase[i] /\ d.phase[i] # Absent
  <2>1. d.phase[i] \in Phases
    BY <1>2 DEF Orderly, Stores
  <2>2. d.phase[i] \notin DonePhases
    BY <1>2, <2>1 DEF Legal, AllowedTransitions
  <2>3. d.phase[i] = "waiting_dependencies" => p \in Ended
    BY <1>2 DEF Legal, AllowedTransitions, Phases, DonePhases, InProgressPhases,
                UniversalExits, RecoveryExits, Ended
  <2> QED
    BY <1>2, <2>2, <2>3, SavePhaseWaits DEF Transition
<1>3. CASE d.phase[i] = Absent
  <2>1. d.phase[i] \notin DonePhases /\ d.phase[i] # "waiting_dependencies"
    BY <1>3 DEF DonePhases, Absent
  <2> QED
    BY <2>1, <1>1, SavePhaseWaits DEF Transition
<1> QED
  BY <1>1, <1>2, <1>3

\* Items that become runnable, those that wait with all dependencies approved.
LEMMA SaveReadyWaits ==
  ASSUME NEW d, Orderly(d), NEW S \in SUBSET Items,
         \A i \in S : /\ d.phase[i] \notin DonePhases
                      /\ d.phase[i] = "waiting_dependencies" => DepsApproved(d, i)
  PROVE  Patient(d, SaveReady(d, S)) /\ Steady(d, SaveReady(d, S))
<1> DEFINE phases == [i \in Items |-> IF i \in S THEN "ready" ELSE d.phase[i]]
           w      == [d EXCEPT !.phase = phases]
<1>1. d \in Stores
  BY DEF Orderly
<1>2. SaveReady(d, S) = EnqueueBehindFocus(w, S)
  BY <1>1 DEF SaveReady, Stores
<1>3. /\ phases \in [Items -> Phases \cup {Absent}]
      /\ \A i \in Items : phases[i] = IF i \in S THEN "ready" ELSE d.phase[i]
  <2>1. d.phase \in [Items -> Phases \cup {Absent}] /\ "ready" \in Phases
    BY <1>1 DEF Stores, Phases
  <2> QED
    BY <2>1
<1> HIDE DEF phases
<1>4. /\ w \in Stores
      /\ w.phase = phases /\ w.deps = d.deps /\ w.deleted = d.deleted
  BY <1>1, <1>3 DEF Stores
<1> HIDE DEF w
<1>5. Steady(d, w)
  <2>1. \A i \in Items : ActiveDeps(w, i) = ActiveDeps(d, i)
    BY <1>4 DEF ActiveDeps
  <2> QED
    BY <1>1, <1>3, <1>4, <2>1, ApprovedStay DEF DonePhases, Ended
<1>6. Patient(d, w)
  BY <1>3, <1>4, <1>5 DEF Patient, Steady
<1> QED
  BY <1>2, <1>4, <1>5, <1>6, EnqueueWaits, PatientThenSteady, SteadyTransitive

\* What a tick releases.
LEMMA ReleaseWaits ==
  ASSUME Moving, replied \in SUBSET Items, NEW due \in SUBSET Satisfied(db)
  PROVE  LET e == SaveReady(SaveReady(db, Unparkable(db)), due) IN Patient(db, e)
<1> DEFINE unparked == SaveReady(db, Unparkable(db))
<1>1. Unparkable(db) \in SUBSET Items /\ due \in SUBSET Items
  BY DEF Unparkable, Satisfied
<1>2. \A i \in Unparkable(db) : db.phase[i] = "waiting_for_peer"
  BY DEF Unparkable
<1>3. Orderly(unparked) /\ Patient(db, unparked) /\ Steady(db, unparked)
  BY <1>1, <1>2, SaveReadyFacts, SaveReadyWaits DEF Moving, DonePhases
<1>4. \A i \in due : unparked.phase[i] \in {"waiting_dependencies", "ready"}
  <2>1. \A i \in due : db.phase[i] = "waiting_dependencies" /\ i \in Items
    BY DEF Satisfied
  <2>2. unparked.phase = [i \in Items |-> IF i \in Unparkable(db) THEN "ready" ELSE db.phase[i]]
    BY OrderlyShape, SaveReadyWrites DEF Moving
  <2> HIDE DEF unparked
  <2> QED
    BY <2>1, <2>2
<1>5. \A i \in due : DepsApproved(unparked, i)
  BY <1>3 DEF Satisfied, Steady
<1> HIDE DEF unparked
<1>6. Patient(unparked, SaveReady(unparked, due)) /\ Steady(unparked, SaveReady(unparked, due))
  BY <1>1, <1>3, <1>4, <1>5, SaveReadyWaits DEF DonePhases
<1> QED
  BY <1>3, <1>6, PatientThenSteady DEF unparked

\* A claim takes no item that waits for its dependencies.
LEMMA ClaimsWait ==
  ASSUME NEW d, Orderly(d), NEW C, \A r \in DOMAIN C : Dispatchable(d, C[r])
  PROVE  Patient(d, WriteClaims(d, C)) /\ Steady(d, WriteClaims(d, C))
<1> DEFINE taken  == {C[r] : r \in DOMAIN C}
           phases == [i \in Items |-> IF i \in taken /\ d.phase[i] \notin InReviewPhases
                                        THEN "running" ELSE d.phase[i]]
           e      == WriteClaims(d, C)
<1>1. d \in Stores
  BY DEF Orderly
<1>2. \A i \in taken : d.phase[i] \in RunnablePhases \cup ResumablePhases
  BY DEF Dispatchable, Orphaned
<1>3. \A i \in Items : \/ phases[i] = d.phase[i]
                       \/ i \in taken /\ phases[i] = "running"
  OBVIOUS
<1>4. e.phase = phases /\ e.deps = d.deps /\ e.deleted = d.deleted
  BY <1>1 DEF WriteClaims, Stores
<1> HIDE DEF taken, phases, e
<1>5. \A i \in Items : d.phase[i] \in {"waiting_dependencies"} \cup DonePhases =>
                         e.phase[i] = d.phase[i]
  BY <1>2, <1>3, <1>4
     DEF RunnablePhases, ResumablePhases, InProgressPhases, InReviewPhases, DonePhases
<1>6. \A i \in Items : ActiveDeps(e, i) = ActiveDeps(d, i)
  BY <1>4 DEF ActiveDeps
<1> QED
  BY <1>1, <1>5, <1>6, ApprovedStay, SamePhasesWait DEF DonePhases, Ended, e

\* The steps of a turn.
LEMMA TurnWaits ==
  ASSUME DInv, Moving, NEW r \in Roles, TurnStep(r)
  PROVE  Patient(db, db')
<1> DEFINE i == sess[r].item
<1>1. Orderly(db) /\ db \in Stores
  BY DEF Moving, Orderly
<1>2. turn[r].stage # "none" => i \in Items
  BY Worker DEF InFlight
<1>3. {"running", "waiting_for_peer", "waiting_for_children", "failed"} \subseteq Phases \ Unwritten
  BY DEF Phases, Unwritten
<1>4. CASE StartTurn(r)
  <2>1. db' = Transition(db, i, "running") /\ turn[r].stage # "none"
    BY <1>4 DEF StartTurn
  <2> QED
    BY <1>1, <1>2, <1>3, <2>1, TransitionWaits
<1>5. CASE Delegate(r)
  <2> DEFINE new   == Cardinality(Created(db)) + 1
             peers == {j \in Created(db) : db.parent[j] = i /\ ~db.deleted[j]}
             child(deps) == [db EXCEPT !.phase[new]  = IF deps = {} THEN "ready"
                                                       ELSE "waiting_dependencies",
                                       !.deps[new]   = deps,
                                       !.parent[new] = i]
             saved(deps) == IF deps = {} THEN EnqueueBehindFocus(child(deps), {new})
                            ELSE child(deps)
  <2>1. PICK deps \in SUBSET peers :
          db' = [saved(deps) EXCEPT !.deps[i] = ActiveDeps(saved(deps), i) \cup {new}]
    BY <1>5 DEF Delegate
  <2>2. PICK n \in Nat : Created(db) = 1..n
    BY DEF DInv
  <2>3. new = n + 1
    <3>1. Cardinality(1..n) = n
      BY <2>2, FS_Interval
    <3> QED
      BY <2>2, <3>1
  <2>4. new \notin Created(db)
    BY <2>2, <2>3
  <2> HIDE DEF new, peers
  <2>5. /\ "phase" \in DOMAIN db' /\ db'.phase = saved(deps).phase
        /\ saved(deps).phase = child(deps).phase
    BY <1>1, <2>1 DEF Stores, EnqueueBehindFocus
  <2>6. \A j \in Items : j # new => child(deps).phase[j] = db.phase[j]
    BY <1>1 DEF Stores
  <2>7. \A j \in Items : db.phase[j] = "waiting_dependencies" => j # new
    BY <2>4 DEF Created, Absent
  <2> HIDE DEF child, saved
  <2>8. \A j \in Items : db.phase[j] = "waiting_dependencies" =>
                           db'.phase[j] = "waiting_dependencies"
    BY <2>5, <2>6, <2>7
  <2> QED
    BY <2>8, SamePhasesWait
<1>6. CASE DropStaleResult(r) \/ TurnReturnsFailure(r)
  BY <1>6, SamePhasesWait DEF DropStaleResult, TurnReturnsFailure, EndTurn
<1>7. CASE ParkForPeer(r)
  <2>1. db' = Transition(db, i, "waiting_for_peer") /\ turn[r].stage # "none"
    BY <1>7 DEF ParkForPeer, EndTurn
  <2> QED
    BY <1>1, <1>2, <1>3, <2>1, TransitionWaits
<1>8. CASE ParkForChildren(r)
  <2> DEFINE wait   == WaitSet(db, i)
             pruned == [db EXCEPT !.deps[i] = ActiveDeps(db, i)]
             filed  == [pruned EXCEPT !.deps[i] = wait]
  <2>1. /\ turn[r].stage # "none"
        /\ db' = IF Legal(db.phase[i], "waiting_for_children")
                   THEN SavePhase(filed, i, "waiting_for_children") ELSE pruned
    BY <1>8 DEF ParkForChildren, EndTurn
  <2>2. i \in Items
    BY <1>2, <2>1
  <2>3. wait \in SUBSET Items
    BY <1>1, <2>2 DEF WaitSet, ActiveDeps, Stores
  <2>4. Orderly(pruned) /\ pruned.phase = db.phase
    BY <1>1, <2>2, PrunedFacts DEF Stores
  <2> HIDE DEF wait, pruned
  <2>5. Orderly(filed) /\ filed.phase = db.phase
    BY <2>2, <2>3, <2>4, DepsWrite DEF Orderly, Stores
  <2> HIDE DEF filed
  <2>6. CASE Legal(db.phase[i], "waiting_for_children")
    <3>1. Patient(filed, Transition(filed, i, "waiting_for_children"))
      BY <1>3, <2>2, <2>5, TransitionWaits
    <3>2. db' = Transition(filed, i, "waiting_for_children")
      BY <2>1, <2>5, <2>6 DEF Transition
    <3> QED
      BY <2>5, <3>1, <3>2 DEF Patient
  <2>7. CASE ~Legal(db.phase[i], "waiting_for_children")
    BY <2>1, <2>4, <2>7, SamePhasesWait
  <2> QED
    BY <2>6, <2>7
<1>9. CASE FinishWork(r)
  <2> DEFINE pruned == [db EXCEPT !.deps[i] = ActiveDeps(db, i)]
             target == DoneTarget(db, i)
  <2>1. /\ turn[r].stage # "none"
        /\ db' = Transition(pruned, i, target)
    BY <1>9 DEF FinishWork, EndTurn
  <2>2. Orderly(pruned) /\ pruned.phase = db.phase
    BY <1>1, <1>2, <2>1, PrunedFacts DEF Stores
  <2>3. target \in Phases \ Unwritten /\ target # "ready"
    BY DEF DoneTarget, Phases, Unwritten
  <2> HIDE DEF pruned, target
  <2>4. Patient(pruned, db')
    BY <1>2, <2>1, <2>2, <2>3, TransitionWaits
  <2> QED
    BY <2>2, <2>4 DEF Patient
<1>10. CASE TurnTimesOut(r)
  <2>1. db' = Transition(db, i, "failed") /\ turn[r].stage # "none"
    BY <1>10 DEF TurnTimesOut, EndTurn
  <2> QED
    BY <1>1, <1>2, <1>3, <2>1, TransitionWaits
<1>11. CASE CompleteClaim(r)
  <2>1. db'.phase = db.phase
    BY <1>1, <1>11 DEF CompleteClaim, SaveRoleSession, Stores
  <2> QED
    BY <2>1, SamePhasesWait
<1> QED
  BY <1>4, <1>5, <1>6, <1>7, <1>8, <1>9, <1>10, <1>11 DEF TurnStep, TurnGoesOn

\* The decisions of reviewers and of the human.
LEMMA JudgeWaits ==
  ASSUME Moving, NEW i \in Items,
         Approve(i) \/ Rework(i) \/ EscalateToHuman(i) \/ HumanRejects(i)
  PROVE  Patient(db, db')
<1>1. Orderly(db) /\ db \in Stores
  BY DEF Moving, Orderly
<1>2. db.phase[i] \in InReviewPhases
  BY DEF Approve, Rework, EscalateToHuman, HumanRejects, InReviewPhases
<1>3. ASSUME NEW d, Orderly(d), d.phase = db.phase,
             NEW p \in {"approved", "ready_for_rework", "awaiting_human", "failed"},
             db' = SavePhase(d, i, p)
      PROVE  Patient(db, db')
  <2>1. p \in Phases \ Unwritten
    BY DEF Phases, Unwritten
  <2>2. Patient(d, db')
    BY <1>2, <1>3, <2>1, SavePhaseWaits DEF InReviewPhases, DonePhases
  <2> QED
    BY <1>3, <2>2 DEF Patient
<1>4. \A b \in BOOLEAN : /\ Orderly([db EXCEPT !.feedback[i] = b])
                         /\ [db EXCEPT !.feedback[i] = b].phase = db.phase
  BY <1>1, FeedbackFacts DEF Stores
<1>f. db.feedback[i] \in BOOLEAN
  BY <1>1 DEF Stores
<1>5. CASE Approve(i)
  BY <1>3, <1>4, <1>f, <1>5 DEF Approve
<1>6. CASE Rework(i)
  BY <1>3, <1>4, <1>f, <1>6 DEF Rework
<1>7. CASE EscalateToHuman(i)
  BY <1>3, <1>4, <1>7 DEF EscalateToHuman
<1>8. CASE HumanRejects(i)
  BY <1>1, <1>3, <1>8 DEF HumanRejects
<1> QED
  BY <1>5, <1>6, <1>7, <1>8

\* A manager's edit: the reset item becomes ready, or is held by the refresh.
LEMMA ModifyWaits ==
  ASSUME DInv, Moving, NEW i \in Items, NEW reset \in BOOLEAN, NEW deps \in NewDeps(i),
         ModifyWorkItem(i, reset, deps)
  PROVE  Patient(db, db')
<1> DEFINE m    == Mutated(db, {i})
           d    == [m EXCEPT !.deps[i] = deps]
           back == IF d.phase[i] \in InReviewPhases \cup {"ready_for_rework"}
                     THEN "ready_for_rework" ELSE "ready"
           w    == [d EXCEPT !.phase[i] = "ready_for_rework", !.claim[i] = FALSE]
           e    == IF d.phase[i] = "approved" THEN ReopenApproved(d, i) ELSE SavePhase(d, i, back)
<1>1. /\ db' = IF ~reset THEN d ELSE RefreshDependents(e)
      /\ db.phase[i] \notin {Absent, "failed", "cancelled"}
  BY DEF ModifyWorkItem
<1>2. Orderly(db) /\ Awake(db) /\ db \in Stores
  BY DEF Moving, Orderly
<1>3. deps \in SUBSET Items
  BY <1>2 DEF NewDeps, Created, Stores
<1>4. Orderly(m) /\ m.phase = db.phase
  BY <1>2, MutatedFacts
<1> HIDE DEF m
<1>5. Orderly(d) /\ d.phase = db.phase
  BY <1>3, <1>4, DepsWrite DEF Orderly, Stores
<1>6. back \in {"ready", "ready_for_rework"} /\ back \in Phases \ Unwritten
      /\ (d.phase[i] = "waiting_dependencies" => back = "ready")
  BY DEF Phases, Unwritten, InReviewPhases
<1> HIDE DEF d, back
<1>7. CASE ~reset
  BY <1>1, <1>5, <1>7, SamePhasesWait
<1>8. ASSUME d.phase[i] = "approved" PROVE Orderly(e) /\ Patient(d, e)
  <2>1. Orderly(w) /\ \A j \in Items : w.phase[j] = IF j = i THEN "ready_for_rework" ELSE d.phase[j]
    <3>1. d \in Stores
      BY <1>5 DEF Orderly
    <3>2. /\ w \in Stores
          /\ \A j \in Items : w.phase[j] = IF j = i THEN "ready_for_rework" ELSE d.phase[j]
          /\ w.deleted = d.deleted /\ w.hold = d.hold /\ w.parent = d.parent
      BY <3>1 DEF Stores, Phases
    <3> HIDE DEF w
    <3> QED
      BY <1>5, <3>2 DEF Orderly, Unwritten, Absent
  <2>2. e = FireHooks(w, i)
    BY <1>8 DEF ReopenApproved
  <2> HIDE DEF w, e
  <2>3. Patient(d, w)
    BY <1>8, <2>1, SamePhasesWait
  <2>4. w.phase[i] # Absent
    BY <2>1 DEF Absent
  <2>5. Orderly(FireHooks(w, i))
    BY <2>1, <2>4, FireHooksFacts
  <2>6. Patient(w, FireHooks(w, i)) /\ Steady(w, FireHooks(w, i))
    BY <2>1, FireHooksWait
  <2> QED
    BY <2>2, <2>3, <2>5, <2>6, PatientThenSteady
<1>9. ASSUME d.phase[i] # "approved", d.phase[i] # "waiting_dependencies"
      PROVE  Orderly(e) /\ Patient(d, e)
  <2>1. e = SavePhase(d, i, back) /\ d.phase[i] \notin DonePhases
    BY <1>1, <1>5, <1>9 DEF DonePhases
  <2> HIDE DEF e
  <2> QED
    BY <1>5, <1>6, <1>9, <2>1, SavePhaseFacts, SavePhaseWaits
<1>10. ASSUME d.phase[i] = "waiting_dependencies"
       PROVE  /\ Orderly(e)
              /\ \A j \in Items : e.phase[j] = IF j = i THEN "ready" ELSE d.phase[j]
  <2> DEFINE v == [d EXCEPT !.phase[i] = "ready"]
  <2>1. e = SavePhase(d, i, "ready")
    BY <1>6, <1>10
  <2>2. e = FireHooks(v, i)
    BY <1>10, <2>1 DEF SavePhase
  <2>3. v \in Stores /\ \A j \in Items : v.phase[j] = IF j = i THEN "ready" ELSE d.phase[j]
    BY <1>5 DEF Orderly, Stores, Phases
  <2>4. Orderly(e)
    BY <1>5, <1>6, <1>10, <2>1, SavePhaseFacts
  <2> HIDE DEF v, e
  <2>5. FireHooks(v, i) = EnqueueBehindFocus(v, {i})
    BY <2>3 DEF FireHooks, DependentRefreshTargets, DonePhases, RunnablePhases
  <2> QED
    BY <2>2, <2>3, <2>4, <2>5, EnqueueWaits
<1> HIDE DEF e
<1>11. CASE reset /\ d.phase[i] # "waiting_dependencies"
  <2>1. Orderly(e) /\ Patient(d, e)
    BY <1>8, <1>9, <1>11
  <2>2. Patient(d, db')
    BY <1>1, <1>11, <2>1, RefreshWaits, PatientThenSteady
  <2> QED
    BY <1>5, <2>2 DEF Patient
<1>12. CASE reset /\ d.phase[i] = "waiting_dependencies"
  <2>1. db' = RefreshDependents(e)
    BY <1>1, <1>12
  <2>2. \A j \in Items : db.phase[j] = "waiting_dependencies" =>
                           e.phase[j] \in {"ready", "waiting_dependencies"}
    BY <1>5, <1>10, <1>12
  <2> QED
    BY <1>10, <1>12, <2>1, <2>2, RefreshWaits DEF Patient
<1> QED
  BY <1>7, <1>11, <1>12

\* A deletion cancels, refreshes, cuts the edges to the item, and wakes those
\* that waited for nothing else.
LEMMA DeleteWaits ==
  ASSUME DInv, Moving, NEW i \in Items, DeleteWorkItem(i)
  PROVE  Patient(db, db')
<1> DEFINE S       == Subtree(db, i)
           live    == {j \in S : db.phase[j] \notin DonePhases}
           m       == Mutated(db, S)
           gone    == Cancelled(m, S)
           owners  == {Owner[j] : j \in live}
           hooked  == IF live = {} THEN gone ELSE Reconcile(RefreshDependents(gone), owners)
           fewer   == [j \in Items |-> hooked.deps[j] \ {i}]
           cut     == [hooked EXCEPT !.deps = fewer]
           woken   == {j \in Items : /\ i \in hooked.deps[j] /\ cut.deps[j] = {}
                                     /\ cut.phase[j] \in {"waiting_dependencies",
                                                          "waiting_for_children"}}
           held    == [j \in Items |-> cut.claim[j] /\ j \notin woken]
           freed   == [cut EXCEPT !.claim = held]
           ready   == SaveReady(freed, woken)
<1>1. Orderly(db) /\ S \in SUBSET Created(db) /\ S \in SUBSET Items
  BY DEF Moving, Subtree, Created
<1> HIDE DEF S
<1>2. Orderly(m) /\ m.phase = db.phase
  BY <1>1, MutatedFacts
<1> HIDE DEF m
<1>3. Orderly(gone) /\ Patient(m, gone)
  <2>1. Orderly(gone)
    <3>1. S \in SUBSET Created(m)
      BY <1>1, <1>2 DEF Created
    <3> QED
      BY <1>2, <3>1, CancelledFacts
  <2>2. \A j \in Items : gone.phase[j] \in {m.phase[j], "cancelled"}
    BY <1>2 DEF Cancelled, Orderly, Stores
  <2> QED
    BY <2>1, <2>2 DEF Patient, Ended
<1>4. owners \in SUBSET Roles
  BY <1>1, OwnerAssumption
<1> HIDE DEF gone, owners
<1>5. Orderly(hooked) /\ Patient(m, hooked)
  <2> DEFINE e == RefreshDependents(gone)
             f == Reconcile(e, owners)
  <2>1. Orderly(e) /\ Patient(gone, e) /\ Steady(gone, e)
    BY <1>3, RefreshFacts, RefreshWaits
  <2>2. hooked = IF live = {} THEN gone ELSE f
    OBVIOUS
  <2> HIDE DEF e, hooked
  <2>3. Orderly(f) /\ Patient(e, f) /\ Steady(e, f)
    BY <1>4, <2>1, ReconcileFacts, ReconcileWaits DEF Orderly
  <2> HIDE DEF f
  <2>4. Patient(m, f)
    BY <1>3, <2>1, <2>3, PatientThenSteady
  <2> QED
    BY <1>3, <2>2, <2>3, <2>4
<1>6. db' = RefreshDependents(ready)
  <2>1. cut = [hooked EXCEPT !.deps = [j \in Items |-> @[j] \ {i}]]
    BY <1>5 DEF Orderly, Stores
  <2>2. freed = [cut EXCEPT !.claim = [j \in Items |-> @[j] /\ j \notin woken]]
    <3>1. cut \in Stores
      BY <1>5 DEF Orderly, Stores
    <3> HIDE DEF cut, woken
    <3> QED
      BY <3>1 DEF Stores
  <2> QED
    BY <2>1, <2>2 DEF DeleteWorkItem, S, m, gone, owners
<1> HIDE DEF hooked, live
<1>7. /\ cut \in Stores
      /\ cut.phase = hooked.phase /\ cut.hold = hooked.hold /\ cut.parent = hooked.parent
      /\ cut.deleted = hooked.deleted
      /\ \A j \in Items : cut.deps[j] = hooked.deps[j] \ {i}
  BY <1>5 DEF Orderly, Stores
<1> HIDE DEF cut
<1>8. /\ freed \in Stores
      /\ freed.phase = cut.phase /\ freed.deps = cut.deps /\ freed.deleted = cut.deleted
      /\ freed.hold = cut.hold /\ freed.parent = cut.parent
  <2> HIDE DEF woken
  <2> QED
    BY <1>7 DEF Stores
<1>9. woken \in SUBSET Items /\ \A j \in woken :
        /\ cut.phase[j] \in {"waiting_dependencies", "waiting_for_children"}
        /\ cut.deps[j] = {}
  OBVIOUS
<1> HIDE DEF freed, woken
<1>10. Orderly(freed) /\ Patient(hooked, freed) /\ Steady(hooked, freed)
  <2>1. Orderly(freed)
    BY <1>5, <1>7, <1>8 DEF Orderly
  <2>2. \A j \in Items : ActiveDeps(freed, j) \subseteq ActiveDeps(hooked, j)
    BY <1>7, <1>8 DEF ActiveDeps
  <2>3. hooked \in Stores
    BY <1>5 DEF Orderly
  <2> QED
    BY <1>7, <1>8, <2>1, <2>2, <2>3, ApprovedStay, SamePhasesWait
<1>11. Orderly(ready) /\ Patient(freed, ready) /\ Steady(freed, ready)
  <2>1. \A j \in woken : /\ freed.phase[j] \notin DonePhases
                         /\ DepsApproved(freed, j)
    BY <1>8, <1>9 DEF DonePhases, DepsApproved, ActiveDeps
  <2> QED
    BY <1>9, <1>10, <2>1, SaveReadyFacts, SaveReadyWaits
<1> HIDE DEF ready
<1>12. Patient(m, db')
  BY <1>5, <1>6, <1>10, <1>11, RefreshWaits, PatientThenSteady
<1> QED
  BY <1>2, <1>12 DEF Patient

\* A tick: what was released before is claimed, and nothing else that waits.
LEMMA TickWaits ==
  ASSUME DInv, Moving, replied \in SUBSET Items, Tick
  PROVE  Patient(db, db')
<1> DEFINE released == SaveReady(SaveReady(db, Unparkable(db)), Satisfied(db))
           d        == Reconcile(released, Roles)
           q        == [r \in Roles |-> Enqueued(d, r)]
           s        == [r \in Roles |-> Rehydrated(d, sess[r])]
           free     == {r \in Roles : s[r].status = "idle"}
           able     == {r \in free : Claimable(d, q[r]) # {}}
           claim    == [r \in able |-> q[r][FirstClaimable(d, q[r])]]
<1>1. db' = WriteClaims(d, claim)
  <2>1. ClaimWork(d, q, s)
    BY DEF Tick
  <2> HIDE DEF d, q, s
  <2> QED
    BY <2>1 DEF ClaimWork
<1>2. Orderly(d) /\ Patient(db, d)
  <2>1. Orderly(released) /\ Patient(db, released)
    BY ReleaseFacts, ReleaseWaits
  <2> HIDE DEF released
  <2> QED
    BY <2>1, ReconcileFacts, ReconcileWaits, PatientThenSteady DEF Orderly
<1> HIDE DEF d
<1>3. \A r \in Roles : q[r] \in Seq(OwnedBy(r))
  BY EnqueuedOwned
<1> HIDE DEF q, s
<1>4. \A r \in able : Dispatchable(d, claim[r])
  <2>1. TAKE r \in able
  <2>2. r \in Roles /\ Claimable(d, q[r]) # {} /\ q[r] \in Seq(OwnedBy(r))
    BY <1>3
  <2>3. FirstClaimable(d, q[r]) \in Claimable(d, q[r])
    BY <2>2, FirstIsClaimable
  <2> QED
    BY <2>3 DEF Claimable
<1>5. DOMAIN claim = able
  OBVIOUS
<1> HIDE DEF claim, able
<1>6. Patient(d, db') /\ Steady(d, db')
  BY <1>1, <1>2, <1>4, <1>5, ClaimsWait
<1> QED
  BY <1>2, <1>6, PatientThenSteady

(***************************************************************************)
(* An item that waits for its dependencies is sent to work only by a step  *)
(* after which all of them are approved, whatever the refreshes, the hooks *)
(* between their writes, the resets and the deletions do.                  *)
(***************************************************************************)
THEOREM ReleasesWaitForDependencies == Spec => ReleasedAfterItsDependencies
<1> DEFINE StepWaits ==
      \A i \in Items :
        db.phase[i] = "waiting_dependencies" =>
          \/ db'.phase[i] \in {"waiting_dependencies", "failed", "cancelled"}
          \/ DepsApproved(db', i)
<1>1. Patient(db, db') => StepWaits
  BY DEF Patient, Ended
<1>2. MovingInv /\ [Next]_vars => [StepWaits]_vars
  <2>1. SUFFICES ASSUME MovingInv, Next PROVE Patient(db, db')
    BY <1>1
  <2>2. DInv /\ Moving /\ replied \in SUBSET Items
    BY <2>1 DEF MovingInv, Rows
  <2>3. CASE Tick
    BY <2>2, <2>3, TickWaits
  <2>4. CASE TickRaises
    <3>1. /\ db' = SaveReady(SaveReady(db, Unparkable(db)),
                             {i \in Satisfied(db) : \A j \in Satisfied(db) :
                                                      db.feedback[j] => i < j})
      BY <2>4 DEF TickRaises
    <3> QED
      BY <2>2, <3>1, ReleaseWaits
  <2>5. ASSUME NEW r \in Roles, TurnStep(r) PROVE Patient(db, db')
    BY <2>2, <2>5, TurnWaits
  <2>6. ASSUME NEW i \in Items, BoardStep(i) PROVE Patient(db, db')
    <3>1. CASE PeerReplies(i)
      BY <3>1, SamePhasesWait DEF PeerReplies
    <3>2. CASE Approve(i) \/ Rework(i) \/ EscalateToHuman(i) \/ HumanRejects(i)
      BY <2>2, <3>2, JudgeWaits
    <3>3. CASE \E reset \in BOOLEAN, deps \in NewDeps(i) : ModifyWorkItem(i, reset, deps)
      BY <2>2, <3>3, ModifyWaits
    <3>4. CASE DeleteWorkItem(i)
      BY <2>2, <3>4, DeleteWaits
    <3> QED
      BY <2>6, <3>1, <3>2, <3>3, <3>4 DEF BoardStep
  <2> QED
    BY <2>1, <2>3, <2>4, <2>5, <2>6 DEF Next
<1> HIDE DEF StepWaits
<1>3. Spec => []MovingInv /\ [][Next]_vars
  BY MovingInvariant DEF Spec
<1>4. Spec => [][StepWaits]_vars
  BY <1>2, <1>3, PTL
<1> QED
  BY <1>4 DEF StepWaits, ReleasedAfterItsDependencies

-----------------------------------------------------------------------------
(* What an item is queued behind *)

\* The pending queues of the rows, and those in memory, hold the items of
\* their own role.
Filed(d) ==
  /\ Fields \subseteq DOMAIN d
  /\ \A r \in Roles : d.pending[r] \in Seq(OwnedBy(r)) /\ d.cached[r] \in Seq(OwnedBy(r))

LEMMA EnqueueFiles ==
  ASSUME NEW d, Filed(d), NEW S \in SUBSET Items
  PROVE  Filed(EnqueueBehindFocus(d, S))
<1> DEFINE late == {i \in S : /\ d.focus[Owner[i]] \notin {NoItem, i}
                              /\ i \notin Range(d.pending[Owner[i]])}
           own(r) == {i \in late : Owner[i] = r}
           e    == EnqueueBehindFocus(d, S)
<1>1. /\ Fields \subseteq DOMAIN e
      /\ e.pending = [r \in Roles |-> d.pending[r] \o InCreationOrder(own(r))]
      /\ e.cached = d.cached
  BY DEF EnqueueBehindFocus, Filed, Fields
<1>2. ASSUME NEW r \in Roles PROVE d.pending[r] \o InCreationOrder(own(r)) \in Seq(OwnedBy(r))
  <2>1. own(r) \in SUBSET Items /\ own(r) \subseteq OwnedBy(r)
    BY DEF OwnedBy
  <2> HIDE DEF own
  <2>2. InCreationOrder(own(r)) \in Seq(OwnedBy(r))
    BY <2>1, CreationOrder, SeqMonotonic
  <2>3. d.pending[r] \in Seq(OwnedBy(r))
    BY DEF Filed
  <2> QED
    BY <2>2, <2>3, ConcatProperties
<1> HIDE DEF own, e
<1> QED
  BY <1>1, <1>2 DEF Filed, e

\* What reconciliation finds for a session: its own items in the queue, and
\* an item of its own before them.
LEMMA ViewOwned ==
  ASSUME NEW d, Filed(d), NEW r \in Roles
  PROVE  LET v == QueueView(d, r) IN
         /\ v.focus = ActiveFocus(d, r)
         /\ v.pending \in Seq(OwnedBy(r))
         /\ v.focus # NoItem \/ v.blocker = NoItem
              \/ /\ v.blocker \in OwnedBy(r)
                 /\ QueueCandidate(d, v.blocker)
<1> DEFINE active  == ActiveFocus(d, r)
           queued  == d.pending[r]
           fit     == {k \in DOMAIN queued : QueueCandidate(d, queued[k])}
           clean   == EntriesAt(queued, fit)
           loose   == {i \in Items : /\ Owner[i] = r
                                     /\ QueueCandidate(d, i)
                                     /\ i \notin Range(clean)
                                     /\ ~d.marker[i]}
           front   == IF active = NoItem /\ loose # {}
                        THEN CHOOSE i \in loose : \A j \in loose : i <= j
                        ELSE NoItem
           promote == active = NoItem /\ front = NoItem /\ clean # << >>
           v       == QueueView(d, r)
<1>1. /\ v.focus = active
      /\ v.pending = IF promote THEN Tail(clean) ELSE clean
      /\ v.blocker = IF active # NoItem THEN active ELSE IF promote THEN Head(clean) ELSE front
  BY DEF QueueView
<1>2. queued \in Seq(OwnedBy(r))
  BY DEF Filed
<1>3. clean \in Seq(OwnedBy(r))
  BY <1>2, EntriesStay
<1>4. clean # << >> => Head(clean) \in OwnedBy(r) /\ Tail(clean) \in Seq(OwnedBy(r))
  BY <1>3, HeadTailProperties
<1>5. clean # << >> => QueueCandidate(d, Head(clean))
  <2>1. SUFFICES ASSUME clean # << >> PROVE QueueCandidate(d, Head(clean))
    OBVIOUS
  <2>2. fit \in SUBSET (1..Len(queued)) /\ Len(queued) \in Nat
    BY <1>2, LenProperties
  <2>3. InCreationOrder(fit) \in Seq(fit) /\ Cardinality(fit) \in Nat
    BY <2>2, NumbersInOrder, NumberSets
  <2>4. Head(clean) = clean[1] /\ Len(clean) >= 1
    BY <1>3, <2>1, HeadTailProperties, EmptySeq, LenProperties
  <2>5. DOMAIN clean = 1..Len(clean) /\ Len(clean) \in Nat
    BY <1>3, LenProperties
  <2>6. DOMAIN clean = 1..Cardinality(fit) /\ 1 \in DOMAIN clean
    <3>1. DOMAIN clean = 1..Cardinality(fit)
      BY DEF EntriesAt
    <3> HIDE DEF clean
    <3> QED
      BY <2>4, <2>5, <3>1
  <2>7. DOMAIN InCreationOrder(fit) = 1..Cardinality(fit)
    BY DEF InCreationOrder
  <2>8. InCreationOrder(fit)[1] \in fit
    <3>1. Len(InCreationOrder(fit)) = Cardinality(fit)
      BY <2>3, <2>7, LenProperties
    <3> HIDE DEF fit, clean
    <3> QED
      BY <2>3, <2>6, <3>1, ElementOfSeq
  <2>9. clean[1] = queued[InCreationOrder(fit)[1]]
    BY <2>6 DEF EntriesAt
  <2> QED
    BY <2>4, <2>8, <2>9
<1>6. front = NoItem \/ (front \in OwnedBy(r) /\ QueueCandidate(d, front))
  <2>1. ASSUME loose # {} PROVE (CHOOSE i \in loose : \A j \in loose : i <= j) \in loose
    <3>1. loose \subseteq Nat
      BY DEF Items
    <3> HIDE DEF loose
    <3>2. \E i \in loose : \A j \in loose : ~(<<j, i>> \in OpToRel(<, Nat))
      BY <2>1, <3>1, NatLessThanWellFounded, WFMin
    <3>3. PICK i \in loose : \A j \in loose : ~(<<j, i>> \in OpToRel(<, Nat))
      BY <3>2
    <3>4. \A j \in loose : ~(j < i)
      BY <3>1, <3>3 DEF OpToRel
    <3>5. \A j \in loose : i <= j
      BY <3>1, <3>4
    <3> QED
      BY <3>5
  <2>2. \A i \in loose : i \in OwnedBy(r) /\ QueueCandidate(d, i)
    BY DEF OwnedBy
  <2> QED
    BY <2>1, <2>2
<1> HIDE DEF active, clean, front, v
<1> QED
  BY <1>1, <1>3, <1>4, <1>5, <1>6 DEF v, active

LEMMA ReconcileFiles ==
  ASSUME NEW d, Filed(d), NEW R
  PROVE  Filed(Reconcile(d, R))
<1> DEFINE e == Reconcile(d, R)
<1>1. /\ Fields \subseteq DOMAIN e
      /\ \A r \in Roles : e.pending[r] = IF r \in R THEN QueueView(d, r).pending ELSE d.pending[r]
      /\ e.cached = d.cached
  BY DEF Reconcile, Filed, Fields
<1> HIDE DEF e
<1> QED
  BY <1>1, ViewOwned DEF Filed, e

LEMMA RefreshFiles ==
  ASSUME NEW d, Filed(d)
  PROVE  Filed(RefreshDependents(d))
<1> DEFINE target  == [i \in Items |-> FrontierTarget(d, i)]
           allowed == {i \in Created(d) : Legal(d.phase[i], target[i])}
           moved   == {i \in allowed : target[i] # d.phase[i]}
           written ==
             [d EXCEPT
                !.phase = [i \in Items |-> IF i \in moved THEN target[i] ELSE @[i]],
                !.deps  = [i \in Items |->
                             IF i \in allowed THEN ActiveDeps(d, i) ELSE @[i]],
                !.synth = [i \in Items |->
                             @[i] \/ (i \in moved /\ EntersSynthesis(d, i))],
                !.claim = [i \in Items |-> @[i] /\ i \notin ClaimLapses(d, moved)]]
           runs    == {i \in moved : target[i] \in RunnablePhases}
<1>1. RefreshDependents(d) = EnqueueBehindFocus(written, runs)
  BY DEF RefreshDependents
<1>2. runs \in SUBSET Items
  BY DEF Created
<1>3. Filed(written)
  BY DEF Filed, Fields
<1> HIDE DEF written, runs
<1> QED
  BY <1>1, <1>2, <1>3, EnqueueFiles

LEMMA FireHooksFile ==
  ASSUME NEW d, Filed(d), NEW i \in Items
  PROVE  Filed(FireHooks(d, i))
<1> DEFINE p         == d.phase[i]
           refreshed == IF p \in DependentRefreshTargets THEN RefreshDependents(d) ELSE d
           unfocused == [refreshed EXCEPT !.focus[Owner[i]] = IF @ = i THEN NoItem ELSE @]
           cleared   == IF p \in DonePhases THEN Reconcile(unfocused, {Owner[i]}) ELSE refreshed
<1>1. FireHooks(d, i) = IF p \in RunnablePhases THEN EnqueueBehindFocus(cleared, {i}) ELSE cleared
  BY DEF FireHooks, ClearFocus
<1>2. Filed(refreshed)
  BY RefreshFiles
<1> HIDE DEF refreshed
<1>3. Filed(unfocused)
  BY <1>2 DEF Filed, Fields
<1> HIDE DEF unfocused
<1>4. Filed(cleared)
  BY <1>2, <1>3, ReconcileFiles
<1> HIDE DEF cleared
<1> QED
  BY <1>1, <1>4, EnqueueFiles

LEMMA SavePhaseFiles ==
  ASSUME NEW d, Filed(d), NEW i \in Items, NEW p
  PROVE  Filed(SavePhase(d, i, p)) /\ Filed(Transition(d, i, p))
<1>1. Filed([d EXCEPT !.phase[i] = p])
  BY DEF Filed, Fields
<1> QED
  BY <1>1, FireHooksFile DEF SavePhase, Transition

LEMMA SaveReadyFiles ==
  ASSUME NEW d, Filed(d), NEW S \in SUBSET Items
  PROVE  Filed(SaveReady(d, S))
<1> DEFINE w == [d EXCEPT !.phase = [i \in Items |-> IF i \in S THEN "ready" ELSE @[i]]]
<1>1. Filed(w)
  BY DEF Filed, Fields
<1>2. SaveReady(d, S) = EnqueueBehindFocus(w, S)
  BY DEF SaveReady
<1> HIDE DEF w
<1> QED
  BY <1>1, <1>2, EnqueueFiles

\* The steps of a turn.
LEMMA TurnFiles ==
  ASSUME DInv, Filed(db), NEW r \in Roles, TurnStep(r)
  PROVE  Filed(db')
<1> DEFINE i == sess[r].item
           pruned == [db EXCEPT !.deps[i] = ActiveDeps(db, i)]
<1>1. turn[r].stage # "none" => i \in Items
  BY TurnItem DEF InFlight
<1>2. Filed(pruned)
  BY DEF Filed, Fields
<1>3. CASE StartTurn(r)
  BY <1>1, <1>3, SavePhaseFiles DEF StartTurn
<1>4. CASE Delegate(r)
  <2> DEFINE new   == Cardinality(Created(db)) + 1
             peers == {j \in Created(db) : db.parent[j] = i /\ ~db.deleted[j]}
             child(deps) == [db EXCEPT !.phase[new]  = IF deps = {} THEN "ready"
                                                       ELSE "waiting_dependencies",
                                       !.deps[new]   = deps,
                                       !.parent[new] = i]
             saved(deps) == IF deps = {} THEN EnqueueBehindFocus(child(deps), {new})
                            ELSE child(deps)
  <2>1. PICK deps \in SUBSET peers :
          db' = [saved(deps) EXCEPT !.deps[i] = ActiveDeps(saved(deps), i) \cup {new}]
    BY <1>4 DEF Delegate
  <2>2. new \in Items
    BY <1>4 DEF Delegate
  <2>3. Filed(child(deps))
    BY DEF Filed, Fields
  <2> HIDE DEF new, peers, child
  <2>4. Filed(saved(deps))
    BY <2>2, <2>3, EnqueueFiles
  <2> HIDE DEF saved
  <2> QED
    BY <2>1, <2>4 DEF Filed, Fields
<1>5. CASE DropStaleResult(r) \/ TurnReturnsFailure(r)
  BY <1>5 DEF DropStaleResult, TurnReturnsFailure, EndTurn
<1>6. CASE ParkForPeer(r)
  BY <1>1, <1>6, SavePhaseFiles DEF ParkForPeer, EndTurn
<1>7. CASE ParkForChildren(r)
  <2> DEFINE filed == [pruned EXCEPT !.deps[i] = WaitSet(db, i)]
  <2>1. /\ turn[r].stage # "none"
        /\ db' = IF Legal(db.phase[i], "waiting_for_children")
                   THEN SavePhase(filed, i, "waiting_for_children") ELSE pruned
    BY <1>7 DEF ParkForChildren, EndTurn
  <2> HIDE DEF pruned
  <2>2. Filed(filed)
    BY <1>2 DEF Filed, Fields
  <2> HIDE DEF filed
  <2> QED
    BY <1>1, <1>2, <2>1, <2>2, SavePhaseFiles
<1>8. CASE FinishWork(r)
  <2>1. turn[r].stage # "none" /\ db' = Transition(pruned, i, DoneTarget(db, i))
    BY <1>8 DEF FinishWork, EndTurn
  <2> HIDE DEF pruned
  <2> QED
    BY <1>1, <1>2, <2>1, SavePhaseFiles
<1>9. CASE TurnTimesOut(r)
  BY <1>1, <1>9, SavePhaseFiles DEF TurnTimesOut, EndTurn
<1>10. CASE CompleteClaim(r)
  BY <1>10 DEF CompleteClaim, SaveRoleSession, Filed, Fields
<1> QED
  BY <1>3, <1>4, <1>5, <1>6, <1>7, <1>8, <1>9, <1>10 DEF TurnStep, TurnGoesOn

\* The steps of the actors around the loop.
LEMMA BoardFiles ==
  ASSUME Filed(db), NEW i \in Items, BoardStep(i)
  PROVE  Filed(db')
<1>1. CASE PeerReplies(i)
  BY <1>1 DEF PeerReplies
<1>2. CASE Approve(i) \/ Rework(i) \/ EscalateToHuman(i) \/ HumanRejects(i)
  <2>1. \A b : Filed([db EXCEPT !.feedback[i] = b])
    BY DEF Filed, Fields
  <2> QED
    BY <1>2, <2>1, SavePhaseFiles DEF Approve, Rework, EscalateToHuman, HumanRejects
<1>3. ASSUME NEW reset \in BOOLEAN, NEW deps \in NewDeps(i), ModifyWorkItem(i, reset, deps)
      PROVE  Filed(db')
  <2> DEFINE d    == [Mutated(db, {i}) EXCEPT !.deps[i] = deps]
             back == IF d.phase[i] \in InReviewPhases \cup {"ready_for_rework"}
                       THEN "ready_for_rework" ELSE "ready"
             w    == [d EXCEPT !.phase[i] = "ready_for_rework", !.claim[i] = FALSE]
             e    == IF d.phase[i] = "approved" THEN ReopenApproved(d, i)
                     ELSE SavePhase(d, i, back)
  <2>1. db' = IF ~reset THEN d ELSE RefreshDependents(e)
    BY <1>3 DEF ModifyWorkItem
  <2>2. Filed(d)
    BY DEF Mutated, Filed, Fields
  <2> HIDE DEF d, back
  <2>3. Filed(w)
    BY <2>2 DEF Filed, Fields
  <2>4. Filed(e)
    BY <2>2, <2>3, FireHooksFile, SavePhaseFiles DEF ReopenApproved
  <2> HIDE DEF e
  <2> QED
    BY <2>1, <2>2, <2>4, RefreshFiles
<1>4. CASE DeleteWorkItem(i)
  <2> DEFINE S       == Subtree(db, i)
             live    == {j \in S : db.phase[j] \notin DonePhases}
             gone    == Cancelled(Mutated(db, S), S)
             hooked  == IF live = {} THEN gone
                        ELSE Reconcile(RefreshDependents(gone), {Owner[j] : j \in live})
             cut     == [hooked EXCEPT !.deps = [j \in Items |-> @[j] \ {i}]]
             woken   == {j \in Items : /\ i \in hooked.deps[j] /\ cut.deps[j] = {}
                                       /\ cut.phase[j] \in {"waiting_dependencies",
                                                            "waiting_for_children"}}
             freed   == [cut EXCEPT !.claim = [j \in Items |-> @[j] /\ j \notin woken]]
  <2>1. db' = RefreshDependents(SaveReady(freed, woken))
    BY <1>4 DEF DeleteWorkItem
  <2>2. Filed(gone)
    BY DEF Mutated, Cancelled, Filed, Fields
  <2> HIDE DEF gone
  <2>3. Filed(hooked)
    BY <2>2, RefreshFiles, ReconcileFiles
  <2>4. woken \in SUBSET Items
    OBVIOUS
  <2> HIDE DEF hooked, woken
  <2>5. Filed(freed)
    BY <2>3 DEF Filed, Fields
  <2> HIDE DEF freed
  <2> QED
    BY <2>1, <2>4, <2>5, SaveReadyFiles, RefreshFiles
<1> QED
  BY <1>1, <1>2, <1>3, <1>4 DEF BoardStep

\* What a tick releases.
LEMMA ReleaseFiles ==
  ASSUME Filed(db), replied \in SUBSET Items, NEW due \in SUBSET Satisfied(db)
  PROVE  Filed(SaveReady(SaveReady(db, Unparkable(db)), due))
<1>1. Unparkable(db) \in SUBSET Items /\ due \in SUBSET Items
  BY DEF Unparkable, Satisfied
<1>2. Filed(SaveReady(db, Unparkable(db)))
  BY <1>1, SaveReadyFiles
<1> QED
  BY <1>1, <1>2, SaveReadyFiles

\* After a tick an item is queued behind the focus of its session, or behind
\* the item that the reconciliation let through instead.
LEMMA TickFiles ==
  ASSUME DInv, Moving, Filed(db), replied \in SUBSET Items, Tick
  PROVE  /\ Filed(db')
         /\ \A i \in Items : db'.marker[i] /\ (\A j \in Items : ~db'.hold[j]) =>
              \/ ActiveFocus(db', Owner[i]) # NoItem
              \/ \E j \in Items \ {i} : Owner[j] = Owner[i] /\ Dispatchable(db', j)
<1> DEFINE released == SaveReady(SaveReady(db, Unparkable(db)), Satisfied(db))
           d        == Reconcile(released, Roles)
           q        == [r \in Roles |-> Enqueued(d, r)]
           s        == [r \in Roles |-> Rehydrated(d, sess[r])]
           free     == {r \in Roles : s[r].status = "idle"}
           able     == {r \in free : Claimable(d, q[r]) # {}}
           claim    == [r \in able |-> q[r][FirstClaimable(d, q[r])]]
           view(r)  == QueueView(released, r)
<1>1. db' = WriteClaims(d, claim)
  <2>1. ClaimWork(d, q, s)
    BY DEF Tick
  <2> HIDE DEF d, q, s
  <2> QED
    BY <2>1 DEF ClaimWork
<1>2. Orderly(released) /\ Filed(released)
  BY ReleaseFacts, ReleaseFiles
<1> HIDE DEF released
<1>3. Orderly(d) /\ Filed(d) /\ d.phase = released.phase /\ d.claim = released.claim
  BY <1>2, ReconcileFacts, ReconcileFiles
<1>4. /\ \A i \in Items : d.marker[i] => view(Owner[i]).blocker \notin {NoItem, i}
      /\ \A r \in Roles : d.focus[r] = view(r).focus
  <2>1. released \in Stores
    BY <1>2 DEF Orderly
  <2> HIDE DEF view
  <2>2. /\ d.marker = [i \in Items |->
                         LET v == view(Owner[i]) IN
                         released.marker[i] /\ (Owner[i] \in Roles =>
                                                  /\ i \in Range(v.pending)
                                                  /\ v.blocker \notin {NoItem, i})]
        /\ d.focus = [r \in Roles |-> view(r).focus]
    BY <2>1 DEF Reconcile, Stores, view
  <2>3. \A i \in Items : Owner[i] \in Roles
    BY OwnerAssumption
  <2> HIDE DEF d
  <2> QED
    BY <2>2, <2>3
<1>5. \A r \in Roles : /\ view(r).focus = ActiveFocus(released, r)
                       /\ view(r).focus # NoItem \/ view(r).blocker = NoItem
                            \/ /\ view(r).blocker \in OwnedBy(r)
                               /\ QueueCandidate(released, view(r).blocker)
  BY <1>2, ViewOwned
<1> HIDE DEF d, view
<1>6. \A r \in Roles : q[r] \in Seq(OwnedBy(r))
  BY EnqueuedOwned
<1> HIDE DEF q, s
<1>7. \A r \in able : /\ r \in Roles
                      /\ claim[r] \in Items /\ Owner[claim[r]] = r
                      /\ Dispatchable(d, claim[r])
  <2>1. TAKE r \in able
  <2>2. r \in Roles /\ Claimable(d, q[r]) # {} /\ q[r] \in Seq(OwnedBy(r))
    BY <1>6
  <2>3. FirstClaimable(d, q[r]) \in Claimable(d, q[r])
    BY <2>2, FirstIsClaimable
  <2>4. DOMAIN q[r] = 1..Len(q[r])
    BY <2>2, LenProperties
  <2>5. FirstClaimable(d, q[r]) \in 1..Len(q[r]) /\ Dispatchable(d, q[r][FirstClaimable(d, q[r])])
    BY <2>3, <2>4 DEF Claimable
  <2>6. q[r][FirstClaimable(d, q[r])] \in OwnedBy(r)
    BY <2>2, <2>5, ElementOfSeq
  <2> QED
    BY <2>2, <2>5, <2>6 DEF OwnedBy
<1>8. DOMAIN claim = able
  OBVIOUS
<1> HIDE DEF claim, able
<1>9. /\ Filed(db')
      /\ db'.marker = d.marker /\ db'.hold = d.hold
      /\ \A r \in Roles : db'.focus[r] = IF r \in able THEN claim[r] ELSE d.focus[r]
      /\ \A i \in Items : Owner[i] \notin able =>
           db'.phase[i] = d.phase[i] /\ db'.claim[i] = d.claim[i]
      /\ \A i \in Items : db'.phase[i] \in DonePhases => db'.phase[i] = d.phase[i]
      /\ \A r \in able : db'.phase[claim[r]] \notin DonePhases
  <2> DEFINE taken  == {claim[r] : r \in able}
             phases == [i \in Items |-> IF i \in taken /\ d.phase[i] \notin InReviewPhases
                                          THEN "running" ELSE d.phase[i]]
             claims == [i \in Items |-> d.claim[i] \/ i \in taken]
             foci   == [r \in Roles |-> IF r \in able THEN claim[r] ELSE d.focus[r]]
             queues == [r \in Roles |-> IF r \in able THEN d.cached[r] ELSE d.pending[r]]
  <2>1. d \in Stores
    BY <1>3 DEF Orderly
  <2>2. db' = [d EXCEPT !.phase = phases, !.claim = claims, !.focus = foci, !.pending = queues]
    BY <1>1, <1>8, <2>1 DEF WriteClaims, Stores
  <2>3. /\ \A i \in taken : Owner[i] \in able
        /\ \A r \in able : claim[r] \in taken
    BY <1>7
  <2>4. \A i \in Items : /\ phases[i] = IF i \in taken /\ d.phase[i] \notin InReviewPhases
                                          THEN "running" ELSE d.phase[i]
                         /\ d.claim[i] \in BOOLEAN
                         /\ claims[i] = (d.claim[i] \/ i \in taken)
    BY <2>1 DEF Stores
  <2>5. \A r \in Roles : /\ foci[r] = IF r \in able THEN claim[r] ELSE d.focus[r]
                         /\ queues[r] \in Seq(OwnedBy(r))
    BY <1>3 DEF Filed
  <2> HIDE DEF taken, phases, claims, foci, queues
  <2>6. /\ db'.phase = phases /\ db'.claim = claims /\ db'.focus = foci /\ db'.pending = queues
        /\ db'.marker = d.marker /\ db'.hold = d.hold /\ db'.cached = d.cached
        /\ Fields \subseteq DOMAIN db'
    BY <2>1, <2>2 DEF Stores, Fields
  <2>7. Filed(db')
    BY <1>3, <2>5, <2>6 DEF Filed
  <2>8. \A i \in Items : Owner[i] \notin able =>
          db'.phase[i] = d.phase[i] /\ db'.claim[i] = d.claim[i]
    BY <2>3, <2>4, <2>6
  <2>9. \A i \in Items : db'.phase[i] \in DonePhases => db'.phase[i] = d.phase[i]
    BY <2>4, <2>6 DEF DonePhases
  <2>10. \A r \in able : db'.phase[claim[r]] \notin DonePhases
    BY <1>7, <2>3, <2>4, <2>6 DEF InReviewPhases, DonePhases
  <2> QED
    BY <2>5, <2>6, <2>7, <2>8, <2>9, <2>10
<1>10. ASSUME NEW i \in Items, db'.marker[i], \A j \in Items : ~db'.hold[j]
       PROVE  \/ ActiveFocus(db', Owner[i]) # NoItem
              \/ \E j \in Items \ {i} : Owner[j] = Owner[i] /\ Dispatchable(db', j)
  <2> DEFINE r == Owner[i]
             b == view(r).blocker
  <2>1. r \in Roles /\ b \notin {NoItem, i}
    BY <1>4, <1>9, <1>10, OwnerAssumption
  <2>2. CASE r \in able
    <3>1. db'.focus[r] = claim[r] /\ claim[r] \in Items
      BY <1>7, <1>9, <2>1, <2>2
    <3> QED
      BY <1>9, <2>2, <3>1, NoItemAssumption DEF ActiveFocus
  <2>3. CASE r \notin able /\ view(r).focus # NoItem
    <3>1. db'.focus[r] = ActiveFocus(released, r) /\ ActiveFocus(released, r) # NoItem
      BY <1>4, <1>5, <1>9, <2>1, <2>3
    <3>2. /\ ActiveFocus(released, r) = released.focus[r]
          /\ released.phase[released.focus[r]] \notin DonePhases
      BY <3>1 DEF ActiveFocus
    <3>3. released.focus[r] \in Items
      BY <1>2, <2>1, <3>1, <3>2 DEF Orderly, Stores
    <3> QED
      BY <1>3, <1>9, <3>1, <3>2, <3>3 DEF ActiveFocus
  <2>4. CASE r \notin able /\ view(r).focus = NoItem
    <3>1. b \in OwnedBy(r) /\ QueueCandidate(released, b)
      BY <1>5, <2>1, <2>4
    <3>2. b \in Items /\ Owner[b] = r
      BY <3>1 DEF OwnedBy
    <3>3. ~d.marker[b] /\ ~d.hold[b]
      BY <1>4, <1>9, <1>10, <3>2
    <3>4. Dispatchable(db', b)
      BY <1>3, <1>9, <2>4, <3>1, <3>2, <3>3 DEF Dispatchable, QueueCandidate
    <3> QED
      BY <2>1, <3>2, <3>4
  <2> QED
    BY <2>2, <2>3, <2>4
<1> QED
  BY <1>9, <1>10

\* The queues stay in order in every step.
LEMMA NextFiles == MovingInv /\ Filed(db) /\ [Next]_vars => Filed(db')
<1> SUFFICES ASSUME MovingInv, Filed(db), [Next]_vars PROVE Filed(db')
  OBVIOUS
<1>1. DInv /\ Moving /\ replied \in SUBSET Items
  BY DEF MovingInv, Rows
<1>2. CASE UNCHANGED vars
  BY <1>2 DEF vars
<1>3. CASE Tick
  BY <1>1, <1>3, TickFiles
<1>4. CASE TickRaises
  BY <1>1, <1>4, ReleaseFiles DEF TickRaises
<1>5. ASSUME NEW r \in Roles, TurnStep(r) PROVE Filed(db')
  BY <1>1, <1>5, TurnFiles
<1>6. ASSUME NEW i \in Items, BoardStep(i) PROVE Filed(db')
  BY <1>6, BoardFiles
<1> QED
  BY <1>2, <1>3, <1>4, <1>5, <1>6 DEF Next

(***************************************************************************)
(* After a tick no item is queued behind nothing: whatever rows were saved *)
(* over the pending queues and whatever markers were left without an       *)
(* entry, its session has an unfinished focus, or another item of its role *)
(* is dispatchable.                                                        *)
(***************************************************************************)
THEOREM NothingQueuedBehindNothing == Spec => QueuedBehindSomething
<1> DEFINE StepQueues ==
      Tick => \A i \in Items : db'.marker[i] =>
        \/ ActiveFocus(db', Owner[i]) # NoItem
        \/ \E j \in Items \ {i} : Owner[j] = Owner[i] /\ Dispatchable(db', j)
<1>1. Init => Filed(db)
  <2>1. \A r \in Roles : << >> \in Seq(OwnedBy(r))
    BY EmptySeq
  <2> QED
    BY <2>1 DEF Init, Filed, Fields
<1>2. MovingInv /\ Unstopped /\ Filed(db) /\ [Next]_vars => Filed(db)' /\ [StepQueues]_vars
  <2>1. MovingInv /\ Unstopped /\ Filed(db) => StepQueues
    <3>1. SUFFICES ASSUME MovingInv, Unstopped, Filed(db), Tick
                   PROVE  \A i \in Items : db'.marker[i] =>
                            \/ ActiveFocus(db', Owner[i]) # NoItem
                            \/ \E j \in Items \ {i} : /\ Owner[j] = Owner[i]
                                                     /\ Dispatchable(db', j)
      OBVIOUS
    <3>2. \A j \in Items : ~db'.hold[j]
      BY <3>1, TickMoves DEF MovingInv, Rows, Tame, Unstopped
    <3> QED
      BY <3>1, <3>2, TickFiles DEF MovingInv, Rows
  <2>2. MovingInv /\ Filed(db) /\ [Next]_vars => Filed(db)'
    BY NextFiles
  <2> QED
    BY <2>1, <2>2
<1> HIDE DEF StepQueues
<1>3. Spec => [](MovingInv /\ Unstopped)
  BY NeverStopped
<1>4. Spec => [][StepQueues]_vars
  BY <1>1, <1>2, <1>3, PTL DEF Spec
<1> QED
  BY <1>4 DEF StepQueues, QueuedBehindSomething

=============================================================================
