--------------------------- MODULE SuspendProofs ---------------------------
(***************************************************************************)
(* Stop, Continue, crashes and restarts, for any number of items, roles,   *)
(* edits, stops and crashes: whatever is on hold can be released, a parent *)
(* put back to waiting for approved children is found, and a resume        *)
(* forgets no decision.  The steps of the dispatcher are those of          *)
(* CompanyDispatch, and keep what is shown of them in DispatchProofs; the  *)
(* steps around it are shown here to hand over a store and role sessions   *)
(* of which the same is true.                                              *)
(***************************************************************************)
EXTENDS SuspendResume, DispatchProofs, SequenceLemmas

-----------------------------------------------------------------------------
(* Stores that are handed over *)

(***************************************************************************)
(* From d to e, what a role session read from the store relies on is kept: *)
(* no role gets another focus, and the focus it keeps is served and let go *)
(* as before.                                                              *)
(***************************************************************************)
HandsOver(d, e) ==
  /\ \A i \in Items : Served(d, i) => Served(e, i)
  /\ \A i \in Items : e.focus[Owner[i]] = i /\ LetGo(d, i) => LetGo(e, i)
  /\ \A r \in Roles : e.focus[r] \in {d.focus[r], NoItem}

\* Hand-overs compose.
LEMMA HandOverTransitive ==
  ASSUME NEW d, NEW e, NEW f, HandsOver(d, e), HandsOver(e, f)
  PROVE  HandsOver(d, f)
<1>1. \A i \in Items : f.focus[Owner[i]] = i => e.focus[Owner[i]] = i
  BY OwnerAssumption, NoItemAssumption DEF HandsOver
<1> QED
  BY <1>1 DEF HandsOver

\* A store whose items stand where they stood, with fewer claims on them.
SamePlaces(d, e) ==
  /\ e.phase = d.phase /\ e.deps = d.deps /\ e.deleted = d.deleted /\ e.parent = d.parent
  /\ \A i \in Items : e.claim[i] => d.claim[i]

LEMMA SamePlacesFacts ==
  ASSUME NEW d, NEW e, Orderly(d), e \in Stores, SamePlaces(d, e)
  PROVE  Orderly(e) /\ (Awake(d) => Awake(e))
<1>1. Orderly(e)
  BY DEF Orderly, SamePlaces
<1>2. ASSUME NEW i \in Items, Woken(d, i)
      PROVE  Woken(e, i)
  <2>1. DepsApproved(e, i) <=> DepsApproved(d, i)
    BY DEF SamePlaces, DepsApproved, ActiveDeps
  <2> QED
    BY <1>2, <2>1 DEF Woken, SamePlaces
<1> QED
  BY <1>1, <1>2 DEF Awake

\* What is put on hold keeps its phase and loses its claim and its focus.
LEMMA PutOnHoldFacts ==
  ASSUME NEW d, Orderly(d), NEW S \in SUBSET Items
  PROVE  LET e == PutOnHold(d, S) IN
         /\ Orderly(e) /\ e.phase = d.phase
         /\ Awake(d) => Awake(e)
         /\ \A i \in Items : /\ e.hold[i] = (d.hold[i] \/ i \in S)
                             /\ LetGo(d, i) => LetGo(e, i)
         /\ HandsOver(d, e)
<1> DEFINE holds  == [i \in Items |-> d.hold[i] \/ i \in S]
           claims == [i \in Items |-> d.claim[i] /\ i \notin S]
           foci   == [r \in Roles |-> IF \E i \in S : Owner[i] = r THEN NoItem ELSE d.focus[r]]
           e      == PutOnHold(d, S)
<1>1. d \in Stores
  BY DEF Orderly
<1>2. e = [d EXCEPT !.hold = holds, !.claim = claims, !.focus = foci]
  BY <1>1 DEF PutOnHold, Stores
<1>3. /\ holds \in [Items -> BOOLEAN] /\ claims \in [Items -> BOOLEAN]
      /\ foci \in [Roles -> Items \cup {NoItem}]
  BY <1>1 DEF Stores
<1>4. /\ \A i \in Items : /\ holds[i] = (d.hold[i] \/ i \in S)
                          /\ claims[i] => d.claim[i]
      /\ \A r \in Roles : foci[r] \in {d.focus[r], NoItem}
  OBVIOUS
<1> HIDE DEF holds, claims, foci, e
<1>5. /\ e \in Stores
      /\ e.hold = holds /\ e.claim = claims /\ e.focus = foci
      /\ e.phase = d.phase /\ e.marker = d.marker /\ e.deps = d.deps
      /\ e.deleted = d.deleted /\ e.parent = d.parent
  BY <1>1, <1>2, <1>3 DEF Stores
<1>6. SamePlaces(d, e)
  BY <1>4, <1>5 DEF SamePlaces
<1>7. Orderly(e) /\ (Awake(d) => Awake(e))
  BY <1>5, <1>6, SamePlacesFacts
<1>8. HandsOver(d, e) /\ \A i \in Items : LetGo(d, i) => LetGo(e, i)
  BY <1>4, <1>5, OwnerAssumption DEF HandsOver, Served, LetGo
<1> QED
  BY <1>4, <1>5, <1>7, <1>8 DEF e

\* Roles that lose their focus.
LEMMA UnfocusedFacts ==
  ASSUME NEW d, Orderly(d), NEW R
  PROVE  LET e == [d EXCEPT !.focus = [r \in Roles |-> IF r \in R THEN NoItem ELSE @[r]]] IN
         /\ Orderly(e) /\ e.phase = d.phase /\ e.hold = d.hold
         /\ Awake(d) => Awake(e)
         /\ HandsOver(d, e)
<1> DEFINE foci == [r \in Roles |-> IF r \in R THEN NoItem ELSE d.focus[r]]
           e    == [d EXCEPT !.focus = foci]
<1>1. d \in Stores
  BY DEF Orderly
<1>2. foci \in [Roles -> Items \cup {NoItem}] /\ \A r \in Roles : foci[r] \in {d.focus[r], NoItem}
  BY <1>1 DEF Stores
<1>3. e = [d EXCEPT !.focus = [r \in Roles |-> IF r \in R THEN NoItem ELSE @[r]]]
  BY <1>1 DEF Stores
<1> HIDE DEF foci
<1>4. /\ e \in Stores
      /\ e.focus = foci /\ e.hold = d.hold /\ e.claim = d.claim
      /\ e.phase = d.phase /\ e.marker = d.marker /\ e.deps = d.deps
      /\ e.deleted = d.deleted /\ e.parent = d.parent
  BY <1>1, <1>2 DEF Stores
<1> HIDE DEF e
<1>5. Orderly(e) /\ (Awake(d) => Awake(e))
  BY <1>4, SamePlacesFacts DEF SamePlaces
<1>6. HandsOver(d, e)
  BY <1>2, <1>4, OwnerAssumption DEF HandsOver, Served, LetGo
<1> QED
  BY <1>3, <1>4, <1>5, <1>6

\* A sweep releases claims, those of running items among them.
LEMMA SweptFacts ==
  ASSUME NEW d, Orderly(d)
  PROVE  LET e == Swept(d) IN
         /\ Orderly(e) /\ e.phase = d.phase /\ e.hold = d.hold
         /\ Awake(d) => Awake(e)
         /\ HandsOver(d, e)
         /\ \A i \in Items : LetGo(d, i) => LetGo(e, i)
<1> DEFINE claims == [i \in Items |-> d.claim[i] /\ d.phase[i] \notin ResumablePhases]
           e      == Swept(d)
<1>1. d \in Stores
  BY DEF Orderly
<1>2. claims \in [Items -> BOOLEAN] /\ \A i \in Items : claims[i] => d.claim[i]
  OBVIOUS
<1>3. e = [d EXCEPT !.claim = claims]
  BY <1>1 DEF Swept, Stores
<1> HIDE DEF claims, e
<1>4. /\ e \in Stores
      /\ e.claim = claims
      /\ e.phase = d.phase /\ e.marker = d.marker /\ e.deps = d.deps /\ e.hold = d.hold
      /\ e.deleted = d.deleted /\ e.parent = d.parent /\ e.focus = d.focus
  BY <1>1, <1>2, <1>3 DEF Stores
<1>5. Orderly(e) /\ (Awake(d) => Awake(e))
  BY <1>2, <1>4, SamePlacesFacts DEF SamePlaces
<1>6. HandsOver(d, e) /\ \A i \in Items : LetGo(d, i) => LetGo(e, i)
  BY <1>2, <1>4 DEF HandsOver, Served, LetGo
<1> QED
  BY <1>4, <1>5, <1>6 DEF e

\* A bootstrap reads the pending queues.
LEMMA CachedFacts ==
  ASSUME NEW d, Orderly(d), Awake(d)
  PROVE  LET e == [d EXCEPT !.cached = d.pending] IN
         /\ Orderly(e) /\ Awake(e) /\ HandsOver(d, e)
         /\ e.phase = d.phase /\ e.hold = d.hold /\ e.focus = d.focus
<1> DEFINE e == [d EXCEPT !.cached = d.pending]
<1>1. /\ e \in Stores
      /\ e.phase = d.phase /\ e.claim = d.claim /\ e.marker = d.marker /\ e.deps = d.deps
      /\ e.deleted = d.deleted /\ e.parent = d.parent /\ e.hold = d.hold /\ e.focus = d.focus
  BY DEF Orderly, Stores
<1> HIDE DEF e
<1>2. Orderly(e) /\ Calm(d, e) /\ Awake(e)
  BY <1>1, SideWrite
<1>3. HandsOver(d, e)
  BY <1>2 DEF HandsOver, Calm, Frees
<1> QED
  BY <1>1, <1>2, <1>3 DEF e

-----------------------------------------------------------------------------
(* Sessions that are handed over *)

\* What of the invariant says nothing of the store but what is created.
LEMMA MovingParts ==
  ASSUME MovingInv
  PROVE  /\ DInv /\ Moving /\ Orderly(db) /\ Awake(db) /\ Serving /\ Attended
         /\ edits \in 0..MaxEdits /\ edits \in Nat /\ MaxEdits \in Nat
         /\ \A r \in Roles : ~InFlight(r) => turn[r].stage = "none" /\ ~turn[r].parks
<1>1. MaxEdits \in Nat /\ edits \in 0..MaxEdits
  BY MaxEditsAssumption DEF MovingInv, Rows
<1>2. edits \in Nat
  BY <1>1
<1> QED
  BY <1>1, <1>2 DEF MovingInv, Moving, Serving, InFlight

(***************************************************************************)
(* The dispatcher is gone, or a new one starts: the sessions are the rows  *)
(* of the store, and no turn is in flight.                                 *)
(***************************************************************************)
LEMMA RowsMove ==
  ASSUME MovingInv, NEW d, Orderly(d), Awake(d), Created(d) = Created(db), HandsOver(db, d),
         db' = d, sess' = RowsOf(d),
         turn' = [r \in Roles |-> NoTurn] \/ (turn' = turn /\ \A r \in Roles : ~InFlight(r)),
         queue' \in {queue, [r \in Roles |-> << >>]},
         replied' = replied, edits' = edits, loop' \in {"running", "crashed"}
  PROVE  MovingInv'
<1>1. DInv /\ Orderly(db) /\ Serving /\ Attended
  BY MovingParts
<1>2. /\ turn' \in [Roles -> Turns]
      /\ \A r \in Roles : turn'[r].stage = "none" /\ ~turn'[r].parks
  <2>1. NoTurn \in Turns /\ NoTurn.stage = "none" /\ ~NoTurn.parks
    BY DEF NoTurn, Turns
  <2>2. turn \in [Roles -> Turns]
    BY <1>1 DEF DInv
  <2> QED
    BY <2>1, <2>2, MovingParts
<1>3. \A r \in Roles : \/ d.focus[r] = NoItem /\ sess'[r] = Idle
                       \/ /\ d.focus[r] # NoItem
                          /\ sess[r] = [status |-> "running", item |-> d.focus[r]]
                          /\ sess'[r] = sess[r]
                       \/ /\ d.focus[r] # NoItem
                          /\ sess[r] # [status |-> "running", item |-> d.focus[r]]
                          /\ sess'[r] = [status |-> "blocked", item |-> d.focus[r]]
  BY DEF RowsOf
<1>4. \A r \in Roles : d.focus[r] \in Items \cup {NoItem}
  BY DEF Orderly, Stores
<1>5. \A r \in Roles : d.focus[r] # NoItem =>
        /\ d.focus[r] = db.focus[r] /\ d.focus[r] \in Items
        /\ Owner[d.focus[r]] = r
        /\ Served(d, d.focus[r])
        /\ sess[r] = [status |-> "running", item |-> d.focus[r]] \/ LetGo(d, d.focus[r])
  BY <1>1, <1>4 DEF Attended, HandsOver
<1>6. DInv'
  <2>1. sess' \in [Roles -> Sessions]
    <3>1. sess' = [r \in Roles |-> sess'[r]]
      BY DEF RowsOf
    <3>2. \A r \in Roles : sess'[r] \in Sessions
      <4>1. TAKE r \in Roles
      <4>2. Idle \in Sessions /\ sess[r] \in Sessions
        BY <1>1 DEF DInv, Idle, Sessions
      <4>3. [status |-> "blocked", item |-> d.focus[r]] \in Sessions
        BY <1>4 DEF Sessions
      <4> QED
        BY <1>3, <4>2, <4>3
    <3> QED
      BY <3>1, <3>2
  <2>2. \A r \in Roles : queue'[r] \in Seq(OwnedBy(r))
    BY <1>1, EmptySeq DEF DInv
  <2>3. Shaped(d)
    BY OrderlyShape
  <2>4. \E n \in Nat : Created(d) = 1..n
    BY <1>1 DEF DInv
  <2> QED
    BY <1>2, <2>1, <2>2, <2>3, <2>4 DEF DInv, InFlight
<1>7. Serving'
  <2>1. SUFFICES ASSUME NEW r \in Roles
                 PROVE  /\ sess'[r].status # "idle" => /\ sess'[r].item \in Items
                                                       /\ Owner[sess'[r].item] = r
                                                       /\ Served(d, sess'[r].item)
                        /\ sess'[r].status = "blocked" => LetGo(d, sess'[r].item)
    BY <1>2 DEF Serving
  <2>2. CASE sess'[r] = Idle
    BY <2>2 DEF Idle
  <2>3. CASE d.focus[r] # NoItem /\ sess'[r] = [status |-> "running", item |-> d.focus[r]]
    BY <1>5, <2>3
  <2>4. CASE /\ d.focus[r] # NoItem
             /\ sess[r] # [status |-> "running", item |-> d.focus[r]]
             /\ sess'[r] = [status |-> "blocked", item |-> d.focus[r]]
    BY <1>5, <2>4
  <2> QED
    BY <1>3, <2>2, <2>3, <2>4
<1>8. Attended'
  BY <1>3, <1>5 DEF Attended
<1>9. queue' = [r \in Roles |-> queue'[r]] /\ Rows'
  BY DEF MovingInv, Rows
<1> QED
  BY <1>6, <1>7, <1>8, <1>9 DEF MovingInv, Moving

\* A store written below sessions that stay as they are.
LEMMA SessionsStay ==
  ASSUME MovingInv, NEW d, Orderly(d), Awake(d), Created(d) = Created(db), HandsOver(db, d),
         \A i \in Items : LetGo(db, i) => LetGo(d, i),
         db' = d, UNCHANGED <<sess, turn, queue, replied, edits, loop>>
  PROVE  MovingInv'
<1>1. DInv /\ Orderly(db) /\ Serving /\ Attended
  BY MovingParts
<1>2. DInv'
  BY <1>1, OrderlyShape DEF DInv, InFlight
<1>3. Serving'
  <2>1. SUFFICES ASSUME NEW r \in Roles
                 PROVE  /\ sess[r].status # "idle" => /\ sess[r].item \in Items
                                                      /\ Owner[sess[r].item] = r
                                                      /\ Served(d, sess[r].item)
                        /\ sess[r].status = "blocked" \/ turn[r].parks => LetGo(d, sess[r].item)
                        /\ turn[r].parks => turn[r].stage = "ending"
    BY DEF Serving
  <2>2. turn[r].parks => sess[r].status = "running"
    BY <1>1 DEF Serving, DInv, InFlight
  <2> QED
    BY <1>1, <2>2 DEF Serving, HandsOver
<1>4. Attended'
  <2>1. SUFFICES ASSUME NEW r \in Roles, d.focus[r] # NoItem
                 PROVE  /\ Owner[d.focus[r]] = r
                        /\ Served(d, d.focus[r])
                        /\ \/ sess[r] = [status |-> "running", item |-> d.focus[r]]
                           \/ LetGo(d, d.focus[r])
    BY DEF Attended
  <2>2. d.focus[r] = db.focus[r] /\ d.focus[r] \in Items
    BY <2>1 DEF HandsOver, Orderly, Stores
  <2> QED
    BY <1>1, <2>1, <2>2 DEF Attended, HandsOver
<1> QED
  BY <1>2, <1>3, <1>4 DEF MovingInv, Moving, Rows

-----------------------------------------------------------------------------
(* Release *)

\* The phases a snapshot and a store can ask for.
Written == Phases \ Unwritten

LEMMA TargetIsWritten ==
  ASSUME NEW d, NEW i \in Items, d.phase[i] \in Written, NEW was \in Written
  PROVE  ResumeTarget(d, was, i) \in Written
<1>1. was # "queued"
  BY DEF Written, Unwritten
<1>2. {"waiting_for_children", "waiting_dependencies", "ready"} \subseteq Written
  BY DEF Written, Phases, Unwritten
<1> QED
  BY <1>1, <1>2 DEF ResumeTarget

(***************************************************************************)
(* One round of a release: it puts nothing on hold, frees its item, keeps  *)
(* what is finished, and loses no wake-up.                                 *)
(***************************************************************************)
Releases(d, e) ==
  /\ Orderly(e) /\ Awake(e) /\ HandsOver(d, e)
  /\ Created(e) = Created(d)
  /\ \A j \in Items : /\ e.hold[j] => d.hold[j]
                      /\ d.phase[j] \in DonePhases => e.phase[j] = d.phase[j]

LEMMA ReleasesReflexive ==
  ASSUME NEW d, Orderly(d), Awake(d)
  PROVE  Releases(d, d)
<1>1. \A r \in Roles : d.focus[r] \in {d.focus[r], NoItem}
  OBVIOUS
<1> QED
  BY <1>1 DEF Releases, HandsOver

LEMMA ReleasesTransitive ==
  ASSUME NEW d, NEW e, NEW f, Releases(d, e), Releases(e, f)
  PROVE  Releases(d, f)
BY HandOverTransitive DEF Releases

LEMMA ResumeItemReleases ==
  ASSUME NEW d, Orderly(d), Awake(d),
         NEW before, NEW snap, NEW i \in Items,
         d.phase[i] # Absent,
         snap[i] \in Written, before.phase[i] \in Written,
         before.phase[i] \notin DonePhases
  PROVE  LET e == ResumeItem(d, before, snap, i) IN
         Releases(d, e) /\ ~e.hold[i]
<1> DEFINE target == ResumeTarget(before, snap[i], i)
           freed  == [d EXCEPT !.hold[i] = FALSE, !.claim[i] = FALSE]
           moved  == IF target = before.phase[i] THEN freed ELSE Transition(freed, i, target)
           e      == [moved EXCEPT !.focus[Owner[i]] = NoItem]
<1>1. ResumeItem(d, before, snap, i) = e
  BY DEF ResumeItem, Written, Phases, Absent
<1>2. target \in Written
  BY TargetIsWritten
<1> HIDE DEF target
<1>3. /\ freed \in Stores
      /\ freed.phase = d.phase /\ freed.marker = d.marker /\ freed.deps = d.deps
      /\ freed.deleted = d.deleted /\ freed.parent = d.parent /\ freed.focus = d.focus
      /\ \A j \in Items : /\ freed.hold[j] = (d.hold[j] /\ j # i)
                          /\ freed.claim[j] = (d.claim[j] /\ j # i)
  BY DEF Orderly, Stores
<1> HIDE DEF freed
<1>4. Orderly(freed) /\ Awake(freed)
  BY <1>3, SamePlacesFacts DEF SamePlaces
<1>5. /\ Orderly(moved) /\ Awake(moved)
      /\ \A j \in Items : /\ Served(freed, j) => Served(moved, j)
                          /\ j # i /\ LetGo(freed, j) => LetGo(moved, j)
                          /\ freed.phase[j] \in DonePhases => moved.phase[j] = freed.phase[j]
      /\ Frees(freed, moved)
      /\ Created(moved) = Created(freed)
  <2> DEFINE s == SavePhase(freed, i, target)
  <2>1. CASE moved = freed
    BY <1>4, <2>1 DEF Frees
  <2>2. CASE moved = s /\ Legal(freed.phase[i], target)
    <3>1. Shaped(freed) /\ target \in Phases /\ target # Absent
      BY <1>2, <1>4, OrderlyShape DEF Written, Phases, Absent
    <3>2. /\ s.phase[i] = target
          /\ \A j \in Items \ {i} : Shift(freed, s, j)
      BY <3>1, SavePhaseShifts
    <3>3. Woken([freed EXCEPT !.phase[i] = target], i)
      BY <1>3 DEF Woken, Stores
    <3>4. /\ Orderly(s) /\ Awake(s) /\ Frees(freed, s)
          /\ \A j \in Items : /\ Served(freed, j) => Served(s, j)
                              /\ j # i /\ LetGo(freed, j) => LetGo(s, j)
      BY <1>2, <1>4, <3>3, SavePhaseFacts DEF Written
    <3>5. Created(s) = Created(freed)
      <4> DEFINE one == {i}
      <4>1. \A j \in one : freed.phase[j] # Absent /\ s.phase[j] # Absent
        BY <1>3, <3>1, <3>2
      <4>2. \A j \in Items \ one : Shift(freed, s, j)
        BY <3>2
      <4> HIDE DEF s, one
      <4> QED
        BY <4>1, <4>2, CreatedKept
    <3>6. \A j \in Items : freed.phase[j] \in DonePhases => s.phase[j] = freed.phase[j]
      <4>1. TAKE j \in Items
      <4>2. CASE j = i
        BY <2>2, <3>1, <3>2, <4>2 DEF Legal, AllowedTransitions, DonePhases, Phases
      <4>3. CASE j # i
        BY <3>2, <4>3, ColumnPhases DEF Shift, B!Open, DonePhases, KanbanColumn, Absent,
             TodoPhases, InProgressPhases, InReviewPhases
      <4> QED
        BY <4>2, <4>3
    <3> QED
      BY <2>2, <3>4, <3>5, <3>6
  <2> QED
    BY <2>1, <2>2 DEF Transition
<1> HIDE DEF moved
<1>6. /\ Orderly(e) /\ Awake(e)
      /\ e.phase = moved.phase /\ e.hold = moved.hold /\ e.claim = moved.claim
      /\ e.marker = moved.marker
      /\ \A r \in Roles : e.focus[r] = IF r = Owner[i] THEN NoItem ELSE moved.focus[r]
  <2>1. moved \in Stores
    BY <1>5 DEF Orderly
  <2>2. /\ e \in Stores
        /\ e.phase = moved.phase /\ e.hold = moved.hold /\ e.claim = moved.claim
        /\ e.marker = moved.marker /\ e.deps = moved.deps /\ e.deleted = moved.deleted
        /\ e.parent = moved.parent
        /\ \A r \in Roles : e.focus[r] = IF r = Owner[i] THEN NoItem ELSE moved.focus[r]
    BY <2>1 DEF Stores
  <2> HIDE DEF e
  <2> QED
    BY <1>5, <2>2, SamePlacesFacts DEF SamePlaces
<1> HIDE DEF e
<1>7. HandsOver(d, e)
  <2>1. \A r \in Roles : e.focus[r] \in {d.focus[r], NoItem}
    BY <1>3, <1>5, <1>6 DEF Frees
  <2>2. \A j \in Items : Served(d, j) => Served(e, j)
    <3>1. TAKE j \in Items
    <3>2. Served(d, j) => Served(freed, j)
      BY <1>3 DEF Served
    <3>3. Served(moved, j) => Served(e, j)
      BY <1>6, OwnerAssumption DEF Served
    <3> QED
      BY <1>5, <3>2, <3>3
  <2>3. \A j \in Items : e.focus[Owner[j]] = j /\ LetGo(d, j) => LetGo(e, j)
    <3>1. TAKE j \in Items
    <3>2. HAVE e.focus[Owner[j]] = j /\ LetGo(d, j)
    <3>3. j # i
      BY <1>6, <3>2, OwnerAssumption, NoItemAssumption
    <3>4. LetGo(freed, j)
      BY <1>3, <3>2 DEF LetGo
    <3> QED
      BY <1>5, <1>6, <3>3, <3>4 DEF LetGo
  <2> QED
    BY <2>1, <2>2, <2>3 DEF HandsOver
<1>8. \A j \in Items : (e.hold[j] => d.hold[j]) /\ ~e.hold[i]
  BY <1>3, <1>5, <1>6 DEF Frees
<1>9. \A j \in Items : d.phase[j] \in DonePhases => e.phase[j] = d.phase[j]
  BY <1>3, <1>5, <1>6
<1>10. Created(e) = Created(d)
  BY <1>3, <1>5, <1>6 DEF Created
<1> QED
  BY <1>1, <1>6, <1>7, <1>8, <1>9, <1>10 DEF Releases

\* The rounds of a release, one after the other.
LEMMA ResumedRounds ==
  ASSUME NEW d, NEW snap
  PROVE  /\ Resumed(d, snap, 0) = d
         /\ \A m \in 1..MaxItems :
              Resumed(d, snap, m) = ResumeItem(Resumed(d, snap, m - 1), d, snap, m)
<1> DEFINE round(f, m) == IF m = 0 THEN d ELSE ResumeItem(f[m - 1], d, snap, m)
           upTo == CHOOSE f : f = [m \in 0..MaxItems |-> round(f, m)]
           correct(f, n) == \A m \in 0..n : f[m] = round(f, m)
           failing == {n \in 0..MaxItems :
                         ~\E f : f = [m \in 0..MaxItems |-> f[m]] /\ correct(f, n)}
<1>1. MaxItems \in Nat /\ failing \in SUBSET Nat
  BY MaxItemsAssumption
<1>2. failing = {}
  <2>1. SUFFICES ASSUME failing # {} PROVE FALSE
    OBVIOUS
  <2>2. PICK n \in failing : \A k \in failing : n <= k
    <3> HIDE DEF failing
    <3> QED
      BY <1>1, <2>1, LeastExists
  <2>3. n \in 0..MaxItems
    OBVIOUS
  <2>4. CASE n = 0
    <3> DEFINE f == [m \in 0..MaxItems |-> d]
    <3>1. f = [m \in 0..MaxItems |-> f[m]] /\ correct(f, 0)
      BY <1>1
    <3> QED
      BY <2>4, <3>1
  <2>5. CASE n # 0
    <3>1. n - 1 \in 0..MaxItems /\ n - 1 \notin failing
      <4>1. n - 1 \in 0..MaxItems /\ ~(n <= n - 1)
        BY <1>1, <2>3, <2>5
      <4> HIDE DEF failing
      <4> QED
        BY <2>2, <4>1
    <3>2. PICK f : f = [m \in 0..MaxItems |-> f[m]] /\ correct(f, n - 1)
      BY <3>1
    <3> DEFINE g == [m \in 0..MaxItems |-> IF m = n THEN round(f, n) ELSE f[m]]
    <3> HIDE DEF round
    <3>3. g = [m \in 0..MaxItems |-> g[m]]
      OBVIOUS
    <3>4. \A m \in 0..MaxItems : m # n => g[m] = f[m]
      OBVIOUS
    <3>5. g[n] = round(f, n)
      BY <2>3
    <3> HIDE DEF g
    <3>6. \A m \in 0..n : round(g, m) = round(f, m)
      <4>1. \A m \in 0..n : m # 0 => m - 1 \in 0..MaxItems /\ m - 1 # n
        BY <1>1, <2>3
      <4> QED
        BY <3>4, <4>1 DEF round
    <3>7. correct(g, n)
      <4>1. \A m \in 0..n : m # n => m \in 0..(n - 1) /\ m \in 0..MaxItems
        BY <1>1, <2>3
      <4> QED
        BY <3>2, <3>4, <3>5, <3>6, <4>1
    <3> HIDE DEF correct
    <3> QED
      BY <2>3, <3>3, <3>7
  <2> QED
    BY <2>4, <2>5
<1>3. upTo = [m \in 0..MaxItems |-> round(upTo, m)]
  <2>1. \E f : f = [m \in 0..MaxItems |-> f[m]] /\ correct(f, MaxItems)
    BY <1>1, <1>2
  <2>2. PICK f : f = [m \in 0..MaxItems |-> f[m]] /\ correct(f, MaxItems)
    BY <2>1
  <2> HIDE DEF round
  <2>3. f = [m \in 0..MaxItems |-> round(f, m)]
    BY <2>2
  <2> QED
    BY <2>3
<1>4. \A m \in 0..MaxItems : Resumed(d, snap, m) = upTo[m]
  BY DEF Resumed
<1> HIDE DEF upTo
<1>5. \A m \in 0..MaxItems : upTo[m] = round(upTo, m)
  <2> HIDE DEF round
  <2> QED
    BY <1>3
<1>6. 0 \in 0..MaxItems /\ \A m \in 1..MaxItems : m \in 0..MaxItems /\ m - 1 \in 0..MaxItems /\ m # 0
  BY <1>1
<1> QED
  BY <1>4, <1>5, <1>6

\* A snapshot that an earlier state of the store d left.
SnapshotOf(d, snap) ==
  \A i \in Items : /\ snap[i] \in Written \cup {Absent}
                   /\ snap[i] # Absent => d.phase[i] # Absent

\* What a release has freed after n rounds.
LEMMA ResumedFacts ==
  ASSUME NEW d, Orderly(d), Awake(d), NEW snap, SnapshotOf(d, snap), NEW n \in 0..MaxItems
  PROVE  /\ Releases(d, Resumed(d, snap, n))
         /\ \A i \in 1..n : snap[i] # Absent /\ d.phase[i] \notin DonePhases
                              => ~Resumed(d, snap, n).hold[i]
<1> DEFINE fine(m) == /\ Releases(d, Resumed(d, snap, m))
                      /\ \A i \in 1..m : snap[i] # Absent /\ d.phase[i] \notin DonePhases
                                           => ~Resumed(d, snap, m).hold[i]
           failing == {m \in 0..MaxItems : ~fine(m)}
<1>1. MaxItems \in Nat /\ failing \in SUBSET Nat
  BY MaxItemsAssumption
<1>2. fine(0)
  BY ResumedRounds, ReleasesReflexive
<1>3. ASSUME NEW m \in 1..MaxItems, fine(m - 1) PROVE fine(m)
  <2> DEFINE acc == Resumed(d, snap, m - 1)
             e   == Resumed(d, snap, m)
  <2>1. m \in Items /\ e = ResumeItem(acc, d, snap, m)
    BY ResumedRounds DEF Items
  <2>2. Releases(d, acc) /\ Orderly(acc) /\ Awake(acc)
    BY <1>3 DEF Releases
  <2>3. \A i \in 1..m : i \in Items /\ (i # m => i \in 1..(m - 1))
    BY <1>1 DEF Items
  <2> HIDE DEF acc, e
  <2>4. Releases(acc, e) /\ (snap[m] # Absent /\ d.phase[m] \notin DonePhases => ~e.hold[m])
    <3>1. CASE snap[m] = Absent \/ d.phase[m] \in DonePhases
      <4>1. e = acc
        BY <2>1, <3>1 DEF ResumeItem
      <4> QED
        BY <2>2, <3>1, <4>1, ReleasesReflexive
    <3>2. CASE snap[m] # Absent /\ d.phase[m] \notin DonePhases
      <4>1. snap[m] \in Written /\ d.phase[m] \in Written
        BY <2>1, <3>2 DEF SnapshotOf, Orderly, Stores, Written
      <4>2. acc.phase[m] # Absent
        BY <2>1, <2>2, <4>1 DEF Releases, Created, Written, Phases, Absent
      <4> QED
        BY <2>1, <2>2, <3>2, <4>1, <4>2, ResumeItemReleases
    <3> QED
      BY <3>1, <3>2
  <2>5. Releases(d, e)
    BY <2>2, <2>4, ReleasesTransitive
  <2>6. \A i \in 1..m : snap[i] # Absent /\ d.phase[i] \notin DonePhases => ~e.hold[i]
    <3>1. TAKE i \in 1..m
    <3>2. CASE i = m
      BY <2>4, <3>2
    <3>3. CASE i # m
      <4>1. snap[i] # Absent /\ d.phase[i] \notin DonePhases => ~acc.hold[i]
        BY <1>3, <2>3, <3>3 DEF acc
      <4> QED
        BY <2>3, <2>4, <3>3, <4>1 DEF Releases
    <3> QED
      BY <3>2, <3>3
  <2> QED
    BY <2>5, <2>6 DEF e
<1> HIDE DEF fine
<1>4. failing = {}
  <2>1. SUFFICES ASSUME failing # {} PROVE FALSE
    OBVIOUS
  <2>2. PICK m \in failing : \A k \in failing : m <= k
    <3> HIDE DEF failing
    <3> QED
      BY <1>1, <2>1, LeastExists
  <2>3. m \in 0..MaxItems /\ ~fine(m)
    OBVIOUS
  <2>4. m # 0
    BY <1>2, <2>3
  <2>5. m \in 1..MaxItems /\ m - 1 \in 0..MaxItems /\ ~(m <= m - 1)
    BY <1>1, <2>3, <2>4
  <2>6. m - 1 \notin failing
    <3> HIDE DEF failing
    <3> QED
      BY <2>2, <2>5
  <2>7. fine(m - 1)
    BY <2>5, <2>6
  <2> QED
    BY <1>3, <2>3, <2>5, <2>7
<1>5. fine(n)
  BY <1>4
<1> QED
  BY <1>5 DEF fine

-----------------------------------------------------------------------------
(* The invariant *)

(***************************************************************************)
(* A checkpoint can only be released if its snapshot is one of an earlier  *)
(* state of the store; and the item that a release would free of its hold  *)
(* is in the snapshot of the latest one.                                   *)
(***************************************************************************)
Taken(d) == {c \in Checkpoints : SnapshotOf(d, c.snap)}

Covered(i) == ckpts # << >> /\ Last(ckpts).snap[i] # Absent

(***************************************************************************)
(* What is on hold exists, and was held by a terminal that quit, or is     *)
(* finished meanwhile, or can be released.  While a cancellation is on its *)
(* way, what it is going to hold can be released too.  And without a       *)
(* dispatcher no turn is in flight.                                        *)
(***************************************************************************)
HeldInv ==
  /\ \A i \in Items : db.hold[i] =>
       /\ db.phase[i] # Absent
       /\ i \in bare \/ db.phase[i] \in DonePhases \/ (engine # "up" /\ Covered(i))
  /\ engine = "stopping" => \A r \in Roles : sess[r].status # "idle" => Covered(sess[r].item)
  /\ engine \notin {"up", "stopping"} => \A r \in Roles : ~InFlight(r)

SuspendInv ==
  /\ MovingInv
  /\ engine \in {"up", "stopping", "down", "dead"}
  /\ ckpts \in Seq(Taken(db))
  /\ recalled \in SUBSET Roles
  /\ bare \in SUBSET Items
  /\ stops \in 0..MaxStops
  /\ crashes \in 0..MaxCrashes
  /\ HeldInv

\* A store in which nothing ceases to exist invalidates no checkpoint.
LEMMA TakenGrows ==
  ASSUME NEW d, NEW e, \A i \in Items : d.phase[i] # Absent => e.phase[i] # Absent,
         NEW s \in Seq(Taken(d))
  PROVE  s \in Seq(Taken(e))
<1>1. Taken(d) \subseteq Taken(e)
  BY DEF Taken, SnapshotOf
<1> QED
  BY <1>1, SeqMonotonic

\* The latest checkpoint.
LEMMA LatestTaken ==
  ASSUME NEW d, NEW s \in Seq(Taken(d)), s # << >>
  PROVE  /\ Len(s) \in 1..Len(s) /\ s[Len(s)] = Last(s)
         /\ Last(s) \in Checkpoints /\ SnapshotOf(d, Last(s).snap)
         /\ Front(s) \in Seq(Taken(d))
<1>1. Len(s) \in Nat /\ Len(s) # 0 /\ s \in [1..Len(s) -> Taken(d)]
  BY LenProperties, EmptySeq
<1>2. Len(s) \in 1..Len(s) /\ Len(s) - 1 \in Nat
  BY <1>1
<1>3. Last(s) = s[Len(s)] /\ s[Len(s)] \in Taken(d)
  BY <1>1, <1>2 DEF Last
<1>4. Front(s) \in Seq(Taken(d))
  <2>1. \A k \in 1..(Len(s) - 1) : s[k] \in Taken(d)
    BY <1>1
  <2>2. Front(s) = [k \in 1..(Len(s) - 1) |-> s[k]]
    BY DEF Front
  <2> QED
    BY <1>2, <2>1, <2>2, IsASeq
<1> QED
  BY <1>2, <1>3, <1>4 DEF Taken

\* A new checkpoint holds the phases as they are.
LEMMA CheckpointSaved ==
  ASSUME Orderly(db), ckpts \in Seq(Taken(db)), SaveCheckpoint
  PROVE  /\ ckpts' \in Seq(Taken(db))
         /\ ckpts' # << >> /\ Last(ckpts').snap = db.phase
<1> DEFINE kept == EntriesAt(ckpts, {k \in DOMAIN ckpts : ckpts[k].status = "resuming"})
           new  == [status |-> "pending", snap |-> db.phase]
<1>1. new \in Taken(db)
  BY DEF Orderly, Stores, Taken, Checkpoints, SnapshotOf, Written
<1>2. kept \in Seq(Taken(db))
  BY EntriesStay
<1>3. ckpts' = Append(kept, new)
  BY DEF SaveCheckpoint
<1> HIDE DEF kept, new
<1>4. /\ ckpts' \in Seq(Taken(db)) /\ ckpts' # << >>
      /\ Len(ckpts') = Len(kept) + 1 /\ ckpts'[Len(kept) + 1] = new
  BY <1>1, <1>2, <1>3, AppendProperties
<1> QED
  BY <1>4 DEF Last, new

\* Nothing that exists ceases to, in a step of the board.
LEMMA CreatedGrows ==
  ASSUME BoardStepped
  PROVE  \A i \in Items : db.phase[i] # Absent => db'.phase[i] # Absent
<1> SUFFICES ASSUME NEW i \in Items, columnOf[i] # "absent"
             PROVE  columnOf'[i] # "absent"
  BY ColumnPhases DEF columnOf
<1>1. B!OnlyShifts(i) => columnOf'[i] # "absent"
  BY DEF B!OnlyShifts, B!Open
<1>2. ASSUME NEW C, B!OthersShift(C), i \notin C PROVE columnOf'[i] # "absent"
  BY <1>1, <1>2 DEF B!OthersShift
<1>3. CASE UNCHANGED B!boardVars
  BY <1>3 DEF B!boardVars
<1>4. CASE B!Take
  BY <1>2, <1>4 DEF B!Take
<1>5. ASSUME NEW r \in Roles, B!File(r) PROVE columnOf'[i] # "absent"
  <2>1. PICK c \in Items : columnOf'[c] = "todo" /\ B!OthersShift({c})
    BY <1>5 DEF B!File
  <2> QED
    BY <1>2, <2>1
<1>6. ASSUME NEW r \in Roles, B!Deliver(r) PROVE columnOf'[i] # "absent"
  <2>1. /\ columnOf'[handOf[r]] \in {"in_review", "approved", "closed"}
        /\ B!OthersShift({handOf[r]})
    BY <1>6 DEF B!Deliver
  <2> QED
    BY <1>2, <2>1
<1>7. ASSUME NEW r \in Roles, B!LayDown(r) PROVE columnOf'[i] # "absent"
  BY <1>7 DEF B!LayDown
<1>8. ASSUME NEW c \in Items, B!Judge(c) \/ B!SendBack(c) PROVE columnOf'[i] # "absent"
  <2>1. columnOf'[c] # "absent" /\ B!OthersShift({c})
    BY <1>8 DEF B!Judge, B!SendBack
  <2> QED
    BY <1>2, <2>1
<1>9. ASSUME NEW C \in SUBSET Items, B!Withdraw(C) PROVE columnOf'[i] # "absent"
  <2>1. (\A c \in C : columnOf'[c] = "closed") /\ B!OthersShift(C)
    BY <1>9 DEF B!Withdraw
  <2> QED
    BY <1>2, <2>1
<1> QED
  BY <1>3, <1>4, <1>5, <1>6, <1>7, <1>8, <1>9 DEF BoardStepped, B!BoardNext

\* A dispatcher that starts finds a correct store, and nothing held.
LEMMA InitSuspend == SuspendInit => SuspendInv
<1> SUFFICES ASSUME SuspendInit PROVE SuspendInv
  OBVIOUS
<1>1. MovingInv
  BY InitMoves DEF SuspendInit
<1>2. << >> \in Seq(Taken(db))
  BY EmptySeq
<1>3. HeldInv
  BY DEF SuspendInit, Init, HeldInv
<1> QED
  BY <1>1, <1>2, <1>3, MaxStopsAssumption, MaxCrashesAssumption DEF SuspendInit, SuspendInv

\* The parts of the invariant that most steps look at.
LEMMA SuspendParts ==
  ASSUME SuspendInv
  PROVE  /\ MovingInv /\ DInv /\ Orderly(db) /\ Awake(db) /\ Serving
         /\ \A r \in Roles : sess[r].status # "idle" =>
              sess[r].item \in Items /\ db.phase[sess[r].item] # Absent
         /\ \A r \in Roles : InFlight(r) => sess[r].status = "running"
         /\ edits \in Nat /\ loop \in {"running", "crashed"}
BY MovingParts DEF SuspendInv, Serving, Served, DInv, MovingInv, Rows

\* The turns and the board of a run that is being stopped go on with the items
\* they have.
LEMMA StoppingKeepsItems ==
  ASSUME SuspendInv,
         (\E r \in Roles : StartTurn(r) \/ TurnGoesOn(r)) \/ (\E i \in Items : BoardStep(i))
  PROVE  \A s \in Roles : sess'[s].status # "idle" =>
           sess[s].status # "idle" /\ sess'[s].item = sess[s].item
<1>1. CASE sess' = sess
  BY <1>1
<1>2. ASSUME NEW r \in Roles, CompleteClaim(r)
      PROVE  \A s \in Roles : sess'[s].status # "idle" =>
               sess[s].status # "idle" /\ sess'[s].item = sess[s].item
  <2>1. sess[r].status = "running" /\ sess \in [Roles -> Sessions]
    BY <1>2, SuspendParts DEF CompleteClaim, InFlight, DInv
  <2>2. sess' = [sess EXCEPT ![r] = IF turn[r].parks THEN [@ EXCEPT !.status = "blocked"] ELSE Idle]
    BY <1>2 DEF CompleteClaim
  <2> QED
    BY <2>1, <2>2 DEF Idle, Sessions
<1>3. ASSUME NEW r \in Roles, StartTurn(r) \/ TurnGoesOn(r), ~CompleteClaim(r) PROVE sess' = sess
  BY <1>3 DEF StartTurn, TurnGoesOn, Delegate, DropStaleResult, ParkForPeer, ParkForChildren,
              FinishWork, TurnTimesOut, TurnReturnsFailure, EndTurn
<1>4. ASSUME NEW i \in Items, BoardStep(i) PROVE sess' = sess
  BY <1>4 DEF BoardStep, PeerReplies, Approve, Rework, EscalateToHuman, HumanRejects,
              ModifyWorkItem, DeleteWorkItem
<1> QED
  BY <1>1, <1>2, <1>3, <1>4

\* The steps of the dispatcher, its turns and the board.
LEMMA DispatchingKeeps ==
  ASSUME SuspendInv, Dispatching
  PROVE  SuspendInv'
<1>1. /\ UNCHANGED <<engine, ckpts, bare, stops, crashes>>
      /\ \/ engine = "up" /\ recalled' = recalled /\ (Loop \/ \E r \in Roles : TurnStep(r))
         \/ /\ engine = "stopping"
            /\ \E r \in Roles : /\ StartTurn(r) \/ TurnGoesOn(r)
                                /\ recalled' \in {recalled, recalled \cup {r}}
         \/ /\ engine \in {"up", "stopping"} /\ recalled' = recalled
            /\ \E i \in Items : BoardStep(i)
         \/ engine = "down" /\ recalled' = recalled /\ \E i \in Items : PanelStep(i)
  BY DEF Dispatching
<1>2. Next /\ recalled' \in SUBSET Roles
  BY <1>1 DEF SuspendInv, Next, Loop, TurnStep, PanelStep, BoardStep
<1>3. MovingInv' /\ Tame
  BY <1>2, NextMoves DEF SuspendInv
<1>4. BoardStepped /\ Settles
  BY <1>2, SuspendParts, NextDInv
<1>5. \A i \in Items : db.phase[i] # Absent => db'.phase[i] # Absent
  BY <1>4, CreatedGrows
<1>6. ckpts' \in Seq(Taken(db'))
  BY <1>1, <1>5, TakenGrows DEF SuspendInv
<1>7. \A i \in Items : db'.hold[i] =>
        /\ db'.phase[i] # Absent
        /\ i \in bare \/ db'.phase[i] \in DonePhases \/ (engine # "up" /\ Covered(i))
  <2>1. SUFFICES ASSUME NEW i \in Items, db'.hold[i]
                 PROVE  /\ db'.phase[i] # Absent
                        /\ \/ i \in bare \/ db'.phase[i] \in DonePhases
                           \/ engine # "up" /\ Covered(i)
    OBVIOUS
  <2>2. /\ db.phase[i] # Absent
        /\ i \in bare \/ db.phase[i] \in DonePhases \/ (engine # "up" /\ Covered(i))
    BY <1>3, <2>1 DEF Tame, SuspendInv, HeldInv
  <2>3. db.phase[i] \in DonePhases => db'.phase[i] \in DonePhases
    BY <1>4, <2>1 DEF Settles, StaysFinished, DonePhases
  <2> QED
    BY <1>5, <2>2, <2>3
<1>8. engine = "stopping" => \A r \in Roles : sess'[r].status # "idle" => Covered(sess'[r].item)
  <2>1. SUFFICES ASSUME engine = "stopping", NEW r \in Roles, sess'[r].status # "idle"
                 PROVE  Covered(sess'[r].item)
    OBVIOUS
  <2>2. sess[r].status # "idle" /\ sess'[r].item = sess[r].item
    BY <1>1, <2>1, StoppingKeepsItems
  <2> QED
    BY <2>1, <2>2 DEF SuspendInv, HeldInv
<1>9. engine \notin {"up", "stopping"} => turn' = turn
  BY <1>1 DEF PanelStep, PeerReplies, Approve, Rework, HumanRejects
<1>10. HeldInv'
  BY <1>1, <1>7, <1>8, <1>9 DEF SuspendInv, HeldInv, Covered, InFlight
<1> QED
  BY <1>1, <1>2, <1>3, <1>6, <1>10 DEF SuspendInv

\* What is left of the stops and of the crashes, after one of them.
LEMMA OneLess ==
  ASSUME SuspendInv
  PROVE  /\ stops > 0 => stops - 1 \in 0..MaxStops
         /\ crashes > 0 => crashes - 1 \in 0..MaxCrashes
BY MaxStopsAssumption, MaxCrashesAssumption DEF SuspendInv

\* The stop button.
LEMMA StopKeeps ==
  ASSUME SuspendInv, Stop
  PROVE  SuspendInv'
<1> DEFINE S == Unfinished(db)
           e == PutOnHold(db, S)
<1>1. /\ MovingInv /\ Orderly(db) /\ Awake(db)
      /\ \A r \in Roles : sess[r].status # "idle" =>
              sess[r].item \in Items /\ db.phase[sess[r].item] # Absent
      /\ loop \in {"running", "crashed"}
  BY SuspendParts
<1>2. S \in SUBSET Items /\ \A i \in S : db.phase[i] # Absent
  BY DEF Unfinished, Created
<1> HIDE DEF S
<1>3. /\ Orderly(e) /\ Awake(e) /\ e.phase = db.phase
      /\ \A i \in Items : /\ e.hold[i] = (db.hold[i] \/ i \in S)
                          /\ LetGo(db, i) => LetGo(e, i)
      /\ HandsOver(db, e)
  BY <1>1, <1>2, PutOnHoldFacts
<1>4. Created(e) = Created(db)
  BY <1>3 DEF Created
<1>5. /\ db' = e /\ stops' = stops - 1 /\ crashes' = crashes /\ recalled' = {} /\ bare' = {}
      /\ engine \in {"up", "down"} /\ stops > 0 /\ SaveCheckpoint
      /\ UNCHANGED <<turn, queue, replied, edits, loop>>
      /\ \/ engine = "up" /\ engine' = "stopping" /\ sess' = sess
         \/ engine = "down" /\ engine' = "down" /\ sess' = RowsOf(e)
  BY DEF Stop, StopRequested, S
<1> HIDE DEF e
<1>6. /\ ckpts' \in Seq(Taken(db'))
      /\ ckpts' # << >> /\ Last(ckpts').snap = db.phase
  BY <1>1, <1>3, <1>5, CheckpointSaved DEF SuspendInv, Taken, SnapshotOf
<1>7. CASE engine = "up"
  <2>1. MovingInv'
    BY <1>1, <1>3, <1>4, <1>5, <1>7, SessionsStay
  <2>2. HeldInv'
    BY <1>1, <1>2, <1>3, <1>5, <1>6, <1>7 DEF HeldInv, SuspendInv, Covered
  <2> QED
    BY <1>5, <1>6, <1>7, <2>1, <2>2, OneLess DEF SuspendInv
<1>8. CASE engine = "down"
  <2>1. \A r \in Roles : ~InFlight(r)
    BY <1>8 DEF SuspendInv, HeldInv
  <2>2. MovingInv'
    BY <1>1, <1>3, <1>4, <1>5, <1>8, <2>1, RowsMove
  <2>3. HeldInv'
    BY <1>1, <1>2, <1>3, <1>5, <1>6, <1>8, <2>1 DEF HeldInv, SuspendInv, Covered, InFlight
  <2> QED
    BY <1>5, <1>6, <1>8, <2>2, <2>3, OneLess DEF SuspendInv
<1> QED
  BY <1>5, <1>7, <1>8

(***************************************************************************)
(* The dispatcher is gone, and with it the turns: what every step of that  *)
(* kind has to show of the store it leaves.                                *)
(***************************************************************************)
LEMMA GoneKeeps ==
  ASSUME SuspendInv, NEW d, Orderly(d), Awake(d), Created(d) = Created(db), HandsOver(db, d),
         DispatcherGone(d)
  PROVE  MovingInv' /\ \A r \in Roles : ~InFlight(r)'
<1>1. MovingInv'
  BY SuspendParts, RowsMove DEF DispatcherGone
<1>2. \A r \in Roles : turn'[r].stage = "none"
  BY DEF DispatcherGone, NoTurn
<1> QED
  BY <1>1, <1>2 DEF InFlight

\* The process ends in the middle of a stop.
LEMMA CrashDuringStopKeeps ==
  ASSUME SuspendInv, CrashDuringStop
  PROVE  SuspendInv'
<1>1. PICK n \in 0..MaxItems : DispatcherGone(PutOnHold(db, FirstOf(Unfinished(db), n)))
  BY DEF CrashDuringStop
<1> DEFINE S == FirstOf(Unfinished(db), n)
           e == PutOnHold(db, S)
<1>2. /\ MovingInv /\ Orderly(db) /\ Awake(db)
  BY SuspendParts
<1>3. S \in SUBSET Items /\ \A i \in S : db.phase[i] # Absent
  BY DEF FirstOf, Unfinished, Created
<1>4. DispatcherGone(e) /\ db' = e
  BY <1>1 DEF DispatcherGone
<1> HIDE DEF S
<1>5. /\ Orderly(e) /\ Awake(e) /\ e.phase = db.phase
      /\ \A i \in Items : e.hold[i] = (db.hold[i] \/ i \in S)
      /\ HandsOver(db, e)
  BY <1>2, <1>3, PutOnHoldFacts
<1>6. Created(e) = Created(db)
  BY <1>5 DEF Created
<1> HIDE DEF e
<1>7. /\ stops' = stops - 1 /\ crashes' = crashes - 1 /\ recalled' = recalled /\ bare' = bare
      /\ engine' = "dead" /\ stops > 0 /\ crashes > 0 /\ SaveCheckpoint
  BY DEF CrashDuringStop, StopRequested
<1>8. /\ ckpts' \in Seq(Taken(db'))
      /\ ckpts' # << >> /\ Last(ckpts').snap = db.phase
  BY <1>2, <1>4, <1>5, <1>7, CheckpointSaved DEF SuspendInv, Taken, SnapshotOf
<1>9. MovingInv' /\ \A r \in Roles : ~InFlight(r)'
  BY <1>4, <1>5, <1>6, GoneKeeps
<1>10. HeldInv'
  BY <1>3, <1>4, <1>5, <1>7, <1>8, <1>9 DEF HeldInv, SuspendInv, Covered
<1> QED
  BY <1>7, <1>8, <1>9, <1>10, OneLess DEF SuspendInv

\* What a cancellation of the roles R leaves.
LEMMA CancelFacts ==
  ASSUME SuspendInv, NEW R \in Cancellable, CancelRoles(R)
  PROVE  /\ MovingInv' /\ \A r \in Roles : ~InFlight(r)'
         /\ db'.phase = db.phase
         /\ \A i \in Items : db'.hold[i] = (db.hold[i] \/ i \in CancelledItems(R))
         /\ CancelledItems(R) \in SUBSET Items
         /\ \A i \in CancelledItems(R) :
              db.phase[i] # Absent /\ \E r \in Roles : sess[r].status # "idle" /\ i = sess[r].item
<1> DEFINE S    == CancelledItems(R)
           held == PutOnHold(db, S)
           e    == [held EXCEPT !.focus = [r \in Roles |-> IF r \in R THEN NoItem ELSE @[r]]]
<1>1. Orderly(db) /\ Awake(db) /\ \A r \in Roles : InFlight(r) => sess[r].status = "running"
  BY SuspendParts
<1>2. \A r \in R : r \in Roles /\ sess[r].status # "idle"
  BY <1>1 DEF Cancellable
<1>3. /\ S \in SUBSET Items
      /\ \A i \in S : /\ db.phase[i] # Absent
                      /\ \E r \in Roles : sess[r].status # "idle" /\ i = sess[r].item
  BY <1>2 DEF CancelledItems, Unfinished, Created
<1>4. DispatcherGone(e) /\ db' = e
  BY DEF CancelRoles, DispatcherGone
<1> HIDE DEF S
<1>5. /\ Orderly(held) /\ Awake(held) /\ held.phase = db.phase
      /\ \A i \in Items : held.hold[i] = (db.hold[i] \/ i \in S)
      /\ HandsOver(db, held)
  BY <1>1, <1>3, PutOnHoldFacts
<1> HIDE DEF held
<1>6. /\ Orderly(e) /\ Awake(e) /\ e.phase = held.phase /\ e.hold = held.hold
      /\ HandsOver(held, e)
  BY <1>5, UnfocusedFacts
<1> HIDE DEF e
<1>7. HandsOver(db, e) /\ Created(e) = Created(db)
  BY <1>5, <1>6, HandOverTransitive DEF Created
<1>8. MovingInv' /\ \A r \in Roles : ~InFlight(r)'
  BY <1>4, <1>6, <1>7, GoneKeeps
<1> QED
  BY <1>3, <1>4, <1>5, <1>6, <1>8 DEF S

\* The cancellation that a stop has asked for.
LEMMA CancelLandsKeeps ==
  ASSUME SuspendInv, CancelLands
  PROVE  SuspendInv'
<1>1. PICK R \in Cancellable : CancelRoles(R)
  BY DEF CancelLands
<1>2. /\ engine = "stopping" /\ engine' = "down" /\ recalled' = {}
      /\ UNCHANGED <<ckpts, bare, stops, crashes>>
  BY DEF CancelLands
<1>3. /\ MovingInv' /\ \A r \in Roles : ~InFlight(r)'
      /\ db'.phase = db.phase
      /\ \A i \in Items : db'.hold[i] = (db.hold[i] \/ i \in CancelledItems(R))
      /\ \A i \in CancelledItems(R) :
           db.phase[i] # Absent /\ \E r \in Roles : sess[r].status # "idle" /\ i = sess[r].item
  BY <1>1, CancelFacts
<1>4. \A i \in CancelledItems(R) : Covered(i)
  BY <1>2, <1>3 DEF SuspendInv, HeldInv
<1>5. ckpts' \in Seq(Taken(db'))
  BY <1>2, <1>3 DEF SuspendInv, Taken, SnapshotOf
<1>6. HeldInv'
  BY <1>2, <1>3, <1>4 DEF SuspendInv, HeldInv, Covered
<1> QED
  BY <1>2, <1>3, <1>5, <1>6 DEF SuspendInv

\* The terminal that quits cancels the run without a checkpoint.
LEMMA QuitKeeps ==
  ASSUME SuspendInv, Quit
  PROVE  SuspendInv'
<1>1. PICK R \in Cancellable :
        /\ CancelRoles(R)
        /\ bare' = bare \cup {i \in CancelledItems(R) : ~db.hold[i]}
  BY DEF Quit
<1>2. /\ engine = "up" /\ engine' = "dead" /\ crashes > 0 /\ crashes' = crashes - 1
      /\ UNCHANGED <<ckpts, recalled, stops>>
  BY DEF Quit
<1>3. /\ MovingInv' /\ \A r \in Roles : ~InFlight(r)'
      /\ db'.phase = db.phase
      /\ \A i \in Items : db'.hold[i] = (db.hold[i] \/ i \in CancelledItems(R))
      /\ CancelledItems(R) \in SUBSET Items
      /\ \A i \in CancelledItems(R) : db.phase[i] # Absent
  BY <1>1, CancelFacts
<1>4. bare' \in SUBSET Items
  BY <1>1, <1>3 DEF SuspendInv
<1>5. ckpts' \in Seq(Taken(db'))
  BY <1>2, <1>3 DEF SuspendInv, Taken, SnapshotOf
<1>6. HeldInv'
  BY <1>1, <1>2, <1>3 DEF SuspendInv, HeldInv
<1> QED
  BY <1>2, <1>3, <1>4, <1>5, <1>6, OneLess DEF SuspendInv

\* The process dies, or the dispatcher ends, and leaves the store as it is.
LEMMA LeftAlone ==
  ASSUME SuspendInv, DispatcherGone(db), engine' \in {"down", "dead"},
         recalled' \in {recalled, {}}, crashes' \in 0..MaxCrashes,
         UNCHANGED <<ckpts, bare, stops>>
  PROVE  SuspendInv'
<1>1. Orderly(db) /\ Awake(db)
  BY SuspendParts
<1>2. HandsOver(db, db)
  BY DEF HandsOver
<1>3. MovingInv' /\ \A r \in Roles : ~InFlight(r)'
  BY <1>1, <1>2, GoneKeeps
<1>4. db' = db
  BY DEF DispatcherGone
<1>5. HeldInv'
  BY <1>3, <1>4 DEF SuspendInv, HeldInv, Covered
<1> QED
  BY <1>3, <1>4, <1>5 DEF SuspendInv

\* A process that starts sweeps the claims, and may suspend the run it finds.
LEMMA BootKeeps ==
  ASSUME SuspendInv, Boot
  PROVE  SuspendInv'
<1> DEFINE S    == Unfinished(db)
           swept == Swept(db)
           held  == PutOnHold(swept, S)
<1>1. MovingInv /\ Orderly(db) /\ Awake(db) /\ loop \in {"running", "crashed"}
  BY SuspendParts
<1>2. S \in SUBSET Items /\ \A i \in S : db.phase[i] # Absent
  BY DEF Unfinished, Created
<1>3. /\ engine = "dead" /\ engine' = "down"
      /\ \/ /\ db' = swept
            /\ UNCHANGED <<sess, ckpts, bare>>
         \/ /\ db' = held
            /\ sess' = RowsOf(held)
            /\ SaveCheckpoint
            /\ bare' = {}
      /\ UNCHANGED <<turn, queue, replied, edits, loop, recalled, stops, crashes>>
  BY DEF Boot
<1> HIDE DEF S, swept
<1>4. /\ Orderly(swept) /\ Awake(swept) /\ swept.phase = db.phase /\ swept.hold = db.hold
      /\ HandsOver(db, swept)
      /\ \A i \in Items : LetGo(db, i) => LetGo(swept, i)
  BY <1>1, SweptFacts DEF swept
<1>5. /\ Orderly(held) /\ Awake(held) /\ held.phase = db.phase
      /\ \A i \in Items : held.hold[i] = (db.hold[i] \/ i \in S)
      /\ HandsOver(swept, held)
  BY <1>2, <1>4, PutOnHoldFacts
<1> HIDE DEF held
<1>6. HandsOver(db, held) /\ Created(swept) = Created(db) /\ Created(held) = Created(db)
  BY <1>4, <1>5, HandOverTransitive DEF Created
<1>7. (\A r \in Roles : ~InFlight(r)) /\ \A r \in Roles : ~InFlight(r)'
  BY <1>3 DEF SuspendInv, HeldInv, InFlight
<1>8. CASE db' = swept /\ UNCHANGED <<sess, ckpts, bare>>
  <2>1. MovingInv'
    BY <1>1, <1>3, <1>4, <1>6, <1>8, SessionsStay
  <2>2. ckpts' \in Seq(Taken(db'))
    BY <1>4, <1>8 DEF SuspendInv, Taken, SnapshotOf
  <2>3. HeldInv'
    BY <1>3, <1>4, <1>7, <1>8 DEF SuspendInv, HeldInv, Covered
  <2> QED
    BY <1>3, <1>8, <2>1, <2>2, <2>3 DEF SuspendInv
<1>9. CASE db' = held /\ sess' = RowsOf(held) /\ SaveCheckpoint /\ bare' = {}
  <2>1. MovingInv'
    BY <1>1, <1>3, <1>5, <1>6, <1>7, <1>9, RowsMove
  <2>2. /\ ckpts' \in Seq(Taken(db'))
        /\ ckpts' # << >> /\ Last(ckpts').snap = db.phase
    BY <1>1, <1>5, <1>9, CheckpointSaved DEF SuspendInv, Taken, SnapshotOf
  <2>3. HeldInv'
    BY <1>2, <1>3, <1>5, <1>7, <1>9, <2>2 DEF SuspendInv, HeldInv, Covered
  <2> QED
    BY <1>3, <1>9, <2>1, <2>2, <2>3 DEF SuspendInv
<1> QED
  BY <1>3, <1>8, <1>9

\* A new dispatcher starts on a store that was handed over, and in which what
\* is held was so before, is finished, or was held by a terminal that quit.
LEMMA BootstrapKeeps ==
  ASSUME SuspendInv, NEW d, Orderly(d), Awake(d), Created(d) = Created(db), HandsOver(db, d),
         \A i \in Items : d.hold[i] => d.phase[i] # Absent /\ (i \in bare \/ d.phase[i] \in DonePhases),
         engine = "down", Bootstrap(d), ckpts' \in Seq(Taken(db)),
         UNCHANGED <<recalled, bare, stops, crashes>>
  PROVE  SuspendInv'
<1> DEFINE e == [d EXCEPT !.cached = d.pending]
<1>1. /\ Orderly(e) /\ Awake(e) /\ HandsOver(d, e)
      /\ e.phase = d.phase /\ e.hold = d.hold /\ e.focus = d.focus
  BY CachedFacts
<1>2. /\ db' = e /\ sess' = RowsOf(d) /\ loop' = "running" /\ engine' = "up"
      /\ UNCHANGED <<turn, queue, replied, edits>>
  BY DEF Bootstrap
<1> HIDE DEF e
<1>3. HandsOver(db, e) /\ Created(e) = Created(db)
  BY <1>1, HandOverTransitive DEF Created
<1>4. RowsOf(d) = RowsOf(e)
  BY <1>1 DEF RowsOf
<1>5. (\A r \in Roles : ~InFlight(r)) /\ MovingInv
  BY DEF SuspendInv, HeldInv
<1>6. MovingInv'
  BY <1>1, <1>2, <1>3, <1>4, <1>5, RowsMove
<1>7. \A i \in Items : db'.phase[i] = Absent <=> db.phase[i] = Absent
  BY <1>2, <1>3 DEF Created
<1>8. ckpts' \in Seq(Taken(db'))
  <2>1. \A i \in Items : db.phase[i] # Absent => db'.phase[i] # Absent
    BY <1>7
  <2> QED
    BY <2>1, TakenGrows
<1>9. HeldInv'
  BY <1>1, <1>2 DEF HeldInv
<1> QED
  BY <1>2, <1>6, <1>8, <1>9 DEF SuspendInv

\* What a release of the latest checkpoint, up to the n-th item, leaves.
LEMMA ReleaseFromLatest ==
  ASSUME SuspendInv, ckpts # << >>, NEW n \in 0..MaxItems
  PROVE  LET e == Resumed(db, Last(ckpts).snap, n) IN
         /\ Releases(db, e)
         /\ \A i \in Items : e.hold[i] => /\ e.phase[i] # Absent
                                          /\ \/ i \in bare \/ e.phase[i] \in DonePhases
                                             \/ engine # "up" /\ Covered(i) /\ i \notin 1..n
<1> DEFINE e == Resumed(db, Last(ckpts).snap, n)
<1>1. Orderly(db) /\ Awake(db)
  BY SuspendParts
<1>2. SnapshotOf(db, Last(ckpts).snap)
  BY LatestTaken DEF SuspendInv
<1>3. /\ Releases(db, e)
      /\ \A i \in 1..n : Last(ckpts).snap[i] # Absent /\ db.phase[i] \notin DonePhases => ~e.hold[i]
  BY <1>1, <1>2, ResumedFacts
<1> HIDE DEF e
<1>4. \A i \in Items : e.hold[i] => /\ e.phase[i] # Absent
                                    /\ \/ i \in bare \/ e.phase[i] \in DonePhases
                                       \/ engine # "up" /\ Covered(i) /\ i \notin 1..n
  <2>1. SUFFICES ASSUME NEW i \in Items, e.hold[i]
                 PROVE  /\ e.phase[i] # Absent
                        /\ \/ i \in bare \/ e.phase[i] \in DonePhases
                           \/ engine # "up" /\ Covered(i) /\ i \notin 1..n
    OBVIOUS
  <2>2. db.hold[i] /\ (db.phase[i] \in DonePhases => e.phase[i] = db.phase[i])
    BY <1>3, <2>1 DEF Releases
  <2>3. /\ db.phase[i] # Absent
        /\ i \in bare \/ db.phase[i] \in DonePhases \/ (engine # "up" /\ Covered(i))
    BY <2>2 DEF SuspendInv, HeldInv
  <2>4. e.phase[i] # Absent
    BY <1>3, <2>3 DEF Releases, Created
  <2> QED
    BY <1>3, <2>1, <2>2, <2>3, <2>4 DEF Covered
<1> QED
  BY <1>3, <1>4 DEF e

\* The latest checkpoint is used up.
LEMMA ResumeKeeps ==
  ASSUME SuspendInv, Resume
  PROVE  SuspendInv'
<1> DEFINE e == Resumed(db, Last(ckpts).snap, MaxItems)
<1>1. /\ engine = "down" /\ ckpts # << >> /\ Bootstrap(e) /\ ckpts' = Front(ckpts)
      /\ UNCHANGED <<recalled, bare, stops, crashes>>
  BY DEF Resume
<1>2. MaxItems \in 0..MaxItems /\ Items = 1..MaxItems
  BY MaxItemsAssumption DEF Items
<1>3. /\ Releases(db, e)
      /\ \A i \in Items : e.hold[i] => e.phase[i] # Absent /\ (i \in bare \/ e.phase[i] \in DonePhases)
  BY <1>1, <1>2, ReleaseFromLatest
<1> HIDE DEF e
<1>4. ckpts' \in Seq(Taken(db))
  BY <1>1, LatestTaken DEF SuspendInv
<1> QED
  BY <1>1, <1>3, <1>4, BootstrapKeeps DEF Releases

\* The process ends during a release.
LEMMA CrashDuringResumeKeeps ==
  ASSUME SuspendInv, CrashDuringResume
  PROVE  SuspendInv'
<1>1. PICK n \in 0..MaxItems : DispatcherGone(Resumed(db, Last(ckpts).snap, n))
  BY DEF CrashDuringResume
<1> DEFINE e == Resumed(db, Last(ckpts).snap, n)
<1>2. /\ engine = "down" /\ engine' = "dead" /\ ckpts # << >>
      /\ crashes > 0 /\ crashes' = crashes - 1
      /\ ckpts' = [ckpts EXCEPT ![Len(ckpts)].status = "resuming"]
      /\ UNCHANGED <<recalled, bare, stops>>
  BY DEF CrashDuringResume
<1>3. /\ Releases(db, e)
      /\ \A i \in Items : e.hold[i] => /\ e.phase[i] # Absent
                                       /\ \/ i \in bare \/ e.phase[i] \in DonePhases
                                          \/ Covered(i)
  BY <1>2, ReleaseFromLatest
<1>4. DispatcherGone(e) /\ db' = e
  BY <1>1 DEF DispatcherGone
<1> HIDE DEF e
<1>5. MovingInv' /\ \A r \in Roles : ~InFlight(r)'
  BY <1>3, <1>4, GoneKeeps DEF Releases
<1> DEFINE last == Len(ckpts)
           old  == ckpts[last]
           new  == [old EXCEPT !.status = "resuming"]
<1>6. ckpts \in Seq(Taken(db)) /\ last \in 1..last /\ old = Last(ckpts) /\ old \in Taken(db)
  BY <1>2, LatestTaken DEF SuspendInv, Taken
<1>7. new \in Taken(db) /\ new.snap = old.snap
  BY <1>6 DEF Taken, Checkpoints, SnapshotOf
<1>8. ckpts' = [ckpts EXCEPT ![last] = new]
  BY <1>2
<1> HIDE DEF new
<1>9. /\ ckpts' \in Seq(Taken(db)) /\ Len(ckpts') = last /\ ckpts'[last] = new
  BY <1>6, <1>7, <1>8, ExceptSeq
<1>10. ckpts' # << >> /\ Last(ckpts').snap = Last(ckpts).snap
  BY <1>2, <1>6, <1>7, <1>9, EmptySeq DEF Last
<1>11. ckpts' \in Seq(Taken(db'))
  <2>1. \A i \in Items : db.phase[i] # Absent => db'.phase[i] # Absent
    BY <1>3, <1>4 DEF Releases, Created
  <2> QED
    BY <1>9, <2>1, TakenGrows
<1>12. HeldInv'
  BY <1>2, <1>3, <1>4, <1>5, <1>10 DEF HeldInv, Covered
<1> QED
  BY <1>2, <1>5, <1>11, <1>12, OneLess DEF SuspendInv

\* A run without a checkpoint is continued as it stands.
LEMMA ContinueKeeps ==
  ASSUME SuspendInv, Continue
  PROVE  SuspendInv'
<1>1. /\ engine = "down" /\ ckpts = << >> /\ Bootstrap(db)
      /\ UNCHANGED <<ckpts, recalled, bare, stops, crashes>>
  BY DEF Continue
<1>2. Orderly(db) /\ Awake(db) /\ HandsOver(db, db)
  BY SuspendParts DEF HandsOver
<1>3. \A i \in Items : db.hold[i] => db.phase[i] # Absent /\ (i \in bare \/ db.phase[i] \in DonePhases)
  BY <1>1 DEF SuspendInv, HeldInv, Covered
<1>4. ckpts' \in Seq(Taken(db))
  BY <1>1 DEF SuspendInv
<1> QED
  BY <1>1, <1>2, <1>3, <1>4, BootstrapKeeps

\* Every step keeps the invariant.
LEMMA NextSuspend == SuspendInv /\ [SuspendNext]_allVars => SuspendInv'
<1> SUFFICES ASSUME SuspendInv, [SuspendNext]_allVars PROVE SuspendInv'
  OBVIOUS
<1>1. CASE UNCHANGED allVars
  <2>1. UNCHANGED vars /\ UNCHANGED suspendVars
    BY <1>1 DEF allVars
  <2>2. UNCHANGED <<engine, ckpts, recalled, bare, stops, crashes, db, sess, turn>>
    BY <2>1 DEF vars, suspendVars
  <2>3. MovingInv'
    BY <2>1, NextMoves DEF SuspendInv
  <2>4. HeldInv'
    BY <2>2 DEF SuspendInv, HeldInv, Covered, InFlight
  <2> QED
    BY <2>2, <2>3, <2>4 DEF SuspendInv
<1>2. CASE Crash
  <2>1. /\ DispatcherGone(db) /\ engine' = "dead" /\ recalled' = {}
        /\ crashes' = crashes - 1 /\ crashes > 0
        /\ UNCHANGED <<ckpts, bare, stops>>
    BY <1>2 DEF Crash
  <2> QED
    BY <2>1, LeftAlone, OneLess
<1>3. CASE Exit
  <2>1. /\ DispatcherGone(db) /\ engine' = "down"
        /\ UNCHANGED <<ckpts, recalled, bare, stops, crashes>>
    BY <1>3 DEF Exit
  <2>2. crashes' \in 0..MaxCrashes
    BY <2>1 DEF SuspendInv
  <2> QED
    BY <2>1, <2>2, LeftAlone
<1> QED
  BY <1>1, <1>2, <1>3, DispatchingKeeps, StopKeeps, CrashDuringStopKeeps, CancelLandsKeeps,
     QuitKeeps, BootKeeps, ResumeKeeps, CrashDuringResumeKeeps, ContinueKeeps DEF SuspendNext

LEMMA SuspendInvariant == SuspendSpec => []SuspendInv
BY InitSuspend, NextSuspend, PTL DEF SuspendSpec

-----------------------------------------------------------------------------
(* What follows *)

(***************************************************************************)
(* The types, over stops, releases, crashes and restarts in any order: a   *)
(* run that is stopped or dies leaves rows that a bootstrap can read, and  *)
(* checkpoints with the phases of items.                                   *)
(***************************************************************************)
THEOREM StoppedRunsKeepTypes == SuspendSpec => []SuspendTypeOK
<1>1. SuspendInv => SuspendTypeOK
  <2>1. SUFFICES ASSUME SuspendInv PROVE SuspendTypeOK
    OBVIOUS
  <2>2. ckpts \in Seq(Checkpoints)
    <3>1. Taken(db) \subseteq Checkpoints
      BY DEF Taken
    <3> QED
      BY <2>1, <3>1, SeqMonotonic DEF SuspendInv
  <2>3. TypeOK
    BY <2>1, MovingTypes DEF SuspendInv
  <2> QED
    BY <2>1, <2>2, <2>3 DEF SuspendInv, SuspendTypeOK
<1> QED
  BY <1>1, SuspendInvariant, PTL

(***************************************************************************)
(* What is on hold can be released: however stops, half-finished releases, *)
(* crashes and boots follow each other, unfinished work is on hold only    *)
(* while no dispatcher runs and a checkpoint is there for it, or because a *)
(* quitting terminal held it.                                              *)
(***************************************************************************)
THEOREM HeldWorkCanBeReleased == SuspendSpec => []HeldWorkHasCheckpoint
<1>1. SuspendInv => HeldWorkHasCheckpoint
  BY DEF SuspendInv, HeldInv, HeldWorkHasCheckpoint, Covered, Unfinished, Created
<1> QED
  BY <1>1, SuspendInvariant, PTL

\* Reconciliation leaves in the queue of a session what it may still dispatch.
LEMMA ViewQueuesCandidates ==
  ASSUME NEW d \in Stores, NEW r \in Roles
  PROVE  \A i \in Range(QueueView(d, r).pending) : QueueCandidate(d, i)
<1> DEFINE queued == d.pending[r]
           fit    == {k \in DOMAIN queued : QueueCandidate(d, queued[k])}
           clean  == EntriesAt(queued, fit)
           T      == {i \in Items : QueueCandidate(d, i)}
<1>1. queued \in Seq(Items)
  BY DEF Stores
<1>2. fit \in SUBSET (1..Len(queued)) /\ Len(queued) \in Nat
  BY <1>1, LenProperties
<1>3. \A k \in fit : queued[k] \in T
  BY <1>1, <1>2, ElementOfSeq
<1>4. clean \in Seq(T)
  <2>1. InCreationOrder(fit) \in Seq(fit) /\ Cardinality(fit) \in Nat
    BY <1>2, NumbersInOrder, NumberSets
  <2>2. DOMAIN InCreationOrder(fit) = 1..Cardinality(fit)
    BY DEF InCreationOrder
  <2> HIDE DEF fit, T, queued
  <2>3. \A n \in 1..Cardinality(fit) : InCreationOrder(fit)[n] \in fit
    <3>1. Len(InCreationOrder(fit)) = Cardinality(fit)
      BY <2>1, <2>2, LenProperties
    <3> QED
      BY <2>1, <3>1, ElementOfSeq
  <2>4. \A n \in 1..Cardinality(fit) : queued[InCreationOrder(fit)[n]] \in T
    BY <1>3, <2>3
  <2> QED
    BY <2>1, <2>4 DEF EntriesAt
<1>5. QueueView(d, r).pending = clean \/ (clean # << >> /\ QueueView(d, r).pending = Tail(clean))
  BY DEF QueueView
<1> HIDE DEF clean, T
<1>6. QueueView(d, r).pending \in Seq(T)
  BY <1>4, <1>5, HeadTailProperties
<1>7. \A i \in Range(QueueView(d, r).pending) : i \in T
  BY <1>6, LenProperties, ElementOfSeq DEF Range
<1> QED
  BY <1>7 DEF T

(***************************************************************************)
(* A parent that a release put back to waiting for children approved       *)
(* meanwhile is not on hold, or the reconciled store has it dispatchable:  *)
(* the running dispatcher finds it without any further write to it.        *)
(***************************************************************************)
THEOREM ResumedParentsAreFound == SuspendSpec => []ResumedParentWakes
<1>1. SuspendInv => ResumedParentWakes
  <2>1. SUFFICES ASSUME SuspendInv, NEW i \in Items,
                        db.phase[i] = "waiting_for_children", DepsApproved(db, i), ~db.hold[i]
                 PROVE  Dispatchable(Reconcile(db, Roles), i)
    BY DEF ResumedParentWakes
  <2> DEFINE e == Reconcile(db, Roles)
  <2>2. Orderly(db) /\ ~db.claim[i]
    BY <2>1, SuspendParts DEF Awake, Woken
  <2>3. /\ e.phase = db.phase /\ e.claim = db.claim /\ e.hold = db.hold
        /\ e.marker[i] => i \in Range(QueueView(db, Owner[i]).pending)
    BY <2>2, OwnerAssumption DEF Reconcile, Orderly, Stores
  <2>4. ~QueueCandidate(db, i)
    BY <2>1 DEF QueueCandidate, RunnablePhases
  <2>5. ~e.marker[i]
    BY <2>2, <2>3, <2>4, ViewQueuesCandidates, OwnerAssumption DEF Orderly
  <2> HIDE DEF e
  <2> QED
    BY <2>1, <2>2, <2>3, <2>5, FreeIsDispatchable DEF e
<1> QED
  BY <1>1, SuspendInvariant, PTL

-----------------------------------------------------------------------------
(* What comes no nearer to a review *)

(***************************************************************************)
(* From d to e the item i does not come nearer to a review: it stays where *)
(* it is, or is in progress before and after, or is put back or ended.     *)
(***************************************************************************)
Recedes(d, e, i) ==
  \/ e.phase[i] = d.phase[i]
  \/ e.phase[i] \in TodoPhases \cup DonePhases
  \/ d.phase[i] \in InProgressPhases /\ e.phase[i] \in InProgressPhases

\* The relation composes.
LEMMA RecedesTransitive ==
  ASSUME NEW d, NEW e, NEW f, NEW i, Recedes(d, e, i), Recedes(e, f, i)
  PROVE  Recedes(d, f, i)
BY DEF Recedes, TodoPhases, InProgressPhases, DonePhases

\* A refresh sends nothing to a review, and nothing into progress.
LEMMA RefreshRecedes ==
  ASSUME NEW d, Shaped(d), NEW i \in Items
  PROVE  Recedes(d, RefreshDependents(d), i)
<1>1. RefreshDependents(d).phase[i] \in {d.phase[i], FrontierTarget(d, i)}
  BY RefreshKeepsPhases
<1>2. FrontierTarget(d, i) # d.phase[i] =>
        \/ FrontierTarget(d, i) \in TodoPhases
        \/ d.phase[i] \in InProgressPhases /\ FrontierTarget(d, i) \in InProgressPhases
  BY DEF FrontierTarget, Released, Held, TodoPhases, InProgressPhases
<1> QED
  BY <1>1, <1>2 DEF Recedes

\* Nor do the hooks of a phase write.
LEMMA FireHooksRecede ==
  ASSUME NEW d, Shaped(d), NEW i \in Items
  PROVE  \A j \in Items : Recedes(d, FireHooks(d, i), j)
<1> DEFINE p         == d.phase[i]
           refreshed == IF p \in DependentRefreshTargets THEN RefreshDependents(d) ELSE d
           unfocused == [refreshed EXCEPT !.focus[Owner[i]] = IF @ = i THEN NoItem ELSE @]
           cleared   == IF p \in DonePhases THEN Reconcile(unfocused, {Owner[i]}) ELSE refreshed
<1>1. Shaped(refreshed) /\ \A j \in Items : Recedes(d, refreshed, j)
  BY RefreshKeepsPhases, RefreshRecedes DEF Recedes
<1>2. FireHooks(d, i) = IF p \in RunnablePhases THEN EnqueueBehindFocus(cleared, {i}) ELSE cleared
  BY DEF FireHooks, ClearFocus
<1> HIDE DEF p, refreshed
<1>3. Shaped(unfocused) /\ unfocused.phase = refreshed.phase
  BY <1>1 DEF Shaped, Fields
<1> HIDE DEF unfocused
<1>4. Shaped(cleared) /\ cleared.phase = refreshed.phase
  BY <1>1, <1>3, ReconcileKeepsPhases
<1> HIDE DEF cleared
<1>5. FireHooks(d, i).phase = refreshed.phase
  BY <1>2, <1>4, EnqueueKeepsPhases
<1> QED
  BY <1>1, <1>5 DEF Recedes

\* A write gives its item the phase, and brings no other nearer.
LEMMA SavePhaseRecedes ==
  ASSUME NEW d, Shaped(d), NEW i \in Items, NEW p \in Phases
  PROVE  /\ SavePhase(d, i, p).phase[i] = p
         /\ \A j \in Items \ {i} : Recedes(d, SavePhase(d, i, p), j)
<1>1. SavePhase(d, i, p).phase[i] = p
  BY SavePhaseShifts
<1>2. CASE p = d.phase[i]
  BY <1>1, <1>2 DEF SavePhase, Recedes
<1>3. CASE p # d.phase[i]
  <2> DEFINE e == [d EXCEPT !.phase[i] = p]
  <2>1. Shaped(e) /\ e.phase = [d.phase EXCEPT ![i] = p]
    BY DEF Shaped, Fields
  <2>2. SavePhase(d, i, p) = FireHooks(e, i)
    BY <1>3 DEF SavePhase
  <2>3. \A j \in Items \ {i} : e.phase[j] = d.phase[j]
    BY <2>1 DEF Shaped
  <2> HIDE DEF e
  <2>4. \A j \in Items : Recedes(e, FireHooks(e, i), j)
    BY <2>1, FireHooksRecede
  <2> QED
    BY <1>1, <2>2, <2>3, <2>4 DEF Recedes
<1> QED
  BY <1>2, <1>3

\* What a turn or a release writes, if the table accepts it.
LEMMA TransitionRecedes ==
  ASSUME NEW d, Shaped(d), NEW i \in Items, NEW p \in Phases
  PROVE  LET e == Transition(d, i, p) IN
         /\ Shaped(e)
         /\ \A j \in Items \ {i} : Recedes(d, e, j)
         /\ \/ e.phase[i] = d.phase[i]
            \/ Legal(d.phase[i], p) /\ p # d.phase[i] /\ e.phase[i] = p
<1>1. CASE Legal(d.phase[i], p)
  BY <1>1, SavePhaseRecedes, SavePhaseShifts DEF Transition
<1>2. CASE ~Legal(d.phase[i], p)
  BY <1>2 DEF Transition, Recedes
<1> QED
  BY <1>1, <1>2

\* Sending items back, with the hooks.
LEMMA SaveReadyRecedes ==
  ASSUME NEW d, Shaped(d), NEW S
  PROVE  \A j \in Items : Recedes(d, SaveReady(d, S), j)
<1>1. SaveReady(d, S).phase = [j \in Items |-> IF j \in S THEN "ready" ELSE d.phase[j]]
  BY SaveReadyWrites
<1> QED
  BY <1>1 DEF Recedes, TodoPhases

\* An edit of a manager sends its item back, and deletes or wakes others.
LEMMA ModifyRecedes ==
  ASSUME DInv, NEW i \in Items, NEW reset \in BOOLEAN, NEW deps \in NewDeps(i),
         ModifyWorkItem(i, reset, deps)
  PROVE  \A j \in Items : Recedes(db, db', j)
<1> DEFINE m    == Mutated(db, {i})
           d    == [m EXCEPT !.deps[i] = deps]
           back == IF d.phase[i] \in InReviewPhases \cup {"ready_for_rework"}
                     THEN "ready_for_rework" ELSE "ready"
           w    == [d EXCEPT !.phase[i] = "ready_for_rework", !.claim[i] = FALSE]
           e    == IF d.phase[i] = "approved" THEN ReopenApproved(d, i) ELSE SavePhase(d, i, back)
<1>1. db' = IF ~reset THEN d ELSE RefreshDependents(e)
  BY DEF ModifyWorkItem
<1>2. Shaped(m) /\ m.phase = db.phase
  BY MutatedKeepsPhases DEF DInv
<1> HIDE DEF m
<1>3. Shaped(d) /\ d.phase = db.phase
  BY <1>2, DepsWritten
<1>4. back \in Phases \cap TodoPhases
  BY DEF Phases, TodoPhases
<1> HIDE DEF d, back
<1>5. Shaped(e) /\ \A j \in Items : Recedes(d, e, j)
  <2>1. CASE d.phase[i] = "approved"
    <3>1. /\ Fields \subseteq DOMAIN w
          /\ w.phase = [d.phase EXCEPT ![i] = "ready_for_rework"]
      BY <1>3 DEF Shaped, Fields
    <3>2. e = FireHooks(w, i)
      BY <2>1 DEF ReopenApproved
    <3> HIDE DEF w, e
    <3>3. Shaped(w) /\ \A j \in Items : Recedes(d, w, j)
      BY <1>3, <3>1 DEF Shaped, Recedes, Phases, TodoPhases
    <3>4. Shaped(e) /\ \A j \in Items : Recedes(w, e, j)
      BY <3>2, <3>3, FireHooksShift, FireHooksRecede
    <3> QED
      BY <3>3, <3>4, RecedesTransitive
  <2>2. CASE d.phase[i] # "approved"
    <3>1. e = SavePhase(d, i, back)
      BY <2>2
    <3> HIDE DEF e
    <3>2. /\ Shaped(e) /\ e.phase[i] = back
          /\ \A j \in Items \ {i} : Recedes(d, e, j)
      BY <1>3, <1>4, <3>1, SavePhaseShifts, SavePhaseRecedes
    <3> QED
      BY <1>4, <3>2 DEF Recedes
  <2> QED
    BY <2>1, <2>2
<1> HIDE DEF e
<1>6. \A j \in Items : Recedes(d, RefreshDependents(e), j)
  BY <1>5, RefreshRecedes, RecedesTransitive
<1> QED
  BY <1>1, <1>3, <1>6 DEF Recedes

\* A deletion ends items or sends them back.
LEMMA DeleteRecedes ==
  ASSUME DInv, NEW i \in Items, DeleteWorkItem(i)
  PROVE  \A j \in Items : Recedes(db, db', j)
<1> DEFINE S       == Subtree(db, i)
           live    == {j \in S : db.phase[j] \notin DonePhases}
           m       == Mutated(db, S)
           gone    == Cancelled(m, S)
           owners  == {Owner[j] : j \in live}
           hooked  == IF live = {} THEN gone ELSE Reconcile(RefreshDependents(gone), owners)
           cut     == [hooked EXCEPT !.deps = [j \in Items |-> @[j] \ {i}]]
           woken   == {j \in Items : /\ i \in hooked.deps[j] /\ cut.deps[j] = {}
                                     /\ cut.phase[j] \in {"waiting_dependencies",
                                                          "waiting_for_children"}}
           freed   == [cut EXCEPT !.claim = [j \in Items |-> @[j] /\ j \notin woken]]
           ready   == SaveReady(freed, woken)
<1>1. db' = RefreshDependents(ready)
  BY DEF DeleteWorkItem
<1> HIDE DEF S
<1>2. Shaped(m) /\ m.phase = db.phase
  BY MutatedKeepsPhases DEF DInv
<1> HIDE DEF m
<1>3. Shaped(gone) /\ \A j \in Items : Recedes(db, gone, j)
  <2>1. /\ Shaped(gone)
        /\ gone.phase = [j \in Items |-> IF j \in S /\ db.phase[j] \notin DonePhases
                                          THEN "cancelled" ELSE db.phase[j]]
    BY <1>2, CancelledPhases
  <2> HIDE DEF gone
  <2> QED
    BY <2>1 DEF Recedes, DonePhases
<1> HIDE DEF gone, live, owners
<1>4. Shaped(hooked) /\ \A j \in Items : Recedes(gone, hooked, j)
  <2> DEFINE e == RefreshDependents(gone)
             f == Reconcile(e, owners)
  <2>1. Shaped(e) /\ \A j \in Items : Recedes(gone, e, j)
    BY <1>3, RefreshKeepsPhases, RefreshRecedes
  <2>2. hooked = IF live = {} THEN gone ELSE f
    OBVIOUS
  <2> HIDE DEF e, hooked
  <2>3. Shaped(f) /\ f.phase = e.phase
    BY <2>1, ReconcileKeepsPhases
  <2> QED
    BY <1>3, <2>1, <2>2, <2>3 DEF Recedes
<1> HIDE DEF hooked
<1>5. Shaped(cut) /\ cut.phase = hooked.phase
  BY <1>4 DEF Shaped, Fields
<1> HIDE DEF woken, cut
<1>6. Shaped(freed) /\ freed.phase = cut.phase
  BY <1>5 DEF Shaped, Fields
<1> HIDE DEF freed
<1>7. Shaped(ready) /\ \A j \in Items : Recedes(freed, ready, j)
  BY <1>6, SaveReadyWrites, SaveReadyRecedes
<1> HIDE DEF ready
<1>8. \A j \in Items : Recedes(ready, db', j)
  BY <1>1, <1>7, RefreshRecedes
<1>9. \A j \in Items : Recedes(hooked, freed, j)
  BY <1>5, <1>6 DEF Recedes
<1> QED
  BY <1>3, <1>4, <1>7, <1>8, <1>9, RecedesTransitive

-----------------------------------------------------------------------------
(* What the steps between a stop and a resume may do *)

\* The turn of the role of i works at i.
AtWork(i) == turn[Owner[i]].stage \in {"claimed", "running"} /\ sess[Owner[i]].item = i

(***************************************************************************)
(* What a step may do to the item i between a stop and the resume: i does  *)
(* not come nearer to a review, or is in one already, or a turn that has   *)
(* not called its agent since hands over its result, or one that does is   *)
(* noted for it.                                                           *)
(***************************************************************************)
Restrained(i) ==
  \/ Recedes(db, db', i)
  \/ db.phase[i] = "awaiting_manager_review"
  \/ /\ db.phase[i] = "running"
     /\ sess[Owner[i]].item = i /\ Returns(Owner[i]) /\ Owner[i] \notin recalled
  \/ db'.phase[i] = "running" /\ Owner[i] \in recalled'

\* The result of a turn that has not called its agent again.
LEMMA ResultRestrained ==
  ASSUME DInv, Moving, NEW r \in Roles, Returns(r), r \notin recalled,
         NEW d, Shaped(d), d.phase = db.phase,
         NEW p \in {"waiting_for_peer", "waiting_for_children", "awaiting_human", "approved",
                    "awaiting_manager_review"},
         db' = Transition(d, sess[r].item, p)
  PROVE  \A i \in Items : Restrained(i)
<1> DEFINE t == sess[r].item
<1>1. t \in Items /\ Owner[t] = r /\ db.phase[t] \in Phases
  BY Worker DEF Returns, InFlight
<1>2. p \in Phases
  BY DEF Phases
<1>3. /\ \A i \in Items \ {t} : Recedes(d, db', i)
      /\ \/ db'.phase[t] = d.phase[t]
         \/ Legal(d.phase[t], p) /\ p # d.phase[t] /\ db'.phase[t] = p
  BY <1>1, <1>2, TransitionRecedes
<1>4. Restrained(t)
  <2>1. CASE db'.phase[t] = d.phase[t]
    BY <2>1 DEF Restrained, Recedes
  <2>2. CASE Legal(db.phase[t], p) /\ p # db.phase[t] /\ db'.phase[t] = p
    <3>1. p = "approved" \/ db.phase[t] \in {"running", "awaiting_manager_review"}
      BY <1>1, <1>2, <2>2, LegalFrom DEF InReviewPhases
    <3> QED
      BY <1>1, <2>2, <3>1 DEF Restrained, Recedes, DonePhases
  <2> QED
    BY <1>3, <2>1, <2>2
<1> QED
  BY <1>3, <1>4 DEF Restrained, Recedes

\* Every step of a turn.
LEMMA TurnsRestrained ==
  ASSUME DInv, Moving, NEW r \in Roles, r \notin recalled,
         (StartTurn(r) /\ recalled' = recalled \cup {r}) \/ TurnGoesOn(r)
  PROVE  \A i \in Items : db.phase[i] # Absent => Restrained(i)
<1> DEFINE t == sess[r].item
<1>1. Shaped(db) /\ db \in Stores
  BY DEF DInv, Moving, Orderly
<1>2. turn[r].stage # "none" => t \in Items /\ Owner[t] = r /\ db.phase[t] \in Phases
  BY Worker DEF InFlight
<1>3. {"running", "failed"} \subseteq Phases
  BY DEF Phases
<1>4. CASE StartTurn(r) /\ recalled' = recalled \cup {r}
  <2>1. db' = Transition(db, t, "running") /\ turn[r].stage # "none"
    BY <1>4 DEF StartTurn
  <2>2. /\ \A i \in Items \ {t} : Recedes(db, db', i)
        /\ db'.phase[t] = db.phase[t] \/ db'.phase[t] = "running"
    BY <1>1, <1>2, <1>3, <2>1, TransitionRecedes
  <2> QED
    BY <1>2, <1>4, <2>1, <2>2 DEF Restrained, Recedes
<1>5. CASE Delegate(r)
  <2> DEFINE new   == Cardinality(Created(db)) + 1
             peers == {j \in Created(db) : db.parent[j] = t /\ ~db.deleted[j]}
             child(deps) == [db EXCEPT !.phase[new]  = IF deps = {} THEN "ready"
                                                       ELSE "waiting_dependencies",
                                       !.deps[new]   = deps,
                                       !.parent[new] = t]
             saved(deps) == IF deps = {} THEN EnqueueBehindFocus(child(deps), {new})
                            ELSE child(deps)
  <2>1. PICK deps \in SUBSET peers :
          db' = [saved(deps) EXCEPT !.deps[t] = ActiveDeps(saved(deps), t) \cup {new}]
    BY <1>5 DEF Delegate
  <2> HIDE DEF new, peers
  <2>2. db'.phase = child(deps).phase
    BY <1>1, <2>1 DEF Stores, EnqueueBehindFocus
  <2>3. \A j \in Items : child(deps).phase[j] \in {db.phase[j], "ready", "waiting_dependencies"}
    BY <1>1 DEF Stores
  <2> HIDE DEF child, saved
  <2> QED
    BY <2>2, <2>3 DEF Restrained, Recedes, TodoPhases
<1>6. CASE DropStaleResult(r) \/ TurnReturnsFailure(r)
  BY <1>6 DEF DropStaleResult, TurnReturnsFailure, EndTurn, Restrained, Recedes
<1>7. CASE ParkForPeer(r)
  BY <1>1, <1>7, ResultRestrained DEF ParkForPeer, EndTurn
<1>8. CASE ParkForChildren(r)
  <2> DEFINE pruned == [db EXCEPT !.deps[t] = ActiveDeps(db, t)]
             filed  == [pruned EXCEPT !.deps[t] = WaitSet(db, t)]
  <2>1. /\ Returns(r)
        /\ db' = IF Legal(db.phase[t], "waiting_for_children")
                   THEN SavePhase(filed, t, "waiting_for_children") ELSE pruned
    BY <1>8 DEF ParkForChildren, EndTurn
  <2>2. Shaped(pruned) /\ pruned.phase = db.phase
    BY <1>1, DepsWritten
  <2> HIDE DEF pruned
  <2>3. Shaped(filed) /\ filed.phase = db.phase
    BY <2>2, DepsWritten
  <2> HIDE DEF filed
  <2>4. CASE Legal(db.phase[t], "waiting_for_children")
    <3>1. db' = Transition(filed, t, "waiting_for_children")
      BY <2>1, <2>3, <2>4 DEF Transition
    <3> QED
      BY <2>1, <2>3, <3>1, ResultRestrained
  <2>5. CASE ~Legal(db.phase[t], "waiting_for_children")
    BY <2>1, <2>2, <2>5 DEF Restrained, Recedes
  <2> QED
    BY <2>4, <2>5
<1>9. CASE FinishWork(r)
  <2> DEFINE pruned == [db EXCEPT !.deps[t] = ActiveDeps(db, t)]
             target == DoneTarget(db, t)
  <2>1. Returns(r) /\ db' = Transition(pruned, t, target)
    BY <1>9 DEF FinishWork, EndTurn
  <2>2. Shaped(pruned) /\ pruned.phase = db.phase
    BY <1>1, DepsWritten
  <2>3. target \in {"awaiting_human", "approved", "awaiting_manager_review"}
    BY DEF DoneTarget
  <2> HIDE DEF pruned, target
  <2> QED
    BY <2>1, <2>2, <2>3, ResultRestrained
<1>10. CASE TurnTimesOut(r)
  <2>1. db' = Transition(db, t, "failed") /\ turn[r].stage # "none"
    BY <1>10 DEF TurnTimesOut, EndTurn
  <2>2. /\ \A i \in Items \ {t} : Recedes(db, db', i)
        /\ db'.phase[t] = db.phase[t] \/ db'.phase[t] = "failed"
    BY <1>1, <1>2, <1>3, <2>1, TransitionRecedes
  <2> QED
    BY <2>2 DEF Restrained, Recedes, DonePhases
<1>11. CASE CompleteClaim(r)
  <2>1. db'.phase = db.phase
    BY <1>1, <1>11 DEF CompleteClaim, SaveRoleSession, Stores
  <2> QED
    BY <2>1 DEF Restrained, Recedes
<1> QED
  BY <1>4, <1>5, <1>6, <1>7, <1>8, <1>9, <1>10, <1>11 DEF TurnGoesOn

\* Every step of a manager or a human at the board.
LEMMA BoardRestrained ==
  ASSUME DInv, NEW t \in Items, BoardStep(t)
  PROVE  \A i \in Items : Restrained(i)
<1>1. Shaped(db)
  BY DEF DInv
<1>2. ASSUME NEW d, Shaped(d), d.phase = db.phase, NEW p \in Phases, db' = SavePhase(d, t, p),
             p \in TodoPhases \cup DonePhases \/ db.phase[t] = "awaiting_manager_review"
      PROVE  \A i \in Items : Restrained(i)
  BY <1>2, SavePhaseRecedes DEF Restrained, Recedes
<1>3. \A b : /\ Shaped([db EXCEPT !.feedback[t] = b])
             /\ [db EXCEPT !.feedback[t] = b].phase = db.phase
  BY <1>1, FeedbackWritten
<1>4. /\ {"approved", "ready_for_rework", "awaiting_human", "failed"} \subseteq Phases
      /\ {"approved", "ready_for_rework", "failed"} \subseteq TodoPhases \cup DonePhases
  BY DEF Phases, TodoPhases, DonePhases
<1>5. CASE PeerReplies(t)
  BY <1>5 DEF PeerReplies, Restrained, Recedes
<1>6. CASE Approve(t)
  BY <1>2, <1>3, <1>4, <1>6 DEF Approve
<1>7. CASE Rework(t)
  BY <1>2, <1>3, <1>4, <1>7 DEF Rework
<1>8. CASE EscalateToHuman(t)
  BY <1>2, <1>3, <1>4, <1>8 DEF EscalateToHuman
<1>9. CASE HumanRejects(t)
  BY <1>1, <1>2, <1>4, <1>9 DEF HumanRejects
<1>10. ASSUME NEW reset \in BOOLEAN, NEW deps \in NewDeps(t), ModifyWorkItem(t, reset, deps)
       PROVE  \A i \in Items : Restrained(i)
  BY <1>10, ModifyRecedes DEF Restrained
<1>11. CASE DeleteWorkItem(t)
  BY <1>11, DeleteRecedes DEF Restrained
<1> QED
  BY <1>5, <1>6, <1>7, <1>8, <1>9, <1>10, <1>11 DEF BoardStep

\* No step of a turn or of the board starts a turn, or makes a stale one fresh.
LEMMA TurnsWearOut ==
  ASSUME DInv,
         (\E r \in Roles : StartTurn(r) \/ TurnGoesOn(r)) \/ (\E t \in Items : BoardStep(t))
  PROVE  \A i \in Items : AtWork(i)' => /\ AtWork(i)
                                        /\ turn[Owner[i]].stale => turn'[Owner[i]].stale
<1>1. turn \in [Roles -> Turns] /\ sess \in [Roles -> Sessions] /\ \A i \in Items : Owner[i] \in Roles
  BY OwnerAssumption DEF DInv
<1>2. ASSUME NEW r \in Roles, StartTurn(r)
      PROVE  \A i \in Items : AtWork(i)' => /\ AtWork(i)
                                            /\ turn[Owner[i]].stale => turn'[Owner[i]].stale
  <2>1. /\ sess' = sess /\ turn[r].stage \in {"claimed", "running"}
        /\ turn' = [turn EXCEPT ![r].stage = "running"]
    BY <1>2 DEF StartTurn
  <2>2. \A s \in Roles : turn'[s].stale = turn[s].stale /\ (s # r => turn'[s] = turn[s])
    BY <1>1, <2>1 DEF Turns
  <2> QED
    BY <1>1, <2>1, <2>2 DEF AtWork
<1>3. ASSUME NEW r \in Roles, TurnGoesOn(r)
      PROVE  \A i \in Items : AtWork(i)' => /\ AtWork(i)
                                            /\ turn[Owner[i]].stale => turn'[Owner[i]].stale
  <2>1. CASE Delegate(r)
    BY <2>1 DEF Delegate, AtWork
  <2>2. ASSUME NEW d, NEW parks, EndTurn(r, d, parks)
        PROVE  \A i \in Items : AtWork(i)' => /\ AtWork(i)
                                              /\ turn[Owner[i]].stale => turn'[Owner[i]].stale
    <3>1. /\ sess' = sess
          /\ turn'[r].stage = "ending" /\ \A s \in Roles \ {r} : turn'[s] = turn[s]
      BY <1>1, <2>2 DEF EndTurn, Turns
    <3> QED
      BY <1>1, <3>1 DEF AtWork
  <2>3. CASE CompleteClaim(r)
    <3>1. turn'[r].stage = "none" /\ \A s \in Roles \ {r} : turn'[s] = turn[s] /\ sess'[s] = sess[s]
      BY <1>1, <2>3 DEF CompleteClaim, NoTurn
    <3> QED
      BY <1>1, <3>1 DEF AtWork
  <2> QED
    BY <1>3, <2>1, <2>2, <2>3 DEF TurnGoesOn, DropStaleResult, ParkForPeer, ParkForChildren,
                                  FinishWork, TurnTimesOut, TurnReturnsFailure
<1>4. ASSUME NEW t \in Items, BoardStep(t)
      PROVE  \A i \in Items : AtWork(i)' => /\ AtWork(i)
                                            /\ turn[Owner[i]].stale => turn'[Owner[i]].stale
  <2>1. sess' = sess /\ (turn' = turn \/ \E S : Outdate(S))
    BY <1>4 DEF BoardStep, PeerReplies, Approve, Rework, EscalateToHuman, HumanRejects,
                ModifyWorkItem, DeleteWorkItem
  <2>2. \A s \in Roles : /\ turn'[s].stage = turn[s].stage
                         /\ turn[s].stale => turn'[s].stale
    BY <1>1, <2>1 DEF Outdate, Turns
  <2> QED
    BY <1>1, <2>1, <2>2 DEF AtWork
<1> QED
  BY <1>2, <1>3, <1>4

-----------------------------------------------------------------------------
(* Snapshots that are still true *)

(***************************************************************************)
(* The phases of a snapshot that a release would write over a review that  *)
(* the item has reached since.                                             *)
(***************************************************************************)
Reopening == {"ready", "ready_for_rework", "awaiting_human"}

(***************************************************************************)
(* An item that stood in one of them at the stop has not come to another   *)
(* review since: it is where it was, or put back or ended; or it went into *)
(* progress, and a turn that is still at it hands over no result, as it    *)
(* has called its agent again or is outdated.                              *)
(***************************************************************************)
Unreached(was, i) ==
  was \in Reopening =>
    \/ db.phase[i] \in TodoPhases \cup DonePhases
    \/ db.phase[i] = was
    \/ /\ db.phase[i] \in InProgressPhases
       /\ AtWork(i) => Owner[i] \in recalled \/ turn[Owner[i]].stale

(***************************************************************************)
(* Only the latest checkpoint is pending, and none is while a dispatcher   *)
(* runs: with it, what a resume will find is known.                        *)
(***************************************************************************)
PendingInv ==
  /\ \A k \in DOMAIN ckpts : ckpts[k].status = "pending" => k = Len(ckpts) /\ engine # "up"
  /\ ckpts # << >> /\ Last(ckpts).status = "pending" =>
       \A i \in Items : Unreached(Last(ckpts).snap[i], i)

\* Such a step keeps an item from a review that it had not reached.
LEMMA RestrainedKeeps ==
  ASSUME NEW i \in Items, NEW was, Unreached(was, i), Restrained(i),
         AtWork(i)' => AtWork(i) /\ (turn[Owner[i]].stale => turn'[Owner[i]].stale),
         recalled \subseteq recalled'
  PROVE  Unreached(was, i)'
<1>1. SUFFICES ASSUME was \in Reopening, db'.phase[i] \notin TodoPhases \cup DonePhases,
                      db'.phase[i] # was
               PROVE  /\ db'.phase[i] \in InProgressPhases
                      /\ AtWork(i)' => Owner[i] \in recalled' \/ turn'[Owner[i]].stale
  BY DEF Unreached
<1>2. was = "awaiting_human" \/ was \in TodoPhases
  BY <1>1 DEF Reopening, TodoPhases
<1>3. CASE db'.phase[i] = "running" /\ Owner[i] \in recalled'
  BY <1>3 DEF InProgressPhases
<1>4. CASE Recedes(db, db', i)
  BY <1>1, <1>2, <1>4 DEF Recedes, Unreached, TodoPhases, InProgressPhases, DonePhases
<1>5. CASE db.phase[i] = "awaiting_manager_review"
  BY <1>1, <1>2, <1>5 DEF Unreached, TodoPhases, InProgressPhases, DonePhases
<1>6. CASE /\ db.phase[i] = "running"
           /\ sess[Owner[i]].item = i /\ Returns(Owner[i]) /\ Owner[i] \notin recalled
  BY <1>1, <1>2, <1>6 DEF Unreached, AtWork, Returns, TodoPhases, InProgressPhases, DonePhases
<1> QED
  BY <1>3, <1>4, <1>5, <1>6 DEF Restrained

\* What is written into the snapshots stays what it was.
LEMMA SavedIsPending ==
  ASSUME Orderly(db), ckpts \in Seq(Taken(db)), SaveCheckpoint, engine' # "up"
  PROVE  /\ \A k \in DOMAIN ckpts' : ckpts'[k].status = "pending" =>
              k = Len(ckpts') /\ engine' # "up"
         /\ ckpts' # << >> /\ Last(ckpts').snap = db.phase
<1> DEFINE open == {k \in DOMAIN ckpts : ckpts[k].status = "resuming"}
           kept == EntriesAt(ckpts, open)
           new  == [status |-> "pending", snap |-> db.phase]
           T    == {c \in Taken(db) : c.status = "resuming"}
<1>1. kept \in Seq(T)
  <2>1. \A k \in open : ckpts[k] \in T
    BY LenProperties, ElementOfSeq
  <2>2. open \in SUBSET DOMAIN ckpts
    OBVIOUS
  <2> HIDE DEF open, T
  <2> QED
    BY <2>1, <2>2, EntriesChosen
<1>2. ckpts' = Append(kept, new)
  BY DEF SaveCheckpoint
<1> HIDE DEF kept
<1>3. /\ Len(ckpts') = Len(kept) + 1 /\ DOMAIN ckpts' = 1..Len(ckpts')
      /\ \A k \in 1..Len(kept) : ckpts'[k] = kept[k]
  <2>1. T \subseteq T \cup {new} /\ kept \in Seq(T \cup {new}) /\ new \in T \cup {new}
    BY <1>1, SeqMonotonic
  <2> QED
    BY <1>2, <2>1, AppendProperties
<1>4. Len(kept) \in Nat /\ \A k \in 1..Len(kept) : kept[k].status = "resuming"
  BY <1>1, LenProperties, ElementOfSeq
<1>5. ckpts' # << >> /\ Last(ckpts').snap = db.phase
  BY CheckpointSaved
<1> QED
  BY <1>3, <1>4, <1>5

\* A new checkpoint is of the store as it stands.
LEMMA SavedUnreached ==
  ASSUME Orderly(db), ckpts \in Seq(Taken(db)), SaveCheckpoint, engine' # "up",
         db'.phase = db.phase
  PROVE  PendingInv'
BY SavedIsPending DEF PendingInv, Unreached

\* The steps of the turns and the board.
LEMMA DispatchingPending ==
  ASSUME SuspendInv, PendingInv, Dispatching
  PROVE  PendingInv'
<1>1. /\ UNCHANGED <<engine, ckpts>>
      /\ \/ engine = "up"
         \/ \E r \in Roles \ recalled : \/ StartTurn(r) /\ recalled' = recalled \cup {r}
                                        \/ TurnGoesOn(r) /\ recalled' = recalled
         \/ recalled' = recalled /\ \E t \in Items : BoardStep(t)
  BY DEF Dispatching, PanelStep, BoardStep
<1>2. SUFFICES ASSUME ckpts # << >>, Last(ckpts).status = "pending", NEW i \in Items
               PROVE  Unreached(Last(ckpts).snap[i], i)'
  BY <1>1 DEF PendingInv
<1>3. /\ ckpts \in Seq(Taken(db)) /\ DInv /\ Moving
      /\ SnapshotOf(db, Last(ckpts).snap)
      /\ Len(ckpts) \in DOMAIN ckpts /\ ckpts[Len(ckpts)] = Last(ckpts)
  BY <1>2, LatestTaken, LenProperties DEF SuspendInv, MovingInv
<1>4. engine # "up"
  BY <1>2, <1>3 DEF PendingInv
<1>5. recalled \subseteq recalled'
  BY <1>1, <1>4
<1>6. CASE Last(ckpts).snap[i] \notin Reopening
  BY <1>1, <1>6 DEF Unreached
<1>7. CASE Last(ckpts).snap[i] \in Reopening
  <2>1. db.phase[i] # Absent
    BY <1>3, <1>7 DEF SnapshotOf, Reopening, Absent
  <2>2. Restrained(i)
    BY <1>1, <1>3, <1>4, <2>1, TurnsRestrained, BoardRestrained
  <2>3. AtWork(i)' => AtWork(i) /\ (turn[Owner[i]].stale => turn'[Owner[i]].stale)
    BY <1>1, <1>3, <1>4, TurnsWearOut
  <2>4. Unreached(Last(ckpts).snap[i], i)
    BY <1>2 DEF PendingInv
  <2> DEFINE was == Last(ckpts).snap[i]
  <2>5. was' = was
    BY <1>1
  <2> HIDE DEF was
  <2>6. Unreached(was, i)
    BY <2>4 DEF was
  <2> QED
    BY <1>5, <2>2, <2>3, <2>5, <2>6, RestrainedKeeps DEF was
<1> QED
  BY <1>6, <1>7

\* The dispatcher is gone, or a process starts, and the checkpoints stay.
LEMMA PhasesStayPending ==
  ASSUME SuspendInv, PendingInv, ckpts' = ckpts, engine' # "up", db'.phase = db.phase,
         \/ turn' = [r \in Roles |-> NoTurn]
         \/ UNCHANGED <<turn, sess, recalled>>
  PROVE  PendingInv'
<1>1. SUFFICES ASSUME ckpts # << >>, Last(ckpts).status = "pending", NEW i \in Items
               PROVE  Unreached(Last(ckpts).snap[i], i)'
  BY DEF PendingInv
<1>2. AtWork(i)' => AtWork(i) /\ UNCHANGED <<turn, recalled>>
  BY OwnerAssumption DEF AtWork, NoTurn
<1>3. Unreached(Last(ckpts).snap[i], i)
  BY <1>1 DEF PendingInv
<1> QED
  BY <1>2, <1>3 DEF Unreached

\* A stop leaves a checkpoint of the store as it stands.
LEMMA StopPending ==
  ASSUME SuspendInv, PendingInv, Stop \/ CrashDuringStop
  PROVE  PendingInv'
<1>1. Orderly(db) /\ ckpts \in Seq(Taken(db))
  BY SuspendParts DEF SuspendInv
<1>2. SaveCheckpoint /\ engine' # "up"
  BY DEF Stop, CrashDuringStop, StopRequested
<1>3. \E S : db' = PutOnHold(db, S)
  BY DEF Stop, CrashDuringStop, DispatcherGone
<1>4. db'.phase = db.phase
  BY <1>1, <1>3 DEF PutOnHold, Orderly, Stores
<1> QED
  BY <1>1, <1>2, <1>4, SavedUnreached

\* So does a start of the process, or it leaves the checkpoints alone.
LEMMA BootPending ==
  ASSUME SuspendInv, PendingInv, Boot
  PROVE  PendingInv'
<1>1. Orderly(db) /\ ckpts \in Seq(Taken(db))
  BY SuspendParts DEF SuspendInv
<1>2. /\ engine' = "down" /\ UNCHANGED <<turn, recalled>>
      /\ \/ db' = Swept(db) /\ UNCHANGED <<sess, ckpts>>
         \/ db' = PutOnHold(Swept(db), Unfinished(db)) /\ SaveCheckpoint
  BY DEF Boot
<1>3. db'.phase = db.phase
  BY <1>1, <1>2 DEF Swept, PutOnHold, Orderly, Stores
<1> QED
  BY <1>1, <1>2, <1>3, PhasesStayPending, SavedUnreached

\* A late cancellation ends the turns and moves nothing.
LEMMA CancelPending ==
  ASSUME SuspendInv, PendingInv, CancelLands \/ Quit
  PROVE  PendingInv'
<1>1. PICK R \in Cancellable : CancelRoles(R)
  BY DEF CancelLands, Quit
<1>2. ckpts' = ckpts /\ engine' # "up"
  BY DEF CancelLands, Quit
<1>3. db'.phase = db.phase
  BY <1>1, CancelFacts
<1>4. turn' = [r \in Roles |-> NoTurn]
  BY <1>1 DEF CancelRoles, DispatcherGone
<1> QED
  BY <1>2, <1>3, <1>4, PhasesStayPending

\* A resume uses the latest checkpoint up, or is cut short and leaves it so.
LEMMA ResumePending ==
  ASSUME SuspendInv, PendingInv, Resume \/ CrashDuringResume
  PROVE  PendingInv'
<1>1. /\ ckpts \in Seq(Taken(db)) /\ ckpts # << >> /\ engine = "down"
      /\ ckpts' = Front(ckpts) \/ ckpts' = [ckpts EXCEPT ![Len(ckpts)].status = "resuming"]
  BY DEF Resume, CrashDuringResume, SuspendInv
<1>2. Len(ckpts) \in Nat \ {0} /\ DOMAIN ckpts = 1..Len(ckpts)
  BY <1>1, LenProperties, EmptySeq
<1>3. \A k \in DOMAIN ckpts' : ckpts'[k].status # "pending"
  <2>1. \A k \in 1..Len(ckpts) : /\ k # Len(ckpts) => ckpts[k].status # "pending"
                                 /\ ckpts[k] \in Checkpoints
    BY <1>1, <1>2, ElementOfSeq DEF PendingInv, Taken
  <2>2. CASE ckpts' = Front(ckpts)
    <3>1. Front(ckpts) = [k \in 1..(Len(ckpts) - 1) |-> ckpts[k]]
      BY DEF Front
    <3>2. ASSUME NEW n \in Nat PROVE \A k \in 1..(n - 1) : k \in 1..n /\ k # n
      OBVIOUS
    <3>3. \A k \in 1..(Len(ckpts) - 1) : k \in 1..Len(ckpts) /\ k # Len(ckpts)
      BY <1>2, <3>2
    <3> QED
      BY <2>1, <2>2, <3>1, <3>3
  <2>3. CASE ckpts' = [ckpts EXCEPT ![Len(ckpts)].status = "resuming"]
    BY <1>2, <2>1, <2>3 DEF Checkpoints
  <2> QED
    BY <1>1, <2>2, <2>3
<1>4. ckpts' # << >> => Len(ckpts') \in DOMAIN ckpts' /\ ckpts'[Len(ckpts')] = Last(ckpts')
  <2>1. ckpts' \in Seq(Taken(db)')
    BY ResumeKeeps, CrashDuringResumeKeeps DEF SuspendInv
  <2> QED
    BY <2>1, LatestTaken, LenProperties
<1> QED
  BY <1>3, <1>4 DEF PendingInv

\* The invariant is inductive, given that of the store.
LEMMA NextPending == SuspendInv /\ PendingInv /\ [SuspendNext]_allVars => PendingInv'
<1> SUFFICES ASSUME SuspendInv, PendingInv, [SuspendNext]_allVars PROVE PendingInv'
  OBVIOUS
<1>1. CASE UNCHANGED allVars
  BY <1>1 DEF allVars, vars, suspendVars, PendingInv, Unreached, AtWork
<1>2. CASE Crash
  BY <1>2, PhasesStayPending DEF Crash, DispatcherGone
<1>3. CASE Exit
  BY <1>3, PhasesStayPending DEF Exit, DispatcherGone
<1>4. CASE Continue
  BY <1>4 DEF Continue, PendingInv
<1> QED
  BY <1>1, <1>2, <1>3, <1>4, DispatchingPending, StopPending, BootPending, CancelPending,
     ResumePending DEF SuspendNext

\* Both hold in every state.
LEMMA PendingInvariant == SuspendSpec => [](SuspendInv /\ PendingInv)
<1>1. SuspendInit => PendingInv
  BY DEF SuspendInit, PendingInv
<1> QED
  BY <1>1, InitSuspend, NextSuspend, NextPending, PTL DEF SuspendSpec

-----------------------------------------------------------------------------
(* What a release leaves as it was decided *)

\* No write that a release proposes for an item in review is a legal one, unless
\* the item was in a phase before that it has been sent back to or was reviewed in.
LEMMA ReviewIsKept ==
  ASSUME NEW d, NEW i \in Items, d.phase[i] \in InReviewPhases, NEW was \in Written,
         was \notin Reopening \/ was = d.phase[i]
  PROVE  LET target == ResumeTarget(d, was, i) IN
         target = d.phase[i] \/ ~Legal(d.phase[i], target)
<1>1. ResumeTarget(d, was, i) \in {d.phase[i], "awaiting_manager_review", "waiting_dependencies",
        "waiting_for_children", "waiting_for_peer", "running"}
  BY DEF ResumeTarget, Written, Unwritten, Reopening, Phases, DonePhases, InReviewPhases,
         RunnablePhases
<1>2. \A q \in {"awaiting_manager_review", "waiting_dependencies", "waiting_for_children",
                "waiting_for_peer", "running"} : q = d.phase[i] \/ ~Legal(d.phase[i], q)
  BY DEF Legal, AllowedTransitions, UniversalExits, RecoveryExits, Phases, DonePhases,
         InReviewPhases, InProgressPhases
<1> QED
  BY <1>1, <1>2

\* One round of a release.
LEMMA ResumeItemWrites ==
  ASSUME NEW d, Shaped(d), NEW before, NEW snap, NEW i \in Items,
         snap[i] # Absent => snap[i] \in Written /\ before.phase[i] \in Written
  PROVE  LET e      == ResumeItem(d, before, snap, i)
             target == ResumeTarget(before, snap[i], i)
         IN /\ Shaped(e)
            /\ \A j \in Items \ {i} : Shift(d, e, j) /\ Recedes(d, e, j)
            /\ \/ e.phase[i] = d.phase[i]
               \/ /\ snap[i] # Absent /\ before.phase[i] \notin DonePhases
                  /\ target \in Written /\ target # before.phase[i]
                  /\ Legal(d.phase[i], target) /\ e.phase[i] = target
<1> DEFINE target == ResumeTarget(before, snap[i], i)
           freed  == [d EXCEPT !.hold[i] = FALSE, !.claim[i] = FALSE]
           moved  == IF target = before.phase[i] THEN freed ELSE Transition(freed, i, target)
           e      == ResumeItem(d, before, snap, i)
<1>1. CASE snap[i] = Absent \/ before.phase[i] \in DonePhases
  BY <1>1 DEF ResumeItem, Shift, Recedes
<1>2. CASE snap[i] # Absent /\ before.phase[i] \notin DonePhases
  <2>1. e = [moved EXCEPT !.focus[Owner[i]] = NoItem]
    BY <1>2 DEF ResumeItem
  <2>2. target \in Written
    BY <1>2, TargetIsWritten
  <2> HIDE DEF target, e
  <2>3. Shaped(freed) /\ freed.phase = d.phase
    BY DEF Shaped, Fields
  <2> HIDE DEF freed
  <2>4. /\ Shaped(moved)
        /\ \A j \in Items \ {i} : Shift(freed, moved, j) /\ Recedes(freed, moved, j)
        /\ \/ moved.phase[i] = freed.phase[i]
           \/ target # before.phase[i] /\ Legal(freed.phase[i], target) /\ moved.phase[i] = target
    <3>1. CASE target = before.phase[i] \/ ~Legal(freed.phase[i], target)
      BY <2>3, <3>1 DEF Transition, Shift, Recedes
    <3>2. CASE moved = SavePhase(freed, i, target) /\ target # before.phase[i]
                 /\ Legal(freed.phase[i], target)
      BY <2>2, <2>3, <3>2, SavePhaseShifts, SavePhaseRecedes DEF Written
    <3> QED
      BY <3>1, <3>2 DEF Transition
  <2> HIDE DEF moved
  <2>5. Shaped(e) /\ e.phase = moved.phase
    BY <2>1, <2>4 DEF Shaped, Fields
  <2> QED
    BY <1>2, <2>2, <2>3, <2>4, <2>5 DEF Shift, Recedes, target, e
<1> QED
  BY <1>1, <1>2

\* What is done or in review is found so by every round, and what was sent back
\* to rework is not in review after any of them.
Decided(d, e, m) ==
  \A i \in Items :
    /\ d.phase[i] \in InReviewPhases \cup DonePhases => e.phase[i] = d.phase[i]
    /\ d.phase[i] = "ready_for_rework" =>
         /\ e.phase[i] \notin InReviewPhases
         /\ i > m => e.phase[i] \in TodoPhases \cup DonePhases

\* Every prefix of the rounds of a release leaves them so: by a least one that does not.
LEMMA ResumedDecisions ==
  ASSUME NEW d, Orderly(d), NEW snap, SnapshotOf(d, snap),
         \A i \in Items : d.phase[i] \in InReviewPhases =>
                            snap[i] \notin Reopening \/ snap[i] = d.phase[i],
         NEW n \in 0..MaxItems
  PROVE  Decided(d, Resumed(d, snap, n), n)
<1> DEFINE fine(m) == Shaped(Resumed(d, snap, m)) /\ Decided(d, Resumed(d, snap, m), m)
           failing == {m \in 0..MaxItems : ~fine(m)}
<1>1. MaxItems \in Nat /\ failing \in SUBSET Nat
  BY MaxItemsAssumption
<1>2. fine(0)
  BY ResumedRounds, OrderlyShape DEF Decided, InReviewPhases, TodoPhases
<1>3. ASSUME NEW m \in 1..MaxItems, fine(m - 1) PROVE fine(m)
  <2> DEFINE acc    == Resumed(d, snap, m - 1)
             e      == Resumed(d, snap, m)
             target == ResumeTarget(d, snap[m], m)
  <2>1. m \in Items /\ e = ResumeItem(acc, d, snap, m)
    BY ResumedRounds DEF Items
  <2>2. Shaped(acc) /\ Decided(d, acc, m - 1)
    BY <1>3
  <2>3. snap[m] # Absent => snap[m] \in Written /\ d.phase[m] \in Written
    BY <2>1 DEF SnapshotOf, Orderly, Stores, Written
  <2> HIDE DEF acc, e
  <2>4. /\ Shaped(e)
        /\ \A j \in Items \ {m} : Shift(acc, e, j) /\ Recedes(acc, e, j)
        /\ \/ e.phase[m] = acc.phase[m]
           \/ /\ snap[m] # Absent /\ d.phase[m] \notin DonePhases
              /\ target \in Written /\ target # d.phase[m]
              /\ Legal(acc.phase[m], target) /\ e.phase[m] = target
    BY <2>1, <2>2, <2>3, ResumeItemWrites
  <2>5. ASSUME NEW i \in Items, i # m
        PROVE  /\ d.phase[i] \in InReviewPhases \cup DonePhases => e.phase[i] = d.phase[i]
               /\ d.phase[i] = "ready_for_rework" =>
                    /\ e.phase[i] \notin InReviewPhases
                    /\ i > m => e.phase[i] \in TodoPhases \cup DonePhases
    <3>1. Shift(acc, e, i) /\ Recedes(acc, e, i)
      BY <2>4, <2>5
    <3>2. d.phase[i] \in InReviewPhases \cup DonePhases => e.phase[i] = d.phase[i]
      BY <2>2, <3>1, ColumnPhases DEF Decided, Shift, B!Open, InReviewPhases, DonePhases
    <3>3. d.phase[i] = "ready_for_rework" => e.phase[i] \notin InReviewPhases
      BY <2>2, <3>1 DEF Decided, Recedes, InReviewPhases, TodoPhases, DonePhases, InProgressPhases
    <3>4. i > m => i > m - 1
      BY <1>1 DEF Items
    <3>5. d.phase[i] = "ready_for_rework" /\ i > m => e.phase[i] \in TodoPhases \cup DonePhases
      BY <2>2, <3>1, <3>4 DEF Decided, Recedes, TodoPhases, DonePhases, InProgressPhases
    <3> QED
      BY <3>2, <3>3, <3>5
  <2>6. /\ d.phase[m] \in InReviewPhases \cup DonePhases => e.phase[m] = d.phase[m]
        /\ d.phase[m] = "ready_for_rework" => e.phase[m] \notin InReviewPhases
    <3>1. CASE e.phase[m] = acc.phase[m]
      BY <2>1, <2>2, <3>1 DEF Decided
    <3>2. CASE /\ snap[m] # Absent /\ d.phase[m] \notin DonePhases
               /\ target \in Written /\ target # d.phase[m]
               /\ Legal(acc.phase[m], target) /\ e.phase[m] = target
      <4>1. ASSUME d.phase[m] \in InReviewPhases PROVE FALSE
        <5>1. acc.phase[m] = d.phase[m]
          BY <2>1, <2>2, <4>1 DEF Decided
        <5> QED
          BY <2>1, <2>3, <3>2, <4>1, <5>1, ReviewIsKept
      <4>2. ASSUME d.phase[m] = "ready_for_rework", target \in InReviewPhases PROVE FALSE
        <5>1. acc.phase[m] \in TodoPhases \cup DonePhases /\ m > m - 1
          BY <1>1, <2>1, <2>2, <4>2 DEF Decided
        <5>2. target = "awaiting_human" \/ target = "awaiting_manager_review"
          BY <4>2 DEF InReviewPhases
        <5> QED
          BY <3>2, <5>1, <5>2, LegalFrom DEF TodoPhases, DonePhases, InReviewPhases, Phases
      <4> QED
        BY <3>2, <4>1, <4>2
    <3> QED
      BY <2>4, <3>1, <3>2
  <2>7. ~(m > m)
    BY <1>1
  <2> QED
    BY <2>4, <2>5, <2>6, <2>7 DEF Decided, e
<1> HIDE DEF fine
<1>4. failing = {}
  <2>1. SUFFICES ASSUME failing # {} PROVE FALSE
    OBVIOUS
  <2>2. PICK m \in failing : \A k \in failing : m <= k
    <3> HIDE DEF failing
    <3> QED
      BY <1>1, <2>1, LeastExists
  <2>3. m \in 0..MaxItems /\ ~fine(m)
    OBVIOUS
  <2>4. m # 0
    BY <1>2, <2>3
  <2>5. m \in 1..MaxItems /\ m - 1 \in 0..MaxItems /\ ~(m <= m - 1)
    BY <1>1, <2>3, <2>4
  <2>6. m - 1 \notin failing
    <3> HIDE DEF failing
    <3> QED
      BY <2>2, <2>5
  <2>7. fine(m - 1)
    BY <2>5, <2>6
  <2> QED
    BY <1>3, <2>3, <2>5, <2>7
<1> QED
  BY <1>4 DEF fine

(***************************************************************************)
(* Resuming forgets no decision: whatever reviewers, peers, managers and   *)
(* late turns did between the stop and the resume, what is done or in      *)
(* review stays so, and work sent back is not put before the review it     *)
(* came from, also when the process ends during the release.               *)
(***************************************************************************)
THEOREM DecisionsAreKept == SuspendSpec => DecisionsSurviveResume
<1> DEFINE Forgets ==
             (Resume \/ CrashDuringResume) /\ Last(ckpts).status = "pending" =>
               \A i \in Items :
                 /\ db.phase[i] \in InReviewPhases \cup DonePhases => db'.phase[i] = db.phase[i]
                 /\ db.phase[i] = "ready_for_rework" => db'.phase[i] \notin InReviewPhases
<1>1. SuspendInv /\ PendingInv /\ [SuspendNext]_allVars => [Forgets]_allVars
  <2> SUFFICES ASSUME SuspendInv, PendingInv, Resume \/ CrashDuringResume,
                      Last(ckpts).status = "pending", NEW i \in Items
               PROVE  /\ db.phase[i] \in InReviewPhases \cup DonePhases =>
                           db'.phase[i] = db.phase[i]
                      /\ db.phase[i] = "ready_for_rework" => db'.phase[i] \notin InReviewPhases
    OBVIOUS
  <2> DEFINE snap == Last(ckpts).snap
  <2>1. ckpts # << >> /\ Orderly(db) /\ SnapshotOf(db, snap)
    <3>1. ckpts # << >>
      BY DEF Resume, CrashDuringResume
    <3> QED
      BY <3>1, SuspendParts, LatestTaken DEF SuspendInv
  <2>2. PICK n \in 0..MaxItems : db'.phase = Resumed(db, snap, n).phase
    <3>1. CASE Resume
      <4> DEFINE e == Resumed(db, snap, MaxItems)
      <4>1. db' = [e EXCEPT !.cached = e.pending]
        BY <3>1 DEF Resume, Bootstrap
      <4>2. e \in Stores /\ MaxItems \in 0..MaxItems
        BY <2>1, SuspendParts, ResumedFacts, MaxItemsAssumption DEF Releases, Orderly
      <4> HIDE DEF e
      <4> QED
        BY <4>1, <4>2 DEF Stores, e
    <3>2. CASE CrashDuringResume
      BY <3>2 DEF CrashDuringResume, DispatcherGone
    <3> QED
      BY <3>1, <3>2
  <2>3. \A j \in Items : db.phase[j] \in InReviewPhases =>
                           snap[j] \notin Reopening \/ snap[j] = db.phase[j]
    BY <2>1 DEF PendingInv, Unreached, InReviewPhases, TodoPhases, DonePhases, InProgressPhases
  <2>4. Decided(db, Resumed(db, snap, n), n)
    BY <2>1, <2>3, ResumedDecisions
  <2> QED
    BY <2>2, <2>4 DEF Decided
<1> QED
  BY <1>1, PendingInvariant, PTL DEF SuspendSpec, DecisionsSurviveResume

=============================================================================
