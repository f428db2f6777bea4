--------------------------- MODULE SuspendResume ---------------------------
(***************************************************************************)
(* Stop, Continue, crash and restart of a company run, around the          *)
(* dispatcher of CompanyDispatch.                                          *)
(*                                                                         *)
(* Stop takes a snapshot of the phases into a checkpoint, puts every       *)
(* unfinished item on hold and releases its claim, and asks for the        *)
(* cancellation of the run, which arrives later: turns in flight may go on *)
(* meanwhile.  Continue releases the items again, each to a phase computed *)
(* from the snapshot and from what happened to it since, and starts a new  *)
(* dispatcher, which reads its role sessions from the store.  A process    *)
(* that starts releases the claims of the dead one and, when it finds      *)
(* items that nobody runs, suspends the run it found.                      *)
(*                                                                         *)
(* While no dispatcher runs, sess stands for the rows of the role          *)
(* sessions in the store.                                                  *)
(***************************************************************************)
EXTENDS CompanyDispatch

CONSTANTS
  MaxStops,    \* bound on presses of the stop button
  MaxCrashes   \* bound on ends of the process

ASSUME MaxStopsAssumption == MaxStops \in Nat
ASSUME MaxCrashesAssumption == MaxCrashes \in Nat

VARIABLES
  engine,      \* "up", "stopping" (cancellation on its way), "down", "dead"
  ckpts,       \* active suspend checkpoints, the latest updated last
  recalled,    \* roles whose turn has called its agent again since the stop
  bare,        \* items held by a cancellation that took no checkpoint
  stops,       \* presses of the stop button left
  crashes      \* ends of the process left

suspendVars == <<engine, ckpts, recalled, bare, stops, crashes>>
allVars     == <<vars, suspendVars>>

Checkpoints ==
  [ status : {"pending", "resuming"},
    snap   : [Items -> Phases \cup {Absent}] ]

SuspendTypeOK ==
  /\ TypeOK
  /\ engine \in {"up", "stopping", "down", "dead"}
  /\ ckpts \in Seq(Checkpoints)
  /\ recalled \in SUBSET Roles
  /\ bare \in SUBSET Items
  /\ stops \in 0..MaxStops
  /\ crashes \in 0..MaxCrashes

SuspendInit ==
  /\ Init
  /\ engine = "up"
  /\ ckpts = << >>
  /\ recalled = {}
  /\ bare = {}
  /\ stops = MaxStops
  /\ crashes = MaxCrashes

Unfinished(d) == {i \in Created(d) : d.phase[i] \notin DonePhases}

-----------------------------------------------------------------------------
(* Memory and rows *)

(***************************************************************************)
(* The rows of the role sessions in the store d, as a bootstrap would read *)
(* them: a row without a focus is idle; a turn in flight left it running,  *)
(* a turn that parked left it blocked.                                     *)
(***************************************************************************)
RowsOf(d) ==
  [r \in Roles |->
     IF d.focus[r] = NoItem THEN Idle
     ELSE IF sess[r] = [status |-> "running", item |-> d.focus[r]] THEN sess[r]
     ELSE [status |-> "blocked", item |-> d.focus[r]]]

\* The dispatcher and its turns are gone; the store d is what is left.
DispatcherGone(d) ==
  /\ db' = d
  /\ sess' = RowsOf(d)
  /\ turn' = [r \in Roles |-> NoTurn]
  /\ queue' = [r \in Roles |-> << >>]
  /\ UNCHANGED <<replied, edits, loop>>

(***************************************************************************)
(* bootstrap of a new dispatcher on the store d.                           *)
(***************************************************************************)
Bootstrap(d) ==
  /\ db' = [d EXCEPT !.cached = d.pending]
  /\ sess' = RowsOf(d)
  /\ loop' = "running"
  /\ engine' = "up"
  /\ UNCHANGED <<turn, queue, replied, edits>>

-----------------------------------------------------------------------------
(* Stop *)

\* Mutant: suspension is written as a phase.
PutOnHoldAsPhase(d, S) ==
  [d EXCEPT !.phase = [i \in Items |-> IF i \in S THEN "suspended" ELSE @[i]]]

(***************************************************************************)
(* _suspend_company_runtime_tasks for the items S: held, unclaimed, the    *)
(* phase kept, and their role sessions idle.                               *)
(***************************************************************************)
PutOnHold(d, S) ==
  [d EXCEPT
     !.hold  = [i \in Items |-> @[i] \/ i \in S],
     !.claim = [i \in Items |-> @[i] /\ i \notin S],
     !.focus = [r \in Roles |-> IF \E i \in S : Owner[i] = r THEN NoItem ELSE @[r]]]

(***************************************************************************)
(* _save_company_runtime_suspend_checkpoint: the new one supersedes those  *)
(* that are pending, not one whose resume did not come to its end.         *)
(***************************************************************************)
SaveCheckpoint ==
  ckpts' = Append(EntriesAt(ckpts, {k \in DOMAIN ckpts : ckpts[k].status = "resuming"}),
                  [status |-> "pending", snap |-> db.phase])

StopRequested ==
  /\ engine \in {"up", "down"}
  /\ stops > 0
  /\ ~\E c \in Range(ckpts) : c.status = "pending"
  /\ SaveCheckpoint
  /\ stops' = stops - 1

(***************************************************************************)
(* The stop button.  No call of it suspends up to the cancellation of the  *)
(* run, which is only asked for.                                           *)
(***************************************************************************)
Stop ==
  /\ StopRequested
  /\ db' = PutOnHold(db, Unfinished(db))
  /\ engine' = IF engine = "up" THEN "stopping" ELSE "down"
  /\ sess' = IF engine = "up" THEN sess ELSE RowsOf(PutOnHold(db, Unfinished(db)))
  /\ recalled' = {}
  /\ bare' = {}
  /\ UNCHANGED <<turn, queue, replied, edits, loop, crashes>>

\* Items of S in creation order, up to the n-th.
FirstOf(S, n) == {i \in S : Cardinality({j \in S : j <= i}) <= n}

\* The process ends between two of the writes of Stop.
CrashDuringStop ==
  /\ StopRequested
  /\ crashes > 0
  /\ crashes' = crashes - 1
  /\ engine' = "dead"
  /\ \E n \in 0..MaxItems : DispatcherGone(PutOnHold(db, FirstOf(Unfinished(db), n)))
  /\ UNCHANGED <<recalled, bare>>

\* What a cancellation of the dispatcher puts on hold: the items of the roles R.
CancelledItems(R) == {sess[r].item : r \in R} \cap Unfinished(db)

CancelRoles(R) ==
  LET held == PutOnHold(db, CancelledItems(R))
  IN DispatcherGone([held EXCEPT !.focus = [r \in Roles |->
                                              IF r \in R THEN NoItem ELSE @[r]]])

\* Roles with a turn in flight, and some whose parked turn was not collected yet.
Cancellable == {{r \in Roles : InFlight(r)} \cup late :
                   late \in SUBSET {r \in Roles : sess[r].status = "blocked"}}

(***************************************************************************)
(* CancelledError in the dispatcher and in its turns: every item with a    *)
(* turn is held and unclaimed (again), whoever asked for the cancellation. *)
(***************************************************************************)
CancelLands ==
  /\ engine = "stopping"
  /\ engine' = "down"
  /\ \E R \in Cancellable : CancelRoles(R)
  /\ recalled' = {}
  /\ UNCHANGED <<ckpts, bare, stops, crashes>>

(***************************************************************************)
(* The terminal front end is closed: it cancels the run and ends, and      *)
(* nobody has taken a checkpoint.                                          *)
(***************************************************************************)
Quit ==
  /\ engine = "up"
  /\ crashes > 0
  /\ crashes' = crashes - 1
  /\ engine' = "dead"
  /\ \E R \in Cancellable :
       /\ CancelRoles(R)
       /\ bare' = bare \cup {i \in CancelledItems(R) : ~db.hold[i]}
  /\ UNCHANGED <<ckpts, recalled, stops>>

Crash ==
  /\ engine # "dead"
  /\ crashes > 0
  /\ crashes' = crashes - 1
  /\ engine' = "dead"
  /\ DispatcherGone(db)
  /\ recalled' = {}
  /\ UNCHANGED <<ckpts, bare, stops>>

-----------------------------------------------------------------------------
(* Restart *)

(***************************************************************************)
(* _sweep_stale_claims: the claims of the dead process are released.       *)
(***************************************************************************)
Swept(d) ==
  [d EXCEPT !.claim = [i \in Items |-> @[i] /\ d.phase[i] \notin ResumablePhases]]

(***************************************************************************)
(* _reconcile_interrupted_project_tasks: a running item counts as live     *)
(* while the process of its external agent still is.  If one is not, the   *)
(* whole run is suspended.                                                 *)
(***************************************************************************)
Boot ==
  LET running == {i \in Items : db.phase[i] = "running"}
      swept   == Swept(db)
      held    == PutOnHold(swept, Unfinished(db))
  IN /\ engine = "dead"
     /\ engine' = "down"
     /\ \/ /\ db' = swept
           /\ UNCHANGED <<sess, ckpts, bare>>
        \/ /\ running # {}
           /\ db' = held
           /\ sess' = RowsOf(held)
           /\ SaveCheckpoint
           /\ bare' = {}
     /\ UNCHANGED <<turn, queue, replied, edits, loop, recalled, stops, crashes>>

-----------------------------------------------------------------------------
(* Continue *)

(***************************************************************************)
(* _company_runtime_resume_target_phase, for an item that is not done.     *)
(* Every dependency listed counts here, one deleted by its manager too.    *)
(***************************************************************************)
ResumeTarget(d, was, i) ==
  LET satisfied == \A j \in d.deps[i] : d.phase[j] = "approved"
  IN CASE was \in DonePhases -> d.phase[i]
       [] was \in InReviewPhases \cup {"waiting_dependencies"} -> was
       [] was = "running" /\ ~satisfied -> "waiting_for_children"
       [] was \in RunnablePhases \cup {"queued"} /\ ~satisfied -> "waiting_dependencies"
       [] was = "queued" /\ satisfied -> "ready"
       [] OTHER -> was

\* Mutant: a released item keeps the claim of the turn that is gone.
ResumeItemClaimed(d, before, snap, i) ==
  LET freed  == [d EXCEPT !.hold[i] = FALSE, !.claim[i] = TRUE]
  IN [Transition(freed, i, ResumeTarget(before, snap[i], i))
        EXCEPT !.focus[Owner[i]] = NoItem]

\* Mutant: the snapshot is restored past the transition table.
ResumeItemUnchecked(d, before, snap, i) ==
  IF snap[i] = Absent THEN d
  ELSE [d EXCEPT !.hold[i] = FALSE, !.claim[i] = FALSE,
                 !.phase[i] = ResumeTarget(before, snap[i], i),
                 !.focus[Owner[i]] = NoItem]

\* Mutant: items in review are not released.
ResumeItemBusy(d, before, snap, i) ==
  IF snap[i] = Absent \/ before.phase[i] \in InReviewPhases \cup DonePhases THEN d
  ELSE LET freed == [d EXCEPT !.hold[i] = FALSE, !.claim[i] = FALSE]
       IN [Transition(freed, i, ResumeTarget(before, snap[i], i))
             EXCEPT !.focus[Owner[i]] = NoItem]

(***************************************************************************)
(* One round of _prepare_company_runtime_tasks_for_resume.  The target is  *)
(* computed from the items as they were before the first round, and a      *)
(* write the transition table rejects still ends the hold and the claim.   *)
(***************************************************************************)
ResumeItem(d, before, snap, i) ==
  LET target == ResumeTarget(before, snap[i], i)
      freed  == [d EXCEPT !.hold[i] = FALSE, !.claim[i] = FALSE]
      moved  == IF target = before.phase[i] THEN freed ELSE Transition(freed, i, target)
  IN IF snap[i] = Absent \/ before.phase[i] \in DonePhases THEN d
     ELSE [moved EXCEPT !.focus[Owner[i]] = NoItem]

\* The first n items, in creation order, released with the snapshot snap.
Resumed(d, snap, n) ==
  LET upTo[m \in 0..MaxItems] ==
        IF m = 0 THEN d ELSE ResumeItem(upTo[m - 1], d, snap, m)
  IN upTo[n]

(***************************************************************************)
(* The Continue button on a run with an active checkpoint: the latest one  *)
(* is used up, and a dispatcher starts.                                    *)
(***************************************************************************)
Resume ==
  /\ engine = "down"
  /\ ckpts # << >>
  /\ Bootstrap(Resumed(db, Last(ckpts).snap, MaxItems))
  /\ ckpts' = Front(ckpts)
  /\ UNCHANGED <<recalled, bare, stops, crashes>>

\* The process ends during the release: the checkpoint stays as "resuming".
CrashDuringResume ==
  /\ engine = "down"
  /\ ckpts # << >>
  /\ crashes > 0
  /\ crashes' = crashes - 1
  /\ engine' = "dead"
  /\ ckpts' = [ckpts EXCEPT ![Len(ckpts)].status = "resuming"]
  /\ \E n \in 0..MaxItems : DispatcherGone(Resumed(db, Last(ckpts).snap, n))
  /\ UNCHANGED <<recalled, bare, stops>>

(***************************************************************************)
(* The Continue button on a run without one.  A run some item of which     *)
(* waits for a peer or for a review counts as in progress.                 *)
(***************************************************************************)
Continue ==
  /\ engine = "down"
  /\ ckpts = << >>
  /\ ~\E i \in Items : db.phase[i] \in InReviewPhases \cup {"waiting_for_peer"}
  /\ \E i \in Items : db.phase[i] \in TodoPhases \cup {"waiting_for_children", "failed"}
  /\ Bootstrap(db)
  /\ UNCHANGED <<ckpts, recalled, bare, stops, crashes>>

(***************************************************************************)
(* The dispatcher ends by itself: nothing is in flight, and nothing can be *)
(* dispatched, or its loop has died.                                       *)
(***************************************************************************)
Exit ==
  /\ engine = "up"
  /\ \A r \in Roles : ~InFlight(r)
  /\ \/ loop = "crashed"
     \/ /\ Satisfied(db) = {} /\ Unparkable(db) = {}
        /\ ~\E i \in Items : Runnable(db, i)
  /\ engine' = "down"
  /\ DispatcherGone(db)
  /\ UNCHANGED <<ckpts, recalled, bare, stops, crashes>>

-----------------------------------------------------------------------------

\* What the review panel and the peers can still do when nothing runs.
PanelStep(i) == PeerReplies(i) \/ Approve(i) \/ Rework(i) \/ HumanRejects(i)

(***************************************************************************)
(* The steps of the dispatcher, its turns and the board.  Between Stop and *)
(* the cancellation the loop gets no further, and a turn takes the steps   *)
(* that were due; one that calls its agent again does not come back from   *)
(* it in that time.                                                        *)
(***************************************************************************)
Dispatching ==
  /\ \/ /\ engine = "up"
        /\ Loop \/ \E r \in Roles : TurnStep(r)
        /\ UNCHANGED recalled
     \/ /\ engine = "stopping"
        /\ \E r \in Roles \ recalled :
             \/ StartTurn(r) /\ recalled' = recalled \cup {r}
             \/ TurnGoesOn(r) /\ UNCHANGED recalled
     \/ /\ engine \in {"up", "stopping"}
        /\ \E i \in Items : BoardStep(i)
        /\ UNCHANGED recalled
     \/ /\ engine = "down"
        /\ \E i \in Items : PanelStep(i)
        /\ UNCHANGED recalled
  /\ UNCHANGED <<engine, ckpts, bare, stops, crashes>>

SuspendNext ==
  \/ Dispatching
  \/ Stop
  \/ CrashDuringStop
  \/ CancelLands
  \/ Quit
  \/ Crash
  \/ Boot
  \/ Resume
  \/ CrashDuringResume
  \/ Continue
  \/ Exit

SuspendSpec == SuspendInit /\ [][SuspendNext]_allVars

-----------------------------------------------------------------------------
(* Safety *)

(***************************************************************************)
(* What is on hold can be released: nothing is while a dispatcher runs,    *)
(* and when it does not, a checkpoint is there for the Continue button to  *)
(* use up, whatever stops, crashes and half-finished resumes came before.  *)
(* Only what a quitting terminal held has none.                            *)
(***************************************************************************)
HeldWorkHasCheckpoint ==
  engine \in {"up", "down"} =>
    \A i \in Unfinished(db) :
      db.hold[i] => i \in bare \/ (engine = "down" /\ ckpts # << >>)

(***************************************************************************)
(* Resuming from an old snapshot forgets no decision taken since: what is  *)
(* done or in review stays, and an item sent back to rework is not put     *)
(* before the review it came from.  (The checkpoint of a resume that was   *)
(* cut short stays active, and one used up much later may do all that.)    *)
(***************************************************************************)
DecisionsSurviveResume ==
  [][(Resume \/ CrashDuringResume) /\ Last(ckpts).status = "pending" =>
       \A i \in Items :
         /\ db.phase[i] \in InReviewPhases \cup DonePhases => db'.phase[i] = db.phase[i]
         /\ db.phase[i] = "ready_for_rework" => db'.phase[i] \notin InReviewPhases]_allVars

(***************************************************************************)
(* A parent that is put back to waiting for children already approved is   *)
(* still taken: by then nothing will wake it, and the dispatcher itself    *)
(* has to find it, in the store as a tick reconciles it (a resume can      *)
(* leave the parent marked as queued, and no entry behind the marker).     *)
(***************************************************************************)
ResumedParentWakes ==
  engine = "up" =>
    \A i \in Items :
      db.phase[i] = "waiting_for_children" /\ DepsApproved(db, i)
        => db.hold[i] \/ Dispatchable(Reconcile(db, Roles), i)

-----------------------------------------------------------------------------
(* Liveness *)

(***************************************************************************)
(* A dispatcher that runs polls, its turns are limited in time, and a      *)
(* cancellation arrives.  People and crashes owe nothing.                  *)
(***************************************************************************)
SuspendFairness ==
  /\ WF_allVars(engine = "up" /\ Loop /\ UNCHANGED suspendVars)
  /\ WF_allVars(CancelLands)
  /\ \A r \in Roles : []<>~InFlight(r)

FairSuspendSpec == SuspendSpec /\ SuspendFairness

(***************************************************************************)
(* A session that a new dispatcher read as running, from the row a crash   *)
(* left, while no turn of it is in flight: the loop never gives it work.   *)
(***************************************************************************)
Wedged(r) == sess[r].status = "running" /\ ~InFlight(r)

Stranded(i) ==
  engine = "up" /\ loop = "running" /\ Orphaned(db, i) /\ Dispatchable(db, i) /\ Runnable(db, i)

(***************************************************************************)
(* Work whose turn is gone, with a stop, a crash or a wake-up, is taken up *)
(* again by a running dispatcher, unless its session is parked or wedged.  *)
(***************************************************************************)
StrandedWorkIsTaken ==
  \A i \in Items :
    Stranded(i) ~> ~Stranded(i) \/ sess[Owner[i]].status = "blocked" \/ Wedged(Owner[i])

=============================================================================
