--------------------------- MODULE WorkItemPhase ---------------------------
(***************************************************************************)
(* The work-item state machine: the fourteen phases, the sets the rest of  *)
(* the runtime tests them against, and the table of legal transitions.     *)
(*                                                                         *)
(* Every write of a phase goes through this table, with one named bypass   *)
(* (reopening approved work), see WorkItemStore.                           *)
(***************************************************************************)

Phases == { "queued", "ready", "ready_for_rework", "waiting_dependencies",
            "running", "waiting_for_peer", "waiting_for_children", "paused",
            "needs_attention", "awaiting_manager_review", "awaiting_human",
            "approved", "failed", "cancelled" }

TodoPhases == {"queued", "ready", "ready_for_rework", "waiting_dependencies"}

InProgressPhases == { "running", "waiting_for_peer", "waiting_for_children",
                      "paused", "needs_attention" }

InReviewPhases == {"awaiting_manager_review", "awaiting_human"}

DonePhases == {"approved", "failed", "cancelled"}

RunnablePhases == {"ready", "ready_for_rework"}

(***************************************************************************)
(* Phases in which an item whose claim is gone may be picked up again.     *)
(***************************************************************************)
ResumablePhases == InProgressPhases \cup InReviewPhases

UniversalExits == {"failed", "cancelled"}
RecoveryExits  == {"ready"}

(***************************************************************************)
(* The phases each phase may move to.  A write that leaves the phase alone *)
(* is legal too and is not in the table.                                   *)
(***************************************************************************)
AllowedTransitions ==
  [p \in Phases |->
     IF p \in DonePhases THEN {}
     ELSE UniversalExits \cup
          CASE p = "queued"               -> {"ready", "waiting_dependencies"}
            [] p = "waiting_dependencies" -> {"ready"}
            [] p = "ready"                -> {"running", "waiting_dependencies"}
            [] p = "ready_for_rework"     -> {"running"}
            [] p = "running" ->
                 (InProgressPhases \ {"running"}) \cup InReviewPhases
                   \cup {"approved"} \cup RecoveryExits
            [] p \in InProgressPhases \ {"running"} ->
                 {"running"} \cup RecoveryExits
            [] p = "awaiting_manager_review" ->
                 {"approved", "ready_for_rework", "awaiting_human"}
                   \cup RecoveryExits
            [] p = "awaiting_human" ->
                 {"approved", "ready_for_rework"} \cup RecoveryExits]

(***************************************************************************)
(* validate_transition accepts the write (there is a previous phase).      *)
(***************************************************************************)
Legal(previous, target) ==
  previous = target \/ target \in AllowedTransitions[previous]

\* Mutant: an approval does not recompute the frontier.
RefreshOnFailureOnly == (DonePhases \ {"approved"}) \cup {"awaiting_human", "ready_for_rework"}

(***************************************************************************)
(* Transitions whose hook recomputes the dependency frontier of the run.   *)
(***************************************************************************)
DependentRefreshTargets == DonePhases \cup {"awaiting_human", "ready_for_rework"}

=============================================================================
