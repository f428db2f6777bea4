---------------------------- MODULE ReviewCycle ----------------------------
(***************************************************************************)
(* How one delegated work item gets from "done" to "approved": its worker  *)
(* submits, a hidden report card has the worker write a handoff, the       *)
(* handoff spawns a hidden review card for the manager, and the verdict of *)
(* that card approves the item, sends it back, or is asked for again.  A   *)
(* human may decide in the review panel at any moment.                     *)
(*                                                                         *)
(* The turns of the worker and of the reviewer are claimed by the loop of  *)
(* CompanyDispatch; here a card is queued and claimed some time after it   *)
(* is spawned, since both roles serve other items too.                     *)
(***************************************************************************)
EXTENDS WorkItemPhase, Naturals, FiniteSets

CONSTANTS
  MaxSubmissions,   \* submissions of the worker (bound of the model)
  MaxReworks,       \* max_review_reworks
  MaxParseRetries   \* MAX_VERDICT_PARSE_RETRIES

ASSUME MaxSubmissionsAssumption == MaxSubmissions \in Nat \ {0}
ASSUME MaxReworksAssumption == MaxReworks \in Nat \ {0}
ASSUME MaxParseRetriesAssumption == MaxParseRetries \in Nat

VARIABLES
  child,    \* the work item under review
  report,   \* its current report card
  cards     \* its review cards, by attempt

vars == <<child, report, cards>>

\* A report spawns at most one card, and so does an unreadable verdict.
Attempts    == 1..(MaxSubmissions + MaxParseRetries)
Submissions == 0..MaxSubmissions

(***************************************************************************)
(* submission counts the times the worker finished the item; reworks,      *)
(* retries and attempt are review_rework_count,                            *)
(* review_verdict_parse_retry_count and review_attempt_count.              *)
(***************************************************************************)
Children == [ phase      : {"running", "ready_for_rework", "approved", "failed"}
                             \cup InReviewPhases,
              submission : Submissions,
              reworks    : 0..MaxReworks,
              retries    : 0..(MaxParseRetries + 1),
              attempt    : {0} \cup Attempts ]

(***************************************************************************)
(* "held": phase running, but its turn is over and its claim remains.      *)
(* queued: in the in-memory queue of the worker's session.                 *)
(***************************************************************************)
Reports == [ phase  : {"none", "ready", "running", "held", "failed", "approved"},
             queued : BOOLEAN ]

Verdicts == {"approve", "reject", "escalate", "unreadable"}

(***************************************************************************)
(* verdict: "open" until the turn of the card is over and again once the   *)
(* verdict was applied.  of: the submission whose report the card carries. *)
(* seen: the one its turn was started with.                                *)
(***************************************************************************)
Cards  == [ phase   : {"none", "ready", "running", "failed", "approved", "cancelled"},
            queued  : BOOLEAN,
            verdict : {"open"} \cup Verdicts,
            of      : Submissions,
            seen    : Submissions ]
NoCard == [phase |-> "none", queued |-> FALSE, verdict |-> "open", of |-> 0, seen |-> 0]
NewCard(n) == [phase |-> "ready", queued |-> FALSE, verdict |-> "open", of |-> n, seen |-> 0]

TypeOK ==
  /\ child \in Children
  /\ report \in Reports
  /\ cards \in [Attempts -> Cards]

Init ==
  /\ child = [phase |-> "running", submission |-> 0, reworks |-> 0,
              retries |-> 0, attempt |-> 0]
  /\ report = [phase |-> "none", queued |-> FALSE]
  /\ cards = [a \in Attempts |-> NoCard]

InReview   == child.phase \in InReviewPhases
Active(a)  == cards[a].phase \in {"ready", "running"}
Judged(a)  == cards[a].verdict # "open"
WorkerBusy == child.phase = "running" \/ report.phase = "running"

-----------------------------------------------------------------------------
(* The worker *)

WorkerClaims ==
  /\ child.phase = "ready_for_rework"
  /\ ~WorkerBusy
  /\ child' = [child EXCEPT !.phase = "running"]
  /\ UNCHANGED <<report, cards>>

(***************************************************************************)
(* _apply_done_transition: the item awaits its manager's review, and a     *)
(* report card that is still active is refreshed instead of replaced.      *)
(***************************************************************************)
WorkerSubmits ==
  /\ child.phase = "running"
  /\ child.submission < MaxSubmissions
  /\ child' = [child EXCEPT !.phase = "awaiting_manager_review",
                            !.submission = @ + 1]
  /\ report' = IF report.phase \in {"ready", "running", "held"} THEN report
               ELSE [phase |-> "ready", queued |-> FALSE]
  /\ UNCHANGED cards

WorkerFails ==
  /\ child.phase = "running"
  /\ child' = [child EXCEPT !.phase = "failed"]
  /\ UNCHANGED <<report, cards>>

(***************************************************************************)
(* A report card is queued only while its item is in review; once queued   *)
(* it is claimed whatever became of the item.                              *)
(***************************************************************************)
QueueReport ==
  /\ report.phase = "ready" /\ ~report.queued
  /\ InReview
  /\ report' = [report EXCEPT !.queued = TRUE]
  /\ UNCHANGED <<child, cards>>

ClaimReport ==
  /\ report.queued
  /\ ~WorkerBusy
  /\ report' = [phase |-> "running", queued |-> FALSE]
  /\ UNCHANGED <<child, cards>>

\* Mutant: every report and every retry adds a card.
AlwaysNewReview(c, all) ==
  /\ cards' = [all EXCEPT ![c.attempt + 1] = NewCard(c.submission)]
  /\ child' = [c EXCEPT !.attempt = @ + 1]

\* Mutant: the current card is reused although it is closed.
ReuseClosedReview(c, all) ==
  IF c.attempt > 0
    THEN /\ cards' = [all EXCEPT ![c.attempt].of = c.submission]
         /\ child' = c
    ELSE AlwaysNewReview(c, all)

(***************************************************************************)
(* _ensure_review_work_item_for_work_item: the current attempt is reused   *)
(* while it is active, its inputs refreshed; otherwise a new one is added. *)
(***************************************************************************)
EnsureReview(c, all) ==
  IF c.attempt > 0 /\ all[c.attempt].phase \in {"ready", "running"}
    THEN /\ cards' = [all EXCEPT ![c.attempt].of = c.submission]
         /\ child' = c
    ELSE /\ cards' = [all EXCEPT ![c.attempt + 1] = NewCard(c.submission)]
         /\ child' = [c EXCEPT !.attempt = @ + 1]

(***************************************************************************)
(* _apply_report_done_transition: the review card is ensured whatever the  *)
(* phase of the item, and the report card closes.                          *)
(***************************************************************************)
ReportDone ==
  /\ report.phase = "running"
  /\ EnsureReview(child, cards)
  /\ report' = [report EXCEPT !.phase = "approved"]

\* The report turn exceeds its time limit or raises.
ReportTimesOut ==
  /\ report.phase = "running"
  /\ report' = [report EXCEPT !.phase = "failed"]
  /\ UNCHANGED <<child, cards>>

\* The report turn returns without a result: no phase is written.
ReportReturnsFailure ==
  /\ report.phase = "running"
  /\ report' = [report EXCEPT !.phase = "held"]
  /\ UNCHANGED <<child, cards>>

-----------------------------------------------------------------------------
(* The reviewer *)

QueueReview(a) ==
  /\ cards[a].phase = "ready" /\ ~cards[a].queued
  /\ InReview
  /\ cards' = [cards EXCEPT ![a].queued = TRUE]
  /\ UNCHANGED <<child, report>>

\* A card whose item has left the review meanwhile is dropped from the queue.
ClaimReview(a) ==
  /\ cards[a].queued
  /\ cards' = IF InReview
                THEN [cards EXCEPT ![a] = [@ EXCEPT !.queued = FALSE,
                                                    !.phase = "running",
                                                    !.seen = cards[a].of]]
                ELSE [cards EXCEPT ![a].queued = FALSE]
  /\ UNCHANGED <<child, report>>

ReviewTurnEnds(a, verdict) ==
  /\ cards[a].phase = "running" /\ ~Judged(a)
  /\ cards' = [cards EXCEPT ![a].verdict = verdict]
  /\ UNCHANGED <<child, report>>

\* Mutant: a review turn that fails is not finalized.
ReviewTimesOutUnseen(a) ==
  /\ cards[a].phase = "running" /\ ~Judged(a)
  /\ cards' = [cards EXCEPT ![a].phase = "failed"]
  /\ UNCHANGED <<child, report>>

\* The review turn exceeds its time limit or raises, and leaves no verdict.
ReviewTimesOut(a) ==
  /\ cards[a].phase = "running" /\ ~Judged(a)
  /\ cards' = [cards EXCEPT ![a] = [@ EXCEPT !.phase = "failed",
                                             !.verdict = "unreadable"]]
  /\ UNCHANGED <<child, report>>

\* The review card closes; a card that already failed keeps its phase.
Over(k, phase) == [k EXCEPT !.phase = IF k.phase = "failed" THEN "failed" ELSE phase,
                            !.verdict = "open"]
Closed(a, phase) == [cards EXCEPT ![a] = Over(cards[a], phase)]

(***************************************************************************)
(* _finalize_review_work_item without a label to act on, which is what an  *)
(* "escalate" comes to as well: the reviewer is asked again, in whatever   *)
(* phase the item is; past the budget the item is approved.                *)
(***************************************************************************)
FinalizeUnparsed(a) ==
  /\ cards[a].verdict \in {"escalate", "unreadable"}
  /\ IF child.retries < MaxParseRetries
       THEN EnsureReview([child EXCEPT !.retries = @ + 1], Closed(a, "cancelled"))
       ELSE /\ child' = IF InReview
                          THEN [child EXCEPT !.phase = "approved",
                                             !.retries = MaxParseRetries + 1]
                          ELSE child
            /\ cards' = Closed(a, "approved")
  /\ UNCHANGED report

\* Mutant: rework is asked for without end.
RejectedAgain(c) == [c EXCEPT !.phase = "ready_for_rework", !.reworks = @ + 1]

\* At the rework cap a rejection asks the human.
Rejected(c) ==
  IF c.reworks < MaxReworks
    THEN [c EXCEPT !.phase = "ready_for_rework", !.reworks = @ + 1]
    ELSE [c EXCEPT !.phase = "awaiting_human"]

\* What a verdict makes of the item.
Decided(c, verdict) ==
  IF verdict = "approve" THEN [c EXCEPT !.phase = "approved", !.reworks = 0]
  ELSE Rejected(c)

\* Mutant: the verdict is applied in whatever phase the item is.
FinalizeLateVerdict(a) ==
  /\ cards[a].verdict \in {"approve", "reject"}
  /\ child' = Decided(child, cards[a].verdict)
  /\ cards' = Closed(a, "approved")
  /\ UNCHANGED report

(***************************************************************************)
(* _finalize_review_work_item with a label: applied to an item in review,  *)
(* dropped otherwise.                                                      *)
(***************************************************************************)
FinalizeVerdict(a) ==
  /\ cards[a].verdict \in {"approve", "reject"}
  /\ child' = IF InReview THEN Decided(child, cards[a].verdict) ELSE child
  /\ cards' = Closed(a, "approved")
  /\ UNCHANGED report

Finalize(a) == FinalizeUnparsed(a) \/ FinalizeVerdict(a)

-----------------------------------------------------------------------------
(* The human: _handle_review_decision, which leaves the cards alone *)

HumanDecides(phase) ==
  /\ InReview
  /\ child' = [child EXCEPT !.phase = phase]
  /\ UNCHANGED <<report, cards>>

-----------------------------------------------------------------------------

ReportTurnEnds == ReportDone \/ ReportTimesOut \/ ReportReturnsFailure

ReviewStep(a) ==
  \/ QueueReview(a)
  \/ ClaimReview(a)
  \/ \E v \in Verdicts : ReviewTurnEnds(a, v)
  \/ ReviewTimesOut(a)
  \/ FinalizeUnparsed(a)
  \/ FinalizeVerdict(a)

Next ==
  \/ WorkerClaims
  \/ WorkerSubmits
  \/ WorkerFails
  \/ QueueReport
  \/ ClaimReport
  \/ ReportDone
  \/ ReportTimesOut
  \/ ReportReturnsFailure
  \/ \E a \in Attempts : ReviewStep(a)
  \/ \E phase \in {"approved", "failed", "ready_for_rework"} : HumanDecides(phase)

Spec == Init /\ [][Next]_vars

(***************************************************************************)
(* The dispatcher polls, turns are limited in time, and the end of a turn  *)
(* is processed.  Nothing is assumed of the human, of what a turn returns, *)
(* or of a worker that works on.                                           *)
(***************************************************************************)
Fairness ==
  /\ WF_vars(QueueReport) /\ WF_vars(ClaimReport) /\ WF_vars(ReportTurnEnds)
  /\ \A a \in Attempts :
       /\ WF_vars(QueueReview(a)) /\ WF_vars(ClaimReview(a))
       /\ WF_vars((\E v \in Verdicts : ReviewTurnEnds(a, v)) \/ ReviewTimesOut(a))
       /\ WF_vars(Finalize(a))

FairSpec == Spec /\ Fairness

-----------------------------------------------------------------------------
(* Safety *)

(***************************************************************************)
(* At most one review card of an item can still be worked on: report       *)
(* turns, retries and late endings of a failed card all may spawn one.     *)
(***************************************************************************)
OneActiveReview == \A a, b \in Attempts : Active(a) /\ Active(b) => a = b

ReportLost == report.phase \in {"failed", "held"}

(***************************************************************************)
(* An item under its manager's review is being driven: by the report in    *)
(* the making, by a review card that is active, or by a verdict not yet    *)
(* applied.  The one exception is a report turn that failed.               *)
(***************************************************************************)
ReviewIsDriven ==
  child.phase = "awaiting_manager_review" =>
    \/ report.phase \in {"ready", "running"}
    \/ \E a \in Attempts : Active(a) \/ Judged(a)
    \/ ReportLost

(***************************************************************************)
(* A late verdict changes nothing: an item that left the review (a human   *)
(* sent it back, or it finished) gets no phase from a card that is still   *)
(* in flight, and a sent-back item reaches approval only by submitting     *)
(* anew.                                                                   *)
(***************************************************************************)
LateVerdictIsIgnored ==
  [][/\ child'.phase # child.phase /\ child'.phase # "running" =>
          child.phase \in InReviewPhases \cup {"running"}
     /\ child.phase = "running" =>
          \/ child'.phase \in {"running", "failed"}
          \/ child'.submission = child.submission + 1]_vars

(***************************************************************************)
(* A review comes to an end, whatever the reviewer answers and how often   *)
(* it times out, unless the report turn failed.                            *)
(***************************************************************************)
ReviewEnds ==
  child.phase = "awaiting_manager_review" ~>
    child.phase # "awaiting_manager_review" \/ ReportLost

-----------------------------------------------------------------------------
(* What comments, docstrings and prompts say, and the code does not do. *)

(***************************************************************************)
(* "Apply the verdict to the child work item if it is still awaiting       *)
(* review.  If the child already moved on, skip the mutation": the verdict *)
(* that moves an item was given on the submission it is applied to.  The   *)
(* code only asks whether the item is in review, and one that was sent back*)
(* and submitted again during the reviewer's turn is in review again.      *)
(***************************************************************************)
Applies(a) == Judged(a) /\ cards'[a].verdict = "open" /\ child'.phase # child.phase

VerdictJudgesItsSubmission ==
  [][\A a \in Attempts : Applies(a) => cards[a].seen = child.submission]_vars

=============================================================================
