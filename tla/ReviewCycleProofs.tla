------------------------- MODULE ReviewCycleProofs -------------------------
(***************************************************************************)
(* What holds of ReviewCycle for any number of submissions, rework cap and *)
(* retry budget.                                                           *)
(***************************************************************************)
EXTENDS ReviewCycle, TLAPS

(***************************************************************************)
(* Every card stems from a report that was done or from a retry, and every *)
(* report from a submission.                                               *)
(***************************************************************************)
Pending == IF report.phase \in {"ready", "running", "held"} THEN 1 ELSE 0
Retried == IF child.retries < MaxParseRetries THEN child.retries ELSE MaxParseRetries

AttemptsAccounted == child.attempt + Pending <= child.submission + Retried

\* Cards beyond the current attempt do not exist; older ones are over.
CardsInOrder ==
  \A a \in Attempts :
    /\ a > child.attempt => cards[a] = NoCard
    /\ a < child.attempt => ~Active(a)

\* A queued card has not started, and a card with a verdict has.
Sound(k) == /\ k.queued => k.phase = "ready"
            /\ k.verdict # "open" => k.phase \in {"running", "failed"}

CardsSound ==
  /\ report.queued => report.phase = "ready"
  /\ \A a \in Attempts : Sound(cards[a])

IInv == TypeOK /\ AttemptsAccounted /\ CardsInOrder /\ CardsSound /\ ReviewIsDriven

-----------------------------------------------------------------------------

LEMMA Numbers ==
  ASSUME TypeOK
  PROVE  /\ child.attempt \in 0..(MaxSubmissions + MaxParseRetries)
         /\ child.submission \in 0..MaxSubmissions
         /\ child.reworks \in 0..MaxReworks
         /\ child.retries \in 0..(MaxParseRetries + 1)
         /\ Attempts \in SUBSET Nat
  BY MaxSubmissionsAssumption, MaxReworksAssumption, MaxParseRetriesAssumption
  DEF TypeOK, Children, Attempts, Submissions

LEMMA InitIInv == Init => IInv
<1> SUFFICES ASSUME Init PROVE IInv
  OBVIOUS
<1> USE MaxSubmissionsAssumption, MaxReworksAssumption, MaxParseRetriesAssumption
<1>1. NoCard \in Cards
  BY DEF NoCard, Cards, Submissions
<1>2. child \in Children /\ report \in Reports
  BY DEF Init, Children, Reports, Submissions
<1>3. TypeOK
  BY <1>1, <1>2 DEF Init, TypeOK
<1>4. AttemptsAccounted /\ ReviewIsDriven
  BY DEF Init, AttemptsAccounted, Pending, Retried, ReviewIsDriven
<1>5. CardsInOrder /\ CardsSound
  BY DEF Init, CardsInOrder, CardsSound, Sound, NoCard, Active, Attempts
<1> QED BY <1>3, <1>4, <1>5 DEF IInv

(***************************************************************************)
(* _ensure_review_work_item_for_work_item leaves one active card, the      *)
(* current attempt, and the item's other fields as it got them.            *)
(***************************************************************************)
Spawnable(c, all) ==
  /\ c \in Children /\ all \in [Attempts -> Cards]
  /\ c.attempt + 1 \in Attempts
  /\ \A a \in Attempts : /\ a > c.attempt => all[a] = NoCard
                         /\ a < c.attempt => all[a].phase \notin {"ready", "running"}
                         /\ Sound(all[a])

LEMMA EnsureReviewSpawnsOne ==
  ASSUME NEW c, NEW all, Spawnable(c, all), EnsureReview(c, all)
  PROVE  /\ child' \in Children
         /\ cards' \in [Attempts -> Cards]
         /\ child'.attempt \in {c.attempt, c.attempt + 1}
         /\ child'.submission = c.submission /\ child'.retries = c.retries
         /\ child'.phase = c.phase
         /\ \E a \in Attempts : Active(a)'
         /\ CardsInOrder'
         /\ \A a \in Attempts : Sound(cards'[a])
<1> USE MaxSubmissionsAssumption, MaxParseRetriesAssumption
<1>0. /\ c \in Children /\ all \in [Attempts -> Cards]
      /\ c.attempt + 1 \in Attempts
      /\ \A a \in Attempts : /\ a > c.attempt => all[a] = NoCard
                             /\ a < c.attempt => all[a].phase \notin {"ready", "running"}
                             /\ Sound(all[a])
  BY DEF Spawnable
<1>1. c.attempt \in Nat /\ c.submission \in Submissions
  BY <1>0 DEF Children, Attempts
<1>2. CASE c.attempt > 0 /\ all[c.attempt].phase \in {"ready", "running"}
  <2>1. c.attempt \in Attempts
    BY <1>0, <1>2 DEF Children
  <2>2. child' = c /\ cards' = [all EXCEPT ![c.attempt].of = c.submission]
    BY <1>2 DEF EnsureReview
  <2>3. cards' \in [Attempts -> Cards]
    BY <1>0, <1>1, <2>1, <2>2 DEF Cards
  <2>4. \A a \in Attempts : /\ cards'[a].phase = all[a].phase
                            /\ cards'[a].queued = all[a].queued
                            /\ cards'[a].verdict = all[a].verdict
                            /\ a # c.attempt => cards'[a] = all[a]
    BY <1>0, <2>1, <2>2 DEF Cards
  <2>5. CardsInOrder'
    BY <1>0, <1>1, <2>2, <2>4 DEF CardsInOrder, Active, Attempts
  <2> QED
    BY <1>0, <1>2, <2>1, <2>2, <2>3, <2>4, <2>5 DEF Active, Sound
<1>3. CASE ~(c.attempt > 0 /\ all[c.attempt].phase \in {"ready", "running"})
  <2> DEFINE new == NewCard(c.submission)
  <2>1. /\ cards' = [all EXCEPT ![c.attempt + 1] = new]
        /\ child' = [c EXCEPT !.attempt = c.attempt + 1]
    BY <1>3 DEF EnsureReview
  <2>2. new \in Cards /\ new.phase = "ready" /\ Sound(new)
    BY <1>1 DEF NewCard, Cards, Submissions, Sound
  <2> HIDE DEF new
  <2>3. /\ child' \in Children /\ child'.attempt = c.attempt + 1
        /\ child'.submission = c.submission /\ child'.retries = c.retries
        /\ child'.phase = c.phase
    BY <1>0, <2>1 DEF Children
  <2>4. cards' \in [Attempts -> Cards]
    BY <1>0, <2>1, <2>2
  <2>5. /\ cards'[c.attempt + 1] = new
        /\ \A a \in Attempts : a # c.attempt + 1 => cards'[a] = all[a]
    BY <1>0, <2>1
  <2>6. \A a \in Attempts : a <= c.attempt => all[a].phase \notin {"ready", "running"}
    BY <1>0, <1>1, <1>3 DEF Attempts
  <2>7. CardsInOrder'
    BY <1>0, <1>1, <2>3, <2>5, <2>6 DEF CardsInOrder, Active, Attempts
  <2>8. \A a \in Attempts : Sound(cards'[a])
    BY <1>0, <2>2, <2>5
  <2>9. Active(c.attempt + 1)'
    BY <1>0, <2>2, <2>3, <2>5 DEF Active
  <2> QED
    BY <1>0, <2>3, <2>4, <2>7, <2>8, <2>9
<1> QED BY <1>2, <1>3

(***************************************************************************)
(* A step that replaces one existing card by a sound one, and does not     *)
(* bring it back to life, keeps the order of the cards.                    *)
(***************************************************************************)
LEMMA CardStep ==
  ASSUME TypeOK, CardsInOrder, CardsSound,
         NEW a \in Attempts, cards[a].phase # "none",
         NEW k \in Cards, Sound(k),
         k.phase \in {"ready", "running"} => Active(a),
         cards' = [cards EXCEPT ![a] = k],
         child'.attempt = child.attempt
  PROVE  /\ cards' \in [Attempts -> Cards]
         /\ CardsInOrder'
         /\ \A b \in Attempts : Sound(cards'[b])
<1>1. cards' \in [Attempts -> Cards]
  BY DEF TypeOK
<1>2. cards'[a] = k /\ \A b \in Attempts : b # a => cards'[b] = cards[b]
  BY DEF TypeOK
<1>3. CardsInOrder'
  BY <1>2 DEF CardsInOrder, Active, NoCard
<1> QED BY <1>1, <1>2, <1>3 DEF CardsSound

\* A step that leaves the review cards and the attempt counter alone.
LEMMA NoCardStep ==
  ASSUME IInv, UNCHANGED cards, child' \in Children, child'.attempt = child.attempt,
         report' \in Reports, report'.queued => report'.phase = "ready",
         AttemptsAccounted', ReviewIsDriven'
  PROVE  IInv'
<1>1. TypeOK'
  BY DEF IInv, TypeOK
<1>2. CardsInOrder' /\ CardsSound'
  BY DEF IInv, CardsInOrder, CardsSound, Active
<1> QED BY <1>1, <1>2 DEF IInv

\* A step of review card a alone: k is what becomes of the card.
LEMMA ReviewCardStep ==
  ASSUME IInv, UNCHANGED <<child, report>>,
         NEW a \in Attempts, cards[a].phase # "none",
         NEW k \in Cards, Sound(k),
         k.phase \in {"ready", "running"} => Active(a),
         k.phase \in {"ready", "running"} \/ k.verdict # "open",
         cards' = [cards EXCEPT ![a] = k]
  PROVE  IInv'
<1>1. /\ cards' \in [Attempts -> Cards]
      /\ CardsInOrder'
      /\ \A b \in Attempts : Sound(cards'[b])
  BY CardStep DEF IInv
<1>2. TypeOK' /\ AttemptsAccounted' /\ CardsSound'
  BY <1>1 DEF IInv, TypeOK, AttemptsAccounted, Pending, Retried, CardsSound
<1>3. cards'[a] = k
  BY DEF IInv, TypeOK
<1>4. ReviewIsDriven'
  BY <1>3 DEF IInv, ReviewIsDriven, ReportLost, Active, Judged
<1> QED BY <1>1, <1>2, <1>4 DEF IInv

(***************************************************************************)
(* A card with a verdict closes: it is over and its verdict is gone.       *)
(***************************************************************************)
LEMMA ClosedCard ==
  ASSUME IInv, NEW a \in Attempts, Judged(a), NEW p \in {"approved", "cancelled"}
  PROVE  /\ cards[a].phase \in {"running", "failed"}
         /\ Closed(a, p) \in [Attempts -> Cards]
         /\ Closed(a, p)[a].phase \notin {"ready", "running"}
         /\ Sound(Closed(a, p)[a])
         /\ \A b \in Attempts : b # a => Closed(a, p)[b] = cards[b]
<1> DEFINE k == Over(cards[a], p)
<1>1. cards[a] \in Cards /\ Sound(cards[a]) /\ cards \in [Attempts -> Cards]
  BY DEF IInv, TypeOK, CardsSound
<1>2. cards[a].phase \in {"running", "failed"} /\ ~cards[a].queued
  BY <1>1 DEF Judged, Sound, Cards
<1>3. Closed(a, p) = [cards EXCEPT ![a] = k]
  BY <1>1 DEF Closed
<1>4. k \in Cards /\ k.phase \notin {"ready", "running"} /\ Sound(k)
  BY <1>1, <1>2 DEF Over, Cards, Sound
<1> HIDE DEF k
<1> QED BY <1>1, <1>2, <1>3, <1>4

(***************************************************************************)
(* A verdict that is applied, or dropped, closes its card; the item is not *)
(* in its manager's review afterwards.                                     *)
(***************************************************************************)
LEMMA VerdictStep ==
  ASSUME IInv, NEW a \in Attempts, Judged(a), cards' = Closed(a, "approved"),
         UNCHANGED report, child' \in Children, child'.attempt = child.attempt,
         child'.phase # "awaiting_manager_review", AttemptsAccounted'
  PROVE  IInv'
<1>1. /\ cards' \in [Attempts -> Cards]
      /\ \A b \in Attempts : b # a => cards'[b] = cards[b]
      /\ Sound(cards'[a]) /\ cards'[a].phase \notin {"ready", "running"}
      /\ cards[a] # NoCard
  BY ClosedCard DEF NoCard
<1>2. TypeOK'
  BY <1>1 DEF IInv, TypeOK
<1>3. CardsInOrder'
  BY <1>1 DEF IInv, CardsInOrder, Active
<1>4. CardsSound'
  BY <1>1 DEF IInv, CardsSound
<1>5. ReviewIsDriven'
  BY DEF ReviewIsDriven
<1> QED BY <1>2, <1>3, <1>4, <1>5 DEF IInv

-----------------------------------------------------------------------------

(***************************************************************************)
(* The invariant is inductive: one step per action.                        *)
(***************************************************************************)
LEMMA StepIInv == IInv /\ [Next]_vars => IInv'
<1> SUFFICES ASSUME IInv, [Next]_vars PROVE IInv'
  OBVIOUS
<1> USE MaxSubmissionsAssumption, MaxReworksAssumption, MaxParseRetriesAssumption
<1>a. /\ child \in Children /\ report \in Reports /\ cards \in [Attempts -> Cards]
      /\ child.attempt \in Nat /\ child.submission \in Nat /\ child.retries \in Nat
  BY Numbers DEF IInv, TypeOK
<1>b. report.queued => report.phase = "ready"
  BY DEF IInv, CardsSound
<1>c. AttemptsAccounted
  BY DEF IInv
<1>d. ReviewIsDriven
  BY DEF IInv
<1>1. CASE UNCHANGED vars
  BY <1>1 DEF vars, IInv, TypeOK, AttemptsAccounted, Pending, Retried, CardsInOrder,
              CardsSound, ReviewIsDriven, ReportLost, Active, Judged
<1>2. CASE WorkerClaims
  <2>1. child' \in Children /\ child'.attempt = child.attempt /\ child'.phase = "running"
        /\ child'.submission = child.submission /\ child'.retries = child.retries
    BY <1>2, <1>a DEF WorkerClaims, Children, InReviewPhases
  <2>2. report' \in Reports /\ (report'.queued => report'.phase = "ready")
    BY <1>2, <1>a, <1>b DEF WorkerClaims, Reports
  <2>3. AttemptsAccounted'
    BY <1>2, <1>a, <1>b, <1>c, <2>1
    DEF WorkerClaims, AttemptsAccounted, Pending, Retried, Reports
  <2>4. ReviewIsDriven'
    BY <1>2, <1>a, <1>d, <2>1 DEF WorkerClaims, ReviewIsDriven, ReportLost, Active, Judged, Reports
  <2> QED BY <1>2, <2>1, <2>2, <2>3, <2>4, NoCardStep DEF WorkerClaims
<1>3. CASE WorkerSubmits
  <2>1. child.submission + 1 \in Submissions
    BY <1>3, <1>a DEF WorkerSubmits, Submissions
  <2>2. /\ child' \in Children /\ child'.attempt = child.attempt
        /\ child'.submission = child.submission + 1 /\ child'.retries = child.retries
    BY <1>3, <1>a, <2>1 DEF WorkerSubmits, Children, InReviewPhases
  <2>3. /\ report' \in Reports /\ (report'.queued => report'.phase = "ready")
        /\ report'.phase \in {"ready", "running", "held"}
    BY <1>3, <1>a, <1>b DEF WorkerSubmits, Reports
  <2>4. AttemptsAccounted'
    BY <1>a, <1>c, <2>2, <2>3 DEF AttemptsAccounted, Pending, Retried
  <2>5. ReviewIsDriven'
    BY <2>3 DEF ReviewIsDriven, ReportLost
  <2> QED BY <1>3, <2>2, <2>3, <2>4, <2>5, NoCardStep DEF WorkerSubmits
<1>4. CASE WorkerFails
  <2>1. child' \in Children /\ child'.attempt = child.attempt /\ child'.phase = "failed"
        /\ child'.submission = child.submission /\ child'.retries = child.retries
    BY <1>4, <1>a DEF WorkerFails, Children, InReviewPhases
  <2>2. report' \in Reports /\ (report'.queued => report'.phase = "ready")
    BY <1>4, <1>a, <1>b DEF WorkerFails, Reports
  <2>3. AttemptsAccounted'
    BY <1>4, <1>a, <1>b, <1>c, <2>1
    DEF WorkerFails, AttemptsAccounted, Pending, Retried, Reports
  <2>4. ReviewIsDriven'
    BY <1>4, <1>a, <1>d, <2>1 DEF WorkerFails, ReviewIsDriven, ReportLost, Active, Judged, Reports
  <2> QED BY <1>4, <2>1, <2>2, <2>3, <2>4, NoCardStep DEF WorkerFails
<1>5. CASE QueueReport
  <2>1. child' \in Children /\ child'.attempt = child.attempt /\ child'.phase = child.phase
        /\ child'.submission = child.submission /\ child'.retries = child.retries
    BY <1>5, <1>a DEF QueueReport, Children
  <2>2. report' \in Reports /\ (report'.queued => report'.phase = "ready")
    BY <1>5, <1>a, <1>b DEF QueueReport, Reports
  <2>3. AttemptsAccounted'
    BY <1>5, <1>a, <1>b, <1>c, <2>1
    DEF QueueReport, AttemptsAccounted, Pending, Retried, Reports
  <2>4. ReviewIsDriven'
    BY <1>5, <1>a, <1>d, <2>1 DEF QueueReport, ReviewIsDriven, ReportLost, Active, Judged, Reports
  <2> QED BY <1>5, <2>1, <2>2, <2>3, <2>4, NoCardStep DEF QueueReport
<1>6. CASE ClaimReport
  <2>1. child' \in Children /\ child'.attempt = child.attempt /\ child'.phase = child.phase
        /\ child'.submission = child.submission /\ child'.retries = child.retries
    BY <1>6, <1>a DEF ClaimReport, Children
  <2>2. report' \in Reports /\ (report'.queued => report'.phase = "ready")
    BY <1>6, <1>a, <1>b DEF ClaimReport, Reports
  <2>3. AttemptsAccounted'
    BY <1>6, <1>a, <1>b, <1>c, <2>1
    DEF ClaimReport, AttemptsAccounted, Pending, Retried, Reports
  <2>4. ReviewIsDriven'
    BY <1>6, <1>a, <1>d, <2>1 DEF ClaimReport, ReviewIsDriven, ReportLost, Active, Judged, Reports
  <2> QED BY <1>6, <2>1, <2>2, <2>3, <2>4, NoCardStep DEF ClaimReport
<1>7. CASE ReportTimesOut
  <2>1. child' \in Children /\ child'.attempt = child.attempt /\ child'.phase = child.phase
        /\ child'.submission = child.submission /\ child'.retries = child.retries
    BY <1>7, <1>a DEF ReportTimesOut, Children
  <2>2. report' \in Reports /\ (report'.queued => report'.phase = "ready")
    BY <1>7, <1>a, <1>b DEF ReportTimesOut, Reports
  <2>3. AttemptsAccounted'
    BY <1>7, <1>a, <1>b, <1>c, <2>1
    DEF ReportTimesOut, AttemptsAccounted, Pending, Retried, Reports
  <2>4. ReviewIsDriven'
    BY <1>7, <1>a, <1>d, <2>1 DEF ReportTimesOut, ReviewIsDriven, ReportLost, Active, Judged, Reports
  <2> QED BY <1>7, <2>1, <2>2, <2>3, <2>4, NoCardStep DEF ReportTimesOut
<1>8. CASE ReportReturnsFailure
  <2>1. child' \in Children /\ child'.attempt = child.attempt /\ child'.phase = child.phase
        /\ child'.submission = child.submission /\ child'.retries = child.retries
    BY <1>8, <1>a DEF ReportReturnsFailure, Children
  <2>2. report' \in Reports /\ (report'.queued => report'.phase = "ready")
    BY <1>8, <1>a, <1>b DEF ReportReturnsFailure, Reports
  <2>3. AttemptsAccounted'
    BY <1>8, <1>a, <1>b, <1>c, <2>1
    DEF ReportReturnsFailure, AttemptsAccounted, Pending, Retried, Reports
  <2>4. ReviewIsDriven'
    BY <1>8, <1>a, <1>d, <2>1 DEF ReportReturnsFailure, ReviewIsDriven, ReportLost, Active, Judged, Reports
  <2> QED BY <1>8, <2>1, <2>2, <2>3, <2>4, NoCardStep DEF ReportReturnsFailure
<1>9. CASE ReportDone
  <2>1. /\ report.phase = "running" /\ EnsureReview(child, cards)
        /\ report' = [report EXCEPT !.phase = "approved"]
    BY <1>9 DEF ReportDone
  <2>2. child.attempt + 1 \in Attempts
    BY <1>a, <1>c, <2>1, Numbers DEF IInv, AttemptsAccounted, Pending, Retried, Attempts
  <2>3. /\ child' \in Children
        /\ cards' \in [Attempts -> Cards]
        /\ child'.attempt \in {child.attempt, child.attempt + 1}
        /\ child'.submission = child.submission /\ child'.retries = child.retries
        /\ child'.phase = child.phase
        /\ \E a \in Attempts : Active(a)'
        /\ CardsInOrder'
        /\ \A a \in Attempts : Sound(cards'[a])
    <3>1. Spawnable(child, cards)
      BY <1>a, <2>2 DEF Spawnable, IInv, CardsInOrder, CardsSound, Active
    <3> QED BY <2>1, <3>1, EnsureReviewSpawnsOne
  <2>4. report' \in Reports /\ report'.phase = "approved" /\ ~report'.queued
    BY <1>a, <1>b, <2>1 DEF Reports
  <2>5. TypeOK'
    BY <2>3, <2>4 DEF TypeOK
  <2>6. AttemptsAccounted'
    BY <1>a, <1>c, <2>1, <2>3, <2>4 DEF AttemptsAccounted, Pending, Retried
  <2> QED
    BY <2>3, <2>4, <2>5, <2>6 DEF IInv, CardsSound, ReviewIsDriven
<1>10. ASSUME NEW a \in Attempts, QueueReview(a) PROVE IInv'
  <2> DEFINE k == [cards[a] EXCEPT !.queued = TRUE]
  <2>1. cards[a] \in Cards /\ Sound(cards[a])
    BY DEF IInv, TypeOK, CardsSound
  <2>2. /\ cards[a].phase = "ready"
        /\ cards' = [cards EXCEPT ![a] = k] /\ UNCHANGED <<child, report>>
    BY <1>10, <1>a DEF QueueReview, Judged
  <2>3. k \in Cards /\ Sound(k) /\ (k.phase \in {"ready", "running"} \/ k.verdict # "open")
    BY <1>10, <2>1, <2>2 DEF Cards, Sound, Verdicts
  <2>4. k.phase \in {"ready", "running"} => Active(a)
    BY <2>1, <2>2 DEF Cards, Active, Sound
  <2> HIDE DEF k
  <2> QED BY <2>2, <2>3, <2>4, ReviewCardStep
<1>11. ASSUME NEW a \in Attempts, ClaimReview(a) PROVE IInv'
  <2> DEFINE k == IF InReview
                  THEN [cards[a] EXCEPT !.queued = FALSE, !.phase = "running",
                                        !.seen = cards[a].of]
                  ELSE [cards[a] EXCEPT !.queued = FALSE]
  <2>1. cards[a] \in Cards /\ Sound(cards[a])
    BY DEF IInv, TypeOK, CardsSound
  <2>2. /\ cards[a].phase = "ready"
        /\ cards' = [cards EXCEPT ![a] = k] /\ UNCHANGED <<child, report>>
    BY <1>11, <1>a, <2>1 DEF ClaimReview, Sound, Judged
  <2>3. k \in Cards /\ Sound(k) /\ (k.phase \in {"ready", "running"} \/ k.verdict # "open")
    BY <1>11, <2>1, <2>2 DEF Cards, Sound, Verdicts
  <2>4. k.phase \in {"ready", "running"} => Active(a)
    BY <2>1, <2>2 DEF Cards, Active, Sound
  <2> HIDE DEF k
  <2> QED BY <2>2, <2>3, <2>4, ReviewCardStep
<1>12. ASSUME NEW a \in Attempts, NEW v \in Verdicts, ReviewTurnEnds(a, v) PROVE IInv'
  <2> DEFINE k == [cards[a] EXCEPT !.verdict = v]
  <2>1. cards[a] \in Cards /\ Sound(cards[a])
    BY DEF IInv, TypeOK, CardsSound
  <2>2. /\ cards[a].phase = "running"
        /\ cards' = [cards EXCEPT ![a] = k] /\ UNCHANGED <<child, report>>
    BY <1>12, <1>a DEF ReviewTurnEnds, Judged
  <2>3. k \in Cards /\ Sound(k) /\ (k.phase \in {"ready", "running"} \/ k.verdict # "open")
    BY <1>12, <2>1, <2>2 DEF Cards, Sound, Verdicts
  <2>4. k.phase \in {"ready", "running"} => Active(a)
    BY <2>1, <2>2 DEF Cards, Active, Sound
  <2> HIDE DEF k
  <2> QED BY <2>2, <2>3, <2>4, ReviewCardStep
<1>13. ASSUME NEW a \in Attempts, ReviewTimesOut(a) PROVE IInv'
  <2> DEFINE k == [cards[a] EXCEPT !.phase = "failed", !.verdict = "unreadable"]
  <2>1. cards[a] \in Cards /\ Sound(cards[a])
    BY DEF IInv, TypeOK, CardsSound
  <2>2. /\ cards[a].phase = "running"
        /\ cards' = [cards EXCEPT ![a] = k] /\ UNCHANGED <<child, report>>
    BY <1>13, <1>a DEF ReviewTimesOut, Judged
  <2>3. k \in Cards /\ Sound(k) /\ (k.phase \in {"ready", "running"} \/ k.verdict # "open")
    BY <1>13, <2>1, <2>2 DEF Cards, Sound, Verdicts
  <2>4. k.phase \in {"ready", "running"} => Active(a)
    BY <2>1, <2>2 DEF Cards, Active, Sound
  <2> HIDE DEF k
  <2> QED BY <2>2, <2>3, <2>4, ReviewCardStep
<1>14. ASSUME NEW a \in Attempts, FinalizeUnparsed(a) PROVE IInv'
  <2>1. Judged(a) /\ UNCHANGED report
    BY <1>14 DEF FinalizeUnparsed, Judged
  <2>2. CASE child.retries < MaxParseRetries
    <3> DEFINE c == [child EXCEPT !.retries = @ + 1]
               all == Closed(a, "cancelled")
    <3>1. EnsureReview(c, all)
      BY <1>14, <2>2 DEF FinalizeUnparsed
    <3>2. child.retries + 1 \in 0..(MaxParseRetries + 1)
      BY <1>a, <2>2
    <3>3. /\ c \in Children /\ c.attempt = child.attempt /\ c.phase = child.phase
          /\ c.submission = child.submission /\ c.retries = child.retries + 1
      BY <1>a, <3>2 DEF Children
    <3>4. /\ all \in [Attempts -> Cards]
          /\ all[a].phase \notin {"ready", "running"}
          /\ Sound(all[a])
          /\ \A b \in Attempts : b # a => all[b] = cards[b]
          /\ cards[a] # NoCard
      BY <2>1, ClosedCard DEF NoCard
    <3> HIDE DEF c, all
    <3>5. c.attempt + 1 \in Attempts
      <4>1. child.attempt + 1 \in Attempts
        BY <1>a, <1>c, <2>2, Numbers
        DEF IInv, AttemptsAccounted, Pending, Retried, Attempts
      <4> QED BY <3>3, <4>1
    <3>6. \A b \in Attempts : /\ b > c.attempt => all[b] = NoCard
                              /\ b < c.attempt => all[b].phase \notin {"ready", "running"}
                              /\ Sound(all[b])
      BY <3>3, <3>4 DEF IInv, CardsInOrder, CardsSound, Active
    <3>7. /\ child' \in Children
          /\ cards' \in [Attempts -> Cards]
          /\ child'.attempt \in {c.attempt, c.attempt + 1}
          /\ child'.submission = c.submission /\ child'.retries = c.retries
          /\ \E b \in Attempts : Active(b)'
          /\ CardsInOrder'
          /\ \A b \in Attempts : Sound(cards'[b])
      <4>1. Spawnable(c, all)
        BY <3>3, <3>4, <3>5, <3>6 DEF Spawnable
      <4> QED BY <3>1, <4>1, EnsureReviewSpawnsOne
    <3>8. AttemptsAccounted'
      BY <1>a, <1>c, <2>1, <2>2, <3>3, <3>7 DEF AttemptsAccounted, Pending, Retried
    <3> QED
      BY <1>a, <1>b, <2>1, <3>7, <3>8 DEF IInv, TypeOK, CardsSound, ReviewIsDriven
  <2>3. CASE ~(child.retries < MaxParseRetries)
    <3>1. /\ cards' = Closed(a, "approved")
          /\ child' = IF InReview
                        THEN [child EXCEPT !.phase = "approved",
                                           !.retries = MaxParseRetries + 1]
                        ELSE child
      BY <1>14, <2>3 DEF FinalizeUnparsed
    <3>2. /\ child' \in Children /\ child'.attempt = child.attempt
          /\ child'.submission = child.submission
          /\ child'.retries \in {child.retries, MaxParseRetries + 1}
          /\ child'.phase # "awaiting_manager_review"
      <4>1. MaxParseRetries + 1 \in 0..(MaxParseRetries + 1)
        OBVIOUS
      <4>2. CASE InReview
        <5>1. child' = [child EXCEPT !.phase = "approved", !.retries = MaxParseRetries + 1]
          BY <3>1, <4>2
        <5> QED BY <1>a, <4>1, <5>1 DEF Children
      <4>3. CASE ~InReview
        BY <1>a, <3>1, <4>3 DEF InReview, InReviewPhases
      <4> QED BY <4>2, <4>3
    <3>3. AttemptsAccounted'
      BY <1>a, <1>c, <2>1, <2>3, <3>2 DEF AttemptsAccounted, Pending, Retried
    <3> QED BY <2>1, <3>1, <3>2, <3>3, VerdictStep
  <2> QED BY <2>2, <2>3
<1>15. ASSUME NEW a \in Attempts, FinalizeVerdict(a) PROVE IInv'
  <2>1. Judged(a) /\ UNCHANGED report /\ cards' = Closed(a, "approved")
    BY <1>15 DEF FinalizeVerdict, Judged
  <2>2. child.reworks < MaxReworks => child.reworks + 1 \in 0..MaxReworks
    BY Numbers DEF IInv
  <2>3. /\ child' \in Children /\ child'.attempt = child.attempt
        /\ child'.submission = child.submission /\ child'.retries = child.retries
        /\ child'.phase # "awaiting_manager_review"
    <3>1. CASE ~InReview
      BY <1>15, <1>a, <3>1 DEF FinalizeVerdict, InReview, InReviewPhases
    <3>2. CASE InReview /\ cards[a].verdict = "approve"
      <4>1. child' = [child EXCEPT !.phase = "approved", !.reworks = 0]
        BY <1>15, <3>2 DEF FinalizeVerdict, Decided, Rejected
      <4>2. 0 \in 0..MaxReworks
        OBVIOUS
      <4> QED BY <1>a, <4>1, <4>2 DEF Children
    <3>3. CASE InReview /\ cards[a].verdict # "approve" /\ child.reworks < MaxReworks
      <4>1. child' = [child EXCEPT !.phase = "ready_for_rework",
                                   !.reworks = child.reworks + 1]
        BY <1>15, <3>3 DEF FinalizeVerdict, Decided, Rejected
      <4> QED BY <1>a, <2>2, <3>3, <4>1 DEF Children
    <3>4. CASE InReview /\ cards[a].verdict # "approve" /\ ~(child.reworks < MaxReworks)
      <4>1. child' = [child EXCEPT !.phase = "awaiting_human"]
        BY <1>15, <3>4 DEF FinalizeVerdict, Decided, Rejected
      <4> QED BY <1>a, <4>1 DEF Children, InReviewPhases
    <3> QED BY <3>1, <3>2, <3>3, <3>4
  <2>4. AttemptsAccounted'
    BY <1>c, <2>1, <2>3 DEF AttemptsAccounted, Pending, Retried
  <2> QED BY <2>1, <2>3, <2>4, VerdictStep
<1>16. ASSUME NEW p \in {"approved", "failed", "ready_for_rework"}, HumanDecides(p)
       PROVE  IInv'
  <2>1. /\ child' \in Children /\ child'.attempt = child.attempt
        /\ child'.phase # "awaiting_manager_review"
        /\ child'.submission = child.submission /\ child'.retries = child.retries
    BY <1>16, <1>a DEF HumanDecides, Children
  <2>2. UNCHANGED <<report, cards>>
    BY <1>16 DEF HumanDecides
  <2>3. AttemptsAccounted' /\ ReviewIsDriven'
    BY <1>c, <2>1, <2>2 DEF AttemptsAccounted, Pending, Retried, ReviewIsDriven
  <2> QED BY <1>a, <1>b, <2>1, <2>2, <2>3, NoCardStep
<1> QED
  BY <1>1, <1>2, <1>3, <1>4, <1>5, <1>6, <1>7, <1>8, <1>9, <1>10, <1>11, <1>12, <1>13,
     <1>14, <1>15, <1>16
  DEF Next, ReviewStep

-----------------------------------------------------------------------------

(***************************************************************************)
(* Type correctness; the bound on the attempts is never what stops a card  *)
(* from being spawned: attempts are paid for by submissions and retries.   *)
(***************************************************************************)
THEOREM InductiveInvariant == Spec => []IInv
<1>1. Init => IInv
  BY InitIInv
<1>2. IInv /\ [Next]_vars => IInv'
  BY StepIInv
<1> QED BY <1>1, <1>2, PTL DEF Spec

THEOREM TypeCorrect == Spec => []TypeOK
<1>1. IInv => TypeOK
  BY DEF IInv
<1> QED BY <1>1, InductiveInvariant, PTL

(***************************************************************************)
(* At most one review card of an item can be worked on.                    *)
(***************************************************************************)
THEOREM OneReviewAtATime == Spec => []OneActiveReview
<1>1. IInv => OneActiveReview
  <2> SUFFICES ASSUME IInv, NEW a \in Attempts, NEW b \in Attempts, Active(a), Active(b)
               PROVE  a = b
    BY DEF OneActiveReview
  <2>1. \A c \in Attempts : Active(c) => c = child.attempt
    BY Numbers DEF IInv, CardsInOrder, Active, NoCard
  <2> QED BY <2>1
<1> QED BY <1>1, InductiveInvariant, PTL

(***************************************************************************)
(* An item under review is driven by a report, a card or a verdict, unless *)
(* its report turn failed.                                                 *)
(***************************************************************************)
THEOREM ReviewAlwaysDriven == Spec => []ReviewIsDriven
<1>1. IInv => ReviewIsDriven
  BY DEF IInv
<1> QED BY <1>1, InductiveInvariant, PTL

(***************************************************************************)
(* Whatever the cards in flight, an item that is not in review changes its *)
(* phase only by being claimed for rework or by its own turn, and the turn *)
(* puts it in review only as a new submission.                             *)
(***************************************************************************)
LateVerdictStep ==
  /\ child'.phase # child.phase /\ child'.phase # "running" =>
       child.phase \in InReviewPhases \cup {"running"}
  /\ child.phase = "running" =>
       \/ child'.phase \in {"running", "failed"}
       \/ child'.submission = child.submission + 1

\* Ensuring a review card leaves the phase of the item as it is given.
LEMMA EnsureReviewKeepsPhase ==
  ASSUME NEW c \in Children, NEW all, EnsureReview(c, all)
  PROVE  child'.phase = c.phase
<1>1. CASE c.attempt > 0 /\ all[c.attempt].phase \in {"ready", "running"}
  BY <1>1 DEF EnsureReview
<1>2. CASE ~(c.attempt > 0 /\ all[c.attempt].phase \in {"ready", "running"})
  <2>1. child' = [c EXCEPT !.attempt = c.attempt + 1]
    BY <1>2 DEF EnsureReview
  <2> QED BY <2>1 DEF Children
<1> QED BY <1>1, <1>2

THEOREM LateVerdicts == Spec => LateVerdictIsIgnored
<1>1. IInv /\ [Next]_vars => [LateVerdictStep]_vars
  <2> SUFFICES ASSUME IInv, Next PROVE LateVerdictStep
    OBVIOUS
  <2> DEFINE Same == child'.phase = child.phase
  <2>0. child \in Children
    BY DEF IInv, TypeOK
  <2>1. Same => LateVerdictStep
    BY DEF LateVerdictStep
  <2>2. InReview => LateVerdictStep
    BY DEF LateVerdictStep, InReview, InReviewPhases
  <2>3. CASE WorkerClaims \/ WorkerSubmits \/ WorkerFails
    BY <2>0, <2>3
    DEF WorkerClaims, WorkerSubmits, WorkerFails, LateVerdictStep, Children
  <2>4. CASE QueueReport \/ ClaimReport \/ ReportTimesOut \/ ReportReturnsFailure
    BY <2>1, <2>4 DEF QueueReport, ClaimReport, ReportTimesOut, ReportReturnsFailure
  <2>5. CASE ReportDone
    BY <2>0, <2>1, <2>5, EnsureReviewKeepsPhase DEF ReportDone
  <2>6. ASSUME NEW a \in Attempts, ReviewStep(a) PROVE LateVerdictStep
    <3>1. CASE QueueReview(a) \/ ClaimReview(a) \/ ReviewTimesOut(a)
               \/ \E v \in Verdicts : ReviewTurnEnds(a, v)
      BY <2>1, <3>1 DEF QueueReview, ClaimReview, ReviewTimesOut, ReviewTurnEnds
    <3>2. CASE FinalizeVerdict(a)
      BY <2>1, <2>2, <3>2 DEF FinalizeVerdict
    <3>3. CASE FinalizeUnparsed(a) /\ ~(child.retries < MaxParseRetries)
      BY <2>1, <2>2, <3>3 DEF FinalizeUnparsed
    <3>4. CASE FinalizeUnparsed(a) /\ child.retries < MaxParseRetries
      <4> DEFINE c == [child EXCEPT !.retries = @ + 1]
      <4>1. EnsureReview(c, Closed(a, "cancelled"))
        BY <3>4 DEF FinalizeUnparsed
      <4>2. child.retries + 1 \in 0..(MaxParseRetries + 1)
        BY <3>4, Numbers, MaxParseRetriesAssumption DEF IInv
      <4>3. c \in Children /\ c.phase = child.phase
        BY <2>0, <4>2 DEF Children
      <4> HIDE DEF c
      <4> QED BY <2>1, <4>1, <4>3, EnsureReviewKeepsPhase
    <3> QED BY <2>6, <3>1, <3>2, <3>3, <3>4 DEF ReviewStep
  <2>7. ASSUME NEW p \in {"approved", "failed", "ready_for_rework"}, HumanDecides(p)
        PROVE  LateVerdictStep
    BY <2>2, <2>7 DEF HumanDecides
  <2> QED BY <2>3, <2>4, <2>5, <2>6, <2>7 DEF Next
<1>2. [][LateVerdictStep]_vars => LateVerdictIsIgnored
  BY DEF LateVerdictIsIgnored, LateVerdictStep
<1> QED BY <1>1, <1>2, InductiveInvariant, PTL DEF Spec

=============================================================================
