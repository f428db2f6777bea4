------------------------- MODULE SessionTaskProofs -------------------------
(***************************************************************************)
(* What a session promises for every number of messages, runs, stops and   *)
(* restarts: messages do not overlap before one has queued, the task is    *)
(* not left running, and a stop that cuts nothing short leaves it to be    *)
(* resumed.                                                                *)
(***************************************************************************)
EXTENDS SessionTask, SequenceLemmas, TLAPS

\* Between taking the lock and taking it out of the dictionary.
Open == Holding \ {"closed"}

\* Places from which a coroutine still writes the row, or has failed to.
WillWrite == InEngine \cup {"opening", "raised", "tail", "broken"}

Places == InFlight \cup {"unsent", "over", "broken"}

Shape ==
  /\ pc \in [Messages -> Places]
  /\ lockOf \in [Messages -> Messages \cup {NoOne}]
  /\ taskLock \in Messages \cup {NoOne}
  /\ holder \in (Messages \ Runs) \cup {NoOne}
  /\ cancelled \subseteq Messages \ Runs
  /\ \A m \in cancelled : pc[m] \in InFlight

\* Whoever is open holds the session's lock, alone, and no dead holder is
\* registered beside it.
OpenAlone ==
  /\ \A m \in Messages : pc[m] # "waiting"
  /\ line = << >>
  /\ \A m \in Messages : pc[m] \in Open =>
       lockOf[m] = taskLock /\ taskLock # NoOne /\ ~HolderDied
  /\ \A m, k \in Messages : pc[m] \in Open /\ pc[k] \in Open => m = k
  /\ holder # NoOne => pc[holder] \in Open \cup {"over"}
  /\ \A m \in cancelled : pc[m] \in Open => stopFlag

RowIsOwed == row = "running" => \E m \in Messages \ cancelled : pc[m] \in WillWrite

RowNotCancelled == ~cut /\ ~queued => row # "cancelled"

SInv == Shape /\ (~queued => OpenAlone) /\ RowIsOwed /\ RowNotCancelled

\* The line holds the coroutines that wait for a lock, each of them once.
WaitersInLine ==
  /\ line \in Seq(Messages) /\ IsInjective(line)
  /\ \A m \in Messages : pc[m] = "waiting" <=> \E i \in DOMAIN line : line[i] = m

\* The types of what the coroutines do not depend on.
RowTypes ==
  /\ row \in Rows
  /\ stops \in 0..MaxStops /\ restarts \in 0..MaxRestarts
  /\ stopFlag \in BOOLEAN /\ queued \in BOOLEAN /\ cut \in BOOLEAN

-----------------------------------------------------------------------------

LEMMA InitSInv == Init => SInv
<1> SUFFICES ASSUME Init PROVE SInv
  OBVIOUS
<1>1. Shape
  BY DEF Init, Shape, Places
<1>2. OpenAlone
  BY DEF Init, OpenAlone, Open, Holding, InEngine, Executing
<1> QED BY <1>1, <1>2 DEF Init, SInv, RowIsOwed, RowNotCancelled

LEMMA ShapeStep == Shape /\ [Next]_vars => Shape'
<1> SUFFICES ASSUME Shape, [Next]_vars PROVE Shape'
  OBVIOUS
<1> USE NoOneAssumption, RunsAssumption
    DEF Shape, Places, InFlight, Holding, InEngine, Executing
<1>1. ASSUME NEW m \in Messages, Send(m) PROVE Shape'
  BY <1>1 DEF Send, Enter, LockFor, HolderDied
<1>2. ASSUME NEW m \in Messages, Acquire(m) PROVE Shape'
  BY <1>2 DEF Acquire, Enter
<1>3. ASSUME NEW m \in Messages, Begin(m) PROVE Shape'
  BY <1>3 DEF Begin, Moves, lockVars
<1>4. ASSUME NEW m \in Messages, Execute(m) PROVE Shape'
  BY <1>4 DEF Execute, Moves, lockVars
<1>5. ASSUME NEW m \in Messages, Retry(m) PROVE Shape'
  BY <1>5 DEF Retry, Moves, lockVars
<1>6. ASSUME NEW m \in Messages, Settle(m) PROVE Shape'
  BY <1>6 DEF Settle, Moves, lockVars
<1>7. ASSUME NEW m \in Messages, Returns(m) PROVE Shape'
  BY <1>7 DEF Returns, Moves, lockVars
<1>8. ASSUME NEW m \in Messages, Close(m) PROVE Shape'
  BY <1>8 DEF Close, Moves, lockVars
<1>9. ASSUME NEW m \in Messages, Raises(m) PROVE Shape'
  BY <1>9 DEF Raises, Moves, lockVars
<1>10. ASSUME NEW m \in Messages, MarkFailed(m) PROVE Shape'
  BY <1>10 DEF MarkFailed, Moves, lockVars
<1>11. ASSUME NEW m \in Messages, CleanUp(m) PROVE Shape'
  BY <1>11 DEF CleanUp
<1>12. ASSUME NEW m \in Messages, Leave(m) PROVE Shape'
  BY <1>12 DEF Leave, Moves, lockVars
<1>13. ASSUME NEW m \in Messages, RunReturns(m) PROVE Shape'
  BY <1>13 DEF RunReturns, Moves, lockVars
<1>14. ASSUME NEW m \in Messages, RunEnds(m) PROVE Shape'
  BY <1>14 DEF RunEnds, Moves, lockVars
<1>15. ASSUME NEW m \in Messages, RunRaises(m) PROVE Shape'
  BY <1>15 DEF RunRaises, Moves, lockVars
<1>16. ASSUME NEW m \in Messages, CancelWaiting(m) PROVE Shape'
  BY <1>16 DEF CancelWaiting, Cancels
<1>17. ASSUME NEW m \in Messages, CancelOutsideTry(m) PROVE Shape'
  BY <1>17 DEF CancelOutsideTry, Cancels
<1>18. ASSUME NEW m \in Messages, CancelInHandler(m) PROVE Shape'
  BY <1>18 DEF CancelInHandler, Cancels
<1>19. ASSUME NEW m \in Messages, CancelWorking(m) PROVE Shape'
  BY <1>19 DEF CancelWorking, Cancels
<1>20. ASSUME NEW m \in Messages, CancelExecuting(m) PROVE Shape'
  BY <1>20 DEF CancelExecuting, Cancels
<1>21. CASE Stop
  BY <1>21 DEF Stop, lockVars
<1>22. CASE Restart
  BY <1>22 DEF Restart
<1>23. CASE UNCHANGED vars
  BY <1>23 DEF vars, lockVars
<1> QED
  BY <1>1, <1>2, <1>3, <1>4, <1>5, <1>6, <1>7, <1>8, <1>9, <1>10, <1>11, <1>12, <1>13, <1>14, <1>15, <1>16, <1>17, <1>18, <1>19, <1>20, <1>21, <1>22, <1>23
  DEF Next, Goes, Answers, Cancel

LEMMA AloneStep ==
  Shape /\ Shape' /\ (~queued => OpenAlone) /\ [Next]_vars => (~queued' => OpenAlone')
<1> SUFFICES ASSUME Shape, Shape', ~queued => OpenAlone, [Next]_vars, ~queued'
             PROVE OpenAlone'
  OBVIOUS
<1> USE NoOneAssumption, RunsAssumption
    DEF Shape, Places, InFlight, Holding, InEngine, Executing, OpenAlone, Open, HolderDied,
        bounded, history
<1>1. ASSUME NEW m \in Messages, Send(m) PROVE OpenAlone'
  <2>1. ~queued /\ OpenAlone
    BY <1>1 DEF Send
  <2> DEFINE l == LockFor(m)
  <2>2. ~Held(l) /\ Enter(m, IF HolderDied THEN NoOne ELSE holder) /\ UNCHANGED line
    BY <1>1 DEF Send
  <2>3. \A k \in Messages : pc[k] \notin Open
    BY <2>1, <2>2 DEF LockFor, Held
  <2> QED BY <1>1, <2>1, <2>2, <2>3 DEF Send, Enter, LockFor
<1>2. ASSUME NEW m \in Messages, Acquire(m) PROVE OpenAlone'
  BY <1>2 DEF Acquire, Enter
<1>3. ASSUME NEW m \in Messages, Begin(m) PROVE OpenAlone'
  BY <1>3 DEF Begin, Moves, lockVars
<1>4. ASSUME NEW m \in Messages, Execute(m) PROVE OpenAlone'
  BY <1>4 DEF Execute, Moves, lockVars
<1>5. ASSUME NEW m \in Messages, Retry(m) PROVE OpenAlone'
  BY <1>5 DEF Retry, Moves, lockVars
<1>6. ASSUME NEW m \in Messages, Settle(m) PROVE OpenAlone'
  BY <1>6 DEF Settle, Moves, lockVars
<1>7. ASSUME NEW m \in Messages, Returns(m) PROVE OpenAlone'
  BY <1>7 DEF Returns, Moves, lockVars
<1>8. ASSUME NEW m \in Messages, Close(m) PROVE OpenAlone'
  BY <1>8 DEF Close, Moves, lockVars
<1>9. ASSUME NEW m \in Messages, Raises(m) PROVE OpenAlone'
  BY <1>9 DEF Raises, Moves, lockVars
<1>10. ASSUME NEW m \in Messages, MarkFailed(m) PROVE OpenAlone'
  BY <1>10 DEF MarkFailed, Moves, lockVars
<1>11. ASSUME NEW m \in Messages, CleanUp(m) PROVE OpenAlone'
  BY <1>11 DEF CleanUp
<1>12. ASSUME NEW m \in Messages, Leave(m) PROVE OpenAlone'
  BY <1>12 DEF Leave, Moves, lockVars
<1>13. ASSUME NEW m \in Messages, RunReturns(m) PROVE OpenAlone'
  BY <1>13 DEF RunReturns, Moves, lockVars
<1>14. ASSUME NEW m \in Messages, RunEnds(m) PROVE OpenAlone'
  BY <1>14 DEF RunEnds, Moves, lockVars
<1>15. ASSUME NEW m \in Messages, RunRaises(m) PROVE OpenAlone'
  BY <1>15 DEF RunRaises, Moves, lockVars
<1>16. ASSUME NEW m \in Messages, CancelWaiting(m) PROVE OpenAlone'
  BY <1>16 DEF CancelWaiting, Cancels
<1>17. ASSUME NEW m \in Messages, CancelOutsideTry(m) PROVE OpenAlone'
  BY <1>17 DEF CancelOutsideTry, Cancels
<1>18. ASSUME NEW m \in Messages, CancelInHandler(m) PROVE OpenAlone'
  BY <1>18 DEF CancelInHandler, Cancels
<1>19. ASSUME NEW m \in Messages, CancelWorking(m) PROVE OpenAlone'
  BY <1>19 DEF CancelWorking, Cancels
<1>20. ASSUME NEW m \in Messages, CancelExecuting(m) PROVE OpenAlone'
  BY <1>20 DEF CancelExecuting, Cancels
<1>21. CASE Stop
  BY <1>21 DEF Stop, lockVars
<1>22. CASE Restart
  BY <1>22 DEF Restart
<1>23. CASE UNCHANGED vars
  BY <1>23 DEF vars, lockVars, bounded, history
<1> QED
  BY <1>1, <1>2, <1>3, <1>4, <1>5, <1>6, <1>7, <1>8, <1>9, <1>10, <1>11, <1>12, <1>13, <1>14, <1>15, <1>16, <1>17, <1>18, <1>19, <1>20, <1>21, <1>22, <1>23
  DEF Next, Goes, Answers, Cancel

LEMMA OwedStep == Shape /\ RowIsOwed /\ [Next]_vars => RowIsOwed'
<1> SUFFICES ASSUME Shape, RowIsOwed, [Next]_vars PROVE RowIsOwed'
  OBVIOUS
<1> USE NoOneAssumption, RunsAssumption
    DEF Shape, Places, InFlight, Holding, InEngine, Executing, RowIsOwed, WillWrite, Settled,
        bounded, history
<1>1. ASSUME NEW m \in Messages, Send(m) PROVE RowIsOwed'
  BY <1>1 DEF Send, Enter
<1>2. ASSUME NEW m \in Messages, Acquire(m) PROVE RowIsOwed'
  BY <1>2 DEF Acquire, Enter
<1>3. ASSUME NEW m \in Messages, Begin(m) PROVE RowIsOwed'
  BY <1>3 DEF Begin, Moves, lockVars
<1>4. ASSUME NEW m \in Messages, Execute(m) PROVE RowIsOwed'
  BY <1>4 DEF Execute, Moves, lockVars
<1>5. ASSUME NEW m \in Messages, Retry(m) PROVE RowIsOwed'
  BY <1>5 DEF Retry, Moves, lockVars
<1>6. ASSUME NEW m \in Messages, Settle(m) PROVE RowIsOwed'
  BY <1>6 DEF Settle, Moves, lockVars
<1>7. ASSUME NEW m \in Messages, Returns(m) PROVE RowIsOwed'
  BY <1>7 DEF Returns, Moves, lockVars
<1>8. ASSUME NEW m \in Messages, Close(m) PROVE RowIsOwed'
  BY <1>8 DEF Close, Moves, lockVars
<1>9. ASSUME NEW m \in Messages, Raises(m) PROVE RowIsOwed'
  BY <1>9 DEF Raises, Moves, lockVars
<1>10. ASSUME NEW m \in Messages, MarkFailed(m) PROVE RowIsOwed'
  BY <1>10 DEF MarkFailed, Moves, lockVars
<1>11. ASSUME NEW m \in Messages, CleanUp(m) PROVE RowIsOwed'
  BY <1>11 DEF CleanUp
<1>12. ASSUME NEW m \in Messages, Leave(m) PROVE RowIsOwed'
  BY <1>12 DEF Leave, Moves, lockVars
<1>13. ASSUME NEW m \in Messages, RunReturns(m) PROVE RowIsOwed'
  BY <1>13 DEF RunReturns, Moves, lockVars
<1>14. ASSUME NEW m \in Messages, RunEnds(m) PROVE RowIsOwed'
  BY <1>14 DEF RunEnds, Moves, lockVars
<1>15. ASSUME NEW m \in Messages, RunRaises(m) PROVE RowIsOwed'
  BY <1>15 DEF RunRaises, Moves, lockVars
<1>16. ASSUME NEW m \in Messages, CancelWaiting(m) PROVE RowIsOwed'
  BY <1>16 DEF CancelWaiting, Cancels
<1>17. ASSUME NEW m \in Messages, CancelOutsideTry(m) PROVE RowIsOwed'
  BY <1>17 DEF CancelOutsideTry, Cancels
<1>18. ASSUME NEW m \in Messages, CancelInHandler(m) PROVE RowIsOwed'
  BY <1>18 DEF CancelInHandler, Cancels
<1>19. ASSUME NEW m \in Messages, CancelWorking(m) PROVE RowIsOwed'
  BY <1>19 DEF CancelWorking, Cancels, MarkCancelled
<1>20. ASSUME NEW m \in Messages, CancelExecuting(m) PROVE RowIsOwed'
  BY <1>20 DEF CancelExecuting, Cancels
<1>21. CASE Stop
  BY <1>21 DEF Stop, lockVars
<1>22. CASE Restart
  BY <1>22 DEF Restart
<1>23. CASE UNCHANGED vars
  BY <1>23 DEF vars, lockVars, bounded, history
<1> QED
  BY <1>1, <1>2, <1>3, <1>4, <1>5, <1>6, <1>7, <1>8, <1>9, <1>10, <1>11, <1>12, <1>13, <1>14, <1>15, <1>16, <1>17, <1>18, <1>19, <1>20, <1>21, <1>22, <1>23
  DEF Next, Goes, Answers, Cancel

LEMMA NotCancelledStep ==
  SInv /\ [Next]_vars => RowNotCancelled'
<1> SUFFICES ASSUME SInv, [Next]_vars PROVE RowNotCancelled'
  OBVIOUS
<1> USE DEF SInv, Shape, RowNotCancelled, Settled, bounded, history
<1>1. ASSUME NEW m \in Messages, Send(m) PROVE RowNotCancelled'
  BY <1>1 DEF Send, Enter
<1>2. ASSUME NEW m \in Messages, Acquire(m) PROVE RowNotCancelled'
  BY <1>2 DEF Acquire, Enter
<1>3. ASSUME NEW m \in Messages, Begin(m) PROVE RowNotCancelled'
  BY <1>3 DEF Begin, Moves, lockVars
<1>4. ASSUME NEW m \in Messages, Execute(m) PROVE RowNotCancelled'
  BY <1>4 DEF Execute, Moves, lockVars
<1>5. ASSUME NEW m \in Messages, Retry(m) PROVE RowNotCancelled'
  BY <1>5 DEF Retry, Moves, lockVars
<1>6. ASSUME NEW m \in Messages, Settle(m) PROVE RowNotCancelled'
  BY <1>6 DEF Settle, Moves, lockVars
<1>7. ASSUME NEW m \in Messages, Returns(m) PROVE RowNotCancelled'
  BY <1>7 DEF Returns, Moves, lockVars
<1>8. ASSUME NEW m \in Messages, Close(m) PROVE RowNotCancelled'
  BY <1>8 DEF Close, Moves, lockVars
<1>9. ASSUME NEW m \in Messages, Raises(m) PROVE RowNotCancelled'
  BY <1>9 DEF Raises, Moves, lockVars
<1>10. ASSUME NEW m \in Messages, MarkFailed(m) PROVE RowNotCancelled'
  BY <1>10 DEF MarkFailed, Moves, lockVars
<1>11. ASSUME NEW m \in Messages, CleanUp(m) PROVE RowNotCancelled'
  BY <1>11 DEF CleanUp
<1>12. ASSUME NEW m \in Messages, Leave(m) PROVE RowNotCancelled'
  BY <1>12 DEF Leave, Moves, lockVars
<1>13. ASSUME NEW m \in Messages, RunReturns(m) PROVE RowNotCancelled'
  BY <1>13 DEF RunReturns, Moves, lockVars
<1>14. ASSUME NEW m \in Messages, RunEnds(m) PROVE RowNotCancelled'
  BY <1>14 DEF RunEnds, Moves, lockVars
<1>15. ASSUME NEW m \in Messages, RunRaises(m) PROVE RowNotCancelled'
  BY <1>15 DEF RunRaises, Moves, lockVars
<1>16. ASSUME NEW m \in Messages, CancelWaiting(m) PROVE RowNotCancelled'
  BY <1>16 DEF CancelWaiting, Cancels
<1>17. ASSUME NEW m \in Messages, CancelOutsideTry(m) PROVE RowNotCancelled'
  BY <1>17 DEF CancelOutsideTry, Cancels
<1>18. ASSUME NEW m \in Messages, CancelInHandler(m) PROVE RowNotCancelled'
  BY <1>18 DEF CancelInHandler, Cancels
<1>19. ASSUME NEW m \in Messages, CancelWorking(m) PROVE RowNotCancelled'
  BY <1>19 DEF CancelWorking, Cancels, MarkCancelled, OpenAlone, Open, Holding, InEngine, Executing
<1>20. ASSUME NEW m \in Messages, CancelExecuting(m) PROVE RowNotCancelled'
  BY <1>20 DEF CancelExecuting, Cancels
<1>21. CASE Stop
  BY <1>21 DEF Stop, lockVars
<1>22. CASE Restart
  BY <1>22 DEF Restart
<1>23. CASE UNCHANGED vars
  BY <1>23 DEF vars, lockVars, bounded, history
<1> QED
  BY <1>1, <1>2, <1>3, <1>4, <1>5, <1>6, <1>7, <1>8, <1>9, <1>10, <1>11, <1>12, <1>13, <1>14, <1>15, <1>16, <1>17, <1>18, <1>19, <1>20, <1>21, <1>22, <1>23
  DEF Next, Goes, Answers, Cancel

LEMMA RowTypesStep == Shape /\ RowTypes /\ [Next]_vars => RowTypes'
<1> SUFFICES ASSUME Shape, RowTypes, [Next]_vars PROVE RowTypes'
  OBVIOUS
<1> USE BoundsAssumption DEF RowTypes, Rows, Settled, bounded, history
<1>1. ASSUME NEW m \in Messages, Send(m) PROVE RowTypes'
  BY <1>1 DEF Send, Enter
<1>2. ASSUME NEW m \in Messages, Acquire(m) PROVE RowTypes'
  BY <1>2 DEF Acquire, Enter
<1>3. ASSUME NEW m \in Messages, Begin(m) \/ Execute(m) \/ Retry(m) \/ Settle(m)
      PROVE RowTypes'
  BY <1>3 DEF Begin, Execute, Retry, Settle, Moves
<1>4. ASSUME NEW m \in Messages, Answers(m) PROVE RowTypes'
  BY <1>4 DEF Answers, Returns, Close, Raises, MarkFailed, CleanUp, Leave,
     RunReturns, RunEnds, RunRaises, Moves
<1>5. ASSUME NEW m \in Messages, Cancel(m) PROVE RowTypes'
  BY <1>5 DEF Cancel, CancelWaiting, CancelOutsideTry, CancelInHandler, CancelWorking,
     CancelExecuting, Cancels, MarkCancelled
<1>6. CASE Stop
  BY <1>6 DEF Stop
<1>7. CASE Restart
  <2>1. restarts' \in 0..MaxRestarts /\ stops' \in 0..MaxStops
    BY <1>7 DEF Restart
  <2>2. row' \in Rows
    BY <1>7 DEF Restart
  <2>3. stopFlag' = FALSE /\ queued' = queued /\ cut' = cut
    BY <1>7 DEF Restart
  <2> QED
    BY <2>1, <2>2, <2>3
<1>8. CASE UNCHANGED vars
  BY <1>8 DEF vars
<1> QED
  BY <1>1, <1>2, <1>3, <1>4, <1>5, <1>6, <1>7, <1>8 DEF Next, Goes

\* A coroutine leaves the line when it no longer waits.
LEMMA LeavesLine ==
  ASSUME Shape, WaitersInLine, NEW m \in Messages, NEW to \in Places \ {"waiting"},
         line' = RemoveFirst(line, m), pc' = [pc EXCEPT ![m] = to]
  PROVE  WaitersInLine'
<1>1. /\ line' \in Seq(Messages) /\ IsInjective(line')
      /\ \A i \in DOMAIN line' : line'[i] # m
  BY RemoveFirstProperties, RemoveFirstDistinct DEF WaitersInLine
<1>2. /\ \A i \in DOMAIN line' : \E j \in DOMAIN line : line'[i] = line[j]
      /\ \A j \in DOMAIN line : line[j] # m => \E i \in DOMAIN line' : line'[i] = line[j]
  BY RemoveFirstProperties DEF WaitersInLine
<1>3. ASSUME NEW k \in Messages
      PROVE  pc'[k] = "waiting" <=> \E i \in DOMAIN line' : line'[i] = k
  <2>1. CASE k = m
    BY <2>1, <1>1 DEF Shape
  <2>2. CASE k # m
    <3>1. pc'[k] = pc[k]
      BY <2>2 DEF Shape
    <3> QED
      BY <2>2, <3>1, <1>2 DEF WaitersInLine
  <2> QED
    BY <2>1, <2>2
<1> QED
  BY <1>1, <1>3 DEF WaitersInLine

LEMMA LineStep == Shape /\ WaitersInLine /\ [Next]_vars => WaitersInLine'
<1> SUFFICES ASSUME Shape, WaitersInLine, [Next]_vars PROVE WaitersInLine'
  OBVIOUS
<1> DEFINE Same == line' = line /\ \A k \in Messages : pc'[k] = "waiting" <=> pc[k] = "waiting"
<1>1. Same => WaitersInLine'
  BY DEF WaitersInLine
<1>2. ASSUME NEW m \in Messages, Send(m) PROVE WaitersInLine'
  <2>1. pc[m] = "unsent"
    BY <1>2 DEF Send
  <2>2. CASE line' = line /\ Enter(m, IF HolderDied THEN NoOne ELSE holder)
    <3>1. Same
      BY <2>1, <2>2 DEF Enter, Shape
    <3> QED
      BY <1>1, <3>1
  <2>3. CASE line' = Append(line, m) /\ pc' = [pc EXCEPT ![m] = "waiting"]
    <3>1. \A i \in DOMAIN line : line[i] # m
      BY <2>1 DEF WaitersInLine
    <3>2. line' \in Seq(Messages) /\ IsInjective(line')
      BY <2>3, <3>1, AppendProperties, AppendDistinct DEF WaitersInLine
    <3>3. /\ DOMAIN line' = 1..(Len(line) + 1) /\ DOMAIN line = 1..Len(line)
          /\ Len(line) \in Nat
          /\ \A i \in 1..Len(line) : line'[i] = line[i]
          /\ line'[Len(line) + 1] = m
      BY <2>3, AppendProperties DEF WaitersInLine
    <3>4. ASSUME NEW k \in Messages
          PROVE  pc'[k] = "waiting" <=> \E i \in DOMAIN line' : line'[i] = k
      <4>1. pc'[k] = IF k = m THEN "waiting" ELSE pc[k]
        BY <2>3 DEF Shape
      <4>2. (\E i \in DOMAIN line' : line'[i] = k) <=> k = m \/ \E i \in DOMAIN line : line[i] = k
        BY <3>3
      <4> QED
        BY <4>1, <4>2 DEF WaitersInLine
    <3> QED
      BY <3>2, <3>4 DEF WaitersInLine
  <2> QED
    BY <1>2, <2>2, <2>3 DEF Send
<1>3. ASSUME NEW m \in Messages, Acquire(m) PROVE WaitersInLine'
  <2>1. \E to \in Places \ {"waiting"} : pc' = [pc EXCEPT ![m] = to]
    BY <1>3 DEF Acquire, Enter, Places, InFlight, Holding, InEngine
  <2> QED
    BY <1>3, <2>1, LeavesLine DEF Acquire
<1>4. ASSUME NEW m \in Messages, Begin(m) \/ Execute(m) \/ Retry(m) \/ Settle(m)
      PROVE WaitersInLine'
  <2>1. Same
    BY <1>4 DEF Begin, Execute, Retry, Settle, Moves, lockVars, Executing, Shape
  <2> QED
    BY <1>1, <2>1
<1>5. ASSUME NEW m \in Messages, Answers(m) PROVE WaitersInLine'
  <2>1. Same
    BY <1>5 DEF Answers, Returns, Close, Raises, MarkFailed, CleanUp, Leave,
       RunReturns, RunEnds, RunRaises, Moves, lockVars, InEngine, Executing, Shape
  <2> QED
    BY <1>1, <2>1
<1>6. ASSUME NEW m \in Messages, Cancel(m) PROVE WaitersInLine'
  <2>1. CASE CancelWaiting(m)
    BY <2>1, LeavesLine DEF CancelWaiting, Cancels, Places
  <2>2. CASE CancelOutsideTry(m) \/ CancelInHandler(m) \/ CancelWorking(m) \/ CancelExecuting(m)
    <3>1. Same
      BY <2>2 DEF CancelOutsideTry, CancelInHandler, CancelWorking, CancelExecuting, Cancels, Shape
    <3> QED
      BY <1>1, <3>1
  <2> QED
    BY <1>6, <2>1, <2>2 DEF Cancel
<1>7. CASE Stop
  BY <1>1, <1>7 DEF Stop, lockVars
<1>8. CASE Restart
  BY <1>8 DEF Restart, WaitersInLine, IsInjective
<1>9. CASE UNCHANGED vars
  BY <1>1, <1>9 DEF vars, lockVars
<1> QED
  BY <1>2, <1>3, <1>4, <1>5, <1>6, <1>7, <1>8, <1>9 DEF Next, Goes

-----------------------------------------------------------------------------

LEMMA SessionInvariant == Spec => []SInv
<1>1. SInv /\ [Next]_vars => SInv'
  BY ShapeStep, AloneStep, OwedStep, NotCancelledStep DEF SInv
<1> QED BY InitSInv, <1>1, PTL DEF Spec

LEMMA LineInvariant == Spec => [](Shape /\ WaitersInLine /\ RowTypes)
<1>1. Init => Shape /\ WaitersInLine /\ RowTypes
  <2> SUFFICES ASSUME Init PROVE Shape /\ WaitersInLine /\ RowTypes
    OBVIOUS
  <2>1. Shape
    BY InitSInv DEF SInv
  <2>2. WaitersInLine
    BY DEF Init, WaitersInLine, IsInjective
  <2>3. stops \in 0..MaxStops /\ restarts \in 0..MaxRestarts
    BY BoundsAssumption DEF Init
  <2>4. row \in Rows /\ stopFlag = FALSE /\ queued = FALSE /\ cut = FALSE
    BY DEF Init, Rows
  <2> QED
    BY <2>1, <2>2, <2>3, <2>4 DEF RowTypes
<1>2. Shape /\ WaitersInLine /\ RowTypes /\ [Next]_vars => (Shape /\ WaitersInLine /\ RowTypes)'
  BY ShapeStep, LineStep, RowTypesStep
<1> QED BY <1>1, <1>2, PTL DEF Spec

(***************************************************************************)
(* The session keeps its types: no run is registered as a holder or asked  *)
(* to cancel, and the waiters' line is one of messages.                    *)
(***************************************************************************)
THEOREM SessionTypes == Spec => []TypeOK
<1>1. Shape /\ WaitersInLine /\ RowTypes => TypeOK
  BY DEF Shape, Places, WaitersInLine, RowTypes, TypeOK
<1> QED BY LineInvariant, <1>1, PTL

(***************************************************************************)
(* Whoever waits for a lock stands in line once, and nobody else does: no  *)
(* cancellation, stop or replaced lock leaves a waiter that is not woken,  *)
(* or an entry that would hold up the ones behind it.                      *)
(***************************************************************************)
THEOREM LineHoldsTheWaiters == Spec => []WaitersInLine
BY LineInvariant, PTL

(***************************************************************************)
(* Messages of a session are processed one at a time until one of them has *)
(* had to queue for _get_task_lock's lock.                                 *)
(***************************************************************************)
THEOREM SerialWithoutQueue == Spec => []SerialUntilQueued
<1>1. SInv => SerialUntilQueued
  BY DEF SInv, OpenAlone, Open, Holding, InEngine, Executing, SerialUntilQueued, OneAtATime
<1> QED BY SessionInvariant, <1>1, PTL

(***************************************************************************)
(* However messages overlap, fail or are stopped, the task is not left     *)
(* running with nobody in flight, unless a run's engine raised: whoever    *)
(* finds the row running still has to write it.                            *)
(***************************************************************************)
THEOREM RowIsWrittenBack == Spec => []NoGhostRunning
<1>1. SInv => NoGhostRunning
  BY DEF SInv, RowIsOwed, WillWrite, NoGhostRunning, InFlight, Holding
<1> QED BY SessionInvariant, <1>1, PTL

(***************************************************************************)
(* A stop that finds the engine not executing, in a session whose messages *)
(* did not overlap, leaves the task to be resumed: the stop flag outlives  *)
(* the one coroutine that asks for it.                                     *)
(***************************************************************************)
THEOREM StopLeavesResumable == Spec => []StoppedStaysResumable
<1>1. SInv => StoppedStaysResumable
  BY DEF SInv, RowNotCancelled, StoppedStaysResumable, StoppedStaysIdle
<1> QED BY SessionInvariant, <1>1, PTL
=============================================================================
