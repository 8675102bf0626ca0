-------------------------- MODULE AgentTurnProofs --------------------------
(***************************************************************************)
(* Proofs about AgentTurn, for any set of tools, any number of rounds,     *)
(* nudges, retries and calls in a batch, and all outcomes.                 *)
(***************************************************************************)
EXTENDS AgentTurn, SequenceTheorems, TLAPS

\* Before it returns a turn has told nobody anything; then it has one record,
\* unless it failed or the gate overran.
Told ==
    /\ pc # "returned" => records = 0 /\ shown = 0 /\ outcome = "none"
    /\ shown <= records /\ records <= 1
    /\ outcome = "ok" => records = 1 \/ overrun

\* Only a batch at work leaves tools out of the record, and a turn that ends
\* with a text in the middle of one is cancelled.
Unsaved ==
    /\ unsaved => pc \in {"tools", "subjob", "executing", "returned"}
    /\ outcome = "ok" /\ unsaved => cancel

\* A draft evaluated under a cancel is the last but the one of an exhausted loop:
\* sent back, it comes to the check at the top.
Late == late => cancel /\ pc \in {"judging", "judgingLast", "top", "exhausted", "returned"}

IInv == TypeOK /\ Told /\ Unsaved /\ SkillGateHolds /\ Late

\* The budgets are numbers, one SMT can count with.
LEMMA Sizes ==
    /\ MaxIterations \in Nat /\ MaxIterations > 0
    /\ MaxNudges \in Nat /\ MaxRetries \in Nat
  BY TurnAssumption

\* A turn that has not begun has told and run nothing.
LEMMA Start == Init => IInv
<1> SUFFICES ASSUME Init PROVE IInv
  OBVIOUS
<1>1. PlaceOK
  BY Sizes DEF Init, PlaceOK, Places, Calls
<1>2. FlagsOK
  BY DEF Init, FlagsOK
<1>3. BatchOK
  BY DEF Init, BatchOK, Skills
<1>4. Told /\ Unsaved /\ SkillGateHolds /\ Late
  BY DEF Init, Told, Unsaved, SkillGateHolds, Late
<1> QED
  BY <1>1, <1>2, <1>3, <1>4 DEF IInv, TypeOK

\* Rounds, nudges and retries stay within their budgets.
LEMMA PlaceStep == PlaceOK /\ [Next]_vars => PlaceOK'
<1> SUFFICES ASSUME PlaceOK, [Next]_vars PROVE PlaceOK'
  OBVIOUS
<1> USE Sizes DEF PlaceOK
<1>1. CASE Prepare
  BY <1>1 DEF Prepare, ReturnErr, Places, Calls
<1>2. CASE BeforeTurn
  BY <1>2 DEF BeforeTurn, ReturnErr, Places, Calls, gateVars
<1>3. CASE CancelledAtTop
  BY <1>3 DEF CancelledAtTop, Finish, Complete, Places, Calls, gateVars
<1>4. CASE Round
  BY <1>4 DEF Round, Places, Calls, gateVars
<1>5. CASE ModelReturns
  BY <1>5 DEF ModelReturns, Take, Finish, Complete, Places, Calls, gateVars
<1>6. CASE ModelFails
  BY <1>6 DEF ModelFails, ReturnErr, Finish, Complete, Places, Calls, gateVars
<1>7. CASE BeginFallback
  BY <1>7 DEF BeginFallback, Places, Calls, gateVars
<1>8. CASE FallbackReturns
  BY <1>8 DEF FallbackReturns, Take, Finish, Complete, Places, Calls, gateVars
<1>9. CASE FallbackFails
  BY <1>9 DEF FallbackFails, Continue, NextRound, Places, Calls, gateVars
<1>10. CASE Answer
  BY <1>10 DEF Answer, ReturnErr, Finish, Complete, Continue, NextRound, Places, Calls,
      gateVars
<1>11. CASE Blocked
  BY <1>11 DEF Blocked, Result, Places, Calls, gateVars
<1>12. CASE Begin
  BY <1>12 DEF Begin, Passes, BeginSubjob, Refused, Execute, CancelledBefore,
      GuardedResult, Result, Finish, Complete, Places, Calls, gateVars
<1>13. CASE ToolReturns
  BY <1>13 DEF ToolReturns, GuardedResult, Result, Activates, Places, Calls, gateVars
<1>14. CASE ToolTimesOut
  BY <1>14 DEF ToolTimesOut, GuardedResult, Result, Places, Calls, gateVars
<1>15. CASE ToolCancelled
  BY <1>15 DEF ToolCancelled, Finish, Complete, Places, Calls, gateVars
<1>16. CASE SubjobReturns
  BY <1>16 DEF SubjobReturns, GuardedResult, Result, Places, Calls, gateVars
<1>17. CASE EndBatch
  BY <1>17 DEF EndBatch, Finish, Complete, Places, Calls, gateVars
<1>18. CASE Evaluate
  BY <1>18 DEF Evaluate, Finish, Complete, Continue, NextRound, Places, Calls, gateVars
<1>19. CASE Synthesize
  BY <1>19 DEF Synthesize, ReturnErr, Finish, Complete, Places, Calls, gateVars
<1>20. CASE AtGate
  BY <1>20 DEF AtGate, BeginEvaluation, Complete, Places, Calls, gateVars
<1>21. CASE Judge
  BY <1>21 DEF Judge, Complete, Retry, NextRound, Places, Calls
<1>22. CASE MaxIterationsReached
  BY <1>22 DEF MaxIterationsReached, BeginEvaluation, Complete, Places, Calls, gateVars
<1>23. CASE JudgeLast
  BY <1>23 DEF JudgeLast, Complete, Places, Calls
<1>24. CASE Cancel
  BY <1>24 DEF Cancel, Places, Calls, gateVars
<1>25. CASE Abort
  BY <1>25 DEF Abort, Places, Calls
<1>26. CASE UNCHANGED vars
  BY <1>26 DEF vars, gateVars
<1> QED
  BY <1>1, <1>2, <1>3, <1>4, <1>5, <1>6, <1>7, <1>8, <1>9, <1>10, <1>11,
     <1>12, <1>13, <1>14, <1>15, <1>16, <1>17, <1>18, <1>19, <1>20,
     <1>21, <1>22, <1>23, <1>24, <1>25, <1>26 DEF Next, Step

\* An answer in hand starts its batch with fresh flags.
LEMMA TakeFlags ==
  FlagsOK /\ Take => errors' \in BOOLEAN /\ timedOut' \in BOOLEAN /\ stalled' \in BOOLEAN
                     /\ overrun' \in BOOLEAN
  BY DEF FlagsOK, Take, Finish, Complete, batchVars, gateVars

\* The loop's local flags are Booleans.
LEMMA FlagsStep == FlagsOK /\ [Next]_vars => FlagsOK'
<1> SUFFICES ASSUME FlagsOK, [Next]_vars PROVE FlagsOK'
  OBVIOUS
<1> USE DEF FlagsOK
<1>1. CASE Prepare
  BY <1>1 DEF Prepare, ReturnErr, routeVars, batchVars
<1>2. CASE BeforeTurn
  BY <1>2 DEF BeforeTurn, ReturnErr, routeVars, batchVars, gateVars
<1>3. CASE CancelledAtTop
  BY <1>3 DEF CancelledAtTop, Finish, Complete, routeVars, batchVars, gateVars
<1>4. CASE Round
  BY <1>4 DEF Round, Route, batchVars, gateVars
<1>5. CASE ModelReturns
  BY <1>5, TakeFlags DEF ModelReturns, routeVars
<1>6. CASE ModelFails
  BY <1>6 DEF ModelFails, ReturnErr, Finish, Complete, routeVars, batchVars, gateVars
<1>7. CASE BeginFallback
  BY <1>7 DEF BeginFallback, batchVars, gateVars
<1>8. CASE FallbackReturns
  BY <1>8, TakeFlags DEF FallbackReturns
<1>9. CASE FallbackFails
  BY <1>9 DEF FallbackFails, Continue, NextRound, batchVars, gateVars
<1>10. CASE Answer
  BY <1>10 DEF Answer, ReturnErr, Finish, Complete, Continue, NextRound, routeVars,
      batchVars, gateVars
<1>11. CASE Blocked
  BY <1>11 DEF Blocked, Result, routeVars, gateVars
<1>12. CASE Begin
  <2>1. PICK fails \in BOOLEAN, t \in {Head(calls)} \union Tools :
            BeginSubjob(t) \/ Refused(t) \/ CancelledBefore(t) \/ Execute(t, fails \/ t # Head(calls))
    BY <1>12 DEF Begin
  <2>2. UNCHANGED <<cancel, routeVars, timedOut, unsaved, late>>
    BY <1>12 DEF Begin
  <2>3. CASE BeginSubjob(t)
    BY <2>2, <2>3 DEF BeginSubjob, routeVars, gateVars
  <2>4. CASE Refused(t)
    BY <2>2, <2>4 DEF Refused, GuardedResult, Result, routeVars, gateVars
  <2>5. CASE CancelledBefore(t)
    BY <2>2, <2>5 DEF CancelledBefore, Finish, Complete, routeVars
  <2>6. CASE Execute(t, fails \/ t # Head(calls))
    <3>1. bypass' \in BOOLEAN
      BY <2>6 DEF Execute
    <3> QED
      BY <2>2, <2>6, <3>1 DEF Execute, routeVars, gateVars
  <2> QED
    BY <2>1, <2>3, <2>4, <2>5, <2>6
<1>13. CASE ToolReturns
  BY <1>13 DEF ToolReturns, GuardedResult, Result, Activates, routeVars, gateVars
<1>14. CASE ToolTimesOut
  BY <1>14 DEF ToolTimesOut, GuardedResult, Result, routeVars, gateVars
<1>15. CASE ToolCancelled
  BY <1>15 DEF ToolCancelled, Finish, Complete, routeVars, batchVars, gateVars
<1>16. CASE SubjobReturns
  BY <1>16 DEF SubjobReturns, GuardedResult, Result, routeVars, gateVars
<1>17. CASE EndBatch
  BY <1>17 DEF EndBatch, Finish, Complete, batchVars, gateVars
<1>18. CASE Evaluate
  BY <1>18 DEF Evaluate, Finish, Complete, Continue, NextRound, routeVars, batchVars,
      gateVars
<1>19. CASE Synthesize
  BY <1>19 DEF Synthesize, ReturnErr, Finish, Complete, routeVars, batchVars, gateVars
<1>20. CASE AtGate
  <2>1. late' \in BOOLEAN
    BY <1>20 DEF AtGate, BeginEvaluation, Complete
  <2> QED
    BY <1>20, <2>1 DEF AtGate, BeginEvaluation, Complete, routeVars, batchVars, gateVars
<1>21. CASE Judge
  BY <1>21 DEF Judge, Complete, Retry, NextRound, routeVars, batchVars
<1>22. CASE MaxIterationsReached
  <2>1. late' \in BOOLEAN
    BY <1>22 DEF MaxIterationsReached, BeginEvaluation, Complete
  <2> QED
    BY <1>22, <2>1 DEF MaxIterationsReached, BeginEvaluation, Complete, routeVars, batchVars, gateVars
<1>23. CASE JudgeLast
  <2>1. overrun' \in BOOLEAN
    BY <1>23 DEF JudgeLast, Complete
  <2> QED
    BY <1>23, <2>1 DEF JudgeLast, routeVars, batchVars
<1>24. CASE Cancel
  BY <1>24 DEF Cancel, routeVars, batchVars, gateVars
<1>25. CASE Abort
  BY <1>25 DEF Abort, routeVars, batchVars
<1>26. CASE UNCHANGED vars
  BY <1>26 DEF vars, routeVars, batchVars, gateVars
<1> QED
  BY <1>1, <1>2, <1>3, <1>4, <1>5, <1>6, <1>7, <1>8, <1>9, <1>10, <1>11,
     <1>12, <1>13, <1>14, <1>15, <1>16, <1>17, <1>18, <1>19, <1>20,
     <1>21, <1>22, <1>23, <1>24, <1>25, <1>26 DEF Next, Step

\* The calls of an answer are a sequence of tools, and a call is dealt with once.
LEMMA Rest == BatchOK /\ calls # <<>> =>
                Head(calls) \in Tools /\ Tail(calls) \in Seq(Tools)
  BY DEF BatchOK

\* The calls of an answer are known tools.
LEMMA TakeBatch == BatchOK /\ Take /\ UNCHANGED skills => BatchOK'
<1> SUFFICES ASSUME BatchOK, Take, UNCHANGED skills PROVE BatchOK'
  OBVIOUS
<1> USE DEF BatchOK
<1>1. CASE pc' = "answer" /\ UNCHANGED batchVars
  BY <1>1 DEF batchVars
<1>2. CASE /\ \E n \in 0 .. MaxBatch : calls' \in [1 .. n -> Tools]
           /\ pc' = "tools" /\ tool' = "none" /\ batch' = {}
  <2>1. calls' \in Seq(Tools)
    BY <1>2, SeqDef
  <2> QED
    BY <1>2, <2>1
<1>3. CASE Finish(TRUE) /\ UNCHANGED batchVars
  BY <1>3 DEF Finish, Complete, gateVars, batchVars
<1> QED
  BY <1>1, <1>2, <1>3 DEF Take

\* What executes is the head of what is left of the batch, or another tool a
\* hook made of it.
LEMMA BatchStep == BatchOK /\ [Next]_vars => BatchOK'
<1> SUFFICES ASSUME BatchOK, [Next]_vars PROVE BatchOK'
  OBVIOUS
<1> USE TurnAssumption DEF BatchOK
<1>1. CASE Prepare
  BY <1>1 DEF Prepare, ReturnErr, Skills, batchVars
<1>2. CASE BeforeTurn
  BY <1>2 DEF BeforeTurn, ReturnErr, Skills, batchVars
<1>3. CASE CancelledAtTop
  BY <1>3 DEF CancelledAtTop, Finish, Complete, Skills, batchVars
<1>4. CASE Round
  BY <1>4 DEF Round, Skills, batchVars
<1>5. CASE ModelReturns
  BY <1>5, TakeBatch DEF ModelReturns
<1>6. CASE ModelFails
  BY <1>6 DEF ModelFails, ReturnErr, Finish, Complete, Skills, batchVars
<1>7. CASE BeginFallback
  BY <1>7 DEF BeginFallback, Skills, batchVars
<1>8. CASE FallbackReturns
  BY <1>8, TakeBatch DEF FallbackReturns
<1>9. CASE FallbackFails
  BY <1>9 DEF FallbackFails, Continue, NextRound, Skills, batchVars
<1>10. CASE Answer
  BY <1>10 DEF Answer, ReturnErr, Finish, Complete, Continue, NextRound, Skills, batchVars
<1>11. CASE Blocked
  BY <1>11, Rest DEF Blocked, Result
<1>12. CASE Begin
  <2>1. PICK fails \in BOOLEAN, t \in {Head(calls)} \union Tools :
            BeginSubjob(t) \/ Refused(t) \/ CancelledBefore(t) \/ Execute(t, fails \/ t # Head(calls))
    BY <1>12 DEF Begin
  <2>2. calls # <<>> /\ UNCHANGED skills
    BY <1>12 DEF Begin
  <2>3. t \in Tools /\ t # "none"
    BY <2>2, Rest
  <2>4. CASE BeginSubjob(t)
    BY <2>2, <2>3, <2>4 DEF BeginSubjob
  <2>5. CASE Refused(t)
    BY <2>2, <2>5, Rest DEF Refused, GuardedResult, Result
  <2>6. CASE CancelledBefore(t)
    BY <2>2, <2>6 DEF CancelledBefore, Finish, Complete
  <2>7. CASE Execute(t, fails \/ t # Head(calls))
    BY <2>2, <2>3, <2>7 DEF Execute
  <2> QED
    BY <2>1, <2>4, <2>5, <2>6, <2>7
<1>13. CASE ToolReturns
  BY <1>13, Rest DEF ToolReturns, GuardedResult, Result, Activates, Skills
<1>14. CASE ToolTimesOut
  BY <1>14, Rest DEF ToolTimesOut, GuardedResult, Result
<1>15. CASE ToolCancelled
  BY <1>15 DEF ToolCancelled, Finish, Complete, Skills, batchVars
<1>16. CASE SubjobReturns
  BY <1>16, Rest DEF SubjobReturns, GuardedResult, Result
<1>17. CASE EndBatch
  BY <1>17 DEF EndBatch, Finish, Complete, Skills, batchVars
<1>18. CASE Evaluate
  BY <1>18 DEF Evaluate, Finish, Complete, Continue, NextRound, Skills, batchVars
<1>19. CASE Synthesize
  BY <1>19 DEF Synthesize, ReturnErr, Finish, Complete, Skills, batchVars
<1>20. CASE AtGate
  BY <1>20 DEF AtGate, BeginEvaluation, Complete, Skills, batchVars
<1>21. CASE Judge
  BY <1>21 DEF Judge, Complete, Retry, NextRound, Skills, batchVars
<1>22. CASE MaxIterationsReached
  BY <1>22 DEF MaxIterationsReached, BeginEvaluation, Complete, Skills, batchVars
<1>23. CASE JudgeLast
  BY <1>23 DEF JudgeLast, Complete, Skills, batchVars
<1>24. CASE Cancel
  BY <1>24 DEF Cancel, Skills, batchVars
<1>25. CASE Abort
  BY <1>25 DEF Abort, Skills, batchVars
<1>26. CASE UNCHANGED vars
  BY <1>26 DEF vars, batchVars
<1> QED
  BY <1>1, <1>2, <1>3, <1>4, <1>5, <1>6, <1>7, <1>8, <1>9, <1>10, <1>11,
     <1>12, <1>13, <1>14, <1>15, <1>16, <1>17, <1>18, <1>19, <1>20,
     <1>21, <1>22, <1>23, <1>24, <1>25, <1>26 DEF Next, Step

\* Every step keeps the types.
LEMMA TypeStep == TypeOK /\ [Next]_vars => TypeOK'
  BY PlaceStep, FlagsStep, BatchStep DEF TypeOK

\* The record is written by the step that ends the turn, and by no other.
LEMMA ToldStep == TypeOK /\ Told /\ [Next]_vars => Told'
<1> SUFFICES ASSUME PlaceOK, Told, [Next]_vars PROVE Told'
  BY DEF TypeOK
<1> USE DEF Told, PlaceOK
<1>1. CASE Prepare
  BY <1>1 DEF Prepare, ReturnErr
<1>2. CASE BeforeTurn
  BY <1>2 DEF BeforeTurn, ReturnErr, gateVars
<1>3. CASE CancelledAtTop
  BY <1>3 DEF CancelledAtTop, Finish, Complete, gateVars
<1>4. CASE Round
  BY <1>4 DEF Round, gateVars
<1>5. CASE ModelReturns
  BY <1>5 DEF ModelReturns, Take, Finish, Complete, gateVars
<1>6. CASE ModelFails
  BY <1>6 DEF ModelFails, ReturnErr, Finish, Complete, gateVars
<1>7. CASE BeginFallback
  BY <1>7 DEF BeginFallback, gateVars
<1>8. CASE FallbackReturns
  BY <1>8 DEF FallbackReturns, Take, Finish, Complete, gateVars
<1>9. CASE FallbackFails
  BY <1>9 DEF FallbackFails, Continue, NextRound, gateVars
<1>10. CASE Answer
  BY <1>10 DEF Answer, ReturnErr, Finish, Complete, Continue, NextRound, gateVars
<1>11. CASE Blocked
  BY <1>11 DEF Blocked, Result, gateVars
<1>12. CASE Begin
  BY <1>12 DEF Begin, Passes, BeginSubjob, Refused, Execute, CancelledBefore,
      GuardedResult, Result, Finish, Complete, gateVars
<1>13. CASE ToolReturns
  BY <1>13 DEF ToolReturns, GuardedResult, Result, Activates, gateVars
<1>14. CASE ToolTimesOut
  BY <1>14 DEF ToolTimesOut, GuardedResult, Result, gateVars
<1>15. CASE ToolCancelled
  BY <1>15 DEF ToolCancelled, Finish, Complete, gateVars
<1>16. CASE SubjobReturns
  BY <1>16 DEF SubjobReturns, GuardedResult, Result, gateVars
<1>17. CASE EndBatch
  BY <1>17 DEF EndBatch, Finish, Complete, gateVars
<1>18. CASE Evaluate
  BY <1>18 DEF Evaluate, Finish, Complete, Continue, NextRound, gateVars
<1>19. CASE Synthesize
  BY <1>19 DEF Synthesize, ReturnErr, Finish, Complete, gateVars
<1>20. CASE AtGate
  BY <1>20 DEF AtGate, BeginEvaluation, Complete, gateVars
<1>21. CASE Judge
  BY <1>21 DEF Judge, Complete, Retry, NextRound
<1>22. CASE MaxIterationsReached
  BY <1>22 DEF MaxIterationsReached, BeginEvaluation, Complete, gateVars
<1>23. CASE JudgeLast
  BY <1>23 DEF JudgeLast, Complete
<1>24. CASE Cancel
  BY <1>24 DEF Cancel, gateVars
<1>25. CASE Abort
  BY <1>25 DEF Abort
<1>26. CASE UNCHANGED vars
  BY <1>26 DEF vars, gateVars
<1> QED
  BY <1>1, <1>2, <1>3, <1>4, <1>5, <1>6, <1>7, <1>8, <1>9, <1>10, <1>11,
     <1>12, <1>13, <1>14, <1>15, <1>16, <1>17, <1>18, <1>19, <1>20,
     <1>21, <1>22, <1>23, <1>24, <1>25, <1>26 DEF Next, Step

\* A round's end puts its tools on record before anything else is decided.
LEMMA UnsavedStep == Told /\ Unsaved /\ [Next]_vars => Unsaved'
<1> SUFFICES ASSUME Told, Unsaved, [Next]_vars PROVE Unsaved'
  OBVIOUS
<1> USE DEF Told, Unsaved
<1>1. CASE Prepare
  BY <1>1 DEF Prepare, ReturnErr
<1>2. CASE BeforeTurn
  BY <1>2 DEF BeforeTurn, ReturnErr, gateVars
<1>3. CASE CancelledAtTop
  BY <1>3 DEF CancelledAtTop, Finish, Complete, gateVars
<1>4. CASE Round
  BY <1>4 DEF Round, gateVars
<1>5. CASE ModelReturns
  BY <1>5 DEF ModelReturns, Take, Finish, Complete, gateVars
<1>6. CASE ModelFails
  BY <1>6 DEF ModelFails, ReturnErr, Finish, Complete, gateVars
<1>7. CASE BeginFallback
  BY <1>7 DEF BeginFallback, gateVars
<1>8. CASE FallbackReturns
  BY <1>8 DEF FallbackReturns, Take, Finish, Complete, gateVars
<1>9. CASE FallbackFails
  BY <1>9 DEF FallbackFails, Continue, NextRound, gateVars
<1>10. CASE Answer
  BY <1>10 DEF Answer, ReturnErr, Finish, Complete, Continue, NextRound, gateVars
<1>11. CASE Blocked
  BY <1>11 DEF Blocked, Result, gateVars
<1>12. CASE Begin
  BY <1>12 DEF Begin, Passes, BeginSubjob, Refused, Execute, CancelledBefore,
      GuardedResult, Result, Finish, Complete, gateVars
<1>13. CASE ToolReturns
  BY <1>13 DEF ToolReturns, GuardedResult, Result, Activates, gateVars
<1>14. CASE ToolTimesOut
  BY <1>14 DEF ToolTimesOut, GuardedResult, Result, gateVars
<1>15. CASE ToolCancelled
  BY <1>15 DEF ToolCancelled, Finish, Complete, gateVars
<1>16. CASE SubjobReturns
  BY <1>16 DEF SubjobReturns, GuardedResult, Result, gateVars
<1>17. CASE EndBatch
  BY <1>17 DEF EndBatch, Finish, Complete, gateVars
<1>18. CASE Evaluate
  BY <1>18 DEF Evaluate, Finish, Complete, Continue, NextRound, gateVars
<1>19. CASE Synthesize
  BY <1>19 DEF Synthesize, ReturnErr, Finish, Complete, gateVars
<1>20. CASE AtGate
  BY <1>20 DEF AtGate, BeginEvaluation, Complete, gateVars
<1>21. CASE Judge
  BY <1>21 DEF Judge, Complete, Retry, NextRound
<1>22. CASE MaxIterationsReached
  BY <1>22 DEF MaxIterationsReached, BeginEvaluation, Complete, gateVars
<1>23. CASE JudgeLast
  BY <1>23 DEF JudgeLast, Complete
<1>24. CASE Cancel
  BY <1>24 DEF Cancel, gateVars
<1>25. CASE Abort
  BY <1>25 DEF Abort
<1>26. CASE UNCHANGED vars
  BY <1>26 DEF vars, gateVars
<1> QED
  BY <1>1, <1>2, <1>3, <1>4, <1>5, <1>6, <1>7, <1>8, <1>9, <1>10, <1>11,
     <1>12, <1>13, <1>14, <1>15, <1>16, <1>17, <1>18, <1>19, <1>20,
     <1>21, <1>22, <1>23, <1>24, <1>25, <1>26 DEF Next, Step

\* Skills are never taken back, and the tool that executes passed the gate.
LEMMA GateStep == SkillGateHolds /\ [Next]_vars => SkillGateHolds'
<1> SUFFICES ASSUME SkillGateHolds, [Next]_vars PROVE SkillGateHolds'
  OBVIOUS
<1> USE DEF SkillGateHolds
<1>1. CASE Prepare
  BY <1>1 DEF Prepare, ReturnErr, batchVars
<1>2. CASE BeforeTurn
  BY <1>2 DEF BeforeTurn, ReturnErr, batchVars
<1>3. CASE CancelledAtTop
  BY <1>3 DEF CancelledAtTop, Finish, Complete, batchVars
<1>4. CASE Round
  BY <1>4 DEF Round, batchVars
<1>5. CASE ModelReturns
  BY <1>5 DEF ModelReturns, Take, Finish, Complete, batchVars
<1>6. CASE ModelFails
  BY <1>6 DEF ModelFails, ReturnErr, Finish, Complete, batchVars
<1>7. CASE BeginFallback
  BY <1>7 DEF BeginFallback, batchVars
<1>8. CASE FallbackReturns
  BY <1>8 DEF FallbackReturns, Take, Finish, Complete, batchVars
<1>9. CASE FallbackFails
  BY <1>9 DEF FallbackFails, Continue, NextRound, batchVars
<1>10. CASE Answer
  BY <1>10 DEF Answer, ReturnErr, Finish, Complete, Continue, NextRound, batchVars
<1>11. CASE Blocked
  BY <1>11 DEF Blocked, Result
<1>12. CASE Begin
  BY <1>12 DEF Begin, Passes, BeginSubjob, Refused, Execute, CancelledBefore,
      GuardedResult, Result, Finish, Complete
<1>13. CASE ToolReturns
  BY <1>13 DEF ToolReturns, GuardedResult, Result, Activates
<1>14. CASE ToolTimesOut
  BY <1>14 DEF ToolTimesOut, GuardedResult, Result
<1>15. CASE ToolCancelled
  BY <1>15 DEF ToolCancelled, Finish, Complete, batchVars
<1>16. CASE SubjobReturns
  BY <1>16 DEF SubjobReturns, GuardedResult, Result
<1>17. CASE EndBatch
  BY <1>17 DEF EndBatch, Finish, Complete, batchVars
<1>18. CASE Evaluate
  BY <1>18 DEF Evaluate, Finish, Complete, Continue, NextRound, batchVars
<1>19. CASE Synthesize
  BY <1>19 DEF Synthesize, ReturnErr, Finish, Complete, batchVars
<1>20. CASE AtGate
  BY <1>20 DEF AtGate, BeginEvaluation, Complete, batchVars
<1>21. CASE Judge
  BY <1>21 DEF Judge, Complete, Retry, NextRound, batchVars
<1>22. CASE MaxIterationsReached
  BY <1>22 DEF MaxIterationsReached, BeginEvaluation, Complete, batchVars
<1>23. CASE JudgeLast
  BY <1>23 DEF JudgeLast, Complete, batchVars
<1>24. CASE Cancel
  BY <1>24 DEF Cancel, batchVars
<1>25. CASE Abort
  BY <1>25 DEF Abort, batchVars
<1>26. CASE UNCHANGED vars
  BY <1>26 DEF vars, batchVars
<1> QED
  BY <1>1, <1>2, <1>3, <1>4, <1>5, <1>6, <1>7, <1>8, <1>9, <1>10, <1>11,
     <1>12, <1>13, <1>14, <1>15, <1>16, <1>17, <1>18, <1>19, <1>20,
     <1>21, <1>22, <1>23, <1>24, <1>25, <1>26 DEF Next, Step

\* A draft is evaluated under a cancel on the way from the gate, once.
LEMMA LateStep == Late /\ [Next]_vars => Late'
<1> SUFFICES ASSUME Late, [Next]_vars PROVE Late'
  OBVIOUS
<1> USE DEF Late
<1>1. CASE Prepare
  BY <1>1 DEF Prepare, ReturnErr
<1>2. CASE BeforeTurn
  BY <1>2 DEF BeforeTurn, ReturnErr, gateVars
<1>3. CASE CancelledAtTop
  BY <1>3 DEF CancelledAtTop, Finish, Complete, gateVars
<1>4. CASE Round
  BY <1>4 DEF Round, gateVars
<1>5. CASE ModelReturns
  BY <1>5 DEF ModelReturns, Take, Finish, Complete, gateVars
<1>6. CASE ModelFails
  BY <1>6 DEF ModelFails, ReturnErr, Finish, Complete, gateVars
<1>7. CASE BeginFallback
  BY <1>7 DEF BeginFallback, gateVars
<1>8. CASE FallbackReturns
  BY <1>8 DEF FallbackReturns, Take, Finish, Complete, gateVars
<1>9. CASE FallbackFails
  BY <1>9 DEF FallbackFails, Continue, NextRound, gateVars
<1>10. CASE Answer
  BY <1>10 DEF Answer, ReturnErr, Finish, Complete, Continue, NextRound, gateVars
<1>11. CASE Blocked
  BY <1>11 DEF Blocked, Result, gateVars
<1>12. CASE Begin
  BY <1>12 DEF Begin, Passes, BeginSubjob, Refused, Execute, CancelledBefore,
      GuardedResult, Result, Finish, Complete, gateVars
<1>13. CASE ToolReturns
  BY <1>13 DEF ToolReturns, GuardedResult, Result, Activates, gateVars
<1>14. CASE ToolTimesOut
  BY <1>14 DEF ToolTimesOut, GuardedResult, Result, gateVars
<1>15. CASE ToolCancelled
  BY <1>15 DEF ToolCancelled, Finish, Complete, gateVars
<1>16. CASE SubjobReturns
  BY <1>16 DEF SubjobReturns, GuardedResult, Result, gateVars
<1>17. CASE EndBatch
  BY <1>17 DEF EndBatch, Finish, Complete, gateVars
<1>18. CASE Evaluate
  BY <1>18 DEF Evaluate, Finish, Complete, Continue, NextRound, gateVars
<1>19. CASE Synthesize
  BY <1>19 DEF Synthesize, ReturnErr, Finish, Complete, gateVars
<1>20. CASE AtGate
  BY <1>20 DEF AtGate, BeginEvaluation, Complete, gateVars
<1>21. CASE Judge
  BY <1>21 DEF Judge, Complete, Retry, NextRound
<1>22. CASE MaxIterationsReached
  BY <1>22 DEF MaxIterationsReached, BeginEvaluation, Complete, gateVars
<1>23. CASE JudgeLast
  BY <1>23 DEF JudgeLast, Complete
<1>24. CASE Cancel
  BY <1>24 DEF Cancel, gateVars
<1>25. CASE Abort
  BY <1>25 DEF Abort
<1>26. CASE UNCHANGED vars
  BY <1>26 DEF vars, gateVars
<1> QED
  BY <1>1, <1>2, <1>3, <1>4, <1>5, <1>6, <1>7, <1>8, <1>9, <1>10, <1>11,
     <1>12, <1>13, <1>14, <1>15, <1>16, <1>17, <1>18, <1>19, <1>20,
     <1>21, <1>22, <1>23, <1>24, <1>25, <1>26 DEF Next, Step

\* Types, record, batch, gate and cancel hold together at every step of a turn
\* (process_classic_agent_with_events).
THEOREM Invariance == Spec => []IInv
<1>1. IInv /\ [Next]_vars => IInv'
  BY TypeStep, ToldStep, UnsavedStep, GateStep, LateStep DEF IInv
<1> QED
  BY Start, <1>1, PTL DEF Spec

\* The variables keep their types: rounds, nudges and retries stay within their
\* budgets, for any sizes of these (process_classic_agent_with_events).
THEOREM TypeCorrect == Spec => []TypeOK
<1>1. IInv => TypeOK
  BY DEF IInv
<1> QED
  BY Invariance, <1>1, PTL

\* A turn that returns a text has one record and at most one FinalResponse, with
\* every tool that ran unless it was cancelled (finish_turn_with_quality_gate).
THEOREM OneRecord == Spec => []RecordedOnce
<1>1. IInv => RecordedOnce
  BY DEF IInv, Told, Unsaved, RecordedOnce
<1> QED
  BY Invariance, <1>1, PTL

\* Where the gate is among the hooks, no tool runs without the skill it needs
\* unless a dispatch failed or a hook rewrote its input (builtin_turn_skill_gate).
THEOREM GateHolds == Spec => []SkillGateHolds
<1>1. IInv => SkillGateHolds
  BY DEF IInv
<1> QED
  BY Invariance, <1>1, PTL

\* After a cancel request no call of a model, a tool or the post-tool evaluator
\* begins, sub-jobs excepted, and the gate evaluates at most one draft and the
\* text of an exhausted loop (await_with_cancel, finish_turn_with_quality_gate).
THEOREM CancelStops == Spec => CancelStopsWork
<1>1. IInv /\ [Next]_vars
        => [cancel /\ pc' # pc => pc' \notin Calls /\ (pc' = "judging" => ~late)]_vars
  <2> SUFFICES ASSUME Late, [Next]_vars, cancel, pc' # pc
               PROVE  pc' \notin Calls /\ (pc' = "judging" => ~late)
    BY DEF IInv
  <2> USE DEF Calls, Late
  <2>1. CASE Prepare
    BY <2>1 DEF Prepare, ReturnErr
  <2>2. CASE BeforeTurn
    BY <2>2 DEF BeforeTurn, ReturnErr
  <2>3. CASE CancelledAtTop
    BY <2>3 DEF CancelledAtTop, Finish, Complete
  <2>4. CASE Round
    BY <2>4 DEF Round
  <2>5. CASE ModelReturns
    BY <2>5 DEF ModelReturns, Take, Finish, Complete
  <2>6. CASE ModelFails
    BY <2>6 DEF ModelFails, ReturnErr, Finish, Complete
  <2>7. CASE BeginFallback
    BY <2>7 DEF BeginFallback
  <2>8. CASE FallbackReturns
    BY <2>8 DEF FallbackReturns, Take, Finish, Complete
  <2>9. CASE FallbackFails
    BY <2>9 DEF FallbackFails, Continue, NextRound
  <2>10. CASE Answer
    BY <2>10 DEF Answer, ReturnErr, Finish, Complete, Continue, NextRound
  <2>11. CASE Blocked
    BY <2>11 DEF Blocked, Result
  <2>12. CASE Begin
    BY <2>12 DEF Begin, Passes, BeginSubjob, Refused, Execute, CancelledBefore,
      GuardedResult, Result, Finish, Complete
  <2>13. CASE ToolReturns
    BY <2>13 DEF ToolReturns, GuardedResult, Result, Activates
  <2>14. CASE ToolTimesOut
    BY <2>14 DEF ToolTimesOut, GuardedResult, Result
  <2>15. CASE ToolCancelled
    BY <2>15 DEF ToolCancelled, Finish, Complete
  <2>16. CASE SubjobReturns
    BY <2>16 DEF SubjobReturns, GuardedResult, Result
  <2>17. CASE EndBatch
    BY <2>17 DEF EndBatch, Finish, Complete
  <2>18. CASE Evaluate
    BY <2>18 DEF Evaluate, Finish, Complete, Continue, NextRound
  <2>19. CASE Synthesize
    BY <2>19 DEF Synthesize, ReturnErr, Finish, Complete
  <2>20. CASE AtGate
    BY <2>20 DEF AtGate, BeginEvaluation, Complete
  <2>21. CASE Judge
    BY <2>21 DEF Judge, Complete, Retry, NextRound
  <2>22. CASE MaxIterationsReached
    BY <2>22 DEF MaxIterationsReached, BeginEvaluation, Complete
  <2>23. CASE JudgeLast
    BY <2>23 DEF JudgeLast, Complete
  <2>24. CASE Cancel
    BY <2>24 DEF Cancel
  <2>25. CASE Abort
    BY <2>25 DEF Abort
  <2>26. CASE UNCHANGED vars
    BY <2>26 DEF vars
  <2> QED
    BY <2>1, <2>2, <2>3, <2>4, <2>5, <2>6, <2>7, <2>8, <2>9, <2>10, <2>11,
     <2>12, <2>13, <2>14, <2>15, <2>16, <2>17, <2>18, <2>19, <2>20,
     <2>21, <2>22, <2>23, <2>24, <2>25, <2>26 DEF Next, Step
<1> QED
  BY Invariance, <1>1, PTL DEF Spec, CancelStopsWork
=============================================================================
