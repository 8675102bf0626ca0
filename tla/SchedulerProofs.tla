---------------------------- MODULE SchedulerProofs ----------------------------
(***************************************************************************)
(* Proofs about Scheduler: for any number of tasks, personas and runs of a *)
(* task, any period and timeouts, and any number of edits and faults.      *)
(***************************************************************************)
EXTENDS Scheduler, FiniteSetTheorems, TLAPS

\* The types of the variables, the contents of the lanes left out.
Types ==
    /\ status \in [Tasks -> Status]
    /\ kind \in [Tasks -> Kind]
    /\ nextIn \in [Tasks -> 0 .. Period]
    /\ age \in [Tasks -> 0 .. ReclaimAfter + 1]
    /\ persona \in [Tasks -> Personas]
    /\ tick \in {"sleep", "list", "claim", "prepare"}
    /\ due \subseteq Snapshot
    /\ cur \in Snapshot \union {NoSnapshot}
    /\ apc \in [Attempts -> RunPc]
    /\ akind \in [Attempts -> Kind]
    /\ anext \in [Attempts -> 0 .. Period]
    /\ aper \in [Attempts -> Personas]
    /\ ran \in [Attempts -> Nat]
    /\ hour \in 0 .. Period - 1
    /\ edits \in Nat
    /\ faults \in Nat
    /\ reopened \subseteq Tasks

\* A row is held by the tick while its persona is resolved, and only then.
CurHeld == tick = "prepare" <=> cur \in Snapshot

\* The claims of t exclude each other, and an active row has none.
Exclusive(t) ==
    t \notin reopened =>
        /\ \A a, b \in Attempts :
             TaskOf(a) = t /\ TaskOf(b) = t /\ apc[a] # "free" /\ apc[b] # "free" => a = b
        /\ cur.task = t \/ status[t] = "active" =>
             \A a \in Attempts : TaskOf(a) = t => apc[a] = "free"
        /\ status[t] = "active" => cur.task # t

\* The row of a claimed cron task says when the claim's plan does.
Planned(t) ==
    edits = 0 /\ t \notin reopened =>
        /\ cur.task = t /\ cur.kind = "cron" => nextIn[t] = NextCron
        /\ \A a \in Attempts :
             TaskOf(a) = t /\ apc[a] # "free" /\ akind[a] = "cron" => nextIn[t] = anext[a]

IInv == Types /\ CurHeld /\ \A t \in Tasks : Exclusive(t) /\ Planned(t)

\* A run is a run of a task.
LEMMA AttemptTask == \A a \in Attempts : TaskOf(a) \in Tasks
  BY DEF Attempts, TaskOf

\* There is a persona when there is a task.
LEMMA PersonaExists == ASSUME Types, NEW t \in Tasks PROVE SomePersona \in Personas
  BY DEF Types, SomePersona

\* The variables keep their types.
LEMMA TypeStep == Types /\ CurHeld /\ [Next]_vars => Types' /\ CurHeld'
<1> SUFFICES ASSUME Types, CurHeld, [Next]_vars PROVE Types' /\ CurHeld'
  OBVIOUS
<1> USE SchedulerAssumption, AttemptTask DEF Types, CurHeld, Status, Kind, Snapshot,
    NoSnapshot, RunPc, Executing
<1>1. CASE Reclaim
  BY <1>1 DEF Reclaim, Stale, Live, RunsOf, runVars, boundVars
<1>2. CASE ListDue
  BY <1>2 DEF ListDue, IsDue, rowVars, runVars, boundVars
<1>3. ASSUME NEW d \in due, Claim(d) PROVE Types' /\ CurHeld'
  BY <1>3 DEF Claim, Claimable, IsDue, NextCron, runVars, boundVars
<1>4. ASSUME NEW d \in due, ClaimRejected(d) PROVE Types' /\ CurHeld'
  BY <1>4 DEF ClaimRejected, NextTickStep, rowVars, runVars, boundVars
<1>5. CASE PrepareFails
  BY <1>5 DEF PrepareFails, FinalizeRow, RunsOf, NextCron, NextTickStep, runVars,
      boundVars
<1>6. ASSUME NEW a \in Attempts, NEW p \in Personas, Prepare(a, p) PROVE Types' /\ CurHeld'
  BY <1>6 DEF Prepare, NextCron, NextTickStep, rowVars, boundVars
<1>7. ASSUME NEW a \in Attempts, AcquirePermit(a) PROVE Types' /\ CurHeld'
  BY <1>7 DEF AcquirePermit, rowVars, tickVars, boundVars
<1>8. ASSUME NEW a \in Attempts, EnqueueRun(a) PROVE Types' /\ CurHeld'
  BY <1>8 DEF EnqueueRun, rowVars, tickVars, boundVars
<1>9. ASSUME NEW a \in Attempts, Withdraw(a) PROVE Types' /\ CurHeld'
  BY <1>9, PersonaExists DEF Withdraw, Free, rowVars, tickVars, boundVars
<1>10. ASSUME NEW a \in Attempts, StartRun(a) PROVE Types' /\ CurHeld'
  BY <1>10 DEF StartRun, rowVars, tickVars, boundVars
<1>11. ASSUME NEW a \in Attempts, AgentReturns(a) PROVE Types' /\ CurHeld'
  BY <1>11 DEF AgentReturns, rowVars, tickVars, boundVars
<1>12. ASSUME NEW a \in Attempts, AgentTimesOut(a) PROVE Types' /\ CurHeld'
  BY <1>12 DEF AgentTimesOut, rowVars, tickVars, boundVars
<1>13. ASSUME NEW a \in Attempts, Deliver(a) PROVE Types' /\ CurHeld'
  BY <1>13 DEF Deliver, rowVars, tickVars, boundVars
<1>14. ASSUME NEW a \in Attempts, Finalize(a) PROVE Types' /\ CurHeld'
  BY <1>14, PersonaExists DEF Finalize, FinalizeRow, Free, RunsOf, tickVars, boundVars
<1>15. ASSUME NEW a \in Attempts, HardAbort(a) PROVE Types' /\ CurHeld'
  BY <1>15, PersonaExists DEF HardAbort, Free, rowVars, tickVars, boundVars
<1>16. ASSUME NEW a \in Attempts, Panic(a) PROVE Types' /\ CurHeld'
  BY <1>16, PersonaExists DEF Panic, Free, rowVars, tickVars
<1>17. ASSUME NEW t \in Tasks, SetStatus(t) PROVE Types' /\ CurHeld'
  BY <1>17 DEF SetStatus, UserSets, Live, RunsOf, tickVars, runVars
<1>18. ASSUME NEW t \in Tasks, SetSchedule(t) PROVE Types' /\ CurHeld'
  BY <1>18 DEF SetSchedule, UserSets, NextCron, tickVars, runVars
<1>19. ASSUME NEW t \in Tasks, SetPersona(t) PROVE Types' /\ CurHeld'
  BY <1>19 DEF SetPersona, UserSets, tickVars, runVars
<1>20. CASE Restart
  <2>1. \A a \in Attempts : SomePersona \in Personas
    BY PersonaExists
  <2> QED
    BY <1>20, <2>1 DEF Restart, rowVars
<1>21. CASE Elapse
  BY <1>21 DEF Elapse, Down, TimeMayPass, tickVars
<1>22. CASE UNCHANGED vars
  BY <1>22 DEF vars, rowVars, tickVars, runVars, boundVars
<1> QED
  BY <1>1, <1>2, <1>3, <1>4, <1>5, <1>6, <1>7, <1>8, <1>9, <1>10, <1>11, <1>12, <1>13,
      <1>14, <1>15, <1>16, <1>17, <1>18, <1>19, <1>20, <1>21, <1>22 DEF Next, TickStep, RunStep

\* No step gives a task that nobody reopened a second claim.
LEMMA ExclusiveStep ==
    ASSUME Types, CurHeld, NEW t \in Tasks, Exclusive(t), [Next]_vars
    PROVE  Exclusive(t)'
<1> USE SchedulerAssumption, AttemptTask DEF Types, CurHeld, Exclusive, Status, Kind,
    Snapshot, NoSnapshot, RunPc, Executing
<1>1. CASE Reclaim
  BY <1>1 DEF Reclaim, Stale, Live, RunsOf, runVars, boundVars
<1>2. CASE ListDue
  BY <1>2 DEF ListDue, IsDue, rowVars, runVars, boundVars
<1>3. ASSUME NEW d \in due, Claim(d) PROVE Exclusive(t)'
  BY <1>3 DEF Claim, Claimable, IsDue, NextCron, runVars, boundVars
<1>4. ASSUME NEW d \in due, ClaimRejected(d) PROVE Exclusive(t)'
  BY <1>4 DEF ClaimRejected, NextTickStep, rowVars, runVars, boundVars
<1>5. CASE PrepareFails
  BY <1>5 DEF PrepareFails, FinalizeRow, RunsOf, NextCron, NextTickStep, runVars,
      boundVars
<1>6. ASSUME NEW a \in Attempts, NEW p \in Personas, Prepare(a, p) PROVE Exclusive(t)'
  BY <1>6 DEF Prepare, NextCron, NextTickStep, rowVars, boundVars
<1>7. ASSUME NEW a \in Attempts, AcquirePermit(a) PROVE Exclusive(t)'
  BY <1>7 DEF AcquirePermit, rowVars, tickVars, boundVars
<1>8. ASSUME NEW a \in Attempts, EnqueueRun(a) PROVE Exclusive(t)'
  BY <1>8 DEF EnqueueRun, rowVars, tickVars, boundVars
<1>9. ASSUME NEW a \in Attempts, Withdraw(a) PROVE Exclusive(t)'
  BY <1>9 DEF Withdraw, Free, rowVars, tickVars, boundVars
<1>10. ASSUME NEW a \in Attempts, StartRun(a) PROVE Exclusive(t)'
  BY <1>10 DEF StartRun, rowVars, tickVars, boundVars
<1>11. ASSUME NEW a \in Attempts, AgentReturns(a) PROVE Exclusive(t)'
  BY <1>11 DEF AgentReturns, rowVars, tickVars, boundVars
<1>12. ASSUME NEW a \in Attempts, AgentTimesOut(a) PROVE Exclusive(t)'
  BY <1>12 DEF AgentTimesOut, rowVars, tickVars, boundVars
<1>13. ASSUME NEW a \in Attempts, Deliver(a) PROVE Exclusive(t)'
  BY <1>13 DEF Deliver, rowVars, tickVars, boundVars
<1>14. ASSUME NEW a \in Attempts, Finalize(a) PROVE Exclusive(t)'
  BY <1>14 DEF Finalize, FinalizeRow, Free, RunsOf, tickVars, boundVars
<1>15. ASSUME NEW a \in Attempts, HardAbort(a) PROVE Exclusive(t)'
  BY <1>15 DEF HardAbort, Free, rowVars, tickVars, boundVars
<1>16. ASSUME NEW a \in Attempts, Panic(a) PROVE Exclusive(t)'
  BY <1>16 DEF Panic, Free, rowVars, tickVars
<1>17. ASSUME NEW u \in Tasks, SetStatus(u) PROVE Exclusive(t)'
  BY <1>17 DEF SetStatus, UserSets, Live, RunsOf, tickVars, runVars
<1>18. ASSUME NEW u \in Tasks, SetSchedule(u) PROVE Exclusive(t)'
  BY <1>18 DEF SetSchedule, UserSets, NextCron, tickVars, runVars
<1>19. ASSUME NEW u \in Tasks, SetPersona(u) PROVE Exclusive(t)'
  BY <1>19 DEF SetPersona, UserSets, tickVars, runVars
<1>20. CASE Restart
  BY <1>20 DEF Restart, rowVars
<1>21. CASE Elapse
  BY <1>21 DEF Elapse, Down, TimeMayPass, tickVars
<1>22. CASE UNCHANGED vars
  BY <1>22 DEF vars, rowVars, tickVars, runVars, boundVars
<1> QED
  BY <1>1, <1>2, <1>3, <1>4, <1>5, <1>6, <1>7, <1>8, <1>9, <1>10, <1>11, <1>12, <1>13,
      <1>14, <1>15, <1>16, <1>17, <1>18, <1>19, <1>20, <1>21, <1>22 DEF Next, TickStep, RunStep

\* The row and the plan of a claim move together.
LEMMA PlannedStep ==
    ASSUME Types, CurHeld, NEW t \in Tasks, Exclusive(t), Planned(t), [Next]_vars
    PROVE  Planned(t)'
<1> USE SchedulerAssumption, AttemptTask DEF Types, CurHeld, Exclusive, Planned,
    NextCron, Status, Kind, Snapshot, NoSnapshot, RunPc, Executing
<1>1. CASE Reclaim
  BY <1>1 DEF Reclaim, Stale, Live, RunsOf, runVars, boundVars
<1>2. CASE ListDue
  BY <1>2 DEF ListDue, IsDue, rowVars, runVars, boundVars
<1>3. ASSUME NEW d \in due, Claim(d) PROVE Planned(t)'
  BY <1>3 DEF Claim, Claimable, IsDue, NextCron, runVars, boundVars
<1>4. ASSUME NEW d \in due, ClaimRejected(d) PROVE Planned(t)'
  BY <1>4 DEF ClaimRejected, NextTickStep, rowVars, runVars, boundVars
<1>5. CASE PrepareFails
  BY <1>5 DEF PrepareFails, FinalizeRow, RunsOf, NextCron, NextTickStep, runVars,
      boundVars
<1>6. ASSUME NEW a \in Attempts, NEW p \in Personas, Prepare(a, p) PROVE Planned(t)'
  BY <1>6 DEF Prepare, NextCron, NextTickStep, rowVars, boundVars
<1>7. ASSUME NEW a \in Attempts, AcquirePermit(a) PROVE Planned(t)'
  BY <1>7 DEF AcquirePermit, rowVars, tickVars, boundVars
<1>8. ASSUME NEW a \in Attempts, EnqueueRun(a) PROVE Planned(t)'
  BY <1>8 DEF EnqueueRun, rowVars, tickVars, boundVars
<1>9. ASSUME NEW a \in Attempts, Withdraw(a) PROVE Planned(t)'
  BY <1>9 DEF Withdraw, Free, rowVars, tickVars, boundVars
<1>10. ASSUME NEW a \in Attempts, StartRun(a) PROVE Planned(t)'
  BY <1>10 DEF StartRun, rowVars, tickVars, boundVars
<1>11. ASSUME NEW a \in Attempts, AgentReturns(a) PROVE Planned(t)'
  BY <1>11 DEF AgentReturns, rowVars, tickVars, boundVars
<1>12. ASSUME NEW a \in Attempts, AgentTimesOut(a) PROVE Planned(t)'
  BY <1>12 DEF AgentTimesOut, rowVars, tickVars, boundVars
<1>13. ASSUME NEW a \in Attempts, Deliver(a) PROVE Planned(t)'
  BY <1>13 DEF Deliver, rowVars, tickVars, boundVars
<1>14. ASSUME NEW a \in Attempts, Finalize(a) PROVE Planned(t)'
  BY <1>14 DEF Finalize, FinalizeRow, Free, RunsOf, tickVars, boundVars
<1>15. ASSUME NEW a \in Attempts, HardAbort(a) PROVE Planned(t)'
  BY <1>15 DEF HardAbort, Free, rowVars, tickVars, boundVars
<1>16. ASSUME NEW a \in Attempts, Panic(a) PROVE Planned(t)'
  BY <1>16 DEF Panic, Free, rowVars, tickVars
<1>17. ASSUME NEW u \in Tasks, SetStatus(u) PROVE Planned(t)'
  BY <1>17 DEF SetStatus, UserSets, Live, RunsOf, tickVars, runVars
<1>18. ASSUME NEW u \in Tasks, SetSchedule(u) PROVE Planned(t)'
  BY <1>18 DEF SetSchedule, UserSets, NextCron, tickVars, runVars
<1>19. ASSUME NEW u \in Tasks, SetPersona(u) PROVE Planned(t)'
  BY <1>19 DEF SetPersona, UserSets, tickVars, runVars
<1>20. CASE Restart
  BY <1>20 DEF Restart, rowVars
<1>21. CASE Elapse
  BY <1>21 DEF Elapse, Down, TimeMayPass, tickVars
<1>22. CASE UNCHANGED vars
  BY <1>22 DEF vars, rowVars, tickVars, runVars, boundVars
<1> QED
  BY <1>1, <1>2, <1>3, <1>4, <1>5, <1>6, <1>7, <1>8, <1>9, <1>10, <1>11, <1>12, <1>13,
      <1>14, <1>15, <1>16, <1>17, <1>18, <1>19, <1>20, <1>21, <1>22 DEF Next, TickStep, RunStep

LEMMA InitHolds == Init => IInv
<1> SUFFICES ASSUME Init PROVE IInv
  OBVIOUS
<1>1. Types
  <2>1. \A a \in Attempts : SomePersona \in Personas
    BY AttemptTask DEF Init, SomePersona
  <2> QED
    BY <2>1, SchedulerAssumption DEF Init, Types, Status, Kind, RunPc, NoSnapshot
<1>2. CurHeld /\ \A t \in Tasks : cur.task # t
  BY SchedulerAssumption DEF Init, CurHeld, Snapshot, NoSnapshot
<1>3. \A t \in Tasks : Exclusive(t) /\ Planned(t)
  BY <1>2 DEF Init, Exclusive, Planned
<1> QED
  BY <1>1, <1>2, <1>3 DEF IInv

LEMMA StepKeeps == IInv /\ [Next]_vars => IInv'
  BY TypeStep, ExclusiveStep, PlannedStep DEF IInv

\* Rows, ticks and runs keep to the invariant, for any number of them.
THEOREM Invariance == Spec => []IInv
<1> QED
  BY InitHolds, StepKeeps, PTL DEF Spec

\* However ticks, edits, restarts and late runs interleave, two claims of a task
\* live at once only if somebody made its row active under a live run.
THEOREM OneRun == Spec => []OneRunPerClaim
<1>1. ASSUME IInv, NEW t \in Tasks \ reopened
      PROVE  Cardinality(RunsOf(t)) <= 1 /\ (cur.task = t => RunsOf(t) = {})
  <2>1. Exclusive(t)
    BY <1>1 DEF IInv
  <2>2. cur.task = t => RunsOf(t) = {}
    BY <2>1 DEF Exclusive, RunsOf
  <2>3. CASE RunsOf(t) = {}
    BY <2>2, <2>3, FS_EmptySet
  <2>4. ASSUME NEW a \in RunsOf(t) PROVE Cardinality(RunsOf(t)) <= 1
    <3>1. RunsOf(t) = {a}
      BY <2>1, <2>4 DEF Exclusive, RunsOf
    <3> QED
      BY <3>1, FS_Singleton
  <2> QED
    BY <2>2, <2>3, <2>4
<1>2. IInv => OneRunPerClaim
  BY <1>1 DEF OneRunPerClaim
<1> QED
  BY <1>2, Invariance, PTL

\* Without edits and second claims, the next_run that a cron run finalizes with
\* is the one its row has had since the claim (try_mark_task_running,
\* finalize_task_run).
THEOREM PlanKept == Spec => []PlanAgrees
<1>1. ASSUME IInv PROVE PlanAgrees
  <2>1. \A t \in Tasks : Planned(t)
    BY <1>1 DEF IInv
  <2> QED
    BY <2>1, AttemptTask DEF Planned, PlanAgrees
<1> QED
  BY <1>1, Invariance, PTL

\* A row at rest is changed by nobody but the user.
LEMMA StoppedStep ==
    ASSUME Types, CurHeld, [Next]_vars, NEW t \in Tasks,
           status[t] \in {"paused", "completed", "cancelled"}, ~ Live(t), status'[t] # status[t]
    PROVE  edits' # edits
<1> DEFINE Goal == edits' # edits
<1> USE DEF Types, CurHeld, IsDue, Live, RunsOf, Status, Kind, Snapshot, NoSnapshot,
    RunPc, Executing
<1>1. CASE Reclaim
  BY <1>1, AttemptTask DEF Reclaim, Stale, Live, RunsOf, runVars, boundVars
<1>2. CASE ListDue
  BY <1>2, AttemptTask DEF ListDue, IsDue, rowVars, runVars, boundVars
<1>3. ASSUME NEW d \in due, Claim(d) PROVE Goal
  BY <1>3, AttemptTask DEF Claim, Claimable, IsDue, NextCron, runVars, boundVars
<1>4. ASSUME NEW d \in due, ClaimRejected(d) PROVE Goal
  BY <1>4, AttemptTask DEF ClaimRejected, NextTickStep, rowVars, runVars, boundVars
<1>5. CASE PrepareFails
  BY <1>5, AttemptTask DEF PrepareFails, FinalizeRow, RunsOf, NextCron, NextTickStep, runVars,
      boundVars
<1>6. ASSUME NEW a \in Attempts, NEW p \in Personas, Prepare(a, p) PROVE Goal
  BY <1>6, AttemptTask DEF Prepare, NextCron, NextTickStep, rowVars, boundVars
<1>7. ASSUME NEW a \in Attempts, AcquirePermit(a) PROVE Goal
  BY <1>7, AttemptTask DEF AcquirePermit, rowVars, tickVars, boundVars
<1>8. ASSUME NEW a \in Attempts, EnqueueRun(a) PROVE Goal
  BY <1>8, AttemptTask DEF EnqueueRun, rowVars, tickVars, boundVars
<1>9. ASSUME NEW a \in Attempts, Withdraw(a) PROVE Goal
  BY <1>9, AttemptTask DEF Withdraw, Free, rowVars, tickVars, boundVars
<1>10. ASSUME NEW a \in Attempts, StartRun(a) PROVE Goal
  BY <1>10, AttemptTask DEF StartRun, rowVars, tickVars, boundVars
<1>11. ASSUME NEW a \in Attempts, AgentReturns(a) PROVE Goal
  BY <1>11, AttemptTask DEF AgentReturns, rowVars, tickVars, boundVars
<1>12. ASSUME NEW a \in Attempts, AgentTimesOut(a) PROVE Goal
  BY <1>12, AttemptTask DEF AgentTimesOut, rowVars, tickVars, boundVars
<1>13. ASSUME NEW a \in Attempts, Deliver(a) PROVE Goal
  BY <1>13, AttemptTask DEF Deliver, rowVars, tickVars, boundVars
<1>14. ASSUME NEW a \in Attempts, Finalize(a) PROVE Goal
  BY <1>14, AttemptTask DEF Finalize, FinalizeRow, Free, RunsOf, tickVars, boundVars
<1>15. ASSUME NEW a \in Attempts, HardAbort(a) PROVE Goal
  BY <1>15, AttemptTask DEF HardAbort, Free, rowVars, tickVars, boundVars
<1>16. ASSUME NEW a \in Attempts, Panic(a) PROVE Goal
  BY <1>16, AttemptTask DEF Panic, Free, rowVars, tickVars
<1>17. ASSUME NEW u \in Tasks, SetStatus(u) PROVE Goal
  BY <1>17, AttemptTask DEF SetStatus, UserSets, Live, RunsOf, tickVars, runVars
<1>18. ASSUME NEW u \in Tasks, SetSchedule(u) PROVE Goal
  BY <1>18, AttemptTask DEF SetSchedule, UserSets, NextCron, tickVars, runVars
<1>19. ASSUME NEW u \in Tasks, SetPersona(u) PROVE Goal
  BY <1>19, AttemptTask DEF SetPersona, UserSets, tickVars, runVars
<1>20. CASE Restart
  BY <1>20, AttemptTask DEF Restart, rowVars
<1>21. CASE Elapse
  BY <1>21, AttemptTask DEF Elapse, Down, TimeMayPass, tickVars
<1>22. CASE UNCHANGED vars
  BY <1>22, AttemptTask DEF vars, rowVars, tickVars, runVars, boundVars
<1> QED
  BY <1>1, <1>2, <1>3, <1>4, <1>5, <1>6, <1>7, <1>8, <1>9, <1>10, <1>11, <1>12, <1>13,
      <1>14, <1>15, <1>16, <1>17, <1>18, <1>19, <1>20, <1>21, <1>22 DEF Next, TickStep, RunStep

\* A row that the user stopped, or that completed, stays so until it is edited,
\* unless a run of it is alive: try_mark_task_running does not bring it back.
THEOREM StoppedRows == Spec => StoppedStaysStopped
<1>1. IInv /\ [Next]_vars =>
        [\A t \in Tasks :
            /\ status[t] \in {"paused", "completed", "cancelled"}
            /\ ~ Live(t)
            /\ status'[t] # status[t]
            => edits' # edits]_vars
  BY StoppedStep DEF IInv
<1> QED
  BY <1>1, Invariance, PTL DEF Spec, StoppedStaysStopped

===============================================================================
