------------------------ MODULE BackgroundJobsProofs ------------------------
(***************************************************************************)
(* Proofs about BackgroundJobs: for any number of jobs and callers, any    *)
(* lease that outlives a heartbeat period, and any number of restarts,     *)
(* panics, failed writes and missed heartbeats.                            *)
(***************************************************************************)
EXTENDS BackgroundJobs, TLAPS

Formatting == {"save", "process", "format", "deliver", "fallback", "finish", "fail"}

\* The agent of the job works, or returned a result that is on its way.
AtWork(j) == worker[j] = "agent" \/ (raw[j] /\ worker[j] \in Formatting)

\* A job has a worker once it has a row, and a heartbeat once its agent is called.
Begins(j) ==
    /\ status[j] = "none" => worker[j] = "none"
    /\ worker[j] \in {"none", "claimed"} \union Starting => hb[j] = "off" /\ hbRow[j] = "none"

\* Only a worker's last write ends a row as done or as cancelled.
EndWritten(j) == status[j] \in {"done", "cancelled"} => worker[j] = "over"

\* A row that was claimed in this period.
JustClaimed(j) == status[j] \in Active /\ 2 <= lease[j] /\ hbRow[j] = "none" /\ age[j] = 0

\* While the agent works its heartbeat does, and each beat leaves a lease that
\* lasts until after the next one is due.
LeaseHeld(j) ==
    /\ worker[j] = "claimed" => JustClaimed(j)
    /\ AtWork(j) => hb[j] \in {"starting", "beating"}
    /\ AtWork(j) /\ j \notin missed /\ hb[j] = "starting" => JustClaimed(j)
    /\ AtWork(j) /\ j \notin missed /\ hb[j] = "beating" =>
        /\ status[j] \in Active /\ hbRow[j] = "active" /\ hbAge[j] <= 1
        /\ 1 <= lease[j]
        /\ j \notin due => 2 <= lease[j] /\ hbAge[j] = 0

\* Between the agent's return and the last write of a cancelled job no time passes.
CancelPending(j) ==
    worker[j] = "cancel" /\ j \notin missed =>
        /\ status[j] \in Active /\ 1 <= lease[j]
        /\ hbRow[j] = "none" => age[j] = 0
        /\ hbRow[j] = "active" => hbAge[j] <= 1

\* A stopped job still carries its flag, or is past the place that reads it.
StopKept(j) ==
    /\ j \in told => j \in stopped
    /\ j \in stopped =>
        /\ j \notin told /\ status[j] # "done"
        /\ \/ worker[j] \in BeforeReturn /\ j \in flagged
           \/ worker[j] \in {"cancel", "over", "dead"}

JobInv(j) == Begins(j) /\ EndWritten(j) /\ LeaseHeld(j) /\ CancelPending(j) /\ StopKept(j)

IInv == TypeOK /\ \A j \in Jobs : JobInv(j)


\* The variables keep their types.
LEMMA TypeStep == TypeOK /\ [Next]_vars => TypeOK'
<1> SUFFICES ASSUME TypeOK, [Next]_vars PROVE TypeOK'
  OBVIOUS
<1> USE JobsAssumption DEF TypeOK, Status, Active, Terminal, Worker, Starting, Prompt,
    Waiting
<1>1. ASSUME NEW c \in Callers, Count(c) PROVE TypeOK'
  BY <1>1 DEF Count, rowVars, beatVars, runVars
<1>2. ASSUME NEW c \in Callers, CreateFails(c) PROVE TypeOK'
  BY <1>2 DEF CreateFails, rowVars, beatVars, runVars, Fault
<1>3. ASSUME NEW c \in Callers, NEW k \in Jobs, Create(c, k) PROVE TypeOK'
  <2>1. status' \in [Jobs -> Status] /\ age' \in [Jobs -> 0 .. MaxAge]
    <3>1. 0 \in 0 .. MaxAge
      BY DEF MaxAge
    <3> QED
      BY <1>3, <3>1 DEF Create
  <2>2. worker' \in [Jobs -> Worker] /\ caller' \in [Callers -> {"idle", "counted"}]
    BY <1>3 DEF Create
  <2> QED
    BY <1>3, <2>1, <2>2 DEF Create, beatVars
<1>4. ASSUME NEW k \in Jobs, Register(k) PROVE TypeOK'
  BY <1>4 DEF Register, Goto, rowVars, beatVars
<1>5. ASSUME NEW k \in Jobs, Claim(k) PROVE TypeOK'
  <2>1. status' \in [Jobs -> Status] /\ lease' \in [Jobs -> 0 .. LeaseTtl]
    BY <1>5 DEF Claim, SetRow
  <2>2. age' \in [Jobs -> 0 .. MaxAge]
    <3>1. 0 \in 0 .. MaxAge
      BY DEF MaxAge
    <3> QED
      BY <1>5, <3>1 DEF Claim
  <2>3. worker' \in [Jobs -> Worker]
    BY <1>5 DEF Claim, Goto
  <2> QED
    BY <1>5, <2>1, <2>2, <2>3 DEF Claim, beatVars
<1>6. ASSUME NEW k \in Jobs, ClaimRejected(k) PROVE TypeOK'
  BY <1>6 DEF ClaimRejected, Fail, SetRow, EndWorker, Fault
<1>7. ASSUME NEW k \in Jobs, BeginAgent(k) PROVE TypeOK'
  BY <1>7 DEF BeginAgent, Goto, rowVars
<1>8. ASSUME NEW k \in Jobs, AgentReturns(k) PROVE TypeOK'
  BY <1>8 DEF AgentReturns, Goto, rowVars
<1>9. ASSUME NEW k \in Jobs, MarkCancelled(k) PROVE TypeOK'
  BY <1>9 DEF MarkCancelled, Cancelled, SetRow, Lost, Fault, EndWorker
<1>10. ASSUME NEW k \in Jobs, Save(k) PROVE TypeOK'
  BY <1>10 DEF Save, CompletedRaw, SetRow, Lost, Fault, Goto, beatVars
<1>11. ASSUME NEW k \in Jobs, Process(k) PROVE TypeOK'
  BY <1>11 DEF Process, MainAgentProcessing, SetRow, Lost, Fault, Goto, beatVars
<1>12. ASSUME NEW k \in Jobs, Format(k) PROVE TypeOK'
  BY <1>12 DEF Format, Goto, rowVars, beatVars
<1>13. ASSUME NEW k \in Jobs, Deliver(k) PROVE TypeOK'
  BY <1>13 DEF Deliver, Goto, rowVars, beatVars
<1>14. ASSUME NEW k \in Jobs, MarkDone(k) PROVE TypeOK'
  BY <1>14 DEF MarkDone, Done, SetRow, Lost, Fault, EndWorker
<1>15. ASSUME NEW k \in Jobs, MarkFailed(k) PROVE TypeOK'
  BY <1>15 DEF MarkFailed, Fail, SetRow, Lost, Fault, EndWorker
<1>16. ASSUME NEW k \in Jobs, HeartbeatBegins(k) PROVE TypeOK'
  BY <1>16 DEF HeartbeatBegins, rowVars, runVars, Upsert, NoUpsert, Miss, NoMiss, Fault
<1>17. ASSUME NEW k \in Jobs, Beat(k) PROVE TypeOK'
  BY <1>17 DEF Beat, runVars, Renew, Live, Upsert, NoUpsert, Miss, NoMiss, Fault
<1>18. ASSUME NEW k \in Jobs, HeartbeatEnds(k) PROVE TypeOK'
  BY <1>18 DEF HeartbeatEnds, rowVars, runVars, Live, Upsert, NoUpsert, Miss, NoMiss,
      Fault
<1>19. ASSUME NEW k \in Jobs, Panic(k) PROVE TypeOK'
  BY <1>19 DEF Panic, Goto, Fault, rowVars
<1>20. ASSUME NEW k \in Jobs, Cancel(k) PROVE TypeOK'
  BY <1>20 DEF Cancel, rowVars, beatVars
<1>21. CASE FailStaleHeartbeats
  BY <1>21 DEF FailStaleHeartbeats, StaleHeartbeat, FailAll, runVars
<1>22. CASE FailStalePending
  BY <1>22 DEF FailStalePending, FailAll, beatVars, runVars
<1>23. CASE FailExpired
  BY <1>23 DEF FailExpired, Expired, FailAll, beatVars, runVars
<1>24. CASE FailOrphans
  BY <1>24 DEF FailOrphans, FailAll, beatVars, runVars
<1>25. CASE Restart
  BY <1>25 DEF Restart, Fault, rowVars, Live
<1>26. CASE Elapse
  BY <1>26 DEF Elapse, runVars, LeaseLeft, Older, Aging, TimeMayPass, MaxAge
<1>27. CASE UNCHANGED vars
  BY <1>27 DEF vars, rowVars, beatVars, runVars
<1> QED
  BY <1>1, <1>2, <1>3, <1>4, <1>5, <1>6, <1>7, <1>8, <1>9, <1>10, <1>11, <1>12, <1>13,
      <1>14, <1>15, <1>16, <1>17, <1>18, <1>19, <1>20, <1>21, <1>22, <1>23, <1>24,
      <1>25, <1>26, <1>27 DEF Next, WorkerStep, HeartbeatStep, Tick

\* The row, its worker and its heartbeat begin in this order.
LEMMA BeginsStep ==
    ASSUME TypeOK, NEW j \in Jobs, Begins(j), [Next]_vars
    PROVE  Begins(j)'
<1> USE JobsAssumption DEF TypeOK, Begins, Status, Active, Terminal, Worker, Starting,
    Prompt, Waiting
<1>1. ASSUME NEW c \in Callers, Count(c) PROVE Begins(j)'
  BY <1>1 DEF Count, rowVars, beatVars, runVars
<1>2. ASSUME NEW c \in Callers, CreateFails(c) PROVE Begins(j)'
  BY <1>2 DEF CreateFails, rowVars, beatVars, runVars, Fault
<1>3. ASSUME NEW c \in Callers, NEW k \in Jobs, Create(c, k) PROVE Begins(j)'
  BY <1>3 DEF Create, beatVars
<1>4. ASSUME NEW k \in Jobs, Register(k) PROVE Begins(j)'
  BY <1>4 DEF Register, Goto, rowVars, beatVars
<1>5. ASSUME NEW k \in Jobs, Claim(k) PROVE Begins(j)'
  BY <1>5 DEF Claim, SetRow, Goto, beatVars
<1>6. ASSUME NEW k \in Jobs, ClaimRejected(k) PROVE Begins(j)'
  BY <1>6 DEF ClaimRejected, Fail, SetRow, EndWorker, Fault
<1>7. ASSUME NEW k \in Jobs, BeginAgent(k) PROVE Begins(j)'
  BY <1>7 DEF BeginAgent, Goto, rowVars
<1>8. ASSUME NEW k \in Jobs, AgentReturns(k) PROVE Begins(j)'
  BY <1>8 DEF AgentReturns, Goto, rowVars
<1>9. ASSUME NEW k \in Jobs, MarkCancelled(k) PROVE Begins(j)'
  BY <1>9 DEF MarkCancelled, Cancelled, SetRow, Lost, Fault, EndWorker
<1>10. ASSUME NEW k \in Jobs, Save(k) PROVE Begins(j)'
  BY <1>10 DEF Save, CompletedRaw, SetRow, Lost, Fault, Goto, beatVars
<1>11. ASSUME NEW k \in Jobs, Process(k) PROVE Begins(j)'
  BY <1>11 DEF Process, MainAgentProcessing, SetRow, Lost, Fault, Goto, beatVars
<1>12. ASSUME NEW k \in Jobs, Format(k) PROVE Begins(j)'
  BY <1>12 DEF Format, Goto, rowVars, beatVars
<1>13. ASSUME NEW k \in Jobs, Deliver(k) PROVE Begins(j)'
  BY <1>13 DEF Deliver, Goto, rowVars, beatVars
<1>14. ASSUME NEW k \in Jobs, MarkDone(k) PROVE Begins(j)'
  BY <1>14 DEF MarkDone, Done, SetRow, Lost, Fault, EndWorker
<1>15. ASSUME NEW k \in Jobs, MarkFailed(k) PROVE Begins(j)'
  BY <1>15 DEF MarkFailed, Fail, SetRow, Lost, Fault, EndWorker
<1>16. ASSUME NEW k \in Jobs, HeartbeatBegins(k) PROVE Begins(j)'
  BY <1>16 DEF HeartbeatBegins, rowVars, runVars, Upsert, NoUpsert, Miss, NoMiss, Fault
<1>17. ASSUME NEW k \in Jobs, Beat(k) PROVE Begins(j)'
  BY <1>17 DEF Beat, runVars, Renew, Live, Upsert, NoUpsert, Miss, NoMiss, Fault
<1>18. ASSUME NEW k \in Jobs, HeartbeatEnds(k) PROVE Begins(j)'
  BY <1>18 DEF HeartbeatEnds, rowVars, runVars, Live, Upsert, NoUpsert, Miss, NoMiss,
      Fault
<1>19. ASSUME NEW k \in Jobs, Panic(k) PROVE Begins(j)'
  BY <1>19 DEF Panic, Goto, Fault, rowVars
<1>20. ASSUME NEW k \in Jobs, Cancel(k) PROVE Begins(j)'
  BY <1>20 DEF Cancel, rowVars, beatVars
<1>21. CASE FailStaleHeartbeats
  BY <1>21 DEF FailStaleHeartbeats, StaleHeartbeat, FailAll, runVars
<1>22. CASE FailStalePending
  BY <1>22 DEF FailStalePending, FailAll, beatVars, runVars
<1>23. CASE FailExpired
  BY <1>23 DEF FailExpired, Expired, FailAll, beatVars, runVars
<1>24. CASE FailOrphans
  BY <1>24 DEF FailOrphans, FailAll, beatVars, runVars
<1>25. CASE Restart
  BY <1>25 DEF Restart, Fault, rowVars, Live
<1>26. CASE Elapse
  BY <1>26 DEF Elapse, runVars, LeaseLeft, Older, Aging, TimeMayPass, MaxAge
<1>27. CASE UNCHANGED vars
  BY <1>27 DEF vars, rowVars, beatVars, runVars
<1> QED
  BY <1>1, <1>2, <1>3, <1>4, <1>5, <1>6, <1>7, <1>8, <1>9, <1>10, <1>11, <1>12, <1>13,
      <1>14, <1>15, <1>16, <1>17, <1>18, <1>19, <1>20, <1>21, <1>22, <1>23, <1>24,
      <1>25, <1>26, <1>27 DEF Next, WorkerStep, HeartbeatStep, Tick

\* An end is written with the worker's last step.
LEMMA EndWrittenStep ==
    ASSUME TypeOK, NEW j \in Jobs, EndWritten(j), Begins(j), [Next]_vars
    PROVE  EndWritten(j)'
<1> USE JobsAssumption DEF TypeOK, EndWritten, Begins, Status, Active, Terminal, Worker,
    Starting, Prompt, Waiting
<1>1. ASSUME NEW c \in Callers, Count(c) PROVE EndWritten(j)'
  BY <1>1 DEF Count, rowVars, beatVars, runVars
<1>2. ASSUME NEW c \in Callers, CreateFails(c) PROVE EndWritten(j)'
  BY <1>2 DEF CreateFails, rowVars, beatVars, runVars, Fault
<1>3. ASSUME NEW c \in Callers, NEW k \in Jobs, Create(c, k) PROVE EndWritten(j)'
  BY <1>3 DEF Create, beatVars
<1>4. ASSUME NEW k \in Jobs, Register(k) PROVE EndWritten(j)'
  BY <1>4 DEF Register, Goto, rowVars, beatVars
<1>5. ASSUME NEW k \in Jobs, Claim(k) PROVE EndWritten(j)'
  BY <1>5 DEF Claim, SetRow, Goto, beatVars
<1>6. ASSUME NEW k \in Jobs, ClaimRejected(k) PROVE EndWritten(j)'
  BY <1>6 DEF ClaimRejected, Fail, SetRow, EndWorker, Fault
<1>7. ASSUME NEW k \in Jobs, BeginAgent(k) PROVE EndWritten(j)'
  BY <1>7 DEF BeginAgent, Goto, rowVars
<1>8. ASSUME NEW k \in Jobs, AgentReturns(k) PROVE EndWritten(j)'
  BY <1>8 DEF AgentReturns, Goto, rowVars
<1>9. ASSUME NEW k \in Jobs, MarkCancelled(k) PROVE EndWritten(j)'
  BY <1>9 DEF MarkCancelled, Cancelled, SetRow, Lost, Fault, EndWorker
<1>10. ASSUME NEW k \in Jobs, Save(k) PROVE EndWritten(j)'
  BY <1>10 DEF Save, CompletedRaw, SetRow, Lost, Fault, Goto, beatVars
<1>11. ASSUME NEW k \in Jobs, Process(k) PROVE EndWritten(j)'
  BY <1>11 DEF Process, MainAgentProcessing, SetRow, Lost, Fault, Goto, beatVars
<1>12. ASSUME NEW k \in Jobs, Format(k) PROVE EndWritten(j)'
  BY <1>12 DEF Format, Goto, rowVars, beatVars
<1>13. ASSUME NEW k \in Jobs, Deliver(k) PROVE EndWritten(j)'
  BY <1>13 DEF Deliver, Goto, rowVars, beatVars
<1>14. ASSUME NEW k \in Jobs, MarkDone(k) PROVE EndWritten(j)'
  BY <1>14 DEF MarkDone, Done, SetRow, Lost, Fault, EndWorker
<1>15. ASSUME NEW k \in Jobs, MarkFailed(k) PROVE EndWritten(j)'
  BY <1>15 DEF MarkFailed, Fail, SetRow, Lost, Fault, EndWorker
<1>16. ASSUME NEW k \in Jobs, HeartbeatBegins(k) PROVE EndWritten(j)'
  BY <1>16 DEF HeartbeatBegins, rowVars, runVars, Upsert, NoUpsert, Miss, NoMiss, Fault
<1>17. ASSUME NEW k \in Jobs, Beat(k) PROVE EndWritten(j)'
  BY <1>17 DEF Beat, runVars, Renew, Live, Upsert, NoUpsert, Miss, NoMiss, Fault
<1>18. ASSUME NEW k \in Jobs, HeartbeatEnds(k) PROVE EndWritten(j)'
  BY <1>18 DEF HeartbeatEnds, rowVars, runVars, Live, Upsert, NoUpsert, Miss, NoMiss,
      Fault
<1>19. ASSUME NEW k \in Jobs, Panic(k) PROVE EndWritten(j)'
  BY <1>19 DEF Panic, Goto, Fault, rowVars
<1>20. ASSUME NEW k \in Jobs, Cancel(k) PROVE EndWritten(j)'
  BY <1>20 DEF Cancel, rowVars, beatVars
<1>21. CASE FailStaleHeartbeats
  BY <1>21 DEF FailStaleHeartbeats, StaleHeartbeat, FailAll, runVars
<1>22. CASE FailStalePending
  BY <1>22 DEF FailStalePending, FailAll, beatVars, runVars
<1>23. CASE FailExpired
  BY <1>23 DEF FailExpired, Expired, FailAll, beatVars, runVars
<1>24. CASE FailOrphans
  BY <1>24 DEF FailOrphans, FailAll, beatVars, runVars
<1>25. CASE Restart
  BY <1>25 DEF Restart, Fault, rowVars, Live
<1>26. CASE Elapse
  BY <1>26 DEF Elapse, runVars, LeaseLeft, Older, Aging, TimeMayPass, MaxAge
<1>27. CASE UNCHANGED vars
  BY <1>27 DEF vars, rowVars, beatVars, runVars
<1> QED
  BY <1>1, <1>2, <1>3, <1>4, <1>5, <1>6, <1>7, <1>8, <1>9, <1>10, <1>11, <1>12, <1>13,
      <1>14, <1>15, <1>16, <1>17, <1>18, <1>19, <1>20, <1>21, <1>22, <1>23, <1>24,
      <1>25, <1>26, <1>27 DEF Next, WorkerStep, HeartbeatStep, Tick

\* No reconciler finds a reason to fail the row of a job at work.
LEMMA LeaseHeldStep ==
    ASSUME TypeOK, NEW j \in Jobs, LeaseHeld(j), Begins(j), EndWritten(j), [Next]_vars
    PROVE  LeaseHeld(j)'
<1> USE JobsAssumption DEF TypeOK, LeaseHeld, Begins, AtWork, JustClaimed, Formatting,
    Status, Active, Terminal, Worker, Starting, Prompt, Waiting
<1>1. ASSUME NEW c \in Callers, Count(c) PROVE LeaseHeld(j)'
  BY <1>1 DEF Count, rowVars, beatVars, runVars
<1>2. ASSUME NEW c \in Callers, CreateFails(c) PROVE LeaseHeld(j)'
  BY <1>2 DEF CreateFails, rowVars, beatVars, runVars, Fault
<1>3. ASSUME NEW c \in Callers, NEW k \in Jobs, Create(c, k) PROVE LeaseHeld(j)'
  BY <1>3 DEF Create, beatVars
<1>4. ASSUME NEW k \in Jobs, Register(k) PROVE LeaseHeld(j)'
  BY <1>4 DEF Register, Goto, rowVars, beatVars
<1>5. ASSUME NEW k \in Jobs, Claim(k) PROVE LeaseHeld(j)'
  BY <1>5 DEF Claim, SetRow, Goto, beatVars
<1>6. ASSUME NEW k \in Jobs, ClaimRejected(k) PROVE LeaseHeld(j)'
  BY <1>6 DEF ClaimRejected, Fail, SetRow, EndWorker, Fault
<1>7. ASSUME NEW k \in Jobs, BeginAgent(k) PROVE LeaseHeld(j)'
  BY <1>7 DEF BeginAgent, Goto, rowVars
<1>8. ASSUME NEW k \in Jobs, AgentReturns(k) PROVE LeaseHeld(j)'
  BY <1>8 DEF AgentReturns, Goto, rowVars
<1>9. ASSUME NEW k \in Jobs, MarkCancelled(k) PROVE LeaseHeld(j)'
  BY <1>9 DEF MarkCancelled, Cancelled, SetRow, Lost, Fault, EndWorker
<1>10. ASSUME NEW k \in Jobs, Save(k) PROVE LeaseHeld(j)'
  BY <1>10 DEF Save, CompletedRaw, SetRow, Lost, Fault, Goto, beatVars
<1>11. ASSUME NEW k \in Jobs, Process(k) PROVE LeaseHeld(j)'
  BY <1>11 DEF Process, MainAgentProcessing, SetRow, Lost, Fault, Goto, beatVars
<1>12. ASSUME NEW k \in Jobs, Format(k) PROVE LeaseHeld(j)'
  BY <1>12 DEF Format, Goto, rowVars, beatVars
<1>13. ASSUME NEW k \in Jobs, Deliver(k) PROVE LeaseHeld(j)'
  BY <1>13 DEF Deliver, Goto, rowVars, beatVars
<1>14. ASSUME NEW k \in Jobs, MarkDone(k) PROVE LeaseHeld(j)'
  BY <1>14 DEF MarkDone, Done, SetRow, Lost, Fault, EndWorker
<1>15. ASSUME NEW k \in Jobs, MarkFailed(k) PROVE LeaseHeld(j)'
  BY <1>15 DEF MarkFailed, Fail, SetRow, Lost, Fault, EndWorker
<1>16. ASSUME NEW k \in Jobs, HeartbeatBegins(k) PROVE LeaseHeld(j)'
  <2>1. hb[k] \in {"starting"} /\ UNCHANGED <<status, age, worker, raw>>
    BY <1>16 DEF HeartbeatBegins, rowVars, runVars
  <2>2. k # j => UNCHANGED <<lease[j], hbRow[j], hbAge[j], hb[j]>> /\ (j \in due' <=> j \in due)
    BY <1>16 DEF HeartbeatBegins, Upsert, NoUpsert, Renew, rowVars
  <2>3. missed \subseteq missed'
    BY <1>16 DEF HeartbeatBegins, Miss, NoMiss
  <2>4. CASE k # j
    BY <2>1, <2>2, <2>3, <2>4
  <2>5. CASE k = j /\ Miss(k)
    <3>1. AtWork(j) => j \in missed'
      BY <2>5 DEF Miss, Live
    <3>2. hb'[j] \in {"beating"} \union {hb[j]}
      BY <1>16, <2>5 DEF HeartbeatBegins
    <3>3. worker[j] # "claimed"
      BY <2>1, <2>5
    <3> QED
      BY <2>1, <2>5, <3>1, <3>2, <3>3
  <2>6. CASE k = j /\ Upsert(k, "active") /\ NoMiss
    BY <1>16, <2>1, <2>6 DEF HeartbeatBegins, Upsert, NoMiss, rowVars
  <2> QED
    BY <1>16, <2>4, <2>5, <2>6 DEF HeartbeatBegins
<1>17. ASSUME NEW k \in Jobs, Beat(k) PROVE LeaseHeld(j)'
  <2>1. hb[k] \in {"beating", "ending"} /\ UNCHANGED <<status, age, worker, raw>>
    BY <1>17 DEF Beat, rowVars, runVars
  <2>2. k # j => UNCHANGED <<lease[j], hbRow[j], hbAge[j], hb[j]>> /\ (j \in due' <=> j \in due)
    BY <1>17 DEF Beat, Upsert, NoUpsert, Renew, rowVars
  <2>3. missed \subseteq missed'
    BY <1>17 DEF Beat, Miss, NoMiss
  <2>4. CASE k # j
    BY <2>1, <2>2, <2>3, <2>4
  <2>5. CASE k = j /\ Miss(k)
    <3>1. AtWork(j) => j \in missed'
      BY <2>5 DEF Miss, Live
    <3>2. hb'[j] \in {"beating"} \union {hb[j]}
      BY <1>17, <2>5 DEF Beat
    <3>3. worker[j] # "claimed"
      BY <2>1, <2>5
    <3> QED
      BY <2>1, <2>5, <3>1, <3>2, <3>3
  <2>6. CASE k = j /\ Upsert(k, "active") /\ Renew(k) /\ NoMiss
    <3>1. hb' = hb /\ hbRow'[j] = "active" /\ hbAge'[j] = 0 /\ missed' = missed
      BY <1>17, <2>6 DEF Beat, Upsert, NoMiss
    <3>2. status[j] \in Active => lease'[j] = LeaseTtl
      BY <2>6 DEF Renew
    <3>3. worker[j] # "claimed" /\ hb[j] # "starting"
      BY <2>1, <2>6
    <3> QED
      BY <2>1, <2>6, <3>1, <3>2, <3>3
  <2> QED
    BY <1>17, <2>4, <2>5, <2>6 DEF Beat
<1>18. ASSUME NEW k \in Jobs, HeartbeatEnds(k) PROVE LeaseHeld(j)'
  BY <1>18 DEF HeartbeatEnds, rowVars, runVars, Live, Upsert, NoUpsert, Miss, NoMiss,
      Fault
<1>19. ASSUME NEW k \in Jobs, Panic(k) PROVE LeaseHeld(j)'
  BY <1>19 DEF Panic, Goto, Fault, rowVars
<1>20. ASSUME NEW k \in Jobs, Cancel(k) PROVE LeaseHeld(j)'
  BY <1>20 DEF Cancel, rowVars, beatVars
<1>21. CASE FailStaleHeartbeats
  BY <1>21 DEF FailStaleHeartbeats, StaleHeartbeat, FailAll, runVars
<1>22. CASE FailStalePending
  BY <1>22 DEF FailStalePending, FailAll, beatVars, runVars
<1>23. CASE FailExpired
  BY <1>23 DEF FailExpired, Expired, FailAll, beatVars, runVars
<1>24. CASE FailOrphans
  BY <1>24 DEF FailOrphans, FailAll, beatVars, runVars
<1>25. CASE Restart
  BY <1>25 DEF Restart, Fault, rowVars, Live
<1>26. CASE Elapse
  BY <1>26 DEF Elapse, runVars, LeaseLeft, Older, Aging, TimeMayPass, MaxAge
<1>27. CASE UNCHANGED vars
  BY <1>27 DEF vars, rowVars, beatVars, runVars
<1> QED
  BY <1>1, <1>2, <1>3, <1>4, <1>5, <1>6, <1>7, <1>8, <1>9, <1>10, <1>11, <1>12, <1>13,
      <1>14, <1>15, <1>16, <1>17, <1>18, <1>19, <1>20, <1>21, <1>22, <1>23, <1>24,
      <1>25, <1>26, <1>27 DEF Next, WorkerStep, HeartbeatStep, Tick

\* A cancelled job's row is active until it is marked.
LEMMA CancelPendingStep ==
    ASSUME TypeOK, NEW j \in Jobs, CancelPending(j), Begins(j), LeaseHeld(j), [Next]_vars
    PROVE  CancelPending(j)'
<1> USE JobsAssumption DEF TypeOK, CancelPending, LeaseHeld, Begins, AtWork,
    JustClaimed, Formatting, Status, Active, Terminal, Worker, Starting, Prompt, Waiting
<1>1. ASSUME NEW c \in Callers, Count(c) PROVE CancelPending(j)'
  BY <1>1 DEF Count, rowVars, beatVars, runVars
<1>2. ASSUME NEW c \in Callers, CreateFails(c) PROVE CancelPending(j)'
  BY <1>2 DEF CreateFails, rowVars, beatVars, runVars, Fault
<1>3. ASSUME NEW c \in Callers, NEW k \in Jobs, Create(c, k) PROVE CancelPending(j)'
  BY <1>3 DEF Create, beatVars
<1>4. ASSUME NEW k \in Jobs, Register(k) PROVE CancelPending(j)'
  BY <1>4 DEF Register, Goto, rowVars, beatVars
<1>5. ASSUME NEW k \in Jobs, Claim(k) PROVE CancelPending(j)'
  BY <1>5 DEF Claim, SetRow, Goto, beatVars
<1>6. ASSUME NEW k \in Jobs, ClaimRejected(k) PROVE CancelPending(j)'
  BY <1>6 DEF ClaimRejected, Fail, SetRow, EndWorker, Fault
<1>7. ASSUME NEW k \in Jobs, BeginAgent(k) PROVE CancelPending(j)'
  BY <1>7 DEF BeginAgent, Goto, rowVars
<1>8. ASSUME NEW k \in Jobs, AgentReturns(k) PROVE CancelPending(j)'
  BY <1>8 DEF AgentReturns, Goto, rowVars
<1>9. ASSUME NEW k \in Jobs, MarkCancelled(k) PROVE CancelPending(j)'
  BY <1>9 DEF MarkCancelled, Cancelled, SetRow, Lost, Fault, EndWorker
<1>10. ASSUME NEW k \in Jobs, Save(k) PROVE CancelPending(j)'
  BY <1>10 DEF Save, CompletedRaw, SetRow, Lost, Fault, Goto, beatVars
<1>11. ASSUME NEW k \in Jobs, Process(k) PROVE CancelPending(j)'
  BY <1>11 DEF Process, MainAgentProcessing, SetRow, Lost, Fault, Goto, beatVars
<1>12. ASSUME NEW k \in Jobs, Format(k) PROVE CancelPending(j)'
  BY <1>12 DEF Format, Goto, rowVars, beatVars
<1>13. ASSUME NEW k \in Jobs, Deliver(k) PROVE CancelPending(j)'
  BY <1>13 DEF Deliver, Goto, rowVars, beatVars
<1>14. ASSUME NEW k \in Jobs, MarkDone(k) PROVE CancelPending(j)'
  BY <1>14 DEF MarkDone, Done, SetRow, Lost, Fault, EndWorker
<1>15. ASSUME NEW k \in Jobs, MarkFailed(k) PROVE CancelPending(j)'
  BY <1>15 DEF MarkFailed, Fail, SetRow, Lost, Fault, EndWorker
<1>16. ASSUME NEW k \in Jobs, HeartbeatBegins(k) PROVE CancelPending(j)'
  BY <1>16 DEF HeartbeatBegins, rowVars, runVars, Upsert, NoUpsert, Miss, NoMiss, Fault
<1>17. ASSUME NEW k \in Jobs, Beat(k) PROVE CancelPending(j)'
  BY <1>17 DEF Beat, runVars, Renew, Live, Upsert, NoUpsert, Miss, NoMiss, Fault
<1>18. ASSUME NEW k \in Jobs, HeartbeatEnds(k) PROVE CancelPending(j)'
  BY <1>18 DEF HeartbeatEnds, rowVars, runVars, Live, Upsert, NoUpsert, Miss, NoMiss,
      Fault
<1>19. ASSUME NEW k \in Jobs, Panic(k) PROVE CancelPending(j)'
  BY <1>19 DEF Panic, Goto, Fault, rowVars
<1>20. ASSUME NEW k \in Jobs, Cancel(k) PROVE CancelPending(j)'
  BY <1>20 DEF Cancel, rowVars, beatVars
<1>21. CASE FailStaleHeartbeats
  <2> SUFFICES ASSUME worker[j] = "cancel", j \notin missed PROVE CancelPending(j)'
    BY <1>21 DEF FailStaleHeartbeats, runVars
  <2>1. ~ StaleHeartbeat(j)
    BY DEF StaleHeartbeat
  <2>2. UNCHANGED <<status[j], lease[j], hbRow[j], hbAge[j], age[j], worker[j]>>
    BY <1>21, <2>1 DEF FailStaleHeartbeats, FailAll, runVars
  <2> QED
    BY <2>2
<1>22. CASE FailStalePending
  BY <1>22 DEF FailStalePending, FailAll, beatVars, runVars
<1>23. CASE FailExpired
  BY <1>23 DEF FailExpired, Expired, FailAll, beatVars, runVars
<1>24. CASE FailOrphans
  BY <1>24 DEF FailOrphans, FailAll, beatVars, runVars
<1>25. CASE Restart
  BY <1>25 DEF Restart, Fault, rowVars, Live
<1>26. CASE Elapse
  BY <1>26 DEF Elapse, runVars, LeaseLeft, Older, Aging, TimeMayPass, MaxAge
<1>27. CASE UNCHANGED vars
  BY <1>27 DEF vars, rowVars, beatVars, runVars
<1> QED
  BY <1>1, <1>2, <1>3, <1>4, <1>5, <1>6, <1>7, <1>8, <1>9, <1>10, <1>11, <1>12, <1>13,
      <1>14, <1>15, <1>16, <1>17, <1>18, <1>19, <1>20, <1>21, <1>22, <1>23, <1>24,
      <1>25, <1>26, <1>27 DEF Next, WorkerStep, HeartbeatStep, Tick

\* No step after the agent's return takes a stopped job to its delivery.
LEMMA StopKeptStep ==
    ASSUME TypeOK, NEW j \in Jobs, StopKept(j), Begins(j), EndWritten(j), [Next]_vars
    PROVE  StopKept(j)'
<1> USE JobsAssumption DEF TypeOK, StopKept, Begins, EndWritten, BeforeReturn, Status,
    Active, Terminal, Worker, Starting, Prompt, Waiting
<1>1. ASSUME NEW c \in Callers, Count(c) PROVE StopKept(j)'
  BY <1>1 DEF Count, rowVars, beatVars, runVars
<1>2. ASSUME NEW c \in Callers, CreateFails(c) PROVE StopKept(j)'
  BY <1>2 DEF CreateFails, rowVars, beatVars, runVars, Fault
<1>3. ASSUME NEW c \in Callers, NEW k \in Jobs, Create(c, k) PROVE StopKept(j)'
  BY <1>3 DEF Create, beatVars
<1>4. ASSUME NEW k \in Jobs, Register(k) PROVE StopKept(j)'
  BY <1>4 DEF Register, Goto, rowVars, beatVars
<1>5. ASSUME NEW k \in Jobs, Claim(k) PROVE StopKept(j)'
  BY <1>5 DEF Claim, SetRow, Goto, beatVars
<1>6. ASSUME NEW k \in Jobs, ClaimRejected(k) PROVE StopKept(j)'
  BY <1>6 DEF ClaimRejected, Fail, SetRow, EndWorker, Fault
<1>7. ASSUME NEW k \in Jobs, BeginAgent(k) PROVE StopKept(j)'
  BY <1>7 DEF BeginAgent, Goto, rowVars
<1>8. ASSUME NEW k \in Jobs, AgentReturns(k) PROVE StopKept(j)'
  BY <1>8 DEF AgentReturns, Goto, rowVars
<1>9. ASSUME NEW k \in Jobs, MarkCancelled(k) PROVE StopKept(j)'
  BY <1>9 DEF MarkCancelled, Cancelled, SetRow, Lost, Fault, EndWorker
<1>10. ASSUME NEW k \in Jobs, Save(k) PROVE StopKept(j)'
  BY <1>10 DEF Save, CompletedRaw, SetRow, Lost, Fault, Goto, beatVars
<1>11. ASSUME NEW k \in Jobs, Process(k) PROVE StopKept(j)'
  BY <1>11 DEF Process, MainAgentProcessing, SetRow, Lost, Fault, Goto, beatVars
<1>12. ASSUME NEW k \in Jobs, Format(k) PROVE StopKept(j)'
  BY <1>12 DEF Format, Goto, rowVars, beatVars
<1>13. ASSUME NEW k \in Jobs, Deliver(k) PROVE StopKept(j)'
  BY <1>13 DEF Deliver, Goto, rowVars, beatVars
<1>14. ASSUME NEW k \in Jobs, MarkDone(k) PROVE StopKept(j)'
  BY <1>14 DEF MarkDone, Done, SetRow, Lost, Fault, EndWorker
<1>15. ASSUME NEW k \in Jobs, MarkFailed(k) PROVE StopKept(j)'
  BY <1>15 DEF MarkFailed, Fail, SetRow, Lost, Fault, EndWorker
<1>16. ASSUME NEW k \in Jobs, HeartbeatBegins(k) PROVE StopKept(j)'
  BY <1>16 DEF HeartbeatBegins, rowVars, runVars, Upsert, NoUpsert, Miss, NoMiss, Fault
<1>17. ASSUME NEW k \in Jobs, Beat(k) PROVE StopKept(j)'
  BY <1>17 DEF Beat, runVars, Renew, Live, Upsert, NoUpsert, Miss, NoMiss, Fault
<1>18. ASSUME NEW k \in Jobs, HeartbeatEnds(k) PROVE StopKept(j)'
  BY <1>18 DEF HeartbeatEnds, rowVars, runVars, Live, Upsert, NoUpsert, Miss, NoMiss,
      Fault
<1>19. ASSUME NEW k \in Jobs, Panic(k) PROVE StopKept(j)'
  BY <1>19 DEF Panic, Goto, Fault, rowVars
<1>20. ASSUME NEW k \in Jobs, Cancel(k) PROVE StopKept(j)'
  BY <1>20 DEF Cancel, rowVars, beatVars
<1>21. CASE FailStaleHeartbeats
  BY <1>21 DEF FailStaleHeartbeats, StaleHeartbeat, FailAll, runVars
<1>22. CASE FailStalePending
  BY <1>22 DEF FailStalePending, FailAll, beatVars, runVars
<1>23. CASE FailExpired
  BY <1>23 DEF FailExpired, Expired, FailAll, beatVars, runVars
<1>24. CASE FailOrphans
  BY <1>24 DEF FailOrphans, FailAll, beatVars, runVars
<1>25. CASE Restart
  BY <1>25 DEF Restart, Fault, rowVars, Live
<1>26. CASE Elapse
  BY <1>26 DEF Elapse, runVars, LeaseLeft, Older, Aging, TimeMayPass, MaxAge
<1>27. CASE UNCHANGED vars
  BY <1>27 DEF vars, rowVars, beatVars, runVars
<1> QED
  BY <1>1, <1>2, <1>3, <1>4, <1>5, <1>6, <1>7, <1>8, <1>9, <1>10, <1>11, <1>12, <1>13,
      <1>14, <1>15, <1>16, <1>17, <1>18, <1>19, <1>20, <1>21, <1>22, <1>23, <1>24,
      <1>25, <1>26, <1>27 DEF Next, WorkerStep, HeartbeatStep, Tick

\* Nothing has begun in the initial state.
LEMMA Start == Init => IInv
<1> SUFFICES ASSUME Init PROVE IInv
  OBVIOUS
<1>1. TypeOK
  <2>1. 0 \in 0 .. MaxAge /\ 0 \in 0 .. StaleAfter + 1 /\ 0 \in 0 .. LeaseTtl /\ 0 \in 0 .. MaxFaults
    BY JobsAssumption DEF MaxAge
  <2> QED
    BY <2>1 DEF Init, TypeOK, Status, Worker
<1>2. ASSUME NEW j \in Jobs PROVE JobInv(j)
  <2>1. status[j] = "none" /\ worker[j] = "none" /\ hb[j] = "off" /\ hbRow[j] = "none"
    BY DEF Init
  <2>2. told = {} /\ stopped = {}
    BY DEF Init
  <2> QED
    BY <2>1, <2>2 DEF JobInv, Begins, EndWritten, LeaseHeld, CancelPending, StopKept, AtWork, Formatting
<1> QED
  BY <1>1, <1>2 DEF IInv

LEMMA StepKeeps == IInv /\ [Next]_vars => IInv'
<1> SUFFICES ASSUME IInv, [Next]_vars PROVE IInv'
  OBVIOUS
<1>1. TypeOK'
  BY TypeStep DEF IInv
<1>2. ASSUME NEW j \in Jobs PROVE JobInv(j)'
  <2>1. TypeOK /\ Begins(j) /\ EndWritten(j) /\ LeaseHeld(j) /\ CancelPending(j) /\ StopKept(j)
    BY DEF IInv, JobInv
  <2> QED
    BY <2>1, BeginsStep, EndWrittenStep, LeaseHeldStep, CancelPendingStep, StopKeptStep DEF JobInv
<1> QED
  BY <1>1, <1>2 DEF IInv

\* Rows, workers, heartbeats and flags keep their types, and to the invariant of
\* every job, through restarts, panics and failed writes.
THEOREM Invariance == Spec => []IInv
<1> QED
  BY Start, StepKeeps, PTL DEF Spec

\* A job whose agent works, or whose result is formatted and delivered, keeps its
\* row, however long that takes, as long as no write of its heartbeat is lost or
\* late and whatever else happens (spawn_shared_heartbeat,
\* reconcile_expired_background_job_leases and the other reconcilers).
THEOREM LiveJobsKept == Spec => []LiveJobKeepsRow
<1>1. ASSUME IInv PROVE LiveJobKeepsRow
  <2> SUFFICES ASSUME NEW j \in Jobs \ missed, worker[j] = "claimed" \/ AtWork(j)
               PROVE  status[j] \in Active
    BY DEF LiveJobKeepsRow, AtWork, Formatting
  <2>1. LeaseHeld(j)
    BY <1>1 DEF IInv, JobInv
  <2> QED
    BY <2>1 DEF LeaseHeld, JustClaimed
<1> QED
  BY <1>1, Invariance, PTL

\* No job that was stopped before its agent returned delivers a reply or ends as
\* done (spawn_background_job, api_background_job_cancel).
THEOREM StopsHonoured == Spec => []StopHonoured
<1>1. ASSUME IInv PROVE StopHonoured
  <2> SUFFICES ASSUME NEW j \in stopped PROVE j \notin told /\ status[j] # "done"
    BY DEF StopHonoured
  <2>1. j \in Jobs
    BY <1>1 DEF IInv, TypeOK
  <2> QED
    BY <1>1, <2>1 DEF IInv, JobInv, StopKept
<1> QED
  BY <1>1, Invariance, PTL

\* Only a worker whose run failed, or whose heartbeat missed a beat, rewrites an
\* ended row.
LEMMA EndRewritten ==
    ASSUME IInv, [Next]_vars, NEW j \in Jobs, status[j] \in Terminal, status'[j] # status[j]
    PROVE  status[j] = "failed" /\ Live(j) /\ (~ raw[j] \/ j \in missed)
<1> DEFINE Goal == status[j] = "failed" /\ Live(j) /\ (~ raw[j] \/ j \in missed)
<1>0. TypeOK /\ Begins(j) /\ EndWritten(j) /\ LeaseHeld(j) /\ CancelPending(j)
  BY DEF IInv, JobInv
<1> USE JobsAssumption DEF TypeOK, Begins, EndWritten, LeaseHeld, CancelPending, AtWork,
    JustClaimed, Formatting, Live, Status, Active, Terminal, Worker, Starting, Prompt,
    Waiting
<1>1. ASSUME NEW c \in Callers, Count(c) PROVE Goal
  BY <1>0, <1>1 DEF Count, rowVars, beatVars, runVars
<1>2. ASSUME NEW c \in Callers, CreateFails(c) PROVE Goal
  BY <1>0, <1>2 DEF CreateFails, rowVars, beatVars, runVars, Fault
<1>3. ASSUME NEW c \in Callers, NEW k \in Jobs, Create(c, k) PROVE Goal
  BY <1>0, <1>3 DEF Create, beatVars
<1>4. ASSUME NEW k \in Jobs, Register(k) PROVE Goal
  BY <1>0, <1>4 DEF Register, Goto, rowVars, beatVars
<1>5. ASSUME NEW k \in Jobs, Claim(k) PROVE Goal
  BY <1>0, <1>5 DEF Claim, SetRow, Goto, beatVars
<1>6. ASSUME NEW k \in Jobs, ClaimRejected(k) PROVE Goal
  BY <1>0, <1>6 DEF ClaimRejected, Fail, SetRow, EndWorker, Fault
<1>7. ASSUME NEW k \in Jobs, BeginAgent(k) PROVE Goal
  BY <1>0, <1>7 DEF BeginAgent, Goto, rowVars
<1>8. ASSUME NEW k \in Jobs, AgentReturns(k) PROVE Goal
  BY <1>0, <1>8 DEF AgentReturns, Goto, rowVars
<1>9. ASSUME NEW k \in Jobs, MarkCancelled(k) PROVE Goal
  BY <1>0, <1>9 DEF MarkCancelled, Cancelled, SetRow, Lost, Fault, EndWorker
<1>10. ASSUME NEW k \in Jobs, Save(k) PROVE Goal
  BY <1>0, <1>10 DEF Save, CompletedRaw, SetRow, Lost, Fault, Goto, beatVars
<1>11. ASSUME NEW k \in Jobs, Process(k) PROVE Goal
  BY <1>0, <1>11 DEF Process, MainAgentProcessing, SetRow, Lost, Fault, Goto, beatVars
<1>12. ASSUME NEW k \in Jobs, Format(k) PROVE Goal
  BY <1>0, <1>12 DEF Format, Goto, rowVars, beatVars
<1>13. ASSUME NEW k \in Jobs, Deliver(k) PROVE Goal
  BY <1>0, <1>13 DEF Deliver, Goto, rowVars, beatVars
<1>14. ASSUME NEW k \in Jobs, MarkDone(k) PROVE Goal
  BY <1>0, <1>14 DEF MarkDone, Done, SetRow, Lost, Fault, EndWorker
<1>15. ASSUME NEW k \in Jobs, MarkFailed(k) PROVE Goal
  BY <1>0, <1>15 DEF MarkFailed, Fail, SetRow, Lost, Fault, EndWorker
<1>16. ASSUME NEW k \in Jobs, HeartbeatBegins(k) PROVE Goal
  BY <1>0, <1>16 DEF HeartbeatBegins, rowVars, runVars, Upsert, NoUpsert, Miss, NoMiss, Fault
<1>17. ASSUME NEW k \in Jobs, Beat(k) PROVE Goal
  BY <1>0, <1>17 DEF Beat, runVars, Renew, Live, Upsert, NoUpsert, Miss, NoMiss, Fault
<1>18. ASSUME NEW k \in Jobs, HeartbeatEnds(k) PROVE Goal
  BY <1>0, <1>18 DEF HeartbeatEnds, rowVars, runVars, Live, Upsert, NoUpsert, Miss, NoMiss,
      Fault
<1>19. ASSUME NEW k \in Jobs, Panic(k) PROVE Goal
  BY <1>0, <1>19 DEF Panic, Goto, Fault, rowVars
<1>20. ASSUME NEW k \in Jobs, Cancel(k) PROVE Goal
  BY <1>0, <1>20 DEF Cancel, rowVars, beatVars
<1>21. CASE FailStaleHeartbeats
  BY <1>0, <1>21 DEF FailStaleHeartbeats, StaleHeartbeat, FailAll, runVars
<1>22. CASE FailStalePending
  BY <1>0, <1>22 DEF FailStalePending, FailAll, beatVars, runVars
<1>23. CASE FailExpired
  BY <1>0, <1>23 DEF FailExpired, Expired, FailAll, beatVars, runVars
<1>24. CASE FailOrphans
  BY <1>0, <1>24 DEF FailOrphans, FailAll, beatVars, runVars
<1>25. CASE Restart
  BY <1>0, <1>25 DEF Restart, Fault, rowVars, Live
<1>26. CASE Elapse
  BY <1>0, <1>26 DEF Elapse, runVars, LeaseLeft, Older, Aging, TimeMayPass, MaxAge
<1>27. CASE UNCHANGED vars
  BY <1>0, <1>27 DEF vars, rowVars, beatVars, runVars
<1> QED
  BY <1>1, <1>2, <1>3, <1>4, <1>5, <1>6, <1>7, <1>8, <1>9, <1>10, <1>11, <1>12, <1>13,
      <1>14, <1>15, <1>16, <1>17, <1>18, <1>19, <1>20, <1>21, <1>22, <1>23, <1>24,
      <1>25, <1>26, <1>27 DEF Next, WorkerStep, HeartbeatStep, Tick

\* A row that ended stays as it ended, but for a failed one that a worker at its
\* last steps, of a failed run or after a missed beat, writes once more.
THEOREM EndsKept == Spec => EndsStay
<1>1. ASSUME IInv, [Next]_vars
      PROVE  [\A j \in Jobs : status[j] \in Terminal /\ status'[j] # status[j]
                  => status[j] = "failed" /\ Live(j) /\ (~ raw[j] \/ j \in missed)]_vars
  BY <1>1, EndRewritten
<1> QED
  BY <1>1, Invariance, PTL DEF Spec, EndsStay
=============================================================================
