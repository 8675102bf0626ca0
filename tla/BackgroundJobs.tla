--------------------------- MODULE BackgroundJobs ---------------------------
(***************************************************************************)
(* Agent background jobs of one chat (src/src/background_jobs.rs, the      *)
(* background_jobs and job_heartbeats rows of src/src/db.rs, and the       *)
(* heartbeat task of src/src/job_heartbeat.rs).  Callers count the chat's  *)
(* active rows and create one; a worker claims it, runs the agent, formats *)
(* and delivers a reply; a heartbeat task renews the row's lease while the *)
(* agent runs; the scheduler's tick fails the rows nobody looks after.     *)
(*                                                                         *)
(* Time is counted in heartbeat periods                                    *)
(* (background_job_lease_fallback_renew_secs).  A heartbeat beats once per *)
(* period; the agent, the formatting call and the delivery take any time,  *)
(* a worker gets its first turn within StartDelay, and the database calls  *)
(* between those take none.  Leases and ages are kept relative to the      *)
(* present and saturate.                                                   *)
(***************************************************************************)
EXTENDS Naturals, FiniteSets

CONSTANTS
    Jobs,
    Callers,        \* web handlers and scheduler runs of the chat
    LeaseTtl,       \* background_job_lease_ttl_secs
    RawLease,       \* the 120 s lease of a completed_raw row
    PendingTimeout, \* background_job_pending_start_timeout_secs
    StaleAfter,     \* scheduler_stale_running_reclaim_secs
    StartDelay,     \* bound: periods before a spawned worker has claimed
    MaxFaults       \* bound: restarts, panics, failed database calls, late beats

\* A lease outlives a heartbeat period, as the defaults (60, 120, 1800 s) have it.
ASSUME JobsAssumption ==
    /\ {LeaseTtl, RawLease, PendingTimeout, StaleAfter} \subseteq Nat \ {0}
    /\ 2 <= RawLease /\ RawLease <= LeaseTtl
    /\ {StartDelay, MaxFaults} \subseteq Nat

VARIABLES
    caller,     \* caller[c]: between the count and the insert, or not
    status,     \* the row's status, "none" before it is created
    lease,      \* periods until lease_expires_at, 0 once that is past or NULL
    age,        \* periods since created_at, since started_at once claimed
    hbRow,      \* the active column of the job's heartbeat row
    hbAge,      \* periods since its updated_at
    worker,     \* where the task of spawn_background_job stands
    raw,        \* raw_success: the agent returned a result
    hb,         \* the heartbeat task
    due,        \* heartbeats whose ticker has fired in this period
    missed,     \* history: jobs at work of which a heartbeat's write was lost or late
    registered, \* jobs in the BackgroundJobControl registry
    flagged,    \* jobs whose cancel flag is set
    told,       \* history: stopped jobs whose final reply was delivered
    stopped,    \* history: jobs flagged before their agent returned
    faults      \* faults so far

rowVars == <<status, lease, age>>
beatVars == <<hbRow, hbAge, hb, due, missed>>
runVars == <<worker, raw, registered, flagged, told, stopped>>
vars == <<caller, rowVars, beatVars, runVars, faults>>

Active == {"running", "completed_raw", "main_agent_processing"}
Terminal == {"done", "failed", "cancelled"}
Status == {"none", "pending"} \union Active \union Terminal

\* Stages whose next step is a database call, and those that wait for something.
Prompt == {"claimed", "cancel", "save", "process", "finish", "fail"}
Waiting == {"agent", "format", "deliver", "fallback"}
Starting == {"spawned", "registered"}
Worker == {"none", "over", "dead"} \union Starting \union Prompt \union Waiting

MaxAge == IF PendingTimeout > StaleAfter THEN PendingTimeout + 1 ELSE StaleAfter + 1

TypeOK ==
    /\ caller \in [Callers -> {"idle", "counted"}]
    /\ status \in [Jobs -> Status]
    /\ lease \in [Jobs -> 0 .. LeaseTtl]
    /\ age \in [Jobs -> 0 .. MaxAge]
    /\ hbRow \in [Jobs -> {"none", "active", "inactive"}]
    /\ hbAge \in [Jobs -> 0 .. StaleAfter + 1]
    /\ worker \in [Jobs -> Worker]
    /\ raw \in [Jobs -> BOOLEAN]
    /\ hb \in [Jobs -> {"off", "starting", "beating", "ending"}]
    /\ {due, missed, registered, flagged, told, stopped} \subseteq SUBSET Jobs
    /\ faults \in 0 .. MaxFaults

Init ==
    /\ caller = [c \in Callers |-> "idle"]
    /\ status = [j \in Jobs |-> "none"]
    /\ lease = [j \in Jobs |-> 0]
    /\ age = [j \in Jobs |-> 0]
    /\ hbRow = [j \in Jobs |-> "none"]
    /\ hbAge = [j \in Jobs |-> 0]
    /\ worker = [j \in Jobs |-> "none"]
    /\ raw = [j \in Jobs |-> FALSE]
    /\ hb = [j \in Jobs |-> "off"]
    /\ due = {}
    /\ missed = {}
    /\ registered = {}
    /\ flagged = {}
    /\ told = {}
    /\ stopped = {}
    /\ faults = 0

Fault == faults < MaxFaults /\ faults' = faults + 1

Live(j) == worker[j] \in Starting \union Prompt \union Waiting

----------------------------------------------------------------------------
(* The row's writes; the worker ignores a write that fails. *)

SetRow(j, s, l) ==
    /\ status' = [status EXCEPT ![j] = s]
    /\ lease' = [lease EXCEPT ![j] = l]

Lost == Fault /\ UNCHANGED <<status, lease>>

CompletedRaw(j) == SetRow(j, "completed_raw", RawLease)
MainAgentProcessing(j) == SetRow(j, "main_agent_processing", LeaseTtl)
Done(j) == SetRow(j, "done", 0)
Fail(j) == SetRow(j, "failed", 0)
Cancelled(j) == SetRow(j, "cancelled", 0)

FailAll(S) ==
    /\ status' = [j \in Jobs |-> IF j \in S THEN "failed" ELSE status[j]]
    /\ lease' = [j \in Jobs |-> IF j \in S THEN 0 ELSE lease[j]]

----------------------------------------------------------------------------
(* try_enqueue_background_handoff *)

\* count_active_background_jobs_for_chat.
Counted(j) ==
    \/ status[j] = "pending" /\ age[j] <= PendingTimeout
    \/ status[j] \in Active /\ lease[j] > 0

\* The count finds no active row; otherwise BlockedAlreadyRunning is returned.
\* A caller that goes on has an id left in Jobs.
Count(c) ==
    /\ caller[c] = "idle"
    /\ ~ \E j \in Jobs : Counted(j)
    /\ Cardinality({d \in Callers : caller[d] = "counted"}) < Cardinality({j \in Jobs : status[j] = "none"})
    /\ caller' = [caller EXCEPT ![c] = "counted"]
    /\ UNCHANGED <<rowVars, beatVars, runVars, faults>>

\* The row is inserted and its worker spawned.
Create(c, j) ==
    /\ caller[c] = "counted"
    /\ status[j] = "none"
    /\ caller' = [caller EXCEPT ![c] = "idle"]
    /\ status' = [status EXCEPT ![j] = "pending"]
    /\ age' = [age EXCEPT ![j] = 0]
    /\ worker' = [worker EXCEPT ![j] = "spawned"]
    /\ UNCHANGED <<lease, beatVars, raw, registered, flagged, told, stopped, faults>>

CreateFails(c) ==
    /\ caller[c] = "counted"
    /\ Fault
    /\ caller' = [caller EXCEPT ![c] = "idle"]
    /\ UNCHANGED <<rowVars, beatVars, runVars>>

----------------------------------------------------------------------------
(* spawn_background_job *)

\* The task is over: control.finish, and its end of the heartbeat channel drops.
EndWorker(j) ==
    /\ worker' = [worker EXCEPT ![j] = "over"]
    /\ registered' = registered \ {j}
    /\ flagged' = flagged \ {j}
    /\ raw' = [raw EXCEPT ![j] = FALSE]
    /\ hb' = [hb EXCEPT ![j] = IF @ = "off" THEN "off" ELSE "ending"]
    /\ missed' = missed \ {j}
    /\ UNCHANGED <<caller, age, hbRow, hbAge, due, told, stopped>>

Goto(j, stage) == worker' = [worker EXCEPT ![j] = stage]

Register(j) ==
    /\ worker[j] = "spawned"
    /\ Goto(j, "registered")
    /\ registered' = registered \union {j}
    /\ UNCHANGED <<caller, rowVars, beatVars, raw, flagged, told, stopped, faults>>

\* claim_background_job_running.
Claim(j) ==
    /\ worker[j] = "registered"
    /\ status[j] = "pending"
    /\ SetRow(j, "running", LeaseTtl)
    /\ age' = [age EXCEPT ![j] = 0]
    /\ Goto(j, "claimed")
    /\ UNCHANGED <<caller, beatVars, raw, registered, flagged, told, stopped, faults>>

\* Another call failed the row first, or the claim itself fails: either way
\* the row is failed without a look at its status.
ClaimRejected(j) ==
    /\ worker[j] = "registered"
    /\ \/ status[j] # "pending" /\ UNCHANGED faults
       \/ status[j] = "pending" /\ Fault
    /\ Fail(j)
    /\ EndWorker(j)

BeginAgent(j) ==
    /\ worker[j] = "claimed"
    /\ \/ j \in flagged /\ Goto(j, "cancel") /\ UNCHANGED hb
       \/ j \notin flagged /\ Goto(j, "agent") /\ hb' = [hb EXCEPT ![j] = "starting"]
    /\ UNCHANGED <<caller, rowVars, hbRow, hbAge, due, missed, raw, registered, flagged,
                   told, stopped, faults>>

\* Fault for mutation: the flag is not read again after the agent's run.
AgentReturnsUnchecked(j) ==
    /\ worker[j] = "agent"
    /\ \E ok \in BOOLEAN :
        /\ raw' = [raw EXCEPT ![j] = ok]
        /\ Goto(j, "save")
        /\ hb' = [hb EXCEPT ![j] = IF ok THEN @ ELSE "ending"]
    /\ UNCHANGED <<caller, rowVars, hbRow, hbAge, due, missed, registered, flagged,
                   told, stopped, faults>>

\* The agent's run ends with a result or an error; an error or a cancellation
\* ends the heartbeat too.
AgentReturns(j) ==
    /\ worker[j] = "agent"
    /\ \E ok \in BOOLEAN :
        /\ raw' = [raw EXCEPT ![j] = ok]
        /\ Goto(j, IF j \in flagged THEN "cancel" ELSE "save")
        /\ hb' = [hb EXCEPT ![j] = IF ok /\ j \notin flagged THEN @ ELSE "ending"]
    /\ UNCHANGED <<caller, rowVars, hbRow, hbAge, due, missed, registered, flagged,
                   told, stopped, faults>>

MarkCancelled(j) ==
    /\ worker[j] = "cancel"
    /\ \/ Cancelled(j) /\ UNCHANGED faults
       \/ Lost
    /\ EndWorker(j)

Save(j) ==
    /\ worker[j] = "save"
    /\ \/ CompletedRaw(j) /\ UNCHANGED faults
       \/ Lost
    /\ Goto(j, "process")
    /\ UNCHANGED <<caller, age, beatVars, raw, registered, flagged, told, stopped>>

Process(j) ==
    /\ worker[j] = "process"
    /\ \/ MainAgentProcessing(j) /\ UNCHANGED faults
       \/ Lost
    /\ Goto(j, "format")
    /\ UNCHANGED <<caller, age, beatVars, raw, registered, flagged, told, stopped>>

\* The formatting call to the model: a reply, or the raw text as a fallback.
Format(j) ==
    /\ worker[j] = "format"
    /\ \/ Goto(j, "deliver")
       \/ Goto(j, "fallback")
    /\ UNCHANGED <<caller, rowVars, beatVars, raw, registered, flagged, told,
                   stopped, faults>>

\* deliver_agent_final_to_contact; the fallback's outcome is not looked at.
Deliver(j) ==
    /\ \/ worker[j] = "deliver" /\ told' = told \union ({j} \intersect stopped) /\ Goto(j, "finish")
       \/ worker[j] = "deliver" /\ told' = told /\ Goto(j, "fail")
       \/ worker[j] = "fallback" /\ told' \in {told, told \union ({j} \intersect stopped)} /\ Goto(j, "fail")
    /\ UNCHANGED <<caller, rowVars, beatVars, raw, registered, flagged, stopped, faults>>

MarkDone(j) ==
    /\ worker[j] = "finish"
    /\ \/ Done(j) /\ UNCHANGED faults
       \/ Lost
    /\ EndWorker(j)

MarkFailed(j) ==
    /\ worker[j] = "fail"
    /\ \/ Fail(j) /\ UNCHANGED faults
       \/ Lost
    /\ EndWorker(j)

\* A panic drops the heartbeat channel but leaves the registration.
Panic(j) ==
    /\ worker[j] \in Waiting
    /\ Fault
    /\ Goto(j, "dead")
    /\ hb' = [hb EXCEPT ![j] = IF @ = "off" THEN "off" ELSE "ending"]
    /\ raw' = [raw EXCEPT ![j] = FALSE]
    /\ UNCHANGED <<caller, rowVars, hbRow, hbAge, due, missed, registered, flagged, told,
                   stopped>>

----------------------------------------------------------------------------
(* spawn_shared_heartbeat *)

\* Upserts the heartbeat row; the task goes on when that fails.
Upsert(j, active) ==
    /\ hbRow' = [hbRow EXCEPT ![j] = active]
    /\ hbAge' = [hbAge EXCEPT ![j] = 0]

NoUpsert == UNCHANGED <<hbRow, hbAge>>

Renew(j) == lease' = [lease EXCEPT ![j] = IF status[j] \in Active THEN LeaseTtl ELSE @]

\* A write of the heartbeat is lost.
Miss(j) == Fault /\ missed' = IF Live(j) THEN missed \union {j} ELSE missed

NoMiss == UNCHANGED <<missed, faults>>

\* The first upsert; the ticker's first tick fires at once.
HeartbeatBegins(j) ==
    /\ hb[j] = "starting"
    /\ hb' = [hb EXCEPT ![j] = "beating"]
    /\ \/ Upsert(j, "active") /\ NoMiss
       \/ NoUpsert /\ Miss(j)
    /\ due' = due \union {j}
    /\ UNCHANGED <<caller, rowVars, runVars>>

\* Fault for mutation: the heartbeat row is written, the lease is not renewed.
BeatWithoutRenewal(j) ==
    /\ hb[j] \in {"beating", "ending"}
    /\ j \in due
    /\ due' = due \ {j}
    /\ Upsert(j, "active")
    /\ NoMiss
    /\ UNCHANGED <<caller, rowVars, hb, runVars>>

\* A tick, or a progress signal: the upsert, then renew_background_job_lease.
\* Either may fail, and both are late while a progress message is delivered.
Beat(j) ==
    /\ hb[j] \in {"beating", "ending"}
    /\ j \in due
    /\ due' = due \ {j}
    /\ \/ Upsert(j, "active") /\ Renew(j) /\ NoMiss
       \/ Upsert(j, "active") /\ UNCHANGED lease /\ Miss(j)
       \/ NoUpsert /\ Renew(j) /\ Miss(j)
       \/ NoUpsert /\ UNCHANGED lease /\ Miss(j)
    /\ UNCHANGED <<caller, status, age, hb, runVars>>

\* Finished, Failed, or the closed channel of a worker that ended without either.
HeartbeatEnds(j) ==
    /\ hb[j] = "ending"
    /\ hb' = [hb EXCEPT ![j] = "off"]
    /\ \/ Upsert(j, "inactive") /\ NoMiss
       \/ NoUpsert /\ Miss(j)
    /\ due' = due \ {j}
    /\ UNCHANGED <<caller, rowVars, runVars>>

----------------------------------------------------------------------------
(* The reconcilers of a scheduler tick, each one database call *)

\* Fault for mutation: active heartbeats are not looked at again.
NoStaleHeartbeat(j) == FALSE

StaleHeartbeat(j) == hbRow[j] = "active" /\ hbAge[j] > StaleAfter

\* reconcile_stale_active_job_heartbeats.
FailStaleHeartbeats ==
    LET S == {j \in Jobs : StaleHeartbeat(j)} IN
    /\ S # {}
    /\ hbRow' = [j \in Jobs |-> IF j \in S THEN "inactive" ELSE hbRow[j]]
    /\ hbAge' = [j \in Jobs |-> IF j \in S THEN 0 ELSE hbAge[j]]
    /\ FailAll({j \in S : status[j] \in Active \union {"pending"}})
    /\ UNCHANGED <<caller, age, hb, due, missed, runVars, faults>>

\* reconcile_stale_pending_background_jobs.
FailStalePending ==
    LET S == {j \in Jobs : status[j] = "pending" /\ age[j] > PendingTimeout} IN
    /\ S # {}
    /\ FailAll(S)
    /\ UNCHANGED <<caller, age, beatVars, runVars, faults>>

\* Fault for mutation: the status is not looked at, only the lease.
ExpiredAnyStatus(j) == status[j] \notin {"none", "pending"} /\ lease[j] = 0

\* Fault for mutation: the reconciler looks at running rows alone.
ExpiredRunning(j) == status[j] = "running" /\ lease[j] = 0

Expired(j) == status[j] \in Active /\ lease[j] = 0

\* reconcile_expired_background_job_leases.
FailExpired ==
    LET S == {j \in Jobs : Expired(j)} IN
    /\ S # {}
    /\ FailAll(S)
    /\ UNCHANGED <<caller, age, beatVars, runVars, faults>>

\* reconcile_orphan_stale_background_jobs.
FailOrphans ==
    LET S == {j \in Jobs : status[j] \in Active /\ hbRow[j] = "none" /\ age[j] > StaleAfter} IN
    /\ S # {}
    /\ FailAll(S)
    /\ UNCHANGED <<caller, age, beatVars, runVars, faults>>

Tick == FailStaleHeartbeats \/ FailStalePending \/ FailExpired \/ FailOrphans

----------------------------------------------------------------------------
(* The user, the process and the clock *)

BeforeReturn == Starting \union {"claimed", "agent"}

\* api_background_job_cancel: the row of a registered job was active when it was
\* looked up, which is some time before request_cancel.  A flag set after the
\* agent has returned is never read, and left out.
Cancel(j) ==
    /\ j \in registered \ flagged
    /\ worker[j] \in BeforeReturn
    /\ flagged' = flagged \union {j}
    /\ stopped' = stopped \union {j}
    /\ UNCHANGED <<caller, rowVars, beatVars, worker, raw, registered, told, faults>>

\* Tasks, registry and flags are memory of the process.
Restart ==
    /\ Fault
    /\ \E j \in Jobs : Live(j) \/ j \in registered
    /\ caller' = [c \in Callers |-> "idle"]
    /\ worker' = [j \in Jobs |-> IF Live(j) THEN "dead" ELSE worker[j]]
    /\ raw' = [j \in Jobs |-> FALSE]
    /\ hb' = [j \in Jobs |-> "off"]
    /\ due' = {}
    /\ registered' = {}
    /\ flagged' = {}
    /\ UNCHANGED <<rowVars, hbRow, hbAge, missed, told, stopped>>

\* Nothing that takes no time is left to do.
TimeMayPass ==
    /\ due = {}
    /\ \A c \in Callers : caller[c] = "idle"
    /\ \A j \in Jobs :
        /\ hb[j] \in {"off", "beating"}
        /\ worker[j] \notin Prompt
        /\ worker[j] \in Starting => age[j] < StartDelay

\* The ages that somebody still looks at; the others are forgotten.
Aging(j) == status[j] = "pending" \/ (status[j] \in Active /\ hbRow[j] = "none")

Older(j) == CASE Aging(j) -> IF age[j] < MaxAge THEN age[j] + 1 ELSE age[j]
              [] worker[j] \in Starting -> age[j]
              [] OTHER -> 0

LeaseLeft(j) == IF lease[j] = 0 THEN 0 ELSE lease[j] - 1

Elapse ==
    /\ TimeMayPass
    /\ lease' = [j \in Jobs |-> LeaseLeft(j)]
    /\ age' = [j \in Jobs |-> Older(j)]
    /\ hbAge' = [j \in Jobs |->
                    IF hbRow[j] = "active" /\ hbAge[j] <= StaleAfter THEN hbAge[j] + 1 ELSE hbAge[j]]
    /\ due' = {j \in Jobs : hb[j] = "beating"}
    /\ UNCHANGED <<caller, status, hbRow, hb, missed, runVars, faults>>

----------------------------------------------------------------------------
(* The system *)

WorkerStep(j) ==
    \/ Register(j) \/ Claim(j) \/ ClaimRejected(j) \/ BeginAgent(j) \/ AgentReturns(j)
    \/ MarkCancelled(j) \/ Save(j) \/ Process(j) \/ Format(j) \/ Deliver(j)
    \/ MarkDone(j) \/ MarkFailed(j)

HeartbeatStep(j) == HeartbeatBegins(j) \/ Beat(j) \/ HeartbeatEnds(j)

Next ==
    \/ \E c \in Callers : Count(c) \/ CreateFails(c) \/ \E j \in Jobs : Create(c, j)
    \/ \E j \in Jobs : WorkerStep(j) \/ HeartbeatStep(j) \/ Panic(j) \/ Cancel(j)
    \/ Tick
    \/ Restart
    \/ Elapse

Spec == Init /\ [][Next]_vars

\* Tasks are polled again when ready, the agent, the model and the channel
\* answer or fail some day, the scheduler ticks again and time passes.
Fairness ==
    /\ \A j \in Jobs : WF_vars(WorkerStep(j)) /\ WF_vars(HeartbeatStep(j))
    /\ WF_vars(Tick)
    /\ \A c \in Callers : WF_vars(\E j \in Jobs : Create(c, j))
    /\ SF_vars(Elapse)

FairSpec == Spec /\ Fairness

----------------------------------------------------------------------------
(* Properties *)

\* The heartbeat looks after its worker: as long as an agent runs, and then as
\* long as a successful run is formatted and delivered, no reconciler fails the
\* row, however long that takes.  The exception is a job of which a heartbeat's
\* write was lost or late.
LiveJobKeepsRow ==
    \A j \in Jobs \ missed :
        \/ worker[j] \in {"claimed", "agent"}
        \/ raw[j] /\ worker[j] \in {"save", "process", "format", "deliver", "fallback", "finish", "fail"}
        => status[j] \in Active

\* A row that reached an end keeps it.  The exception is a failed row: when the
\* agent's run failed its heartbeat is over, and when a beat was missed its
\* lease may lapse; the worker then overwrites what the reconciler wrote.
EndsStay ==
    [][\A j \in Jobs :
        status[j] \in Terminal /\ status'[j] # status[j]
        => status[j] = "failed" /\ Live(j) /\ (~ raw[j] \/ j \in missed)]_vars

\* A cancel request accepted before the agent returned is honoured: no reply of
\* the job reaches the user and the job does not end as done.
StopHonoured == \A j \in stopped : j \notin told /\ status[j] # "done"

\* A created job reaches an end, through restarts, panics and failed writes, and
\* so frees the chat's slot.
JobsEnd == \A j \in Jobs : status[j] \in Active \union {"pending"} ~> status[j] \in Terminal

\* No heartbeat row stays active after its task is gone.
HeartbeatsEnd == \A j \in Jobs : hbRow[j] = "active" ~> hbRow[j] = "inactive"
=============================================================================
