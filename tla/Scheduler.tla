----------------------------- MODULE Scheduler -----------------------------
(***************************************************************************)
(* Scheduled tasks (src/src/scheduler.rs and the scheduled_tasks rows of   *)
(* src/src/db.rs).  A tick reclaims stale rows, lists the due ones and     *)
(* claims them one by one; every claimed run goes through a semaphore and  *)
(* the chat run queue and finalizes its row when it is done.  Users edit   *)
(* rows at any time through tools and the web API.                         *)
(*                                                                         *)
(* Time is counted in units in which a tick, a delivery and a database     *)
(* call take none.  next_run and the ages are kept relative to the present *)
(* and saturate, so behaviours are unbounded although states are not.      *)
(* The queue appears as its promise (PersonaLanes): a lane executes its    *)
(* front run; other traffic of the lane only delays the start.             *)
(***************************************************************************)
EXTENDS Naturals, Sequences, SequencesExt, FiniteSets

CONSTANTS
    Tasks,
    Personas,
    Slots,          \* bound: runs of one task alive at the same time
    Period,         \* cron tasks are due every Period units
    TaskTimeout,    \* scheduler_task_timeout_secs
    HardTimeout,    \* QUEUED_TASK_HARD_TIMEOUT of the chat queue
    ReclaimAfter,   \* scheduler_stale_running_reclaim_secs
    MaxConcurrent,  \* scheduler_max_concurrent_tasks
    MaxEdits,       \* bound: edits by users
    MaxFaults,      \* bound: panics of a run and restarts of the process
    NoTask

ASSUME SchedulerAssumption ==
    /\ {Slots, Period, TaskTimeout, HardTimeout, ReclaimAfter, MaxConcurrent} \subseteq Nat \ {0}
    /\ {MaxEdits, MaxFaults} \subseteq Nat
    /\ NoTask \notin Tasks

Attempts == Tasks \X (1 .. Slots)
TaskOf(a) == a[1]

VARIABLES
    status,     \* the row's status
    kind,       \* its schedule_type
    nextIn,     \* units until its next_run, 0 once that is reached
    age,        \* units since its last_run, saturating
    persona,    \* its persona_id
    tick,       \* where run_due_tasks stands
    due,        \* snapshots of the due rows that the tick has not claimed yet
    cur,        \* snapshot of the row just claimed, while its persona is resolved
    apc,        \* apc[a]: how far the run has got
    akind,      \* schedule_type in the snapshot the run was made from
    anext,      \* units until the next_run computed at the claim
    aper,       \* persona the run was prepared for
    ran,        \* units since the queue worker started the run
    lane,       \* lane[p]: scheduled runs in the queue's lane of p
    hour,       \* units since the last cron occurrence
    edits,      \* edits made
    faults,     \* faults so far
    reopened    \* history: tasks made active while one of their runs was alive

rowVars == <<status, kind, nextIn, age, persona>>
tickVars == <<tick, due, cur>>
runVars == <<apc, akind, anext, aper, ran, lane>>
boundVars == <<hour, edits, faults>>
vars == <<rowVars, tickVars, runVars, boundVars, reopened>>

Status == {"active", "running", "paused", "completed", "cancelled"}
Kind == {"cron", "once"}
Snapshot == [task : Tasks, kind : Kind, persona : Personas]
NoSnapshot == [task |-> NoTask]

\* "spawned" waits for the semaphore, "permitted" holds a permit, "queued" waits
\* in its lane; the last three are the stages of run_scheduled_agent_and_finalize.
Executing == {"agent", "deliver", "finalize"}
RunPc == {"free", "spawned", "permitted", "queued"} \union Executing

TypeOK ==
    /\ status \in [Tasks -> Status]
    /\ kind \in [Tasks -> Kind]
    /\ nextIn \in [Tasks -> 0 .. Period]
    /\ age \in [Tasks -> 0 .. ReclaimAfter + 1]
    /\ persona \in [Tasks -> Personas]
    /\ tick \in {"sleep", "list", "claim", "prepare"}
    /\ due \subseteq Snapshot
    /\ cur \in Snapshot \union {NoSnapshot}
    /\ apc \in [Attempts -> RunPc]
    /\ akind \in [Attempts -> Kind]
    /\ anext \in [Attempts -> 0 .. Period]
    /\ aper \in [Attempts -> Personas]
    /\ ran \in [Attempts -> 0 .. HardTimeout]
    /\ lane \in [Personas -> Seq(Attempts)]
    /\ hour \in 0 .. Period - 1
    /\ edits \in 0 .. MaxEdits
    /\ faults \in 0 .. MaxFaults
    /\ reopened \subseteq Tasks

SomePersona == CHOOSE p \in Personas : TRUE

\* create_scheduled_task_for_persona: an active row.
Init ==
    /\ status = [t \in Tasks |-> "active"]
    /\ kind \in [Tasks -> Kind]
    /\ nextIn \in [Tasks -> {0, Period}]
    /\ age = [t \in Tasks |-> ReclaimAfter + 1]
    /\ persona \in [Tasks -> Personas]
    /\ tick = "sleep"
    /\ due = {}
    /\ cur = NoSnapshot
    /\ apc = [a \in Attempts |-> "free"]
    /\ akind = [a \in Attempts |-> "once"]
    /\ anext = [a \in Attempts |-> 0]
    /\ aper = [a \in Attempts |-> SomePersona]
    /\ ran = [a \in Attempts |-> 0]
    /\ lane = [p \in Personas |-> <<>>]
    /\ hour = 0
    /\ edits = 0
    /\ faults = 0
    /\ reopened = {}

RunsOf(t) == {a \in Attempts : TaskOf(a) = t /\ apc[a] # "free"}

\* A claim of t has not been finalized, dropped or given up yet.
Live(t) == RunsOf(t) # {} \/ cur.task = t

\* The next cron occurrence strictly after the present.
NextCron == Period - hour

----------------------------------------------------------------------------
(* run_due_tasks *)

\* Fault for mutation: the age is never past the limit.
NeverStale(t) == FALSE

Stale(t) == status[t] = "running" /\ age[t] > ReclaimAfter

\* reclaim_stale_running_tasks; next_run stays as it is.
Reclaim ==
    /\ tick = "sleep"
    /\ tick' = "list"
    /\ status' = [t \in Tasks |-> IF Stale(t) THEN "active" ELSE status[t]]
    /\ reopened' = reopened \union {t \in Tasks : Stale(t) /\ Live(t)}
    /\ UNCHANGED <<kind, nextIn, age, persona, due, cur, runVars, boundVars>>

\* Fault for mutation: the status of the row is not looked at.
IsDueAnyStatus(t) == nextIn[t] = 0

IsDue(t) == status[t] = "active" /\ nextIn[t] = 0

\* get_due_tasks; nothing due ends the tick.
ListDue ==
    /\ tick = "list"
    /\ due' = {[task |-> t, kind |-> kind[t], persona |-> persona[t]] : t \in {u \in Tasks : IsDue(u)}}
    /\ tick' = IF due' = {} THEN "sleep" ELSE "claim"
    /\ UNCHANGED <<rowVars, cur, runVars, boundVars, reopened>>

NextTickStep(rest) == IF rest = {} THEN "sleep" ELSE "claim"

\* Fault for mutation: the claim is not conditional on the row still being due.
AlwaysClaimable(t) == TRUE

\* Fault for mutation: the comparison with next_run is the wrong way round.
ClaimableEarly(t) == status[t] = "active" /\ nextIn[t] # 0

\* The condition in the UPDATE of try_mark_task_running.
Claimable(t) == IsDue(t)

\* Fault for mutation: the claim does not move next_run.
ClaimKeepsNextRun(d) ==
    /\ tick = "claim"
    /\ d \in due
    /\ Claimable(d.task)
    /\ \E a \in Attempts : TaskOf(a) = d.task /\ apc[a] = "free"
    /\ status' = [status EXCEPT ![d.task] = "running"]
    /\ age' = [age EXCEPT ![d.task] = 0]
    /\ due' = due \ {d}
    /\ cur' = d
    /\ tick' = "prepare"
    /\ UNCHANGED <<kind, nextIn, persona, runVars, boundVars, reopened>>

\* try_mark_task_running with what the snapshot says of the schedule.
Claim(d) ==
    LET t == d.task
    IN  /\ tick = "claim"
        /\ d \in due
        /\ Claimable(t)
        /\ \E a \in Attempts : TaskOf(a) = t /\ apc[a] = "free"
        /\ status' = [status EXCEPT ![t] = "running"]
        /\ age' = [age EXCEPT ![t] = 0]
        /\ nextIn' = IF d.kind = "cron" THEN [nextIn EXCEPT ![t] = NextCron] ELSE nextIn
        /\ due' = due \ {d}
        /\ cur' = d
        /\ tick' = "prepare"
        /\ UNCHANGED <<kind, persona, runVars, boundVars, reopened>>

\* Already claimed or not due any more.
ClaimRejected(d) ==
    /\ tick = "claim"
    /\ d \in due
    /\ ~ Claimable(d.task)
    /\ due' = due \ {d}
    /\ tick' = NextTickStep(due')
    /\ UNCHANGED <<rowVars, cur, runVars, boundVars, reopened>>

\* finalize_task_run, unconditional.
FinalizeRow(t, k, n) ==
    /\ status' = [status EXCEPT ![t] = IF k = "cron" THEN "active" ELSE "completed"]
    /\ nextIn' = IF k = "cron" THEN [nextIn EXCEPT ![t] = n] ELSE nextIn
    /\ UNCHANGED <<kind, age, persona>>

\* No persona can be resolved: the row is finalized at once.
PrepareFails ==
    /\ tick = "prepare"
    /\ FinalizeRow(cur.task, cur.kind, NextCron)
    /\ reopened' = IF cur.kind = "cron" /\ RunsOf(cur.task) # {}
                   THEN reopened \union {cur.task} ELSE reopened
    /\ cur' = NoSnapshot
    /\ tick' = NextTickStep(due)
    /\ UNCHANGED <<due, runVars, boundVars>>

\* The snapshot's persona, or the chat's current one if that was deleted.
Prepare(a, p) ==
    /\ tick = "prepare"
    /\ TaskOf(a) = cur.task
    /\ apc[a] = "free"
    /\ apc' = [apc EXCEPT ![a] = "spawned"]
    /\ akind' = [akind EXCEPT ![a] = cur.kind]
    /\ anext' = [anext EXCEPT ![a] = IF cur.kind = "cron" THEN NextCron ELSE 0]
    /\ aper' = [aper EXCEPT ![a] = p]
    /\ cur' = NoSnapshot
    /\ tick' = NextTickStep(due)
    /\ UNCHANGED <<rowVars, due, ran, lane, boundVars, reopened>>

----------------------------------------------------------------------------
(* A spawned run *)

AcquirePermit(a) ==
    /\ apc[a] = "spawned"
    /\ Cardinality({b \in Attempts : apc[b] = "permitted"}) < MaxConcurrent
    /\ apc' = [apc EXCEPT ![a] = "permitted"]
    /\ UNCHANGED <<rowVars, tickVars, akind, anext, aper, ran, lane, boundVars, reopened>>

\* The permit is dropped as soon as the run is in its lane.
EnqueueRun(a) ==
    /\ apc[a] = "permitted"
    /\ apc' = [apc EXCEPT ![a] = "queued"]
    /\ lane' = [lane EXCEPT ![aper[a]] = Append(@, a)]
    /\ UNCHANGED <<rowVars, tickVars, akind, anext, aper, ran, boundVars, reopened>>

\* Forget a run, in normal form.
Free(a) ==
    /\ apc' = [apc EXCEPT ![a] = "free"]
    /\ akind' = [akind EXCEPT ![a] = "once"]
    /\ anext' = [anext EXCEPT ![a] = 0]
    /\ aper' = [aper EXCEPT ![a] = SomePersona]
    /\ ran' = [ran EXCEPT ![a] = 0]
    /\ lane' = [lane EXCEPT ![aper[a]] = Remove(@, a)]

\* Stopped or removed while it waits: the queue drops the run's future.
Withdraw(a) ==
    /\ apc[a] = "queued"
    /\ Free(a)
    /\ UNCHANGED <<rowVars, tickVars, boundVars, reopened>>

StartRun(a) ==
    /\ apc[a] = "queued"
    /\ Head(lane[aper[a]]) = a
    /\ apc' = [apc EXCEPT ![a] = "agent"]
    /\ UNCHANGED <<rowVars, tickVars, akind, anext, aper, ran, lane, boundVars, reopened>>

\* process_with_agent_with_events returns a response or an error.
AgentReturns(a) ==
    /\ apc[a] = "agent"
    /\ apc' = [apc EXCEPT ![a] = "deliver"]
    /\ UNCHANGED <<rowVars, tickVars, akind, anext, aper, ran, lane, boundVars, reopened>>

AgentTimesOut(a) ==
    /\ apc[a] = "agent"
    /\ ran[a] >= TaskTimeout
    /\ apc' = [apc EXCEPT ![a] = "deliver"]
    /\ UNCHANGED <<rowVars, tickVars, akind, anext, aper, ran, lane, boundVars, reopened>>

\* The delivery succeeds or fails; either way the row is finalized next.
Deliver(a) ==
    /\ apc[a] = "deliver"
    /\ apc' = [apc EXCEPT ![a] = "finalize"]
    /\ UNCHANGED <<rowVars, tickVars, akind, anext, aper, ran, lane, boundVars, reopened>>

Finalize(a) ==
    /\ apc[a] = "finalize"
    /\ FinalizeRow(TaskOf(a), akind[a], anext[a])
    /\ Free(a)
    /\ reopened' = IF akind[a] = "cron" /\ (RunsOf(TaskOf(a)) # {a} \/ cur.task = TaskOf(a))
                   THEN reopened \union {TaskOf(a)} ELSE reopened
    /\ UNCHANGED <<tickVars, boundVars>>

\* The queue worker's own timeout started first: it aborts the run's task.
HardAbort(a) ==
    /\ apc[a] \in Executing
    /\ ran[a] >= HardTimeout
    /\ Free(a)
    /\ UNCHANGED <<rowVars, tickVars, boundVars, reopened>>

Panic(a) ==
    /\ apc[a] \in Executing
    /\ faults < MaxFaults
    /\ faults' = faults + 1
    /\ Free(a)
    /\ UNCHANGED <<rowVars, tickVars, hour, edits, reopened>>

----------------------------------------------------------------------------
(* Users, the process and the clock *)

UserSets(t) ==
    /\ edits < MaxEdits
    /\ edits' = edits + 1
    /\ UNCHANGED <<age, tickVars, runVars, hour, faults>>

\* update_task_status from pause, resume, cancel, update_scheduled_task and the
\* web API: no condition on the present status.
SetStatus(t) ==
    /\ UserSets(t)
    /\ \E s \in {"paused", "active", "cancelled"} :
        /\ status' = [status EXCEPT ![t] = s]
        /\ reopened' = IF s = "active" /\ Live(t) THEN reopened \union {t} ELSE reopened
    /\ UNCHANGED <<kind, nextIn, persona>>

\* update_task_schedule after the preflight: a cron's next occurrence, or any
\* time for a one-shot.  The status stays.
SetSchedule(t) ==
    /\ UserSets(t)
    /\ \/ /\ kind' = [kind EXCEPT ![t] = "cron"]
          /\ nextIn' = [nextIn EXCEPT ![t] = NextCron]
       \/ /\ kind' = [kind EXCEPT ![t] = "once"]
          /\ \E n \in {0, Period} : nextIn' = [nextIn EXCEPT ![t] = n]
    /\ UNCHANGED <<status, persona, reopened>>

SetPersona(t) ==
    /\ UserSets(t)
    /\ \E p \in Personas \ {persona[t]} : persona' = [persona EXCEPT ![t] = p]
    /\ UNCHANGED <<status, kind, nextIn, reopened>>

\* Rows survive, everything in memory goes.
Restart ==
    /\ faults < MaxFaults
    /\ faults' = faults + 1
    /\ tick' = "sleep"
    /\ due' = {}
    /\ cur' = NoSnapshot
    /\ apc' = [a \in Attempts |-> "free"]
    /\ akind' = [a \in Attempts |-> "once"]
    /\ anext' = [a \in Attempts |-> 0]
    /\ aper' = [a \in Attempts |-> SomePersona]
    /\ ran' = [a \in Attempts |-> 0]
    /\ lane' = [p \in Personas |-> <<>>]
    /\ UNCHANGED <<rowVars, hour, edits, reopened>>

Down(n) == IF n = 0 THEN 0 ELSE n - 1

\* No run may outlive a timeout that is due.
TimeMayPass ==
    /\ tick = "sleep"
    /\ \A a \in Attempts :
        /\ apc[a] \in {"free", "queued", "agent"}
        /\ apc[a] = "agent" => ran[a] < TaskTimeout /\ ran[a] < HardTimeout

Elapse ==
    /\ TimeMayPass
    /\ hour' = (hour + 1) % Period
    /\ nextIn' = [t \in Tasks |-> Down(nextIn[t])]
    /\ age' = [t \in Tasks |-> IF age[t] > ReclaimAfter THEN age[t] ELSE age[t] + 1]
    /\ anext' = [a \in Attempts |-> Down(anext[a])]
    /\ ran' = [a \in Attempts |-> IF apc[a] = "agent" THEN ran[a] + 1 ELSE ran[a]]
    /\ UNCHANGED <<status, kind, persona, tickVars, apc, akind, aper, lane, edits, faults, reopened>>

----------------------------------------------------------------------------
TickStep ==
    \/ Reclaim \/ ListDue
    \/ \E d \in due : Claim(d) \/ ClaimRejected(d)
    \/ PrepareFails
    \/ \E a \in Attempts, p \in Personas : Prepare(a, p)

RunStep(a) ==
    \/ AcquirePermit(a) \/ EnqueueRun(a) \/ StartRun(a)
    \/ AgentReturns(a) \/ AgentTimesOut(a) \/ Deliver(a) \/ Finalize(a) \/ HardAbort(a)

Next ==
    \/ TickStep
    \/ \E a \in Attempts : RunStep(a) \/ Withdraw(a) \/ Panic(a)
    \/ \E t \in Tasks : SetStatus(t) \/ SetSchedule(t) \/ SetPersona(t)
    \/ Restart
    \/ Elapse

Spec == Init /\ [][Next]_vars

\* The scheduler loop and the queue's workers are polled again when ready, an
\* agent returns or meets a timeout, a lane's other traffic ends, and time passes
\* although the steps that take none interrupt it.
Fairness ==
    /\ WF_vars(TickStep)
    /\ \A a \in Attempts : WF_vars(RunStep(a))
    /\ SF_vars(Elapse)

FairSpec == Spec /\ Fairness

----------------------------------------------------------------------------
(* Properties *)

\* Claims exclude each other: as long as nobody makes the row active again
\* under a live run, a task has at most one run, however ticks, edits,
\* restarts and retries interleave.
OneRunPerClaim ==
    \A t \in Tasks \ reopened :
        /\ Cardinality(RunsOf(t)) <= 1
        /\ cur.task = t => RunsOf(t) = {}

\* A row the user stopped, or that completed, keeps its status until the user
\* changes it, unless a run of it is alive: a tick that listed it before cannot
\* bring it back.
StoppedStaysStopped ==
    [][\A t \in Tasks :
        /\ status[t] \in {"paused", "completed", "cancelled"}
        /\ ~ Live(t)
        /\ status'[t] # status[t]
        => edits' # edits]_vars

\* The next_run a cron run will finalize with is the one its claim stored in the
\* row: without a second claim or an edit, finalizing never moves the schedule
\* back to an occurrence that was served.
PlanAgrees ==
    edits = 0 =>
        \A a \in Attempts :
            apc[a] # "free" /\ akind[a] = "cron" /\ TaskOf(a) \notin reopened
            => nextIn[TaskOf(a)] = anext[a]

\* "Cancel a scheduled task permanently": only the user may undo it.
CancelledForGood ==
    [][\A t \in Tasks :
        status[t] = "cancelled" /\ status'[t] # "cancelled" => edits' # edits]_vars

\* Whatever happens to its run, a claimed row leaves "running": finalized, or
\* reclaimed by a later tick.
RunningEnds == \A t \in Tasks : status[t] = "running" ~> status[t] # "running"

\* A due row is claimed, unless it is edited first.
DueIsClaimed == \A t \in Tasks : IsDue(t) ~> ~ IsDue(t)
=============================================================================
