------------------------------ MODULE ShellJobs ------------------------------
(***************************************************************************)
(* One shell background job (src/src/background_shell.rs): the call that   *)
(* creates its row and its tmux session, the command, and the four parties *)
(* that may end it: the watcher of the session, the monitor loop, the      *)
(* scheduler's tick and the user who cancels.  Three of them share         *)
(* finalize_shell_job; none holds a lock from its first look at the row to *)
(* its last write, and most writes do not look at the row's status.        *)
(*                                                                         *)
(* The agent jobs it enqueues are BackgroundJobs; here only their number   *)
(* counts.  Jobs share nothing but the chat's slot, which may be taken or  *)
(* free whenever it is looked at.                                          *)
(***************************************************************************)
EXTENDS Naturals, FiniteSets

CONSTANTS
    Parties,        \* who may finalize the job
    MayCancel,      \* the user may cancel the job
    MaxAgentJobs,   \* background_shell_auto_retry_max; the summary's is 1
    PastOverlap,    \* bound: FALSE stops where two parties have met
    MaxFaults       \* bound: restarts, failed calls, deliveries and writes, dead sessions

ASSUME ShellAssumption ==
    /\ Parties \subseteq {"watcher", "monitor", "scheduler"}
    /\ MayCancel \in BOOLEAN
    /\ PastOverlap \in BOOLEAN
    /\ MaxAgentJobs \in Nat \ {0}
    /\ MaxFaults \in Nat

VARIABLES
    row,        \* status, whether result_text is set, last_stage
    expired,    \* the row's lease is past
    session,    \* the tmux session
    exit,       \* the exit_code file, "torn" while it exists and is empty
    starter,    \* where try_enqueue_background_shell stands
    reg,        \* the job's registration and cancel flag
    watching,   \* spawn_tmux_completion_watcher waits for the session
    pc, snap,   \* pc[f], snap[f]: where party f stands, the row as it listed it
    code,       \* code[f]: exit code that f works with
    user,       \* where cancel_background_shell_job stands
    summaries,  \* agent jobs enqueued after success
    retries,    \* agent jobs enqueued after failure
    told,       \* history: what the user was told of the job, see Told
    overlapped, \* history: two parties worked on the job at once
    faults      \* faults so far

rowVars == <<row, expired>>
tmuxVars == <<session, exit>>
finVars == <<pc, snap, code>>
agentVars == <<summaries, retries>>
vars == <<rowVars, tmuxVars, starter, reg, watching, finVars, user, agentVars, told,
          overlapped, faults>>

Ended == {"done", "failed", "cancelled"}
Row == [status : {"none", "pending", "running"} \union Ended, result : BOOLEAN,
        stage : {"plain", "summary", "retry", "user_notified"}]
NoRow == [status |-> "none", result |-> FALSE, stage |-> "plain"]
Stages == {"idle", "sweep", "notify", "probe", "fail", "check", "flag", "exit", "mark", "count",
           "stage", "slot", "create", "deliver", "undelivered", "record"}

\* Nothing yet; nothing, though a message was due; something; that it FAILED.
Told == {"nothing", "unsent", "something", "failure"}

TypeOK ==
    /\ row \in Row
    /\ expired \in BOOLEAN
    /\ session \in {"none", "starting", "alive", "gone"}
    /\ exit \in {"none", "torn", "ok", "bad"}
    /\ starter \in {"idle", "spawn", "claim", "register", "ack", "tell", "over", "lost"}
    /\ reg \in {"no", "yes", "flagged"}
    /\ watching \in BOOLEAN
    /\ pc \in [Parties -> Stages]
    /\ snap \in [Parties -> Row]
    /\ code \in [Parties -> {"ok", "bad"}]
    /\ user \in {"idle", "kill", "flag", "mark", "notice", "record", "finish", "over"}
    /\ summaries \in 0 .. 2 /\ retries \in 0 .. MaxAgentJobs + 1
    /\ told \in Told
    /\ overlapped \in BOOLEAN
    /\ faults \in 0 .. MaxFaults

Init ==
    /\ row = NoRow
    /\ expired = FALSE
    /\ session = "none" /\ exit = "none"
    /\ starter = "idle"
    /\ reg = "no"
    /\ watching = FALSE
    /\ pc = [f \in Parties |-> "idle"]
    /\ snap = [f \in Parties |-> NoRow]
    /\ code = [f \in Parties |-> "bad"]
    /\ user = "idle"
    /\ summaries = 0 /\ retries = 0
    /\ told = "nothing"
    /\ overlapped = FALSE
    /\ faults = 0

Fault == faults < MaxFaults /\ faults' = faults + 1

\* Who works on the job; the wrapper script does while it writes the exit code.
AtWork ==
    {f \in Parties : pc[f] \notin {"idle", "sweep"}}
        \union (IF starter \in {"idle", "over", "lost"} THEN {} ELSE {"starter"})
        \union (IF user \in {"idle", "over"} THEN {} ELSE {"user"})
        \union (IF exit = "torn" /\ session = "alive" THEN {"wrapper"} ELSE {})

\* Fault for mutation: only cancelled rows.
CancelledUntold(r) == r.status = "cancelled" /\ r.stage # "user_notified"

\* shell_job_needs_user_notification.
NeedsNotification(r) ==
    \/ r.status = "failed" /\ ~ r.result
    \/ r.status = "cancelled" /\ r.stage # "user_notified"

----------------------------------------------------------------------------
(* The row's writes; each ends the lease *)

Finished(ok) ==
    row' = [status |-> IF ok THEN "done" ELSE "failed", result |-> TRUE, stage |-> "plain"]

Fail == row' = [row EXCEPT !.status = "failed", !.stage = "plain"]

Cancelled == row' = [row EXCEPT !.status = "cancelled", !.stage = "plain"]

Notified == row' = [row EXCEPT !.result = TRUE, !.stage = "user_notified"]

\* Counters saturate one above what the properties allow.
OneMore(n, top) == IF n < top THEN n + 1 ELSE n

TellUser(what) == told' = IF told = "failure" THEN told ELSE what
NotTold == told' = IF told = "nothing" THEN "unsent" ELSE told

\* A write of the row whose error the code ignores.
Tried(write) ==
    \/ write /\ UNCHANGED faults
    \/ Fault /\ UNCHANGED row

----------------------------------------------------------------------------
(* try_enqueue_background_shell; the slot was free when it counted *)

Create ==
    /\ starter = "idle"
    /\ row.status = "none"
    /\ starter' = "spawn"
    /\ row' = [NoRow EXCEPT !.status = "pending"]
    /\ UNCHANGED <<expired, tmuxVars, reg, watching, finVars, user, agentVars, told, faults>>

\* The tmux client is started and not waited for.
SpawnSession ==
    /\ starter = "spawn"
    /\ starter' = "claim"
    /\ session' = "starting"
    /\ UNCHANGED <<rowVars, exit, reg, watching, finVars, user, agentVars, told, faults>>

Claim ==
    /\ starter = "claim"
    /\ row.status = "pending"
    /\ starter' = "register"
    /\ row' = [row EXCEPT !.status = "running"]
    /\ expired' = FALSE
    /\ UNCHANGED <<tmuxVars, reg, watching, finVars, user, agentVars, told, faults>>

\* The spawn or the claim fails: kill what there is, fail the row if that works.
StartFails ==
    /\ starter \in {"spawn", "claim"}
    /\ Fault
    /\ starter' = "tell"
    /\ session' = IF session = "alive" THEN "gone" ELSE session
    /\ Fail \/ UNCHANGED row
    /\ UNCHANGED <<expired, exit, reg, watching, finVars, user, agentVars, told>>

\* The row is no longer pending: it was cancelled, or failed by its age.
ClaimRejected ==
    /\ starter = "claim"
    /\ row.status # "pending"
    /\ starter' = "tell"
    /\ session' = IF session = "alive" THEN "gone" ELSE session
    /\ Tried(Fail)
    /\ UNCHANGED <<expired, exit, reg, watching, finVars, user, agentVars, told>>

\* notify_shell_job_enqueue_failure.
TellStartFailed ==
    /\ starter = "tell"
    /\ starter' = "over"
    /\ \/ Tried(Notified) /\ TellUser("failure")
       \/ Fault /\ NotTold /\ UNCHANGED row
    /\ UNCHANGED <<expired, tmuxVars, reg, watching, finVars, user, agentVars>>

Register ==
    /\ starter = "register"
    /\ starter' = "ack"
    /\ reg' = "yes"
    /\ UNCHANGED <<rowVars, tmuxVars, watching, finVars, user, agentVars, told, faults>>

\* tmux has made the session by the time the user has the start message.
StartWatcher ==
    /\ starter = "ack"
    /\ session # "starting"
    /\ starter' = "over"
    /\ watching' = TRUE
    /\ UNCHANGED <<rowVars, tmuxVars, reg, finVars, user, agentVars, told, faults>>

----------------------------------------------------------------------------
(* tmux and the wrapper script *)

TmuxStarts == session = "starting" /\ session' = "alive" /\ UNCHANGED exit

\* echo $? >exit_code creates the file, then writes it; then the session ends.
CommandEnds == session = "alive" /\ exit = "none" /\ exit' = "torn" /\ UNCHANGED session
WriteExit == session = "alive" /\ exit = "torn" /\ exit' \in {"ok", "bad"} /\ UNCHANGED session
SessionEnds == session = "alive" /\ exit \in {"ok", "bad"} /\ session' = "gone" /\ UNCHANGED exit

Tmux ==
    /\ TmuxStarts \/ CommandEnds \/ WriteExit \/ SessionEnds
    /\ UNCHANGED <<rowVars, starter, reg, watching, finVars, user, agentVars, told, faults>>

SessionDies ==
    /\ session \in {"starting", "alive"}
    /\ Fault
    /\ session' = "gone"
    /\ UNCHANGED <<rowVars, exit, starter, reg, watching, finVars, user, agentVars, told>>

----------------------------------------------------------------------------
(* Who starts finalize_shell_job *)

\* Party f goes on with row r and exit code c, or forgets them at the end.
Enter(f, stage, r, c) ==
    /\ pc' = [pc EXCEPT ![f] = stage]
    /\ snap' = [snap EXCEPT ![f] = IF stage = "idle" THEN NoRow ELSE r]
    /\ code' = [code EXCEPT ![f] = IF stage = "idle" THEN "bad" ELSE c]

Goto(f, stage) == Enter(f, stage, snap[f], code[f])

\* The watcher wakes when the session is gone, reads the row and goes once.
WatcherWakes ==
    /\ "watcher" \in Parties
    /\ watching /\ session = "gone"
    /\ watching' = FALSE
    /\ Enter("watcher", IF row.status = "running" \/ NeedsNotification(row) THEN "check" ELSE "idle",
             row, "bad")
    /\ UNCHANGED <<rowVars, tmuxVars, starter, reg, code, user, agentVars, told, faults>>

\* list_shell_jobs_for_monitor, for the scheduler list_running_shell_background_jobs.
ListJob(f) ==
    /\ f # "watcher"
    /\ pc[f] = "idle"
    /\ row.status = "running" \/ (f = "monitor" /\ row.status = "failed" /\ ~ row.result)
    /\ Enter(f, "probe", row, "bad")
    /\ UNCHANGED <<rowVars, tmuxVars, starter, reg, watching, user, agentVars, told, faults>>

\* Fault for mutation: neither the session nor the exit file is looked at.
ProbeNothing(f) ==
    /\ pc[f] = "probe"
    /\ Goto(f, "check")
    /\ UNCHANGED <<rowVars, tmuxVars, starter, reg, watching, user, agentVars, told, faults>>

Renewed == IF row.status = "running" THEN FALSE ELSE expired

\* monitor_shell_background_jobs_tick: look at the exit file and the session and
\* renew the lease of a live one; with an expired lease, and for the scheduler
\* always, the session alone decides and the row is failed first.
Probe(f) ==
    /\ pc[f] = "probe"
    /\ \/ /\ f = "scheduler" \/ (expired /\ snap[f].status = "running")
          /\ Goto(f, IF session = "alive" THEN "idle" ELSE "fail")
          /\ expired' = IF f = "monitor" /\ session = "alive" THEN Renewed ELSE expired
       \/ /\ f = "monitor"
          /\ Goto(f, IF exit # "none" \/ session # "alive" THEN "check" ELSE "idle")
          /\ expired' = IF snap[f].status = "running" /\ exit = "none" /\ session = "alive"
                        THEN Renewed ELSE expired
    /\ UNCHANGED <<row, tmuxVars, starter, reg, watching, user, agentVars, told, faults>>

\* notify_stale_shell_failures_on_startup, once before the monitor's first round.
Sweep(f) ==
    /\ pc[f] = "sweep"
    /\ Enter(f, IF row.status = "failed" /\ ~ row.result THEN "check" ELSE "idle", row, "bad")
    /\ UNCHANGED <<rowVars, tmuxVars, starter, reg, watching, user, agentVars, told, faults>>

FailRow(f) ==
    /\ pc[f] = "fail"
    /\ Tried(Fail)
    /\ reg' = "no"
    /\ Goto(f, "check")
    /\ UNCHANGED <<expired, tmuxVars, starter, watching, user, agentVars, told>>

\* Neither a running start nor a dead one has written a heartbeat row yet.
WithoutHeartbeat == starter \in {"register", "lost"}

\* Fault for mutation: only running rows are failed by their age.
FailAbandonedRunning ==
    /\ "scheduler" \in Parties
    /\ pc["scheduler"] = "idle"
    /\ row.status = "running" /\ WithoutHeartbeat
    /\ Fail
    /\ Enter("scheduler", "notify", row, "bad")
    /\ UNCHANGED <<expired, tmuxVars, starter, reg, watching, user, agentVars, told, faults>>

\* A row that stays pending too long, or running without a heartbeat row, is
\* failed by its age, whether or not its start is still under way.
FailAbandoned ==
    /\ "scheduler" \in Parties
    /\ pc["scheduler"] = "idle"
    /\ row.status = "pending" \/ (row.status = "running" /\ WithoutHeartbeat)
    /\ Fail
    /\ Enter("scheduler", "notify", row, "bad")
    /\ UNCHANGED <<expired, tmuxVars, starter, reg, watching, user, agentVars, told, faults>>

\* notify_shell_jobs_by_ids finalizes what was failed by its age.
Notify(f) ==
    /\ pc[f] = "notify"
    /\ Enter(f, IF NeedsNotification(row) THEN "check" ELSE "idle", row, "bad")
    /\ UNCHANGED <<rowVars, tmuxVars, starter, reg, watching, user, agentVars, told, faults>>

----------------------------------------------------------------------------
(* finalize_shell_job *)

\* The row is read again: nothing to do once it ended and the user was told.
Check(f) ==
    /\ pc[f] = "check"
    /\ Goto(f, IF row.status \in Ended /\ ~ NeedsNotification(row) THEN "idle" ELSE "flag")
    /\ UNCHANGED <<rowVars, tmuxVars, starter, reg, watching, user, agentVars,
                   told, faults>>

Flag(f) ==
    /\ pc[f] = "flag"
    /\ \/ reg = "flagged" /\ Tried(Cancelled) /\ reg' = "no" /\ Goto(f, "idle")
       \/ reg # "flagged" /\ UNCHANGED <<row, reg, faults>> /\ Goto(f, "exit")
    /\ UNCHANGED <<expired, tmuxVars, starter, watching, user, agentVars, told>>

\* A missing or empty file counts as exit code -1.
ReadExit(f) ==
    /\ pc[f] = "exit"
    /\ Enter(f, IF snap[f].status \in Ended THEN "count" ELSE "mark", snap[f],
             IF exit = "ok" THEN "ok" ELSE "bad")
    /\ UNCHANGED <<rowVars, tmuxVars, starter, reg, watching, user, agentVars, told, faults>>

\* mark_background_shell_finished, before the agent job asks for the slot.
Mark(f) ==
    /\ pc[f] = "mark"
    /\ Tried(Finished(code[f] = "ok"))
    /\ Goto(f, "count")
    /\ UNCHANGED <<expired, tmuxVars, starter, reg, watching, user, agentVars, told>>

AgentStage(f) == IF code[f] = "ok" THEN "summary" ELSE "retry"

\* Fault for mutation: the agent jobs are not counted.
EnqueuedInSnapshot(f) == snap[f].stage = AgentStage(f)

\* An agent job was enqueued before: the listed row says so, or it is counted.
EnqueuedBefore(f) ==
    \/ snap[f].stage = AgentStage(f)
    \/ IF code[f] = "ok" THEN summaries >= 1 ELSE retries >= MaxAgentJobs

\* maybe_enqueue_shell_success_agent_followup, maybe_enqueue_shell_failure_agent_retry.
CountAgents(f) ==
    /\ pc[f] = "count"
    /\ Goto(f, IF EnqueuedBefore(f) THEN "deliver" ELSE "stage")
    /\ UNCHANGED <<rowVars, tmuxVars, starter, reg, watching, user, agentVars,
                   told, faults>>

MarkStage(f) ==
    /\ pc[f] = "stage"
    /\ Tried(row' = [row EXCEPT !.stage = AgentStage(f)])
    /\ Goto(f, "slot")
    /\ UNCHANGED <<expired, tmuxVars, starter, reg, watching, user, agentVars, told>>

\* try_enqueue_background_handoff: the slot is free, or another job has it.
FindSlot(f) ==
    /\ pc[f] = "slot"
    /\ \/ row.status \notin {"pending", "running"} /\ Goto(f, "create")
       \/ Goto(f, "deliver")
    /\ UNCHANGED <<rowVars, tmuxVars, starter, reg, watching, user, agentVars,
                   told, faults>>

CreateAgentJob(f) ==
    /\ pc[f] = "create"
    /\ IF code[f] = "ok"
       THEN summaries' = OneMore(summaries, 2) /\ UNCHANGED retries
       ELSE retries' = OneMore(retries, MaxAgentJobs + 1) /\ UNCHANGED summaries
    /\ Goto(f, "deliver")
    /\ UNCHANGED <<rowVars, tmuxVars, starter, reg, watching, user, told, faults>>

\* The result reaches the user; a row that had ended before still has to say so.
Deliver(f) ==
    /\ pc[f] = "deliver"
    /\ TellUser(IF code[f] = "bad" THEN "failure" ELSE "something")
    /\ IF snap[f].status \in Ended
       THEN Goto(f, "record") /\ UNCHANGED reg
       ELSE Goto(f, "idle") /\ reg' = "no"
    /\ UNCHANGED <<rowVars, tmuxVars, starter, watching, user, agentVars, faults>>

DeliveryFails(f) ==
    /\ pc[f] = "deliver"
    /\ Fault
    /\ NotTold
    /\ Goto(f, "undelivered")
    /\ UNCHANGED <<rowVars, tmuxVars, starter, reg, watching, user, agentVars>>

FailUndelivered(f) ==
    /\ pc[f] = "undelivered"
    /\ Tried(Fail)
    /\ reg' = "no"
    /\ Goto(f, "idle")
    /\ UNCHANGED <<expired, tmuxVars, starter, watching, user, agentVars, told>>

\* record_background_shell_user_notification.
Record(f) ==
    /\ pc[f] = "record"
    /\ Tried(Notified)
    /\ reg' = "no"
    /\ Goto(f, "idle")
    /\ UNCHANGED <<expired, tmuxVars, starter, watching, user, agentVars, told>>

----------------------------------------------------------------------------
(* cancel_background_shell_job, and the process *)

UserStep(from, to) == user = from /\ user' = to

\* Fault for mutation: a job that ended can be cancelled.
CancelAskedAnyStatus ==
    /\ MayCancel
    /\ row.status # "none"
    /\ UserStep("idle", "kill")
    /\ UNCHANGED <<rowVars, tmuxVars, starter, reg, watching, finVars, agentVars, told, faults>>

CancelAsked ==
    /\ MayCancel
    /\ row.status \in {"pending", "running"}
    /\ UserStep("idle", "kill")
    /\ UNCHANGED <<rowVars, tmuxVars, starter, reg, watching, finVars, agentVars, told, faults>>

KillSession ==
    /\ UserStep("kill", "flag")
    /\ session' = IF session = "alive" THEN "gone" ELSE session
    /\ UNCHANGED <<rowVars, exit, starter, reg, watching, finVars, agentVars, told, faults>>

RequestCancel ==
    /\ UserStep("flag", "mark")
    /\ reg' = IF reg = "yes" THEN "flagged" ELSE reg
    /\ UNCHANGED <<rowVars, tmuxVars, starter, watching, finVars, agentVars, told, faults>>

\* The error of this write is answered, and the flag stays set.
MarkCancelled ==
    /\ \/ UserStep("mark", "notice") /\ Cancelled /\ UNCHANGED faults
       \/ UserStep("mark", "over") /\ Fault /\ UNCHANGED row
    /\ UNCHANGED <<expired, tmuxVars, starter, reg, watching, finVars, agentVars, told>>

CancelNotice ==
    /\ \/ UserStep("notice", "record") /\ TellUser("something") /\ UNCHANGED faults
       \/ UserStep("notice", "finish") /\ Fault /\ NotTold
    /\ UNCHANGED <<rowVars, tmuxVars, starter, reg, watching, finVars, agentVars>>

RecordNotice ==
    /\ UserStep("record", "finish")
    /\ Tried(Notified)
    /\ UNCHANGED <<expired, tmuxVars, starter, reg, watching, finVars, agentVars, told>>

FinishCancel ==
    /\ UserStep("finish", "over")
    /\ reg' = "no"
    /\ UNCHANGED <<rowVars, tmuxVars, starter, watching, finVars, agentVars, told, faults>>

\* A party that stored the job's result has not delivered it yet.
Undelivered ==
    \E f \in Parties :
        snap[f].status \notin Ended
            /\ pc[f] \in {"count", "stage", "slot", "create", "deliver", "undelivered"}

\* Rows, files and tmux survive; the lease may run out while the process is down.
\* A start that had not written its heartbeat row is lost to the age checks.
Restart ==
    /\ row.status # "none"
    /\ Fault
    /\ starter' = IF starter \in {"spawn", "claim", "register"} THEN "lost"
                  ELSE IF starter = "lost" THEN "lost" ELSE "over"
    /\ session' = IF session = "starting" THEN "alive" ELSE session
    /\ expired' \in {expired, row.status = "running"}
    /\ reg' = "no"
    /\ watching' = FALSE
    /\ pc' = [f \in Parties |-> IF f = "monitor" THEN "sweep" ELSE "idle"]
    /\ snap' = [f \in Parties |-> NoRow]
    /\ code' = [f \in Parties |-> "bad"]
    /\ user' = "over"
    /\ IF Undelivered THEN NotTold ELSE UNCHANGED told
    /\ UNCHANGED <<row, exit, agentVars>>

----------------------------------------------------------------------------
(* The system *)

StarterStep ==
    \/ SpawnSession \/ Claim \/ StartFails \/ ClaimRejected \/ TellStartFailed
    \/ Register \/ StartWatcher

Finalize(f) ==
    \/ Check(f) \/ Flag(f) \/ ReadExit(f) \/ Mark(f) \/ CountAgents(f) \/ MarkStage(f)
    \/ FindSlot(f) \/ CreateAgentJob(f) \/ Deliver(f) \/ DeliveryFails(f)
    \/ FailUndelivered(f) \/ Record(f)

Round(f) == Sweep(f) \/ Notify(f) \/ Probe(f) \/ FailRow(f) \/ Finalize(f)

UserStepAny ==
    \/ KillSession \/ RequestCancel \/ MarkCancelled \/ CancelNotice \/ RecordNotice \/ FinishCancel

\* A step, and whether it made two parties meet.
Tracked(A) ==
    /\ PastOverlap \/ ~overlapped
    /\ A
    /\ overlapped' = (overlapped \/ Cardinality(AtWork') > 1)

Next ==
    \/ Tracked(Create) \/ Tracked(StarterStep) \/ Tracked(Tmux) \/ Tracked(SessionDies)
    \/ Tracked(WatcherWakes) \/ Tracked(FailAbandoned)
    \/ \E f \in Parties : Tracked(ListJob(f)) \/ Tracked(Round(f))
    \/ Tracked(CancelAsked) \/ Tracked(UserStepAny)
    \/ Tracked(Restart)

Spec == Init /\ [][Next]_vars

\* Tasks are polled again when ready, the loops come round again, tmux and the
\* command make progress and end some day.  The watcher's tmux command may not
\* exist on the host and nobody is obliged to cancel.
Fairness ==
    /\ WF_vars(Tracked(StarterStep))
    /\ WF_vars(Tracked(Tmux))
    /\ WF_vars(Tracked(UserStepAny))
    /\ SF_vars(Tracked(FailAbandoned))
    /\ \A f \in Parties : WF_vars(Tracked(Round(f))) /\ SF_vars(Tracked(ListJob(f)))

FairSpec == Spec /\ Fairness

----------------------------------------------------------------------------
(* Properties *)

\* A shell job enqueues at most one summary and its allowance of retries, through
\* restarts and undelivered results, however often it is finalized again.
AgentJobsBounded == overlapped \/ (summaries <= 1 /\ retries <= MaxAgentJobs)

\* Done is final: unless two parties met, or its own result could not be
\* delivered, no reconciler turns a success into a failure.
DoneStays ==
    [][row.status = "done" /\ row'.status # "done"
        => overlapped \/ \E f \in Parties : pc[f] = "undelivered"]_vars

\* A user who reads FAILED has a command that did not exit with 0.
FailureIsReal == overlapped \/ faults > 0 \/ (told = "failure" => exit # "ok")

\* A job's row ends, and frees the chat's slot, through a restart or a dead session.
Settles == row.status \in {"pending", "running"} ~> row.status \in Ended

\* docs/development-journal.md: reconcile paths notify, no row stays silently
\* failed.  The user of a failed job is told something, whoever fails it and
\* whatever is restarted in between, but for a result that was stored before it
\* was to be delivered (mark_background_shell_finished): when that delivery fails
\* or the process ends first, the row looks as if it had been sent.
FailedIsTold ==
    row.status = "failed" ~>
        row.status # "failed" \/ told \in {"something", "failure"} \/ (told = "unsent" /\ row.result)
=============================================================================
