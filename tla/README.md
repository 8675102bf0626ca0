# Verification of finally_a_value_bot

TLA+ models of the parts of the bot in which several tasks, a database and a
clock meet, TLC runs that check them on small instances, and TLAPS proofs that
hold for every instance. Source paths below are relative to the repository.

## 1. The system

One Rust process (tokio) serves chats from Telegram, Discord, WhatsApp and a web
UI. A message becomes a *run*: it is queued per persona, an agent turn calls a
model and tools until it has a reply, and the reply is delivered to the channels
of the contact and stored. Besides, the process runs a scheduler tick, background
agent jobs, background shell commands in tmux, and heartbeats for all of these.
State that survives a restart is in one SQLite database; every method of
`src/db.rs` takes the one connection's mutex and is atomic, and nothing spans two
methods.

### Inventory

| component | state | operations | what is hard |
| --- | --- | --- | --- |
| chat run queue, `chat_queue.rs` | lanes (items, pending, current), registry of runs, a channel per worker | enqueue, worker loop, cancel, remove | two locks that no operation holds together; lanes dropped and made again; panics; hard timeout |
| scheduled tasks, `scheduler.rs`, `scheduled_tasks` | status, next_run, last_run of each row; claimed runs | tick: reclaim, list, claim, prepare; run; finalize; user edits | stale lists, rows reclaimed by age, two nested timeouts, restarts, users editing during a run |
| agent background jobs, `background_jobs.rs` | status and lease of each row, cancel registry | count and create, claim, run, format, deliver, reconcile, cancel | check-then-create, reconcilers against live workers, lost writes, restarts |
| heartbeats, `job_heartbeat.rs` | heartbeat rows, a task per job | begin, beat, end, stale check | renewals must outpace the lease |
| shell background jobs, `background_shell.rs` | row, tmux session, exit file, cancel flag | start, watch, poll, reconcile, finalize, notify, cancel | four parties finalize without a lock; the session outlives the process |
| web requests, `web.rs` | RunHub (event history per run), RequestHub (quota per session) | submit, stream, cancel, remove | reconnects, quota leaks, receivers that fall behind, streams whose run never ends |
| agent turn (classic engine), `channels/telegram.rs`, `hook_runtime.rs`, `local_delegate/` | counters, batch, skills and flags of a turn; its record | model round, fallback, tool batch, hooks, evaluator, quality gate | cancels between any two awaits, some twenty exits through one gate, a gate that sends the text back |
| deterministic engine, `agent_pipeline/` | position in a profile, plan, results, final text | intent, plan, execution with retry and escalation, delivery, terminals | profiles a user writes, validated along one path and run along any |
| delivery, `channel.rs` | stored messages | fan-out to channels | one channel of several fails |
| persona memory, `memory.rs`, `tools/memory_state.rs` | a JSON file, its backup, a temporary file | load, recover, edit, tidy, replace, create | crashes between file operations, one temporary name for all writers, lost updates |
| cursor engine, `cursor_engine.rs`, `cursor_mcp_bridge.rs`, `tool_hook_dispatch.rs` | agent id of the session in the database, a token per run, the run's flags and a copy per tool call | sidecar turn, nudge, stale id, fallback; admit, judge, run and answer a tool call; purge | the agent calls tools in parallel and after the end, copies overwrite each other, early returns leave the token |
| hooks, skills, tools, model providers, MCP, configuration, UI | files, external services | calls within a turn | mostly external; see section 7 |

`PROJECT.json` lists every component with its files and status, and every hazard
at its line.

### Interactions

Channels and the web enqueue runs in the chat queue. The scheduler claims rows
and enqueues their runs in the same lanes; its tick also runs the reconcilers of
background and shell jobs. A web request or a scheduled run may hand its work to
a background job, which takes the chat's one slot in `background_jobs`; a shell
job's end enqueues an agent job through the same call. Workers start a heartbeat,
which renews the lease that the reconcilers look at. Everything is delivered
through `channel.rs`.

### What makes each part correct

- Queue: runs of one persona never overlap, are served in order of arrival, and
  every run leaves the registry; a lane in the map has a live worker.
- Scheduler: a claim excludes other claims; what a user stopped stays stopped; a
  claimed row always leaves `running`; a due row is claimed.
- Background jobs: no reconciler takes the row of a working job; an accepted stop
  is honoured; an end is final; every job and every heartbeat ends.
- Shell jobs: a job ends and its user hears of a failure; success never turns
  into failure; the agent jobs it triggers are bounded.
- Web runs: the quota in flight counts handlers at work and those that were lost;
  a stream ends, tells the end, and misses no event without being told.
- Agent turn: it returns; a text that goes out has one record and one
  FinalResponse, however many drafts the gate sent back; after a cancel no model, tool
  or evaluator of the loop is called any more, and at most one draft is still evaluated; a
  tool that needs a skill runs after its activation.
- Deterministic engine: any valid profile ends; a cancel lets one batch of tools
  begin at most; the answer was written after the plan it answers was executed.
- Cursor engine: a run that ended admits no tool call; a tool that needs a skill runs
  after its activation however the calls overlap; a stall is told; a stale agent
  does not come back.
- Memory: one crash, bad edit or failed read costs at most the last write (which only a
  copy by hand brings back when the file is no text any more); an undisturbed write is
  stored; nothing starts from an empty memory without a reason.

## 2. Modules

| module | models |
| --- | --- |
| `PersonaLanes` | what the queue promises: each lane has waiting runs in order and at most one active run; what waits is taken or withdrawn, what executes ends |
| `ChatQueue` | every state-changing operation of `chat_queue.rs` |
| `ChatQueueProofs` | its theorems, and that it implements `PersonaLanes` |
| `Scheduler` | the tick, runs, timeouts, edits and restarts around `scheduled_tasks` |
| `SchedulerProofs` | its theorems |
| `BackgroundJobs` | callers, workers, heartbeats and reconcilers around the agent rows of `background_jobs` |
| `BackgroundJobsProofs` | its theorems |
| `ShellJobs` | one shell job and everyone who may end it |
| `ShellJobsProofs` | its theorems |
| `WebRuns` | handlers, quota, event channels, forwarders and reconnecting clients of one chat's web requests |
| `WebRunsProofs` | its theorems |
| `AgentTurn` | one turn of the classic engine, from the conversation to the return |
| `AgentTurnProofs` | its theorems |
| `Pipeline` | one turn of the deterministic engine over a profile, and the profile's validation |
| `CursorEngine` | one turn of the cursor engine and the tool calls its agent makes through the bridge |
| `AgentEngines` | the dispatch of a run to the deterministic or the cursor engine (extends `Pipeline`, instantiates `CursorEngine`) |
| `EnginesProofs` | theorems about `Pipeline` and `CursorEngine`, as `AgentEngines` runs them |
| `MemoryState` | the memory file, its backup and its temporary file under concurrent writers and crashes |
| `MemoryStateProofs` | its theorems |
| `MC*` | model values and definitions for TLC |

How the code is cut into actions is the same everywhere. An action is a critical
section of a lock, one database method, one message delivered, or one await that
ends; between two actions any other task may run. A guard is the condition or
early return of the code. An error of a call is a disjunct or an action of its
own. A restart is one action: it forgets what is in memory and keeps what is in
the database, in files and in tmux. Names follow the code where they can.
Definitions marked *Fault for mutation* are plausible bugs; no specification uses
them. They are there to show that each property notices one.

**ChatQueue.** `Register` and `Push` are the two locks of an enqueue; `Recv`,
`CheckSkip`, `MarkRunning`, `TaskReturns`/`TaskFails`, `NoteLaneError`,
`Unregister`, `Release` the worker loop with `finish_one`; `RequestCancel`, and
`RemoveLookup` with `RemoveAccept`/`RemoveRefuse`, the user's calls. A worker is
named by the run whose enqueue spawned it, since a lane that empties is dropped
and made again. Cancelling is cooperative: it changes only the flag. The history
variable `raced` holds the runs whose removal was accepted after their worker had
let them through; the invariants named `...UnlessRaced` hold without it.

**Scheduler.** A row is `status`, `kind`, `nextIn`, `age`, `persona`; `due` is the
list a tick read, `cur` the row it is claiming. A run of task `t` is an attempt
`<<t, slot>>` with its snapshot and stage. Time passes in `Elapse` only; ticks,
deliveries and database calls take none, so everything that is ready happens
before the clock moves, except that users act at any time. The chat queue appears
as its promise: a lane executes its front run, and other traffic delays it.
`reopened` records the tasks whose row was made active again under a live run, by
an edit or by a reclaim; the properties that this breaks exclude those tasks.

**BackgroundJobs.** `Count` and `Create` are the two calls of
`try_enqueue_background_handoff`; the worker goes claim, begin, agent, save,
process, format, deliver, finish, with a lost write possible at each; `Beat`
writes the heartbeat row and renews the lease, either of which may be lost or come late,
which `missed` remembers; `Tick` of the scheduler is its four reconcilers. `Cancel` is
`request_cancel`, which comes some time after the route looked the row up and does not look
again; a flag set after the agent returned is never read, and left out. The unit of
time is a heartbeat period. A row that a reconciler failed may still have a
worker, and the worker does not look before it writes.

**ShellJobs.** One job, because jobs share only the chat's slot, which is free or
taken whenever it is looked at. `starter`, `user` and `pc[f]` say where the start,
the cancel and each finalizing party stand; `snap[f]` is the row as that party
listed it, which the code uses long after. The exit file is empty before it has a
number. The watcher needs a tmux command that may not exist, so nothing relies on
it. `Tried` is a write of the row whose error the code ignores. `told` is what the user was told of
the job; "unsent" is a message that was due and not delivered. `ClaimRejected` is a start that
finds its row failed by its age (`FailAbandoned`, which does not ask whether the start is still
under way). `overlapped` records that two parties were at work at once, after which the module
with `PastOverlap = FALSE` stops. Reads of the database and the job's own heartbeat row succeed.

**WebRuns.** A run has a `handler` (the send route: admitted, enqueued, answered,
or lost when its persona lookup fails or its connection is dropped), a `task` (what
the queue makes of it), the agent's events and their forwarder, a `channel` and a
client's `stream`. A run handed to a background job publishes the job's event (`Handoff`) and
then its end (`HandedOff`). The channel keeps `HistoryLimit` events for replays and a ring
of `RingSize` for receivers; an id is a place in the log. The queue is
the promise of `PersonaLanes`: a lane executes its front run, which may instead be
skipped, removed, refused or aborted. `Drained` is the end of a channel 300 s after the
run's end (`remove_later`), when every sender is gone.

**AgentTurn.** `pc` is the await or the decision the turn stands at. A model's
answer is a text, a batch of tool calls or neither; a tool is its class. Every
way to end a turn is `Finish`: a text goes to the quality gate, whose steps are the PostDelivery hooks
(`AtGate`), the evaluator's call (`BeginEvaluation`), during which a cancel is not looked at, and
its verdict (`Judge`), which `Complete`s the turn (FinalResponse, record, return) or, with
retries left, sends it back for another round (`Retry`). Awaits that look at no flag and
are followed by no look at it (hooks, the validation of an edit, the focus sync) belong to the step they
follow. `SkillGate` says whether the builtin hook is enabled for the persona. `Cancel` sets the flag at any moment and
`Abort` is the queue's hard timeout or a panic. `Route` is the choice of a local model and
`BeginFallback` its replacement by the strategy model within a round. The history
variables count records and events, and remember a tool that ran unrecorded, a
gate that was passed without a judgement, and a retry asked for after the last
round.

**Pipeline.** The runner's loop is `Visit` (a phase is taken up), the phases'
actions, and `Leave`, which evaluates the phase's rules in `Context` and goes to
the next phase or a terminal. `Valid` is the validation of a profile as the code
performs it: references, then one trial walk in one context. The bound on visits
is the code's, 32. Plans are numbers of steps, answers are fresh or stale.

**CursorEngine.** `Start` is everything before the first prompt, including the
fallback to the classic loop when there is no sidecar. `Stream` is the event a
sidecar turn ends with, after which the turn is taken as done (`TurnDone`), posted
anew without its agent id (`TurnStale`) or given up (`TurnFails`). `PreStop` is the hook
that may send the agent on; `Finish`, `FinishBatch` and `Revoke` are the three parts of
`finish_run`, between which calls go on; `Deliver` is the quality gate, which here evaluates the same text
again and may fail. A tool call is `Ask` (its token is found), `Copy` (the run's state is copied into
`scratch`), `Judge` (PreToolUse: `Passes` is the skill gate's verdict by the call's own copy, with
`SkillGate` saying whether the hook is enabled) and `Return` (the tool and its hooks); the
last two may write the whole copy back. The agent is external and may
call as long as the token is valid, also while nobody reads its stream. `dirty` and
`raced` remember a copy that was overtaken and then written back. A fallback ends this
model: the classic loop then starts as in `AgentTurn`.

**AgentEngines.** The two engines share the run's flag, its place, its retries, its
outcome and the count `late`; a step belongs to the engine the run was given to. It
is the module that is run, so `OneLateBatch` also bounds the prompts that are posted to a
sidecar after a cancel, and `RunReturns` covers both engines.

**MemoryState.** A step is one call of the file system. To open a file for writing
empties it, and a writer writes to the file it opened, under whatever name it has
become since. A state is the write that made it with the revision it carries. Contents
that are no state are `Absent`, `Empty`, `Mixed` (text that does not parse) and `Unreadable` (no UTF-8),
which `read_to_string` refuses before the backup is tried (`memory.rs:798`).
`Crash` forgets the actors and keeps the files; `Spoil` is an edit by hand that leaves either;
`Lapse` is a read that fails or a copy that fails or is cut short, none of which the code notices.

## 3. Runs

| run | instance | shows |
| --- | --- | --- |
| `queue_core` | four runs, one lane and a request without persona, fair worker | serialization, exact count, order, a live sender, races included; every run leaves the registry |
| `queue_refines` | three runs on a lane and one on another, no raced removal | `ChatQueue` implements `PersonaLanes`, order and progress |
| `queue_serialized` | as queue_core | **violation**, section 4 |
| `scheduler` | one task of either kind, two slots, two personas, one edit, one fault | claims exclude each other, stopped stays stopped, the plan agrees; `running` ends, due rows are claimed |
| `scheduler_cancelled` | one task, one edit, no fault | **violation**, section 4 |
| `jobs` | two jobs of one chat, one caller, slow starts, one fault (also a heartbeat's write lost or late) | the row of a working job that missed no beat is safe, stops are honoured, ends are final; jobs and heartbeats end |
| `shell_core` | watcher, monitor, scheduler and a cancelling user, two retries, three faults, up to the first meeting | bounded agent jobs, real failures, done is final |
| `shell_live` | monitor and scheduler, one fault, past any meeting | the job settles, and its failure is told unless its result was stored and then not delivered |
| `web_runs` | two requests behind one place of quota, one streamed to a client that reconnects; history of two, ring of one, one fault | quota, no silent gap, the end is told, streams end |
| `agent_turn` | four rounds, batches of two tools of eight classes, two nudges, one retry, a cancel or an abort at any moment | one record per text, what may still begin after a cancel, the skill gate, every turn returns |
| `engines` | seven profiles, three of them invalid, three kinds of callers, two steps of two rounds, one retry; two overlapping calls (one activates, one needs the skill), the gate enabled, two nudges, a session with or without an agent id | one late batch or sidecar turn, the answer is of this run, what the validation is worth, skill gate and token under overlapping calls, stalls are told, stale ids stay away, every run returns |
| `memory` | two actors, three writes, one crash, one edit by hand, one read or copy that fails | one fault costs one write, alone is stored, nothing is forgotten without a reason |

Bounds. Four runs let a lane be dropped, made again by a second enqueue and meet
a third run while the fourth waits; the refinement needs one fewer on the lane. One
task with two slots is enough for the scheduler because tasks share only the lane
(delay, which is arbitrary) and the semaphore (held only while enqueuing); two
slots allow a second claim under a live run. One edit lets a user stop or resume
a row around a stale list, or change its plan or its persona during a run. Two jobs
are what the slot of a chat needs. A history of two and a ring of one are below
the number of events, so that history is evicted and receivers fall behind. Four
rounds let the local route be taken (never in the first or the last round), fail,
and be avoided in the round after; two calls per batch let a cancel or a time-out come between
two tools. Of the two calls through the bridge one activates the skill and one needs
it, and either can overwrite the other's copy; the first nudge gives a second turn, which is where an id can be
stale that an earlier turn returned, the second one a turn after that. Three writes are a backup, a
state and one more; each kind of fault comes once, so that any two of them can meet. `shell_core` leaves
the watcher in because its properties end at the first meeting; `shell_live` goes on past
meetings, where the watcher adds nothing that monitor and scheduler do not do. The faults (restart, panic, lost write, failed delivery, dead session,
crash between two file operations) come at any moment; where two are allowed, a
repair is interrupted. Counters saturate just above the largest value a guard
compares them with.

`CHECK_DEADLOCK FALSE` is set where the system really stops: a shell job that has
ended and been told, web requests that are all answered and whose streams have
ended, a turn or a pipeline that has returned, a memory whose writes are used up.

`TypeOK` of a module also holds on these instances (`INVARIANT TypeOK` in the cfg; of
the two engines each while it has the run) but is not part of the runs, which are
kept for what a test would hardly reach; section 6 says what of it is proved.

`SYMMETRY` is used for the two actors of `memory`, which are interchangeable and
have no liveness property.

## 4. Disagreements between code and documents

Each has a run that finds it (`findings` in `PROJECT.json`).

- *The same persona stays strictly serialized* (ARCHITECTURE.md:112). The worker
  checks the cancel flag under one lock and marks itself running under another. A
  removal accepted in between takes the lane's count to zero and drops the lane;
  the next enqueue starts a second worker for that persona.
- *Cancel a scheduled task permanently* (`src/tools/schedule.rs:540`).
  `finalize_task_run` writes `active` whatever the row has become during the run.

Seen while modelling, without a run of their own:

*Queue and scheduler.* A paused task that waits in its lane still starts. A run
removed in the window above was answered "removed" and executes. A caller that
drops the future of an enqueue between the registry and the push leaves the run in
the registry for ever. The scheduler's semaphore permit is dropped once the run is
queued, so `scheduler_max_concurrent_tasks` does not bound executions. A cron
expression with no occurrence after the due one (a year field that has passed) is skipped before its
claim (`src/scheduler.rs:326-332`) and stays due at every tick. With the
default limits (both 3600 s) the queue may abort a run before its own timeout
finalizes the row. A row is reclaimed by the age of its claim, which includes the
wait in the lane, so a run that waited long can be claimed a second time while it
executes. The INSERT of `ensure_unique_cron_task_by_prompt_prefix` (`src/db.rs`)
names seven columns and gives eight values.

*Jobs.* `The one active shell/handoff slot per chat` (ARCHITECTURE.md:111) is counted
and taken in two calls (`src/background_jobs.rs:135`, and the same at
`src/run_optimizer.rs:450`), so two callers may both get it; a start slower than the
pending timeout lets a second job in as well. A heartbeat renews the lease whether
or not the agent makes progress; its own writes' errors are ignored
(`src/job_heartbeat.rs:215-232`, `268-284`), so enough lost ones let a reconciler fail a job at work. A shell job cancelled between the kill and the
flag can be reported as failed and retried; a crash between marking a shell job
finished and delivering, or a delivery that fails, leaves a row that has a result nobody was sent, of a
failed job as of a done one (`src/db.rs:4778` before `src/background_shell.rs:771`): the sweep
looks for failed rows without a result. "Reconcile paths notify" (development-journal.md) holds
but for these, the exception of `FailedIsTold`.

*Web.* A handler whose persona lookup fails, or whose connection is dropped, keeps
its place in the quota until the process restarts (`src/web.rs:221`). A run that is
skipped, removed, refused or aborted in the queue publishes no end, so its stream
stays open and its channel is kept. A receiver that falls behind the ring goes on
without a word to its client.

*Agent turn.* The gate of the final text looks at no cancel flag: a cancel that comes after the exit's
own check still lets the PostDelivery hooks (`telegram.rs:4323`), the evaluator's call (4397) and, on a retry,
one more look at the top of the loop begin; only the stop reason "cancelled" skips the evaluator. A delegated
sub-job and the validation of an edit begin regardless of the flag, too. `CancelStopsWork` says
what is left: no model, tool or post-tool evaluator call of the loop, and one draft evaluated at most. "FinalResponse and channel delivery happen only after pass, skip, or
exhausted budget" (ARCHITECTURE.md:89): when the gate wants a retry after the last
round the text is returned with neither FinalResponse nor record
(`telegram.rs:4128`), the exception `overrun` of `RecordedOnce`. A PreToolUse
dispatch that fails is dropped and the call runs unjudged; a hook that rewrites the
path of a write may lead it to a skill the gate did not ask about (`bypass`). A
delegated sub-job looks at no cancel flag and its tools pass no PreToolUse hooks, so it can reach
`update_scheduled_task` without the scheduling skill. The answer of
ask_clarification passes the quality gate, against ARCHITECTURE.md:83. The branch
at `telegram.rs:2904` cannot be reached. A tool's own timeout and the queue's are
both 3600 s and the queue's starts first. The preview of a tool's input is cut at
byte 10000 (`telegram.rs:3099`), which panics within a character of several bytes.

*Deterministic engine.* After a cancel the remaining steps run with zero rounds, and
consolidation, gate and delivery still take place (development-journal.md:1432 says
otherwise). The validation walks one path in one context, so a valid profile may
find no transition, or circle until the budget of 32 visits is used up. The default profile
has no clarification terminal, and the escalation asks for the phase's own route
again (`execute.rs:953`), against ARCHITECTURE.md:56. In profiles that lead back, a
final text of an earlier visit may answer for a later plan.

*Cursor engine.* Every tool call works on a copy of the run's state and writes the
whole copy back (`cursor_mcp_bridge.rs:552-621`), so of two overlapping calls one loses
what the other did: an activation of a skill, a stall, names of executed tools. What is
lost is on the safe side for the skill (`SkillBeforeUse`) but not for the stall
(`raced` in `StallIsTold`). A pre_stop dispatch that fails, or an abort, leaves the
token valid until its 3600 s are over, the exceptions of `NoCallAfterEnd`; calls admitted
before the end run on beside whatever follows. A fallback after a first turn may do
again what the sidecar's tools did, and calls the before-turn hooks twice. A stale id on
a nudge turn posts the whole prompt again. When no later agent gives an id, the id an
earlier turn returned is stored although it was cleared (`since` in `StaleIdIsGone`).
A cancel is only seen when an event of the stream arrives. The gate evaluates the same
text again, since nothing revises it.

*MCP client* (`src/mcp.rs`). A request that times out or loses its server is sent again
after a reconnect (lines 478-505), so a tool may be executed twice. The new
process is put in place before it is initialized (318-328): a request that takes the
lock in between reaches it first, and it stays in place when the initialization fails.

*Memory.* A file that is not UTF-8, or that cannot be read, is not looked for in the backup:
`read_to_string(..).ok()?` (`memory.rs:798`) gives up first. An edit then starts from the default
state (`memory_state.rs:301-304`), and its write copies the unreadable file over the good
backup. `docs/memory-framework.md:139` has it that a primary read that failed is recovered from the
backup; the exceptions of `SurvivesOneFault` and `NotForgotten` are this case. "Writes are atomic (.tmp + rename)" (README.md:194): all writers share one
temporary name (`memory.rs:887`), so one may rename the file another has just
emptied, and a reader then finds no valid JSON. "Monotonic state revision"
(README.md:111): a write stores the revision it was given plus one, so overlapping
edits overwrite each other and a revision may come again, also for the
`expected_revision` check. The web editor's guard compares modification times
before it writes, not while.

*Delivery.* `channel.rs` stores a text once and sends it to each binding, errors
logged (214-375), or sends first and stores then (98-162): a contact may have on
one channel what another never got.

## 5. Fairness

- Queue: a worker and an enqueue that are ready are polled (tokio). A task's end
  is included because the queue itself bounds it by `QUEUED_TASK_HARD_TIMEOUT`.
- Scheduler: the tick loop comes round, a run that is ready moves, time passes.
  Strong fairness on `Elapse` because users may edit in between.
- Web runs: handlers, tasks, forwarders and connected clients that are ready move,
  an agent returns. Clients need not reconnect, faults need not happen.
- Agent turn and both other engines: the task is driven by the runtime; every call it awaits has
  a time-out. Nobody is obliged to cancel. What a model or a tool answers is free,
  so the turn ends by its budgets alone. A sidecar's stream ends because the HTTP
  client has a total time-out.
- Memory: none; all its properties are safety.
- Background jobs: workers and heartbeats that are ready move, the scheduler's
  tick, which calls the reconcilers one after the other, comes round, time passes. A caller that counted creates or gives up.
  An agent's run is assumed to return. This is the one assumption the code does
  not enforce: a heartbeat renews the lease of an agent that hangs, and such a job
  keeps the slot for ever.
- Shell jobs: the loops come round (strong fairness on listing, since a row may
  be in and out of the listed states), tasks move, the command ends some day.
  Nobody is obliged to cancel and the watcher need not wake.

Leases: `RawLease >= 2` and `LeaseTtl >= RawLease` in heartbeat periods, as the
defaults (60 s renewal, 120 s, 1800 s) have it. With a TTL configured below the
renewal period a live job would be failed; the assumption is named
(`JobsAssumption`) and TLC evaluates it.

## 6. Proofs

TLAPS proves, for every value of the constants that the named assumptions admit,
every invariant and every action property that a passing run checks, and that
the queue's steps are steps of `PersonaLanes`. A run shows a property on one instance
and that the case happens there; the theorem says that the instance was not too
small. What is left to TLC alone is listed at the end of this section.

None of the properties is inductive as it stands. Each module strengthens them to an
`IInv` (`EnginesInv` for the engines), which TLC checked as an invariant on the
instances of the runs before it was proved. Every proof has the same three parts: the
initial states satisfy it, one lemma or step per action keeps it, and it implies the
property. It holds through every interleaving, fault and race the model has; where
a property holds only until some race, the part of `IInv` about it starts with the
same condition.

### The chat queue (`ChatQueueProofs`)

For every set of runs, every assignment to lanes and every choice of
cancellable and removable runs. The only assumption is `QueueAssumption`: run ids
differ from `NoRun` and lane keys are pairs of integers.

| theorem | states |
| --- | --- |
| `TypeCorrect` | `TypeOK` is invariant |
| `Invariance` | the inductive invariant `IInv` is invariant |
| `Serialization` | no two runs of a persona execute together unless a removal was raced |
| `ExactCount` | `pending` is the number of items, same exception |
| `LiveSender` | a lane in the map has a live worker, no exception |
| `Fifo` | an executing run has no earlier arrival left in its lane, same exception |
| `KeepsPromiseSafely` | without a raced removal, every step of the queue is a step of `PersonaLanes` or none |

Serialization rests on the map naming the one worker that may still hold a task,
which rests on `pending` being
exact (a lane is dropped when it reaches 0), which rests on every item being in
the hands of that worker or in its channel, and on nothing else being there but
removed runs, which the worker skips. `IInv` says that: `TaskOf`, `BufferOf`,
`OnePlace`, `Books` and `LaneBooks` hold through any race (a run is in one place,
tickets grow along items and channels, a lane in the map has a live worker);
`LaneAgrees`, `TaskAgrees` and `BufferAgrees` tie counts, items and workers
together as long as no removal raced. `PartsAt` takes `IInv` apart for one lane, one
`...Keeps` lemma per action shows that it is kept, and `RemoveAtProperties` and
`Elements` state what deleting from a sequence does. The hard case is
`RemoveAccept`, which takes an item from the middle and may drop the lane under a
worker: either the worker skips the run or the run joins `raced`, and then the
exact part of `IInv` is no longer claimed.

The refinement maps the state to what waits in a lane, what executes there, and
what was pushed. `HeldIsFront` is its centre: what a worker holds and its lane still
lists is the front item, once. `Is...` lemmas say when a change of the mapped state is a
submission, start, end or withdrawal, and a `...Maps` lemma per action finds
which: `MarkRunning` is the start, `TaskReturns` and `TaskFails` the end, `CheckSkip`
of a cancelled run and `RemoveAccept` of one that still waits a withdrawal; `Release`,
which takes the item off `items`, changes nothing of the promise, and neither
does a removal of the item whose skip was already decided.
The theorem is about `NoRaceSpec`; the fairness part of `KeepsPromise` stays with TLC.

### The scheduler (`SchedulerProofs`)

For any numbers of tasks, slots and personas and any times (`SchedulerAssumption`).

| theorem | states |
| --- | --- |
| `OneRun` | two claims of a task live at once only if its row was made active under a live run |
| `PlanKept` | without edits and second claims a cron run finalizes with the `next_run` its row has |
| `StoppedRows` | the action property `StoppedStaysStopped` |
| `Invariance` | the invariant behind them |

`Exclusive` says that a task that was not reopened has at most one attempt, none
while its row is active or the tick is claiming it: the claim is one database
call that reads what it writes, so a stale list does no harm. `Planned` carries the
plan from the row over the claim into the attempt. `CurHeld` is the tick's place.
The contents of the lanes are not in `IInv`: they are filtered with
`SelectSeq`, which no installed prover handles, and none of the properties rests on them.

### Background jobs (`BackgroundJobsProofs`)

For any numbers of jobs and callers and any times with
`2 <= RawLease <= LeaseTtl` (`JobsAssumption`, section 5).

| theorem | states |
| --- | --- |
| `LiveJobsKept` | the row of a job at work is active, whatever the reconcilers do, unless its heartbeat missed a write |
| `StopsHonoured` | a job stopped before its agent returned is neither delivered nor done |
| `EndsKept` | the action property `EndsStay` |
| `Invariance` | `TypeOK` and the invariant of every job |

`LeaseHeld` is the argument for the lease: while an agent works its heartbeat is
starting or beating; a beat that is not due leaves two periods of lease and a fresh
heartbeat row, one that is due leaves one, which is why
a lease must be two beats long. `StopKept` follows the flag from the request to the place that reads it,
`CancelPending` the moment between that place and the last write, and `EndWritten` says that
only the worker itself ends a row as done or cancelled.

### Shell jobs (`ShellJobsProofs`)

For any subset of the parties, any allowance of retries and any number of faults.

| theorem | states |
| --- | --- |
| `AgentJobsKept` | at most one summary and `MaxAgentJobs` retries, unless two parties met |
| `FailuresReal` | without faults and meetings a reported failure is one |
| `DoneKept` | the action property `DoneStays` |
| `Invariance` | the invariant behind them |

Until two parties meet (`overlapped`), `OneAtWork` lets at most one of starter,
canceller, wrapper and finalizing parties be busy, so what a party read when it listed
the row is still so. `Allowed` bounds the agent jobs including the one being prepared,
`Unfinished` says that nobody who may overwrite the status is at work on a finished
row. `Truthful` (no faults) says that an exit code is read only when it is written or will
never be.

### Web runs (`WebRunsProofs`)

For any number of runs and any sizes of quota, history, ring and logs.

| theorem | states |
| --- | --- |
| `QuotaExact` | `inflight` is the number of requests that hold a place |
| `EndsTold` | a stream the server closed told the end, or a gap |
| `NoGapUntold` | the action property `NoSilentGap`, over any number of connections |
| `Invariance` | the invariant behind them |

`Contiguous` relates a client's place in the log to what it has seen over all its
connections, `EndKnown` the flag of the channel, the replay's bound and the seen end
to an end in the log, `ClosedForCause` the closing to its causes. The actions
are first grouped by what they may change (`ServerStep`, `ClientStep`): logs only grow.

### The agent turn (`AgentTurnProofs`)

For any set of tools, any numbers of rounds, nudges and
retries and any length of a batch (`TurnAssumption`).

| theorem | states |
| --- | --- |
| `TypeCorrect` | rounds, nudges and retries stay within their budgets (`TypeOK`) |
| `OneRecord` | a text that is returned has one record and at most one FinalResponse, and names every tool that ran unless it was cancelled |
| `GateHolds` | `SkillGateHolds` |
| `CancelStops` | the action property `CancelStopsWork`: after a cancel no call of a model, a tool or the post-tool evaluator begins, and at most one draft is still evaluated, a delegated sub-job and hooks excepted |
| `Invariance` | the inductive invariant behind them |

That the
step which writes the record finds none rests on the
turn having told nothing before it returns (`Told`), and that a text names its
tools rests on the batch being recorded before anything that ends the turn, except
a cancel (`Unsaved`). `Late` says that an evaluation begun after the cancel is the turn's last: the
gate's retry leads to the top of the loop, which looks at the flag. There is one lemma per part of `IInv`, with one step per
action.

### Both other engines (`EnginesProofs`)

For any profiles, callers, plans, rounds and retries, and for any set of overlapping tool
calls.

| theorem | states |
| --- | --- |
| `CancelBounds` | after a cancel one batch of tools, or one turn of the sidecar, begins at most |
| `StagedAnswers` | a staged profile's answer knows the results of the whole plan |
| `AcceptedRuns` | an accepted profile leads to no missing or disabled phase; a staged one stays within the visits |
| `StallReaches` | `StallIsTold` |
| `StaleIdForgotten` | `StaleIdIsGone`: not stored again, unless no agent has given its id since it was cleared |
| `SkillGateOverlaps` | the action property `SkillBeforeUse`, with the gate enabled |
| `EndedRunsRefuse` | the action property `NoCallAfterEnd`: of every end but an abort and a failed pre_stop dispatch |
| `Invariance` | the invariants of both engines |

`StagedRun` is the argument for profiles whose rules only lead on: the visits made
are fewer than the rank of the phase to come, so what a phase finds was left
by phases of lower rank, and no run makes more visits than there are kinds of
phases. That needs `MaxVisits` to be at least the number of kinds, which
`PipelineAssumption` says: the code's 32 against four. `ProfilesAssumption` says that the
rules of a phase are a list, as the type in the code does. That validation protects runs along
*every* path (`PhaseUsable`) rests on its references alone, not on its trial walk.
`OneBatchLeft` follows a cancel through rounds, attempts and steps. For the
cursor engine, `CopiesHonest` says that no copy of the run's state has the skill before an
activation and that a copy nobody overtook is the run's state; `StallKept` follows a
stall until it replaces the text; `IdsFresh` orders the ids of agents; `TokenHeld`
ties the token to the places where the run still needs it.

### Memory (`MemoryStateProofs`)

For any numbers of actors, writes, crashes, edits by hand and failed reads and copies.

| theorem | states |
| --- | --- |
| `OneFaultSurvived` | one crash, one edit by hand or one read or copy that fails costs at most the last write, until tasks overlap; of a file that is no text, what the backup holds, which nothing loads |
| `EditsRemember` | `NotForgotten`: an edit starts from nothing only without a state, with a file that cannot be read, or after overlaps, two faults or a spoiled file without a backup |
| `LoneWriteStored` | the action property `AloneIsStored`, whatever came before |
| `Invariance` | the invariant behind them |

`Chained` says what the three files hold between any two file operations before the
first fault, `Preserved` after it: the file is one of the last two states, or it was
spoiled and then the backup is good, also while nothing can read the file. `Solo` says that an actor who is alone
finds the files as its last step left them, which is all that `LoneWriteStored` needs.

### Only model-checked

- Liveness, which the prover does not reach: `EveryRunSettles`, `RunningEnds`,
  `DueIsClaimed`, `JobsEnd`, `HeartbeatsEnd`, `Settles`, `FailedIsTold`,
  `StreamsEnd`, `TurnReturns`, `RunReturns`, and the progress in `KeepsPromise`.
- Of the type invariants, those parts that only restate a bound of the model (a saturated
  counter, a capped log) or the contents of a lane that `SelectSeq` filters. The
  `Types` of each proof module say what is proved.
- The two violations of section 4.

## 7. Not modelled

Texts, prompts, parsing, rendering and logs. Model providers, MCP servers, the
cursor sidecar and its agent, chat platforms, tmux beyond a session that starts and ends. The
arithmetic of cron expressions: a cron task is due every `Period`, so the tick never skips one for having
no next occurrence. A caller that
drops the future of an enqueue half way. Of a delegated sub-job only that it runs
and returns; of `memory_state.json` only which write it holds, not what the tiers
say or how a patch is merged; of the pipeline not the choice of a model per phase.
Of the cursor engine not the start of the sidecar process, nor the counters and names
that the copies hold beside the skill's flag and the stall, nor a database that fails, and the evaluator's call of its quality gate is no
prompt to the sidecar, so `late` does not count it. Delivery is one
step that succeeds or fails. Components with status `not_modelled` in `PROJECT.json`
carry their reason.

## 8. Plan

1. `Delivery`: the fan-out of one text, partial failure, the stored row; used by
   the job modules in place of the one-step delivery.
2. Composition: `ChatQueue` under `Scheduler` in place of the promise, by the
   refinement; `BackgroundJobs` with shell rows and optimizer rows in one slot.
3. Abstract specification of a job (created, ended once, told), implemented by
   `BackgroundJobs` and, without overlap, by `ShellJobs`.
4. The start of the cursor sidecar and the MCP client: time-out, reconnect, restart.
5. Proofs: the type of the lanes in `Scheduler`; that `Init` and `Next` of the
   abstract job (3) are implemented; the same for the composition (2).
