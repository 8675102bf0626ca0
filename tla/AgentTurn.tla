----------------------------- MODULE AgentTurn -----------------------------
(***************************************************************************)
(* One turn of the agent, process_classic_agent_with_events in             *)
(* src/src/channels/telegram.rs: rounds of model calls and tool batches,   *)
(* the hooks around them (src/src/hook_runtime.rs), the route to a local   *)
(* model and its fallback (src/src/local_delegate), the post-tool          *)
(* evaluator, and the gate every final text passes (quality evaluation,    *)
(* FinalResponse, the history record).  A user may set the run's cancel    *)
(* flag, and the queue may abort the task, at any moment.  Awaits that     *)
(* look at no flag and are followed by no look at it (hooks, the           *)
(* validation of an edit, the focus sync) are part of the step they follow.*)
(*                                                                         *)
(* What a model, a tool, a hook or an evaluator answers is any of its      *)
(* outcomes.  A tool stands for its class: what it needs, what it          *)
(* activates, whether the local route may run it.                          *)
(***************************************************************************)
EXTENDS Naturals, Sequences

CONSTANTS
    Tools,              \* tools a model may call
    MaxIterations,      \* max_tool_iterations
    MaxNudges,          \* DEFERRED_COMMITMENT_MAX_NUDGES
    MaxRetries,         \* quality_eval_max_nudges_per_run
    CostRouting,        \* cost_routing_active
    CanHandOff,         \* a web request that is not a background job
    SkillGate,          \* builtin_turn_skill_gate is enabled, and for this persona
    MaxBatch            \* bound: tool calls of one answer

ASSUME TurnAssumption ==
    /\ Tools \subseteq {"activate_skill", "modify_skill", "schedule_task", "update_scheduled_task",
                        "edit_skill", "build_skill", "write_file", "read_file", "write_memory",
                        "delegate_local_subjob"}
    /\ MaxIterations \in Nat \ {0}
    /\ {MaxNudges, MaxRetries, MaxBatch} \subseteq Nat
    /\ {CostRouting, CanHandOff, SkillGate} \subseteq BOOLEAN

\* is_read_only_tool, is_mutation_tool, is_memory_write_tool.
ReadOnly == {"read_file"}
Mutation == {"schedule_task", "edit_skill", "write_file", "write_memory", "delegate_local_subjob"}
MemoryWrite == {"write_memory"}

\* The skill a call needs to be active, and the one a call activates:
\* "modify_skill" stands for activate_skill with the modify skill's name,
\* "edit_skill" for a write below the directory of a skill, "build_skill" for
\* one that builds an existing skill anew.
Needs(t) ==
    CASE t \in {"schedule_task", "update_scheduled_task"} -> {"schedule-job"}
      [] t \in {"edit_skill", "build_skill"} -> {"modify-skill"}
      [] OTHER -> {}

Activates(t) ==
    CASE t = "activate_skill" -> {"schedule-job"}
      [] t = "modify_skill" -> {"modify-skill"}
      [] OTHER -> {}

Skills == {"schedule-job", "modify-skill"}

VARIABLES
    pc,         \* where the turn stands
    iteration,  \* of 'agent_loop
    cancel,     \* the run's cancel flag
    local,      \* the answer in hand is from the local route
    failed,     \* local_tier_error_streak > 0
    fellBack,   \* local_fallback_this_iter
    reading,    \* the last batch was not empty and only read
    calls,      \* tool calls of the answer not yet dealt with
    tool,       \* the tool that executes
    batch,      \* names of the answer's tool calls so far
    errors,     \* all results of the batch are errors
    timedOut,   \* iteration_timed_out
    stalled,    \* force_stall_response is set
    skills,     \* skills activated this turn
    nudges,     \* deferred_commitment_nudges
    retries,    \* pdqe_retries
    outcome,    \* how the turn ended
    records,    \* history: history records written
    shown,      \* history: FinalResponse events sent
    unsaved,    \* history: a tool has run that no iteration record names
    bypass,     \* history: the executing tool passed a failed or outwitted gate
    late,       \* history: the gate has begun to evaluate a draft since the cancel
    overrun     \* history: the gate wanted another round when there was none

routeVars == <<local, failed, fellBack, reading>>
batchVars == <<calls, tool, batch, errors, timedOut, stalled>>
gateVars == <<nudges, retries, outcome, records, shown, overrun>>
vars == <<pc, iteration, cancel, routeVars, batchVars, skills, gateVars, unsaved, bypass, late>>

\* Calls that await_with_cancel makes.
Calls == {"thinking", "falling", "executing", "evaluating", "synthesizing"}
Places ==
    {"new", "prepared", "top", "answer", "tools", "subjob", "gate", "judging",
     "exhausted", "judgingLast", "returned"} \union Calls

PlaceOK ==
    /\ pc \in Places
    /\ iteration \in 0 .. MaxIterations - 1
    /\ nudges \in 0 .. MaxNudges
    /\ retries \in 0 .. MaxRetries
    /\ outcome \in {"none", "ok", "err", "empty", "aborted"}
    /\ records \in Nat /\ shown \in Nat

FlagsOK ==
    /\ cancel \in BOOLEAN /\ local \in BOOLEAN /\ failed \in BOOLEAN /\ fellBack \in BOOLEAN
    /\ reading \in BOOLEAN /\ errors \in BOOLEAN /\ timedOut \in BOOLEAN /\ stalled \in BOOLEAN
    /\ unsaved \in BOOLEAN /\ bypass \in BOOLEAN /\ late \in BOOLEAN /\ overrun \in BOOLEAN

BatchOK ==
    /\ calls \in Seq(Tools)
    /\ tool \in Tools \union {"none"}
    /\ batch \subseteq Tools
    /\ skills \subseteq Skills
    /\ pc \in {"executing", "subjob"} => calls # <<>> /\ tool # "none"

TypeOK == PlaceOK /\ FlagsOK /\ BatchOK

Init ==
    /\ pc = "new"
    /\ iteration = 0
    /\ cancel = FALSE
    /\ local = FALSE /\ failed = FALSE /\ fellBack = FALSE /\ reading = FALSE
    /\ calls = <<>>
    /\ tool = "none"
    /\ batch = {}
    /\ errors = FALSE /\ timedOut = FALSE /\ stalled = FALSE
    /\ skills = {}
    /\ nudges = 0
    /\ retries = 0
    /\ outcome = "none"
    /\ records = 0 /\ shown = 0
    /\ unsaved = FALSE /\ bypass = FALSE /\ late = FALSE /\ overrun = FALSE

----------------------------------------------------------------------------
(* How a step of the loop leaves it: with an error, for the next round, or *)
(* with a final text that goes through the gate.                           *)

ReturnErr ==
    /\ pc' = "returned"
    /\ outcome' = "err"
    /\ UNCHANGED <<iteration, nudges, retries, shown, overrun>>

\* Fault for mutation: a round that goes on is not counted.
NextRoundUncounted == pc' = "top" /\ UNCHANGED iteration

\* continue: the for loop takes the next iteration or is over.
NextRound ==
    IF iteration + 1 < MaxIterations
    THEN pc' = "top" /\ iteration' = iteration + 1
    ELSE pc' = "exhausted" /\ UNCHANGED iteration

Continue ==
    /\ NextRound
    /\ UNCHANGED gateVars

\* FinalResponse is sent, the history record written and the text returned.
Complete ==
    /\ pc' = "returned"
    /\ outcome' = "ok"
    /\ records' = records + 1
    /\ shown' = shown + 1
    /\ UNCHANGED <<iteration, nudges, retries, overrun>>

\* Fault for mutation: the record is written before the gate has decided.
RetryRecorded ==
    /\ retries < MaxRetries
    /\ retries' = retries + 1
    /\ records' = records + 1
    /\ NextRound
    /\ UNCHANGED <<nudges, outcome, shown, overrun>>

\* The evaluator fails the text, is sure enough, and retries are left.
Retry ==
    /\ retries < MaxRetries
    /\ retries' = retries + 1
    /\ NextRound
    /\ UNCHANGED <<nudges, outcome, records, shown, overrun>>

\* try_finish_agent_turn: a cancelled run and a hand-off pass the gate without
\* an evaluation (should_skip_pdqe), other texts wait at it.
Finish(evaluated) ==
    IF evaluated
    THEN pc' = "gate" /\ UNCHANGED <<iteration, gateVars>>
    ELSE Complete

----------------------------------------------------------------------------
(* Before the loop, and the model's answer *)

\* The conversation is loaded; without a message of the user the turn is over
\* before it began.
Prepare ==
    /\ pc = "new"
    /\ \/ ReturnErr
       \/ pc' = "returned" /\ outcome' = "empty" /\ UNCHANGED <<iteration, nudges, retries, shown, overrun>>
       \/ pc' = "prepared" /\ UNCHANGED <<iteration, nudges, retries, outcome, shown, overrun>>
    /\ UNCHANGED <<cancel, routeVars, batchVars, skills, records, unsaved, bypass, late>>

\* The before_turn hooks fail, block the run, or let it begin.
BeforeTurn ==
    /\ pc = "prepared"
    /\ \/ ReturnErr /\ UNCHANGED records
       \/ /\ pc' = "returned"
          /\ outcome' = "ok"
          /\ records' = records + 1
          /\ UNCHANGED <<iteration, nudges, retries, shown, overrun>>
       \/ pc' = "top" /\ UNCHANGED <<iteration, gateVars>>
    /\ UNCHANGED <<cancel, routeVars, batchVars, skills, unsaved, bypass, late>>

\* The check at the top of the loop.
CancelledAtTop ==
    /\ pc = "top" /\ cancel
    /\ Finish(FALSE)
    /\ UNCHANGED <<cancel, routeVars, batchVars, skills, unsaved, bypass, late>>

\* resolve_inverse_route.
Route ==
    /\ CostRouting
    /\ 0 < iteration /\ iteration + 1 < MaxIterations
    /\ ~failed
    /\ reading

\* Fault for mutation: the flag is not looked at before the call.
RoundUnchecked ==
    /\ pc = "top"
    /\ pc' = "thinking"
    /\ local' = Route
    /\ fellBack' = FALSE
    /\ UNCHANGED <<iteration, cancel, failed, reading, batchVars, skills, gateVars, unsaved, bypass, late>>

\* A round begins with a call of the model the route names.
Round ==
    /\ pc = "top" /\ ~cancel
    /\ pc' = "thinking"
    /\ local' = Route
    /\ fellBack' = FALSE
    /\ UNCHANGED <<iteration, cancel, failed, reading, batchVars, skills, gateVars, unsaved, bypass, late>>

\* A text, tool calls, or a stop reason the loop does not know.
Take ==
    \/ /\ pc' = "answer"
       /\ UNCHANGED <<iteration, batchVars, gateVars>>
    \/ /\ \E n \in 0 .. MaxBatch : calls' \in [1 .. n -> Tools]
       /\ pc' = "tools"
       /\ tool' = "none"
       /\ batch' = {}
       /\ errors' = (calls' # <<>>)
       /\ timedOut' = FALSE
       /\ stalled' = FALSE
       /\ UNCHANGED <<iteration, gateVars>>
    \/ Finish(TRUE) /\ UNCHANGED batchVars

ModelReturns ==
    /\ pc = "thinking"
    /\ Take
    /\ UNCHANGED <<cancel, routeVars, skills, unsaved, bypass, late>>

\* An error is recorded and returned; a time-out or a cancel is a final text.
ModelFails ==
    /\ pc = "thinking"
    /\ \/ ReturnErr /\ records' = records + 1
       \/ Finish(TRUE)
       \/ cancel /\ Finish(FALSE)
    /\ UNCHANGED <<cancel, routeVars, batchVars, skills, unsaved, bypass, late>>

\* The local route answered its tool results with no text and no call, or with
\* claims: the strategy model is asked, unless the run is cancelled.
BeginFallback ==
    /\ pc = "thinking" /\ local /\ ~cancel
    /\ pc' = "falling"
    /\ fellBack' = TRUE
    /\ UNCHANGED <<iteration, cancel, local, failed, reading, batchVars, skills, gateVars, unsaved, bypass, late>>

FallbackReturns ==
    /\ pc = "falling"
    /\ local' = FALSE
    /\ failed' = TRUE
    /\ Take
    /\ UNCHANGED <<cancel, fellBack, reading, skills, unsaved, bypass, late>>

\* An error, a time-out or a cancel: the next round is for the strategy model.
FallbackFails ==
    /\ pc = "falling" \/ (pc = "thinking" /\ local /\ cancel)
    /\ failed' = TRUE
    /\ fellBack' = TRUE
    /\ Continue
    /\ UNCHANGED <<cancel, local, reading, batchVars, skills, unsaved, bypass, late>>

\* The pre_stop hooks fail, refuse the end (as a deferred commitment or by a
\* rule of their own), add context, or let the text go to the gate.
Answer ==
    /\ pc = "answer"
    /\ \/ ReturnErr /\ UNCHANGED records
       \/ /\ iteration + 1 < MaxIterations
          /\ nudges < MaxNudges
          /\ nudges' = nudges + 1
          /\ NextRound
          /\ UNCHANGED <<retries, outcome, records, shown, overrun>>
       \/ iteration + 1 < MaxIterations /\ Continue
       \/ Finish(TRUE)
    /\ UNCHANGED <<cancel, routeVars, batchVars, skills, unsaved, bypass, late>>

----------------------------------------------------------------------------
(* A batch of tool calls *)

\* The call is dealt with: its result goes into the batch.
Result(isError) ==
    /\ calls' = Tail(calls)
    /\ batch' = batch \union {Head(calls)}
    /\ errors' = (errors /\ isError)
    /\ pc' = "tools"

\* The same after the loop guards and the PostToolUse hooks, which may force
\* the turn to stop.
GuardedResult(isError) ==
    /\ Result(isError)
    /\ \E stall \in BOOLEAN : stalled' = (stalled \/ stall)

\* A hook blocks the call: the skill gate one that lacks its skill, other
\* hooks any call.
Blocked ==
    /\ pc = "tools" /\ calls # <<>>
    /\ Result(TRUE)
    /\ UNCHANGED <<iteration, cancel, routeVars, tool, timedOut, stalled, skills, gateVars, unsaved, bypass, late>>

\* Fault for mutation: the gate looks at the call's name only.
PassesNameOnly(t, through) ==
    \/ t \in {"schedule_task", "update_scheduled_task"} => Needs(t) \subseteq skills
    \/ ~SkillGate
    \/ through

\* The PreToolUse hooks let call t through: the gate misses no skill or is not
\* among them, or the dispatch failed and its error is dropped.
Passes(t, through) == Needs(t) \subseteq skills \/ ~SkillGate \/ through

\* The local route refuses a mutation, whatever the hooks made of the call.
Refuses(t) == local /\ Head(calls) \in Mutation /\ t # "delegate_local_subjob"

BeginSubjob(t) ==
    /\ t = "delegate_local_subjob"
    /\ pc' = "subjob"
    /\ tool' = t
    /\ bypass' = FALSE
    /\ UNCHANGED <<iteration, calls, batch, errors, stalled, gateVars>>

Refused(t) ==
    /\ Refuses(t)
    /\ GuardedResult(TRUE)
    /\ UNCHANGED <<iteration, tool, gateVars, bypass>>

Execute(t, outwitted) ==
    /\ t # "delegate_local_subjob" /\ ~Refuses(t) /\ ~cancel
    /\ pc' = "executing"
    /\ tool' = t
    /\ bypass' = outwitted
    /\ UNCHANGED <<iteration, calls, batch, errors, stalled, gateVars>>

CancelledBefore(t) ==
    /\ t # "delegate_local_subjob" /\ ~Refuses(t) /\ cancel
    /\ Finish(FALSE)
    /\ UNCHANGED <<calls, tool, batch, errors, stalled, bypass>>

\* A call that passes its hooks, one of which may rewrite the path of a write:
\* the sub-job begins, the local route refuses it, or it executes unless the run
\* is cancelled.
Begin ==
    /\ pc = "tools" /\ calls # <<>>
    /\ \E dispatchFails \in BOOLEAN, t \in {Head(calls)} \union Tools :
        /\ t # Head(calls) => Head(calls) = "write_file" /\ t = "edit_skill" /\ ~dispatchFails
        /\ Passes(Head(calls), dispatchFails)
        /\ \/ BeginSubjob(t) \/ Refused(t) \/ CancelledBefore(t)
           \/ Execute(t, dispatchFails \/ t # Head(calls))
    /\ UNCHANGED <<cancel, routeVars, timedOut, skills, unsaved, late>>

\* A tool that succeeds may activate a skill; an edit is validated first, and
\* one that does not pass is an error (run_post_edit_validation).
ToolReturns ==
    /\ pc = "executing"
    /\ \E isError \in BOOLEAN :
        /\ GuardedResult(isError)
        /\ skills' = IF isError THEN skills ELSE skills \union Activates(tool)
    /\ tool' = "none"
    /\ bypass' = FALSE
    /\ unsaved' = TRUE
    /\ UNCHANGED <<iteration, cancel, routeVars, timedOut, gateVars, late>>

ToolTimesOut ==
    /\ pc = "executing"
    /\ GuardedResult(TRUE)
    /\ timedOut' = TRUE
    /\ tool' = "none"
    /\ bypass' = FALSE
    /\ unsaved' = TRUE
    /\ UNCHANGED <<iteration, cancel, routeVars, skills, gateVars, late>>

\* The wait is given up and the turn finished; the iteration is not recorded.
ToolCancelled ==
    /\ pc = "executing" /\ cancel
    /\ Finish(FALSE)
    /\ unsaved' = TRUE
    /\ UNCHANGED <<cancel, routeVars, batchVars, skills, bypass, late>>

\* run_local_subjob looks at no flag: it ends with a summary or an error.
SubjobReturns ==
    /\ pc = "subjob"
    /\ \E isError \in BOOLEAN : GuardedResult(isError)
    /\ tool' = "none"
    /\ unsaved' = TRUE
    /\ UNCHANGED <<iteration, cancel, routeVars, timedOut, skills, gateVars, bypass, late>>

\* All calls are dealt with: the iteration is recorded, and the streak of the
\* local route, the guards, the PostToolBatch hooks, a batch that only wrote
\* memory, a time-out or the evaluator decide how to go on.
EndBatch ==
    /\ pc = "tools" /\ calls = <<>>
    /\ unsaved' = FALSE
    /\ reading' = (batch # {} /\ batch \subseteq ReadOnly)
    /\ failed' = IF errors THEN failed \/ local ELSE failed /\ fellBack
    /\ \/ Finish(TRUE)      \* the guards or the hooks, with stalled or not
       \/ ~stalled /\ ~timedOut /\ batch # {} /\ batch \subseteq MemoryWrite /\ Finish(TRUE)
       \/ ~stalled /\ timedOut /\ Finish(~CanHandOff)
       \/ ~stalled /\ ~timedOut /\ cancel /\ Finish(FALSE)
       \/ /\ ~stalled /\ ~timedOut /\ ~cancel
          /\ pc' = "evaluating"
          /\ UNCHANGED <<iteration, gateVars>>
    /\ UNCHANGED <<cancel, local, fellBack, batchVars, skills, bypass, late>>

----------------------------------------------------------------------------
(* The post-tool evaluator, the last text, and the end *)

\* Complete asks for a last text, ask_user and stop end the turn, a hand-off
\* ends it for a web request; continue and an error go on.
Evaluate ==
    /\ pc = "evaluating"
    /\ \/ ~cancel /\ pc' = "synthesizing" /\ UNCHANGED <<iteration, gateVars>>
       \/ cancel /\ Finish(FALSE)
       \/ Finish(TRUE)
       \/ CanHandOff /\ Finish(FALSE)
       \/ Continue
    /\ UNCHANGED <<cancel, routeVars, batchVars, skills, unsaved, bypass, late>>

\* An error of this call is returned without a record.
Synthesize ==
    /\ pc = "synthesizing"
    /\ \/ ReturnErr /\ UNCHANGED records
       \/ Finish(TRUE)
       \/ cancel /\ Finish(FALSE)
    /\ UNCHANGED <<cancel, routeVars, batchVars, skills, unsaved, bypass, late>>

\* Nobody looks at the cancel flag between the exit that made the text and the
\* evaluator's call, or during it.
BeginEvaluation(place) ==
    /\ pc' = place
    /\ late' = (late \/ cancel)
    /\ UNCHANGED <<iteration, gateVars>>

\* The PostDelivery hooks have run: the text is evaluated, or delivered when the
\* evaluator is switched off or the text or the request is empty.
AtGate ==
    /\ pc = "gate"
    /\ BeginEvaluation("judging") \/ (Complete /\ UNCHANGED late)
    /\ UNCHANGED <<cancel, routeVars, batchVars, skills, unsaved, bypass>>

\* The text passes, the evaluation fails, or its author is asked again.
Judge ==
    /\ pc = "judging"
    /\ Complete \/ Retry
    /\ UNCHANGED <<cancel, routeVars, batchVars, skills, unsaved, bypass, late>>

\* The loop is over: its last text goes through the gate like any other.
MaxIterationsReached ==
    /\ pc = "exhausted"
    /\ BeginEvaluation("judgingLast") \/ (Complete /\ UNCHANGED late)
    /\ UNCHANGED <<cancel, routeVars, batchVars, skills, unsaved, bypass>>

\* The gate's wish to retry returns this text all the same, with no
\* FinalResponse and no record.
JudgeLast ==
    /\ pc = "judgingLast"
    /\ \/ Complete
       \/ /\ retries < MaxRetries
          /\ retries' = retries + 1
          /\ pc' = "returned"
          /\ outcome' = "ok"
          /\ overrun' = TRUE
          /\ UNCHANGED <<iteration, nudges, records, shown>>
    /\ UNCHANGED <<cancel, routeVars, batchVars, skills, unsaved, bypass, late>>

\* A user asks to stop the run.
Cancel ==
    /\ pc # "returned" /\ ~cancel
    /\ cancel' = TRUE
    /\ UNCHANGED <<pc, iteration, routeVars, batchVars, skills, gateVars, unsaved, bypass, late>>

\* The queue's hard time-out, or a panic, ends the task where it stands.
Abort ==
    /\ pc # "returned"
    /\ pc' = "returned"
    /\ outcome' = "aborted"
    /\ UNCHANGED <<iteration, cancel, routeVars, batchVars, skills, nudges, retries, records, shown, overrun, unsaved, bypass, late>>

Step ==
    \/ Prepare \/ BeforeTurn \/ CancelledAtTop \/ Round \/ ModelReturns \/ ModelFails
    \/ BeginFallback \/ FallbackReturns \/ FallbackFails \/ Answer
    \/ Blocked \/ Begin \/ ToolReturns \/ ToolTimesOut \/ ToolCancelled
    \/ SubjobReturns \/ EndBatch \/ Evaluate \/ Synthesize
    \/ AtGate \/ Judge \/ MaxIterationsReached \/ JudgeLast

Next == Step \/ Cancel \/ Abort

Spec == Init /\ [][Next]_vars

\* The task is driven by its runtime, and every call it awaits returns: model
\* calls and tools have time-outs.
FairSpec == Spec /\ WF_vars(Step)

----------------------------------------------------------------------------
(* Properties *)

\* Once a cancel request is set, no call of a model, a tool or the post-tool
\* evaluator begins any more, whatever the loop was doing when it came, and at
\* most one draft is still evaluated before the turn returns, besides the text
\* of an exhausted loop.  What may still begin is a delegated sub-job, the hooks
\* and the validation of an edit (await_with_cancel, finish_turn_with_quality_gate).
CancelStopsWork ==
    [][cancel /\ pc' # pc => pc' \notin Calls /\ (pc' = "judging" => ~late)]_vars

\* A turn that returns a text has written one history record, with every tool
\* that ran unless the run was cancelled, and has sent at most one
\* FinalResponse, however many drafts the gate sent back; the exception is a
\* draft sent back after the last round (finish_turn_with_quality_gate).
RecordedOnce ==
    /\ shown <= records /\ records <= 1
    /\ outcome = "ok" => records = 1 \/ overrun
    /\ outcome = "ok" /\ unsaved => cancel

\* A tool that needs a skill runs after a call activated it in the same turn,
\* if the gate is among the persona's hooks, except when the dispatch of the
\* hooks failed or a hook put another path into the input the gate had seen
\* (builtin_turn_skill_gate).
SkillGateHolds ==
    SkillGate /\ pc = "executing" => Needs(tool) \subseteq skills \/ bypass

\* Every turn returns: refused ends, drafts sent back, fallbacks and errors
\* all use up rounds (the for loop over max_tool_iterations).
TurnReturns == <>(pc = "returned")
=============================================================================
