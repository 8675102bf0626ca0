------------------------------ MODULE Pipeline ------------------------------
(***************************************************************************)
(* One turn of the deterministic engine (src/src/agent_pipeline).  The     *)
(* runner walks the phases of a configured profile: classify the intent,   *)
(* generate a plan, execute it step by step with a retry and an            *)
(* escalation, write the delivery; a phase's transition rules name the     *)
(* next phase or a terminal.  Every terminal's text passes the quality     *)
(* gate it shares with the other engines.                                  *)
(*                                                                         *)
(* Profiles are edited by the user and validated when they are stored or   *)
(* loaded.  What a model or a tool answers is any of its outcomes; a user  *)
(* may cancel, and the queue may abort the task, at any moment.            *)
(***************************************************************************)
EXTENDS Naturals, Sequences, FiniteSets

CONSTANTS
    Profiles,       \* profiles a user may write
    Callers,        \* subset of {"web", "job", "chat"}: who asks
    UseLocal,       \* the execute phase's route is a local model
    MaxVisits,      \* the runner's budget of phase visits, 32 in the code: at
                    \* least one for each kind of phase
    MaxSteps,       \* max_plan_steps, of which a valid profile has at least one
    MaxRounds,      \* max_iterations of a step
    MaxRetries      \* quality_eval_max_nudges_per_run

Kinds == {"intent", "plan", "execute", "deliver"}
Terminals == {"direct", "clarify", "finish"}
Conditions == {"always", "conversational", "question", "task", "unclear", "unclear_proceed",
               "plan_empty", "any_failed", "all_succeeded", "web", "scheduled"}

ASSUME PipelineAssumption ==
    /\ Callers \subseteq {"web", "job", "chat"}
    /\ UseLocal \in BOOLEAN
    /\ {MaxVisits, MaxSteps, MaxRounds} \subseteq Nat \ {0} /\ Cardinality(Kinds) <= MaxVisits
    /\ MaxRetries \in Nat

\* The rules of a phase are a list.
ASSUME ProfilesAssumption ==
    \A prof \in Profiles : \A id \in DOMAIN prof.phases :
        prof.phases[id].rules \in Seq([when : Conditions, goto : STRING])

\* What classification says of a request.
Intents == [category : {"conversational", "question", "task"}, unclear : BOOLEAN]
NoIntent == [category |-> "none", unclear |-> FALSE]

VARIABLES
    profile,    \* the copy of the profile the run works with
    caller,     \* web, a job (scheduled or background) or another channel
    cancel,     \* the run's cancel flag
    pc,         \* where the run stands
    phase,      \* current_phase_id
    visits,     \* guard
    intent,
    plan,       \* number of steps of the plan, 0 when there is none
    results,    \* success of each step, of the last execution that completed
    response,   \* final_response: "none", "current" or "stale" (history)
    done,       \* results of the execution under way
    attempt,    \* attempts of the step under way
    rounds,     \* rounds of the attempt
    ran,        \* the attempt has called tools
    errors,     \* had_tool_errors of the attempt
    terminal,   \* the terminal the run is at
    retries,    \* pdqe_retries
    outcome,    \* how the run ended
    late        \* history: tool batches begun after the cancel request

planVars == <<intent, plan, results, response>>
stepVars == <<done, attempt, rounds, ran, errors>>
endVars == <<terminal, retries, outcome>>
vars == <<profile, caller, cancel, pc, phase, visits, planVars, stepVars, endVars, late>>

Asking == {"asking", "guiding", "answering"}

TypeOK ==
    /\ profile \in Profiles /\ caller \in Callers /\ cancel \in BOOLEAN
    /\ pc \in Asking \union {"phase", "feeding", "round", "tools", "judged", "leaving", "gate", "returned"}
    /\ visits \in 0 .. MaxVisits
    /\ intent \in Intents \union {NoIntent}
    /\ plan \in 0 .. MaxSteps
    /\ results \in Seq(BOOLEAN) /\ done \in Seq(BOOLEAN)
    /\ response \in {"none", "current", "stale"}
    /\ attempt \in 0 .. 3
    /\ rounds \in 0 .. MaxRounds
    /\ {ran, errors} \subseteq BOOLEAN
    /\ terminal \in Terminals \union {"none"}
    /\ retries \in 0 .. MaxRetries
    /\ outcome \in {"none", "ok", "model_error", "bad_phase", "no_transition", "missing", "budget", "aborted"}
    /\ late \in Nat

----------------------------------------------------------------------------
(* Transition rules, and the validation of a profile *)

\* should_proceed_despite_clarify.
Proceeds(who, prof) ==
    \/ who = "job" /\ prof.schedulerProceeds
    \/ who = "web" /\ prof.webProceeds

\* matches_condition, in the context ctx of a run or of the validation.
Matches(when, ctx, prof) ==
    CASE when = "always" -> TRUE
      [] when \in {"conversational", "question", "task"} -> ctx.intent.category = when
      [] when = "unclear" -> ctx.intent.unclear /\ ~Proceeds(ctx.caller, prof)
      [] when = "unclear_proceed" -> ctx.intent.unclear /\ Proceeds(ctx.caller, prof)
      [] when = "plan_empty" -> ctx.plan = 0
      [] when = "any_failed" -> \E i \in DOMAIN ctx.results : ~ctx.results[i]
      [] when = "all_succeeded" -> ctx.results # <<>> /\ \A i \in DOMAIN ctx.results : ctx.results[i]
      [] when = "web" -> ctx.caller = "web"
      [] when = "scheduled" -> ctx.caller = "job"

\* resolve_transition: the target of the first rule that matches.
Target(id, ctx, prof) ==
    LET rules == prof.phases[id].rules
        hits == {i \in DOMAIN rules : Matches(rules[i].when, ctx, prof)}
    IN  IF hits = {} THEN "nowhere"
        ELSE rules[CHOOSE i \in hits : \A j \in hits : i <= j].goto

Ids(prof) == DOMAIN prof.phases
Usable(id, prof) == id \in Ids(prof) /\ prof.phases[id].enabled

\* Fault for mutation: the targets of the rules are not looked at.
ReferencesUnchecked(prof) == Usable(prof.entry, prof)

\* The entry is an enabled phase, the rules of enabled phases name phases, and
\* no rule names a disabled one.
References(prof) ==
    /\ Usable(prof.entry, prof)
    /\ \A id \in Ids(prof) : \A i \in DOMAIN prof.phases[id].rules :
        LET goto == prof.phases[id].rules[i].goto
        IN  /\ prof.phases[id].enabled => goto \in Terminals \union Ids(prof)
            /\ goto \in Ids(prof) => prof.phases[goto].enabled

\* The context validate_graph_terminates walks with.
TrialContext == [intent |-> NoIntent, plan |-> 1, results |-> <<>>, caller |-> "chat"]

\* validate_graph_terminates: the one walk of that context reaches a terminal.
\* It chooses the same way each time, so that a phase met twice is met until
\* the limit of eight visits refuses it.
Terminates(prof) ==
    LET walk[n \in 0 .. Cardinality(Ids(prof))] ==
            IF n = 0 THEN prof.entry
            ELSE IF walk[n - 1] \in Ids(prof) THEN Target(walk[n - 1], TrialContext, prof)
            ELSE walk[n - 1]
    IN  walk[Cardinality(Ids(prof))] \in Terminals

Valid(prof) == References(prof) /\ Terminates(prof)

Init ==
    /\ profile \in {prof \in Profiles : Valid(prof)}
    /\ caller \in Callers
    /\ cancel = FALSE
    /\ pc = "phase"
    /\ phase = profile.entry
    /\ visits = 0
    /\ intent = NoIntent /\ plan = 0 /\ results = <<>> /\ response = "none"
    /\ done = <<>> /\ attempt = 0 /\ rounds = 0 /\ ran = FALSE /\ errors = FALSE
    /\ terminal = "none" /\ retries = 0 /\ outcome = "none"
    /\ late = 0

----------------------------------------------------------------------------
(* The runner's loop over phases *)

\* The run fails; nothing is delivered and no record is written.
Fail(why) ==
    /\ pc' = "returned"
    /\ outcome' = why
    /\ UNCHANGED <<terminal, retries>>

\* A phase of this kind is entered.
Visit(kind) ==
    /\ pc = "phase" /\ visits < MaxVisits
    /\ Usable(phase, profile) /\ profile.phases[phase].kind = kind
    /\ visits' = visits + 1
    /\ UNCHANGED <<profile, caller, cancel, phase, late>>

\* The budget of visits is used up, or the phase does not exist or is disabled.
VisitFails ==
    /\ pc = "phase"
    /\ \/ visits = MaxVisits /\ Fail("budget")
       \/ visits < MaxVisits /\ ~Usable(phase, profile) /\ Fail("bad_phase")
    /\ UNCHANGED <<profile, caller, cancel, phase, visits, planVars, stepVars, late>>

\* Plans by their number of steps: an answer that cannot be parsed becomes a
\* plan of one step, and one that is too long is cut.
Plans == 1 .. MaxSteps

\* The plan that comes with the intent, when one call is asked for both and its
\* answer can be parsed.
PlansWithIntent == IF profile.merged THEN Plans ELSE {}

\* One call may return the intent and a plan; else the intent alone.  The plan
\* of an earlier visit is overwritten by one call and kept by the other.
Classify ==
    /\ Visit("intent")
    /\ \/ Fail("model_error") /\ UNCHANGED planVars
       \/ /\ pc' = "leaving"
          /\ intent' \in Intents
          /\ plan' \in {plan} \union PlansWithIntent
          /\ response' = IF response = "none" THEN "none" ELSE "stale"
          /\ UNCHANGED <<results, endVars>>
    /\ UNCHANGED stepVars

\* A plan there is already is kept.
GeneratePlan ==
    /\ Visit("plan")
    /\ \/ plan # 0 /\ pc' = "leaving" /\ UNCHANGED <<plan, endVars>>
       \/ plan = 0 /\ intent = NoIntent /\ Fail("missing") /\ UNCHANGED plan
       \/ plan = 0 /\ intent # NoIntent /\ Fail("model_error") /\ UNCHANGED plan
       \/ /\ plan = 0 /\ intent # NoIntent
          /\ pc' = "leaving"
          /\ plan' \in Plans
          /\ UNCHANGED endVars
    /\ UNCHANGED <<intent, results, response, stepVars>>

BeginExecute ==
    /\ Visit("execute")
    /\ \/ plan = 0 /\ Fail("missing") /\ UNCHANGED stepVars
       \/ /\ plan # 0
          /\ pc' = "feeding"
          /\ done' = <<>>
          /\ UNCHANGED <<attempt, rounds, ran, errors, endVars>>
    /\ UNCHANGED planVars

\* synthesize_final or, when the results are good, polish_delivery: one call of
\* a model over the results there are.
Deliver ==
    /\ Visit("deliver")
    /\ \/ intent = NoIntent /\ Fail("missing") /\ UNCHANGED response
       \/ intent # NoIntent /\ Fail("model_error") /\ UNCHANGED response
       \/ /\ intent # NoIntent
          /\ pc' = "leaving"
          /\ response' = "current"
          /\ UNCHANGED endVars
    /\ UNCHANGED <<intent, plan, results, stepVars>>

Context == [intent |-> intent, plan |-> plan, results |-> results, caller |-> caller]

\* The phase is over: its rules, with the policies of the profile and not of
\* the phase, name a phase or a terminal.
Leave ==
    /\ pc = "leaving"
    /\ LET goto == Target(phase, Context, profile)
       IN  \/ goto = "nowhere" /\ Fail("no_transition") /\ UNCHANGED <<phase, response>>
           \/ /\ goto \notin Terminals \union {"nowhere"}
              /\ pc' = "phase"
              /\ phase' = goto
              /\ UNCHANGED <<response, endVars>>
           \/ /\ goto \in {"direct", "clarify"} /\ intent = NoIntent
              /\ Fail("missing")
              /\ UNCHANGED <<phase, response>>
           \/ /\ goto \in {"direct", "clarify"} /\ intent # NoIntent
              /\ pc' = IF goto = "direct" THEN "answering" ELSE "gate"
              /\ terminal' = goto
              /\ UNCHANGED <<phase, response, retries, outcome>>
           \/ /\ goto = "finish" /\ response = "none"
              /\ Fail("missing")
              /\ UNCHANGED <<phase, response>>
           \/ /\ goto = "finish" /\ response # "none"
              /\ pc' = "gate"
              /\ terminal' = goto
              /\ UNCHANGED <<phase, response, retries, outcome>>
    /\ UNCHANGED <<profile, caller, cancel, visits, intent, plan, results, stepVars, late>>

DirectAnswer ==
    /\ pc = "answering"
    /\ Fail("model_error") \/ (pc' = "gate" /\ UNCHANGED endVars)
    /\ UNCHANGED <<profile, caller, cancel, phase, visits, planVars, stepVars, late>>

\* finish_pipeline: the evaluator may ask for a revision, upon which the same
\* text is evaluated again; the text goes out when it passes or the budget of
\* retries is used up.
Gate ==
    /\ pc = "gate"
    /\ \/ /\ retries < MaxRetries
          /\ retries' = retries + 1
          /\ UNCHANGED <<pc, terminal, outcome>>
       \/ /\ pc' = "returned"
          /\ outcome' = "ok"
          /\ UNCHANGED <<terminal, retries>>
    /\ UNCHANGED <<profile, caller, cancel, phase, visits, planVars, stepVars, late>>

----------------------------------------------------------------------------
(* The execution of the plan, step by step *)

Executing == UNCHANGED <<profile, caller, phase, visits, intent, plan>>

\* A step begins, after the results of the steps before it are summarized.
Feed ==
    /\ pc = "feeding"
    /\ \/ /\ profile.summaries /\ done # <<>>
          /\ Fail("model_error")
          /\ UNCHANGED stepVars
       \/ /\ pc' = "round"
          /\ attempt' = 1 /\ rounds' = 0 /\ ran' = FALSE /\ errors' = FALSE
          /\ UNCHANGED <<done, endVars>>
    /\ Executing /\ UNCHANGED <<cancel, results, response, late>>

\* Fault for mutation: only the first attempt of a step looks at the flag.
RoundFirstOnly ==
    /\ pc = "round"
    /\ IF rounds < MaxRounds /\ ~(cancel /\ attempt = 1)
       THEN pc' = "asking" /\ rounds' = rounds + 1
       ELSE pc' = "judged" /\ UNCHANGED rounds
    /\ Executing /\ UNCHANGED <<cancel, results, response, done, attempt, ran, errors, endVars, late>>

\* run_step_once looks at the cancel flag at the top of a round only.
Round ==
    /\ pc = "round"
    /\ IF rounds < MaxRounds /\ ~cancel
       THEN pc' = "asking" /\ rounds' = rounds + 1
       ELSE pc' = "judged" /\ UNCHANGED rounds
    /\ Executing /\ UNCHANGED <<cancel, results, response, done, attempt, ran, errors, endVars, late>>

\* An error or a time-out of the model ends the whole run; an answer without
\* tool calls ends the attempt.
ModelReturns ==
    /\ pc = "asking"
    /\ \/ Fail("model_error") /\ UNCHANGED late
       \/ pc' = "judged" /\ UNCHANGED <<endVars, late>>
       \/ /\ pc' = "tools"
          /\ late' = IF cancel THEN late + 1 ELSE late
          /\ UNCHANGED endVars
    /\ Executing /\ UNCHANGED <<cancel, results, response, stepVars>>

\* The batch: calls that only read together, then the others one by one.
ToolsReturn ==
    /\ pc = "tools"
    /\ pc' = "round"
    /\ ran' = TRUE
    /\ errors' \in {TRUE, errors}
    /\ Executing /\ UNCHANGED <<cancel, results, response, done, attempt, rounds, endVars, late>>

\* Fault for mutation: the last step is left out.
AcceptEarly(success) ==
    /\ done' = Append(done, success)
    /\ IF Len(done) + 2 < plan
       THEN pc' = "feeding" /\ UNCHANGED <<results, response>>
       ELSE /\ pc' = "leaving"
            /\ results' = done'
            /\ response' = IF response = "none" THEN "none" ELSE "stale"
    /\ UNCHANGED <<attempt, rounds, ran, errors, endVars>>

\* The step has its result; after the last step the phase has its results,
\* which a text written before does not know.
Accept(success) ==
    /\ done' = Append(done, success)
    /\ IF Len(done) + 1 < plan
       THEN pc' = "feeding" /\ UNCHANGED <<results, response>>
       ELSE /\ pc' = "leaving"
            /\ results' = done'
            /\ response' = IF response = "none" THEN "none" ELSE "stale"
    /\ UNCHANGED <<attempt, rounds, ran, errors, endVars>>

\* The same step is tried once more, from its first round.
Again ==
    /\ pc' = "round"
    /\ attempt' = attempt + 1
    /\ rounds' = 0 /\ ran' = FALSE /\ errors' = FALSE
    /\ UNCHANGED <<results, response, done, endVars>>

ShouldRetry == attempt = 1 /\ profile.retry /\ ran
ShouldEscalate == attempt < 3 /\ UseLocal /\ profile.escalate /\ ran

\* Fault for mutation: an attempt that failed is retried until it succeeds.
JudgeUntilSuccess ==
    /\ pc = "judged"
    /\ \/ ~errors /\ Accept(TRUE)
       \/ profile.retry /\ ran /\ pc' = "round" /\ rounds' = 0 /\ ran' = FALSE /\ errors' = FALSE
            /\ UNCHANGED <<results, response, done, attempt, endVars>>
       \/ ~(profile.retry /\ ran) /\ Accept(FALSE)
    /\ Executing /\ UNCHANGED <<cancel, late>>

\* verify_step on the attempt: tool errors always fail it.  A failed first
\* attempt that called tools is retried (not when its summary is blank and no
\* tool reported an error); a failure after that may be escalated.
Judge ==
    /\ pc = "judged"
    /\ \/ ~errors /\ Accept(TRUE)
       \/ ShouldRetry /\ Again
       \/ /\ ShouldRetry => ~errors
          /\ ShouldEscalate
          /\ pc' = "guiding"
          /\ UNCHANGED <<results, response, stepVars, endVars>>
       \/ (ShouldRetry => ~errors) /\ ~ShouldEscalate /\ Accept(FALSE)
    /\ Executing /\ UNCHANGED <<cancel, late>>

\* escalate_step: a better model may have advice for a last attempt, which the
\* phase's own model makes.
Escalate ==
    /\ pc = "guiding"
    /\ \/ Fail("model_error") /\ UNCHANGED <<results, response, stepVars>>
       \/ Accept(FALSE)
       \/ /\ pc' = "round"
          /\ attempt' = 3
          /\ rounds' = 0 /\ ran' = FALSE /\ errors' = FALSE
          /\ UNCHANGED <<results, response, done, endVars>>
    /\ Executing /\ UNCHANGED <<cancel, late>>

----------------------------------------------------------------------------
(* The surroundings *)

\* A user asks to stop the run.
Cancel ==
    /\ pc # "returned" /\ ~cancel
    /\ cancel' = TRUE
    /\ UNCHANGED <<profile, caller, pc, phase, visits, planVars, stepVars, endVars, late>>

\* The queue's hard time-out, or a panic, ends the task where it stands.
Abort ==
    /\ pc # "returned"
    /\ Fail("aborted")
    /\ UNCHANGED <<profile, caller, cancel, phase, visits, planVars, stepVars, late>>

Step ==
    \/ VisitFails \/ Classify \/ GeneratePlan \/ BeginExecute \/ Deliver \/ Leave
    \/ DirectAnswer \/ Gate
    \/ Feed \/ Round \/ ModelReturns \/ ToolsReturn \/ Judge \/ Escalate

Next == Step \/ Cancel \/ Abort

Spec == Init /\ [][Next]_vars

\* The task is driven by its runtime, and every call it awaits returns.
FairSpec == Spec /\ WF_vars(Step)

----------------------------------------------------------------------------
(* Properties *)

\* After a cancel request at most one more batch of tools begins in the whole
\* run, however many rounds, attempts, steps and visits are left: the one the
\* model call under way asks for (run_step_once).
OneLateBatch == late <= 1

Rank(kind) == CASE kind = "intent" -> 1 [] kind = "plan" -> 2 [] kind = "execute" -> 3 [] OTHER -> 4

\* Profiles whose rules only lead on, from intent over plan and execution to
\* the delivery, as those of the default profile do.
Staged(prof) ==
    \A a, b \in Ids(prof) : \A i \in DOMAIN prof.phases[a].rules :
        prof.phases[a].rules[i].goto = b => Rank(prof.phases[a].kind) < Rank(prof.phases[b].kind)

\* A run of a staged profile that finishes answers with a text written after
\* its plan was executed, and every step of the plan has its result.  In other
\* profiles, which the validation accepts too, a later visit may leave an older
\* text in final_response or change the plan (run_profiled_pipeline).
AnswersItsRun ==
    outcome = "ok" /\ terminal = "finish" /\ Staged(profile)
        => response = "current" /\ Len(results) \in {0, plan}

\* What the validation of a profile buys the runs made with it: no run meets
\* a phase that is missing or disabled, and a staged one stays within the
\* budget of visits.  A run may still find no transition, or nothing to finish
\* with.
ValidProfileRuns ==
    /\ outcome # "bad_phase"
    /\ outcome = "budget" => ~Staged(profile)

\* Every run returns, through rules that send it back, retries, escalations
\* and revisions the evaluator asks for.
RunReturns == <>(pc = "returned")
=============================================================================
