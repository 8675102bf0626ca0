---------------------------- MODULE AgentEngines ----------------------------
(***************************************************************************)
(* process_with_agent_with_events with one of the two engines that stand   *)
(* in for the classic loop: a run is handed to the deterministic or to the *)
(* cursor engine, as the runtime toggle has it when the run begins.  They  *)
(* share the run's cancel flag, its way out through the quality gate and   *)
(* its outcome.  The cursor engine may give the run up to the classic      *)
(* loop, which AgentTurn models from its start.                            *)
(***************************************************************************)
EXTENDS Pipeline

CONSTANTS Calls, Activating, Gated, SkillGate, MaxNudges

VARIABLES
    engine,     \* AgentEngine of the run
    stored, resume, returned, given, answer, nudges, text, token, shared, call,
    scratch, gone, since, activated, unjudged, stalled, dirty, raced

Cursor == INSTANCE CursorEngine

ASSUME CursorAssumption == Cursor!CursorConstants

runVars == <<cancel, pc, retries, outcome, late>>
cursorVars == <<stored, resume, returned, given, answer, nudges, text, token, shared, call,
                scratch, gone, since, activated, unjudged, stalled, dirty, raced>>
pipelineVars == <<profile, caller, phase, visits, planVars, stepVars, terminal>>
allVars == <<engine, runVars, cursorVars, pipelineVars>>

\* What the pipeline's variables hold while another engine has the run.
PipelineIdle ==
    /\ profile = CHOOSE prof \in Profiles : Valid(prof)
    /\ caller = CHOOSE who \in Callers : TRUE
    /\ phase = profile.entry /\ visits = 0
    /\ intent = NoIntent /\ plan = 0 /\ results = <<>> /\ response = "none"
    /\ done = <<>> /\ attempt = 0 /\ rounds = 0 /\ ran = FALSE /\ errors = FALSE
    /\ terminal = "none"

EnginesInit ==
    \/ engine = "deterministic" /\ Init /\ Cursor!Idle(0)
    \/ engine = "cursor" /\ Cursor!Init /\ PipelineIdle

Deterministic(A) == engine = "deterministic" /\ A /\ UNCHANGED <<engine, cursorVars>>
WithCursor(A) == engine = "cursor" /\ A /\ UNCHANGED <<engine, pipelineVars>>

EngineStep == Deterministic(Step) \/ WithCursor(Cursor!Step)

EnginesNext == Deterministic(Next) \/ WithCursor(Cursor!Next)

\* Both are driven by the run's task.
EnginesSpec == EnginesInit /\ [][EnginesNext]_allVars /\ WF_allVars(EngineStep)

----------------------------------------------------------------------------
(* Properties of the cursor engine, under their names *)

\* A scheduling tool runs only in a run that activated its skill, or unjudged
\* (dispatch_tool_with_hooks).
SkillBeforeUse == Cursor!SkillBeforeUse

\* A run that ended by its own code admits no tool call any more (revoke_run).
NoCallAfterEnd == Cursor!NoCallAfterEnd

\* A stall called for by a hook is what the user is told (finish_run).
StallIsTold == Cursor!StallIsTold

\* A stale agent id does not come back (run_cursor_engine).
StaleIdIsGone == Cursor!StaleIdIsGone
=============================================================================
