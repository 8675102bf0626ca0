---------------------------- MODULE CursorEngine ----------------------------
(***************************************************************************)
(* One turn of the cursor engine (src/src/cursor_engine.rs): the prompt is *)
(* posted to a sidecar, which drives an external agent and streams back    *)
(* what it does; hooks may send the agent on; the text then passes the     *)
(* quality gate of all engines.  While the agent works it calls the bot's  *)
(* tools through a bridge (src/src/cursor_mcp_bridge.rs) that knows the    *)
(* run by a token: any number of calls at the same time, each of which     *)
(* works on a copy of the run's state and writes the whole copy back.      *)
(*                                                                         *)
(* The agent is external: it may call as long as it has a token, also when *)
(* the bot no longer listens.  The database does not fail.                 *)
(***************************************************************************)
EXTENDS Naturals

CONSTANTS
    Calls,          \* tool calls the agent may make
    Activating,     \* those that activate the skill schedule-job
    Gated,          \* those to schedule_task and update_scheduled_task
    SkillGate,      \* the builtin hook of that name is enabled
    MaxNudges,      \* DEFERRED_COMMITMENT_MAX_NUDGES
    MaxRetries      \* quality_eval_max_nudges_per_run

CursorConstants ==
    /\ Activating \subseteq Calls /\ Gated \subseteq Calls \ Activating
    /\ SkillGate \in BOOLEAN
    /\ {MaxNudges, MaxRetries} \subseteq Nat

VARIABLES
    cancel, pc, retries, outcome,
    late,           \* history: turns posted after the cancel request
    stored,         \* cursor_engine_agent_id in the database, 0 when there is none
    resume,         \* resume_id
    returned,       \* returned_agent_id
    given,          \* history: agent ids made so far
    answer,         \* last event of the stream under way
    nudges,         \* nudge_count
    text,           \* final_text
    token,          \* the run's entry in the registry of the bridge
    shared,         \* CursorMcpRunState: the skill's flag, force_stall_response
    call,           \* where each call stands
    scratch,        \* each call's copy of shared
    gone,           \* history: the agent id cleared last
    since,          \* history: an agent gave its id after that
    activated,      \* history: the skill was activated in this run
    unjudged,       \* history: calls that ran by a failed dispatch alone
    stalled,        \* history: a call returned a stall before finish_run looked
    dirty,          \* history: calls whose copy is out of date
    raced           \* history: a copy that was out of date was written back

idVars == <<stored, resume, returned, given, gone, since>>
turnVars == <<answer, nudges, text>>
bridgeVars == <<shared, call, scratch, activated, unjudged, stalled, dirty, raced>>
vars == <<cancel, pc, retries, outcome, late, idVars, turnVars, token, bridgeVars>>

Copies == [skill : BOOLEAN, stall : BOOLEAN]
Places == {"start", "turn", "preStop", "finishing", "batch", "revoking", "storing", "gate", "returned"}

TypeOK ==
    /\ {cancel, since, activated, stalled, raced} \subseteq BOOLEAN
    /\ pc \in Places
    /\ outcome \in {"none", "ok", "blocked", "error", "fallback", "hook_error", "aborted"}
    /\ {stored, resume, returned, gone} \subseteq 0 .. given
    /\ given \in Nat /\ late \in Nat
    /\ answer \in {"none", "done", "stale"}
    /\ nudges \in 0 .. MaxNudges /\ retries \in 0 .. MaxRetries
    /\ text \in {"none", "answer", "stall"}
    /\ token \in {"none", "valid", "expired", "revoked"}
    /\ shared \in Copies
    /\ call \in [Calls -> {"idle", "admitted", "asked", "running", "answered"}]
    /\ scratch \in [Calls -> Copies]
    /\ UNION {unjudged, dirty} \subseteq Calls

NothingYet == [skill |-> FALSE, stall |-> FALSE]

\* Nothing of a turn has begun, in a session with this agent.
Idle(id) ==
    /\ late = 0
    /\ stored = id /\ given = 1
    /\ resume = 0 /\ returned = 0 /\ gone = 0 /\ since = FALSE
    /\ answer = "none" /\ nudges = 0 /\ text = "none"
    /\ token = "none" /\ shared = NothingYet
    /\ call = [c \in Calls |-> "idle"] /\ scratch = [c \in Calls |-> NothingYet]
    /\ activated = FALSE /\ stalled = FALSE /\ raced = FALSE
    /\ unjudged = {} /\ dirty = {}

Init ==
    /\ cancel = FALSE /\ pc = "start" /\ retries = 0 /\ outcome = "none"
    /\ \E id \in {0, 1} : Idle(id)

----------------------------------------------------------------------------
(* The run *)

End(how) == pc' = "returned" /\ outcome' = how /\ UNCHANGED late

\* The locals of run_cursor_engine go with it.
DropLocals == resume' = 0 /\ returned' = 0 /\ answer' = "none" /\ nudges' = 0 /\ text' = "none"

\* A prompt is posted; the stream is read until it ends.
Post ==
    /\ pc' = "turn"
    /\ late' = IF cancel THEN late + 1 ELSE late
    /\ UNCHANGED outcome

Revoked == IF token = "valid" THEN "revoked" ELSE token

\* Without a sidecar the classic loop takes the run; a hook may block it; then
\* the session's agent is looked up and, with the bridge on, the run registered.
Start ==
    /\ pc = "start"
    /\ \/ \E how \in {"fallback", "blocked", "error"} : End(how) /\ UNCHANGED <<resume, token>>
       \/ /\ Post
          /\ resume' = stored
          /\ token' \in {"none", "valid"}
    /\ UNCHANGED <<cancel, retries, stored, returned, given, gone, since, turnVars, bridgeVars>>

\* consume_sidecar_stream: the event the turn ends with arrives (the sidecar
\* always sends one), and only then the cancel flag is looked at.
Stream ==
    /\ pc = "turn" /\ answer = "none" /\ ~cancel
    /\ answer' \in IF resume # 0 THEN {"done", "stale"} ELSE {"done"}
    /\ UNCHANGED <<cancel, pc, retries, outcome, late, idVars, nudges, text, token, bridgeVars>>

\* Fault for mutation: the run's token is left.
TurnFailsKeeping ==
    /\ pc = "turn"
    /\ \/ answer = "none" /\ End("fallback")
       \/ End("error")
    /\ DropLocals
    /\ UNCHANGED <<cancel, retries, stored, given, gone, since, token, bridgeVars>>

\* An event finds the run cancelled, the agent reports an error, or the stream
\* breaks, at last by the client's time-out.  When the sidecar does not take the
\* prompt or loses its own bridge, the classic loop gets the run.
TurnFails ==
    /\ pc = "turn"
    /\ \/ answer = "none" /\ End("fallback")
       \/ End("error")
    /\ token' = Revoked
    /\ DropLocals
    /\ UNCHANGED <<cancel, retries, stored, given, gone, since, bridgeVars>>

\* The agent to resume is not known any more: its id is cleared and the whole
\* prompt posted anew, whatever prompt it was that failed.
TurnStale ==
    /\ pc = "turn" /\ answer = "stale"
    /\ Post
    /\ stored' = 0 /\ gone' = resume /\ since' = FALSE
    /\ resume' = 0
    /\ answer' = "none"
    /\ UNCHANGED <<cancel, retries, returned, given, nudges, text, token, bridgeVars>>

\* Fault for mutation: the first id is kept.
TurnDoneFirst ==
    /\ pc = "turn" /\ answer = "done"
    /\ pc' = "preStop" /\ answer' = "none" /\ text' = "answer"
    /\ \/ \E id \in {resume, given + 1} \ {0} :
            /\ returned' = (IF returned = 0 THEN id ELSE returned) /\ resume' = id
            /\ given' = IF id > given THEN id ELSE given
            /\ since' = TRUE
       \/ UNCHANGED <<returned, resume, given, since>>
    /\ UNCHANGED <<cancel, retries, outcome, late, stored, gone, nudges, token, bridgeVars>>

\* The agent is done, and may have said who it is: the one resumed or a new one.
TurnDone ==
    /\ pc = "turn" /\ answer = "done"
    /\ pc' = "preStop" /\ answer' = "none" /\ text' = "answer"
    /\ \/ \E id \in {resume, given + 1} \ {0} :
            /\ returned' = id /\ resume' = id
            /\ given' = IF id > given THEN id ELSE given
            /\ since' = TRUE
       \/ UNCHANGED <<returned, resume, given, since>>
    /\ UNCHANGED <<cancel, retries, outcome, late, stored, gone, nudges, token, bridgeVars>>

\* run_pre_stop_hooks: the text stands (or is replaced by the hook's), the agent
\* is sent on, which needs its id, or the dispatch fails with the token left.
PreStop ==
    /\ pc = "preStop"
    /\ \/ pc' = "finishing" /\ UNCHANGED <<outcome, late, nudges>>
       \/ /\ nudges < MaxNudges
          /\ nudges' = nudges + 1
          /\ IF returned = 0 THEN pc' = "finishing" /\ UNCHANGED <<outcome, late>> ELSE Post
       \/ End("hook_error") /\ UNCHANGED nudges
    /\ UNCHANGED <<cancel, retries, idVars, answer, text, token, bridgeVars>>

\* finish_run finds the run, or it was purged; its names and records are copied.
Finish ==
    /\ pc = "finishing"
    /\ pc' = IF token = "valid" THEN "batch" ELSE "storing"
    /\ UNCHANGED <<cancel, retries, outcome, late, idVars, turnVars, token, bridgeVars>>

\* Fault for mutation: only the stall of the batch's hook counts.
FinishBatchOnly ==
    /\ pc = "batch"
    /\ pc' = "revoking"
    /\ text' \in {"stall", text}
    /\ UNCHANGED <<cancel, retries, outcome, late, idVars, answer, nudges, token, bridgeVars>>

\* The PostToolBatch hook has answered: its stall, or the one of a call, takes
\* the place of the text.
FinishBatch ==
    /\ pc = "batch"
    /\ pc' = "revoking"
    /\ text' \in {"stall", IF shared.stall THEN "stall" ELSE text}
    /\ UNCHANGED <<cancel, retries, outcome, late, idVars, answer, nudges, token, bridgeVars>>

\* The run's lock is free again by then.
Revoke ==
    /\ pc = "revoking"
    /\ pc' = "storing"
    /\ token' = Revoked
    /\ UNCHANGED <<cancel, retries, outcome, late, idVars, turnVars, bridgeVars>>

Store ==
    /\ pc = "storing"
    /\ pc' = "gate"
    /\ stored' = IF returned # 0 THEN returned ELSE stored
    /\ UNCHANGED <<cancel, retries, outcome, late, resume, returned, given, gone, since,
                   turnVars, token, bridgeVars>>

\* The evaluator may ask for a revision, upon which the same text is evaluated
\* again; it goes out when it passes or the budget of retries is used up, unless
\* the gate itself fails.
Deliver ==
    /\ pc = "gate"
    /\ \/ retries < MaxRetries /\ retries' = retries + 1 /\ UNCHANGED <<pc, outcome, late>>
       \/ \E how \in {"ok", "error"} : End(how) /\ UNCHANGED retries
    /\ UNCHANGED <<cancel, idVars, turnVars, token, bridgeVars>>

----------------------------------------------------------------------------
(* The bridge *)

OtherVars == <<cancel, pc, retries, outcome, late, idVars, turnVars>>

InFlight == {c \in Calls : call[c] \in {"asked", "running"}}

\* handle_cursor_mcp: the token is found.  A call whose token is not found, or
\* whose tool is denied, changes nothing.
Ask(c) ==
    /\ call[c] = "idle" /\ token = "valid"
    /\ call' = [call EXCEPT ![c] = "admitted"]
    /\ UNCHANGED <<OtherVars, token, shared, scratch, activated, unjudged, stalled, dirty, raced>>

\* handle_tools_call: the call gets its copy, whatever became of the token.
Copy(c) ==
    /\ call[c] = "admitted"
    /\ call' = [call EXCEPT ![c] = "asked"]
    /\ scratch' = [scratch EXCEPT ![c] = shared]
    /\ UNCHANGED <<OtherVars, token, shared, activated, unjudged, stalled, dirty, raced>>

\* The whole copy replaces the run's state.
WriteBack(c, copy) ==
    /\ call' = [call EXCEPT ![c] = "answered"]
    /\ shared' = copy
    /\ scratch' = [scratch EXCEPT ![c] = NothingYet]
    /\ dirty' = (dirty \union InFlight) \ {c}
    /\ raced' = (raced \/ c \in dirty)

\* The skill gate's verdict, by the call's own copy.
Passes(c) == SkillGate /\ c \in Gated => scratch[c].skill

Run(c) == call' = [call EXCEPT ![c] = "running"] /\ UNCHANGED <<shared, scratch, dirty, raced>>

\* PreToolUse: the gate or another hook blocks the call, all let it pass, or the
\* dispatch fails and the call runs, also one that the gate would have blocked.
Judge(c) ==
    /\ call[c] = "asked"
    /\ \/ WriteBack(c, scratch[c]) /\ UNCHANGED unjudged
       \/ Passes(c) /\ Run(c) /\ UNCHANGED unjudged
       \/ ~Passes(c) /\ Run(c) /\ unjudged' = unjudged \union {c}
    /\ UNCHANGED <<OtherVars, token, activated, stalled>>

\* finish_run has not looked yet.
Heard == token = "valid" /\ pc # "revoking"

\* Fault for mutation: an activation counts though it failed.
ReturnActivated(c) ==
    /\ call[c] = "running"
    /\ \E ok, stall \in BOOLEAN :
        /\ WriteBack(c, [skill |-> scratch[c].skill \/ c \in Activating,
                         stall |-> scratch[c].stall \/ stall])
        /\ activated' = (activated \/ (ok /\ c \in Activating))
        /\ stalled' = (stalled \/ (stall /\ Heard))
    /\ UNCHANGED <<OtherVars, token, unjudged>>

\* The tool has returned, the PostToolUse hook may have called for a stall.
Return(c) ==
    /\ call[c] = "running"
    /\ \E ok, stall \in BOOLEAN :
        /\ WriteBack(c, [skill |-> scratch[c].skill \/ (ok /\ c \in Activating),
                         stall |-> scratch[c].stall \/ stall])
        /\ activated' = (activated \/ (ok /\ c \in Activating))
        /\ stalled' = (stalled \/ (stall /\ Heard))
    /\ UNCHANGED <<OtherVars, token, unjudged>>

\* RUN_TTL_SECS is over and the entry is purged, of a job that outlives it or
\* of a run that left its token behind.
Expire ==
    /\ token = "valid"
    /\ token' = "expired"
    /\ UNCHANGED <<OtherVars, bridgeVars>>

----------------------------------------------------------------------------
(* The surroundings *)

CancelRun ==
    /\ pc # "returned" /\ ~cancel
    /\ cancel' = TRUE
    /\ UNCHANGED <<pc, retries, outcome, late, idVars, turnVars, token, bridgeVars>>

\* The queue's hard time-out, or a panic, ends the task where it stands.
AbortRun ==
    /\ pc # "returned"
    /\ End("aborted")
    /\ DropLocals
    /\ UNCHANGED <<cancel, retries, stored, given, gone, since, token, bridgeVars>>

Step ==
    \/ Start \/ Stream \/ TurnFails \/ TurnStale \/ TurnDone
    \/ PreStop \/ Finish \/ FinishBatch \/ Revoke \/ Store \/ Deliver

Bridge == (\E c \in Calls : Ask(c) \/ Copy(c) \/ Judge(c) \/ Return(c)) \/ Expire

Next == Step \/ Bridge \/ CancelRun \/ AbortRun

Spec == Init /\ [][Next]_vars

\* Every call the run awaits returns or times out.
FairSpec == Spec /\ WF_vars(Step)

----------------------------------------------------------------------------
(* Properties *)

\* With the gate enabled a scheduling tool runs only when the skill was activated
\* in this run or its judgement failed, however the calls overlap and overwrite
\* each other's copies (handle_tools_call).
SkillBeforeUse ==
    [][\A c \in Gated :
        SkillGate /\ call[c] = "asked" /\ call'[c] = "running" => activated \/ c \in unjudged']_call

\* A run that was ended by its own code admits no tool call afterwards, while
\* the classic loop has the run or the next run of the session.  The exceptions
\* leave the token behind: an abort of the task and a failed pre_stop dispatch.
NoCallAfterEnd ==
    [][\A c \in Calls : call[c] = "idle" /\ call'[c] = "admitted"
            => pc # "returned" \/ outcome \in {"aborted", "hook_error"}]_call

\* A stall that a hook called for during a tool call is what the user is told,
\* unless a call that overlapped with it wrote an older copy back or the run
\* outlived its token (finish_run).
StallIsTold == outcome = "ok" /\ stalled /\ ~raced /\ token # "expired" => text = "stall"

\* An agent id found to be stale is not stored again, unless no agent has given
\* its id since (run_cursor_engine).
StaleIdIsGone == outcome = "ok" /\ gone # 0 /\ since => stored # gone
=============================================================================
