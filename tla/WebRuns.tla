------------------------------ MODULE WebRuns ------------------------------
(***************************************************************************)
(* The runs of one chat's web requests (src/src/web.rs): the handlers of   *)
(* /api/send and /api/send_stream under the chat's request quota           *)
(* (RequestHub), the task each of them hands to the chat run queue, the    *)
(* event channel of the run (RunHub) with its bounded history and its      *)
(* broadcast ring, the forwarder of the agent's events, and one client per *)
(* run that reads /api/stream, loses its connection and comes back.        *)
(*                                                                         *)
(* The queue is its promise, PersonaLanes, which ChatQueue implements.     *)
(* An event is "update" or the end of a run, "done" or "error"; its id is  *)
(* its place in the log.  A handler is "lost" when the persona lookup      *)
(* fails or its connection is closed before it has answered.               *)
(***************************************************************************)
EXTENDS Naturals, FiniteSets, Sequences, SequencesExt

CONSTANTS
    Runs, Lanes, LaneOf, NoRun,
    Streaming,      \* runs of /api/send_stream, whose agent events are forwarded
    Watched,        \* bound: runs a client subscribes to
    MaxInflight,    \* web_max_inflight_per_session
    MaxRequests,    \* web_max_requests_per_window
    HistoryLimit,   \* web_run_history_limit
    RingSize,       \* capacity of the broadcast channel (512)
    MaxEvents,      \* bound: events of a run, published or not, while its agent runs
    MaxConnects,    \* bound: subscriptions of one client
    MaxFaults       \* bound: handlers lost, runs refused, skipped, removed or aborted

ASSUME WebAssumption ==
    /\ Streaming \subseteq Runs /\ Watched \subseteq Runs
    /\ {MaxInflight, MaxRequests, HistoryLimit, RingSize} \subseteq Nat \ {0}
    /\ {MaxEvents, MaxConnects, MaxFaults} \subseteq Nat

VARIABLES
    waiting, active, submitted,     \* the chat's lanes
    inflight,   \* requests between begin and end_with_limits
    recent,     \* requests begun within the rate window
    handler,    \* where the run's request handler stands
    task,       \* where the run's queued task stands
    pending,    \* agent events the forwarder has not published
    channel,    \* the run's entry in RunHub: "none", "open" or "removed"
    log,        \* every event published to it
    done,       \* its done flag
    stream,     \* the client's connection
    seen,       \* the id of the last event the client got
    connects,   \* subscriptions so far
    faults      \* faults so far

laneVars == <<waiting, active, submitted>>
quotaVars == <<inflight, recent>>
hubVars == <<channel, log, done>>
clientVars == <<stream, seen, connects>>
vars == <<laneVars, quotaVars, handler, task, pending, hubVars, clientVars, faults>>

Queue == INSTANCE PersonaLanes

End == {"done", "error"}
InFlight == {"begun", "queued"}
Working == {"prepare", "agent", "reply", "handed", "draining"}
Open == {"replay", "live"}

\* Those, and the queued status, a background job's event and the end.
MaxLog == MaxEvents + 3

Stream == [phase : Open \union {"off", "closed"},
           pos : 0 .. MaxLog + 1,   \* next event to yield
           upto : 0 .. MaxLog,      \* last event of the replay
           ended : BOOLEAN,         \* the done flag as subscribe saw it
           warned : BOOLEAN,        \* replay_meta says that events are gone
           lagged : BOOLEAN,        \* history: the receiver fell behind the ring
           told : BOOLEAN]          \* history: the client got the end, or missed events before

TypeOK ==
    /\ waiting \in [Lanes -> Seq(Runs)]
    /\ active \in [Lanes -> Runs \union {NoRun}]
    /\ submitted \subseteq Runs
    /\ inflight \in 0 .. MaxInflight
    /\ recent \in 0 .. MaxRequests
    /\ handler \in [Runs -> {"idle", "answered", "lost"} \union InFlight]
    /\ task \in [Runs -> {"none", "waiting", "over", "dropped"} \union Working]
    /\ pending \in [Runs -> 0 .. MaxEvents]
    /\ channel \in [Runs -> {"none", "open", "removed"}]
    /\ log \in [Runs -> Seq({"update"} \union End)]
    /\ \A r \in Runs : Len(log[r]) <= MaxLog
    /\ done \in [Runs -> BOOLEAN]
    /\ stream \in [Runs -> Stream]
    /\ seen \in [Runs -> 0 .. MaxLog]
    /\ connects \in [Runs -> 0 .. MaxConnects]
    /\ faults \in 0 .. MaxFaults

NotConnected == [phase |-> "off", pos |-> 0, upto |-> 0, ended |-> FALSE,
                 warned |-> FALSE, lagged |-> FALSE, told |-> FALSE]

Init ==
    /\ Queue!Init
    /\ inflight = 0
    /\ recent = 0
    /\ handler = [r \in Runs |-> "idle"]
    /\ task = [r \in Runs |-> "none"]
    /\ pending = [r \in Runs |-> 0]
    /\ channel = [r \in Runs |-> "none"]
    /\ log = [r \in Runs |-> <<>>]
    /\ done = [r \in Runs |-> FALSE]
    /\ stream = [r \in Runs |-> NotConnected]
    /\ seen = [r \in Runs |-> 0]
    /\ connects = [r \in Runs |-> 0]
    /\ faults = 0

Fault == faults < MaxFaults /\ faults' = faults + 1

----------------------------------------------------------------------------
(* RunHub: publish, the events it still has, and those the ring still has. *)

\* publish
Publish(r, event) ==
    IF channel[r] = "open"
    THEN /\ log' = [log EXCEPT ![r] = Append(@, event)]
         /\ done' = [done EXCEPT ![r] = @ \/ event \in End]
    ELSE UNCHANGED <<log, done>>

\* The first of the last n events of the run.
FirstOfLast(r, n) == IF Len(log[r]) > n THEN Len(log[r]) - n + 1 ELSE 1

Oldest(r) == FirstOfLast(r, HistoryLimit)

FirstInRing(r) == FirstOfLast(r, RingSize)

----------------------------------------------------------------------------
(* api_send, api_send_stream *)

\* RequestHub::begin admits the request, and RunHub::create makes its channel.
Begin(r) ==
    /\ handler[r] = "idle"
    /\ inflight < MaxInflight
    /\ recent < MaxRequests
    /\ inflight' = inflight + 1
    /\ recent' = recent + 1
    /\ handler' = [handler EXCEPT ![r] = "begun"]
    /\ channel' = [channel EXCEPT ![r] = "open"]
    /\ UNCHANGED <<laneVars, task, pending, log, done, clientVars, faults>>

\* The oldest request leaves the rate window.
LeaveWindow ==
    /\ recent > 0
    /\ recent' = recent - 1
    /\ UNCHANGED <<laneVars, inflight, handler, task, pending, hubVars, clientVars, faults>>

\* The persona is known and the queue takes the run.
Enqueue(r) ==
    /\ handler[r] = "begun"
    /\ Queue!Submit(r)
    /\ handler' = [handler EXCEPT ![r] = "queued"]
    /\ task' = [task EXCEPT ![r] = "waiting"]
    /\ UNCHANGED <<quotaVars, pending, hubVars, clientVars, faults>>

\* The queue refuses a run without a persona; the handler does not look.
Refuse(r) ==
    /\ handler[r] = "begun"
    /\ Fault
    /\ handler' = [handler EXCEPT ![r] = "queued"]
    /\ task' = [task EXCEPT ![r] = "dropped"]
    /\ UNCHANGED <<laneVars, quotaVars, pending, hubVars, clientVars>>

\* Fault for mutation: the count is left alone when the queue has taken the run.
AnswerKeepsCount(r) ==
    /\ handler[r] = "queued"
    /\ Publish(r, "update")
    /\ inflight' = IF task[r] = "waiting" THEN inflight ELSE inflight - 1
    /\ handler' = [handler EXCEPT ![r] = "answered"]
    /\ UNCHANGED <<laneVars, recent, task, pending, channel, clientVars, faults>>

\* The queued status is published, end_with_limits, and the run id is returned.
Answer(r) ==
    /\ handler[r] = "queued"
    /\ Publish(r, "update")
    /\ inflight' = inflight - 1
    /\ handler' = [handler EXCEPT ![r] = "answered"]
    /\ UNCHANGED <<laneVars, recent, task, pending, channel, clientVars, faults>>

\* The lookup of the persona fails, or the connection is closed and the
\* handler dropped at one of its awaits: end_with_limits is not reached.
Lose(r) ==
    /\ handler[r] \in InFlight
    /\ Fault
    /\ handler' = [handler EXCEPT ![r] = "lost"]
    /\ UNCHANGED <<laneVars, quotaVars, task, pending, hubVars, clientVars>>

----------------------------------------------------------------------------
(* The queued task *)

GoTo(r, t) == task' = [task EXCEPT ![r] = t]

\* The lane's worker starts the task, which publishes that it runs.
Start(l) ==
    /\ Queue!Start(l)
    /\ GoTo(active'[l], "prepare")
    /\ Publish(active'[l], "update")
    /\ UNCHANGED <<quotaVars, handler, pending, channel, clientVars, faults>>

\* The worker takes a run that was cancelled while it waited.
Skip(l) ==
    /\ Fault
    /\ Queue!Start(l)
    /\ GoTo(active'[l], "dropped")
    /\ UNCHANGED <<quotaVars, handler, pending, hubVars, clientVars>>

\* api_queue_remove takes a waiting run out of its lane.
RemoveQueued(l) ==
    /\ Fault
    /\ Queue!Withdraw(l)
    /\ task' = [r \in Runs |->
                 IF Contains(waiting[l], r) /\ ~Contains(waiting'[l], r) THEN "dropped" ELSE task[r]]
    /\ UNCHANGED <<quotaVars, handler, pending, hubVars, clientVars>>

EndsWith(r, end) ==
    /\ Publish(r, end)
    /\ GoTo(r, "draining")
    /\ UNCHANGED <<laneVars, quotaVars, handler, pending, channel, clientVars, faults>>

\* The request is empty, an attachment is refused or a database call fails.
PrepareFails(r) == task[r] = "prepare" /\ EndsWith(r, "error")

\* A slash command is answered without the agent.
Command(r) == task[r] = "prepare" /\ \E e \in End : EndsWith(r, e)

\* The user's message is stored and the agent called.
CallAgent(r) ==
    /\ task[r] = "prepare"
    /\ GoTo(r, "agent")
    /\ UNCHANGED <<laneVars, quotaVars, handler, pending, hubVars, clientVars, faults>>

\* The agent sends an event to the forwarder.
Emit(r) ==
    /\ task[r] = "agent" /\ r \in Streaming
    /\ pending[r] + Len(log[r]) < MaxEvents
    /\ pending' = [pending EXCEPT ![r] = @ + 1]
    /\ UNCHANGED <<laneVars, quotaVars, handler, task, hubVars, clientVars, faults>>

AgentFails(r) == task[r] = "agent" /\ EndsWith(r, "error")

AgentReturns(r) ==
    /\ task[r] = "agent"
    /\ GoTo(r, "reply")
    /\ UNCHANGED <<laneVars, quotaVars, handler, pending, hubVars, clientVars, faults>>

\* try_enqueue_background_handoff creates a job, whose event is published first.
Handoff(r) ==
    /\ task[r] = "reply"
    /\ Publish(r, "update")
    /\ GoTo(r, "handed")
    /\ UNCHANGED <<laneVars, quotaVars, handler, pending, channel, clientVars, faults>>

\* The note of the job, or the refusal of one, is the response.
HandedOff(r) == task[r] \in {"reply", "handed"} /\ EndsWith(r, "done")

\* deliver_agent_final_to_contact stores and sends the reply, or fails.
Deliver(r) == task[r] = "reply" /\ \E e \in End : EndsWith(r, e)

\* The forwarder publishes one event of the agent, before or after the end.
Forward(r) ==
    /\ pending[r] > 0
    /\ pending' = [pending EXCEPT ![r] = @ - 1]
    /\ Publish(r, "update")
    /\ UNCHANGED <<laneVars, quotaVars, handler, task, channel, clientVars, faults>>

\* Fault for mutation: the task keeps its sender, so the forwarder never ends.
DrainedKeepsSender(r) ==
    /\ task[r] = "draining"
    /\ r \notin Streaming
    /\ GoTo(r, "over")
    /\ UNCHANGED <<laneVars, quotaVars, handler, pending, hubVars, clientVars, faults>>

\* The task drops its sender, the forwarder ends, and remove_later is armed.
Drained(r) ==
    /\ task[r] = "draining"
    /\ pending[r] = 0
    /\ GoTo(r, "over")
    /\ UNCHANGED <<laneVars, quotaVars, handler, pending, hubVars, clientVars, faults>>

\* remove_later's timer takes the channel out of the map.
RemoveLater(r) ==
    /\ task[r] = "over"
    /\ channel[r] = "open"
    /\ channel' = [channel EXCEPT ![r] = "removed"]
    /\ UNCHANGED <<laneVars, quotaVars, handler, task, pending, log, done, clientVars, faults>>

\* The queue aborts the task, or it panics: nothing more is published by it.
Abort(l) ==
    /\ active[l] # NoRun
    /\ task[active[l]] \in Working
    /\ Fault
    /\ GoTo(active[l], "dropped")
    /\ UNCHANGED <<laneVars, quotaVars, handler, pending, hubVars, clientVars>>

Finish(l) ==
    /\ active[l] # NoRun
    /\ task[active[l]] \in {"over", "dropped"}
    /\ Queue!Finish(l)
    /\ UNCHANGED <<quotaVars, handler, task, pending, hubVars, clientVars, faults>>

----------------------------------------------------------------------------
(* api_stream and its client *)

serverVars == <<laneVars, quotaVars, handler, task, pending, hubVars, faults>>

\* Fault for mutation: a client that comes back is given one event too few.
FirstReplayedSkipsOne(r, last) == IF last + 2 > Oldest(r) THEN last + 2 ELSE Oldest(r)

\* The first event of the replay for a client that has the events up to last.
FirstReplayed(r, last) == IF last + 1 > Oldest(r) THEN last + 1 ELSE Oldest(r)

\* subscribe_with_replay: the replay is copied and the receiver placed behind
\* it in one critical section.  A fresh client asks without last_event_id, and
\* learns from the oldest id in replay_meta what it has missed.
Subscribe(r, fresh) ==
    LET last == IF fresh THEN 0 ELSE seen[r]
    IN  /\ r \in Watched
        /\ handler[r] = "answered" /\ channel[r] = "open"
        /\ stream[r].phase \notin Open
        /\ connects[r] < MaxConnects
        /\ connects' = [connects EXCEPT ![r] = @ + 1]
        /\ seen' = [seen EXCEPT ![r] = last]
        /\ stream' = [stream EXCEPT ![r] =
              [phase |-> "replay",
               pos |-> FirstReplayed(r, last),
               upto |-> Len(log[r]),
               ended |-> done[r],
               warned |-> last + 1 < Oldest(r),
               lagged |-> FALSE,
               told |-> ~fresh /\ (@.told \/ @.warned \/ @.lagged)]]
        /\ UNCHANGED serverVars

\* An event is sent to the client; the stream returns after the end.
Yield(r) ==
    LET end == log[r][stream[r].pos] \in End
    IN  /\ stream' = [stream EXCEPT ![r].pos = @ + 1,
                                    ![r].phase = IF end THEN "closed" ELSE @,
                                    ![r].told = @ \/ end]
        /\ seen' = [seen EXCEPT ![r] = stream[r].pos]
        /\ UNCHANGED <<connects, serverVars>>

YieldReplay(r) ==
    /\ stream[r].phase = "replay"
    /\ stream[r].pos <= stream[r].upto
    /\ Yield(r)

\* Fault for mutation: the flag is looked at before the replay is sent.
ReplayOverEarly(r) ==
    /\ stream[r].phase = "replay"
    /\ stream[r].ended \/ stream[r].pos > stream[r].upto
    /\ stream' = [stream EXCEPT ![r].phase = IF stream[r].ended THEN "closed" ELSE "live",
                                ![r].pos = stream[r].upto + 1]
    /\ UNCHANGED <<seen, connects, serverVars>>

\* After the replay the stream returns, or goes on with its receiver.
ReplayOver(r) ==
    /\ stream[r].phase = "replay"
    /\ stream[r].pos > stream[r].upto
    /\ stream' = [stream EXCEPT ![r].phase = IF stream[r].ended THEN "closed" ELSE "live",
                                ![r].pos = stream[r].upto + 1]
    /\ UNCHANGED <<seen, connects, serverVars>>

\* recv returns the next event of the ring.
Receive(r) ==
    /\ stream[r].phase = "live"
    /\ FirstInRing(r) <= stream[r].pos /\ stream[r].pos <= Len(log[r])
    /\ Yield(r)

\* recv returns Lagged: the receiver goes on with the oldest event of the ring.
Lag(r) ==
    /\ stream[r].phase = "live"
    /\ stream[r].pos < FirstInRing(r)
    /\ stream' = [stream EXCEPT ![r].pos = FirstInRing(r), ![r].lagged = TRUE]
    /\ UNCHANGED <<seen, connects, serverVars>>

\* recv returns Closed: the ring is empty and its sender gone with the channel.
SenderGone(r) ==
    /\ stream[r].phase = "live"
    /\ stream[r].pos > Len(log[r])
    /\ channel[r] = "removed"
    /\ stream' = [stream EXCEPT ![r].phase = "closed"]
    /\ UNCHANGED <<seen, connects, serverVars>>

\* The client's connection breaks.
Disconnect(r) ==
    /\ stream[r].phase \in Open
    /\ connects[r] < MaxConnects
    /\ stream' = [stream EXCEPT ![r].phase = "off"]
    /\ UNCHANGED <<seen, connects, serverVars>>

Serve(r) ==
    \/ YieldReplay(r) \/ ReplayOver(r) \/ Receive(r) \/ Lag(r) \/ SenderGone(r)

Work(r) ==
    \/ PrepareFails(r) \/ Command(r) \/ CallAgent(r)
    \/ AgentFails(r) \/ AgentReturns(r)
    \/ Handoff(r) \/ HandedOff(r) \/ Deliver(r) \/ Drained(r)

Next ==
    \/ \E r \in Runs :
        \/ Begin(r) \/ Enqueue(r) \/ Refuse(r) \/ Answer(r) \/ Lose(r)
        \/ Work(r) \/ Emit(r) \/ Forward(r) \/ RemoveLater(r)
        \/ \E fresh \in BOOLEAN : Subscribe(r, fresh)
        \/ Serve(r) \/ Disconnect(r)
    \/ LeaveWindow
    \/ \E l \in Lanes : Start(l) \/ Skip(l) \/ RemoveQueued(l) \/ Abort(l) \/ Finish(l)

Spec == Init /\ [][Next]_vars

\* The lanes' workers, the tasks, the forwarders, the timers and the streams of
\* connected clients run on; the agent and the calls of a task return.  Nothing
\* is assumed of the callers, of lost handlers or of clients that reconnect.
Fairness ==
    /\ \A r \in Runs :
        /\ WF_vars(Work(r)) /\ WF_vars(Forward(r)) /\ WF_vars(RemoveLater(r))
        /\ WF_vars(Serve(r))
    /\ \A l \in Lanes : WF_vars(Start(l)) /\ WF_vars(Finish(l))

FairSpec == Spec /\ Fairness

----------------------------------------------------------------------------
(* Properties *)

\* The count of requests in flight, on which admission depends, is exactly the
\* handlers between begin and end plus those that never reached end: each of
\* these (a failed lookup, a dropped handler) takes one of the chat's places
\* for good (web.rs, RequestHub).
InflightExact ==
    inflight = Cardinality({r \in Runs : handler[r] \in InFlight \union {"lost"}})

\* A stream that the server closes while the run's channel is there has given
\* its client the end of the run, now or before it reconnected, unless the
\* client has missed events: replay_meta said that the history lost them, or
\* its receiver fell behind the ring (api_stream).
EndIsTold ==
    \A r \in Runs :
        stream[r].phase = "closed" /\ channel[r] = "open"
            => stream[r].told \/ stream[r].warned \/ stream[r].lagged

\* A client is never sent an event that leaves a gap behind it, over all its
\* connections, unless replay_meta announced that the history had lost the
\* events or its receiver fell behind the whole ring (subscribe_with_replay).
NoSilentGap ==
    [][\A r \in Runs :
        seen'[r] > seen[r] + 1 => stream[r].warned \/ stream[r].lagged]_vars

\* A run that will never publish an end: its task was skipped, removed,
\* refused or aborted, or its handler was lost before there was a task.
Abandoned(r) == task[r] = "dropped" \/ handler[r] = "lost"

\* Every stream ends by itself or is left by its client, also when its receiver
\* falls behind and the end of the run drops out of the ring unread, unless the
\* run is abandoned (api_stream, remove_later).
StreamsEnd ==
    \A r \in Runs : stream[r].phase \in Open ~> stream[r].phase \notin Open \/ Abandoned(r)
=============================================================================
