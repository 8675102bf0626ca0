----------------------------- MODULE ChatQueue -----------------------------
(***************************************************************************)
(* The chat run queue (src/src/chat_queue.rs): one FIFO lane and one lane  *)
(* worker per (chat, persona).  Two independent locks guard the state, the *)
(* registry `runs` (run_id -> cancel flag) and the map `lanes`; an action  *)
(* of this module is one critical section of one of them, or one await of  *)
(* the worker loop.                                                        *)
(*                                                                         *)
(* A worker is named by the run whose enqueue spawned it, because a lane   *)
(* that empties is dropped and the next enqueue spawns another worker.     *)
(***************************************************************************)
EXTENDS Naturals, Integers, Sequences, SequencesExt

CONSTANTS
    Runs,         \* run ids, each enqueued at most once (they are UUIDs)
    LaneOf,       \* the QueueLaneKey [chat, persona] a run is enqueued to
    Cancellable,  \* runs on which "stop" may be pressed (bounds TLC)
    Removable,    \* queued runs on which "remove" may be pressed
    NoRun         \* Rust's None where a run id is expected

ASSUME QueueAssumption ==
    /\ NoRun \notin Runs
    /\ LaneOf \in [Runs -> [chat : Int, persona : Int]]
    /\ Cancellable \subseteq Runs
    /\ Removable \subseteq Runs

Lanes == {LaneOf[r] : r \in Runs}

VARIABLES
    phase,      \* phase[r]: how far the enqueue call of r has got
    runs,       \* the registry: ids a cancel or a remove can find
    cancel,     \* the runs whose cancel flag is set
    tx,         \* tx[l]: worker fed by the lane's sender, NoRun: no lane in the map
    pending,    \* pending[l]: PersonaLane.pending
    items,      \* items[l]: PersonaLane.items, front first
    current,    \* current[l]: PersonaLane.current_run_id
    failed,     \* lanes of the map whose last_error is set
    wpc,        \* wpc[w]: where the worker stands in its loop
    task,       \* task[w]: the run the worker took from its channel
    chan,       \* chan[w]: the unbounded channel the worker reads
    removing,   \* remove calls between their registry lookup and the lanes lock
    \* History, read by no guard:
    removed,    \* runs for which request_remove_queued answered Removed
    raced,      \* ... although a worker had already let them through
    ticket,     \* ticket[r]: arrival number of r in its lane
    arrivals    \* arrivals[l]: how many runs were ever pushed to the lane

laneVars == <<tx, pending, items, current, failed>>
workVars == <<wpc, task, chan>>
histVars == <<removed, raced, ticket, arrivals>>
vars == <<phase, runs, cancel, laneVars, workVars, removing, histVars>>

Phase == {"idle", "registered", "queued", "rejected"}

\* "check": took a task; "mark": passed the skip check; "running": the task's
\* future is being polled; "note", "unregister", "release": what follows it.
WorkerPc == {"none", "recv", "check", "mark", "running", "note",
             "unregister", "release", "exit"}

TypeOK ==
    /\ phase \in [Runs -> Phase]
    /\ runs \subseteq Runs
    /\ cancel \subseteq Runs
    /\ tx \in [Lanes -> Runs \union {NoRun}]
    /\ pending \in [Lanes -> Nat]
    /\ items \in [Lanes -> Seq(Runs)]
    /\ current \in [Lanes -> Runs \union {NoRun}]
    /\ failed \subseteq Lanes
    /\ wpc \in [Runs -> WorkerPc]
    /\ task \in [Runs -> Runs \union {NoRun}]
    /\ chan \in [Runs -> Seq(Runs)]
    /\ removing \subseteq Runs
    /\ removed \subseteq Runs
    /\ raced \subseteq Runs
    /\ ticket \in [Runs -> Nat]
    /\ arrivals \in [Lanes -> Nat]

Init ==
    /\ phase = [r \in Runs |-> "idle"]
    /\ runs = {}
    /\ cancel = {}
    /\ tx = [l \in Lanes |-> NoRun]
    /\ pending = [l \in Lanes |-> 0]
    /\ items = [l \in Lanes |-> <<>>]
    /\ current = [l \in Lanes |-> NoRun]
    /\ failed = {}
    /\ wpc = [w \in Runs |-> "none"]
    /\ task = [w \in Runs |-> NoRun]
    /\ chan = [w \in Runs |-> <<>>]
    /\ removing = {}
    /\ removed = {}
    /\ raced = {}
    /\ ticket = [r \in Runs |-> 0]
    /\ arrivals = [l \in Lanes |-> 0]

InMap(l) == tx[l] # NoRun

\* Fault for mutation: the decrement is forgotten.
NoPred(n) == n

SaturatingPred(n) == IF n = 0 THEN 0 ELSE n - 1

----------------------------------------------------------------------------
(* enqueue_with_meta *)

\* persona_id <= 0: nothing is registered, the caller gets position 0.
Reject(r) ==
    /\ phase[r] = "idle"
    /\ LaneOf[r].persona <= 0
    /\ phase' = [phase EXCEPT ![r] = "rejected"]
    /\ UNCHANGED <<runs, cancel, laneVars, workVars, removing, histVars>>

\* Under the registry lock.
Register(r) ==
    /\ phase[r] = "idle"
    /\ LaneOf[r].persona > 0
    /\ phase' = [phase EXCEPT ![r] = "registered"]
    /\ runs' = runs \union {r}
    /\ UNCHANGED <<cancel, laneVars, workVars, removing, histVars>>

\* Under the lanes lock.  `w` is the worker that will get the task: the lane's
\* own, or the one spawned here when the lane is not in the map.  (The code's
\* branch for a failed send needs a worker that exited while its lane is in
\* the map, which SenderAlive excludes.)
Push(r) ==
    LET l == LaneOf[r]
        w == IF InMap(l) THEN tx[l] ELSE r
    IN  /\ phase[r] = "registered"
        /\ phase' = [phase EXCEPT ![r] = "queued"]
        /\ tx' = [tx EXCEPT ![l] = w]
        /\ pending' = [pending EXCEPT ![l] = @ + 1]
        /\ items' = [items EXCEPT ![l] = Append(@, r)]
        /\ wpc' = IF InMap(l) THEN wpc ELSE [wpc EXCEPT ![r] = "recv"]
        /\ chan' = [chan EXCEPT ![w] = Append(@, r)]
        /\ ticket' = [ticket EXCEPT ![r] = arrivals[l]]
        /\ arrivals' = [arrivals EXCEPT ![l] = @ + 1]
        /\ UNCHANGED <<runs, cancel, current, failed, task, removing, removed, raced>>

----------------------------------------------------------------------------
(* The worker loop *)

Goto(w, pc) == wpc' = [wpc EXCEPT ![w] = pc]

\* Fault for mutation: the newest buffered task is taken first.
RecvNewest(w) ==
    /\ wpc[w] = "recv"
    /\ chan[w] # <<>>
    /\ Goto(w, "check")
    /\ task' = [task EXCEPT ![w] = Last(chan[w])]
    /\ chan' = [chan EXCEPT ![w] = Front(@)]
    /\ UNCHANGED <<phase, runs, cancel, laneVars, removing, histVars>>

Recv(w) ==
    /\ wpc[w] = "recv"
    /\ chan[w] # <<>>
    /\ Goto(w, "check")
    /\ task' = [task EXCEPT ![w] = Head(chan[w])]
    /\ chan' = [chan EXCEPT ![w] = Tail(@)]
    /\ UNCHANGED <<phase, runs, cancel, laneVars, removing, histVars>>

\* Fault for mutation: a closed channel is not drained.
ExitUndrained(w) ==
    /\ wpc[w] = "recv"
    /\ tx[LaneOf[w]] # w
    /\ Goto(w, "exit")
    /\ UNCHANGED <<phase, runs, cancel, laneVars, task, chan, removing, histVars>>

\* rx.recv() returns None: the sender went with its lane and nothing is buffered.
Exit(w) ==
    /\ wpc[w] = "recv"
    /\ chan[w] = <<>>
    /\ tx[LaneOf[w]] # w
    /\ Goto(w, "exit")
    /\ UNCHANGED <<phase, runs, cancel, laneVars, task, chan, removing, histVars>>

\* Under the registry lock; a run that is not registered is not skipped.
Skips(r) == r \in runs /\ r \in cancel

CheckSkip(w) ==
    /\ wpc[w] = "check"
    /\ Goto(w, IF Skips(task[w]) THEN "unregister" ELSE "mark")
    /\ UNCHANGED <<phase, runs, cancel, laneVars, task, chan, removing, histVars>>

\* Under the lanes lock, a different lock: the answer of CheckSkip may be stale.
MarkRunning(w) ==
    LET l == LaneOf[w]
    IN  /\ wpc[w] = "mark"
        /\ current' = IF InMap(l) THEN [current EXCEPT ![l] = task[w]] ELSE current
        /\ Goto(w, "running")
        /\ UNCHANGED <<phase, runs, cancel, tx, pending, items, failed, task, chan,
                       removing, histVars>>

TaskReturns(w) ==
    /\ wpc[w] = "running"
    /\ Goto(w, "unregister")
    /\ UNCHANGED <<phase, runs, cancel, laneVars, task, chan, removing, histVars>>

\* Fault for mutation: the task is not isolated, a panic ends the worker.
TaskKillsWorker(w) ==
    /\ wpc[w] = "running"
    /\ Goto(w, "exit")
    /\ UNCHANGED <<phase, runs, cancel, laneVars, task, chan, removing, histVars>>

\* The task panics, fails to join, or is aborted by QUEUED_TASK_HARD_TIMEOUT.
TaskFails(w) ==
    /\ wpc[w] = "running"
    /\ Goto(w, "note")
    /\ UNCHANGED <<phase, runs, cancel, laneVars, task, chan, removing, histVars>>

NoteLaneError(w) ==
    LET l == LaneOf[w]
    IN  /\ wpc[w] = "note"
        /\ failed' = IF InMap(l) THEN failed \union {l} ELSE failed
        /\ Goto(w, "unregister")
        /\ UNCHANGED <<phase, runs, cancel, tx, pending, items, current, task, chan,
                       removing, histVars>>

\* finish_one, registry half.
Unregister(w) ==
    /\ wpc[w] = "unregister"
    /\ runs' = runs \ {task[w]}
    /\ Goto(w, "release")
    /\ UNCHANGED <<phase, cancel, laneVars, task, chan, removing, histVars>>

\* Fault for mutation: the lane goes when one item is left.
SetLaneEarly(l, p, q, c) ==
    IF p <= 1
    THEN /\ tx' = [tx EXCEPT ![l] = NoRun]
         /\ pending' = [pending EXCEPT ![l] = 0]
         /\ items' = [items EXCEPT ![l] = <<>>]
         /\ current' = [current EXCEPT ![l] = NoRun]
         /\ failed' = failed \ {l}
    ELSE /\ pending' = [pending EXCEPT ![l] = p]
         /\ items' = [items EXCEPT ![l] = q]
         /\ current' = [current EXCEPT ![l] = c]
         /\ UNCHANGED <<tx, failed>>

\* Closing a lane drops its entry, and the sender with it.
SetLane(l, p, q, c) ==
    IF p = 0
    THEN /\ tx' = [tx EXCEPT ![l] = NoRun]
         /\ pending' = [pending EXCEPT ![l] = 0]
         /\ items' = [items EXCEPT ![l] = <<>>]
         /\ current' = [current EXCEPT ![l] = NoRun]
         /\ failed' = failed \ {l}
    ELSE /\ pending' = [pending EXCEPT ![l] = p]
         /\ items' = [items EXCEPT ![l] = q]
         /\ current' = [current EXCEPT ![l] = c]
         /\ UNCHANGED <<tx, failed>>

\* finish_one, lanes half.
Release(w) ==
    LET l == LaneOf[w]
        r == task[w]
        wasRunning == current[l] = r
        atFront == items[l] # <<>> /\ Head(items[l]) = r
    IN  /\ wpc[w] = "release"
        /\ IF InMap(l)
           THEN SetLane(l,
                        IF wasRunning \/ atFront THEN SaturatingPred(pending[l]) ELSE pending[l],
                        IF atFront THEN Tail(items[l]) ELSE items[l],
                        IF wasRunning THEN NoRun ELSE current[l])
           ELSE UNCHANGED laneVars
        /\ Goto(w, "recv")
        /\ task' = [task EXCEPT ![w] = NoRun]
        /\ UNCHANGED <<phase, runs, cancel, chan, removing, histVars>>

----------------------------------------------------------------------------
(* Requests from the web UI *)

\* request_cancel: lookup under the registry lock, then a store to the shared
\* flag.  A store that comes after the run left the registry has no reader, so
\* lookup and store are one step.
RequestCancel(r) ==
    /\ r \in Cancellable \cap runs
    /\ r \notin cancel
    /\ cancel' = cancel \union {r}
    /\ UNCHANGED <<phase, runs, laneVars, workVars, removing, histVars>>

\* request_remove_queued, lookup under the registry lock (an unknown run, or
\* one of another chat, is NotFound and changes nothing).
RemoveLookup(r) ==
    /\ r \in Removable \cap runs
    /\ r \notin removing
    /\ r \notin removed
    /\ removing' = removing \union {r}
    /\ UNCHANGED <<phase, runs, cancel, laneVars, workVars, histVars>>

CanRemove(r) ==
    LET l == LaneOf[r]
    IN  InMap(l) /\ current[l] # r /\ Contains(items[l], r)

PassedCheck(r) == \E w \in Runs : task[w] = r /\ wpc[w] \in {"mark", "running"}

\* Outcome Removed, under the lanes lock.
RemoveAccept(r) ==
    LET l == LaneOf[r]
        i == CHOOSE k \in 1 .. Len(items[l]) : items[l][k] = r
    IN  /\ r \in removing
        /\ CanRemove(r)
        /\ SetLane(l, SaturatingPred(pending[l]), RemoveAt(items[l], i), current[l])
        /\ cancel' = cancel \union {r}
        /\ removing' = removing \ {r}
        /\ removed' = removed \union {r}
        /\ raced' = IF PassedCheck(r) THEN raced \union {r} ELSE raced
        /\ UNCHANGED <<phase, runs, workVars, ticket, arrivals>>

\* Outcome Running or NotFound.
RemoveRefuse(r) ==
    /\ r \in removing
    /\ ~ CanRemove(r)
    /\ removing' = removing \ {r}
    /\ UNCHANGED <<phase, runs, cancel, laneVars, workVars, histVars>>

----------------------------------------------------------------------------
Enqueue(r) == Reject(r) \/ Register(r) \/ Push(r)

Worker(w) ==
    \/ Recv(w) \/ Exit(w) \/ CheckSkip(w) \/ MarkRunning(w)
    \/ TaskReturns(w) \/ TaskFails(w) \/ NoteLaneError(w)
    \/ Unregister(w) \/ Release(w)

Request(r) == RequestCancel(r) \/ RemoveLookup(r) \/ RemoveAccept(r) \/ RemoveRefuse(r)

\* Every enqueued run was handled and every worker ended: the queue rests.
AtRest ==
    /\ \A r \in Runs : phase[r] \in {"queued", "rejected"}
    /\ \A w \in Runs : wpc[w] \in {"none", "exit"}
    /\ removing = {}
    /\ UNCHANGED vars

Next == (\E r \in Runs : Enqueue(r) \/ Worker(r) \/ Request(r)) \/ AtRest

Spec == Init /\ [][Next]_vars

\* tokio polls a ready task again, and QUEUED_TASK_HARD_TIMEOUT ends a task
\* that never returns; nobody is obliged to enqueue, cancel or remove.
Fairness == \A r \in Runs : WF_vars(Push(r)) /\ WF_vars(Worker(r))

FairSpec == Spec /\ Fairness

\* The same queue on behaviours where no accepted removal meets a worker
\* between its skip check and its mark.
NoRaceSpec == Init /\ [][Next /\ raced' = {}]_vars /\ Fairness

----------------------------------------------------------------------------
(* Properties *)

Executing(w) == wpc[w] = "running"

\* ARCHITECTURE.md: the same persona stays strictly serialized.  No two runs
\* of one (chat, persona) execute at the same time.
Serialized ==
    \A v, w \in Runs :
        Executing(v) /\ Executing(w) /\ LaneOf[v] = LaneOf[w] => v = w

\* The removal window is the only way to lose serialization.
SerializedUnlessRaced == raced = {} => Serialized

\* The lane counter that decides when the lane is dropped counts exactly the
\* queued and running items, so a lane with work left is never dropped.
PendingExact == \A l \in Lanes : pending[l] = Len(items[l])

PendingExactUnlessRaced == raced = {} => PendingExact

\* FIFO: while a run executes, no run that arrived earlier in its lane is still
\* in the lane.
ArrivalOrder ==
    \A w \in Runs : Executing(w) =>
        \A r \in Runs : Contains(items[LaneOf[w]], r) => ticket[task[w]] <= ticket[r]

ArrivalOrderUnlessRaced == raced = {} => ArrivalOrder

\* A lane in the map has a live worker: the send in enqueue_with_meta cannot fail.
SenderAlive == \A l \in Lanes : InMap(l) => wpc[tx[l]] \notin {"none", "exit"}

\* Every enqueued run leaves the registry, whether it ran, was skipped, failed
\* or was removed.
EveryRunSettles ==
    \A r \in Runs : phase[r] = "registered" ~> (phase[r] = "queued" /\ r \notin runs)

----------------------------------------------------------------------------
(* The promise, PersonaLanes, and how this state maps to it *)

\* The lane's worker is past the skip check with the front item: that item no
\* longer waits, although it leaves `items` only in Release.
FrontClaimed(l) ==
    /\ InMap(l)
    /\ wpc[tx[l]] \in {"running", "note", "unregister", "release"}
    /\ items[l] # <<>>
    /\ Head(items[l]) = task[tx[l]]

WaitingIn(l) == IF FrontClaimed(l) THEN Tail(items[l]) ELSE items[l]

ActiveIn(l) ==
    IF \E w \in Runs : Executing(w) /\ LaneOf[w] = l
    THEN task[CHOOSE w \in Runs : Executing(w) /\ LaneOf[w] = l]
    ELSE NoRun

Promise == INSTANCE PersonaLanes WITH
    waiting <- [l \in Lanes |-> WaitingIn(l)],
    active <- [l \in Lanes |-> ActiveIn(l)],
    submitted <- {r \in Runs : phase[r] = "queued"}

\* Without a raced removal the queue keeps the whole promise, order and
\* progress included.
KeepsPromise == Promise!Spec
=============================================================================
