--------------------------- MODULE WebRunsProofs ---------------------------
(***************************************************************************)
(* Proofs about WebRuns: for any number of runs and lanes, any quota, any  *)
(* history and ring, any number of events of a run, and clients that come  *)
(* back any number of times.                                               *)
(***************************************************************************)
EXTENDS WebRuns, SequenceTheorems, FiniteSetTheorems, TLAPS

Events == {"update"} \union End

Streams == [phase : Open \union {"off", "closed"}, pos : Nat, upto : Nat, ended : BOOLEAN,
            warned : BOOLEAN, lagged : BOOLEAN, told : BOOLEAN]

\* The part of the state the proofs are about; the bounds play no role.
WebTypes ==
    /\ inflight \in Nat
    /\ handler \in [Runs -> {"idle", "answered", "lost"} \union InFlight]
    /\ channel \in [Runs -> {"none", "open", "removed"}]
    /\ log \in [Runs -> Seq(Events)]
    /\ done \in [Runs -> BOOLEAN]
    /\ stream \in [Runs -> Streams]
    /\ seen \in [Runs -> Nat]

\* The requests that hold a place of the quota.
Holding == {r \in Runs : handler[r] \in InFlight \union {"lost"}}

QuotaKept == IsFiniteSet(Holding) /\ inflight = Cardinality(Holding)

\* A channel is made by the run's request, and once.
ChannelMade(r) == handler[r] = "idle" => channel[r] = "none"

\* The end of the run is among the first n events.
EndWithin(r, n) == \E i \in 1 .. n : log[r][i] \in End

Excused(r) == stream[r].warned \/ stream[r].lagged

\* The next event to yield follows on the last one seen.
Contiguous(r) ==
    /\ seen[r] <= Len(log[r])
    /\ stream[r].upto <= Len(log[r])
    /\ stream[r].phase \in Open => 1 <= stream[r].pos
    /\ stream[r].phase \in Open => stream[r].pos <= seen[r] + 1 \/ Excused(r)

\* The flag stands for an event of the log, and a client that saw it knows.
EndKnown(r) ==
    /\ done[r] => EndWithin(r, Len(log[r]))
    /\ stream[r].ended => EndWithin(r, stream[r].upto)
    /\ EndWithin(r, seen[r]) => stream[r].told \/ Excused(r)

\* The server closes a stream after the end, or with its channel.
ClosedForCause(r) ==
    stream[r].phase = "closed" => channel[r] = "removed" \/ stream[r].told \/ Excused(r)

RunInv(r) == ChannelMade(r) /\ Contiguous(r) /\ EndKnown(r) /\ ClosedForCause(r)

IInv == WebTypes /\ QuotaKept /\ \A r \in Runs : RunInv(r)

----------------------------------------------------------------------------
(* What a step of the server, and one of the client, may change *)

\* The log of a run only grows, and its flag is set by an end.
Grows(r) ==
    /\ Len(log[r]) <= Len(log'[r])
    /\ \A i \in 1 .. Len(log[r]) : log'[r][i] = log[r][i]
    /\ done'[r] => done[r] \/ \E i \in 1 .. Len(log'[r]) : log'[r][i] \in End

LogsGrow ==
    /\ log' \in [Runs -> Seq(Events)]
    /\ done' \in [Runs -> BOOLEAN]
    /\ \A r \in Runs : Grows(r)

LEMMA PublishGrows ==
    ASSUME WebTypes, NEW x, NEW event \in Events, Publish(x, event)
    PROVE  LogsGrow
<1>1. CASE channel[x] = "open"
  <2>1. log' = [log EXCEPT ![x] = Append(@, event)]
    BY <1>1 DEF Publish
  <2>2. done' = [done EXCEPT ![x] = @ \/ event \in End]
    BY <1>1 DEF Publish
  <2>3. ASSUME NEW r \in Runs
        PROVE  log'[r] \in Seq(Events) /\ done'[r] \in BOOLEAN /\ Grows(r)
    <3>0. log[r] \in Seq(Events) /\ done[r] \in BOOLEAN
      BY DEF WebTypes
    <3>1. CASE r = x
      <4>1. log'[r] = Append(log[r], event)
        BY <2>1, <3>1 DEF WebTypes
      <4>2. /\ log'[r] \in Seq(Events)
            /\ Len(log'[r]) = Len(log[r]) + 1
            /\ \A i \in 1 .. Len(log[r]) : log'[r][i] = log[r][i]
            /\ log'[r][Len(log[r]) + 1] = event
        BY <3>0, <4>1, AppendProperties
      <4>3. Len(log[r]) \in Nat
        BY <3>0, LenProperties
      <4>4. done'[r] = (done[r] \/ event \in End)
        BY <2>2, <3>1 DEF WebTypes
      <4>5. Len(log[r]) <= Len(log'[r]) /\ Len(log[r]) + 1 \in 1 .. Len(log'[r])
        BY <4>2, <4>3
      <4>6. done'[r] => done[r] \/ \E k \in 1 .. Len(log'[r]) : log'[r][k] \in End
        BY <4>2, <4>4, <4>5
      <4> QED
        BY <4>2, <4>4, <4>5, <4>6 DEF Grows
    <3>2. CASE r # x
      BY <2>1, <2>2, <3>0, <3>2, LenProperties DEF WebTypes, Grows
    <3> QED
      BY <3>1, <3>2
  <2> QED
    BY <2>1, <2>2, <2>3 DEF LogsGrow, WebTypes
<1>2. CASE UNCHANGED <<log, done>>
  BY <1>2, LenProperties DEF LogsGrow, Grows, WebTypes
<1> QED
  BY <1>1, <1>2 DEF Publish

\* The steps of the client, in its run.
ClientStep(r) == (\E fresh \in BOOLEAN : Subscribe(r, fresh)) \/ Serve(r) \/ Disconnect(r)

\* The steps of the request's handler, with what they do to the quota.
HandlerStep ==
    \/ UNCHANGED <<inflight, handler>>
    \/ \E r \in Runs :
        \/ /\ handler[r] = "idle" /\ inflight' = inflight + 1
           /\ handler' = [handler EXCEPT ![r] = "begun"]
        \/ /\ handler[r] = "queued" /\ inflight' = inflight - 1
           /\ handler' = [handler EXCEPT ![r] = "answered"]
        \/ /\ handler[r] \in InFlight /\ inflight' = inflight
           /\ \E h \in {"queued", "lost"} : handler' = [handler EXCEPT ![r] = h]

\* A channel is made by a request that was idle, and removed later.
ChannelStep ==
    \/ UNCHANGED channel
    \/ \E r \in Runs : handler[r] = "idle" /\ handler'[r] # "idle" /\ channel' = [channel EXCEPT ![r] = "open"]
    \/ \E r \in Runs : channel[r] = "open" /\ channel' = [channel EXCEPT ![r] = "removed"]

ServerStep == LogsGrow /\ HandlerStep /\ ChannelStep /\ UNCHANGED <<stream, seen>>

\* The steps that publish nothing leave the logs alone.
LEMMA LogsRest == ASSUME WebTypes, UNCHANGED <<log, done>> PROVE LogsGrow
  BY LenProperties DEF WebTypes, LogsGrow, Grows

\* Every step is one of the server's or one of a client.
LEMMA Steps ==
    ASSUME WebTypes, [Next]_vars
    PROVE  \/ ServerStep
           \/ \E r \in Runs : ClientStep(r) /\ UNCHANGED serverVars
<1> USE DEF ServerStep
<1>a. "update" \in Events /\ "done" \in Events /\ "error" \in Events /\ End \subseteq Events
  BY DEF Events, End
<1>1. ASSUME NEW r \in Runs, Begin(r) PROVE ServerStep
  BY <1>1, LogsRest DEF Begin, HandlerStep, ChannelStep, clientVars, WebTypes
<1>2. ASSUME NEW r \in Runs, Enqueue(r) \/ Refuse(r) \/ Lose(r) PROVE ServerStep
  BY <1>2, LogsRest DEF Enqueue, Refuse, Lose, InFlight, HandlerStep, ChannelStep, quotaVars, hubVars, clientVars
<1>3. ASSUME NEW r \in Runs, Answer(r) PROVE ServerStep
  BY <1>3, <1>a, PublishGrows DEF Answer, HandlerStep, ChannelStep, clientVars
<1>4. ASSUME NEW r \in Runs, NEW e \in Events, EndsWith(r, e) PROVE ServerStep
  BY <1>4, PublishGrows DEF EndsWith, HandlerStep, ChannelStep, quotaVars, clientVars
<1>b. ASSUME NEW r \in Runs, Handoff(r) PROVE ServerStep
  BY <1>b, <1>a, PublishGrows DEF Handoff, HandlerStep, ChannelStep, quotaVars, clientVars
<1>5. ASSUME NEW r \in Runs, CallAgent(r) \/ AgentReturns(r) \/ Drained(r) \/ Emit(r) PROVE ServerStep
  BY <1>5, LogsRest DEF CallAgent, AgentReturns, Drained, Emit, HandlerStep, ChannelStep, quotaVars, hubVars, clientVars
<1>6. ASSUME NEW r \in Runs, Forward(r) PROVE ServerStep
  BY <1>6, <1>a, PublishGrows DEF Forward, HandlerStep, ChannelStep, quotaVars, clientVars
<1>7. ASSUME NEW r \in Runs, RemoveLater(r) PROVE ServerStep
  BY <1>7, LogsRest DEF RemoveLater, HandlerStep, ChannelStep, quotaVars, clientVars
<1>8. CASE LeaveWindow
  BY <1>8, LogsRest DEF LeaveWindow, HandlerStep, ChannelStep, hubVars, clientVars
<1>9. ASSUME NEW l \in Lanes, Start(l) PROVE ServerStep
  BY <1>9, <1>a, PublishGrows DEF Start, HandlerStep, ChannelStep, quotaVars, clientVars
<1>10. ASSUME NEW l \in Lanes, Skip(l) \/ RemoveQueued(l) \/ Abort(l) \/ Finish(l) PROVE ServerStep
  BY <1>10, LogsRest DEF Skip, RemoveQueued, Abort, Finish, HandlerStep, ChannelStep, quotaVars, hubVars, clientVars
<1>11. CASE UNCHANGED vars
  BY <1>11, LogsRest DEF vars, HandlerStep, ChannelStep, quotaVars, hubVars, clientVars
<1>12. ASSUME NEW r \in Runs, Work(r) PROVE ServerStep
  BY <1>12, <1>4, <1>5, <1>a, <1>b DEF Work, PrepareFails, Command, AgentFails, HandedOff, Deliver, End
<1>13. ASSUME NEW r \in Runs, ClientStep(r) PROVE UNCHANGED serverVars
  BY <1>13 DEF ClientStep, Subscribe, Serve, YieldReplay, ReplayOver, Receive, Lag, SenderGone,
      Disconnect, Yield
<1> QED
  BY <1>1, <1>2, <1>3, <1>5, <1>6, <1>7, <1>8, <1>9, <1>10, <1>11, <1>12, <1>13 DEF Next, ClientStep

----------------------------------------------------------------------------
(* The quota *)

LEMMA QuotaStep ==
    ASSUME WebTypes, QuotaKept, HandlerStep
    PROVE  /\ QuotaKept' /\ inflight' \in Nat
           /\ handler' \in [Runs -> {"idle", "answered", "lost"} \union InFlight]
<1> USE DEF WebTypes, InFlight
<1>1. CASE UNCHANGED <<inflight, handler>>
  BY <1>1 DEF QuotaKept, Holding
<1>2. ASSUME NEW r \in Runs, handler[r] = "idle", inflight' = inflight + 1,
             handler' = [handler EXCEPT ![r] = "begun"]
      PROVE  QuotaKept' /\ inflight' \in Nat
  <2>1. Holding' = Holding \union {r} /\ r \notin Holding
    BY <1>2 DEF Holding
  <2>2. IsFiniteSet(Holding)' /\ Cardinality(Holding)' = Cardinality(Holding) + 1
    BY <2>1, FS_AddElement DEF QuotaKept
  <2> QED
    BY <1>2, <2>2 DEF QuotaKept
<1>3. ASSUME NEW r \in Runs, handler[r] = "queued", inflight' = inflight - 1,
             handler' = [handler EXCEPT ![r] = "answered"]
      PROVE  QuotaKept' /\ inflight' \in Nat
  <2>1. Holding' = Holding \ {r} /\ r \in Holding
    BY <1>3 DEF Holding
  <2>2. Holding # {} /\ inflight # 0
    BY <2>1, FS_EmptySet DEF QuotaKept
  <2> QED
    BY <1>3, <2>1, <2>2, FS_RemoveElement DEF QuotaKept
<1>4. ASSUME NEW r \in Runs, handler[r] \in InFlight, inflight' = inflight, NEW h \in {"queued", "lost"},
             handler' = [handler EXCEPT ![r] = h]
      PROVE  QuotaKept' /\ inflight' \in Nat
  <2>1. Holding' = Holding
    BY <1>4 DEF Holding
  <2> QED
    BY <1>4, <2>1 DEF QuotaKept
<1>5. handler' \in [Runs -> {"idle", "answered", "lost"} \union InFlight]
  BY DEF HandlerStep
<1> DEFINE Kept == QuotaKept' /\ inflight' \in Nat
<1>6. Kept
  <2> HIDE DEF Kept
  <2> QED
    BY <1>1, <1>2, <1>3, <1>4 DEF HandlerStep, Kept
<1> QED
  BY <1>5, <1>6

----------------------------------------------------------------------------
(* The streams *)

\* What the server does leaves the streams alone and only adds to the logs.
LEMMA ServerKeeps ==
    ASSUME WebTypes, ServerStep, NEW r \in Runs, RunInv(r)
    PROVE  RunInv(r)' /\ channel' \in [Runs -> {"none", "open", "removed"}]
<1> USE DEF ServerStep, WebTypes, Streams
<1>1. channel' \in [Runs -> {"none", "open", "removed"}]
  BY DEF ChannelStep
<1>2. Grows(r) /\ log[r] \in Seq(Events) /\ log'[r] \in Seq(Events)
  BY DEF LogsGrow
<1>3. Len(log[r]) \in Nat /\ Len(log'[r]) \in Nat /\ Len(log[r]) <= Len(log'[r])
  BY <1>2, LenProperties DEF Grows
<1>4. ASSUME NEW n \in Nat, n <= Len(log[r]) PROVE EndWithin(r, n) <=> EndWithin(r, n)'
  <2>1. \A i \in 1 .. n : i \in 1 .. Len(log[r])
    BY <1>3, <1>4
  <2> QED
    BY <1>2, <2>1 DEF EndWithin, Grows
<1>5. ChannelMade(r)'
  <2>1. handler'[r] = "idle" => handler[r] = "idle"
    BY DEF HandlerStep, InFlight
  <2> QED
    BY <2>1 DEF RunInv, ChannelMade, ChannelStep
<1>6. Contiguous(r)'
  BY <1>3 DEF RunInv, Contiguous, Excused
<1>7. EndKnown(r)'
  <2>1. done'[r] => EndWithin(r, Len(log[r]))'
    <3>1. CASE done[r]
      <4>1. PICK i \in 1 .. Len(log[r]) : log[r][i] \in End
        BY <3>1 DEF RunInv, EndKnown, EndWithin
      <4>2. i \in 1 .. Len(log'[r]) /\ log'[r][i] \in End
        BY <1>2, <1>3, <4>1 DEF Grows
      <4> QED
        BY <4>2 DEF EndWithin
    <3>2. CASE ~ done[r]
      BY <1>2, <3>2 DEF Grows, EndWithin
    <3> QED
      BY <3>1, <3>2
  <2>2. stream[r].ended => EndWithin(r, stream[r].upto)'
    <3>1. stream[r].upto \in Nat /\ stream[r].upto <= Len(log[r])
      BY DEF RunInv, Contiguous
    <3>2. EndWithin(r, stream[r].upto) <=> \E i \in 1 .. stream[r].upto : log'[r][i] \in End
      BY <1>4, <3>1 DEF EndWithin
    <3> QED
      BY <3>2 DEF RunInv, EndKnown, EndWithin
  <2>3. EndWithin(r, seen[r])' => stream[r].told \/ Excused(r)
    <3>1. seen[r] \in Nat /\ seen[r] <= Len(log[r])
      BY DEF RunInv, Contiguous
    <3>2. EndWithin(r, seen[r]) <=> \E i \in 1 .. seen[r] : log'[r][i] \in End
      BY <1>4, <3>1 DEF EndWithin
    <3> QED
      BY <3>2 DEF RunInv, EndKnown, EndWithin
  <2> QED
    BY <2>1, <2>2, <2>3 DEF EndKnown, Excused, EndWithin
<1>8. ClosedForCause(r)'
  <2>1. channel[r] = "removed" => channel'[r] = "removed"
    BY DEF RunInv, ChannelMade, ChannelStep
  <2> QED
    BY <2>1 DEF RunInv, ClosedForCause, Excused
<1> QED
  BY <1>1, <1>5, <1>6, <1>7, <1>8 DEF RunInv

\* A subscription either goes on where the client was or says what is missing.
LEMMA SubscribeKeeps ==
    ASSUME WebTypes, NEW r \in Runs, RunInv(r), NEW fresh \in BOOLEAN, Subscribe(r, fresh)
    PROVE  Contiguous(r)' /\ EndKnown(r)' /\ ClosedForCause(r)'
<1> DEFINE last == IF fresh THEN 0 ELSE seen[r]
<1> USE WebAssumption DEF WebTypes, Streams
<1>1. Len(log[r]) \in Nat
  BY LenProperties
<1>2. Oldest(r) \in Nat /\ 1 <= Oldest(r)
  BY <1>1 DEF Oldest, FirstOfLast
<1>3. /\ UNCHANGED <<log, done, channel>>
      /\ seen'[r] = last /\ last \in Nat
      /\ stream'[r] = [phase |-> "replay", pos |-> FirstReplayed(r, last), upto |-> Len(log[r]),
                       ended |-> done[r], warned |-> last + 1 < Oldest(r), lagged |-> FALSE,
                       told |-> ~fresh /\ (stream[r].told \/ stream[r].warned \/ stream[r].lagged)]
  BY DEF Subscribe, serverVars, hubVars
<1>4. last <= Len(log[r])
  BY <1>1 DEF RunInv, Contiguous
<1>5. /\ FirstReplayed(r, last) \in Nat /\ 1 <= FirstReplayed(r, last)
      /\ FirstReplayed(r, last) <= last + 1 \/ last + 1 < Oldest(r)
  BY <1>2, <1>3 DEF FirstReplayed
<1>6. /\ stream'[r].phase = "replay" /\ stream'[r].upto = Len(log[r]) /\ stream'[r].ended = done[r]
      /\ stream'[r].pos = FirstReplayed(r, last)
      /\ stream'[r].warned = (last + 1 < Oldest(r))
  BY <1>3
<1> HIDE DEF last
<1>7. Contiguous(r)'
  <2>1. seen'[r] <= Len(log'[r]) /\ stream'[r].upto <= Len(log'[r])
    BY <1>1, <1>3, <1>4, <1>6
  <2>2. 1 <= stream'[r].pos
    BY <1>5, <1>6
  <2>3. stream'[r].pos <= seen'[r] + 1 \/ stream'[r].warned
    BY <1>3, <1>5, <1>6
  <2> QED
    BY <2>1, <2>2, <2>3 DEF Contiguous, Excused
<1>8. EndKnown(r)'
  <2>1. done[r] => EndWithin(r, Len(log[r]))
    BY DEF RunInv, EndKnown
  <2>2. EndWithin(r, last) => stream'[r].told
    <3>1. CASE fresh
      BY <3>1 DEF EndWithin, last
    <3>2. CASE ~ fresh
      BY <1>3, <3>2 DEF RunInv, EndKnown, Excused, last
    <3> QED
      BY <3>1, <3>2
  <2> QED
    BY <1>3, <1>6, <2>1, <2>2 DEF EndKnown, EndWithin, Excused
<1>9. ClosedForCause(r)'
  BY <1>6 DEF ClosedForCause
<1> QED
  BY <1>7, <1>8, <1>9

\* An event that is sent is the next one, and the end closes the stream.
LEMMA YieldKeeps ==
    ASSUME WebTypes, NEW r \in Runs, RunInv(r), Yield(r),
           stream[r].phase \in Open, stream[r].pos <= Len(log[r])
    PROVE  Contiguous(r)' /\ EndKnown(r)' /\ ClosedForCause(r)'
<1> DEFINE pos == stream[r].pos
           end == log[r][pos] \in End
<1> USE DEF WebTypes, Streams
<1>1. Len(log[r]) \in Nat
  BY LenProperties
<1>2. UNCHANGED <<log, done, channel>> /\ seen'[r] = pos
  BY DEF Yield, serverVars, hubVars
<1>3. /\ stream'[r].pos = pos + 1
      /\ stream'[r].phase = IF end THEN "closed" ELSE stream[r].phase
      /\ stream'[r].told = (stream[r].told \/ end)
      /\ stream'[r].upto = stream[r].upto /\ stream'[r].ended = stream[r].ended
      /\ stream'[r].warned = stream[r].warned /\ stream'[r].lagged = stream[r].lagged
  BY DEF Yield
<1>4. Excused(r)' <=> Excused(r)
  BY <1>3 DEF Excused
<1>5. Contiguous(r)'
  BY <1>1, <1>2, <1>3 DEF RunInv, Contiguous
<1>6. EndWithin(r, pos) => stream'[r].told \/ Excused(r)
  <2> SUFFICES ASSUME NEW i \in 1 .. pos, log[r][i] \in End, ~ Excused(r) PROVE stream'[r].told
    BY DEF EndWithin
  <2>1. CASE i = pos
    BY <1>3, <2>1
  <2>2. CASE i # pos
    <3>1. pos <= seen[r] + 1
      BY DEF RunInv, Contiguous
    <3>2. i \in 1 .. seen[r]
      BY <2>2, <3>1
    <3> QED
      BY <1>3, <3>2 DEF RunInv, EndKnown, EndWithin
  <2> QED
    BY <2>1, <2>2
<1>7. EndKnown(r)'
  BY <1>2, <1>3, <1>4, <1>6 DEF RunInv, EndKnown, EndWithin
<1>8. ClosedForCause(r)'
  BY <1>2, <1>3 DEF ClosedForCause, Open
<1> QED
  BY <1>5, <1>7, <1>8

\* A stream that closes after its replay has replayed the end, or it was seen before.
LEMMA ReplayOverKeeps ==
    ASSUME WebTypes, NEW r \in Runs, RunInv(r), ReplayOver(r)
    PROVE  Contiguous(r)' /\ EndKnown(r)' /\ ClosedForCause(r)'
<1> USE DEF WebTypes, Streams
<1>1. stream[r].phase \in Open /\ stream[r].pos > stream[r].upto
  BY DEF ReplayOver, Open
<1>2. UNCHANGED <<log, done, channel, seen>>
  BY DEF ReplayOver, serverVars, hubVars
<1>3. /\ stream'[r].pos = stream[r].upto + 1
      /\ stream'[r].phase = IF stream[r].ended THEN "closed" ELSE "live"
      /\ stream'[r].told = stream[r].told
      /\ stream'[r].upto = stream[r].upto /\ stream'[r].ended = stream[r].ended
      /\ stream'[r].warned = stream[r].warned /\ stream'[r].lagged = stream[r].lagged
  BY DEF ReplayOver
<1>4. Contiguous(r)'
  BY <1>1, <1>2, <1>3 DEF RunInv, Contiguous, Excused
<1>5. EndKnown(r)'
  BY <1>2, <1>3 DEF RunInv, EndKnown, EndWithin, Excused
<1>6. stream[r].ended => stream[r].told \/ Excused(r)
  <2> SUFFICES ASSUME stream[r].ended, ~ Excused(r) PROVE stream[r].told
    OBVIOUS
  <2>1. stream[r].upto <= seen[r]
    BY <1>1 DEF RunInv, Contiguous
  <2>2. PICK i \in 1 .. stream[r].upto : log[r][i] \in End
    BY DEF RunInv, EndKnown, EndWithin
  <2>3. i \in 1 .. seen[r]
    BY <2>1
  <2> QED
    BY <2>2, <2>3 DEF RunInv, EndKnown, EndWithin
<1>7. ClosedForCause(r)'
  BY <1>3, <1>6 DEF ClosedForCause, Excused
<1> QED
  BY <1>4, <1>5, <1>7

\* A receiver that fell behind says so; one whose channel is gone closes.
LEMMA OtherKeeps ==
    ASSUME WebTypes, NEW r \in Runs, RunInv(r), Lag(r) \/ SenderGone(r) \/ Disconnect(r)
    PROVE  Contiguous(r)' /\ EndKnown(r)' /\ ClosedForCause(r)'
<1> USE WebAssumption DEF WebTypes, Streams
<1>1. Len(log[r]) \in Nat
  BY LenProperties
<1>2. FirstInRing(r) \in Nat /\ 1 <= FirstInRing(r)
  BY <1>1 DEF FirstInRing, FirstOfLast
<1>3. UNCHANGED <<log, done, channel, seen>>
  BY DEF Lag, SenderGone, Disconnect, serverVars, hubVars
<1>4. CASE Lag(r)
  <2>1. /\ stream'[r].pos = FirstInRing(r) /\ stream'[r].lagged
        /\ stream'[r].phase = "live" /\ stream'[r].upto = stream[r].upto
        /\ stream'[r].ended = stream[r].ended
    BY <1>4 DEF Lag
  <2> QED
    BY <1>2, <1>3, <2>1 DEF RunInv, Contiguous, EndKnown, EndWithin, ClosedForCause, Excused
<1>5. CASE SenderGone(r) \/ Disconnect(r)
  <2>1. /\ stream'[r].pos = stream[r].pos /\ stream'[r].upto = stream[r].upto
        /\ stream'[r].ended = stream[r].ended /\ stream'[r].told = stream[r].told
        /\ stream'[r].warned = stream[r].warned /\ stream'[r].lagged = stream[r].lagged
        /\ stream'[r].phase = "off" \/ (stream'[r].phase = "closed" /\ channel[r] = "removed")
    BY <1>5 DEF SenderGone, Disconnect
  <2> QED
    BY <1>3, <2>1 DEF RunInv, Contiguous, EndKnown, EndWithin, ClosedForCause, Excused, Open
<1> QED
  BY <1>4, <1>5

\* A stream that is replaced, by another or by one with some fields changed.
LEMMA StreamUpdated ==
    ASSUME stream \in [Runs -> Streams], NEW q \in Runs, NEW s \in Streams,
           stream' = [stream EXCEPT ![q] = s]
    PROVE  stream' \in [Runs -> Streams] /\ \A r \in Runs \ {q} : stream'[r] = stream[r]
  OBVIOUS

LEMMA FieldsUpdated ==
    ASSUME NEW s \in Streams, NEW pos \in Nat, NEW stage \in Open \union {"off", "closed"},
           NEW told \in BOOLEAN
    PROVE  /\ [s EXCEPT !.pos = pos, !.phase = stage, !.told = told] \in Streams
           /\ [s EXCEPT !.phase = stage, !.pos = pos] \in Streams
           /\ [s EXCEPT !.pos = pos, !.lagged = TRUE] \in Streams
           /\ [s EXCEPT !.phase = stage] \in Streams
  BY DEF Streams

\* The step of a client leaves the records of the other clients alone.
LEMMA ClientTypes ==
    ASSUME WebTypes, NEW q \in Runs, ClientStep(q), UNCHANGED serverVars
    PROVE  /\ WebTypes'
           /\ \A r \in Runs \ {q} : stream'[r] = stream[r] /\ seen'[r] = seen[r]
<1> DEFINE Types == /\ stream' \in [Runs -> Streams] /\ seen' \in [Runs -> Nat]
                    /\ \A r \in Runs \ {q} : stream'[r] = stream[r] /\ seen'[r] = seen[r]
<1>1. UNCHANGED <<inflight, handler, channel, log, done>>
  BY DEF serverVars, quotaVars, hubVars
<1>2. /\ Len(log[q]) \in Nat /\ done[q] \in BOOLEAN /\ seen \in [Runs -> Nat]
      /\ stream \in [Runs -> Streams]
  BY LenProperties DEF WebTypes
<1>3. /\ stream[q] \in Streams /\ stream[q].pos \in Nat /\ stream[q].upto \in Nat
      /\ stream[q].told \in BOOLEAN
      /\ stream[q].phase \in Open \union {"off", "closed"}
  <2>1. stream[q] \in Streams
    BY <1>2
  <2> QED
    BY <2>1 DEF Streams
<1>4. FirstInRing(q) \in Nat /\ Oldest(q) \in Nat
  <2>1. HistoryLimit \in Nat /\ RingSize \in Nat
    BY WebAssumption
  <2>2. \A n \in Nat : FirstOfLast(q, n) \in Nat
    BY <1>2 DEF FirstOfLast
  <2> QED
    BY <1>2, <2>1, <2>2 DEF FirstInRing, Oldest
<1>5. ASSUME NEW fresh \in BOOLEAN, Subscribe(q, fresh) PROVE Types
  <2> DEFINE last == IF fresh THEN 0 ELSE seen[q]
             told == ~fresh /\ (stream[q].told \/ stream[q].warned \/ stream[q].lagged)
             new == [phase |-> "replay", pos |-> FirstReplayed(q, last), upto |-> Len(log[q]),
                     ended |-> done[q], warned |-> last + 1 < Oldest(q), lagged |-> FALSE, told |-> told]
  <2>1. last \in Nat
    BY <1>2
  <2>2. stream' = [stream EXCEPT ![q] = new] /\ seen' = [seen EXCEPT ![q] = last]
    BY <1>5 DEF Subscribe
  <2>3. FirstReplayed(q, last) \in Nat
    BY <1>4, <2>1 DEF FirstReplayed
  <2>4. told \in BOOLEAN /\ (last + 1 < Oldest(q)) \in BOOLEAN
    OBVIOUS
  <2> HIDE DEF last, told
  <2>5. new \in Streams
    BY <1>2, <2>3, <2>4 DEF Streams, Open
  <2> HIDE DEF new
  <2>6. seen' \in [Runs -> Nat] /\ \A r \in Runs \ {q} : seen'[r] = seen[r]
    BY <1>2, <2>1, <2>2
  <2> QED
    BY <1>2, <2>2, <2>5, <2>6, StreamUpdated
<1>6. ASSUME Yield(q) PROVE Types
  <2> DEFINE end == log[q][stream[q].pos] \in End
             stage == IF end THEN "closed" ELSE stream[q].phase
             told == stream[q].told \/ end
  <2>1. /\ stream' = [stream EXCEPT ![q] = [stream[q] EXCEPT !.pos = stream[q].pos + 1, !.phase = stage, !.told = told]]
        /\ seen' = [seen EXCEPT ![q] = stream[q].pos]
    BY <1>2, <1>6 DEF Yield
  <2>2. stream[q].pos + 1 \in Nat /\ stage \in Open \union {"off", "closed"} /\ told \in BOOLEAN
    BY <1>3
  <2> HIDE DEF stage, told
  <2>3. [stream[q] EXCEPT !.pos = stream[q].pos + 1, !.phase = stage, !.told = told] \in Streams
    BY <1>3, <2>2, FieldsUpdated
  <2>4. seen' \in [Runs -> Nat] /\ \A r \in Runs \ {q} : seen'[r] = seen[r]
    BY <1>2, <1>3, <2>1
  <2> QED
    BY <1>2, <2>1, <2>3, <2>4, StreamUpdated
<1>7. ASSUME ReplayOver(q) PROVE Types
  <2> DEFINE stage == IF stream[q].ended THEN "closed" ELSE "live"
             new == [stream[q] EXCEPT !.phase = stage, !.pos = stream[q].upto + 1]
  <2>1. stream' = [stream EXCEPT ![q] = new] /\ seen' = seen
    BY <1>2, <1>7 DEF ReplayOver
  <2>2. stream[q].upto + 1 \in Nat /\ stage \in Open \union {"off", "closed"}
    BY <1>3 DEF Open
  <2> HIDE DEF stage
  <2>3. new \in Streams
    BY <1>3, <2>2, FieldsUpdated
  <2> HIDE DEF new
  <2> QED
    BY <1>2, <2>1, <2>3, StreamUpdated
<1>8. ASSUME Lag(q) PROVE Types
  <2> DEFINE new == [stream[q] EXCEPT !.pos = FirstInRing(q), !.lagged = TRUE]
  <2>1. stream' = [stream EXCEPT ![q] = new] /\ seen' = seen
    BY <1>2, <1>8 DEF Lag
  <2>2. new \in Streams
    BY <1>3, <1>4, FieldsUpdated
  <2> HIDE DEF new
  <2> QED
    BY <1>2, <2>1, <2>2, StreamUpdated
<1>9. ASSUME SenderGone(q) \/ Disconnect(q) PROVE Types
  <2>1. PICK stage \in {"off", "closed"} : stream' = [stream EXCEPT ![q] = [stream[q] EXCEPT !.phase = stage]]
    BY <1>2, <1>9 DEF SenderGone, Disconnect
  <2>2. seen' = seen
    BY <1>9 DEF SenderGone, Disconnect
  <2>3. [stream[q] EXCEPT !.phase = stage] \in Streams
    BY <1>3, FieldsUpdated
  <2> QED
    BY <1>2, <2>1, <2>2, <2>3, StreamUpdated
<1>10. Types
  BY <1>5, <1>6, <1>7, <1>8, <1>9 DEF ClientStep, Serve, YieldReplay, Receive
<1> QED
  BY <1>1, <1>10 DEF WebTypes

LEMMA ClientKeeps ==
    ASSUME WebTypes, NEW q \in Runs, ClientStep(q), UNCHANGED serverVars, \A r \in Runs : RunInv(r)
    PROVE  WebTypes' /\ \A r \in Runs : RunInv(r)'
<1>1. WebTypes' /\ \A r \in Runs \ {q} : stream'[r] = stream[r] /\ seen'[r] = seen[r]
  BY ClientTypes
<1>2. UNCHANGED <<handler, channel, log, done>>
  BY DEF serverVars, quotaVars, hubVars
<1>3. ASSUME NEW r \in Runs, r # q PROVE RunInv(r)'
  BY <1>1, <1>2, <1>3 DEF RunInv, ChannelMade, Contiguous, EndKnown, EndWithin, ClosedForCause, Excused
<1>4. ChannelMade(q)'
  BY <1>2 DEF RunInv, ChannelMade
<1>5. Contiguous(q)' /\ EndKnown(q)' /\ ClosedForCause(q)'
  <2>1. CASE \E fresh \in BOOLEAN : Subscribe(q, fresh)
    BY <2>1, SubscribeKeeps
  <2>2. CASE YieldReplay(q)
    <3>1. stream[q].phase \in Open /\ stream[q].pos <= stream[q].upto /\ Yield(q)
      BY <2>2 DEF YieldReplay, Open
    <3>2. stream[q].upto <= Len(log[q]) /\ Len(log[q]) \in Nat /\ stream[q].pos \in Nat /\ stream[q].upto \in Nat
      BY LenProperties DEF RunInv, Contiguous, WebTypes, Streams
    <3> QED
      BY <3>1, <3>2, YieldKeeps
  <2>3. CASE Receive(q)
    BY <2>3, YieldKeeps DEF Receive, Open
  <2>4. CASE ReplayOver(q)
    BY <2>4, ReplayOverKeeps
  <2>5. CASE Lag(q) \/ SenderGone(q) \/ Disconnect(q)
    BY <2>5, OtherKeeps
  <2> QED
    BY <2>1, <2>2, <2>3, <2>4, <2>5 DEF ClientStep, Serve
<1> QED
  BY <1>1, <1>3, <1>4, <1>5 DEF RunInv

----------------------------------------------------------------------------
(* The theorems *)

LEMMA InitHolds == Init => IInv
<1> SUFFICES ASSUME Init PROVE IInv
  OBVIOUS
<1>1. <<>> \in Seq(Events) /\ Len(<<>>) = 0
  BY EmptySeq
<1>2. WebTypes
  <2>1. NotConnected \in Streams
    BY DEF NotConnected, Streams
  <2> QED
    BY <1>1, <2>1 DEF Init, WebTypes
<1>3. QuotaKept
  <2>1. Holding = {} /\ inflight = 0
    BY DEF Init, Holding, InFlight
  <2> QED
    BY <2>1, FS_EmptySet DEF QuotaKept
<1>4. ASSUME NEW r \in Runs PROVE RunInv(r)
  BY <1>1 DEF Init, NotConnected, RunInv, ChannelMade, Contiguous, EndKnown, EndWithin, ClosedForCause, Open
<1> QED
  BY <1>2, <1>3, <1>4 DEF IInv

LEMMA StepKeeps == IInv /\ [Next]_vars => IInv'
<1> SUFFICES ASSUME IInv, [Next]_vars PROVE IInv'
  OBVIOUS
<1> USE DEF IInv
<1>1. CASE ServerStep
  <2>1. \A r \in Runs : RunInv(r)' /\ channel' \in [Runs -> {"none", "open", "removed"}]
    BY <1>1, ServerKeeps
  <2>2. CASE Runs = {}
    BY <1>1, <2>2, QuotaStep DEF ServerStep, LogsGrow, WebTypes, ChannelStep
  <2>3. CASE Runs # {}
    BY <1>1, <2>1, <2>3, QuotaStep DEF ServerStep, LogsGrow, WebTypes
  <2> QED
    BY <2>2, <2>3
<1>2. ASSUME NEW q \in Runs, ClientStep(q), UNCHANGED serverVars PROVE IInv'
  <2>1. WebTypes' /\ \A r \in Runs : RunInv(r)'
    BY <1>2, ClientKeeps
  <2>2. QuotaKept'
    BY <1>2 DEF QuotaKept, Holding, serverVars, quotaVars
  <2> QED
    BY <2>1, <2>2
<1> QED
  BY <1>1, <1>2, Steps

\* The quota, the channels and the streams keep to the invariant of every run.
THEOREM Invariance == Spec => []IInv
<1> QED
  BY InitHolds, StepKeeps, PTL DEF Spec

\* However handlers, refusals and lost connections interleave, the count that
\* admission reads is the number of requests that hold a place (RequestHub).
THEOREM QuotaExact == Spec => []InflightExact
<1>1. IInv => InflightExact
  BY DEF IInv, QuotaKept, Holding, InflightExact
<1> QED
  BY <1>1, Invariance, PTL

\* Whatever the history and the ring have lost, a stream closed by the server
\* has given the end, or the client was told that events are gone (api_stream).
THEOREM EndsTold == Spec => []EndIsTold
<1>1. IInv => EndIsTold
  BY DEF IInv, WebTypes, RunInv, ClosedForCause, Excused, EndIsTold
<1> QED
  BY <1>1, Invariance, PTL

\* Over any number of connections no client is sent an event behind a gap it was
\* not told of (subscribe_with_replay, RunHub::publish).
THEOREM NoGapUntold == Spec => NoSilentGap
<1>1. ASSUME IInv, [Next]_vars, NEW r \in Runs, seen'[r] > seen[r] + 1 PROVE Excused(r)
  <2>1. WebTypes /\ Contiguous(r)
    BY <1>1 DEF IInv, RunInv
  <2>2. PICK q \in Runs : ClientStep(q)
    BY <1>1, <2>1, Steps DEF ServerStep, WebTypes
  <2>3. q = r
    <3> SUFFICES ASSUME q # r PROVE FALSE
      OBVIOUS
    <3>1. seen'[r] = seen[r]
      BY <1>1, <2>1, <2>2 DEF WebTypes, ClientStep, Subscribe, Serve, YieldReplay, ReplayOver, Receive,
          Lag, SenderGone, Disconnect, Yield
    <3> QED
      BY <1>1, <2>1, <3>1 DEF WebTypes
  <2>4. stream[r].phase \in Open /\ seen'[r] = stream[r].pos
    BY <1>1, <2>1, <2>2, <2>3 DEF WebTypes, Streams, ClientStep, Subscribe, Serve, YieldReplay, ReplayOver, Receive,
        Lag, SenderGone, Disconnect, Yield, Open
  <2> QED
    BY <1>1, <2>1, <2>4 DEF Contiguous, WebTypes, Streams
<1>2. IInv /\ [Next]_vars => [\A r \in Runs : seen'[r] > seen[r] + 1 => stream[r].warned \/ stream[r].lagged]_vars
  BY <1>1 DEF Excused
<1> QED
  BY <1>2, Invariance, PTL DEF Spec, NoSilentGap
=============================================================================
