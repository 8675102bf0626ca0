-------------------------- MODULE ChatQueueProofs --------------------------
(***************************************************************************)
(* Machine-checked proofs about ChatQueue, for every set of runs and every *)
(* assignment of runs to lanes.                                            *)
(***************************************************************************)
EXTENDS ChatQueue, SequenceTheorems, TLAPS

\* VecDeque::remove: the items before the index stay, those after it move up.
LEMMA RemoveAtProperties ==
    ASSUME NEW S, NEW s \in Seq(S), NEW i \in 1 .. Len(s)
    PROVE  /\ RemoveAt(s, i) \in Seq(S)
           /\ Len(RemoveAt(s, i)) = Len(s) - 1
           /\ \A k \in 1 .. Len(s) - 1 :
                  RemoveAt(s, i)[k] = IF k < i THEN s[k] ELSE s[k + 1]
<1> DEFINE before == SubSeq(s, 1, i - 1)
           after == SubSeq(s, i + 1, Len(s))
<1>1. Len(s) \in Nat /\ \A k \in 1 .. Len(s) : s[k] \in S
  BY ElementOfSeq, LenProperties
<1>2. /\ before \in Seq(S)
      /\ Len(before) = i - 1
      /\ \A k \in 1 .. i - 1 : before[k] = s[k]
  <2>1. \A k \in 1 .. i - 1 : s[k] \in S
    BY <1>1
  <2>2. /\ before \in Seq(S)
        /\ Len(before) = IF 1 <= i - 1 THEN i - 1 - 1 + 1 ELSE 0
        /\ \A k \in 1 .. i - 1 - 1 + 1 : before[k] = s[1 + k - 1]
    BY <1>1, <2>1, SubSeqProperties
  <2> QED BY <1>1, <2>2
<1>3. /\ after \in Seq(S)
      /\ Len(after) = Len(s) - i
      /\ \A k \in 1 .. Len(s) - i : after[k] = s[i + k]
  <2>1. \A k \in i + 1 .. Len(s) : s[k] \in S
    BY <1>1
  <2>2. /\ after \in Seq(S)
        /\ Len(after) = IF i + 1 <= Len(s) THEN Len(s) - (i + 1) + 1 ELSE 0
        /\ \A k \in 1 .. Len(s) - (i + 1) + 1 : after[k] = s[i + 1 + k - 1]
    BY <1>1, <2>1, SubSeqProperties
  <2> QED BY <1>1, <2>2
<1> HIDE DEF before, after
<1>4. /\ before \o after \in Seq(S)
      /\ Len(before \o after) = Len(before) + Len(after)
      /\ \A k \in 1 .. Len(before) + Len(after) :
            (before \o after)[k] =
              IF k <= Len(before) THEN before[k] ELSE after[k - Len(before)]
  BY <1>2, <1>3, ConcatProperties
<1>5. Len(before \o after) = Len(s) - 1
  BY <1>1, <1>2, <1>3, <1>4
<1>6. ASSUME NEW k \in 1 .. Len(s) - 1
      PROVE  (before \o after)[k] = IF k < i THEN s[k] ELSE s[k + 1]
  <2>1. CASE k < i
    BY <1>1, <1>2, <1>3, <1>4, <2>1
  <2>2. CASE k >= i
    <3>1. (before \o after)[k] = after[k - (i - 1)]
      BY <1>1, <1>2, <1>3, <1>4, <2>2
    <3>2. k - (i - 1) \in 1 .. Len(s) - i /\ i + (k - (i - 1)) = k + 1
      BY <1>1, <2>2
    <3> QED BY <1>3, <2>2, <3>1, <3>2
  <2>3. k < i \/ k >= i
    BY <1>1
  <2> QED BY <2>1, <2>2, <2>3
<1> QED BY <1>4, <1>5, <1>6 DEF RemoveAt, before, after

\* Removing the first item is taking the tail; removing a later one is
\* removing it from the tail.
LEMMA RemoveAtFirst ==
    ASSUME NEW S, NEW s \in Seq(S), s # <<>>
    PROVE  1 \in 1 .. Len(s) /\ RemoveAt(s, 1) = Tail(s)
<1>1. /\ Len(s) \in Nat /\ Len(s) # 0
      /\ Tail(s) \in Seq(S) /\ Len(Tail(s)) = Len(s) - 1
      /\ \A k \in 1 .. Len(s) - 1 : Tail(s)[k] = s[k + 1]
  BY EmptySeq, LenProperties, HeadTailProperties
<1>2. 1 \in 1 .. Len(s)
  BY <1>1
<1>3. /\ RemoveAt(s, 1) \in Seq(S)
      /\ Len(RemoveAt(s, 1)) = Len(s) - 1
      /\ \A k \in 1 .. Len(s) - 1 : RemoveAt(s, 1)[k] = s[k + 1]
  <2>1. /\ RemoveAt(s, 1) \in Seq(S)
        /\ Len(RemoveAt(s, 1)) = Len(s) - 1
        /\ \A k \in 1 .. Len(s) - 1 :
              RemoveAt(s, 1)[k] = IF k < 1 THEN s[k] ELSE s[k + 1]
    BY <1>2, RemoveAtProperties
  <2>2. \A k \in 1 .. Len(s) - 1 : ~ (k < 1)
    BY <1>1
  <2> QED BY <2>1, <2>2
<1> QED BY <1>1, <1>2, <1>3, SeqEqual

LEMMA RemoveAtLater ==
    ASSUME NEW S, NEW s \in Seq(S), NEW i \in 2 .. Len(s)
    PROVE  /\ s # <<>> /\ RemoveAt(s, i) # <<>>
           /\ i - 1 \in 1 .. Len(Tail(s))
           /\ Head(RemoveAt(s, i)) = Head(s)
           /\ Tail(RemoveAt(s, i)) = RemoveAt(Tail(s), i - 1)
<1> DEFINE t == Tail(s)
           u == RemoveAt(s, i)
           v == RemoveAt(t, i - 1)
           m == Len(s) - 2
<1>1. Len(s) \in Nat /\ i >= 2 /\ i \in 1 .. Len(s) /\ Len(s) >= 2 /\ s # <<>>
  BY EmptySeq, LenProperties
<1>2. /\ t \in Seq(S) /\ Len(t) = Len(s) - 1 /\ Head(s) = s[1]
      /\ \A k \in 1 .. Len(s) - 1 : t[k] = s[k + 1]
  BY <1>1, HeadTailProperties
<1>3. /\ u \in Seq(S) /\ Len(u) = Len(s) - 1
      /\ \A k \in 1 .. Len(s) - 1 : u[k] = IF k < i THEN s[k] ELSE s[k + 1]
  BY <1>1, RemoveAtProperties
<1>4. i - 1 \in 1 .. Len(t)
  BY <1>1, <1>2
<1> HIDE DEF t, u
<1>5. /\ v \in Seq(S) /\ Len(v) = Len(t) - 1
      /\ \A k \in 1 .. Len(t) - 1 : v[k] = IF k < i - 1 THEN t[k] ELSE t[k + 1]
  BY <1>2, <1>4, RemoveAtProperties
<1> HIDE DEF v
<1>6. u # <<>> /\ Len(u) >= 1
  BY <1>1, <1>3, EmptySeq
<1>7. /\ Tail(u) \in Seq(S) /\ Len(Tail(u)) = m /\ Head(u) = s[1]
      /\ \A k \in 1 .. m : Tail(u)[k] = u[k + 1]
  <2>1. /\ Tail(u) \in Seq(S) /\ Len(Tail(u)) = Len(u) - 1 /\ Head(u) = u[1]
        /\ \A k \in 1 .. Len(u) - 1 : Tail(u)[k] = u[k + 1]
    BY <1>3, <1>6, HeadTailProperties
  <2> QED BY <1>1, <1>3, <2>1
<1>8. ASSUME NEW k \in 1 .. m PROVE Tail(u)[k] = v[k]
  <2>1. /\ k + 1 \in 1 .. Len(s) - 1 /\ k \in 1 .. Len(t) - 1
        /\ k \in 1 .. Len(s) - 1
    BY <1>1, <1>2
  <2>2. Tail(u)[k] = IF k + 1 < i THEN s[k + 1] ELSE s[k + 2]
    BY <1>1, <1>3, <1>7, <2>1
  <2>3. v[k] = IF k < i - 1 THEN t[k] ELSE t[k + 1]
    BY <1>5, <2>1
  <2>4. t[k] = s[k + 1] /\ t[k + 1] = s[k + 2]
    BY <1>1, <1>2, <2>1
  <2>5. k + 1 < i <=> k < i - 1
    BY <1>1
  <2> QED BY <2>2, <2>3, <2>4, <2>5
<1>9. Tail(u) = v
  BY <1>1, <1>2, <1>5, <1>7, <1>8, SeqEqual
<1> QED BY <1>1, <1>2, <1>4, <1>6, <1>7, <1>9 DEF t, u, v

\* An item appended to a sequence that is not empty goes behind its tail.
LEMMA AppendBehind ==
    ASSUME NEW S, NEW s \in Seq(S), NEW e \in S
    PROVE  /\ Append(s, e) # <<>>
           /\ s # <<>> => /\ Head(Append(s, e)) = Head(s)
                          /\ Tail(Append(s, e)) = Append(Tail(s), e)
<1> DEFINE a == Append(s, e)
<1>1. /\ Len(s) \in Nat /\ a \in Seq(S) /\ Len(a) = Len(s) + 1
      /\ \A k \in 1 .. Len(s) : a[k] = s[k]
      /\ a[Len(s) + 1] = e
  BY LenProperties, AppendProperties
<1> HIDE DEF a
<1>2. a # <<>>
  BY <1>1, EmptySeq
<1>3. ASSUME s # <<>> PROVE Head(a) = Head(s) /\ Tail(a) = Append(Tail(s), e)
  <2> DEFINE b == Append(Tail(s), e)
  <2>1. /\ Len(s) >= 1 /\ Head(s) = s[1]
        /\ Tail(s) \in Seq(S) /\ Len(Tail(s)) = Len(s) - 1
        /\ \A k \in 1 .. Len(s) - 1 : Tail(s)[k] = s[k + 1]
    BY <1>1, <1>3, EmptySeq, HeadTailProperties
  <2>2. /\ Head(a) = a[1] /\ Tail(a) \in Seq(S) /\ Len(Tail(a)) = Len(s)
        /\ \A k \in 1 .. Len(s) : Tail(a)[k] = a[k + 1]
    <3>1. /\ Head(a) = a[1] /\ Tail(a) \in Seq(S) /\ Len(Tail(a)) = Len(a) - 1
          /\ \A k \in 1 .. Len(a) - 1 : Tail(a)[k] = a[k + 1]
      BY <1>1, <1>2, HeadTailProperties
    <3> QED BY <1>1, <3>1
  <2>3. /\ b \in Seq(S) /\ Len(b) = Len(s)
        /\ \A k \in 1 .. Len(s) - 1 : b[k] = s[k + 1]
        /\ b[Len(s)] = e
    <3>1. /\ b \in Seq(S) /\ Len(b) = Len(Tail(s)) + 1
          /\ \A k \in 1 .. Len(Tail(s)) : b[k] = Tail(s)[k]
          /\ b[Len(Tail(s)) + 1] = e
      BY <2>1, AppendProperties
    <3> HIDE DEF b
    <3> QED BY <1>1, <2>1, <3>1
  <2> HIDE DEF b
  <2>4. \A k \in 1 .. Len(s) : Tail(a)[k] = b[k]
    BY <1>1, <2>1, <2>2, <2>3
  <2>5. Tail(a) = b
    BY <2>2, <2>3, <2>4, SeqEqual
  <2> QED BY <1>1, <2>1, <2>2, <2>5 DEF b
<1> QED BY <1>2, <1>3 DEF a

----------------------------------------------------------------------------
(* Type correctness *)

LEMMA LaneOfRun == ASSUME NEW r \in Runs PROVE LaneOf[r] \in Lanes
BY DEF Lanes

LEMMA SetLaneType ==
    ASSUME TypeOK, NEW l \in Lanes, NEW p \in Nat, NEW q \in Seq(Runs),
           NEW c \in Runs \union {NoRun}, SetLane(l, p, q, c)
    PROVE  /\ tx' \in [Lanes -> Runs \union {NoRun}]
           /\ pending' \in [Lanes -> Nat]
           /\ items' \in [Lanes -> Seq(Runs)]
           /\ current' \in [Lanes -> Runs \union {NoRun}]
           /\ failed' \subseteq Lanes
<1>1. CASE p = 0
  <2>1. <<>> \in Seq(Runs)
    BY EmptySeq
  <2> QED BY <1>1, <2>1 DEF TypeOK, SetLane
<1>2. CASE p # 0
  BY <1>2 DEF TypeOK, SetLane
<1> QED BY <1>1, <1>2

\* Type correctness of the queue, for every set of runs.
LEMMA TypeStep == TypeOK /\ [Next]_vars => TypeOK'
<1> SUFFICES ASSUME TypeOK, [Next]_vars
             PROVE  TypeOK'
  OBVIOUS
<1> USE LaneOfRun
<1>1. ASSUME NEW r \in Runs, Reject(r) PROVE TypeOK'
  BY <1>1 DEF TypeOK, Reject, Phase, laneVars, workVars, histVars
<1>2. ASSUME NEW r \in Runs, Register(r) PROVE TypeOK'
  BY <1>2 DEF TypeOK, Register, Phase, laneVars, workVars, histVars
<1>3. ASSUME NEW r \in Runs, Push(r) PROVE TypeOK'
  <2> DEFINE l == LaneOf[r]
             w == IF InMap(l) THEN tx[l] ELSE r
  <2>1. l \in Lanes /\ w \in Runs
    BY DEF InMap, TypeOK
  <2>2. /\ phase' = [phase EXCEPT ![r] = "queued"]
        /\ tx' = [tx EXCEPT ![l] = w]
        /\ pending' = [pending EXCEPT ![l] = @ + 1]
        /\ items' = [items EXCEPT ![l] = Append(@, r)]
        /\ wpc' = wpc \/ wpc' = [wpc EXCEPT ![r] = "recv"]
        /\ chan' = [chan EXCEPT ![w] = Append(@, r)]
        /\ ticket' = [ticket EXCEPT ![r] = arrivals[l]]
        /\ arrivals' = [arrivals EXCEPT ![l] = @ + 1]
        /\ UNCHANGED <<runs, cancel, current, failed, task, removing, removed, raced>>
    BY <1>3 DEF Push
  <2> HIDE DEF l, w
  <2>3. Append(items[l], r) \in Seq(Runs) /\ Append(chan[w], r) \in Seq(Runs)
    BY <2>1 DEF TypeOK
  <2>4. /\ phase' \in [Runs -> Phase]
        /\ tx' \in [Lanes -> Runs \union {NoRun}]
        /\ pending' \in [Lanes -> Nat]
    BY <2>1, <2>2 DEF TypeOK, Phase
  <2>5. /\ items' \in [Lanes -> Seq(Runs)]
        /\ chan' \in [Runs -> Seq(Runs)]
    BY <2>1, <2>2, <2>3 DEF TypeOK
  <2>6. wpc' \in [Runs -> WorkerPc]
    BY <2>2 DEF TypeOK, WorkerPc
  <2>7. /\ ticket' \in [Runs -> Nat]
        /\ arrivals' \in [Lanes -> Nat]
    BY <2>1, <2>2 DEF TypeOK
  <2> QED BY <2>2, <2>4, <2>5, <2>6, <2>7 DEF TypeOK
<1>4. ASSUME NEW w \in Runs, Recv(w) PROVE TypeOK'
  <2>1. Head(chan[w]) \in Runs /\ Tail(chan[w]) \in Seq(Runs)
    BY <1>4 DEF TypeOK, Recv
  <2> QED BY <1>4, <2>1 DEF TypeOK, Recv, Goto, WorkerPc, laneVars, histVars
<1>5. ASSUME NEW w \in Runs, Exit(w) PROVE TypeOK'
  BY <1>5 DEF TypeOK, Exit, Goto, WorkerPc, laneVars, histVars
<1>6. ASSUME NEW w \in Runs, CheckSkip(w) PROVE TypeOK'
  BY <1>6 DEF TypeOK, CheckSkip, Goto, WorkerPc, laneVars, histVars
<1>7. ASSUME NEW w \in Runs, MarkRunning(w) PROVE TypeOK'
  BY <1>7 DEF TypeOK, MarkRunning, Goto, WorkerPc, histVars
<1>8. ASSUME NEW w \in Runs, TaskReturns(w) PROVE TypeOK'
  BY <1>8 DEF TypeOK, TaskReturns, Goto, WorkerPc, laneVars, histVars
<1>9. ASSUME NEW w \in Runs, TaskFails(w) PROVE TypeOK'
  BY <1>9 DEF TypeOK, TaskFails, Goto, WorkerPc, laneVars, histVars
<1>10. ASSUME NEW w \in Runs, NoteLaneError(w) PROVE TypeOK'
  BY <1>10 DEF TypeOK, NoteLaneError, Goto, WorkerPc, histVars
<1>11. ASSUME NEW w \in Runs, Unregister(w) PROVE TypeOK'
  BY <1>11 DEF TypeOK, Unregister, Goto, WorkerPc, laneVars, histVars
<1>12. ASSUME NEW w \in Runs, Release(w) PROVE TypeOK'
  <2> DEFINE l == LaneOf[w]
             atFront == items[l] # <<>> /\ Head(items[l]) = task[w]
             p == IF current[l] = task[w] \/ atFront
                  THEN SaturatingPred(pending[l]) ELSE pending[l]
             q == IF atFront THEN Tail(items[l]) ELSE items[l]
             c == IF current[l] = task[w] THEN NoRun ELSE current[l]
  <2>1. p \in Nat /\ q \in Seq(Runs) /\ c \in Runs \union {NoRun}
    <3>1. /\ pending[l] \in Nat /\ items[l] \in Seq(Runs)
          /\ current[l] \in Runs \union {NoRun}
      BY DEF TypeOK
    <3>2. SaturatingPred(pending[l]) \in Nat
      BY <3>1 DEF SaturatingPred
    <3>3. items[l] # <<>> => Tail(items[l]) \in Seq(Runs)
      BY <3>1
    <3> QED BY <3>1, <3>2, <3>3
  <2>2. CASE InMap(l)
    <3>1. SetLane(l, p, q, c)
      BY <1>12, <2>2 DEF Release
    <3> HIDE DEF p, q, c
    <3> QED BY <1>12, <2>1, <3>1, SetLaneType
            DEF TypeOK, Release, Goto, WorkerPc, histVars
  <2>3. CASE ~ InMap(l)
    BY <1>12, <2>3 DEF TypeOK, Release, Goto, WorkerPc, laneVars, histVars
  <2> QED BY <2>2, <2>3
<1>13. ASSUME NEW r \in Runs, RequestCancel(r) PROVE TypeOK'
  BY <1>13 DEF TypeOK, RequestCancel, laneVars, workVars, histVars
<1>14. ASSUME NEW r \in Runs, RemoveLookup(r) PROVE TypeOK'
  BY <1>14 DEF TypeOK, RemoveLookup, laneVars, workVars, histVars
<1>15. ASSUME NEW r \in Runs, RemoveAccept(r) PROVE TypeOK'
  <2> DEFINE l == LaneOf[r]
             i == CHOOSE k \in 1 .. Len(items[l]) : items[l][k] = r
             p == SaturatingPred(pending[l])
             q == RemoveAt(items[l], i)
  <2>1. i \in 1 .. Len(items[l])
    BY <1>15 DEF RemoveAccept, CanRemove, Contains
  <2>2. p \in Nat /\ q \in Seq(Runs) /\ current[l] \in Runs \union {NoRun}
    <3>1. /\ pending[l] \in Nat /\ items[l] \in Seq(Runs)
          /\ current[l] \in Runs \union {NoRun}
      BY DEF TypeOK
    <3> HIDE DEF i, l
    <3>2. p \in Nat
      BY <3>1 DEF SaturatingPred
    <3> QED BY <2>1, <3>1, <3>2, RemoveAtProperties
  <2>3. SetLane(l, p, q, current[l])
    BY <1>15 DEF RemoveAccept
  <2> HIDE DEF p, q
  <2> QED BY <1>15, <2>2, <2>3, SetLaneType DEF TypeOK, RemoveAccept, workVars
<1>16. ASSUME NEW r \in Runs, RemoveRefuse(r) PROVE TypeOK'
  BY <1>16 DEF TypeOK, RemoveRefuse, laneVars, workVars, histVars
<1>17. CASE AtRest \/ UNCHANGED vars
  BY <1>17 DEF TypeOK, AtRest, vars, laneVars, workVars, histVars
<1> QED
  BY <1>1, <1>2, <1>3, <1>4, <1>5, <1>6, <1>7, <1>8, <1>9, <1>10, <1>11, <1>12,
     <1>13, <1>14, <1>15, <1>16, <1>17
  DEF Next, Enqueue, Worker, Request

LEMMA TypeInit == Init => TypeOK
BY LaneOfRun DEF Init, TypeOK, Phase, WorkerPc, Lanes

\* TypeOK is an invariant whatever the runs, lanes and requests are.
THEOREM TypeCorrect == Spec => []TypeOK
BY TypeInit, TypeStep, PTL DEF Spec

----------------------------------------------------------------------------
(* The inductive invariant *)

Busy == {"check", "mark", "running", "note", "unregister", "release"}

\* What worker w holds: a task exactly while busy, of its own lane, pushed, and
\* registered until the worker unregisters it.
TaskOf(w) ==
    /\ wpc[w] \in Busy <=> task[w] # NoRun
    /\ wpc[w] \in Busy =>
          /\ LaneOf[task[w]] = LaneOf[w]
          /\ phase[task[w]] = "queued"
          /\ wpc[w] # "release" => task[w] \in runs
    /\ wpc[w] # "none" => phase[w] = "queued"

\* What is buffered for w: runs of its lane, pushed and registered, in the order
\* of arrival and after the task in hand.
BufferOf(w) ==
    /\ wpc[w] \in {"none", "exit"} => chan[w] = <<>>
    /\ \A i \in 1 .. Len(chan[w]) :
          /\ LaneOf[chan[w][i]] = LaneOf[w]
          /\ phase[chan[w][i]] = "queued"
          /\ chan[w][i] \in runs
          /\ wpc[w] \in Busy => ticket[task[w]] < ticket[chan[w][i]]
    /\ \A i, j \in 1 .. Len(chan[w]) : i < j => ticket[chan[w][i]] < ticket[chan[w][j]]

\* A pushed run is in the hands of at most one worker, once.
OnePlace ==
    /\ \A v, w \in Runs : wpc[v] \in Busy /\ task[v] = task[w] => v = w
    /\ \A v, w \in Runs : \A i \in 1 .. Len(chan[w]) : task[v] # chan[w][i]
    /\ \A v, w \in Runs : \A i \in 1 .. Len(chan[v]), j \in 1 .. Len(chan[w]) :
          chan[v][i] = chan[w][j] => v = w

\* Tickets and removals; only pushed runs have a place in the books.
Books ==
    /\ \A r \in Runs : phase[r] = "queued" => ticket[r] < arrivals[LaneOf[r]]
    /\ removed \subseteq cancel
    /\ \A r \in removed : phase[r] = "queued"
    /\ \A r \in Runs : phase[r] = "registered" => r \in runs

\* Lane l of the map, whatever races: a live worker of its own, and pushed,
\* not removed items in the order of arrival.
LaneBooks(l) ==
    /\ InMap(l) => LaneOf[tx[l]] = l /\ wpc[tx[l]] \notin {"none", "exit"}
    /\ \A i \in 1 .. Len(items[l]) :
          /\ LaneOf[items[l][i]] = l
          /\ phase[items[l][i]] = "queued"
          /\ items[l][i] \notin removed
    /\ \A i, j \in 1 .. Len(items[l]) : i < j => ticket[items[l][i]] < ticket[items[l][j]]

\* While no removal raced, lane l counts and lists what its worker has left.
LaneAgrees(l) ==
    /\ pending[l] = Len(items[l])
    /\ InMap(l) <=> items[l] # <<>>
    /\ current[l] # NoRun =>
          /\ InMap(l)
          /\ current[l] = task[tx[l]]
          /\ current[l] \notin removed
          /\ wpc[tx[l]] \in {"running", "note", "unregister", "release"}
    /\ \A i \in 1 .. Len(items[l]) :
          items[l][i] = task[tx[l]] \/ Contains(chan[tx[l]], items[l][i])

\* A run the lane answers for: its worker feeds from the lane's sender and the
\* lane lists it.
Owned(w, r) == tx[LaneOf[w]] = w /\ Contains(items[LaneOf[w]], r)

TaskAgrees(w) ==
    /\ wpc[w] \in Busy /\ task[w] \notin removed => Owned(w, task[w])
    /\ wpc[w] \in {"mark", "running", "note"} => task[w] \notin removed
    /\ wpc[w] \in {"running", "note"} => current[LaneOf[w]] = task[w]

BufferAgrees(w) ==
    \A i \in 1 .. Len(chan[w]) : chan[w][i] \notin removed => Owned(w, chan[w][i])

Agreement ==
    /\ \A l \in Lanes : LaneAgrees(l)
    /\ \A w \in Runs : TaskAgrees(w) /\ BufferAgrees(w)

Parts ==
    /\ \A w \in Runs : TaskOf(w) /\ BufferOf(w)
    /\ OnePlace /\ Books
    /\ \A l \in Lanes : LaneBooks(l)
    /\ raced = {} => Agreement

IInv == TypeOK /\ Parts

\* Where the elements of the sequences live.
LEMMA Elements ==
    ASSUME TypeOK
    PROVE  /\ \A w \in Runs : chan[w] \in Seq(Runs)
           /\ \A w \in Runs : Len(chan[w]) \in Nat
           /\ \A w \in Runs : \A i \in 1 .. Len(chan[w]) : chan[w][i] \in Runs
           /\ \A l \in Lanes : items[l] \in Seq(Runs)
           /\ \A l \in Lanes : Len(items[l]) \in Nat
           /\ \A l \in Lanes : \A i \in 1 .. Len(items[l]) : items[l][i] \in Runs
           /\ \A r \in Runs : LaneOf[r] \in Lanes /\ r # NoRun
           /\ \A l \in Lanes : InMap(l) => tx[l] \in Runs
BY QueueAssumption, LaneOfRun, ElementOfSeq, LenProperties DEF TypeOK, InMap

\* The parts of the invariant, for one worker and one lane.
LEMMA PartsAt ==
    ASSUME IInv
    PROVE  /\ TypeOK /\ OnePlace /\ Books
           /\ \A v \in Runs : TaskOf(v) /\ BufferOf(v)
           /\ \A k \in Lanes : LaneBooks(k)
           /\ \A k \in Lanes : InMap(k) => tx[k] \in Runs
           /\ raced = {} => \A k \in Lanes : LaneAgrees(k)
           /\ raced = {} => \A v \in Runs : TaskAgrees(v) /\ BufferAgrees(v)
BY Elements DEF IInv, Parts, Agreement

----------------------------------------------------------------------------
(* Steps that only touch the registry, the flags or an enqueue call *)

LEMMA RegistryKeeps ==
    ASSUME IInv,
           UNCHANGED <<tx, pending, items, current, wpc, task, chan, removed, raced,
                       ticket, arrivals>>,
           runs \subseteq runs', cancel \subseteq cancel',
           \A r \in Runs : phase'[r] = "queued" <=> phase[r] = "queued",
           \A r \in Runs : phase'[r] = "registered" => r \in runs'
    PROVE  Parts'
<1>1. ASSUME NEW v \in Runs PROVE TaskOf(v)' /\ BufferOf(v)'
  <2>1. TaskOf(v) /\ BufferOf(v) /\ task[v] \in Runs \union {NoRun} /\ NoRun \notin Runs
    BY PartsAt, QueueAssumption DEF TypeOK
  <2>2. \A i \in 1 .. Len(chan[v]) : chan[v][i] \in Runs
    BY Elements, PartsAt
  <2>3. TaskOf(v)'
    BY <2>1 DEF TaskOf, Busy
  <2>4. BufferOf(v)'
    BY <2>1, <2>2 DEF BufferOf, Busy
  <2> QED BY <2>3, <2>4
<1>2. OnePlace'
  <2>1. OnePlace
    BY PartsAt
  <2> QED BY <2>1 DEF OnePlace
<1>3. Books'
  <2>1. Books /\ removed \subseteq Runs
    BY PartsAt DEF TypeOK
  <2> QED BY <2>1 DEF Books
<1>4. ASSUME NEW k \in Lanes PROVE LaneBooks(k)'
  <2>1. LaneBooks(k) /\ \A i \in 1 .. Len(items[k]) : items[k][i] \in Runs
    BY PartsAt, Elements
  <2> QED BY <2>1 DEF LaneBooks, InMap
<1>5. ASSUME raced' = {} PROVE Agreement'
  <2>1. ASSUME NEW k \in Lanes PROVE LaneAgrees(k)'
    <3>1. LaneAgrees(k)
      BY <1>5, PartsAt
    <3> QED BY <3>1 DEF LaneAgrees, Contains, InMap
  <2>2. ASSUME NEW v \in Runs PROVE TaskAgrees(v)' /\ BufferAgrees(v)'
    <3>1. TaskAgrees(v) /\ BufferAgrees(v)
      BY <1>5, PartsAt
    <3> QED BY <3>1 DEF TaskAgrees, BufferAgrees, Owned, Contains, Busy
  <2> QED BY <2>1, <2>2 DEF Agreement
<1> QED BY <1>1, <1>2, <1>3, <1>4, <1>5 DEF Parts

----------------------------------------------------------------------------
(* Steps of a busy worker that keep its task *)

\* Worker w moves on with its task in hand; `current` may get the task, and
\* `runs` may lose it.
LEMMA MoveKeeps ==
    ASSUME IInv, NEW w \in Runs, wpc[w] \in Busy, wpc[w] # "release",
           UNCHANGED <<phase, cancel, tx, pending, items, task, chan, removed, raced,
                       ticket, arrivals>>,
           wpc'[w] \in Busy,
           \A v \in Runs \ {w} : wpc'[v] = wpc[v],
           runs' = runs \/ (runs' = runs \ {task[w]} /\ wpc'[w] = "release"),
           raced = {} /\ wpc'[w] \in {"mark", "running", "note"} => task[w] \notin removed,
           raced = {} /\ wpc'[w] \in {"running", "note"} => current'[LaneOf[w]] = task[w],
           raced = {} /\ current[LaneOf[w]] = task[w] =>
               wpc'[w] \in {"running", "note", "unregister", "release"},
           \/ current' = current
           \/ /\ wpc[w] = "mark" /\ wpc'[w] = "running"
              /\ \A k \in Lanes : current'[k] = IF k = LaneOf[w] /\ InMap(k) THEN task[w]
                                                ELSE current[k]
    PROVE  Parts'
<1>1. ASSUME NEW v \in Runs PROVE TaskOf(v)' /\ BufferOf(v)'
  <2>1. TaskOf(v) /\ BufferOf(v) /\ TaskOf(w) /\ OnePlace
    BY PartsAt
  <2>2. TaskOf(v)'
    BY <2>1 DEF TaskOf, OnePlace, Busy
  <2>3. BufferOf(v)'
    BY <2>1 DEF BufferOf, OnePlace, Busy
  <2> QED BY <2>2, <2>3
<1>2. OnePlace'
  <2>1. OnePlace
    BY PartsAt
  <2> QED BY <2>1 DEF OnePlace, Busy
<1>3. Books'
  <2>1. Books /\ TaskOf(w)
    BY PartsAt
  <2> QED BY <2>1 DEF Books, TaskOf
<1>4. ASSUME NEW k \in Lanes PROVE LaneBooks(k)'
  <2>1. LaneBooks(k) /\ (InMap(k) => tx[k] \in Runs)
    BY PartsAt
  <2> QED BY <2>1 DEF LaneBooks, InMap, Busy
<1>5. ASSUME raced' = {} PROVE Agreement'
  <2>1. raced = {} /\ TaskAgrees(w) /\ LaneOf[w] \in Lanes
    BY <1>5, PartsAt, LaneOfRun
  <2>2. ASSUME NEW k \in Lanes PROVE LaneAgrees(k)'
    <3>1. LaneAgrees(k) /\ LaneBooks(k) /\ (InMap(k) => tx[k] \in Runs)
      BY <2>1, PartsAt
    <3>2. current'[k] # NoRun =>
            /\ InMap(k)
            /\ current'[k] = task[tx[k]]
            /\ current'[k] \notin removed
            /\ wpc'[tx[k]] \in {"running", "note", "unregister", "release"}
      BY <2>1, <3>1 DEF LaneAgrees, LaneBooks, TaskAgrees, Owned, Busy
    <3> QED BY <3>1, <3>2 DEF LaneAgrees, Contains, InMap
  <2>3. ASSUME NEW v \in Runs PROVE TaskAgrees(v)' /\ BufferAgrees(v)'
    <3>1. TaskAgrees(v) /\ BufferAgrees(v) /\ LaneOf[v] \in Lanes
      BY <2>1, PartsAt, LaneOfRun
    <3>2. BufferAgrees(v)'
      BY <3>1 DEF BufferAgrees, Owned, Contains
    <3>3. v # w /\ wpc[v] \in {"running", "note"} => current'[LaneOf[v]] = current[LaneOf[v]]
      <4>1. v # w /\ wpc[v] \in {"running", "note"} /\ LaneOf[v] = LaneOf[w] /\ wpc[w] = "mark"
              => FALSE
        BY <2>1, <3>1 DEF TaskAgrees, Owned, Busy
      <4> QED BY <3>1, <4>1
    <3>4. TaskAgrees(v)'
      <4>1. CASE v = w
        BY <2>1, <3>1, <4>1 DEF TaskAgrees, Owned, Contains
      <4>2. CASE v # w
        BY <3>1, <3>3, <4>2 DEF TaskAgrees, Owned, Contains, Busy
      <4> QED BY <4>1, <4>2
    <3> QED BY <3>2, <3>4
  <2> QED BY <2>2, <2>3 DEF Agreement
<1> QED BY <1>1, <1>2, <1>3, <1>4, <1>5 DEF Parts

\* What EXCEPT does to the program counters.
LEMMA GotoDef ==
    ASSUME TypeOK, NEW w \in Runs, NEW pc, Goto(w, pc)
    PROVE  wpc'[w] = pc /\ \A v \in Runs \ {w} : wpc'[v] = wpc[v]
BY DEF TypeOK, Goto

LEMMA CheckSkipKeeps ==
    ASSUME IInv, NEW w \in Runs, CheckSkip(w)
    PROVE  Parts'
<1>1. TypeOK /\ Books /\ TaskOf(w) /\ (raced = {} => LaneAgrees(LaneOf[w]) /\ TaskAgrees(w))
  BY PartsAt, LaneOfRun
<1>2. /\ wpc[w] = "check"
      /\ UNCHANGED <<phase, runs, cancel, tx, pending, items, current, task, chan,
                     removed, raced, ticket, arrivals>>
      /\ wpc'[w] = IF Skips(task[w]) THEN "unregister" ELSE "mark"
      /\ \A v \in Runs \ {w} : wpc'[v] = wpc[v]
  BY <1>1, GotoDef DEF CheckSkip, laneVars, histVars
<1>3. wpc'[w] = "mark" => task[w] \notin removed
  BY <1>1, <1>2 DEF Books, TaskOf, Skips, Busy
<1>4. wpc'[w] \in {"unregister", "mark"}
  BY <1>2
<1>5. raced = {} => current[LaneOf[w]] # task[w]
  BY <1>1, <1>2 DEF LaneAgrees, TaskAgrees, TaskOf, Owned, Busy
<1> QED BY <1>2, <1>3, <1>4, <1>5, MoveKeeps DEF Busy

LEMMA MarkRunningKeeps ==
    ASSUME IInv, NEW w \in Runs, MarkRunning(w)
    PROVE  Parts'
<1>1. TypeOK /\ TaskOf(w) /\ (raced = {} => TaskAgrees(w)) /\ LaneOf[w] \in Lanes
  BY PartsAt, LaneOfRun
<1>2. /\ wpc[w] = "mark"
      /\ UNCHANGED <<phase, runs, cancel, tx, pending, items, task, chan,
                     removed, raced, ticket, arrivals>>
      /\ wpc'[w] = "running"
      /\ \A v \in Runs \ {w} : wpc'[v] = wpc[v]
      /\ \A k \in Lanes : current'[k] = IF k = LaneOf[w] /\ InMap(k) THEN task[w]
                                       ELSE current[k]
  <2>1. current' = IF InMap(LaneOf[w]) THEN [current EXCEPT ![LaneOf[w]] = task[w]]
                   ELSE current
    BY DEF MarkRunning
  <2>2. \A k \in Lanes : current'[k] = IF k = LaneOf[w] /\ InMap(k) THEN task[w]
                                      ELSE current[k]
    BY <1>1, <2>1 DEF TypeOK
  <2> QED BY <1>1, <2>2, GotoDef DEF MarkRunning, histVars
<1>3. raced = {} => task[w] \notin removed /\ InMap(LaneOf[w])
  BY <1>1, <1>2, QueueAssumption DEF TaskAgrees, Owned, InMap, Busy
<1> QED BY <1>1, <1>2, <1>3, MoveKeeps DEF Busy

LEMMA TaskEndsKeeps ==
    ASSUME IInv, NEW w \in Runs, TaskReturns(w) \/ TaskFails(w) \/ NoteLaneError(w)
    PROVE  Parts'
<1>1. TypeOK /\ (raced = {} => TaskAgrees(w))
  BY PartsAt
<1>2. /\ wpc[w] \in {"running", "note"}
      /\ UNCHANGED <<phase, runs, cancel, tx, pending, items, current, task, chan,
                     removed, raced, ticket, arrivals>>
      /\ wpc'[w] \in {"note", "unregister"}
      /\ \A v \in Runs \ {w} : wpc'[v] = wpc[v]
  BY <1>1, GotoDef DEF TaskReturns, TaskFails, NoteLaneError, laneVars, histVars
<1> QED BY <1>1, <1>2, MoveKeeps DEF TaskAgrees, Busy

LEMMA UnregisterKeeps ==
    ASSUME IInv, NEW w \in Runs, Unregister(w)
    PROVE  Parts'
<1>1. TypeOK
  BY PartsAt
<1>2. /\ wpc[w] = "unregister"
      /\ UNCHANGED <<phase, cancel, tx, pending, items, current, task, chan,
                     removed, raced, ticket, arrivals>>
      /\ runs' = runs \ {task[w]}
      /\ wpc'[w] = "release"
      /\ \A v \in Runs \ {w} : wpc'[v] = wpc[v]
  BY <1>1, GotoDef DEF Unregister, laneVars, histVars
<1> QED BY <1>2, MoveKeeps DEF Busy

LEMMA CallsKeep ==
    ASSUME IInv, NEW r \in Runs,
           Reject(r) \/ Register(r) \/ RequestCancel(r) \/ RemoveLookup(r) \/ RemoveRefuse(r)
    PROVE  Parts'
<1>1. TypeOK
  BY PartsAt
<1>2. \A q \in Runs : phase'[q] = "queued" <=> phase[q] = "queued"
  BY <1>1 DEF TypeOK, Reject, Register, RequestCancel, RemoveLookup, RemoveRefuse
<1>4. \A q \in Runs : phase'[q] = "registered" => q \in runs'
  BY <1>1, PartsAt
  DEF TypeOK, Books, Reject, Register, RequestCancel, RemoveLookup, RemoveRefuse
<1>3. /\ UNCHANGED <<tx, pending, items, current, wpc, task, chan, removed, raced,
                     ticket, arrivals>>
      /\ runs \subseteq runs' /\ cancel \subseteq cancel'
  BY DEF Reject, Register, RequestCancel, RemoveLookup, RemoveRefuse, laneVars, workVars, histVars
<1> QED BY <1>2, <1>3, <1>4, RegistryKeeps

----------------------------------------------------------------------------
(* Steps that move a run: Recv, Exit, Push *)

LEMMA ExitKeeps ==
    ASSUME IInv, NEW w \in Runs, Exit(w)
    PROVE  Parts'
<1>1. /\ wpc[w] = "recv" /\ chan[w] = <<>> /\ tx[LaneOf[w]] # w
      /\ UNCHANGED <<phase, runs, cancel, tx, pending, items, current, task, chan,
                     removed, raced, ticket, arrivals>>
      /\ wpc'[w] = "exit"
      /\ \A v \in Runs \ {w} : wpc'[v] = wpc[v]
  BY PartsAt, GotoDef DEF Exit, laneVars, histVars
<1>2. ASSUME NEW v \in Runs PROVE TaskOf(v)' /\ BufferOf(v)'
  <2>1. TaskOf(v) /\ BufferOf(v)
    BY PartsAt
  <2> QED BY <1>1, <2>1 DEF TaskOf, BufferOf, Busy
<1>3. OnePlace' /\ Books'
  <2>1. OnePlace /\ Books
    BY PartsAt
  <2> QED BY <1>1, <2>1 DEF OnePlace, Books, Busy
<1>4. ASSUME NEW k \in Lanes PROVE LaneBooks(k)'
  <2>1. LaneBooks(k) /\ (InMap(k) => tx[k] \in Runs)
    BY PartsAt
  <2> QED BY <1>1, <2>1 DEF LaneBooks, InMap
<1>5. ASSUME raced' = {} PROVE Agreement'
  <2>1. ASSUME NEW k \in Lanes PROVE LaneAgrees(k)'
    <3>1. LaneAgrees(k) /\ (InMap(k) => tx[k] \in Runs)
      BY <1>1, <1>5, PartsAt
    <3> QED BY <1>1, <3>1 DEF LaneAgrees, Contains, InMap
  <2>2. ASSUME NEW v \in Runs PROVE TaskAgrees(v)' /\ BufferAgrees(v)'
    <3>1. TaskAgrees(v) /\ BufferAgrees(v)
      BY <1>1, <1>5, PartsAt
    <3> QED BY <1>1, <3>1 DEF TaskAgrees, BufferAgrees, Owned, Contains, Busy
  <2> QED BY <2>1, <2>2 DEF Agreement
<1> QED BY <1>2, <1>3, <1>4, <1>5 DEF Parts

LEMMA RecvKeeps ==
    ASSUME IInv, NEW w \in Runs, Recv(w)
    PROVE  Parts'
<1>1. /\ wpc[w] = "recv"
      /\ UNCHANGED <<phase, runs, cancel, tx, pending, items, current,
                     removed, raced, ticket, arrivals>>
      /\ wpc'[w] = "check"
      /\ \A v \in Runs \ {w} : wpc'[v] = wpc[v]
  BY PartsAt, GotoDef DEF Recv, laneVars, histVars
<1>2. /\ Len(chan[w]) \in Nat \ {0}
      /\ task'[w] = chan[w][1]
      /\ Len(chan'[w]) = Len(chan[w]) - 1
      /\ \A i \in 1 .. Len(chan[w]) - 1 : chan'[w][i] = chan[w][i + 1]
      /\ \A v \in Runs \ {w} : task'[v] = task[v] /\ chan'[v] = chan[v]
  <2>1. TypeOK /\ chan[w] \in Seq(Runs) /\ chan[w] # <<>>
    BY PartsAt, Elements DEF Recv
  <2>2. /\ Len(chan[w]) \in Nat \ {0}
        /\ Head(chan[w]) = chan[w][1]
        /\ Len(Tail(chan[w])) = Len(chan[w]) - 1
        /\ \A i \in 1 .. Len(chan[w]) - 1 : Tail(chan[w])[i] = chan[w][i + 1]
    BY <2>1, HeadTailProperties, LenProperties, EmptySeq
  <2>3. chan'[w] = Tail(chan[w]) /\ task'[w] = Head(chan[w])
    BY <2>1 DEF Recv, TypeOK
  <2>4. \A v \in Runs \ {w} : task'[v] = task[v] /\ chan'[v] = chan[v]
    BY <2>1 DEF Recv, TypeOK
  <2> QED BY <2>2, <2>3, <2>4
<1>3. /\ \A i \in 1 .. Len(chan[w]) - 1 : i \in 1 .. Len(chan[w]) /\ i + 1 \in 1 .. Len(chan[w])
      /\ 1 \in 1 .. Len(chan[w])
      /\ \A i \in 1 .. Len(chan[w]) : i = 1 \/ i - 1 \in 1 .. Len(chan[w]) - 1
      /\ \A i \in 1 .. Len(chan[w]) - 1 : i + 1 # 1 /\ 1 < i + 1
      /\ \A i, j \in 1 .. Len(chan[w]) - 1 : i < j => i + 1 < j + 1
      /\ \A i \in 1 .. Len(chan[w]) : i - 1 + 1 = i
  BY <1>2
<1>4. /\ \A v \in Runs : \A i \in 1 .. Len(chan[v]) : chan[v][i] \in Runs
      /\ NoRun \notin Runs
      /\ TaskOf(w) /\ BufferOf(w) /\ OnePlace
      /\ task[w] = NoRun
  BY <1>1, PartsAt, Elements, QueueAssumption DEF TaskOf, Busy
<1>. DEFINE Back(v, i) == IF v = w THEN i + 1 ELSE i
<1>b. ASSUME NEW v \in Runs, NEW i \in 1 .. Len(chan'[v])
      PROVE  Back(v, i) \in 1 .. Len(chan[v]) /\ chan'[v][i] = chan[v][Back(v, i)]
  BY <1>2, <1>3, <1>b
<1>5. ASSUME NEW v \in Runs PROVE TaskOf(v)' /\ BufferOf(v)'
  <2>1. TaskOf(v) /\ BufferOf(v)
    BY PartsAt
  <2>2. CASE v # w
    BY <1>1, <1>2, <2>1, <2>2 DEF TaskOf, BufferOf, Busy
  <2>3. CASE v = w
    <3>1. TaskOf(w)'
      BY <1>1, <1>2, <1>3, <1>4 DEF TaskOf, BufferOf, Busy
    <3>2. ASSUME NEW i \in 1 .. Len(chan'[w])
          PROVE  /\ LaneOf[chan'[w][i]] = LaneOf[w]
                 /\ phase'[chan'[w][i]] = "queued"
                 /\ chan'[w][i] \in runs'
                 /\ ticket'[task'[w]] < ticket'[chan'[w][i]]
      BY <1>1, <1>2, <1>3, <1>4, <1>b, <3>2 DEF BufferOf
    <3>3. ASSUME NEW i \in 1 .. Len(chan'[w]), NEW j \in 1 .. Len(chan'[w]), i < j
          PROVE  ticket'[chan'[w][i]] < ticket'[chan'[w][j]]
      <4>1. /\ chan'[w][i] = chan[w][i + 1] /\ chan'[w][j] = chan[w][j + 1]
            /\ i + 1 \in 1 .. Len(chan[w]) /\ j + 1 \in 1 .. Len(chan[w])
        BY <1>b
      <4>2. i + 1 < j + 1
        BY <1>2, <3>3
      <4> QED BY <1>1, <1>4, <4>1, <4>2 DEF BufferOf
    <3>4. BufferOf(w)'
      BY <1>1, <3>2, <3>3 DEF BufferOf
    <3> QED BY <2>3, <3>1, <3>4
  <2> QED BY <2>2, <2>3
<1>6. OnePlace'
  <2>1. ASSUME NEW u \in Runs, NEW v \in Runs,
               wpc'[u] \in Busy, task'[u] = task'[v]
        PROVE  u = v
    <3>1. task[v] # chan[w][1] /\ task[u] # chan[w][1]
      BY <1>3, <1>4 DEF OnePlace
    <3>2. CASE u # w /\ v # w
      <4>1. wpc'[u] = wpc[u]
        BY <1>1, <3>2
      <4>2. task'[u] = task[u] /\ task'[v] = task[v]
        BY <1>2, <3>2
      <4>3. wpc[u] \in Busy /\ task[u] = task[v]
        BY <2>1, <4>1, <4>2
      <4> QED BY <1>4, <4>3 DEF OnePlace
    <3>3. CASE u = w /\ v # w
      BY <1>2, <2>1, <3>1, <3>3
    <3>4. CASE u # w /\ v = w
      BY <1>2, <2>1, <3>1, <3>4
    <3> QED BY <3>2, <3>3, <3>4
  <2>2. ASSUME NEW u \in Runs, NEW v \in Runs, NEW i \in 1 .. Len(chan'[v])
        PROVE  task'[u] # chan'[v][i]
    <3>0. \A k \in 1 .. Len(chan[v]) : task[u] # chan[v][k]
      BY <1>4 DEF OnePlace
    <3>1. CASE u # w /\ v # w
      BY <1>2, <2>2, <3>0, <3>1
    <3>2. CASE u # w /\ v = w
      <4>1. Back(v, i) \in 1 .. Len(chan[v]) /\ chan'[v][i] = chan[v][Back(v, i)]
        BY <1>b, <2>2
      <4> HIDE DEF Back
      <4> QED BY <1>2, <3>0, <3>2, <4>1
    <3>3. CASE u = w /\ v # w
      <4>1. chan[w][1] = chan[v][i] => w = v
        BY <1>2, <1>3, <1>4, <2>2, <3>3 DEF OnePlace
      <4> QED BY <1>2, <2>2, <3>3, <4>1
    <3>4. CASE u = w /\ v = w
      <4>1. ticket[chan[w][1]] < ticket[chan[w][i + 1]]
        BY <1>2, <1>3, <1>4, <2>2, <3>4 DEF BufferOf
      <4>2. ticket[chan[w][1]] \in Nat
        BY <1>3, <1>4, PartsAt DEF TypeOK
      <4> QED BY <1>2, <1>3, <2>2, <3>4, <4>1, <4>2
    <3> QED BY <3>1, <3>2, <3>3, <3>4
  <2>3. ASSUME NEW u \in Runs, NEW v \in Runs,
               NEW i \in 1 .. Len(chan'[u]), NEW j \in 1 .. Len(chan'[v]),
               chan'[u][i] = chan'[v][j]
        PROVE  u = v
    <3>1. /\ Back(u, i) \in 1 .. Len(chan[u]) /\ chan'[u][i] = chan[u][Back(u, i)]
          /\ Back(v, j) \in 1 .. Len(chan[v]) /\ chan'[v][j] = chan[v][Back(v, j)]
      BY <1>b, <2>3
    <3> HIDE DEF Back
    <3> QED BY <1>4, <2>3, <3>1 DEF OnePlace
  <2> QED BY <2>1, <2>2, <2>3 DEF OnePlace
<1>7. Books'
  BY <1>1, PartsAt DEF Books
<1>8. ASSUME NEW k \in Lanes PROVE LaneBooks(k)'
  <2>1. LaneBooks(k) /\ (InMap(k) => tx[k] \in Runs)
    BY PartsAt
  <2> QED BY <1>1, <2>1 DEF LaneBooks, InMap
<1>9. ASSUME raced' = {} PROVE Agreement'
  <2>1. ASSUME NEW k \in Lanes PROVE LaneAgrees(k)'
    <3>1. LaneAgrees(k) /\ (InMap(k) => tx[k] \in Runs)
      BY <1>1, <1>9, PartsAt
    <3>2. ASSUME NEW i \in 1 .. Len(items[k])
          PROVE  items[k][i] = task'[tx[k]] \/ Contains(chan'[tx[k]], items[k][i])
      <4>1. CASE tx[k] # w
        BY <1>2, <3>1, <3>2, <4>1 DEF LaneAgrees, InMap, Contains
      <4>2. CASE tx[k] = w
        <5>1. items[k][i] \in Runs
          BY PartsAt, Elements
        <5>2. PICK j \in 1 .. Len(chan[w]) : chan[w][j] = items[k][i]
          BY <1>4, <3>1, <3>2, <4>2, <5>1 DEF LaneAgrees, Contains
        <5>3. CASE j = 1
          BY <1>2, <4>2, <5>2, <5>3
        <5>4. CASE j # 1
          <6>1. chan'[w][j - 1] = items[k][i] /\ j - 1 \in 1 .. Len(chan'[w])
            BY <1>2, <1>3, <5>2, <5>4
          <6> QED BY <4>2, <6>1 DEF Contains
        <5> QED BY <5>3, <5>4
      <4> QED BY <4>1, <4>2
    <3>3. current[k] # NoRun => tx[k] # w
      BY <1>1, <3>1 DEF LaneAgrees
    <3> QED BY <1>1, <1>2, <3>1, <3>2, <3>3 DEF LaneAgrees, InMap
  <2>2. ASSUME NEW v \in Runs PROVE TaskAgrees(v)' /\ BufferAgrees(v)'
    <3>1. TaskAgrees(v) /\ BufferAgrees(v)
      BY <1>1, <1>9, PartsAt
    <3>2. CASE v # w
      BY <1>1, <1>2, <3>1, <3>2 DEF TaskAgrees, BufferAgrees, Owned, Contains, Busy
    <3>3. CASE v = w
      <4>1. TaskAgrees(w)'
        BY <1>1, <1>2, <1>3, <3>1, <3>3 DEF TaskAgrees, BufferAgrees, Owned, Contains, Busy
      <4>2. BufferAgrees(w)'
        BY <1>1, <1>b, <3>1, <3>3 DEF BufferAgrees, Owned, Contains
      <4> QED BY <3>3, <4>1, <4>2
    <3> QED BY <3>2, <3>3
  <2> QED BY <2>1, <2>2 DEF Agreement
<1> QED BY <1>5, <1>6, <1>7, <1>8, <1>9 DEF Parts

LEMMA PushKeeps ==
    ASSUME IInv, NEW r \in Runs, Push(r)
    PROVE  Parts'
<1> DEFINE l == LaneOf[r]
           w == IF InMap(l) THEN tx[l] ELSE r
           n == Len(items[l])
           m == Len(chan[w])
<1>1. /\ TypeOK /\ OnePlace /\ Books /\ LaneBooks(l) /\ TaskOf(r) /\ BufferOf(r)
      /\ l \in Lanes /\ w \in Runs
      /\ items[l] \in Seq(Runs) /\ chan[w] \in Seq(Runs) /\ n \in Nat /\ m \in Nat
  BY PartsAt, Elements
<1>2. /\ phase[r] = "registered"
      /\ UNCHANGED <<runs, cancel, current, task, removed, raced>>
      /\ phase' = [phase EXCEPT ![r] = "queued"]
      /\ tx' = [tx EXCEPT ![l] = w]
      /\ pending' = [pending EXCEPT ![l] = @ + 1]
      /\ items' = [items EXCEPT ![l] = Append(@, r)]
      /\ wpc' = IF InMap(l) THEN wpc ELSE [wpc EXCEPT ![r] = "recv"]
      /\ chan' = [chan EXCEPT ![w] = Append(@, r)]
      /\ ticket' = [ticket EXCEPT ![r] = arrivals[l]]
      /\ arrivals' = [arrivals EXCEPT ![l] = @ + 1]
  BY DEF Push
<1>3. /\ phase'[r] = "queued" /\ ticket'[r] = arrivals[l]
      /\ \A q \in Runs \ {r} : phase'[q] = phase[q] /\ ticket'[q] = ticket[q]
      /\ tx'[l] = w /\ pending'[l] = pending[l] + 1 /\ arrivals'[l] = arrivals[l] + 1
      /\ \A k \in Lanes \ {l} : /\ tx'[k] = tx[k] /\ pending'[k] = pending[k]
                               /\ items'[k] = items[k] /\ arrivals'[k] = arrivals[k]
      /\ wpc'[r] = IF InMap(l) THEN wpc[r] ELSE "recv"
      /\ \A v \in Runs \ {r} : wpc'[v] = wpc[v]
      /\ \A v \in Runs \ {w} : chan'[v] = chan[v]
      /\ arrivals[l] \in Nat
  BY <1>1, <1>2 DEF TypeOK
<1>4. /\ Len(items'[l]) = n + 1 /\ items'[l][n + 1] = r
      /\ \A i \in 1 .. n : items'[l][i] = items[l][i]
      /\ Len(chan'[w]) = m + 1 /\ chan'[w][m + 1] = r
      /\ \A i \in 1 .. m : chan'[w][i] = chan[w][i]
  <2>1. items'[l] = Append(items[l], r) /\ chan'[w] = Append(chan[w], r)
    BY <1>1, <1>2 DEF TypeOK
  <2> HIDE DEF l, w
  <2> QED BY <1>1, <2>1, AppendProperties
<1>5. /\ \A i \in 1 .. n + 1 : i \in 1 .. n \/ i = n + 1
      /\ \A i \in 1 .. m + 1 : i \in 1 .. m \/ i = m + 1
      /\ \A i \in 1 .. n : i \in 1 .. n + 1 /\ ~ (n + 1 < i)
      /\ \A i \in 1 .. m : i \in 1 .. m + 1 /\ ~ (m + 1 < i)
      /\ n + 1 \in 1 .. n + 1 /\ m + 1 \in 1 .. m + 1
      /\ ~ (n + 1 < n + 1) /\ ~ (m + 1 < m + 1)
  BY <1>1
\* r is new: no worker, lane or removal knows it.
<1>6. /\ wpc[r] = "none" /\ chan[r] = <<>> /\ task[r] = NoRun
      /\ \A v \in Runs : task[v] # r
      /\ \A v \in Runs : \A i \in 1 .. Len(chan[v]) : chan[v][i] # r
      /\ \A k \in Lanes : \A i \in 1 .. Len(items[k]) : items[k][i] # r
      /\ r \notin removed /\ r \in runs /\ r # NoRun
      /\ wpc'[w] \notin {"none", "exit"} /\ LaneOf[w] = l
  <2>1. wpc[r] = "none"
    BY <1>1, <1>2 DEF TaskOf
  <2>2. chan[r] = <<>> /\ task[r] = NoRun /\ r # NoRun
    BY <1>1, <2>1, QueueAssumption DEF TaskOf, BufferOf, Busy
  <2>3. ASSUME NEW v \in Runs PROVE task[v] # r
    BY <1>2, <2>2, PartsAt DEF TaskOf
  <2>4. ASSUME NEW v \in Runs, NEW i \in 1 .. Len(chan[v]) PROVE chan[v][i] # r
    BY <1>2, PartsAt DEF BufferOf
  <2>5. ASSUME NEW k \in Lanes, NEW i \in 1 .. Len(items[k]) PROVE items[k][i] # r
    BY <1>2, PartsAt DEF LaneBooks
  <2>6. r \notin removed /\ r \in runs
    BY <1>1, <1>2 DEF Books
  <2>7. wpc'[w] \notin {"none", "exit"} /\ LaneOf[w] = l
    BY <1>1, <1>3, <2>1 DEF LaneBooks
  <2> QED BY <2>1, <2>2, <2>3, <2>4, <2>5, <2>6, <2>7
<1>7. \A k \in Lanes : InMap(k) => tx[k] # r
  BY <1>6, PartsAt DEF LaneBooks
<1> HIDE DEF l, w, n, m
<1>8. ASSUME NEW v \in Runs PROVE TaskOf(v)'
  BY <1>2, <1>3, <1>6, PartsAt DEF TaskOf, Busy
<1>9. ASSUME NEW v \in Runs PROVE BufferOf(v)'
  <2>1. TaskOf(v) /\ BufferOf(v) /\ (wpc[v] \in Busy => task[v] \in Runs)
    BY PartsAt DEF TypeOK, TaskOf
  <2>2. CASE v # w
    <3>1. \A i \in 1 .. Len(chan[v]) : chan[v][i] \in Runs
      BY PartsAt, Elements
    <3> QED BY <1>2, <1>3, <1>6, <2>1, <2>2, <3>1 DEF BufferOf, Busy
  <2>3. CASE v = w
    <3>1. \A i \in 1 .. m : chan[w][i] \in Runs
      BY <1>1, PartsAt, Elements DEF m
    <3>2. \A i \in 1 .. m : ticket[chan[w][i]] < arrivals[l]
      BY <1>1, <1>6, <2>1, <2>3, <3>1 DEF BufferOf, Books, m
    <3>3. wpc[w] \in Busy => ticket[task[w]] < arrivals[l]
      BY <1>1, <1>6, <2>1, <2>3 DEF TaskOf, Books
    <3>a. \A i \in 1 .. m : ticket'[chan'[w][i]] = ticket[chan[w][i]]
      BY <1>1, <1>3, <1>4, <1>6, <3>1 DEF m
    <3>4. wpc'[w] \in Busy => wpc[w] \in Busy
      BY <1>1, <1>3 DEF Busy
    <3>5. ASSUME NEW i \in 1 .. m + 1
          PROVE  /\ LaneOf[chan'[w][i]] = LaneOf[w]
                 /\ phase'[chan'[w][i]] = "queued"
                 /\ chan'[w][i] \in runs'
                 /\ wpc'[w] \in Busy => ticket'[task'[w]] < ticket'[chan'[w][i]]
      <4>1. CASE i = m + 1
        BY <1>2, <1>3, <1>4, <1>6, <2>1, <2>3, <3>3, <3>4, <4>1 DEF l
      <4>2. CASE i \in 1 .. m
        BY <1>2, <1>3, <1>4, <1>6, <2>1, <2>3, <3>1, <3>4, <4>2 DEF BufferOf, m
      <4> QED BY <1>5, <4>1, <4>2
    <3>6. ASSUME NEW i \in 1 .. m + 1, NEW j \in 1 .. m + 1, i < j
          PROVE  ticket'[chan'[w][i]] < ticket'[chan'[w][j]]
      <4>1. i \in 1 .. m
        BY <1>5, <3>6
      <4>2. CASE j = m + 1
        BY <1>3, <1>4, <3>2, <3>a, <4>1, <4>2
      <4>3. CASE j \in 1 .. m
        <5>1. ticket[chan[w][i]] < ticket[chan[w][j]]
          BY <2>1, <2>3, <3>6, <4>1, <4>3 DEF BufferOf, m
        <5> QED BY <3>a, <4>1, <4>3, <5>1
      <4> QED BY <1>5, <4>2, <4>3
    <3> QED BY <1>4, <1>6, <2>3, <3>5, <3>6 DEF BufferOf
  <2> QED BY <2>2, <2>3
<1>10. OnePlace'
  <2>1. \A v \in Runs : \A i \in 1 .. Len(chan'[v]) :
          (v = w /\ chan'[v][i] = r) \/ (i \in 1 .. Len(chan[v]) /\ chan'[v][i] = chan[v][i])
    BY <1>3, <1>4, <1>5 DEF m
  <2>2. \A u, v \in Runs : wpc'[u] \in Busy /\ task'[u] = task'[v] => u = v
    BY <1>1, <1>2, <1>3, <1>6 DEF OnePlace, Busy
  <2>3. ASSUME NEW u \in Runs, NEW v \in Runs, NEW i \in 1 .. Len(chan'[v])
        PROVE  task'[u] # chan'[v][i]
    BY <1>1, <1>2, <1>6, <2>1, <2>3 DEF OnePlace
  <2>4. ASSUME NEW u \in Runs, NEW v \in Runs,
               NEW i \in 1 .. Len(chan'[u]), NEW j \in 1 .. Len(chan'[v]),
               chan'[u][i] = chan'[v][j]
        PROVE  u = v
    <3>1. CASE u = w /\ chan'[u][i] = r
      BY <1>6, <2>1, <2>4, <3>1
    <3>2. CASE i \in 1 .. Len(chan[u]) /\ chan'[u][i] = chan[u][i]
      <4>1. chan'[v][j] # r
        BY <1>6, <2>4, <3>2
      <4>2. j \in 1 .. Len(chan[v]) /\ chan'[v][j] = chan[v][j]
        BY <2>1, <4>1
      <4> QED BY <1>1, <2>4, <3>2, <4>2 DEF OnePlace
    <3> QED BY <2>1, <3>1, <3>2
  <2> QED BY <2>2, <2>3, <2>4 DEF OnePlace
<1>11. Books'
  <2>1. ASSUME NEW q \in Runs, phase'[q] = "queued" PROVE ticket'[q] < arrivals'[LaneOf[q]]
    <3>1. LaneOf[q] \in Lanes /\ ticket[q] \in Nat /\ arrivals[LaneOf[q]] \in Nat
      BY <1>1, LaneOfRun DEF TypeOK
    <3>2. CASE q = r
      BY <1>3, <3>1, <3>2 DEF l
    <3>3. CASE q # r
      <4>1. ticket[q] < arrivals[LaneOf[q]]
        BY <1>1, <1>3, <2>1, <3>3 DEF Books
      <4>2. CASE LaneOf[q] = l
        BY <1>3, <3>1, <3>3, <4>1, <4>2
      <4>3. CASE LaneOf[q] # l
        BY <1>3, <3>1, <3>3, <4>1, <4>3
      <4> QED BY <4>2, <4>3
    <3> QED BY <3>2, <3>3
  <2>2. /\ removed' \subseteq cancel'
        /\ \A q \in removed' : phase'[q] = "queued"
        /\ \A q \in Runs : phase'[q] = "registered" => q \in runs'
    BY <1>1, <1>2, <1>3, <1>6 DEF Books, TypeOK
  <2> QED BY <2>1, <2>2 DEF Books
<1>12. ASSUME NEW k \in Lanes PROVE LaneBooks(k)'
  <2>1. LaneBooks(k) /\ (InMap(k) => tx[k] \in Runs)
        /\ \A i \in 1 .. Len(items[k]) : items[k][i] \in Runs
    BY PartsAt, Elements
  <2>2. CASE k # l
    BY <1>2, <1>3, <1>6, <1>7, <2>1, <2>2 DEF LaneBooks, InMap
  <2>3. CASE k = l
    <3>1. \A i \in 1 .. n : ticket[items[l][i]] < arrivals[l]
      BY <1>1, <2>1, <2>3 DEF LaneBooks, Books, n
    <3>a. \A i \in 1 .. n : ticket'[items'[l][i]] = ticket[items[l][i]]
      BY <1>1, <1>3, <1>4, <1>6, <2>1, <2>3 DEF n
    <3>2. ASSUME NEW i \in 1 .. n + 1
          PROVE  /\ LaneOf[items'[l][i]] = l
                 /\ phase'[items'[l][i]] = "queued"
                 /\ items'[l][i] \notin removed'
      <4>1. CASE i = n + 1
        BY <1>2, <1>3, <1>4, <1>6, <4>1 DEF l
      <4>2. CASE i \in 1 .. n
        BY <1>1, <1>2, <1>3, <1>4, <1>6, <2>1, <2>3, <4>2 DEF LaneBooks, n
      <4> QED BY <1>5, <4>1, <4>2
    <3>3. ASSUME NEW i \in 1 .. n + 1, NEW j \in 1 .. n + 1, i < j
          PROVE  ticket'[items'[l][i]] < ticket'[items'[l][j]]
      <4>1. i \in 1 .. n
        BY <1>5, <3>3
      <4>2. CASE j = n + 1
        BY <1>3, <1>4, <3>1, <3>a, <4>1, <4>2
      <4>3. CASE j \in 1 .. n
        <5>1. ticket[items[l][i]] < ticket[items[l][j]]
          BY <2>1, <2>3, <3>3, <4>1, <4>3 DEF LaneBooks, n
        <5> QED BY <3>a, <4>1, <4>3, <5>1
      <4> QED BY <1>5, <4>2, <4>3
    <3>4. /\ \A i \in 1 .. n + 1 : /\ LaneOf[items'[l][i]] = l
                                  /\ phase'[items'[l][i]] = "queued"
                                  /\ items'[l][i] \notin removed'
          /\ \A i, j \in 1 .. n + 1 : i < j => ticket'[items'[l][i]] < ticket'[items'[l][j]]
      BY <3>2, <3>3
    <3> QED BY <1>3, <1>4, <1>6, <2>3, <3>4 DEF LaneBooks
  <2> QED BY <2>2, <2>3
<1>13. ASSUME raced' = {} PROVE Agreement'
  <2>0. raced = {}
    BY <1>2, <1>13
  <2>1. ASSUME NEW k \in Lanes PROVE LaneAgrees(k)'
    <3>1. LaneAgrees(k) /\ (InMap(k) => tx[k] \in Runs) /\ LaneBooks(k)
      BY <2>0, PartsAt
    <3>2. CASE k # l
      <4>1. InMap(k) => tx[k] # w
        BY <1>6, <3>1, <3>2 DEF LaneBooks
      <4> QED BY <1>2, <1>3, <1>7, <3>1, <3>2, <4>1 DEF LaneAgrees, InMap, Contains
    <3>3. CASE k = l
      <4>1. pending'[l] = Len(items'[l]) /\ items'[l] # <<>> /\ w # NoRun
        BY <1>1, <1>3, <1>4, <3>1, <3>3, QueueAssumption DEF LaneAgrees, n
      <4>2. ASSUME NEW i \in 1 .. n + 1
            PROVE  items'[l][i] = task'[w] \/ Contains(chan'[w], items'[l][i])
        <5>1. CASE i = n + 1
          BY <1>4, <1>5, <5>1 DEF Contains
        <5>2. CASE i \in 1 .. n
          <6>1. InMap(l) /\ tx[l] = w
            <7>1. n # 0
              BY <1>1, <5>2
            <7>2. InMap(l)
              BY <1>1, <3>1, <3>3, <7>1, EmptySeq DEF LaneAgrees, n
            <7> QED BY <7>2 DEF w
          <6>2. items[l][i] = task[w] \/ Contains(chan[w], items[l][i])
            BY <3>1, <3>3, <5>2, <6>1 DEF LaneAgrees, n
          <6>3. Contains(chan[w], items[l][i]) => Contains(chan'[w], items[l][i])
            BY <1>4, <1>5 DEF Contains, m
          <6> QED BY <1>2, <1>4, <5>2, <6>2, <6>3
        <5> QED BY <1>5, <5>1, <5>2
      <4>3. current[l] # NoRun => InMap(l) /\ tx[l] = w /\ wpc'[w] = wpc[w]
        BY <1>3, <1>6, <1>7, <3>1, <3>3 DEF LaneAgrees, w
      <4>4. \A i \in 1 .. Len(items'[l]) :
                items'[l][i] = task'[w] \/ Contains(chan'[w], items'[l][i])
        BY <1>4, <4>2
      <4>5. current[l] # NoRun =>
              /\ current[l] = task[w]
              /\ current[l] \notin removed
              /\ wpc'[w] \in {"running", "note", "unregister", "release"}
        BY <3>1, <3>3, <4>3 DEF LaneAgrees
      <4> QED BY <1>2, <1>3, <3>3, <4>1, <4>4, <4>5 DEF LaneAgrees, InMap
    <3> QED BY <3>2, <3>3
  <2>2. ASSUME NEW v \in Runs PROVE TaskAgrees(v)' /\ BufferAgrees(v)'
    <3>1. TaskAgrees(v) /\ BufferAgrees(v) /\ LaneOf[v] \in Lanes
      BY <2>0, PartsAt, LaneOfRun
    <3>2. ASSUME NEW q, Owned(v, q)
          PROVE  tx'[LaneOf[v]] = v /\ Contains(items'[LaneOf[v]], q)
      <4>1. CASE LaneOf[v] # l
        BY <1>3, <3>1, <3>2, <4>1 DEF Owned
      <4>2. CASE LaneOf[v] = l
        <5>1. tx[l] = v /\ w = v
          BY <3>2, <4>2, QueueAssumption DEF Owned, w, InMap
        <5>2. Contains(items'[l], q)
          BY <1>4, <1>5, <3>2, <4>2 DEF Owned, Contains, n
        <5> QED BY <1>3, <4>2, <5>1, <5>2
      <4> QED BY <4>1, <4>2
    <3>3. TaskAgrees(v)'
      BY <1>2, <1>3, <1>6, <3>1, <3>2 DEF TaskAgrees, Owned, Busy
    <3>4. ASSUME NEW i \in 1 .. Len(chan'[v]), chan'[v][i] \notin removed'
          PROVE  tx'[LaneOf[v]] = v /\ Contains(items'[LaneOf[v]], chan'[v][i])
      <4>1. CASE i \in 1 .. Len(chan[v]) /\ chan'[v][i] = chan[v][i]
        <5> DEFINE q == chan[v][i]
        <5>1. Owned(v, q)
          BY <1>2, <3>1, <3>4, <4>1 DEF BufferAgrees
        <5> HIDE DEF q
        <5>2. tx'[LaneOf[v]] = v /\ Contains(items'[LaneOf[v]], q)
          BY <3>2, <5>1 DEF Owned
        <5> QED BY <4>1, <5>2 DEF q
      <4>2. CASE v = w /\ chan'[v][i] = r
        <5>1. tx'[LaneOf[v]] = v /\ LaneOf[v] = l
          BY <1>3, <1>6, <4>2
        <5>2. Contains(items'[l], r)
          BY <1>4, <1>5 DEF Contains
        <5> QED BY <4>2, <5>1, <5>2
      <4>3. CASE v # w
        BY <1>3, <4>1, <4>3
      <4>4. CASE v = w
        BY <1>4, <1>5, <4>1, <4>2, <4>4 DEF m
      <4> QED BY <4>3, <4>4
    <3> QED BY <3>3, <3>4 DEF BufferAgrees, Owned
  <2> QED BY <2>1, <2>2 DEF Agreement
<1> QED BY <1>8, <1>9, <1>10, <1>11, <1>12, <1>13 DEF Parts

----------------------------------------------------------------------------
(* Steps that take an item out of a lane: Release, RemoveAccept *)

LEMMA SetLaneAt ==
    ASSUME TypeOK, NEW l \in Lanes, NEW p, NEW q, NEW c, SetLane(l, p, q, c)
    PROVE  /\ \A k \in Lanes \ {l} : /\ tx'[k] = tx[k] /\ pending'[k] = pending[k]
                                  /\ items'[k] = items[k] /\ current'[k] = current[k]
           /\ p = 0 => /\ tx'[l] = NoRun /\ pending'[l] = 0
                       /\ items'[l] = <<>> /\ current'[l] = NoRun
           /\ p # 0 => /\ tx'[l] = tx[l] /\ pending'[l] = p
                       /\ items'[l] = q /\ current'[l] = c
BY DEF TypeOK, SetLane

\* The books of lane l stay right when the item at `cut` (or none, when `cut`
\* is past the end) leaves its items, or all of them do.
LEMMA CutKeepsBooks ==
    ASSUME IInv, NEW l \in Lanes, NEW cut \in Nat,
           UNCHANGED <<phase, ticket>>,
           tx'[l] \in {tx[l], NoRun},
           \A v \in Runs : wpc[v] \notin {"none", "exit"} => wpc'[v] \notin {"none", "exit"},
           Len(items'[l]) \in Nat, Len(items'[l]) <= Len(items[l]),
           \A i \in 1 .. Len(items'[l]) :
              items'[l][i] = IF i < cut THEN items[l][i] ELSE items[l][i + 1],
           cut <= Len(items'[l]) => Len(items'[l]) < Len(items[l]),
           \A i \in 1 .. Len(items'[l]) : items'[l][i] \notin removed'
    PROVE  LaneBooks(l)'
<1> DEFINE Up(i) == IF i < cut THEN i ELSE i + 1
           n == Len(items'[l])
<1>1. LaneBooks(l) /\ (InMap(l) => tx[l] \in Runs) /\ Len(items[l]) \in Nat
  BY PartsAt, Elements
<1>2. ASSUME NEW i \in 1 .. n
      PROVE  Up(i) \in 1 .. Len(items[l]) /\ items'[l][i] = items[l][Up(i)]
  BY <1>1, <1>2
<1>3. ASSUME NEW i \in 1 .. n, NEW j \in 1 .. n, i < j
      PROVE  Up(i) < Up(j)
  BY <1>3
<1> HIDE DEF Up, n
<1>4. \A i \in 1 .. n : /\ LaneOf[items'[l][i]] = l
                       /\ phase'[items'[l][i]] = "queued"
                       /\ items'[l][i] \notin removed'
  BY <1>1, <1>2 DEF LaneBooks, n
<1>5. \A i, j \in 1 .. n : i < j => ticket'[items'[l][i]] < ticket'[items'[l][j]]
  BY <1>1, <1>2, <1>3 DEF LaneBooks
<1>6. tx'[l] # NoRun => LaneOf[tx'[l]] = l /\ wpc'[tx'[l]] \notin {"none", "exit"}
  BY <1>1 DEF LaneBooks, InMap
<1> QED BY <1>4, <1>5, <1>6 DEF LaneBooks, InMap, n

LEMMA ReleaseKeeps ==
    ASSUME IInv, NEW w \in Runs, Release(w)
    PROVE  Parts'
<1> DEFINE l == LaneOf[w]
           r == task[w]
           atFront == items[l] # <<>> /\ Head(items[l]) = r
           p == IF current[l] = r \/ atFront
                THEN SaturatingPred(pending[l]) ELSE pending[l]
           q == IF atFront THEN Tail(items[l]) ELSE items[l]
           c == IF current[l] = r THEN NoRun ELSE current[l]
           cut == IF atFront THEN 1 ELSE Len(items[l]) + 1
<1>1. /\ TypeOK /\ OnePlace /\ Books /\ TaskOf(w) /\ l \in Lanes
      /\ items[l] \in Seq(Runs) /\ Len(items[l]) \in Nat /\ pending[l] \in Nat
  BY PartsAt, Elements DEF TypeOK
<1>2. /\ wpc[w] = "release" /\ wpc'[w] = "recv"
      /\ \A v \in Runs \ {w} : wpc'[v] = wpc[v]
      /\ task'[w] = NoRun
      /\ \A v \in Runs \ {w} : task'[v] = task[v]
      /\ UNCHANGED <<phase, runs, cancel, chan, removed, raced, ticket, arrivals>>
  BY <1>1, GotoDef DEF Release, TypeOK, histVars
<1>3. r \in Runs /\ NoRun \notin Runs /\ LaneOf[r] = l /\ phase[r] = "queued"
  BY <1>1, <1>2, QueueAssumption DEF TaskOf, TypeOK, Busy
<1>4. /\ \A k \in Lanes \ {l} : /\ tx'[k] = tx[k] /\ pending'[k] = pending[k]
                               /\ items'[k] = items[k] /\ current'[k] = current[k]
      /\ ~ InMap(l) => UNCHANGED <<tx, pending, items, current>>
      /\ InMap(l) /\ p = 0 => /\ tx'[l] = NoRun /\ pending'[l] = 0
                              /\ items'[l] = <<>> /\ current'[l] = NoRun
      /\ InMap(l) /\ p # 0 => /\ tx'[l] = tx[l] /\ pending'[l] = p
                              /\ items'[l] = q /\ current'[l] = c
  <2>1. CASE InMap(l)
    <3>1. SetLane(l, p, q, c)
      BY <2>1 DEF Release
    <3> HIDE DEF p, q, c, l
    <3> QED BY <1>1, <2>1, <3>1, SetLaneAt
  <2>2. CASE ~ InMap(l)
    BY <2>2 DEF Release, laneVars
  <2> QED BY <2>1, <2>2
<1>5. /\ items[l] # <<>> => /\ Len(items[l]) # 0
                            /\ Head(items[l]) = items[l][1]
                            /\ Len(Tail(items[l])) = Len(items[l]) - 1
                            /\ \A i \in 1 .. Len(items[l]) - 1 :
                                  Tail(items[l])[i] = items[l][i + 1]
      /\ Len(<<>>) = 0
      /\ items[l] = <<>> <=> Len(items[l]) = 0
  BY <1>1, HeadTailProperties, EmptySeq
<1> HIDE DEF l, r, p, q, c
<1>6. ASSUME NEW v \in Runs PROVE TaskOf(v)' /\ BufferOf(v)'
  <2>1. TaskOf(v) /\ BufferOf(v)
    BY PartsAt
  <2> QED BY <1>2, <2>1 DEF TaskOf, BufferOf, Busy
<1>7. OnePlace'
  <2>1. \A v \in Runs : \A i \in 1 .. Len(chan[v]) : chan[v][i] \in Runs
    BY PartsAt, Elements
  <2>2. ASSUME NEW u \in Runs, NEW v \in Runs, wpc'[u] \in Busy, task'[u] = task'[v]
        PROVE  u = v
    <3>1. u # w /\ task[u] # NoRun
      BY <1>2, <2>2, PartsAt DEF TaskOf, Busy
    <3> QED BY <1>1, <1>2, <2>2, <3>1 DEF OnePlace
  <2>3. \A u, v \in Runs : \A i \in 1 .. Len(chan[v]) : task'[u] # chan[v][i]
    BY <1>1, <1>2, <1>3, <2>1 DEF OnePlace
  <2> QED BY <1>1, <1>2, <2>2, <2>3 DEF OnePlace
<1>8. Books'
  BY <1>1, <1>2 DEF Books
<1>9. ASSUME NEW k \in Lanes PROVE LaneBooks(k)'
  <2>1. LaneBooks(k) /\ (InMap(k) => tx[k] \in Runs)
    BY PartsAt
  <2>2. CASE k # l \/ ~ InMap(l)
    BY <1>2, <1>4, <2>1, <2>2 DEF LaneBooks, InMap
  <2>3. CASE k = l /\ InMap(l)
    <3>1. cut \in Nat
      BY <1>1
    <3>2. CASE p = 0
      <4>1. items'[l] = <<>> /\ tx'[l] = NoRun /\ Len(items'[l]) = 0
        BY <1>4, <1>5, <2>3, <3>2
      <4> QED BY <2>3, <4>1 DEF LaneBooks, InMap
    <3>3. CASE p # 0
      <4>1. items'[l] = q /\ tx'[l] = tx[l]
        BY <1>4, <2>3, <3>3
      <4>2. CASE atFront
        <5>1. q = Tail(items[l])
          BY <4>2 DEF q
        <5>2. /\ Len(items'[l]) = Len(items[l]) - 1
              /\ \A i \in 1 .. Len(items'[l]) : items'[l][i] = items[l][i + 1]
              /\ \A i \in 1 .. Len(items'[l]) : i + 1 \in 1 .. Len(items[l]) /\ ~ (i < 1)
              /\ Len(items'[l]) \in Nat /\ Len(items'[l]) < Len(items[l])
          BY <1>1, <1>5, <4>1, <4>2, <5>1
        <5>3. \A i \in 1 .. Len(items'[l]) : items'[l][i] \notin removed'
          BY <1>2, <2>1, <2>3, <5>2 DEF LaneBooks
        <5>4. Len(items'[l]) <= Len(items[l])
          BY <1>1, <5>2
        <5>5. \A v \in Runs : wpc[v] \notin {"none", "exit"} => wpc'[v] \notin {"none", "exit"}
          BY <1>2
        <5>6. LaneBooks(l)'
          BY <1>1, <1>2, <4>1, <5>2, <5>3, <5>4, <5>5, CutKeepsBooks
        <5> QED BY <2>3, <5>6
      <4>3. CASE ~ atFront
        <5>1. items'[l] = items[l]
          BY <4>1, <4>3 DEF q
        <5> QED BY <1>2, <2>1, <2>3, <4>1, <5>1 DEF LaneBooks, InMap
      <4> QED BY <4>2, <4>3
    <3> QED BY <3>2, <3>3
  <2> QED BY <2>2, <2>3
<1>10. ASSUME raced' = {} PROVE Agreement'
  <2>0. /\ raced = {} /\ LaneAgrees(l) /\ LaneBooks(l) /\ TaskAgrees(w)
        /\ InMap(l) => tx[l] \in Runs
    BY <1>1, <1>2, <1>10, PartsAt
  <2>a. LaneOf[w] = l /\ task[w] = r
    BY DEF l, r
  \* Every item but r is still buffered for the lane's worker.
  <2>b. ASSUME NEW i \in 1 .. Len(items[l]), items[l][i] # r
        PROVE  items[l][i] = task'[tx[l]] \/ Contains(chan[tx[l]], items[l][i])
    <3>1. InMap(l)
      BY <1>1, <1>5, <2>0, <2>b DEF LaneAgrees
    <3> QED BY <1>2, <2>0, <2>a, <2>b, <3>1 DEF LaneAgrees
  <2>1. CASE r \notin removed
    <3>1. tx[l] = w /\ InMap(l) /\ Contains(items[l], r)
      BY <1>2, <1>3, <2>0, <2>1, <2>a DEF TaskAgrees, Owned, Busy, InMap
    <3>2. PICK j \in 1 .. Len(items[l]) : items[l][j] = r
      BY <3>1 DEF Contains
    <3>3. j = 1
      <4>1. SUFFICES ASSUME j # 1 PROVE FALSE
        OBVIOUS
      <4>2. 1 \in 1 .. Len(items[l]) /\ 1 < j
        BY <1>1, <3>2, <4>1
      <4>3. ticket[items[l][1]] < ticket[r]
        BY <2>0, <3>2, <4>2 DEF LaneBooks
      <4>4. items[l][1] \in Runs /\ ticket[items[l][1]] \in Nat /\ ticket[r] \in Nat
        BY <1>1, <1>3, <4>2, PartsAt, Elements DEF TypeOK
      <4>5. items[l][1] # r
        BY <4>3, <4>4
      <4>6. PICK i \in 1 .. Len(chan[w]) : chan[w][i] = items[l][1]
        BY <2>0, <2>a, <3>1, <4>2, <4>5 DEF LaneAgrees, Contains
      <4>7. ticket[r] < ticket[items[l][1]]
        BY <1>2, <2>a, <4>6, PartsAt DEF BufferOf, Busy
      <4> QED BY <4>3, <4>4, <4>7
    <3>4. /\ atFront /\ q = Tail(items[l]) /\ p = Len(items[l]) - 1
          /\ Len(items[l]) # 0 /\ p \in Nat
      <4>1. atFront
        BY <1>1, <1>5, <3>2, <3>3
      <4>2. pending[l] = Len(items[l])
        BY <2>0 DEF LaneAgrees
      <4>3. Len(items[l]) # 0
        BY <1>5, <4>1
      <4> QED BY <1>1, <4>1, <4>2, <4>3 DEF p, q, SaturatingPred
    <3>5. c = NoRun
      BY <2>0, <2>a, <3>1 DEF LaneAgrees, c
    <3>6. /\ pending'[l] = p /\ current'[l] = NoRun
          /\ Len(items'[l]) = Len(items[l]) - 1
          /\ \A i \in 1 .. Len(items'[l]) : items'[l][i] = items[l][i + 1]
          /\ tx'[l] = IF p = 0 THEN NoRun ELSE w
      <4>1. CASE p = 0
        BY <1>1, <1>4, <1>5, <3>1, <3>4, <4>1
      <4>2. CASE p # 0
        BY <1>1, <1>4, <1>5, <3>1, <3>4, <3>5, <4>2
      <4> QED BY <4>1, <4>2
    <3>7. ASSUME NEW i \in 1 .. Len(items[l]), i # 1 PROVE items[l][i] # r
      <4>1. 1 \in 1 .. Len(items[l]) /\ 1 < i
        BY <1>1, <3>7
      <4>2. ticket[r] < ticket[items[l][i]]
        BY <2>0, <3>2, <3>3, <3>7, <4>1 DEF LaneBooks
      <4>3. ticket[r] \in Nat
        BY <1>1, <1>3 DEF TypeOK
      <4> QED BY <4>2, <4>3
    <3>8. ASSUME NEW k \in Lanes PROVE LaneAgrees(k)'
      <4>1. LaneAgrees(k) /\ LaneBooks(k) /\ (InMap(k) => tx[k] \in Runs)
        BY <2>0, PartsAt
      <4>2. CASE k # l
        <5>1. InMap(k) => tx[k] # w
          BY <2>a, <4>1, <4>2 DEF LaneBooks
        <5> QED BY <1>2, <1>4, <4>1, <4>2, <5>1 DEF LaneAgrees, InMap, Contains
      <4>3. CASE k = l
        <5>1. ASSUME NEW i \in 1 .. Len(items'[l])
              PROVE  Contains(chan'[tx'[l]], items'[l][i])
          <6>1. i + 1 \in 1 .. Len(items[l]) /\ i + 1 # 1 /\ p # 0
            BY <1>1, <3>4, <3>6
          <6>2. items[l][i + 1] # NoRun
            BY <1>3, <6>1, PartsAt, Elements
          <6> QED BY <1>2, <2>b, <3>1, <3>6, <3>7, <6>1, <6>2
        <5>2. items'[l] # <<>> <=> p # 0
          <6>1. CASE p = 0
            BY <1>4, <3>1, <6>1
          <6>2. CASE p # 0
            BY <1>1, <1>5, <3>4, <3>6, <6>2
          <6> QED BY <6>1, <6>2
        <5>3. w # NoRun
          BY <1>3
        <5> QED BY <3>4, <3>6, <4>3, <5>1, <5>2, <5>3 DEF LaneAgrees, InMap
      <4> QED BY <4>2, <4>3
    <3>9. ASSUME NEW v \in Runs PROVE TaskAgrees(v)' /\ BufferAgrees(v)'
      <4>1. TaskAgrees(v) /\ BufferAgrees(v) /\ LaneOf[v] \in Lanes
        BY <2>0, PartsAt, LaneOfRun
      <4>2. CASE LaneOf[v] # l
        BY <1>2, <1>4, <2>a, <4>1, <4>2 DEF TaskAgrees, BufferAgrees, Owned, Contains, Busy
      <4>3. CASE LaneOf[v] = l /\ v # w
        <5>1. ~ (wpc[v] \in Busy /\ task[v] \notin removed)
          BY <3>1, <4>1, <4>3 DEF TaskAgrees, Owned
        <5>2. \A i \in 1 .. Len(chan[v]) : chan[v][i] \in removed
          BY <3>1, <4>1, <4>3 DEF BufferAgrees, Owned
        <5> QED BY <1>2, <4>1, <4>3, <5>1, <5>2 DEF TaskAgrees, BufferAgrees, Busy
      <4>4. CASE v = w
        <5>1. ASSUME NEW i \in 1 .. Len(chan[w]), chan[w][i] \notin removed
              PROVE  tx'[l] = w /\ Contains(items'[l], chan[w][i])
          <6>1. PICK h \in 1 .. Len(items[l]) : items[l][h] = chan[w][i]
            BY <2>a, <4>1, <4>4, <5>1 DEF BufferAgrees, Owned, Contains
          <6>2. chan[w][i] # r
            BY <1>1, <2>a DEF OnePlace
          <6>3. h # 1
            BY <3>2, <3>3, <6>1, <6>2
          <6>4. h - 1 \in 1 .. Len(items'[l]) /\ h - 1 + 1 = h /\ p # 0
            BY <1>1, <3>4, <3>6, <6>1, <6>3
          <6>5. items'[l][h - 1] = chan[w][i]
            BY <3>6, <6>1, <6>4
          <6> QED BY <3>6, <6>4, <6>5 DEF Contains
        <5> QED BY <1>2, <2>a, <4>4, <5>1 DEF TaskAgrees, BufferAgrees, Owned, Busy
      <4> QED BY <4>2, <4>3, <4>4
    <3> QED BY <3>8, <3>9 DEF Agreement
  <2>2. CASE r \in removed
    <3>1. current[l] # r /\ ~ atFront
      <4>1. current[l] # r
        BY <1>3, <2>0, <2>2 DEF LaneAgrees
      <4>2. ASSUME atFront PROVE FALSE
        <5>1. 1 \in 1 .. Len(items[l]) /\ items[l][1] = r
          BY <1>1, <1>5, <4>2
        <5> QED BY <2>0, <2>2, <5>1 DEF LaneBooks
      <4> QED BY <4>1, <4>2
    <3>2. p = pending[l] /\ q = items[l] /\ c = current[l]
      BY <3>1 DEF p, q, c
    <3>3. InMap(l) => p # 0
      BY <1>5, <2>0, <3>2 DEF LaneAgrees
    <3>4. /\ tx'[l] = tx[l] /\ pending'[l] = pending[l]
          /\ items'[l] = items[l] /\ current'[l] = current[l]
      BY <1>4, <3>2, <3>3
    <3>5. ASSUME NEW i \in 1 .. Len(items[l]) PROVE items[l][i] # r
      BY <2>0, <2>2 DEF LaneBooks
    <3>6. current[l] # NoRun => tx[l] # w
      BY <2>0, <2>2, <2>a DEF LaneAgrees
    <3>7. ASSUME NEW k \in Lanes PROVE LaneAgrees(k)'
      <4>1. LaneAgrees(k) /\ LaneBooks(k) /\ (InMap(k) => tx[k] \in Runs)
        BY <2>0, PartsAt
      <4>2. CASE k # l
        <5>1. InMap(k) => tx[k] # w
          BY <2>a, <4>1, <4>2 DEF LaneBooks
        <5> QED BY <1>2, <1>4, <4>1, <4>2, <5>1 DEF LaneAgrees, InMap, Contains
      <4>3. CASE k = l
        BY <1>2, <2>b, <3>4, <3>5, <3>6, <4>1, <4>3 DEF LaneAgrees, InMap
      <4> QED BY <4>2, <4>3
    <3>8. ASSUME NEW v \in Runs PROVE TaskAgrees(v)' /\ BufferAgrees(v)'
      <4>1. TaskAgrees(v) /\ BufferAgrees(v) /\ LaneOf[v] \in Lanes
        BY <2>0, PartsAt, LaneOfRun
      <4>2. tx'[LaneOf[v]] = tx[LaneOf[v]] /\ items'[LaneOf[v]] = items[LaneOf[v]]
            /\ current'[LaneOf[v]] = current[LaneOf[v]]
        BY <1>4, <3>4, <4>1
      <4> QED BY <1>2, <4>1, <4>2 DEF TaskAgrees, BufferAgrees, Owned, Contains, Busy
    <3> QED BY <3>7, <3>8 DEF Agreement
  <2> QED BY <2>1, <2>2
<1> QED BY <1>6, <1>7, <1>8, <1>9, <1>10 DEF Parts

LEMMA RemoveAcceptKeeps ==
    ASSUME IInv, NEW r \in Runs, RemoveAccept(r)
    PROVE  Parts'
<1> DEFINE l == LaneOf[r]
           cut == CHOOSE k \in 1 .. Len(items[l]) : items[l][k] = r
           p == SaturatingPred(pending[l])
           q == RemoveAt(items[l], cut)
           n == Len(items[l])
<1>1. /\ TypeOK /\ OnePlace /\ Books /\ LaneBooks(l) /\ l \in Lanes
      /\ items[l] \in Seq(Runs) /\ n \in Nat /\ pending[l] \in Nat
      /\ InMap(l) => tx[l] \in Runs
  BY PartsAt, Elements DEF TypeOK
<1>2. /\ InMap(l) /\ current[l] # r
      /\ cut \in 1 .. n /\ items[l][cut] = r
  BY DEF RemoveAccept, CanRemove, Contains
<1>3. /\ UNCHANGED <<phase, runs, wpc, task, chan, ticket, arrivals>>
      /\ cancel' = cancel \union {r} /\ removed' = removed \union {r}
      /\ raced' = {} => raced = {} /\ ~ PassedCheck(r)
      /\ SetLane(l, p, q, current[l])
  BY DEF RemoveAccept, workVars
<1> HIDE DEF cut
<1>4. /\ Len(q) = n - 1
      /\ \A i \in 1 .. n - 1 : q[i] = IF i < cut THEN items[l][i] ELSE items[l][i + 1]
  BY <1>1, <1>2, RemoveAtProperties
<1> HIDE DEF l, p, q, n
<1>5. /\ \A k \in Lanes \ {l} : /\ tx'[k] = tx[k] /\ pending'[k] = pending[k]
                               /\ items'[k] = items[k] /\ current'[k] = current[k]
      /\ p = 0 => /\ tx'[l] = NoRun /\ pending'[l] = 0
                  /\ items'[l] = <<>> /\ current'[l] = NoRun
      /\ p # 0 => /\ tx'[l] = tx[l] /\ pending'[l] = p
                  /\ items'[l] = q /\ current'[l] = current[l]
  BY <1>1, <1>3, SetLaneAt
<1>6. phase[r] = "queued" /\ LaneOf[r] = l
  BY <1>1, <1>2 DEF LaneBooks, n, l
\* Tickets tell the removed item from every other one.
<1>7. ASSUME NEW i \in 1 .. n, i # cut PROVE items[l][i] # r
  <2>1. items[l][i] \in Runs /\ ticket[items[l][i]] \in Nat /\ ticket[r] \in Nat
    BY <1>1, <1>7, PartsAt, Elements DEF TypeOK, n
  <2>2. CASE i < cut
    BY <1>1, <1>2, <1>7, <2>1, <2>2 DEF LaneBooks, n
  <2>3. CASE cut < i
    BY <1>1, <1>2, <1>7, <2>1, <2>3 DEF LaneBooks, n
  <2> QED BY <1>1, <1>2, <1>7, <2>2, <2>3
<1>8. /\ \A i \in 1 .. Len(q) : Contains(items[l], q[i]) /\ q[i] # r
      /\ \A x : Contains(items[l], x) /\ x # r => Contains(q, x)
  <2>1. ASSUME NEW i \in 1 .. Len(q) PROVE Contains(items[l], q[i]) /\ q[i] # r
    <3>1. CASE i < cut
      <4>1. i \in 1 .. n /\ i # cut /\ q[i] = items[l][i]
        BY <1>1, <1>2, <1>4, <2>1, <3>1
      <4> QED BY <1>7, <4>1 DEF Contains, n
    <3>2. CASE ~ (i < cut)
      <4>1. i + 1 \in 1 .. n /\ i + 1 # cut /\ q[i] = items[l][i + 1]
        BY <1>1, <1>2, <1>4, <2>1, <3>2
      <4> QED BY <1>7, <4>1 DEF Contains, n
    <3> QED BY <3>1, <3>2
  <2>2. ASSUME NEW i \in 1 .. n, items[l][i] # r PROVE Contains(q, items[l][i])
    <3>1. i # cut
      BY <1>2, <2>2
    <3>2. CASE i < cut
      <4>1. i \in 1 .. Len(q) /\ q[i] = items[l][i]
        BY <1>1, <1>2, <1>4, <2>2, <3>2
      <4> QED BY <4>1 DEF Contains
    <3>3. CASE cut < i
      <4>1. i - 1 \in 1 .. Len(q) /\ ~ (i - 1 < cut) /\ i - 1 + 1 = i /\ i - 1 \in 1 .. n - 1
        BY <1>1, <1>2, <1>4, <2>2, <3>3
      <4>2. q[i - 1] = items[l][i]
        BY <1>4, <4>1
      <4> QED BY <4>1, <4>2 DEF Contains
    <3> QED BY <1>1, <1>2, <2>2, <3>1, <3>2, <3>3
  <2> QED BY <2>1, <2>2 DEF Contains, n
<1>9. ASSUME NEW v \in Runs PROVE TaskOf(v)' /\ BufferOf(v)'
  <2>1. TaskOf(v) /\ BufferOf(v)
    BY PartsAt
  <2> QED BY <1>3, <2>1 DEF TaskOf, BufferOf
<1>10. OnePlace' /\ Books'
  BY <1>1, <1>3, <1>6 DEF OnePlace, Books
<1>11. ASSUME NEW k \in Lanes PROVE LaneBooks(k)'
  <2>1. LaneBooks(k) /\ (InMap(k) => tx[k] \in Runs)
    BY PartsAt
  <2>2. CASE k # l
    BY <1>3, <1>5, <1>6, <2>1, <2>2 DEF LaneBooks, InMap
  <2>3. CASE k = l /\ p = 0
    <3>1. items'[l] = <<>> /\ tx'[l] = NoRun /\ Len(items'[l]) = 0
      BY <1>5, <2>3, EmptySeq
    <3> QED BY <2>3, <3>1 DEF LaneBooks, InMap
  <2>4. CASE k = l /\ p # 0
    <3>1. items'[l] = q /\ tx'[l] = tx[l]
      BY <1>5, <2>4
    <3>2. \A i \in 1 .. Len(items'[l]) : items'[l][i] \notin removed'
      BY <1>1, <1>3, <1>8, <3>1 DEF LaneBooks, Contains
    <3>3. /\ Len(items'[l]) \in Nat
          /\ Len(items'[l]) <= Len(items[l])
          /\ cut <= Len(items'[l]) => Len(items'[l]) < Len(items[l])
          /\ cut \in Nat
      BY <1>1, <1>2, <1>4, <3>1 DEF n
    <3>4. \A i \in 1 .. Len(items'[l]) :
              items'[l][i] = IF i < cut THEN items[l][i] ELSE items[l][i + 1]
      BY <1>4, <3>1
    <3>5. LaneBooks(l)'
      BY <1>1, <1>3, <3>1, <3>2, <3>3, <3>4, CutKeepsBooks
    <3> QED BY <2>4, <3>5
  <2> QED BY <2>2, <2>3, <2>4
<1>12. ASSUME raced' = {} PROVE Agreement'
  <2>0. raced = {} /\ LaneAgrees(l) /\ ~ PassedCheck(r)
    BY <1>1, <1>3, <1>12, PartsAt
  <2>1. /\ p = n - 1
        /\ p = 0 <=> Len(q) = 0
        /\ p \in Nat
    BY <1>1, <1>2, <1>4, <2>0 DEF LaneAgrees, p, n, SaturatingPred
  <2>2. \A k \in Lanes : current'[k] # NoRun => current'[k] = current[k]
    BY <1>5
  \* r is no worker's running task, so `current` of r's lane is another run.
  <2>3. \A k \in Lanes : current[k] # NoRun => current[k] # r
    <3>1. ASSUME NEW k \in Lanes, current[k] = r, r # NoRun PROVE k = l
      <4>1. LaneAgrees(k) /\ LaneBooks(k) /\ (InMap(k) => tx[k] \in Runs)
        BY <2>0, PartsAt
      <4>2. InMap(k) /\ task[tx[k]] = r /\ wpc[tx[k]] \in Busy /\ LaneOf[tx[k]] = k
        BY <3>1, <4>1 DEF LaneAgrees, LaneBooks, Busy
      <4>3. LaneOf[r] = LaneOf[tx[k]]
        BY <4>1, <4>2, PartsAt DEF TaskOf
      <4> QED BY <1>6, <4>2, <4>3
    <3> QED BY <1>2, <3>1
  <2>4. ASSUME NEW k \in Lanes PROVE LaneAgrees(k)'
    <3>1. LaneAgrees(k) /\ (InMap(k) => tx[k] \in Runs)
      BY <2>0, PartsAt
    <3>2. CASE k # l
      BY <1>3, <1>5, <2>3, <3>1, <3>2 DEF LaneAgrees, InMap, Contains
    <3>3. CASE k = l /\ p = 0
      <4>1. /\ tx'[l] = NoRun /\ pending'[l] = 0 /\ items'[l] = <<>>
            /\ Len(items'[l]) = 0 /\ current'[l] = NoRun
        BY <1>5, <3>3, EmptySeq
      <4> QED BY <3>3, <4>1 DEF LaneAgrees, InMap
    <3>4. CASE k = l /\ p # 0
      <4>1. /\ tx'[l] = tx[l] /\ pending'[l] = p /\ items'[l] = q /\ current'[l] = current[l]
        BY <1>5, <3>4
      <4>2. pending'[l] = Len(items'[l]) /\ items'[l] # <<>>
        BY <1>1, <1>4, <2>1, <3>4, <4>1, EmptySeq
      <4>3. ASSUME NEW i \in 1 .. Len(q)
            PROVE  q[i] = task[tx[l]] \/ Contains(chan[tx[l]], q[i])
        BY <1>8, <2>0 DEF LaneAgrees, Contains
      <4> QED BY <1>2, <1>3, <2>0, <2>3, <3>4, <4>1, <4>2, <4>3 DEF LaneAgrees, InMap
    <3> QED BY <3>2, <3>3, <3>4
  <2>5. ASSUME NEW v \in Runs PROVE TaskAgrees(v)' /\ BufferAgrees(v)'
    <3>1. TaskAgrees(v) /\ BufferAgrees(v) /\ LaneOf[v] \in Lanes /\ TaskOf(v)
      BY <2>0, PartsAt, LaneOfRun
    <3>2. ASSUME NEW x, x # r, Owned(v, x)
          PROVE  tx'[LaneOf[v]] = v /\ Contains(items'[LaneOf[v]], x)
      <4>1. CASE LaneOf[v] # l
        BY <1>5, <3>1, <3>2, <4>1 DEF Owned
      <4>2. CASE LaneOf[v] = l
        <5>1. Contains(q, x)
          BY <1>8, <3>2, <4>2 DEF Owned
        <5>2. p # 0
          BY <1>1, <1>4, <2>1, <5>1 DEF Contains
        <5> QED BY <1>5, <3>2, <4>2, <5>1, <5>2 DEF Owned
      <4> QED BY <4>1, <4>2
    \* The removed run is not in the hands of a worker past its skip check.
    <3>3. wpc[v] \in {"mark", "running", "note"} => task[v] # r
      <4>1. wpc[v] \in {"mark", "running"} => task[v] # r
        BY <2>0 DEF PassedCheck
      <4>2. wpc[v] = "note" => task[v] # r
        <5>1. wpc[v] = "note" => current[LaneOf[v]] = task[v] /\ task[v] # NoRun
          BY <3>1 DEF TaskAgrees, TaskOf, Busy
        <5> QED BY <2>3, <3>1, <5>1
      <4> QED BY <4>1, <4>2
    <3>4. wpc[v] \in {"running", "note"} => current'[LaneOf[v]] = current[LaneOf[v]]
      <4>1. ASSUME wpc[v] \in {"running", "note"}, LaneOf[v] = l PROVE p # 0
        <5>1. Owned(v, task[v]) /\ task[v] # r
          BY <3>1, <3>3, <4>1 DEF TaskAgrees, Busy
        <5>2. Contains(q, task[v])
          BY <1>8, <4>1, <5>1 DEF Owned
        <5> QED BY <1>1, <1>4, <2>1, <5>2 DEF Contains
      <4> QED BY <1>5, <3>1, <4>1
    <3>5. TaskAgrees(v)'
      BY <1>3, <3>1, <3>2, <3>3, <3>4 DEF TaskAgrees, Owned, Busy
    <3>6. BufferAgrees(v)'
      BY <1>3, <3>1, <3>2 DEF BufferAgrees, Owned
    <3> QED BY <3>5, <3>6
  <2> QED BY <2>4, <2>5 DEF Agreement
<1> QED BY <1>9, <1>10, <1>11, <1>12 DEF Parts

----------------------------------------------------------------------------
(* The invariant, and what follows from it *)

LEMMA InitInv == Init => IInv
<1> SUFFICES ASSUME Init PROVE IInv
  OBVIOUS
<1>1. TypeOK
  BY TypeInit
<1>2. /\ \A r \in Runs : /\ phase[r] = "idle" /\ wpc[r] = "none" /\ task[r] = NoRun
                         /\ chan[r] = <<>> /\ Len(chan[r]) = 0
      /\ \A l \in Lanes : /\ tx[l] = NoRun /\ items[l] = <<>> /\ Len(items[l]) = 0
                         /\ pending[l] = 0 /\ current[l] = NoRun
      /\ removed = {}
  BY EmptySeq DEF Init
<1>3. \A w \in Runs : TaskOf(w) /\ BufferOf(w)
  BY <1>2 DEF TaskOf, BufferOf, Busy
<1>4. OnePlace /\ Books
  BY <1>2 DEF OnePlace, Books, Busy
<1>5. \A l \in Lanes : LaneBooks(l) /\ LaneAgrees(l)
  BY <1>2 DEF LaneBooks, LaneAgrees, InMap
<1>6. \A w \in Runs : TaskAgrees(w) /\ BufferAgrees(w)
  BY <1>2 DEF TaskAgrees, BufferAgrees, Busy
<1> QED BY <1>1, <1>3, <1>4, <1>5, <1>6 DEF IInv, Parts, Agreement

LEMMA StepInv == IInv /\ [Next]_vars => IInv'
<1> SUFFICES ASSUME IInv, [Next]_vars PROVE IInv'
  OBVIOUS
<1>1. TypeOK'
  BY TypeStep DEF IInv
<1>2. CASE UNCHANGED vars
  <2>1. Parts'
    BY <1>2, RegistryKeeps, PartsAt
    DEF Books, vars, laneVars, workVars, histVars
  <2> QED BY <1>1, <2>1 DEF IInv
<1>3. CASE AtRest
  BY <1>2, <1>3 DEF AtRest
<1>4. ASSUME NEW r \in Runs, Enqueue(r) \/ Worker(r) \/ Request(r) PROVE Parts'
  BY <1>4, CallsKeep, PushKeeps, RecvKeeps, ExitKeeps, CheckSkipKeeps, MarkRunningKeeps,
     TaskEndsKeeps, UnregisterKeeps, ReleaseKeeps, RemoveAcceptKeeps
  DEF Enqueue, Worker, Request
<1> QED BY <1>1, <1>2, <1>3, <1>4 DEF Next, IInv

\* IInv is an invariant of the queue for every set of runs and lanes.
THEOREM Invariance == Spec => []IInv
BY InitInv, StepInv, PTL DEF Spec

\* Until a removal races, no two runs of a lane execute together.
LEMMA Serial == IInv => SerializedUnlessRaced
<1>1. ASSUME IInv, raced = {}, NEW v \in Runs, NEW w \in Runs,
             Executing(v), Executing(w), LaneOf[v] = LaneOf[w]
      PROVE  v = w
  <2>1. TaskAgrees(v) /\ TaskAgrees(w)
    BY <1>1, PartsAt
  <2>2. tx[LaneOf[v]] = v /\ tx[LaneOf[w]] = w
    BY <1>1, <2>1 DEF Executing, TaskAgrees, Owned, Busy
  <2> QED BY <1>1, <2>2
<1> QED BY <1>1 DEF SerializedUnlessRaced, Serialized

\* Two runs of one (chat, persona) execute together only after a removal was
\* accepted for a run that a worker had already let through.
THEOREM Serialization == Spec => []SerializedUnlessRaced
BY Serial, Invariance, PTL

\* Until a removal races, the counter that decides whether a lane is dropped
\* is the number of its items.
THEOREM ExactCount == Spec => []PendingExactUnlessRaced
<1>1. IInv => PendingExactUnlessRaced
  <2> SUFFICES ASSUME IInv, raced = {}, NEW l \in Lanes PROVE pending[l] = Len(items[l])
    BY DEF PendingExactUnlessRaced, PendingExact
  <2> QED BY PartsAt DEF LaneAgrees
<1> QED BY <1>1, Invariance, PTL

\* A lane in the map has a live worker, whatever races: the failure branch of
\* enqueue_with_meta is unreachable.
THEOREM LiveSender == Spec => []SenderAlive
<1>1. IInv => SenderAlive
  BY PartsAt DEF LaneBooks, SenderAlive
<1> QED BY <1>1, Invariance, PTL

\* Until a removal races, a run executes only when everything that arrived
\* earlier in its lane has left it.
THEOREM Fifo == Spec => []ArrivalOrderUnlessRaced
<1>1. ASSUME IInv, raced = {}, NEW w \in Runs, Executing(w), NEW r \in Runs,
             Contains(items[LaneOf[w]], r)
      PROVE  ticket[task[w]] <= ticket[r]
  <2>1. TaskAgrees(w) /\ BufferOf(w) /\ LaneAgrees(LaneOf[w]) /\ TaskOf(w) /\ TypeOK
    BY <1>1, PartsAt, LaneOfRun
  <2>2. tx[LaneOf[w]] = w /\ wpc[w] \in Busy /\ task[w] \in Runs
    BY <1>1, <2>1 DEF Executing, TaskAgrees, TaskOf, Owned, Busy, TypeOK
  <2>3. r = task[w] \/ Contains(chan[w], r)
    BY <1>1, <2>1, <2>2 DEF LaneAgrees, Contains
  <2>4. ticket[r] \in Nat /\ ticket[task[w]] \in Nat
    BY <2>1, <2>2 DEF TypeOK
  <2>5. Contains(chan[w], r) => ticket[task[w]] < ticket[r]
    BY <2>1, <2>2 DEF BufferOf, Contains
  <2> QED BY <2>3, <2>4, <2>5
<1>2. IInv => ArrivalOrderUnlessRaced
  BY <1>1 DEF ArrivalOrderUnlessRaced, ArrivalOrder
<1> QED BY <1>2, Invariance, PTL

----------------------------------------------------------------------------
(* The queue implements PersonaLanes, step by step *)

\* Until a removal races, what a worker holds and its lane still lists is the
\* front item of that lane, and nothing behind it.
LEMMA HeldIsFront ==
    ASSUME IInv, raced = {}, NEW w \in Runs, wpc[w] \in Busy,
           Contains(items[LaneOf[w]], task[w])
    PROVE  /\ task[w] \notin removed
           /\ tx[LaneOf[w]] = w
           /\ items[LaneOf[w]] # <<>>
           /\ Head(items[LaneOf[w]]) = task[w]
           /\ \A i \in 2 .. Len(items[LaneOf[w]]) : items[LaneOf[w]][i] # task[w]
<1> DEFINE l == LaneOf[w]
<1>1. /\ l \in Lanes /\ LaneBooks(l) /\ LaneAgrees(l) /\ TaskAgrees(w) /\ BufferOf(w)
      /\ TaskOf(w) /\ TypeOK
      /\ Len(items[l]) \in Nat /\ items[l] \in Seq(Runs)
      /\ \A i \in 1 .. Len(items[l]) : items[l][i] \in Runs
      /\ \A r \in Runs : ticket[r] \in Nat
  BY PartsAt, Elements DEF TypeOK
<1>2. PICK i \in 1 .. Len(items[l]) : items[l][i] = task[w]
  BY DEF Contains
<1>3. task[w] \notin removed /\ LaneOf[task[w]] = l
  BY <1>1, <1>2 DEF LaneBooks
<1>4. tx[l] = w
  BY <1>1, <1>3 DEF TaskAgrees, Owned
<1>5. items[l] # <<>> /\ Head(items[l]) = items[l][1] /\ 1 \in 1 .. Len(items[l])
  BY <1>1, <1>2, EmptySeq, HeadTailProperties
<1>6. items[l][1] = task[w]
  <2>1. items[l][1] = task[w] \/ Contains(chan[w], items[l][1])
    BY <1>1, <1>4, <1>5 DEF LaneAgrees
  <2>2. Contains(chan[w], items[l][1]) => ticket[task[w]] < ticket[items[l][1]]
    BY <1>1 DEF BufferOf, Contains
  <2>3. i # 1 => ticket[items[l][1]] < ticket[task[w]]
    BY <1>1, <1>2, <1>5 DEF LaneBooks
  <2> QED BY <1>1, <1>2, <1>5, <2>1, <2>2, <2>3
<1>7. ASSUME NEW j \in 2 .. Len(items[l]) PROVE items[l][j] # task[w]
  <2>1. ticket[items[l][1]] < ticket[items[l][j]]
    BY <1>1, <1>5 DEF LaneBooks
  <2> QED BY <1>1, <1>5, <1>6, <2>1
<1>8. /\ task[w] \notin removed /\ tx[l] = w /\ items[l] # <<>> /\ Head(items[l]) = task[w]
      /\ \A j \in 2 .. Len(items[l]) : items[l][j] # task[w]
  BY <1>3, <1>4, <1>5, <1>6, <1>7
<1> QED BY <1>8

\* Where lane l has a run that executes, ActiveIn is that run.
ActiveRight ==
    \A l \in Lanes :
        /\ \A w \in Runs : Executing(w) /\ LaneOf[w] = l => ActiveIn(l) = task[w]
        /\ (\A w \in Runs : ~ (Executing(w) /\ LaneOf[w] = l)) => ActiveIn(l) = NoRun

LEMMA ActiveIs == Serialized => ActiveRight
<1> SUFFICES ASSUME Serialized, NEW l \in Lanes
             PROVE  /\ \A w \in Runs :
                          Executing(w) /\ LaneOf[w] = l => ActiveIn(l) = task[w]
                    /\ (\A w \in Runs : ~ (Executing(w) /\ LaneOf[w] = l)) =>
                          ActiveIn(l) = NoRun
  BY DEF ActiveRight
<1> DEFINE At(w) == Executing(w) /\ LaneOf[w] = l
           c == CHOOSE w \in Runs : At(w)
<1>1. ASSUME NEW w \in Runs, At(w) PROVE ActiveIn(l) = task[w]
  <2>1. c \in Runs /\ At(c)
    BY <1>1
  <2>2. c = w
    BY <1>1, <2>1 DEF Serialized
  <2>3. ActiveIn(l) = task[c]
    BY <1>1 DEF ActiveIn
  <2> QED BY <2>2, <2>3
<1> QED BY <1>1 DEF ActiveIn

\* ... in the next state as well.
LEMMA ActiveIsNext == Serialized' => ActiveRight'
BY ActiveIs, PTL

\* A step that neither starts nor ends an execution in a lane keeps what is
\* active there.
LEMMA ActiveKeepsAt ==
    ASSUME Serialized, Serialized', NEW k \in Lanes,
           \A v \in Runs : LaneOf[v] = k =>
              /\ Executing(v)' <=> Executing(v)
              /\ Executing(v) => task'[v] = task[v]
    PROVE  ActiveIn(k)' = ActiveIn(k)
<1>1. CASE \E w \in Runs : Executing(w) /\ LaneOf[w] = k
  <2>1. PICK w \in Runs : Executing(w) /\ LaneOf[w] = k
    BY <1>1
  <2>2. ActiveIn(k) = task[w] /\ ActiveIn(k)' = task'[w]
    BY <2>1, ActiveIs, ActiveIsNext DEF ActiveRight
  <2> QED BY <2>1, <2>2
<1>2. CASE \A w \in Runs : ~ (Executing(w) /\ LaneOf[w] = k)
  BY <1>2, ActiveIs, ActiveIsNext DEF ActiveRight
<1> QED BY <1>1, <1>2

\* A step of worker w leaves what waits in the other lanes alone.
LEMMA WaitingElsewhere ==
    ASSUME IInv, NEW w \in Runs, NEW k \in Lanes, k # LaneOf[w],
           \A v \in Runs \ {w} : wpc'[v] = wpc[v] /\ task'[v] = task[v],
           tx'[k] = tx[k], items'[k] = items[k]
    PROVE  WaitingIn(k)' = WaitingIn(k)
<1>1. InMap(k) => tx[k] \in Runs \ {w}
  BY PartsAt DEF LaneBooks
<1>2. FrontClaimed(k)' <=> FrontClaimed(k)
  BY <1>1 DEF FrontClaimed, InMap
<1> QED BY <1>2 DEF WaitingIn

LEMMA SerialNext == IInv' => SerializedUnlessRaced'
BY Serial, PTL

\* What the steps of the queue are to PersonaLanes, said of the mapped state.
LEMMA IsStutter ==
    ASSUME \A k \in Lanes : WaitingIn(k)' = WaitingIn(k),
           \A k \in Lanes : ActiveIn(k)' = ActiveIn(k),
           \A r \in Runs : phase'[r] = "queued" <=> phase[r] = "queued"
    PROVE  UNCHANGED Promise!vars
BY DEF Promise!vars

LEMMA IsWithdrawal ==
    ASSUME NEW l \in Lanes, NEW i \in 1 .. Len(WaitingIn(l)),
           WaitingIn(l)' = RemoveAt(WaitingIn(l), i),
           \A k \in Lanes \ {l} : WaitingIn(k)' = WaitingIn(k),
           \A k \in Lanes : ActiveIn(k)' = ActiveIn(k),
           \A r \in Runs : phase'[r] = "queued" <=> phase[r] = "queued"
    PROVE  Promise!Next
<1>1. Promise!Withdraw(l)
  BY DEF Promise!Withdraw, RemoveAt, Promise!RemoveAt
<1> QED BY <1>1 DEF Promise!Next

LEMMA IsStart ==
    ASSUME NEW l \in Lanes,
           ActiveIn(l) = NoRun, WaitingIn(l) # <<>>,
           ActiveIn(l)' = Head(WaitingIn(l)), WaitingIn(l)' = Tail(WaitingIn(l)),
           \A k \in Lanes \ {l} : WaitingIn(k)' = WaitingIn(k),
           \A k \in Lanes \ {l} : ActiveIn(k)' = ActiveIn(k),
           \A r \in Runs : phase'[r] = "queued" <=> phase[r] = "queued"
    PROVE  Promise!Next
<1>1. Promise!Start(l)
  BY DEF Promise!Start
<1> QED BY <1>1 DEF Promise!Next

LEMMA IsFinish ==
    ASSUME NEW l \in Lanes,
           ActiveIn(l) # NoRun, ActiveIn(l)' = NoRun,
           \A k \in Lanes : WaitingIn(k)' = WaitingIn(k),
           \A k \in Lanes \ {l} : ActiveIn(k)' = ActiveIn(k),
           \A r \in Runs : phase'[r] = "queued" <=> phase[r] = "queued"
    PROVE  Promise!Next
<1>1. [k \in Lanes |-> WaitingIn(k)]' = [k \in Lanes |-> WaitingIn(k)]
  OBVIOUS
<1>2. [k \in Lanes |-> ActiveIn(k)]' = [[k \in Lanes |-> ActiveIn(k)] EXCEPT ![l] = NoRun]
  <2>1. \A k \in Lanes : ActiveIn(k)' = IF k = l THEN NoRun ELSE ActiveIn(k)
    OBVIOUS
  <2> QED BY <2>1
<1>3. {r \in Runs : phase[r] = "queued"}' = {r \in Runs : phase[r] = "queued"}
  OBVIOUS
<1>4. Promise!Finish(l)
  BY <1>1, <1>2, <1>3 DEF Promise!Finish
<1> QED BY <1>4 DEF Promise!Next

LEMMA IsSubmission ==
    ASSUME NEW r \in Runs, phase[r] # "queued",
           WaitingIn(LaneOf[r])' = Append(WaitingIn(LaneOf[r]), r),
           \A k \in Lanes \ {LaneOf[r]} : WaitingIn(k)' = WaitingIn(k),
           \A k \in Lanes : ActiveIn(k)' = ActiveIn(k),
           phase'[r] = "queued",
           \A q \in Runs \ {r} : phase'[q] = "queued" <=> phase[q] = "queued"
    PROVE  Promise!Next
<1>1. LaneOf[r] \in Lanes
  BY LaneOfRun
<1>2. /\ [k \in Lanes |-> WaitingIn(k)]' =
            [[k \in Lanes |-> WaitingIn(k)] EXCEPT
                ![LaneOf[r]] = Append(WaitingIn(LaneOf[r]), r)]
      /\ [k \in Lanes |-> ActiveIn(k)]' = [k \in Lanes |-> ActiveIn(k)]
  BY <1>1
<1>3. {q \in Runs : phase[q] = "queued"}' = {q \in Runs : phase[q] = "queued"} \union {r}
  OBVIOUS
<1>4. Promise!Submit(r)
  BY <1>1, <1>2, <1>3 DEF Promise!Submit
<1> QED BY <1>4 DEF Promise!Next

----------------------------------------------------------------------------
(* The steps of the queue, while no removal races *)

\* A step of worker w that moves its program counter only.
LEMMA MoveMaps ==
    ASSUME IInv, raced = {}, Serialized, Serialized', NEW w \in Runs,
           wpc[w] \notin {"mark", "running"}, wpc'[w] # "running",
           wpc[w] \in {"note", "unregister"} => wpc'[w] \in {"unregister", "release"},
           wpc[w] = "release" => wpc'[w] = "release",
           \A v \in Runs \ {w} : wpc'[v] = wpc[v] /\ task'[v] = task[v],
           wpc[w] \in Busy => task'[w] = task[w],
           UNCHANGED <<tx, items, phase>>,
           wpc'[w] \in {"note", "unregister", "release"} =>
              \/ wpc[w] \in {"note", "unregister", "release"}
              \/ wpc[w] = "check"
    PROVE  Promise!Next \/ UNCHANGED Promise!vars
<1> DEFINE l == LaneOf[w]
<1>1. /\ l \in Lanes /\ LaneBooks(l) /\ TaskOf(w) /\ TypeOK
      /\ items[l] \in Seq(Runs) /\ Len(items[l]) \in Nat
  BY PartsAt, Elements
<1>2. \A k \in Lanes : ActiveIn(k)' = ActiveIn(k)
  BY ActiveKeepsAt DEF Executing, Busy
<1>3. \A k \in Lanes \ {l} : WaitingIn(k)' = WaitingIn(k)
  BY WaitingElsewhere
<1>4. CASE FrontClaimed(l)' <=> FrontClaimed(l)
  <2>1. WaitingIn(l)' = WaitingIn(l)
    BY <1>4 DEF WaitingIn
  <2> QED BY <1>2, <1>3, <2>1, IsStutter
<1>5. CASE ~ (FrontClaimed(l)' <=> FrontClaimed(l))
  <2>1. tx[l] = w /\ wpc[w] = "check" /\ wpc'[w] \in {"note", "unregister", "release"}
    <3>1. tx[l] = w /\ InMap(l)
      <4>1. InMap(l) => tx[l] \in Runs
        BY <1>1, PartsAt
      <4> QED BY <1>5, <4>1 DEF FrontClaimed, InMap
    <3>2. wpc[w] \notin {"note", "unregister", "release"}
      BY <1>5, <3>1 DEF FrontClaimed, InMap, Busy
    <3>3. ~ FrontClaimed(l)
      BY <3>1, <3>2 DEF FrontClaimed
    <3>4. wpc'[w] \in {"note", "unregister", "release"}
      BY <1>5, <3>1, <3>3 DEF FrontClaimed
    <3> QED BY <3>1, <3>2, <3>4
  <2>2. ~ FrontClaimed(l) /\ FrontClaimed(l)'
    BY <1>5, <2>1 DEF FrontClaimed
  <2>3. WaitingIn(l) = items[l] /\ WaitingIn(l)' = Tail(items[l]) /\ items[l] # <<>>
    BY <2>2 DEF WaitingIn, FrontClaimed
  <2>4. 1 \in 1 .. Len(WaitingIn(l)) /\ WaitingIn(l)' = RemoveAt(WaitingIn(l), 1)
    BY <1>1, <2>3, RemoveAtFirst
  <2> QED BY <1>1, <1>2, <1>3, <2>4, IsWithdrawal
<1> QED BY <1>4, <1>5

LEMMA MarkRunningMaps ==
    ASSUME IInv, raced = {}, Serialized, Serialized', NEW w \in Runs, MarkRunning(w)
    PROVE  Promise!Next
<1> DEFINE l == LaneOf[w]
<1>1. /\ l \in Lanes /\ TaskOf(w) /\ TaskAgrees(w) /\ TypeOK
      /\ wpc[w] = "mark" /\ wpc'[w] = "running"
      /\ \A v \in Runs \ {w} : wpc'[v] = wpc[v]
      /\ UNCHANGED <<phase, tx, items, task>>
  BY PartsAt, LaneOfRun, GotoDef DEF MarkRunning
<1>2. wpc[w] \in Busy /\ Contains(items[l], task[w])
  BY <1>1 DEF TaskOf, TaskAgrees, Owned, Busy
<1>3. tx[l] = w /\ items[l] # <<>> /\ Head(items[l]) = task[w] /\ InMap(l)
  BY <1>2, HeldIsFront, QueueAssumption DEF InMap
<1>4. WaitingIn(l) = items[l] /\ WaitingIn(l)' = Tail(items[l])
  BY <1>1, <1>3 DEF WaitingIn, FrontClaimed, InMap
<1>5. \A k \in Lanes \ {l} : WaitingIn(k)' = WaitingIn(k)
  BY <1>1, WaitingElsewhere
<1>6. \A v \in Runs : Executing(v) /\ LaneOf[v] = l => v = w
  <2>1. Executing(w)'
    BY <1>1 DEF Executing
  <2>2. ASSUME NEW v \in Runs, Executing(v), LaneOf[v] = l PROVE v = w
    <3>1. Executing(v)'
      BY <1>1, <2>2 DEF Executing
    <3> QED BY <2>1, <2>2, <3>1 DEF Serialized
  <2> QED BY <2>2
<1>7. ActiveIn(l) = NoRun
  BY <1>1, <1>6, ActiveIs DEF ActiveRight, Executing
<1>8. ActiveIn(l)' = task[w]
  BY <1>1, ActiveIsNext DEF ActiveRight, Executing
<1>9. ASSUME NEW k \in Lanes \ {l} PROVE ActiveIn(k)' = ActiveIn(k)
  BY <1>1, ActiveKeepsAt DEF Executing
<1> QED BY <1>1, <1>3, <1>4, <1>5, <1>7, <1>8, <1>9, IsStart

LEMMA TaskEndsMaps ==
    ASSUME IInv, raced = {}, Serialized, Serialized', NEW w \in Runs,
           TaskReturns(w) \/ TaskFails(w)
    PROVE  Promise!Next
<1> DEFINE l == LaneOf[w]
<1>1. /\ l \in Lanes /\ TaskOf(w) /\ TypeOK
      /\ wpc[w] = "running" /\ wpc'[w] \in {"note", "unregister"}
      /\ \A v \in Runs \ {w} : wpc'[v] = wpc[v]
      /\ UNCHANGED <<phase, tx, items, task>>
  BY PartsAt, LaneOfRun, GotoDef DEF TaskReturns, TaskFails, laneVars
<1>2. task[w] # NoRun
  BY <1>1 DEF TaskOf, Busy
<1>3. FrontClaimed(l)' <=> FrontClaimed(l)
  <2>1. CASE tx[l] = w
    BY <1>1, <2>1 DEF FrontClaimed, InMap
  <2>2. CASE tx[l] # w
    <3>1. InMap(l) => tx[l] \in Runs \ {w}
      BY <1>1, <2>2, PartsAt
    <3> QED BY <1>1, <3>1 DEF FrontClaimed, InMap
  <2> QED BY <2>1, <2>2
<1>4. WaitingIn(l)' = WaitingIn(l)
  BY <1>1, <1>3 DEF WaitingIn
<1>5. \A k \in Lanes : WaitingIn(k)' = WaitingIn(k)
  BY <1>1, <1>4, WaitingElsewhere
<1>6. ActiveIn(l) = task[w]
  BY <1>1, ActiveIs DEF ActiveRight, Executing
<1>7. ActiveIn(l)' = NoRun
  <2>1. ASSUME NEW v \in Runs PROVE ~ (Executing(v)' /\ LaneOf[v] = l)
    <3>1. v # w /\ LaneOf[v] = l => ~ Executing(v)
      BY <1>1 DEF Serialized, Executing
    <3> QED BY <1>1, <3>1 DEF Executing
  <2> QED BY <1>1, <2>1, ActiveIsNext DEF ActiveRight, Executing
<1>8. ASSUME NEW k \in Lanes \ {l} PROVE ActiveIn(k)' = ActiveIn(k)
  BY <1>1, ActiveKeepsAt DEF Executing
<1> QED BY <1>1, <1>2, <1>5, <1>6, <1>7, <1>8, IsFinish

LEMMA PushMaps ==
    ASSUME IInv, raced = {}, Serialized, Serialized', NEW r \in Runs, Push(r)
    PROVE  Promise!Next
<1> DEFINE l == LaneOf[r]
<1>1. /\ l \in Lanes /\ TaskOf(r) /\ LaneAgrees(l) /\ TypeOK
      /\ items[l] \in Seq(Runs)
      /\ InMap(l) => tx[l] \in Runs
      /\ NoRun \notin Runs
  BY PartsAt, LaneOfRun, Elements, QueueAssumption
<1>2. /\ phase[r] = "registered"
      /\ phase' = [phase EXCEPT ![r] = "queued"]
      /\ tx' = [tx EXCEPT ![l] = IF InMap(l) THEN tx[l] ELSE r]
      /\ items' = [items EXCEPT ![l] = Append(@, r)]
      /\ wpc' = IF InMap(l) THEN wpc ELSE [wpc EXCEPT ![r] = "recv"]
      /\ UNCHANGED task
  BY DEF Push
<1>3. wpc[r] = "none"
  BY <1>1, <1>2 DEF TaskOf
<1>4. \A v \in Runs : Executing(v)' <=> Executing(v)
  BY <1>1, <1>2, <1>3 DEF Executing, TypeOK
<1>5. \A k \in Lanes : ActiveIn(k)' = ActiveIn(k)
  BY <1>2, <1>4, ActiveKeepsAt
<1>6. \A k \in Lanes \ {l} : WaitingIn(k)' = WaitingIn(k)
  <2>1. \A v \in Runs \ {r} : wpc'[v] = wpc[v] /\ task'[v] = task[v]
    BY <1>1, <1>2 DEF TypeOK
  <2>2. \A k \in Lanes \ {l} : tx'[k] = tx[k] /\ items'[k] = items[k]
    BY <1>1, <1>2 DEF TypeOK
  <2> QED BY <2>1, <2>2, WaitingElsewhere
<1>7. items'[l] = Append(items[l], r) /\ tx'[l] = IF InMap(l) THEN tx[l] ELSE r
  BY <1>1, <1>2 DEF TypeOK
<1>8. WaitingIn(l)' = Append(WaitingIn(l), r)
  <2>1. CASE InMap(l)
    <3>1. items[l] # <<>>
      BY <1>1, <2>1 DEF LaneAgrees
    <3>2. /\ items'[l] # <<>> /\ Head(items'[l]) = Head(items[l])
          /\ Tail(items'[l]) = Append(Tail(items[l]), r)
      BY <1>1, <1>7, <3>1, AppendBehind
    <3>3. FrontClaimed(l)' <=> FrontClaimed(l)
      BY <1>1, <1>2, <1>7, <2>1, <3>1, <3>2 DEF FrontClaimed, InMap
    <3> QED BY <1>7, <3>2, <3>3 DEF WaitingIn
  <2>2. CASE ~ InMap(l)
    <3>1. wpc'[r] = "recv" /\ tx'[l] = r
      BY <1>1, <1>2, <1>7, <2>2 DEF TypeOK
    <3>2. ~ FrontClaimed(l) /\ ~ FrontClaimed(l)'
      BY <2>2, <3>1 DEF FrontClaimed
    <3> QED BY <1>7, <3>2 DEF WaitingIn
  <2> QED BY <2>1, <2>2
<1>9. phase[r] # "queued" /\ phase'[r] = "queued"
      /\ \A q \in Runs \ {r} : phase'[q] = "queued" <=> phase[q] = "queued"
  BY <1>1, <1>2 DEF TypeOK
<1> QED BY <1>5, <1>6, <1>8, <1>9, IsSubmission

LEMMA ReleaseMaps ==
    ASSUME IInv, raced = {}, Serialized, Serialized', NEW w \in Runs, Release(w)
    PROVE  UNCHANGED Promise!vars
<1> DEFINE l == LaneOf[w]
           r == task[w]
           atFront == items[l] # <<>> /\ Head(items[l]) = r
           p == IF current[l] = r \/ atFront
                THEN SaturatingPred(pending[l]) ELSE pending[l]
           q == IF atFront THEN Tail(items[l]) ELSE items[l]
           c == IF current[l] = r THEN NoRun ELSE current[l]
<1>1. /\ l \in Lanes /\ TaskOf(w) /\ TaskAgrees(w) /\ LaneAgrees(l) /\ LaneBooks(l)
      /\ TypeOK /\ items[l] \in Seq(Runs) /\ Len(items[l]) \in Nat
      /\ InMap(l) => tx[l] \in Runs
  BY PartsAt, LaneOfRun, Elements
<1>2. /\ wpc[w] = "release" /\ wpc'[w] = "recv"
      /\ \A v \in Runs \ {w} : wpc'[v] = wpc[v] /\ task'[v] = task[v]
      /\ UNCHANGED phase
  BY <1>1, GotoDef DEF Release, TypeOK
<1>3. /\ \A k \in Lanes \ {l} : tx'[k] = tx[k] /\ items'[k] = items[k]
      /\ ~ InMap(l) => UNCHANGED <<tx, items>>
      /\ InMap(l) /\ p = 0 => tx'[l] = NoRun /\ items'[l] = <<>>
      /\ InMap(l) /\ p # 0 => tx'[l] = tx[l] /\ items'[l] = q
  <2>1. CASE InMap(l)
    <3>1. SetLane(l, p, q, c)
      BY <2>1 DEF Release
    <3> HIDE DEF p, q, c, l
    <3> QED BY <1>1, <2>1, <3>1, SetLaneAt
  <2>2. CASE ~ InMap(l)
    BY <2>2 DEF Release, laneVars
  <2> QED BY <2>1, <2>2
<1>4. \A k \in Lanes : ActiveIn(k)' = ActiveIn(k)
  BY <1>2, ActiveKeepsAt DEF Executing
<1>5. \A k \in Lanes \ {l} : WaitingIn(k)' = WaitingIn(k)
  BY <1>2, <1>3, WaitingElsewhere
<1>6. r # NoRun /\ wpc[w] \in Busy
  BY <1>1, <1>2 DEF TaskOf, Busy
<1>7. CASE Contains(items[l], r)
  <2>1. /\ tx[l] = w /\ items[l] # <<>> /\ Head(items[l]) = r /\ InMap(l)
    BY <1>6, <1>7, HeldIsFront, QueueAssumption DEF InMap
  <2>2. WaitingIn(l) = Tail(items[l])
    BY <1>2, <2>1 DEF WaitingIn, FrontClaimed
  <2>3. /\ Len(items[l]) # 0 /\ Tail(items[l]) \in Seq(Runs)
        /\ Len(Tail(items[l])) = Len(items[l]) - 1
    BY <1>1, <2>1, EmptySeq, HeadTailProperties
  <2>4. p = Len(items[l]) - 1 /\ q = Tail(items[l])
    BY <1>1, <2>1, <2>3 DEF SaturatingPred, LaneAgrees
  <2>5. p = 0 => Tail(items[l]) = <<>>
    BY <2>3, <2>4, EmptySeq
  <2> HIDE DEF p, q
  <2>6. /\ items'[l] = Tail(items[l])
        /\ tx'[l] = w \/ tx'[l] = NoRun
    BY <1>3, <2>1, <2>4, <2>5
  <2>7. WaitingIn(l)' = items'[l]
    BY <1>2, <2>6 DEF WaitingIn, FrontClaimed, InMap
  <2>8. WaitingIn(l)' = WaitingIn(l)
    BY <2>2, <2>6, <2>7
  <2> QED BY <1>2, <1>4, <1>5, <2>8, IsStutter
<1>8. CASE ~ Contains(items[l], r)
  <2>1. ~ atFront
    BY <1>1, <1>8, EmptySeq, HeadTailProperties DEF Contains
  <2>2. current[l] # r
    <3>1. ASSUME current[l] = r PROVE FALSE
      <4>1. InMap(l) /\ r = task[tx[l]] /\ r \notin removed
        BY <1>1, <1>6, <3>1 DEF LaneAgrees
      <4>2. Owned(w, r)
        BY <1>1, <1>6, <4>1 DEF TaskAgrees
      <4> QED BY <1>1, <1>6, <1>8, <4>2 DEF Owned, TaskOf
    <3> QED BY <3>1
  <2>3. p = pending[l] /\ q = items[l]
    BY <2>1, <2>2
  <2>4. InMap(l) => p # 0
    BY <1>1, <2>3, EmptySeq DEF LaneAgrees
  <2> HIDE DEF p, q
  <2>5. tx'[l] = tx[l] /\ items'[l] = items[l]
    BY <1>3, <2>3, <2>4
  <2>6. FrontClaimed(l)' <=> FrontClaimed(l)
    <3>1. CASE InMap(l) /\ tx[l] = w
      <4>1. ~ FrontClaimed(l)
        BY <2>1, <3>1 DEF FrontClaimed
      <4>2. ~ FrontClaimed(l)'
        BY <1>2, <2>5, <3>1 DEF FrontClaimed
      <4> QED BY <4>1, <4>2
    <3>2. CASE InMap(l) /\ tx[l] # w
      <4>1. wpc'[tx[l]] = wpc[tx[l]] /\ task'[tx[l]] = task[tx[l]]
        BY <1>1, <1>2, <3>2
      <4> QED BY <2>5, <3>2, <4>1 DEF FrontClaimed, InMap
    <3>3. CASE ~ InMap(l)
      BY <2>5, <3>3 DEF FrontClaimed, InMap
    <3> QED BY <3>1, <3>2, <3>3
  <2>7. WaitingIn(l)' = WaitingIn(l)
    BY <2>5, <2>6 DEF WaitingIn
  <2> QED BY <1>2, <1>4, <1>5, <2>7, IsStutter
<1> QED BY <1>7, <1>8

LEMMA RemoveAcceptMaps ==
    ASSUME IInv, raced = {}, raced' = {}, Serialized, Serialized',
           NEW r \in Runs, RemoveAccept(r)
    PROVE  Promise!Next \/ UNCHANGED Promise!vars
<1> DEFINE l == LaneOf[r]
           i == CHOOSE k \in 1 .. Len(items[l]) : items[l][k] = r
           p == SaturatingPred(pending[l])
           s == items[l]
           w == tx[l]
<1>1. /\ l \in Lanes /\ LaneAgrees(l) /\ LaneBooks(l) /\ TypeOK
      /\ s \in Seq(Runs) /\ Len(s) \in Nat
      /\ InMap(l) /\ w \in Runs /\ LaneOf[w] = l
      /\ current[l] # r /\ Contains(s, r)
      /\ TaskAgrees(w) /\ TaskOf(w)
      /\ r # NoRun
  BY PartsAt, LaneOfRun, Elements, QueueAssumption DEF RemoveAccept, CanRemove, LaneBooks
<1>2. i \in 1 .. Len(s) /\ s[i] = r
  BY <1>1 DEF Contains
<1>3. UNCHANGED <<phase, wpc, task, chan>>
  BY DEF RemoveAccept, workVars
<1>4. /\ \A k \in Lanes \ {l} : tx'[k] = tx[k] /\ items'[k] = items[k]
      /\ p = 0 => tx'[l] = NoRun /\ items'[l] = <<>>
      /\ p # 0 => tx'[l] = w /\ items'[l] = RemoveAt(s, i)
  <2>1. SetLane(l, p, RemoveAt(s, i), current[l])
    BY DEF RemoveAccept
  <2> HIDE DEF p, s, i, l
  <2> QED BY <1>1, <2>1, SetLaneAt DEF w
<1> HIDE DEF i
<1>5. /\ s # <<>> /\ RemoveAt(s, i) \in Seq(Runs)
      /\ Len(RemoveAt(s, i)) = Len(s) - 1 /\ p = Len(s) - 1
  <2>1. Len(s) # 0
    BY <1>1, <1>2
  <2>2. p = Len(s) - 1
    BY <1>1, <2>1 DEF SaturatingPred, LaneAgrees
  <2> QED BY <1>1, <1>2, <2>1, <2>2, EmptySeq, RemoveAtProperties
<1> HIDE DEF p
<1>6. items'[l] = RemoveAt(s, i)
  <2>1. p = 0 => RemoveAt(s, i) = <<>>
    BY <1>5, EmptySeq
  <2> QED BY <1>4, <2>1
<1>7. \A k \in Lanes : ActiveIn(k)' = ActiveIn(k)
  BY <1>3, ActiveKeepsAt DEF Executing
<1>8. \A k \in Lanes \ {l} : WaitingIn(k)' = WaitingIn(k)
  BY <1>1, <1>3, <1>4, WaitingElsewhere
<1> HIDE DEF l
<1>9. CASE FrontClaimed(l) /\ r = task[w]
  <2>1. s[1] = r /\ \A j \in 2 .. Len(s) : s[j] # r
    BY <1>1, <1>9, HeldIsFront, HeadTailProperties DEF FrontClaimed, Busy
  <2>2. i = 1
    BY <1>1, <1>2, <2>1
  <2>3. RemoveAt(s, 1) = Tail(s) /\ items'[l] = Tail(s)
    BY <1>1, <1>5, <1>6, <2>2, RemoveAtFirst
  <2>4. ~ FrontClaimed(l)'
    <3>1. ASSUME FrontClaimed(l)' PROVE FALSE
      <4>1. Tail(s) # <<>> /\ Head(Tail(s)) = r
        BY <1>3, <1>4, <1>9, <2>3, <3>1 DEF FrontClaimed, InMap
      <4>2. /\ Tail(s) \in Seq(Runs) /\ Len(Tail(s)) = Len(s) - 1
            /\ \A k \in 1 .. Len(s) - 1 : Tail(s)[k] = s[k + 1]
        BY <1>1, <1>5, HeadTailProperties
      <4>3. Len(Tail(s)) \in Nat /\ Len(Tail(s)) # 0 /\ Head(Tail(s)) = Tail(s)[1]
        BY <4>1, <4>2, EmptySeq, LenProperties, HeadTailProperties
      <4>4. 1 \in 1 .. Len(s) - 1 /\ 2 \in 2 .. Len(s)
        <5>1. Len(s) \in Nat /\ Len(s) - 1 # 0 /\ Len(s) # 0
          BY <1>1, <1>2, <4>2, <4>3
        <5> DEFINE n == Len(s)
        <5>2. n \in Nat /\ n # 1 /\ n # 0
          BY <5>1
        <5> HIDE DEF n
        <5>3. 1 \in 1 .. n - 1 /\ 2 \in 2 .. n
          BY <5>2
        <5> QED BY <5>3 DEF n
      <4>5. Tail(s)[1] = s[2]
        BY <4>2, <4>4
      <4> QED BY <2>1, <4>1, <4>3, <4>4, <4>5
    <3> QED BY <3>1
  <2>5. WaitingIn(l)' = WaitingIn(l)
    BY <1>9, <2>3, <2>4 DEF WaitingIn
  <2> QED BY <1>3, <1>7, <1>8, <2>5, IsStutter
<1>10. CASE FrontClaimed(l) /\ r # task[w]
  <2>1. Head(s) = task[w] /\ Head(s) = s[1]
    BY <1>1, <1>5, <1>10, HeadTailProperties DEF FrontClaimed
  <2>2. i \in 2 .. Len(s)
    BY <1>1, <1>2, <1>10, <2>1
  <2>3. /\ RemoveAt(s, i) # <<>> /\ Head(RemoveAt(s, i)) = Head(s)
        /\ i - 1 \in 1 .. Len(Tail(s))
        /\ Tail(RemoveAt(s, i)) = RemoveAt(Tail(s), i - 1)
    BY <1>1, <2>2, RemoveAtLater
  <2>4. tx'[l] = w
    BY <1>1, <1>4, <1>5, <2>2
  <2>5. FrontClaimed(l)'
    BY <1>3, <1>6, <1>10, <2>3, <2>4 DEF FrontClaimed, InMap
  <2>6. WaitingIn(l) = Tail(s) /\ WaitingIn(l)' = Tail(RemoveAt(s, i))
    BY <1>6, <1>10, <2>5 DEF WaitingIn
  <2> QED BY <1>1, <1>3, <1>7, <1>8, <2>3, <2>6, IsWithdrawal DEF l
<1>11. CASE ~ FrontClaimed(l)
  <2>1. ~ FrontClaimed(l)'
    <3>1. ASSUME FrontClaimed(l)' PROVE FALSE
      <4>1. /\ tx'[l] = w
            /\ wpc[w] \in {"running", "note", "unregister", "release"}
            /\ RemoveAt(s, i) # <<>> /\ Head(RemoveAt(s, i)) = task[w]
        BY <1>3, <1>4, <1>6, <3>1 DEF FrontClaimed, InMap
      <4>2. 1 \in 1 .. Len(s) - 1 /\ Head(RemoveAt(s, i)) = RemoveAt(s, i)[1]
        <5> DEFINE u == RemoveAt(s, i)
        <5>1. u \in Seq(Runs) /\ u # <<>> /\ Len(u) = Len(s) - 1
          BY <1>5, <4>1
        <5> HIDE DEF u, s
        <5>2. Len(u) # 0 /\ Head(u) = u[1]
          BY <5>1, EmptySeq, HeadTailProperties
        <5> QED BY <1>1, <5>1, <5>2 DEF u
      <4>3. task[w] = IF 1 < i THEN s[1] ELSE s[2]
        BY <1>1, <1>2, <4>1, <4>2, RemoveAtProperties
      <4>4. Contains(s, task[w])
        BY <1>1, <1>2, <4>2, <4>3 DEF Contains
      <4>5. Head(s) = task[w]
        BY <1>1, <4>1, <4>4, HeldIsFront DEF Busy
      <4> QED BY <1>1, <1>5, <1>11, <4>1, <4>5 DEF FrontClaimed
    <3> QED BY <3>1
  <2>2. WaitingIn(l) = s /\ WaitingIn(l)' = RemoveAt(s, i)
    BY <1>6, <1>11, <2>1 DEF WaitingIn
  <2> QED BY <1>1, <1>2, <1>3, <1>7, <1>8, <2>2, IsWithdrawal
<1> QED BY <1>9, <1>10, <1>11

LEMMA PromiseInit == Init => Promise!Init
<1> SUFFICES ASSUME Init PROVE Promise!Init
  OBVIOUS
<1>1. ASSUME NEW l \in Lanes PROVE WaitingIn(l) = <<>> /\ ActiveIn(l) = NoRun
  BY DEF Init, WaitingIn, FrontClaimed, InMap, ActiveIn, Executing
<1>2. {r \in Runs : phase[r] = "queued"} = {}
  BY DEF Init
<1> QED BY <1>1, <1>2 DEF Promise!Init

\* While no removal races, every step of the queue is a step of PersonaLanes
\* or none.
LEMMA StepMaps ==
    IInv /\ raced = {} /\ IInv' /\ [Next /\ raced' = {}]_vars =>
        [Promise!Next]_(Promise!vars)
<1> SUFFICES ASSUME IInv, raced = {}, IInv', [Next /\ raced' = {}]_vars
             PROVE  Promise!Next \/ UNCHANGED Promise!vars
  OBVIOUS
<1>1. raced' = {}
  BY DEF vars, histVars
<1>2. Serialized
  BY Serial DEF SerializedUnlessRaced
<1>3. Serialized'
  <2>1. SerializedUnlessRaced'
    BY SerialNext
  <2> QED BY <1>1, <2>1 DEF SerializedUnlessRaced
<1>4. TypeOK
  BY DEF IInv
<1>5. CASE AtRest \/ UNCHANGED vars
  <2>1. UNCHANGED <<tx, items, wpc, task, phase>>
    BY <1>5 DEF AtRest, vars, laneVars, workVars
  <2>2. \A k \in Lanes : WaitingIn(k)' = WaitingIn(k)
    BY <2>1 DEF WaitingIn, FrontClaimed, InMap
  <2>3. \A k \in Lanes : ActiveIn(k)' = ActiveIn(k)
    BY <1>2, <1>3, <2>1, ActiveKeepsAt DEF Executing
  <2> QED BY <2>1, <2>2, <2>3, IsStutter
<1>6. ASSUME NEW r \in Runs,
             Reject(r) \/ Register(r) \/ RequestCancel(r) \/ RemoveLookup(r)
                \/ RemoveRefuse(r)
      PROVE  UNCHANGED Promise!vars
  <2>1. UNCHANGED <<tx, items, wpc, task>>
    BY <1>6 DEF Reject, Register, RequestCancel, RemoveLookup, RemoveRefuse,
                laneVars, workVars
  <2>2. \A q \in Runs : phase'[q] = "queued" <=> phase[q] = "queued"
    BY <1>4, <1>6 DEF TypeOK, Reject, Register, RequestCancel, RemoveLookup, RemoveRefuse
  <2>3. \A k \in Lanes : WaitingIn(k)' = WaitingIn(k)
    BY <2>1 DEF WaitingIn, FrontClaimed, InMap
  <2>4. \A k \in Lanes : ActiveIn(k)' = ActiveIn(k)
    BY <1>2, <1>3, <2>1, ActiveKeepsAt DEF Executing
  <2> QED BY <2>2, <2>3, <2>4, IsStutter
<1>7. ASSUME NEW w \in Runs,
             Recv(w) \/ Exit(w) \/ CheckSkip(w) \/ NoteLaneError(w) \/ Unregister(w)
      PROVE  Promise!Next \/ UNCHANGED Promise!vars
  <2>1. UNCHANGED <<tx, items, phase>>
    BY <1>7 DEF Recv, Exit, CheckSkip, NoteLaneError, Unregister, laneVars
  <2>2. /\ \A v \in Runs \ {w} : wpc'[v] = wpc[v] /\ task'[v] = task[v]
        /\ wpc[w] \in Busy => task'[w] = task[w]
    BY <1>4, <1>7, GotoDef
    DEF TypeOK, Busy, Recv, Exit, CheckSkip, NoteLaneError, Unregister
  <2>3. \/ wpc[w] = "recv" /\ wpc'[w] \in {"check", "exit"}
        \/ wpc[w] = "check" /\ wpc'[w] \in {"unregister", "mark"}
        \/ wpc[w] = "note" /\ wpc'[w] = "unregister"
        \/ wpc[w] = "unregister" /\ wpc'[w] = "release"
    BY <1>4, <1>7, GotoDef DEF Recv, Exit, CheckSkip, NoteLaneError, Unregister
  <2> QED BY <1>2, <1>3, <2>1, <2>2, <2>3, MoveMaps
<1>8. ASSUME NEW r \in Runs, Enqueue(r) \/ Worker(r) \/ Request(r)
      PROVE  Promise!Next \/ UNCHANGED Promise!vars
  BY <1>1, <1>2, <1>3, <1>6, <1>7, <1>8, PushMaps, MarkRunningMaps, TaskEndsMaps,
     ReleaseMaps, RemoveAcceptMaps
  DEF Enqueue, Worker, Request
<1> QED BY <1>5, <1>8 DEF Next

\* The queue on behaviours without a raced removal implements what ARCHITECTURE.md
\* promises of its lanes, but for the progress: every step of the code is one of
\* PersonaLanes (a submission, a start of the front run of a free lane, an end, a
\* withdrawal) or leaves the promise's state alone.
THEOREM KeepsPromiseSafely ==
    NoRaceSpec => Promise!Init /\ [][Promise!Next]_(Promise!vars)
<1>1. Init => IInv /\ raced = {}
  BY InitInv DEF Init
<1>2. IInv /\ raced = {} /\ [Next /\ raced' = {}]_vars => (IInv /\ raced = {})'
  <2>1. [Next /\ raced' = {}]_vars => [Next]_vars
    OBVIOUS
  <2>2. raced = {} /\ [Next /\ raced' = {}]_vars => raced' = {}
    BY DEF vars, histVars
  <2> QED BY <2>1, <2>2, StepInv
<1> QED BY <1>1, <1>2, PromiseInit, StepMaps, PTL DEF NoRaceSpec

=============================================================================
