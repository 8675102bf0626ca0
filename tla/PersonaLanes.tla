---------------------------- MODULE PersonaLanes ----------------------------
(***************************************************************************)
(* What the chat run queue promises (ARCHITECTURE.md, "one FIFO worker per *)
(* (canonical chat_id, persona_id)"): every lane executes one run at a     *)
(* time, in the order of arrival; a run that still waits may be withdrawn; *)
(* whatever waits is eventually taken and whatever executes ends.          *)
(***************************************************************************)
EXTENDS Naturals, Sequences, SequencesExt

CONSTANTS Runs, Lanes, LaneOf, NoRun

VARIABLES
    waiting,    \* waiting[l]: runs that wait, in order of arrival
    active,     \* active[l]: the run that executes, or NoRun
    submitted   \* runs ever handed to the queue

vars == <<waiting, active, submitted>>

Init ==
    /\ waiting = [l \in Lanes |-> <<>>]
    /\ active = [l \in Lanes |-> NoRun]
    /\ submitted = {}

Submit(r) ==
    /\ r \notin submitted
    /\ submitted' = submitted \union {r}
    /\ waiting' = [waiting EXCEPT ![LaneOf[r]] = Append(@, r)]
    /\ UNCHANGED active

Start(l) ==
    /\ active[l] = NoRun
    /\ waiting[l] # <<>>
    /\ active' = [active EXCEPT ![l] = Head(waiting[l])]
    /\ waiting' = [waiting EXCEPT ![l] = Tail(@)]
    /\ UNCHANGED submitted

Finish(l) ==
    /\ active[l] # NoRun
    /\ active' = [active EXCEPT ![l] = NoRun]
    /\ UNCHANGED <<waiting, submitted>>

Withdraw(l) ==
    \E i \in 1 .. Len(waiting[l]) :
        /\ waiting' = [waiting EXCEPT ![l] = RemoveAt(@, i)]
        /\ UNCHANGED <<active, submitted>>

Next ==
    \/ \E r \in Runs : Submit(r)
    \/ \E l \in Lanes : Start(l) \/ Finish(l) \/ Withdraw(l)

Spec ==
    /\ Init
    /\ [][Next]_vars
    /\ \A l \in Lanes : WF_vars(Start(l)) /\ WF_vars(Finish(l))
=============================================================================
