---------------------------- MODULE ShellJobsProofs ----------------------------
(***************************************************************************)
(* Proofs about ShellJobs: for any parties that may finalize the job, any  *)
(* allowance of retries, and any number of restarts, failed calls,          *)
(* deliveries and writes.                                                  *)
(***************************************************************************)
EXTENDS ShellJobs, FiniteSetTheorems, TLAPS

\* The types of the variables; the bounds of the model play no role.
Types ==
    /\ row \in Row
    /\ session \in {"none", "starting", "alive", "gone"}
    /\ exit \in {"none", "torn", "ok", "bad"}
    /\ starter \in {"idle", "spawn", "claim", "register", "ack", "tell", "over", "lost"}
    /\ reg \in {"no", "yes", "flagged"}
    /\ pc \in [Parties -> Stages]
    /\ snap \in [Parties -> Row]
    /\ code \in [Parties -> {"ok", "bad"}]
    /\ user \in {"idle", "kill", "flag", "mark", "notice", "record", "finish", "over"}
    /\ summaries \in Nat /\ retries \in Nat
    /\ told \in Told
    /\ faults \in Nat

Busy(f) == pc[f] \notin {"idle", "sweep"}
Starting == starter \notin {"idle", "over", "lost"}
Cancelling == user \notin {"idle", "over"}
Wrapping == exit = "torn" /\ session = "alive"

\* At most one is at work on the job.
OneAtWork ==
    /\ \A f \in Parties : Busy(f) =>
        /\ \A g \in Parties \ {f} : ~Busy(g)
        /\ ~Starting /\ ~Cancelling /\ ~Wrapping
    /\ Starting => ~Cancelling /\ ~Wrapping
    /\ Cancelling => ~Wrapping

\* Agent jobs are enqueued within their allowance, also the one being prepared.
Allowed ==
    /\ summaries <= 1 /\ retries <= MaxAgentJobs
    /\ \A f \in Parties : pc[f] \in {"stage", "slot", "create"} =>
        IF code[f] = "ok" THEN summaries < 1 ELSE retries < MaxAgentJobs

\* Who may yet overwrite the status works on a row that is not done.
Unfinished ==
    row.status = "done" =>
        /\ starter \notin {"spawn", "claim"}
        /\ user \notin {"kill", "flag", "mark"}
        /\ \A f \in Parties : pc[f] \notin {"probe", "fail", "flag", "exit", "mark"}

\* The exit code is written, or nobody will write it any more.
Sealed == exit \in {"ok", "bad"} \/ session = "gone"

\* The starter's session is there before anybody looks at the job; an exit code
\* is read when it is sealed.
Truthful ==
    /\ starter \notin {"tell", "lost"}
    /\ starter = "idle" =>
        row.status = "none" /\ ~watching /\ user = "idle" /\ \A f \in Parties : pc[f] = "idle"
    /\ row.status = "pending" <=> starter \in {"spawn", "claim"}
    /\ starter \in {"idle", "spawn"} => session = "none" /\ told # "failure"
    /\ starter \notin {"idle", "spawn"} => session # "none"
    /\ starter = "over" => session # "starting"
    /\ \A f \in Parties :
        /\ pc[f] \notin {"sweep", "notify"}
        /\ pc[f] \notin {"idle", "probe"} => Sealed
        /\ pc[f] \notin {"idle", "probe", "fail", "check", "flag", "exit"} /\ code[f] = "bad" => exit # "ok"
    /\ told = "failure" => Sealed /\ exit # "ok"

IInv ==
    /\ Types
    /\ ~overlapped => OneAtWork /\ Allowed /\ Unfinished /\ (faults = 0 => Truthful)


\* A step, whoever meets.
Step ==
    \/ Create \/ SpawnSession \/ Claim \/ StartFails \/ ClaimRejected \/ TellStartFailed
    \/ Register \/ StartWatcher \/ Tmux \/ SessionDies \/ WatcherWakes \/ FailAbandoned
    \/ CancelAsked \/ KillSession \/ RequestCancel \/ MarkCancelled \/ CancelNotice
    \/ RecordNotice \/ FinishCancel \/ Restart
    \/ \E f \in Parties :
        \/ ListJob(f) \/ Sweep(f) \/ Notify(f) \/ Probe(f) \/ FailRow(f) \/ Check(f)
        \/ Flag(f) \/ ReadExit(f) \/ Mark(f) \/ CountAgents(f) \/ MarkStage(f)
        \/ FindSlot(f) \/ CreateAgentJob(f) \/ Deliver(f) \/ DeliveryFails(f)
        \/ FailUndelivered(f) \/ Record(f)


\* The rows that are written are rows.
LEMMA RowsWritten ==
    /\ [NoRow EXCEPT !.status = "pending"] \in Row /\ NoRow \in Row
    /\ \A ok \in BOOLEAN :
        [status |-> IF ok THEN "done" ELSE "failed", result |-> TRUE, stage |-> "plain"] \in Row
    /\ \A r \in Row :
        /\ [r EXCEPT !.status = "running"] \in Row
        /\ [r EXCEPT !.status = "failed", !.stage = "plain"] \in Row
        /\ [r EXCEPT !.status = "cancelled", !.stage = "plain"] \in Row
        /\ [r EXCEPT !.result = TRUE, !.stage = "user_notified"] \in Row
        /\ \A s \in {"summary", "retry"} : [r EXCEPT !.stage = s] \in Row
  BY DEF Row, NoRow, Ended

LEMMA NoRowIsRow == NoRow \in Row
  BY DEF Row, NoRow

Taken ==
    /\ pc \in [Parties -> Stages] /\ snap \in [Parties -> Row]
    /\ code \in [Parties -> {"ok", "bad"}]

\* Only rows are written.
LEMMA RowStep ==
    ASSUME row \in Row, Step
    PROVE  row' \in Row
<1>1. CASE Create
  BY <1>1, RowsWritten DEF Create, rowVars, tmuxVars, finVars, agentVars
<1>2. CASE SpawnSession
  BY <1>2 DEF SpawnSession, rowVars, tmuxVars, finVars, agentVars
<1>3. CASE Claim
  BY <1>3, RowsWritten DEF Claim, rowVars, tmuxVars, finVars, agentVars
<1>4. CASE StartFails
  BY <1>4, RowsWritten DEF StartFails, rowVars, tmuxVars, finVars, agentVars, Fault,
      Fail
<1>5. CASE ClaimRejected
  BY <1>5, RowsWritten DEF ClaimRejected, rowVars, tmuxVars, finVars, agentVars, Tried,
      Fault, Fail
<1>6. CASE TellStartFailed
  BY <1>6, RowsWritten DEF TellStartFailed, rowVars, tmuxVars, finVars, agentVars,
      Tried, Fault, Notified, TellUser, NotTold
<1>7. CASE Register
  BY <1>7 DEF Register, rowVars, tmuxVars, finVars, agentVars
<1>8. CASE StartWatcher
  BY <1>8 DEF StartWatcher, rowVars, tmuxVars, finVars, agentVars
<1>9. CASE Tmux
  BY <1>9 DEF Tmux, rowVars, tmuxVars, finVars, agentVars, TmuxStarts, CommandEnds,
      WriteExit, SessionEnds
<1>10. CASE SessionDies
  BY <1>10 DEF SessionDies, rowVars, tmuxVars, finVars, agentVars, Fault
<1>11. CASE WatcherWakes
  BY <1>11 DEF WatcherWakes, rowVars, tmuxVars, finVars, agentVars, Enter,
      NeedsNotification
<1>12. CASE FailAbandoned
  BY <1>12, RowsWritten DEF FailAbandoned, rowVars, tmuxVars, finVars, agentVars,
      WithoutHeartbeat, Fail, Enter
<1>13. ASSUME NEW f \in Parties, ListJob(f) PROVE row' \in Row
  BY <1>13 DEF ListJob, rowVars, tmuxVars, finVars, agentVars, Enter
<1>14. ASSUME NEW f \in Parties, Sweep(f) PROVE row' \in Row
  BY <1>14 DEF Sweep, rowVars, tmuxVars, finVars, agentVars, Enter
<1>15. ASSUME NEW f \in Parties, Notify(f) PROVE row' \in Row
  BY <1>15 DEF Notify, rowVars, tmuxVars, finVars, agentVars, NeedsNotification, Enter
<1>16. ASSUME NEW f \in Parties, Probe(f) PROVE row' \in Row
  BY <1>16 DEF Probe, rowVars, tmuxVars, finVars, agentVars, Enter, Goto
<1>17. ASSUME NEW f \in Parties, FailRow(f) PROVE row' \in Row
  BY <1>17, RowsWritten DEF FailRow, rowVars, tmuxVars, finVars, agentVars, Tried,
      Fault, Fail, Enter, Goto
<1>18. ASSUME NEW f \in Parties, Check(f) PROVE row' \in Row
  BY <1>18 DEF Check, rowVars, tmuxVars, finVars, agentVars, NeedsNotification, Enter,
      Goto
<1>19. ASSUME NEW f \in Parties, Flag(f) PROVE row' \in Row
  BY <1>19, RowsWritten DEF Flag, rowVars, tmuxVars, finVars, agentVars, Tried, Fault,
      Cancelled, Enter, Goto
<1>20. ASSUME NEW f \in Parties, ReadExit(f) PROVE row' \in Row
  BY <1>20 DEF ReadExit, rowVars, tmuxVars, finVars, agentVars, Enter
<1>21. ASSUME NEW f \in Parties, Mark(f) PROVE row' \in Row
  BY <1>21, RowsWritten DEF Mark, rowVars, tmuxVars, finVars, agentVars, Tried, Fault,
      Finished, Enter, Goto
<1>22. ASSUME NEW f \in Parties, CountAgents(f) PROVE row' \in Row
  BY <1>22 DEF CountAgents, rowVars, tmuxVars, finVars, agentVars, EnqueuedBefore,
      Enter, Goto
<1>23. ASSUME NEW f \in Parties, MarkStage(f) PROVE row' \in Row
  BY <1>23, RowsWritten DEF MarkStage, rowVars, tmuxVars, finVars, agentVars, Tried,
      Fault, AgentStage, Enter, Goto
<1>24. ASSUME NEW f \in Parties, FindSlot(f) PROVE row' \in Row
  BY <1>24 DEF FindSlot, rowVars, tmuxVars, finVars, agentVars, Enter, Goto
<1>25. ASSUME NEW f \in Parties, CreateAgentJob(f) PROVE row' \in Row
  BY <1>25 DEF CreateAgentJob, rowVars, tmuxVars, finVars, agentVars, OneMore, Enter,
      Goto
<1>26. ASSUME NEW f \in Parties, Deliver(f) PROVE row' \in Row
  BY <1>26 DEF Deliver, rowVars, tmuxVars, finVars, agentVars, TellUser, Enter, Goto
<1>27. ASSUME NEW f \in Parties, DeliveryFails(f) PROVE row' \in Row
  BY <1>27 DEF DeliveryFails, rowVars, tmuxVars, finVars, agentVars, NotTold, Fault,
      Enter, Goto
<1>28. ASSUME NEW f \in Parties, FailUndelivered(f) PROVE row' \in Row
  BY <1>28, RowsWritten DEF FailUndelivered, rowVars, tmuxVars, finVars, agentVars,
      Tried, Fault, Fail, Enter, Goto
<1>29. ASSUME NEW f \in Parties, Record(f) PROVE row' \in Row
  BY <1>29, RowsWritten DEF Record, rowVars, tmuxVars, finVars, agentVars, Tried, Fault,
      Notified, Enter, Goto
<1>30. CASE CancelAsked
  BY <1>30 DEF CancelAsked, rowVars, tmuxVars, finVars, agentVars, UserStep
<1>31. CASE KillSession
  BY <1>31 DEF KillSession, rowVars, tmuxVars, finVars, agentVars, UserStep
<1>32. CASE RequestCancel
  BY <1>32 DEF RequestCancel, rowVars, tmuxVars, finVars, agentVars, UserStep
<1>33. CASE MarkCancelled
  BY <1>33, RowsWritten DEF MarkCancelled, rowVars, tmuxVars, finVars, agentVars,
      UserStep, Fault, Cancelled
<1>34. CASE CancelNotice
  BY <1>34 DEF CancelNotice, rowVars, tmuxVars, finVars, agentVars, UserStep, TellUser,
      NotTold, Fault
<1>35. CASE RecordNotice
  BY <1>35, RowsWritten DEF RecordNotice, rowVars, tmuxVars, finVars, agentVars,
      UserStep, Tried, Fault, Notified
<1>36. CASE FinishCancel
  BY <1>36 DEF FinishCancel, rowVars, tmuxVars, finVars, agentVars, UserStep
<1>37. CASE Restart
  BY <1>37 DEF Restart, rowVars, tmuxVars, finVars, agentVars, Fault, NotTold
<1> QED
  BY <1>1, <1>2, <1>3, <1>4, <1>5, <1>6, <1>7, <1>8, <1>9, <1>10, <1>11, <1>12, <1>13,
      <1>14, <1>15, <1>16, <1>17, <1>18, <1>19, <1>20, <1>21, <1>22, <1>23, <1>24,
      <1>25, <1>26, <1>27, <1>28, <1>29, <1>30, <1>31, <1>32, <1>33, <1>34, <1>35,
      <1>36, <1>37 DEF Step

\* What the parties have read keeps its type.
LEMMA PartiesStep ==
    ASSUME Types, Step
    PROVE  Taken'
<1> USE DEF Types, Stages, Taken
<1>1. CASE Create
  BY <1>1 DEF Create, rowVars, tmuxVars, finVars, agentVars
<1>2. CASE SpawnSession
  BY <1>2 DEF SpawnSession, rowVars, tmuxVars, finVars, agentVars
<1>3. CASE Claim
  BY <1>3 DEF Claim, rowVars, tmuxVars, finVars, agentVars
<1>4. CASE StartFails
  BY <1>4 DEF StartFails, rowVars, tmuxVars, finVars, agentVars, Fault, Fail
<1>5. CASE ClaimRejected
  BY <1>5 DEF ClaimRejected, rowVars, tmuxVars, finVars, agentVars, Tried, Fault, Fail
<1>6. CASE TellStartFailed
  BY <1>6 DEF TellStartFailed, rowVars, tmuxVars, finVars, agentVars, Tried, Fault,
      Notified, TellUser, NotTold
<1>7. CASE Register
  BY <1>7 DEF Register, rowVars, tmuxVars, finVars, agentVars
<1>8. CASE StartWatcher
  BY <1>8 DEF StartWatcher, rowVars, tmuxVars, finVars, agentVars
<1>9. CASE Tmux
  BY <1>9 DEF Tmux, rowVars, tmuxVars, finVars, agentVars, TmuxStarts, CommandEnds,
      WriteExit, SessionEnds
<1>10. CASE SessionDies
  BY <1>10 DEF SessionDies, rowVars, tmuxVars, finVars, agentVars, Fault
<1>11. CASE WatcherWakes
  BY <1>11, NoRowIsRow DEF WatcherWakes, rowVars, tmuxVars, finVars, agentVars, Enter,
      NeedsNotification
<1>12. CASE FailAbandoned
  BY <1>12, NoRowIsRow, RowStep DEF FailAbandoned, rowVars, tmuxVars, finVars,
      agentVars, WithoutHeartbeat, Fail, Enter, Step
<1>13. ASSUME NEW f \in Parties, ListJob(f) PROVE Taken'
  BY <1>13, NoRowIsRow DEF ListJob, rowVars, tmuxVars, finVars, agentVars, Enter
<1>14. ASSUME NEW f \in Parties, Sweep(f) PROVE Taken'
  BY <1>14, NoRowIsRow DEF Sweep, rowVars, tmuxVars, finVars, agentVars, Enter
<1>15. ASSUME NEW f \in Parties, Notify(f) PROVE Taken'
  BY <1>15, NoRowIsRow DEF Notify, rowVars, tmuxVars, finVars, agentVars,
      NeedsNotification, Enter
<1>16. ASSUME NEW f \in Parties, Probe(f) PROVE Taken'
  BY <1>16, NoRowIsRow DEF Probe, rowVars, tmuxVars, finVars, agentVars, Enter, Goto
<1>17. ASSUME NEW f \in Parties, FailRow(f) PROVE Taken'
  BY <1>17, NoRowIsRow DEF FailRow, rowVars, tmuxVars, finVars, agentVars, Tried, Fault,
      Fail, Enter, Goto
<1>18. ASSUME NEW f \in Parties, Check(f) PROVE Taken'
  BY <1>18, NoRowIsRow DEF Check, rowVars, tmuxVars, finVars, agentVars,
      NeedsNotification, Enter, Goto
<1>19. ASSUME NEW f \in Parties, Flag(f) PROVE Taken'
  BY <1>19, NoRowIsRow DEF Flag, rowVars, tmuxVars, finVars, agentVars, Tried, Fault,
      Cancelled, Enter, Goto
<1>20. ASSUME NEW f \in Parties, ReadExit(f) PROVE Taken'
  BY <1>20, NoRowIsRow DEF ReadExit, rowVars, tmuxVars, finVars, agentVars, Enter
<1>21. ASSUME NEW f \in Parties, Mark(f) PROVE Taken'
  BY <1>21, NoRowIsRow DEF Mark, rowVars, tmuxVars, finVars, agentVars, Tried, Fault,
      Finished, Enter, Goto
<1>22. ASSUME NEW f \in Parties, CountAgents(f) PROVE Taken'
  BY <1>22, NoRowIsRow DEF CountAgents, rowVars, tmuxVars, finVars, agentVars,
      EnqueuedBefore, Enter, Goto
<1>23. ASSUME NEW f \in Parties, MarkStage(f) PROVE Taken'
  BY <1>23, NoRowIsRow DEF MarkStage, rowVars, tmuxVars, finVars, agentVars, Tried,
      Fault, AgentStage, Enter, Goto
<1>24. ASSUME NEW f \in Parties, FindSlot(f) PROVE Taken'
  BY <1>24, NoRowIsRow DEF FindSlot, rowVars, tmuxVars, finVars, agentVars, Enter, Goto
<1>25. ASSUME NEW f \in Parties, CreateAgentJob(f) PROVE Taken'
  BY <1>25, NoRowIsRow DEF CreateAgentJob, rowVars, tmuxVars, finVars, agentVars,
      OneMore, Enter, Goto
<1>26. ASSUME NEW f \in Parties, Deliver(f) PROVE Taken'
  BY <1>26, NoRowIsRow DEF Deliver, rowVars, tmuxVars, finVars, agentVars, TellUser,
      Enter, Goto
<1>27. ASSUME NEW f \in Parties, DeliveryFails(f) PROVE Taken'
  BY <1>27, NoRowIsRow DEF DeliveryFails, rowVars, tmuxVars, finVars, agentVars,
      NotTold, Fault, Enter, Goto
<1>28. ASSUME NEW f \in Parties, FailUndelivered(f) PROVE Taken'
  BY <1>28, NoRowIsRow DEF FailUndelivered, rowVars, tmuxVars, finVars, agentVars,
      Tried, Fault, Fail, Enter, Goto
<1>29. ASSUME NEW f \in Parties, Record(f) PROVE Taken'
  BY <1>29, NoRowIsRow DEF Record, rowVars, tmuxVars, finVars, agentVars, Tried, Fault,
      Notified, Enter, Goto
<1>30. CASE CancelAsked
  BY <1>30 DEF CancelAsked, rowVars, tmuxVars, finVars, agentVars, UserStep
<1>31. CASE KillSession
  BY <1>31 DEF KillSession, rowVars, tmuxVars, finVars, agentVars, UserStep
<1>32. CASE RequestCancel
  BY <1>32 DEF RequestCancel, rowVars, tmuxVars, finVars, agentVars, UserStep
<1>33. CASE MarkCancelled
  BY <1>33 DEF MarkCancelled, rowVars, tmuxVars, finVars, agentVars, UserStep, Fault,
      Cancelled
<1>34. CASE CancelNotice
  BY <1>34 DEF CancelNotice, rowVars, tmuxVars, finVars, agentVars, UserStep, TellUser,
      NotTold, Fault
<1>35. CASE RecordNotice
  BY <1>35 DEF RecordNotice, rowVars, tmuxVars, finVars, agentVars, UserStep, Tried,
      Fault, Notified
<1>36. CASE FinishCancel
  BY <1>36 DEF FinishCancel, rowVars, tmuxVars, finVars, agentVars, UserStep
<1>37. CASE Restart
  BY <1>37, NoRowIsRow DEF Restart, rowVars, tmuxVars, finVars, agentVars, Fault,
      NotTold
<1> QED
  BY <1>1, <1>2, <1>3, <1>4, <1>5, <1>6, <1>7, <1>8, <1>9, <1>10, <1>11, <1>12, <1>13,
      <1>14, <1>15, <1>16, <1>17, <1>18, <1>19, <1>20, <1>21, <1>22, <1>23, <1>24,
      <1>25, <1>26, <1>27, <1>28, <1>29, <1>30, <1>31, <1>32, <1>33, <1>34, <1>35,
      <1>36, <1>37 DEF Step

\* The variables keep their types.
LEMMA TypesStep ==
    ASSUME Types, Step
    PROVE  Types'
<1> USE DEF Types, Taken, Told
<1>1. CASE Create
  BY <1>1, RowStep, PartiesStep DEF Create, rowVars, tmuxVars, finVars, agentVars
<1>2. CASE SpawnSession
  BY <1>2, RowStep, PartiesStep DEF SpawnSession, rowVars, tmuxVars, finVars, agentVars
<1>3. CASE Claim
  BY <1>3, RowStep, PartiesStep DEF Claim, rowVars, tmuxVars, finVars, agentVars
<1>4. CASE StartFails
  BY <1>4, RowStep, PartiesStep DEF StartFails, rowVars, tmuxVars, finVars, agentVars,
      Fault, Fail
<1>5. CASE ClaimRejected
  BY <1>5, RowStep, PartiesStep DEF ClaimRejected, rowVars, tmuxVars, finVars,
      agentVars, Tried, Fault, Fail
<1>6. CASE TellStartFailed
  <2>1. row' \in Row
    BY <1>6, RowStep DEF Step
  <2>2. told' \in Told
    BY <1>6 DEF TellStartFailed, TellUser, NotTold, Told
  <2>3. faults' \in Nat
    <3>1. faults' = faults \/ Fault
      BY <1>6 DEF TellStartFailed, Tried
    <3> QED
      BY <3>1 DEF Fault
  <2> QED
    BY <1>6, <2>1, <2>2, <2>3 DEF TellStartFailed, tmuxVars, finVars, agentVars
<1>7. CASE Register
  BY <1>7, RowStep, PartiesStep DEF Register, rowVars, tmuxVars, finVars, agentVars
<1>8. CASE StartWatcher
  BY <1>8, RowStep, PartiesStep DEF StartWatcher, rowVars, tmuxVars, finVars, agentVars
<1>9. CASE Tmux
  BY <1>9, RowStep, PartiesStep DEF Tmux, rowVars, tmuxVars, finVars, agentVars,
      TmuxStarts, CommandEnds, WriteExit, SessionEnds
<1>10. CASE SessionDies
  BY <1>10, RowStep, PartiesStep DEF SessionDies, rowVars, tmuxVars, finVars, agentVars,
      Fault
<1>11. CASE WatcherWakes
  BY <1>11, RowStep, PartiesStep DEF WatcherWakes, rowVars, tmuxVars, finVars,
      agentVars, Enter, NeedsNotification
<1>12. CASE FailAbandoned
  BY <1>12, RowStep, PartiesStep DEF FailAbandoned, rowVars, tmuxVars, finVars,
      agentVars, WithoutHeartbeat, Fail, Enter
<1>13. ASSUME NEW f \in Parties, ListJob(f) PROVE Types'
  BY <1>13, RowStep, PartiesStep DEF ListJob, rowVars, tmuxVars, finVars, agentVars,
      Enter
<1>14. ASSUME NEW f \in Parties, Sweep(f) PROVE Types'
  BY <1>14, RowStep, PartiesStep DEF Sweep, rowVars, tmuxVars, finVars, agentVars, Enter
<1>15. ASSUME NEW f \in Parties, Notify(f) PROVE Types'
  BY <1>15, RowStep, PartiesStep DEF Notify, rowVars, tmuxVars, finVars, agentVars,
      NeedsNotification, Enter
<1>16. ASSUME NEW f \in Parties, Probe(f) PROVE Types'
  BY <1>16, RowStep, PartiesStep DEF Probe, rowVars, tmuxVars, finVars, agentVars,
      Enter, Goto
<1>17. ASSUME NEW f \in Parties, FailRow(f) PROVE Types'
  BY <1>17, RowStep, PartiesStep DEF FailRow, rowVars, tmuxVars, finVars, agentVars,
      Tried, Fault, Fail, Enter, Goto
<1>18. ASSUME NEW f \in Parties, Check(f) PROVE Types'
  BY <1>18, RowStep, PartiesStep DEF Check, rowVars, tmuxVars, finVars, agentVars,
      NeedsNotification, Enter, Goto
<1>19. ASSUME NEW f \in Parties, Flag(f) PROVE Types'
  BY <1>19, RowStep, PartiesStep DEF Flag, rowVars, tmuxVars, finVars, agentVars, Tried,
      Fault, Cancelled, Enter, Goto
<1>20. ASSUME NEW f \in Parties, ReadExit(f) PROVE Types'
  BY <1>20, RowStep, PartiesStep DEF ReadExit, rowVars, tmuxVars, finVars, agentVars,
      Enter
<1>21. ASSUME NEW f \in Parties, Mark(f) PROVE Types'
  BY <1>21, RowStep, PartiesStep DEF Mark, rowVars, tmuxVars, finVars, agentVars, Tried,
      Fault, Finished, Enter, Goto
<1>22. ASSUME NEW f \in Parties, CountAgents(f) PROVE Types'
  BY <1>22, RowStep, PartiesStep DEF CountAgents, rowVars, tmuxVars, finVars, agentVars,
      EnqueuedBefore, Enter, Goto
<1>23. ASSUME NEW f \in Parties, MarkStage(f) PROVE Types'
  BY <1>23, RowStep, PartiesStep DEF MarkStage, rowVars, tmuxVars, finVars, agentVars,
      Tried, Fault, AgentStage, Enter, Goto
<1>24. ASSUME NEW f \in Parties, FindSlot(f) PROVE Types'
  BY <1>24, RowStep, PartiesStep DEF FindSlot, rowVars, tmuxVars, finVars, agentVars,
      Enter, Goto
<1>25. ASSUME NEW f \in Parties, CreateAgentJob(f) PROVE Types'
  BY <1>25, RowStep, PartiesStep DEF CreateAgentJob, rowVars, tmuxVars, finVars,
      agentVars, OneMore, Enter, Goto
<1>26. ASSUME NEW f \in Parties, Deliver(f) PROVE Types'
  BY <1>26, RowStep, PartiesStep DEF Deliver, rowVars, tmuxVars, finVars, agentVars,
      TellUser, Enter, Goto
<1>27. ASSUME NEW f \in Parties, DeliveryFails(f) PROVE Types'
  BY <1>27, RowStep, PartiesStep DEF DeliveryFails, rowVars, tmuxVars, finVars,
      agentVars, NotTold, Fault, Enter, Goto
<1>28. ASSUME NEW f \in Parties, FailUndelivered(f) PROVE Types'
  BY <1>28, RowStep, PartiesStep DEF FailUndelivered, rowVars, tmuxVars, finVars,
      agentVars, Tried, Fault, Fail, Enter, Goto
<1>29. ASSUME NEW f \in Parties, Record(f) PROVE Types'
  BY <1>29, RowStep, PartiesStep DEF Record, rowVars, tmuxVars, finVars, agentVars,
      Tried, Fault, Notified, Enter, Goto
<1>30. CASE CancelAsked
  BY <1>30, RowStep, PartiesStep DEF CancelAsked, rowVars, tmuxVars, finVars, agentVars,
      UserStep
<1>31. CASE KillSession
  BY <1>31, RowStep, PartiesStep DEF KillSession, rowVars, tmuxVars, finVars, agentVars,
      UserStep
<1>32. CASE RequestCancel
  BY <1>32, RowStep, PartiesStep DEF RequestCancel, rowVars, tmuxVars, finVars,
      agentVars, UserStep
<1>33. CASE MarkCancelled
  BY <1>33, RowStep, PartiesStep DEF MarkCancelled, rowVars, tmuxVars, finVars,
      agentVars, UserStep, Fault, Cancelled
<1>34. CASE CancelNotice
  BY <1>34, RowStep, PartiesStep DEF CancelNotice, rowVars, tmuxVars, finVars,
      agentVars, UserStep, TellUser, NotTold, Fault
<1>35. CASE RecordNotice
  BY <1>35, RowStep, PartiesStep DEF RecordNotice, rowVars, tmuxVars, finVars,
      agentVars, UserStep, Tried, Fault, Notified
<1>36. CASE FinishCancel
  BY <1>36, RowStep, PartiesStep DEF FinishCancel, rowVars, tmuxVars, finVars,
      agentVars, UserStep
<1>37. CASE Restart
  BY <1>37, RowStep, PartiesStep DEF Restart, rowVars, tmuxVars, finVars, agentVars,
      Fault, NotTold
<1> QED
  BY <1>1, <1>2, <1>3, <1>4, <1>5, <1>6, <1>7, <1>8, <1>9, <1>10, <1>11, <1>12, <1>13,
      <1>14, <1>15, <1>16, <1>17, <1>18, <1>19, <1>20, <1>21, <1>22, <1>23, <1>24,
      <1>25, <1>26, <1>27, <1>28, <1>29, <1>30, <1>31, <1>32, <1>33, <1>34, <1>35,
      <1>36, <1>37 DEF Step

Met == Cardinality(AtWork) > 1

\* Two who are at work meet.
LEMMA Meets == Types /\ ~Met => OneAtWork
<1> SUFFICES ASSUME Types, ~Met PROVE OneAtWork
  OBVIOUS
<1>1. IsFiniteSet(AtWork)
  <2> DEFINE Loops == {"watcher"} \union {"monitor"} \union {"scheduler"}
             All == Loops \union {"starter"} \union {"user"} \union {"wrapper"}
  <2>1. IsFiniteSet(Loops)
    BY FS_Singleton, FS_AddElement
  <2>2. AtWork \subseteq All
    BY ShellAssumption DEF AtWork
  <2>3. IsFiniteSet(All)
    <3> HIDE DEF Loops
    <3> QED
      BY <2>1, FS_AddElement
  <2> QED
    BY <2>2, <2>3, FS_Subset
<1>2. ASSUME NEW x \in AtWork, NEW y \in AtWork PROVE x = y
  <2>1. SUFFICES ASSUME x # y PROVE FALSE
    OBVIOUS
  <2>2. IsFiniteSet({x}) /\ Cardinality({x}) = 1 /\ y \notin {x}
    BY <2>1, FS_Singleton
  <2>3. Cardinality({x} \union {y}) = 2
    BY <2>2, FS_AddElement
  <2>4. {x} \union {y} \subseteq AtWork
    OBVIOUS
  <2>5. Cardinality({x} \union {y}) <= Cardinality(AtWork)
    BY <1>1, <2>4, FS_Subset
  <2>6. Cardinality(AtWork) \in Nat
    BY <1>1, FS_CardinalityType
  <2> QED
    BY <2>3, <2>5, <2>6 DEF Met
<1>3. /\ \A f \in Parties : Busy(f) => f \in AtWork
      /\ Starting => "starter" \in AtWork
      /\ Cancelling => "user" \in AtWork
      /\ Wrapping => "wrapper" \in AtWork
  BY DEF Busy, Starting, Cancelling, Wrapping, AtWork
<1>4. \A f \in Parties : f \notin {"starter", "user", "wrapper"}
  BY ShellAssumption
<1>5. ~("starter" \in AtWork /\ "user" \in AtWork) /\ ~("starter" \in AtWork /\ "wrapper" \in AtWork)
      /\ ~("user" \in AtWork /\ "wrapper" \in AtWork)
  BY <1>2
<1>6. ASSUME NEW f \in Parties, Busy(f)
      PROVE  (\A g \in Parties \ {f} : ~Busy(g)) /\ ~Starting /\ ~Cancelling /\ ~Wrapping
  BY <1>2, <1>3, <1>4, <1>6
<1> QED
  BY <1>3, <1>5, <1>6 DEF OneAtWork

\* A step of the specification is a step; if nobody has met, one is at work.
LEMMA Steps ==
    ASSUME [Next]_vars
    PROVE  UNCHANGED vars \/ (Step /\ overlapped' = (overlapped \/ Met'))
  BY DEF Met, Next, Tracked, Step, StarterStep, Round, Finalize, UserStepAny


\* No agent job is enqueued beyond the allowance.
LEMMA AllowedStep ==
    ASSUME Types, OneAtWork, Step, OneAtWork', Allowed
    PROVE  Allowed'
<1> USE DEF Allowed, Types, Stages, OneAtWork, Busy, Starting, Cancelling, Wrapping
<1>1. CASE Create
  BY <1>1 DEF Create, rowVars, tmuxVars, finVars, agentVars
<1>2. CASE SpawnSession
  BY <1>2 DEF SpawnSession, rowVars, tmuxVars, finVars, agentVars
<1>3. CASE Claim
  BY <1>3 DEF Claim, rowVars, tmuxVars, finVars, agentVars
<1>4. CASE StartFails
  BY <1>4 DEF StartFails, rowVars, tmuxVars, finVars, agentVars, Fault, Fail
<1>5. CASE ClaimRejected
  BY <1>5 DEF ClaimRejected, rowVars, tmuxVars, finVars, agentVars, Tried, Fault, Fail
<1>6. CASE TellStartFailed
  BY <1>6 DEF TellStartFailed, rowVars, tmuxVars, finVars, agentVars, Tried, Fault,
      Notified, TellUser, NotTold
<1>7. CASE Register
  BY <1>7 DEF Register, rowVars, tmuxVars, finVars, agentVars
<1>8. CASE StartWatcher
  BY <1>8 DEF StartWatcher, rowVars, tmuxVars, finVars, agentVars
<1>9. CASE Tmux
  BY <1>9 DEF Tmux, rowVars, tmuxVars, finVars, agentVars, TmuxStarts, CommandEnds,
      WriteExit, SessionEnds
<1>10. CASE SessionDies
  BY <1>10 DEF SessionDies, rowVars, tmuxVars, finVars, agentVars, Fault
<1>11. CASE WatcherWakes
  BY <1>11 DEF WatcherWakes, rowVars, tmuxVars, finVars, agentVars, Enter,
      NeedsNotification
<1>12. CASE FailAbandoned
  BY <1>12 DEF FailAbandoned, rowVars, tmuxVars, finVars, agentVars, WithoutHeartbeat,
      Fail, Enter
<1>13. ASSUME NEW f \in Parties, ListJob(f) PROVE Allowed'
  BY <1>13 DEF ListJob, rowVars, tmuxVars, finVars, agentVars, Enter
<1>14. ASSUME NEW f \in Parties, Sweep(f) PROVE Allowed'
  BY <1>14 DEF Sweep, rowVars, tmuxVars, finVars, agentVars, Enter
<1>15. ASSUME NEW f \in Parties, Notify(f) PROVE Allowed'
  BY <1>15 DEF Notify, rowVars, tmuxVars, finVars, agentVars, NeedsNotification, Enter
<1>16. ASSUME NEW f \in Parties, Probe(f) PROVE Allowed'
  BY <1>16 DEF Probe, rowVars, tmuxVars, finVars, agentVars, Enter, Goto
<1>17. ASSUME NEW f \in Parties, FailRow(f) PROVE Allowed'
  BY <1>17 DEF FailRow, rowVars, tmuxVars, finVars, agentVars, Tried, Fault, Fail,
      Enter, Goto
<1>18. ASSUME NEW f \in Parties, Check(f) PROVE Allowed'
  BY <1>18 DEF Check, rowVars, tmuxVars, finVars, agentVars, NeedsNotification, Enter,
      Goto
<1>19. ASSUME NEW f \in Parties, Flag(f) PROVE Allowed'
  BY <1>19 DEF Flag, rowVars, tmuxVars, finVars, agentVars, Tried, Fault, Cancelled,
      Enter, Goto
<1>20. ASSUME NEW f \in Parties, ReadExit(f) PROVE Allowed'
  BY <1>20 DEF ReadExit, rowVars, tmuxVars, finVars, agentVars, Enter
<1>21. ASSUME NEW f \in Parties, Mark(f) PROVE Allowed'
  BY <1>21 DEF Mark, rowVars, tmuxVars, finVars, agentVars, Tried, Fault, Finished,
      Enter, Goto
<1>22. ASSUME NEW f \in Parties, CountAgents(f) PROVE Allowed'
  BY <1>22, ShellAssumption DEF CountAgents, rowVars, tmuxVars, finVars, agentVars,
      EnqueuedBefore, Enter, Goto
<1>23. ASSUME NEW f \in Parties, MarkStage(f) PROVE Allowed'
  BY <1>23 DEF MarkStage, rowVars, tmuxVars, finVars, agentVars, Tried, Fault,
      AgentStage, Enter, Goto
<1>24. ASSUME NEW f \in Parties, FindSlot(f) PROVE Allowed'
  BY <1>24 DEF FindSlot, rowVars, tmuxVars, finVars, agentVars, Enter, Goto
<1>25. ASSUME NEW f \in Parties, CreateAgentJob(f) PROVE Allowed'
  BY <1>25, ShellAssumption DEF CreateAgentJob, rowVars, tmuxVars, finVars, agentVars,
      OneMore, Enter, Goto
<1>26. ASSUME NEW f \in Parties, Deliver(f) PROVE Allowed'
  BY <1>26 DEF Deliver, rowVars, tmuxVars, finVars, agentVars, TellUser, Enter, Goto
<1>27. ASSUME NEW f \in Parties, DeliveryFails(f) PROVE Allowed'
  BY <1>27 DEF DeliveryFails, rowVars, tmuxVars, finVars, agentVars, NotTold, Fault,
      Enter, Goto
<1>28. ASSUME NEW f \in Parties, FailUndelivered(f) PROVE Allowed'
  BY <1>28 DEF FailUndelivered, rowVars, tmuxVars, finVars, agentVars, Tried, Fault,
      Fail, Enter, Goto
<1>29. ASSUME NEW f \in Parties, Record(f) PROVE Allowed'
  BY <1>29 DEF Record, rowVars, tmuxVars, finVars, agentVars, Tried, Fault, Notified,
      Enter, Goto
<1>30. CASE CancelAsked
  BY <1>30 DEF CancelAsked, rowVars, tmuxVars, finVars, agentVars, UserStep
<1>31. CASE KillSession
  BY <1>31 DEF KillSession, rowVars, tmuxVars, finVars, agentVars, UserStep
<1>32. CASE RequestCancel
  BY <1>32 DEF RequestCancel, rowVars, tmuxVars, finVars, agentVars, UserStep
<1>33. CASE MarkCancelled
  BY <1>33 DEF MarkCancelled, rowVars, tmuxVars, finVars, agentVars, UserStep, Fault,
      Cancelled
<1>34. CASE CancelNotice
  BY <1>34 DEF CancelNotice, rowVars, tmuxVars, finVars, agentVars, UserStep, TellUser,
      NotTold, Fault
<1>35. CASE RecordNotice
  BY <1>35 DEF RecordNotice, rowVars, tmuxVars, finVars, agentVars, UserStep, Tried,
      Fault, Notified
<1>36. CASE FinishCancel
  BY <1>36 DEF FinishCancel, rowVars, tmuxVars, finVars, agentVars, UserStep
<1>37. CASE Restart
  BY <1>37 DEF Restart, rowVars, tmuxVars, finVars, agentVars, Fault, NotTold
<1> QED
  BY <1>1, <1>2, <1>3, <1>4, <1>5, <1>6, <1>7, <1>8, <1>9, <1>10, <1>11, <1>12, <1>13,
      <1>14, <1>15, <1>16, <1>17, <1>18, <1>19, <1>20, <1>21, <1>22, <1>23, <1>24,
      <1>25, <1>26, <1>27, <1>28, <1>29, <1>30, <1>31, <1>32, <1>33, <1>34, <1>35,
      <1>36, <1>37 DEF Step

\* Whoever has found the row unfinished works on it alone.
LEMMA UnfinishedStep ==
    ASSUME Types, OneAtWork, Step, OneAtWork', Unfinished
    PROVE  Unfinished'
<1> USE DEF Unfinished, Types, Stages, Row, NoRow, Ended, OneAtWork, Busy, Starting,
    Cancelling, Wrapping
<1>1. CASE Create
  BY <1>1 DEF Create, rowVars, tmuxVars, finVars, agentVars
<1>2. CASE SpawnSession
  BY <1>2 DEF SpawnSession, rowVars, tmuxVars, finVars, agentVars
<1>3. CASE Claim
  BY <1>3 DEF Claim, rowVars, tmuxVars, finVars, agentVars
<1>4. CASE StartFails
  BY <1>4 DEF StartFails, rowVars, tmuxVars, finVars, agentVars, Fault, Fail
<1>5. CASE ClaimRejected
  BY <1>5 DEF ClaimRejected, rowVars, tmuxVars, finVars, agentVars, Tried, Fault, Fail
<1>6. CASE TellStartFailed
  BY <1>6 DEF TellStartFailed, rowVars, tmuxVars, finVars, agentVars, Tried, Fault,
      Notified, TellUser, NotTold
<1>7. CASE Register
  BY <1>7 DEF Register, rowVars, tmuxVars, finVars, agentVars
<1>8. CASE StartWatcher
  BY <1>8 DEF StartWatcher, rowVars, tmuxVars, finVars, agentVars
<1>9. CASE Tmux
  BY <1>9 DEF Tmux, rowVars, tmuxVars, finVars, agentVars, TmuxStarts, CommandEnds,
      WriteExit, SessionEnds
<1>10. CASE SessionDies
  BY <1>10 DEF SessionDies, rowVars, tmuxVars, finVars, agentVars, Fault
<1>11. CASE WatcherWakes
  BY <1>11 DEF WatcherWakes, rowVars, tmuxVars, finVars, agentVars, Enter,
      NeedsNotification
<1>12. CASE FailAbandoned
  BY <1>12 DEF FailAbandoned, rowVars, tmuxVars, finVars, agentVars, WithoutHeartbeat,
      Fail, Enter
<1>13. ASSUME NEW f \in Parties, ListJob(f) PROVE Unfinished'
  BY <1>13 DEF ListJob, rowVars, tmuxVars, finVars, agentVars, Enter
<1>14. ASSUME NEW f \in Parties, Sweep(f) PROVE Unfinished'
  BY <1>14 DEF Sweep, rowVars, tmuxVars, finVars, agentVars, Enter
<1>15. ASSUME NEW f \in Parties, Notify(f) PROVE Unfinished'
  BY <1>15 DEF Notify, rowVars, tmuxVars, finVars, agentVars, NeedsNotification, Enter
<1>16. ASSUME NEW f \in Parties, Probe(f) PROVE Unfinished'
  BY <1>16 DEF Probe, rowVars, tmuxVars, finVars, agentVars, Enter, Goto
<1>17. ASSUME NEW f \in Parties, FailRow(f) PROVE Unfinished'
  BY <1>17 DEF FailRow, rowVars, tmuxVars, finVars, agentVars, Tried, Fault, Fail,
      Enter, Goto
<1>18. ASSUME NEW f \in Parties, Check(f) PROVE Unfinished'
  BY <1>18 DEF Check, rowVars, tmuxVars, finVars, agentVars, NeedsNotification, Enter,
      Goto
<1>19. ASSUME NEW f \in Parties, Flag(f) PROVE Unfinished'
  BY <1>19 DEF Flag, rowVars, tmuxVars, finVars, agentVars, Tried, Fault, Cancelled,
      Enter, Goto
<1>20. ASSUME NEW f \in Parties, ReadExit(f) PROVE Unfinished'
  BY <1>20 DEF ReadExit, rowVars, tmuxVars, finVars, agentVars, Enter
<1>21. ASSUME NEW f \in Parties, Mark(f) PROVE Unfinished'
  BY <1>21 DEF Mark, rowVars, tmuxVars, finVars, agentVars, Tried, Fault, Finished,
      Enter, Goto
<1>22. ASSUME NEW f \in Parties, CountAgents(f) PROVE Unfinished'
  BY <1>22 DEF CountAgents, rowVars, tmuxVars, finVars, agentVars, EnqueuedBefore,
      Enter, Goto
<1>23. ASSUME NEW f \in Parties, MarkStage(f) PROVE Unfinished'
  BY <1>23 DEF MarkStage, rowVars, tmuxVars, finVars, agentVars, Tried, Fault,
      AgentStage, Enter, Goto
<1>24. ASSUME NEW f \in Parties, FindSlot(f) PROVE Unfinished'
  BY <1>24 DEF FindSlot, rowVars, tmuxVars, finVars, agentVars, Enter, Goto
<1>25. ASSUME NEW f \in Parties, CreateAgentJob(f) PROVE Unfinished'
  BY <1>25 DEF CreateAgentJob, rowVars, tmuxVars, finVars, agentVars, OneMore, Enter,
      Goto
<1>26. ASSUME NEW f \in Parties, Deliver(f) PROVE Unfinished'
  BY <1>26 DEF Deliver, rowVars, tmuxVars, finVars, agentVars, TellUser, Enter, Goto
<1>27. ASSUME NEW f \in Parties, DeliveryFails(f) PROVE Unfinished'
  BY <1>27 DEF DeliveryFails, rowVars, tmuxVars, finVars, agentVars, NotTold, Fault,
      Enter, Goto
<1>28. ASSUME NEW f \in Parties, FailUndelivered(f) PROVE Unfinished'
  BY <1>28 DEF FailUndelivered, rowVars, tmuxVars, finVars, agentVars, Tried, Fault,
      Fail, Enter, Goto
<1>29. ASSUME NEW f \in Parties, Record(f) PROVE Unfinished'
  BY <1>29 DEF Record, rowVars, tmuxVars, finVars, agentVars, Tried, Fault, Notified,
      Enter, Goto
<1>30. CASE CancelAsked
  BY <1>30 DEF CancelAsked, rowVars, tmuxVars, finVars, agentVars, UserStep
<1>31. CASE KillSession
  BY <1>31 DEF KillSession, rowVars, tmuxVars, finVars, agentVars, UserStep
<1>32. CASE RequestCancel
  BY <1>32 DEF RequestCancel, rowVars, tmuxVars, finVars, agentVars, UserStep
<1>33. CASE MarkCancelled
  BY <1>33 DEF MarkCancelled, rowVars, tmuxVars, finVars, agentVars, UserStep, Fault,
      Cancelled
<1>34. CASE CancelNotice
  BY <1>34 DEF CancelNotice, rowVars, tmuxVars, finVars, agentVars, UserStep, TellUser,
      NotTold, Fault
<1>35. CASE RecordNotice
  BY <1>35 DEF RecordNotice, rowVars, tmuxVars, finVars, agentVars, UserStep, Tried,
      Fault, Notified
<1>36. CASE FinishCancel
  BY <1>36 DEF FinishCancel, rowVars, tmuxVars, finVars, agentVars, UserStep
<1>37. CASE Restart
  BY <1>37 DEF Restart, rowVars, tmuxVars, finVars, agentVars, Fault, NotTold
<1> QED
  BY <1>1, <1>2, <1>3, <1>4, <1>5, <1>6, <1>7, <1>8, <1>9, <1>10, <1>11, <1>12, <1>13,
      <1>14, <1>15, <1>16, <1>17, <1>18, <1>19, <1>20, <1>21, <1>22, <1>23, <1>24,
      <1>25, <1>26, <1>27, <1>28, <1>29, <1>30, <1>31, <1>32, <1>33, <1>34, <1>35,
      <1>36, <1>37 DEF Step

\* Without faults the user is told FAILED of a sealed exit code.
LEMMA TruthfulStep ==
    ASSUME Types, OneAtWork, Step, OneAtWork', Truthful, faults' = 0
    PROVE  Truthful'
<1> USE DEF Truthful, Sealed, Types, Stages, Row, NoRow, Ended, OneAtWork, Busy,
    Starting, Cancelling, Wrapping
<1>1. CASE Create
  BY <1>1 DEF Create, rowVars, tmuxVars, finVars, agentVars
<1>2. CASE SpawnSession
  BY <1>2 DEF SpawnSession, rowVars, tmuxVars, finVars, agentVars
<1>3. CASE Claim
  BY <1>3 DEF Claim, rowVars, tmuxVars, finVars, agentVars
<1>4. CASE StartFails
  BY <1>4 DEF StartFails, rowVars, tmuxVars, finVars, agentVars, Fault, Fail
<1>5. CASE ClaimRejected
  BY <1>5 DEF ClaimRejected, rowVars, tmuxVars, finVars, agentVars, Tried, Fault, Fail
<1>6. CASE TellStartFailed
  BY <1>6 DEF TellStartFailed, rowVars, tmuxVars, finVars, agentVars, Tried, Fault,
      Notified, TellUser, NotTold
<1>7. CASE Register
  BY <1>7 DEF Register, rowVars, tmuxVars, finVars, agentVars
<1>8. CASE StartWatcher
  BY <1>8 DEF StartWatcher, rowVars, tmuxVars, finVars, agentVars
<1>9. CASE Tmux
  BY <1>9 DEF Tmux, rowVars, tmuxVars, finVars, agentVars, TmuxStarts, CommandEnds,
      WriteExit, SessionEnds
<1>10. CASE SessionDies
  BY <1>10 DEF SessionDies, rowVars, tmuxVars, finVars, agentVars, Fault
<1>11. CASE WatcherWakes
  BY <1>11 DEF WatcherWakes, rowVars, tmuxVars, finVars, agentVars, Enter,
      NeedsNotification
<1>12. CASE FailAbandoned
  BY <1>12 DEF FailAbandoned, rowVars, tmuxVars, finVars, agentVars, WithoutHeartbeat,
      Fail, Enter
<1>13. ASSUME NEW f \in Parties, ListJob(f) PROVE Truthful'
  BY <1>13 DEF ListJob, rowVars, tmuxVars, finVars, agentVars, Enter
<1>14. ASSUME NEW f \in Parties, Sweep(f) PROVE Truthful'
  BY <1>14 DEF Sweep, rowVars, tmuxVars, finVars, agentVars, Enter
<1>15. ASSUME NEW f \in Parties, Notify(f) PROVE Truthful'
  BY <1>15 DEF Notify, rowVars, tmuxVars, finVars, agentVars, NeedsNotification, Enter
<1>16. ASSUME NEW f \in Parties, Probe(f) PROVE Truthful'
  BY <1>16 DEF Probe, rowVars, tmuxVars, finVars, agentVars, Enter, Goto
<1>17. ASSUME NEW f \in Parties, FailRow(f) PROVE Truthful'
  BY <1>17 DEF FailRow, rowVars, tmuxVars, finVars, agentVars, Tried, Fault, Fail,
      Enter, Goto
<1>18. ASSUME NEW f \in Parties, Check(f) PROVE Truthful'
  BY <1>18 DEF Check, rowVars, tmuxVars, finVars, agentVars, NeedsNotification, Enter,
      Goto
<1>19. ASSUME NEW f \in Parties, Flag(f) PROVE Truthful'
  <2>1. /\ UNCHANGED <<starter, session, exit, watching, user, told>>
        /\ code' = code \/ code' = [code EXCEPT ![f] = "bad"]
    BY <1>19 DEF Flag, rowVars, tmuxVars, finVars, agentVars, Enter, Goto
  <2>2. row' = row \/ row'.status = "cancelled"
    BY <1>19 DEF Flag, Tried, Cancelled
  <2>3. pc[f] = "flag" /\ pc' \in {[pc EXCEPT ![f] = "idle"], [pc EXCEPT ![f] = "exit"]}
    BY <1>19 DEF Flag, Enter, Goto
  <2> QED
    BY <2>1, <2>2, <2>3
<1>20. ASSUME NEW f \in Parties, ReadExit(f) PROVE Truthful'
  BY <1>20 DEF ReadExit, rowVars, tmuxVars, finVars, agentVars, Enter
<1>21. ASSUME NEW f \in Parties, Mark(f) PROVE Truthful'
  BY <1>21 DEF Mark, rowVars, tmuxVars, finVars, agentVars, Tried, Fault, Finished,
      Enter, Goto
<1>22. ASSUME NEW f \in Parties, CountAgents(f) PROVE Truthful'
  BY <1>22 DEF CountAgents, rowVars, tmuxVars, finVars, agentVars, EnqueuedBefore,
      Enter, Goto
<1>23. ASSUME NEW f \in Parties, MarkStage(f) PROVE Truthful'
  BY <1>23 DEF MarkStage, rowVars, tmuxVars, finVars, agentVars, Tried, Fault,
      AgentStage, Enter, Goto
<1>24. ASSUME NEW f \in Parties, FindSlot(f) PROVE Truthful'
  BY <1>24 DEF FindSlot, rowVars, tmuxVars, finVars, agentVars, Enter, Goto
<1>25. ASSUME NEW f \in Parties, CreateAgentJob(f) PROVE Truthful'
  BY <1>25 DEF CreateAgentJob, rowVars, tmuxVars, finVars, agentVars, OneMore, Enter,
      Goto
<1>26. ASSUME NEW f \in Parties, Deliver(f) PROVE Truthful'
  BY <1>26 DEF Deliver, rowVars, tmuxVars, finVars, agentVars, TellUser, Enter, Goto
<1>27. ASSUME NEW f \in Parties, DeliveryFails(f) PROVE Truthful'
  BY <1>27 DEF DeliveryFails, rowVars, tmuxVars, finVars, agentVars, NotTold, Fault,
      Enter, Goto
<1>28. ASSUME NEW f \in Parties, FailUndelivered(f) PROVE Truthful'
  BY <1>28 DEF FailUndelivered, rowVars, tmuxVars, finVars, agentVars, Tried, Fault,
      Fail, Enter, Goto
<1>29. ASSUME NEW f \in Parties, Record(f) PROVE Truthful'
  BY <1>29 DEF Record, rowVars, tmuxVars, finVars, agentVars, Tried, Fault, Notified,
      Enter, Goto
<1>30. CASE CancelAsked
  BY <1>30 DEF CancelAsked, rowVars, tmuxVars, finVars, agentVars, UserStep
<1>31. CASE KillSession
  BY <1>31 DEF KillSession, rowVars, tmuxVars, finVars, agentVars, UserStep
<1>32. CASE RequestCancel
  BY <1>32 DEF RequestCancel, rowVars, tmuxVars, finVars, agentVars, UserStep
<1>33. CASE MarkCancelled
  BY <1>33 DEF MarkCancelled, rowVars, tmuxVars, finVars, agentVars, UserStep, Fault,
      Cancelled
<1>34. CASE CancelNotice
  BY <1>34 DEF CancelNotice, rowVars, tmuxVars, finVars, agentVars, UserStep, TellUser,
      NotTold, Fault
<1>35. CASE RecordNotice
  BY <1>35 DEF RecordNotice, rowVars, tmuxVars, finVars, agentVars, UserStep, Tried,
      Fault, Notified
<1>36. CASE FinishCancel
  BY <1>36 DEF FinishCancel, rowVars, tmuxVars, finVars, agentVars, UserStep
<1>37. CASE Restart
  BY <1>37 DEF Restart, rowVars, tmuxVars, finVars, agentVars, Fault, NotTold
<1> QED
  BY <1>1, <1>2, <1>3, <1>4, <1>5, <1>6, <1>7, <1>8, <1>9, <1>10, <1>11, <1>12, <1>13,
      <1>14, <1>15, <1>16, <1>17, <1>18, <1>19, <1>20, <1>21, <1>22, <1>23, <1>24,
      <1>25, <1>26, <1>27, <1>28, <1>29, <1>30, <1>31, <1>32, <1>33, <1>34, <1>35,
      <1>36, <1>37 DEF Step

\* Faults are counted.
LEMMA FaultsStep ==
    ASSUME Types, Step, faults' = 0
    PROVE  faults = 0
<1> USE DEF Types
<1>1. CASE Create
  BY <1>1 DEF Create, rowVars, tmuxVars, finVars, agentVars
<1>2. CASE SpawnSession
  BY <1>2 DEF SpawnSession, rowVars, tmuxVars, finVars, agentVars
<1>3. CASE Claim
  BY <1>3 DEF Claim, rowVars, tmuxVars, finVars, agentVars
<1>4. CASE StartFails
  BY <1>4 DEF StartFails, rowVars, tmuxVars, finVars, agentVars, Fault, Fail
<1>5. CASE ClaimRejected
  BY <1>5 DEF ClaimRejected, rowVars, tmuxVars, finVars, agentVars, Tried, Fault, Fail
<1>6. CASE TellStartFailed
  BY <1>6 DEF TellStartFailed, rowVars, tmuxVars, finVars, agentVars, Tried, Fault,
      Notified, TellUser, NotTold
<1>7. CASE Register
  BY <1>7 DEF Register, rowVars, tmuxVars, finVars, agentVars
<1>8. CASE StartWatcher
  BY <1>8 DEF StartWatcher, rowVars, tmuxVars, finVars, agentVars
<1>9. CASE Tmux
  BY <1>9 DEF Tmux, rowVars, tmuxVars, finVars, agentVars, TmuxStarts, CommandEnds,
      WriteExit, SessionEnds
<1>10. CASE SessionDies
  BY <1>10 DEF SessionDies, rowVars, tmuxVars, finVars, agentVars, Fault
<1>11. CASE WatcherWakes
  BY <1>11 DEF WatcherWakes, rowVars, tmuxVars, finVars, agentVars, Enter,
      NeedsNotification
<1>12. CASE FailAbandoned
  BY <1>12 DEF FailAbandoned, rowVars, tmuxVars, finVars, agentVars, WithoutHeartbeat,
      Fail, Enter
<1>13. ASSUME NEW f \in Parties, ListJob(f) PROVE faults = 0
  BY <1>13 DEF ListJob, rowVars, tmuxVars, finVars, agentVars, Enter
<1>14. ASSUME NEW f \in Parties, Sweep(f) PROVE faults = 0
  BY <1>14 DEF Sweep, rowVars, tmuxVars, finVars, agentVars, Enter
<1>15. ASSUME NEW f \in Parties, Notify(f) PROVE faults = 0
  BY <1>15 DEF Notify, rowVars, tmuxVars, finVars, agentVars, NeedsNotification, Enter
<1>16. ASSUME NEW f \in Parties, Probe(f) PROVE faults = 0
  BY <1>16 DEF Probe, rowVars, tmuxVars, finVars, agentVars, Enter, Goto
<1>17. ASSUME NEW f \in Parties, FailRow(f) PROVE faults = 0
  BY <1>17 DEF FailRow, rowVars, tmuxVars, finVars, agentVars, Tried, Fault, Fail,
      Enter, Goto
<1>18. ASSUME NEW f \in Parties, Check(f) PROVE faults = 0
  BY <1>18 DEF Check, rowVars, tmuxVars, finVars, agentVars, NeedsNotification, Enter,
      Goto
<1>19. ASSUME NEW f \in Parties, Flag(f) PROVE faults = 0
  BY <1>19 DEF Flag, rowVars, tmuxVars, finVars, agentVars, Tried, Fault, Cancelled,
      Enter, Goto
<1>20. ASSUME NEW f \in Parties, ReadExit(f) PROVE faults = 0
  BY <1>20 DEF ReadExit, rowVars, tmuxVars, finVars, agentVars, Enter
<1>21. ASSUME NEW f \in Parties, Mark(f) PROVE faults = 0
  BY <1>21 DEF Mark, rowVars, tmuxVars, finVars, agentVars, Tried, Fault, Finished,
      Enter, Goto
<1>22. ASSUME NEW f \in Parties, CountAgents(f) PROVE faults = 0
  BY <1>22 DEF CountAgents, rowVars, tmuxVars, finVars, agentVars, EnqueuedBefore,
      Enter, Goto
<1>23. ASSUME NEW f \in Parties, MarkStage(f) PROVE faults = 0
  BY <1>23 DEF MarkStage, rowVars, tmuxVars, finVars, agentVars, Tried, Fault,
      AgentStage, Enter, Goto
<1>24. ASSUME NEW f \in Parties, FindSlot(f) PROVE faults = 0
  BY <1>24 DEF FindSlot, rowVars, tmuxVars, finVars, agentVars, Enter, Goto
<1>25. ASSUME NEW f \in Parties, CreateAgentJob(f) PROVE faults = 0
  BY <1>25 DEF CreateAgentJob, rowVars, tmuxVars, finVars, agentVars, OneMore, Enter,
      Goto
<1>26. ASSUME NEW f \in Parties, Deliver(f) PROVE faults = 0
  BY <1>26 DEF Deliver, rowVars, tmuxVars, finVars, agentVars, TellUser, Enter, Goto
<1>27. ASSUME NEW f \in Parties, DeliveryFails(f) PROVE faults = 0
  BY <1>27 DEF DeliveryFails, rowVars, tmuxVars, finVars, agentVars, NotTold, Fault,
      Enter, Goto
<1>28. ASSUME NEW f \in Parties, FailUndelivered(f) PROVE faults = 0
  BY <1>28 DEF FailUndelivered, rowVars, tmuxVars, finVars, agentVars, Tried, Fault,
      Fail, Enter, Goto
<1>29. ASSUME NEW f \in Parties, Record(f) PROVE faults = 0
  BY <1>29 DEF Record, rowVars, tmuxVars, finVars, agentVars, Tried, Fault, Notified,
      Enter, Goto
<1>30. CASE CancelAsked
  BY <1>30 DEF CancelAsked, rowVars, tmuxVars, finVars, agentVars, UserStep
<1>31. CASE KillSession
  BY <1>31 DEF KillSession, rowVars, tmuxVars, finVars, agentVars, UserStep
<1>32. CASE RequestCancel
  BY <1>32 DEF RequestCancel, rowVars, tmuxVars, finVars, agentVars, UserStep
<1>33. CASE MarkCancelled
  BY <1>33 DEF MarkCancelled, rowVars, tmuxVars, finVars, agentVars, UserStep, Fault,
      Cancelled
<1>34. CASE CancelNotice
  BY <1>34 DEF CancelNotice, rowVars, tmuxVars, finVars, agentVars, UserStep, TellUser,
      NotTold, Fault
<1>35. CASE RecordNotice
  BY <1>35 DEF RecordNotice, rowVars, tmuxVars, finVars, agentVars, UserStep, Tried,
      Fault, Notified
<1>36. CASE FinishCancel
  BY <1>36 DEF FinishCancel, rowVars, tmuxVars, finVars, agentVars, UserStep
<1>37. CASE Restart
  BY <1>37 DEF Restart, rowVars, tmuxVars, finVars, agentVars, Fault, NotTold
<1> QED
  BY <1>1, <1>2, <1>3, <1>4, <1>5, <1>6, <1>7, <1>8, <1>9, <1>10, <1>11, <1>12, <1>13,
      <1>14, <1>15, <1>16, <1>17, <1>18, <1>19, <1>20, <1>21, <1>22, <1>23, <1>24,
      <1>25, <1>26, <1>27, <1>28, <1>29, <1>30, <1>31, <1>32, <1>33, <1>34, <1>35,
      <1>36, <1>37 DEF Step

\* Only a failed delivery takes back what is done.
LEMMA DoneStep ==
    ASSUME Types, Unfinished, row.status = "done", row'.status # "done", Step
    PROVE  \E f \in Parties : pc[f] = "undelivered"
<1> DEFINE Goal == \E f \in Parties : pc[f] = "undelivered"
<1> USE DEF Types, Unfinished, Row, NoRow, Ended
<1>1. CASE Create
  BY <1>1 DEF Create, rowVars, tmuxVars, finVars, agentVars
<1>2. CASE SpawnSession
  BY <1>2 DEF SpawnSession, rowVars, tmuxVars, finVars, agentVars
<1>3. CASE Claim
  BY <1>3 DEF Claim, rowVars, tmuxVars, finVars, agentVars
<1>4. CASE StartFails
  BY <1>4 DEF StartFails, rowVars, tmuxVars, finVars, agentVars, Fault, Fail
<1>5. CASE ClaimRejected
  BY <1>5 DEF ClaimRejected, rowVars, tmuxVars, finVars, agentVars, Tried, Fault, Fail
<1>6. CASE TellStartFailed
  BY <1>6 DEF TellStartFailed, rowVars, tmuxVars, finVars, agentVars, Tried, Fault,
      Notified, TellUser, NotTold
<1>7. CASE Register
  BY <1>7 DEF Register, rowVars, tmuxVars, finVars, agentVars
<1>8. CASE StartWatcher
  BY <1>8 DEF StartWatcher, rowVars, tmuxVars, finVars, agentVars
<1>9. CASE Tmux
  BY <1>9 DEF Tmux, rowVars, tmuxVars, finVars, agentVars, TmuxStarts, CommandEnds,
      WriteExit, SessionEnds
<1>10. CASE SessionDies
  BY <1>10 DEF SessionDies, rowVars, tmuxVars, finVars, agentVars, Fault
<1>11. CASE WatcherWakes
  BY <1>11 DEF WatcherWakes, rowVars, tmuxVars, finVars, agentVars, Enter,
      NeedsNotification
<1>12. CASE FailAbandoned
  BY <1>12 DEF FailAbandoned, rowVars, tmuxVars, finVars, agentVars, WithoutHeartbeat,
      Fail, Enter
<1>13. ASSUME NEW f \in Parties, ListJob(f) PROVE Goal
  BY <1>13 DEF ListJob, rowVars, tmuxVars, finVars, agentVars, Enter
<1>14. ASSUME NEW f \in Parties, Sweep(f) PROVE Goal
  BY <1>14 DEF Sweep, rowVars, tmuxVars, finVars, agentVars, Enter
<1>15. ASSUME NEW f \in Parties, Notify(f) PROVE Goal
  BY <1>15 DEF Notify, rowVars, tmuxVars, finVars, agentVars, NeedsNotification, Enter
<1>16. ASSUME NEW f \in Parties, Probe(f) PROVE Goal
  BY <1>16 DEF Probe, rowVars, tmuxVars, finVars, agentVars, Enter, Goto
<1>17. ASSUME NEW f \in Parties, FailRow(f) PROVE Goal
  BY <1>17 DEF FailRow, rowVars, tmuxVars, finVars, agentVars, Tried, Fault, Fail,
      Enter, Goto
<1>18. ASSUME NEW f \in Parties, Check(f) PROVE Goal
  BY <1>18 DEF Check, rowVars, tmuxVars, finVars, agentVars, NeedsNotification, Enter,
      Goto
<1>19. ASSUME NEW f \in Parties, Flag(f) PROVE Goal
  BY <1>19 DEF Flag, rowVars, tmuxVars, finVars, agentVars, Tried, Fault, Cancelled,
      Enter, Goto
<1>20. ASSUME NEW f \in Parties, ReadExit(f) PROVE Goal
  BY <1>20 DEF ReadExit, rowVars, tmuxVars, finVars, agentVars, Enter
<1>21. ASSUME NEW f \in Parties, Mark(f) PROVE Goal
  BY <1>21 DEF Mark, rowVars, tmuxVars, finVars, agentVars, Tried, Fault, Finished,
      Enter, Goto
<1>22. ASSUME NEW f \in Parties, CountAgents(f) PROVE Goal
  BY <1>22 DEF CountAgents, rowVars, tmuxVars, finVars, agentVars, EnqueuedBefore,
      Enter, Goto
<1>23. ASSUME NEW f \in Parties, MarkStage(f) PROVE Goal
  BY <1>23 DEF MarkStage, rowVars, tmuxVars, finVars, agentVars, Tried, Fault,
      AgentStage, Enter, Goto
<1>24. ASSUME NEW f \in Parties, FindSlot(f) PROVE Goal
  BY <1>24 DEF FindSlot, rowVars, tmuxVars, finVars, agentVars, Enter, Goto
<1>25. ASSUME NEW f \in Parties, CreateAgentJob(f) PROVE Goal
  BY <1>25 DEF CreateAgentJob, rowVars, tmuxVars, finVars, agentVars, OneMore, Enter,
      Goto
<1>26. ASSUME NEW f \in Parties, Deliver(f) PROVE Goal
  BY <1>26 DEF Deliver, rowVars, tmuxVars, finVars, agentVars, TellUser, Enter, Goto
<1>27. ASSUME NEW f \in Parties, DeliveryFails(f) PROVE Goal
  BY <1>27 DEF DeliveryFails, rowVars, tmuxVars, finVars, agentVars, NotTold, Fault,
      Enter, Goto
<1>28. ASSUME NEW f \in Parties, FailUndelivered(f) PROVE Goal
  BY <1>28 DEF FailUndelivered, rowVars, tmuxVars, finVars, agentVars, Tried, Fault,
      Fail, Enter, Goto
<1>29. ASSUME NEW f \in Parties, Record(f) PROVE Goal
  BY <1>29 DEF Record, rowVars, tmuxVars, finVars, agentVars, Tried, Fault, Notified,
      Enter, Goto
<1>30. CASE CancelAsked
  BY <1>30 DEF CancelAsked, rowVars, tmuxVars, finVars, agentVars, UserStep
<1>31. CASE KillSession
  BY <1>31 DEF KillSession, rowVars, tmuxVars, finVars, agentVars, UserStep
<1>32. CASE RequestCancel
  BY <1>32 DEF RequestCancel, rowVars, tmuxVars, finVars, agentVars, UserStep
<1>33. CASE MarkCancelled
  BY <1>33 DEF MarkCancelled, rowVars, tmuxVars, finVars, agentVars, UserStep, Fault,
      Cancelled
<1>34. CASE CancelNotice
  BY <1>34 DEF CancelNotice, rowVars, tmuxVars, finVars, agentVars, UserStep, TellUser,
      NotTold, Fault
<1>35. CASE RecordNotice
  BY <1>35 DEF RecordNotice, rowVars, tmuxVars, finVars, agentVars, UserStep, Tried,
      Fault, Notified
<1>36. CASE FinishCancel
  BY <1>36 DEF FinishCancel, rowVars, tmuxVars, finVars, agentVars, UserStep
<1>37. CASE Restart
  BY <1>37 DEF Restart, rowVars, tmuxVars, finVars, agentVars, Fault, NotTold
<1> QED
  BY <1>1, <1>2, <1>3, <1>4, <1>5, <1>6, <1>7, <1>8, <1>9, <1>10, <1>11, <1>12, <1>13,
      <1>14, <1>15, <1>16, <1>17, <1>18, <1>19, <1>20, <1>21, <1>22, <1>23, <1>24,
      <1>25, <1>26, <1>27, <1>28, <1>29, <1>30, <1>31, <1>32, <1>33, <1>34, <1>35,
      <1>36, <1>37 DEF Step

LEMMA InitHolds == Init => IInv
<1> SUFFICES ASSUME Init PROVE IInv
  OBVIOUS
<1>1. Types
  BY NoRowIsRow DEF Init, Types, Stages, Told
<1>2. OneAtWork /\ Unfinished /\ Truthful
  BY DEF Init, NoRow, OneAtWork, Busy, Starting, Cancelling, Wrapping, Unfinished, Truthful
<1>3. Allowed
  BY ShellAssumption DEF Init, Allowed
<1> QED
  BY <1>1, <1>2, <1>3 DEF IInv

LEMMA StepKeeps == IInv /\ [Next]_vars => IInv'
<1> SUFFICES ASSUME IInv, [Next]_vars PROVE IInv'
  OBVIOUS
<1>1. Types /\ (~overlapped => OneAtWork /\ Allowed /\ Unfinished /\ (faults = 0 => Truthful))
  BY DEF IInv
<1>2. CASE UNCHANGED vars
  BY <1>1, <1>2 DEF IInv, vars, rowVars, tmuxVars, finVars, agentVars, Types, OneAtWork, Busy, Starting,
      Cancelling, Wrapping, Allowed, Unfinished, Truthful, Sealed
<1>3. ASSUME Step, overlapped' = (overlapped \/ Met') PROVE IInv'
  <2>1. Types'
    BY <1>1, <1>3, TypesStep
  <2>2. ASSUME ~overlapped' PROVE OneAtWork' /\ Allowed' /\ Unfinished' /\ (faults' = 0 => Truthful')
    <3>1. ~overlapped /\ ~Met'
      BY <1>3, <2>2
    <3>2. OneAtWork /\ Allowed /\ Unfinished /\ (faults = 0 => Truthful)
      BY <1>1, <3>1
    <3>3. OneAtWork'
      <4>1. Types' /\ ~Met' => OneAtWork'
        BY Meets, PTL
      <4> QED
        BY <2>1, <3>1, <4>1
    <3>4. faults' = 0 => faults = 0
      BY <1>1, <1>3, FaultsStep
    <3> QED
      BY <1>1, <1>3, <3>2, <3>3, <3>4, AllowedStep, UnfinishedStep, TruthfulStep
  <2> QED
    BY <2>1, <2>2 DEF IInv
<1> QED
  BY <1>2, <1>3, Steps

\* The job's row, its parties and its agent jobs keep to the invariant.
THEOREM Invariance == Spec => []IInv
<1> QED
  BY InitHolds, StepKeeps, PTL DEF Spec

\* Unless two parties meet, restarts and undelivered results never make the job
\* enqueue more agent jobs than it is allowed (maybe_enqueue_shell_success_agent_followup,
\* maybe_enqueue_shell_failure_agent_retry).
THEOREM AgentJobsKept == Spec => []AgentJobsBounded
<1>1. IInv => AgentJobsBounded
  BY DEF IInv, Allowed, AgentJobsBounded
<1> QED
  BY <1>1, Invariance, PTL

\* Without faults and meetings, FAILED is said of a command that did not exit
\* with 0, nor will (finalize_shell_job, notify_shell_job_enqueue_failure).
THEOREM FailuresReal == Spec => []FailureIsReal
<1>1. IInv => FailureIsReal
  BY DEF IInv, Types, Truthful, FailureIsReal
<1> QED
  BY <1>1, Invariance, PTL

\* No reconciler turns a success into a failure but for its own undelivered
\* result (mark_background_shell_finished, fail_background_shell_job).
THEOREM DoneKept == Spec => DoneStays
<1>1. ASSUME IInv, [Next]_vars
      PROVE  [row.status = "done" /\ row'.status # "done"
                => overlapped \/ \E f \in Parties : pc[f] = "undelivered"]_vars
  <2>1. ASSUME ~overlapped, row.status = "done", row'.status # "done" PROVE \E f \in Parties : pc[f] = "undelivered"
    <3>1. Types /\ Unfinished
      BY <1>1, <2>1 DEF IInv
    <3>2. Step
      BY <1>1, <2>1, Steps DEF vars, rowVars
    <3> QED
      BY <2>1, <3>1, <3>2, DoneStep
  <2> QED
    BY <2>1
<1> QED
  BY <1>1, Invariance, PTL DEF Spec, DoneStays


================================================================================
