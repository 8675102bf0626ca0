--------------------------- MODULE EnginesProofs ---------------------------
(***************************************************************************)
(* Proofs about the two engines of AgentEngines: for any profiles, callers *)
(* and budgets of the deterministic engine, and for any set of overlapping *)
(* tool calls of the cursor engine.                                        *)
(***************************************************************************)
EXTENDS AgentEngines, SequenceTheorems, FiniteSetTheorems, WellFoundedInduction, TLAPS

----------------------------------------------------------------------------
(* The cursor engine *)

CursorTypes ==
    /\ cancel \in BOOLEAN
    /\ pc \in Cursor!Places
    /\ outcome \in {"none", "ok", "blocked", "error", "fallback", "hook_error", "aborted"}
    /\ outcome # "none" <=> pc = "returned"
    /\ answer \in {"none", "done", "stale"}
    /\ token \in {"none", "valid", "expired", "revoked"}
    /\ shared \in Cursor!Copies
    /\ call \in [Calls -> {"idle", "admitted", "asked", "running", "answered"}]
    /\ scratch \in [Calls -> Cursor!Copies]
    /\ {activated, stalled, raced} \subseteq BOOLEAN

\* The token is there while the agent works, and after an end that leaves it.
TokenHeld ==
    /\ token = "valid" => \/ pc \in {"turn", "preStop", "finishing", "batch", "revoking"}
                          \/ pc = "returned" /\ outcome \in {"aborted", "hook_error"}
    /\ token = "revoked" => pc \in {"storing", "gate", "returned"}
    /\ pc = "start" => token = "none"

\* No copy has the skill before an activation, and one that nobody overtook is
\* the run's state.
CopiesHonest ==
    /\ shared.skill => activated
    /\ \A c \in Calls : scratch[c].skill => activated
    /\ \A c \in Cursor!InFlight \ dirty : scratch[c] = shared

\* A stall is in the run's state until it takes the place of the text.
StallKept ==
    /\ stalled => token # "none"
    /\ stalled /\ ~raced => shared.stall
    /\ pc \in {"revoking", "storing", "gate"} \/ outcome = "ok"
        => (stalled /\ ~raced /\ token # "expired" => text = "stall")

\* Ids grow, the one to resume is never the stale one, and an agent that gave
\* its id after that is the one returned.
IdsFresh ==
    /\ given \in Nat
    /\ {stored, resume, returned, gone} \subseteq 0 .. given
    /\ pc = "start" => gone = 0
    /\ gone # 0 => resume # gone
    /\ gone # 0 /\ since /\ pc # "returned" => returned \notin {0, gone}
    /\ gone # 0 /\ since /\ (pc = "gate" \/ outcome = "ok") => stored # gone

\* A prompt that was posted after the cancel request gets no answer.
LatePost ==
    /\ late \in {0, 1}
    /\ ~cancel => late = 0
    /\ late = 1 => pc \in {"turn", "returned"}
    /\ late = 1 /\ pc = "turn" => answer = "none"
    /\ pc \in {"start", "preStop"} => answer = "none"

CursorInv == CursorTypes /\ TokenHeld /\ CopiesHonest /\ StallKept /\ IdsFresh /\ LatePost

\* The variables keep their types.
LEMMA CursorTypesStep == CursorTypes /\ [Cursor!Next]_(Cursor!vars) => CursorTypes'
<1> SUFFICES ASSUME CursorTypes, [Cursor!Next]_(Cursor!vars) PROVE CursorTypes'
  OBVIOUS
<1> USE DEF CursorTypes, Cursor!Places, Cursor!Copies, Cursor!NothingYet
<1>1. CASE Cursor!Start
  BY <1>1 DEF Cursor!Start, Cursor!End, Cursor!Post, Cursor!turnVars, Cursor!bridgeVars
<1>2. CASE Cursor!Stream
  BY <1>2 DEF Cursor!Stream, Cursor!idVars, Cursor!bridgeVars
<1>3. CASE Cursor!TurnFails
  BY <1>3 DEF Cursor!TurnFails, Cursor!End, Cursor!Revoked, Cursor!DropLocals,
      Cursor!bridgeVars
<1>4. CASE Cursor!TurnStale
  BY <1>4 DEF Cursor!TurnStale, Cursor!Post, Cursor!bridgeVars
<1>5. CASE Cursor!TurnDone
  BY <1>5 DEF Cursor!TurnDone, Cursor!bridgeVars
<1>6. CASE Cursor!PreStop
  BY <1>6 DEF Cursor!PreStop, Cursor!End, Cursor!Post, Cursor!idVars, Cursor!bridgeVars
<1>7. CASE Cursor!Finish
  BY <1>7 DEF Cursor!Finish, Cursor!idVars, Cursor!turnVars, Cursor!bridgeVars
<1>8. CASE Cursor!FinishBatch
  BY <1>8 DEF Cursor!FinishBatch, Cursor!idVars, Cursor!bridgeVars
<1>9. CASE Cursor!Revoke
  BY <1>9 DEF Cursor!Revoke, Cursor!Revoked, Cursor!idVars, Cursor!turnVars,
      Cursor!bridgeVars
<1>10. CASE Cursor!Store
  BY <1>10 DEF Cursor!Store, Cursor!turnVars, Cursor!bridgeVars
<1>11. CASE Cursor!Deliver
  BY <1>11 DEF Cursor!Deliver, Cursor!End, Cursor!idVars, Cursor!turnVars,
      Cursor!bridgeVars
<1>12. ASSUME NEW c \in Calls, Cursor!Ask(c) PROVE CursorTypes'
  BY <1>12 DEF Cursor!Ask, Cursor!OtherVars, Cursor!idVars, Cursor!turnVars
<1>13. ASSUME NEW c \in Calls, Cursor!Copy(c) PROVE CursorTypes'
  BY <1>13 DEF Cursor!Copy, Cursor!OtherVars, Cursor!idVars, Cursor!turnVars
<1>14. ASSUME NEW c \in Calls, Cursor!Judge(c) PROVE CursorTypes'
  <2>1. scratch[c] \in Cursor!Copies
    OBVIOUS
  <2>2. CASE Cursor!WriteBack(c, scratch[c]) /\ UNCHANGED unjudged
    BY <1>14, <2>1, <2>2 DEF Cursor!Judge, Cursor!OtherVars, Cursor!idVars, Cursor!turnVars,
        Cursor!WriteBack
  <2>3. CASE ~(Cursor!WriteBack(c, scratch[c]) /\ UNCHANGED unjudged)
    BY <1>14, <2>3 DEF Cursor!Judge, Cursor!Run, Cursor!OtherVars, Cursor!idVars, Cursor!turnVars
  <2> QED
    BY <2>2, <2>3
<1>15. ASSUME NEW c \in Calls, Cursor!Return(c) PROVE CursorTypes'
  BY <1>15 DEF Cursor!Return, Cursor!OtherVars, Cursor!idVars, Cursor!turnVars,
      Cursor!WriteBack, Cursor!InFlight, Cursor!Heard
<1>16. CASE Cursor!Expire
  BY <1>16 DEF Cursor!Expire, Cursor!OtherVars, Cursor!idVars, Cursor!turnVars,
      Cursor!bridgeVars
<1>17. CASE Cursor!CancelRun
  BY <1>17 DEF Cursor!CancelRun, Cursor!idVars, Cursor!turnVars, Cursor!bridgeVars
<1>18. CASE Cursor!AbortRun
  BY <1>18 DEF Cursor!AbortRun, Cursor!End, Cursor!DropLocals, Cursor!bridgeVars
<1>19. CASE UNCHANGED Cursor!vars
  BY <1>19 DEF Cursor!vars, Cursor!idVars, Cursor!turnVars, Cursor!bridgeVars
<1> QED
  BY <1>1, <1>2, <1>3, <1>4, <1>5, <1>6, <1>7, <1>8, <1>9, <1>10, <1>11, <1>12, <1>13,
      <1>14, <1>15, <1>16, <1>17, <1>18, <1>19 DEF Cursor!Next, Cursor!Step, Cursor!Bridge

\* The token is revoked on every way out that does not leave it.
LEMMA TokenStep == TokenHeld /\ CursorTypes /\ [Cursor!Next]_(Cursor!vars) => TokenHeld'
<1> SUFFICES ASSUME TokenHeld, CursorTypes, [Cursor!Next]_(Cursor!vars) PROVE TokenHeld'
  OBVIOUS
<1> USE DEF TokenHeld, CursorTypes
<1>1. CASE Cursor!Start
  BY <1>1 DEF Cursor!Start, Cursor!End, Cursor!Post, Cursor!turnVars, Cursor!bridgeVars
<1>2. CASE Cursor!Stream
  BY <1>2 DEF Cursor!Stream, Cursor!idVars, Cursor!bridgeVars
<1>3. CASE Cursor!TurnFails
  BY <1>3 DEF Cursor!TurnFails, Cursor!End, Cursor!Revoked, Cursor!DropLocals,
      Cursor!bridgeVars
<1>4. CASE Cursor!TurnStale
  BY <1>4 DEF Cursor!TurnStale, Cursor!Post, Cursor!bridgeVars
<1>5. CASE Cursor!TurnDone
  BY <1>5 DEF Cursor!TurnDone, Cursor!bridgeVars
<1>6. CASE Cursor!PreStop
  BY <1>6 DEF Cursor!PreStop, Cursor!End, Cursor!Post, Cursor!idVars, Cursor!bridgeVars
<1>7. CASE Cursor!Finish
  BY <1>7 DEF Cursor!Finish, Cursor!idVars, Cursor!turnVars, Cursor!bridgeVars
<1>8. CASE Cursor!FinishBatch
  BY <1>8 DEF Cursor!FinishBatch, Cursor!idVars, Cursor!bridgeVars
<1>9. CASE Cursor!Revoke
  BY <1>9 DEF Cursor!Revoke, Cursor!Revoked, Cursor!idVars, Cursor!turnVars,
      Cursor!bridgeVars
<1>10. CASE Cursor!Store
  BY <1>10 DEF Cursor!Store, Cursor!turnVars, Cursor!bridgeVars
<1>11. CASE Cursor!Deliver
  BY <1>11 DEF Cursor!Deliver, Cursor!End, Cursor!idVars, Cursor!turnVars,
      Cursor!bridgeVars
<1>12. ASSUME NEW c \in Calls, Cursor!Ask(c) PROVE TokenHeld'
  BY <1>12 DEF Cursor!Ask, Cursor!OtherVars, Cursor!idVars, Cursor!turnVars
<1>13. ASSUME NEW c \in Calls, Cursor!Copy(c) PROVE TokenHeld'
  BY <1>13 DEF Cursor!Copy, Cursor!OtherVars, Cursor!idVars, Cursor!turnVars
<1>14. ASSUME NEW c \in Calls, Cursor!Judge(c) PROVE TokenHeld'
  BY <1>14 DEF Cursor!Judge, Cursor!OtherVars, Cursor!idVars, Cursor!turnVars,
      Cursor!WriteBack, Cursor!InFlight, Cursor!Passes, Cursor!Run
<1>15. ASSUME NEW c \in Calls, Cursor!Return(c) PROVE TokenHeld'
  BY <1>15 DEF Cursor!Return, Cursor!OtherVars, Cursor!idVars, Cursor!turnVars,
      Cursor!WriteBack, Cursor!InFlight, Cursor!Heard
<1>16. CASE Cursor!Expire
  BY <1>16 DEF Cursor!Expire, Cursor!OtherVars, Cursor!idVars, Cursor!turnVars,
      Cursor!bridgeVars
<1>17. CASE Cursor!CancelRun
  BY <1>17 DEF Cursor!CancelRun, Cursor!idVars, Cursor!turnVars, Cursor!bridgeVars
<1>18. CASE Cursor!AbortRun
  BY <1>18 DEF Cursor!AbortRun, Cursor!End, Cursor!DropLocals, Cursor!bridgeVars
<1>19. CASE UNCHANGED Cursor!vars
  BY <1>19 DEF Cursor!vars, Cursor!idVars, Cursor!turnVars, Cursor!bridgeVars
<1> QED
  BY <1>1, <1>2, <1>3, <1>4, <1>5, <1>6, <1>7, <1>8, <1>9, <1>10, <1>11, <1>12, <1>13,
      <1>14, <1>15, <1>16, <1>17, <1>18, <1>19 DEF Cursor!Next, Cursor!Step, Cursor!Bridge

\* A copy that is written back makes all others out of date.
LEMMA CopiesStep == CopiesHonest /\ CursorTypes /\ [Cursor!Next]_(Cursor!vars) => CopiesHonest'
<1> SUFFICES ASSUME CopiesHonest, CursorTypes, [Cursor!Next]_(Cursor!vars) PROVE CopiesHonest'
  OBVIOUS
<1> USE DEF CopiesHonest, CursorTypes, Cursor!InFlight, Cursor!Copies, Cursor!NothingYet
<1>1. CASE Cursor!Start
  BY <1>1 DEF Cursor!Start, Cursor!End, Cursor!Post, Cursor!turnVars, Cursor!bridgeVars
<1>2. CASE Cursor!Stream
  BY <1>2 DEF Cursor!Stream, Cursor!idVars, Cursor!bridgeVars
<1>3. CASE Cursor!TurnFails
  BY <1>3 DEF Cursor!TurnFails, Cursor!End, Cursor!Revoked, Cursor!DropLocals,
      Cursor!bridgeVars
<1>4. CASE Cursor!TurnStale
  BY <1>4 DEF Cursor!TurnStale, Cursor!Post, Cursor!bridgeVars
<1>5. CASE Cursor!TurnDone
  BY <1>5 DEF Cursor!TurnDone, Cursor!bridgeVars
<1>6. CASE Cursor!PreStop
  BY <1>6 DEF Cursor!PreStop, Cursor!End, Cursor!Post, Cursor!idVars, Cursor!bridgeVars
<1>7. CASE Cursor!Finish
  BY <1>7 DEF Cursor!Finish, Cursor!idVars, Cursor!turnVars, Cursor!bridgeVars
<1>8. CASE Cursor!FinishBatch
  BY <1>8 DEF Cursor!FinishBatch, Cursor!idVars, Cursor!bridgeVars
<1>9. CASE Cursor!Revoke
  BY <1>9 DEF Cursor!Revoke, Cursor!Revoked, Cursor!idVars, Cursor!turnVars,
      Cursor!bridgeVars
<1>10. CASE Cursor!Store
  BY <1>10 DEF Cursor!Store, Cursor!turnVars, Cursor!bridgeVars
<1>11. CASE Cursor!Deliver
  BY <1>11 DEF Cursor!Deliver, Cursor!End, Cursor!idVars, Cursor!turnVars,
      Cursor!bridgeVars
<1>12. ASSUME NEW c \in Calls, Cursor!Ask(c) PROVE CopiesHonest'
  BY <1>12 DEF Cursor!Ask, Cursor!OtherVars, Cursor!idVars, Cursor!turnVars
<1>13. ASSUME NEW c \in Calls, Cursor!Copy(c) PROVE CopiesHonest'
  BY <1>13 DEF Cursor!Copy, Cursor!OtherVars, Cursor!idVars, Cursor!turnVars
<1>14. ASSUME NEW c \in Calls, Cursor!Judge(c) PROVE CopiesHonest'
  BY <1>14 DEF Cursor!Judge, Cursor!OtherVars, Cursor!idVars, Cursor!turnVars,
      Cursor!WriteBack, Cursor!InFlight, Cursor!Passes, Cursor!Run
<1>15. ASSUME NEW c \in Calls, Cursor!Return(c) PROVE CopiesHonest'
  BY <1>15 DEF Cursor!Return, Cursor!OtherVars, Cursor!idVars, Cursor!turnVars,
      Cursor!WriteBack, Cursor!InFlight, Cursor!Heard
<1>16. CASE Cursor!Expire
  BY <1>16 DEF Cursor!Expire, Cursor!OtherVars, Cursor!idVars, Cursor!turnVars,
      Cursor!bridgeVars
<1>17. CASE Cursor!CancelRun
  BY <1>17 DEF Cursor!CancelRun, Cursor!idVars, Cursor!turnVars, Cursor!bridgeVars
<1>18. CASE Cursor!AbortRun
  BY <1>18 DEF Cursor!AbortRun, Cursor!End, Cursor!DropLocals, Cursor!bridgeVars
<1>19. CASE UNCHANGED Cursor!vars
  BY <1>19 DEF Cursor!vars, Cursor!idVars, Cursor!turnVars, Cursor!bridgeVars
<1> QED
  BY <1>1, <1>2, <1>3, <1>4, <1>5, <1>6, <1>7, <1>8, <1>9, <1>10, <1>11, <1>12, <1>13,
      <1>14, <1>15, <1>16, <1>17, <1>18, <1>19 DEF Cursor!Next, Cursor!Step, Cursor!Bridge

\* A stall reaches the text before the token goes.
LEMMA StallStep == StallKept /\ CursorTypes /\ TokenHeld /\ CopiesHonest /\ [Cursor!Next]_(Cursor!vars) => StallKept'
<1> SUFFICES ASSUME StallKept, CursorTypes, TokenHeld, CopiesHonest, [Cursor!Next]_(Cursor!vars) PROVE StallKept'
  OBVIOUS
<1> USE DEF StallKept, CursorTypes, TokenHeld, Cursor!InFlight, Cursor!Copies
<1>1. CASE Cursor!Start
  BY <1>1 DEF Cursor!Start, Cursor!End, Cursor!Post, Cursor!turnVars, Cursor!bridgeVars
<1>2. CASE Cursor!Stream
  BY <1>2 DEF Cursor!Stream, Cursor!idVars, Cursor!bridgeVars
<1>3. CASE Cursor!TurnFails
  BY <1>3 DEF Cursor!TurnFails, Cursor!End, Cursor!Revoked, Cursor!DropLocals,
      Cursor!bridgeVars
<1>4. CASE Cursor!TurnStale
  BY <1>4 DEF Cursor!TurnStale, Cursor!Post, Cursor!bridgeVars
<1>5. CASE Cursor!TurnDone
  BY <1>5 DEF Cursor!TurnDone, Cursor!bridgeVars
<1>6. CASE Cursor!PreStop
  BY <1>6 DEF Cursor!PreStop, Cursor!End, Cursor!Post, Cursor!idVars, Cursor!bridgeVars
<1>7. CASE Cursor!Finish
  BY <1>7 DEF Cursor!Finish, Cursor!idVars, Cursor!turnVars, Cursor!bridgeVars
<1>8. CASE Cursor!FinishBatch
  BY <1>8 DEF Cursor!FinishBatch, Cursor!idVars, Cursor!bridgeVars
<1>9. CASE Cursor!Revoke
  BY <1>9 DEF Cursor!Revoke, Cursor!Revoked, Cursor!idVars, Cursor!turnVars,
      Cursor!bridgeVars
<1>10. CASE Cursor!Store
  BY <1>10 DEF Cursor!Store, Cursor!turnVars, Cursor!bridgeVars
<1>11. CASE Cursor!Deliver
  BY <1>11 DEF Cursor!Deliver, Cursor!End, Cursor!idVars, Cursor!turnVars,
      Cursor!bridgeVars
<1>12. ASSUME NEW c \in Calls, Cursor!Ask(c) PROVE StallKept'
  BY <1>12 DEF Cursor!Ask, Cursor!OtherVars, Cursor!idVars, Cursor!turnVars
<1>13. ASSUME NEW c \in Calls, Cursor!Copy(c) PROVE StallKept'
  BY <1>13 DEF Cursor!Copy, Cursor!OtherVars, Cursor!idVars, Cursor!turnVars
<1>14. ASSUME NEW c \in Calls, Cursor!Judge(c) PROVE StallKept'
  <2>1. UNCHANGED <<pc, outcome, text, token, stalled>>
    BY <1>14 DEF Cursor!Judge, Cursor!OtherVars, Cursor!turnVars
  <2>2. ~raced' => shared' = shared
    <3>1. c \in Cursor!InFlight
      BY <1>14 DEF Cursor!Judge
    <3>2. CASE Cursor!WriteBack(c, scratch[c])
      BY <3>1, <3>2 DEF Cursor!WriteBack, CopiesHonest
    <3>3. CASE UNCHANGED shared
      BY <3>3
    <3> QED
      BY <1>14, <3>2, <3>3 DEF Cursor!Judge, Cursor!Run
  <2>3. raced => raced'
    BY <1>14 DEF Cursor!Judge, Cursor!Run, Cursor!WriteBack
  <2> QED
    BY <2>1, <2>2, <2>3
<1>15. ASSUME NEW c \in Calls, Cursor!Return(c) PROVE StallKept'
  <2>1. PICK ok \in BOOLEAN, stall \in BOOLEAN :
          /\ Cursor!WriteBack(c, [skill |-> scratch[c].skill \/ (ok /\ c \in Activating),
                                  stall |-> scratch[c].stall \/ stall])
          /\ stalled' = (stalled \/ (stall /\ Cursor!Heard))
    BY <1>15 DEF Cursor!Return
  <2>2. UNCHANGED <<pc, outcome, text, token>>
    BY <1>15 DEF Cursor!Return, Cursor!OtherVars, Cursor!turnVars
  <2>3. c \in Cursor!InFlight
    BY <1>15 DEF Cursor!Return
  <2>4. shared'.stall <=> scratch[c].stall \/ stall
    BY <2>1 DEF Cursor!WriteBack
  <2>5. raced => raced'
    BY <2>1 DEF Cursor!WriteBack
  <2>6. ~raced' => scratch[c] = shared
    BY <2>1, <2>3 DEF Cursor!WriteBack, CopiesHonest
  <2>7. stalled' => token' # "none"
    BY <2>1, <2>2 DEF Cursor!Heard
  <2>8. stalled' /\ ~raced' => shared'.stall
    BY <2>1, <2>4, <2>5, <2>6
  <2>9. pc \in {"revoking", "storing", "gate"} \/ outcome = "ok" => stalled' = stalled
    BY <2>1 DEF Cursor!Heard
  <2> QED
    BY <2>1, <2>2, <2>5, <2>7, <2>8, <2>9
<1>16. CASE Cursor!Expire
  BY <1>16 DEF Cursor!Expire, Cursor!OtherVars, Cursor!idVars, Cursor!turnVars,
      Cursor!bridgeVars
<1>17. CASE Cursor!CancelRun
  BY <1>17 DEF Cursor!CancelRun, Cursor!idVars, Cursor!turnVars, Cursor!bridgeVars
<1>18. CASE Cursor!AbortRun
  BY <1>18 DEF Cursor!AbortRun, Cursor!End, Cursor!DropLocals, Cursor!bridgeVars
<1>19. CASE UNCHANGED Cursor!vars
  BY <1>19 DEF Cursor!vars, Cursor!idVars, Cursor!turnVars, Cursor!bridgeVars
<1> QED
  BY <1>1, <1>2, <1>3, <1>4, <1>5, <1>6, <1>7, <1>8, <1>9, <1>10, <1>11, <1>12, <1>13,
      <1>14, <1>15, <1>16, <1>17, <1>18, <1>19 DEF Cursor!Next, Cursor!Step, Cursor!Bridge

\* A new id is larger than all before it.
LEMMA IdsStep == IdsFresh /\ CursorTypes /\ [Cursor!Next]_(Cursor!vars) => IdsFresh'
<1> SUFFICES ASSUME IdsFresh, CursorTypes, [Cursor!Next]_(Cursor!vars) PROVE IdsFresh'
  OBVIOUS
<1> USE DEF IdsFresh, CursorTypes
<1>1. CASE Cursor!Start
  BY <1>1 DEF Cursor!Start, Cursor!End, Cursor!Post, Cursor!turnVars, Cursor!bridgeVars
<1>2. CASE Cursor!Stream
  BY <1>2 DEF Cursor!Stream, Cursor!idVars, Cursor!bridgeVars
<1>3. CASE Cursor!TurnFails
  BY <1>3 DEF Cursor!TurnFails, Cursor!End, Cursor!Revoked, Cursor!DropLocals,
      Cursor!bridgeVars
<1>4. CASE Cursor!TurnStale
  BY <1>4 DEF Cursor!TurnStale, Cursor!Post, Cursor!bridgeVars
<1>5. CASE Cursor!TurnDone
  BY <1>5 DEF Cursor!TurnDone, Cursor!bridgeVars
<1>6. CASE Cursor!PreStop
  BY <1>6 DEF Cursor!PreStop, Cursor!End, Cursor!Post, Cursor!idVars, Cursor!bridgeVars
<1>7. CASE Cursor!Finish
  BY <1>7 DEF Cursor!Finish, Cursor!idVars, Cursor!turnVars, Cursor!bridgeVars
<1>8. CASE Cursor!FinishBatch
  BY <1>8 DEF Cursor!FinishBatch, Cursor!idVars, Cursor!bridgeVars
<1>9. CASE Cursor!Revoke
  BY <1>9 DEF Cursor!Revoke, Cursor!Revoked, Cursor!idVars, Cursor!turnVars,
      Cursor!bridgeVars
<1>10. CASE Cursor!Store
  BY <1>10 DEF Cursor!Store, Cursor!turnVars, Cursor!bridgeVars
<1>11. CASE Cursor!Deliver
  BY <1>11 DEF Cursor!Deliver, Cursor!End, Cursor!idVars, Cursor!turnVars,
      Cursor!bridgeVars
<1>12. ASSUME NEW c \in Calls, Cursor!Ask(c) PROVE IdsFresh'
  BY <1>12 DEF Cursor!Ask, Cursor!OtherVars, Cursor!idVars, Cursor!turnVars
<1>13. ASSUME NEW c \in Calls, Cursor!Copy(c) PROVE IdsFresh'
  BY <1>13 DEF Cursor!Copy, Cursor!OtherVars, Cursor!idVars, Cursor!turnVars
<1>14. ASSUME NEW c \in Calls, Cursor!Judge(c) PROVE IdsFresh'
  BY <1>14 DEF Cursor!Judge, Cursor!OtherVars, Cursor!idVars, Cursor!turnVars,
      Cursor!WriteBack, Cursor!InFlight, Cursor!Passes, Cursor!Run
<1>15. ASSUME NEW c \in Calls, Cursor!Return(c) PROVE IdsFresh'
  BY <1>15 DEF Cursor!Return, Cursor!OtherVars, Cursor!idVars, Cursor!turnVars,
      Cursor!WriteBack, Cursor!InFlight, Cursor!Heard
<1>16. CASE Cursor!Expire
  BY <1>16 DEF Cursor!Expire, Cursor!OtherVars, Cursor!idVars, Cursor!turnVars,
      Cursor!bridgeVars
<1>17. CASE Cursor!CancelRun
  BY <1>17 DEF Cursor!CancelRun, Cursor!idVars, Cursor!turnVars, Cursor!bridgeVars
<1>18. CASE Cursor!AbortRun
  BY <1>18 DEF Cursor!AbortRun, Cursor!End, Cursor!DropLocals, Cursor!bridgeVars
<1>19. CASE UNCHANGED Cursor!vars
  BY <1>19 DEF Cursor!vars, Cursor!idVars, Cursor!turnVars, Cursor!bridgeVars
<1> QED
  BY <1>1, <1>2, <1>3, <1>4, <1>5, <1>6, <1>7, <1>8, <1>9, <1>10, <1>11, <1>12, <1>13,
      <1>14, <1>15, <1>16, <1>17, <1>18, <1>19 DEF Cursor!Next, Cursor!Step, Cursor!Bridge

\* The cancel flag is looked at before an answer is taken.
LEMMA LateStep == LatePost /\ CursorTypes /\ [Cursor!Next]_(Cursor!vars) => LatePost'
<1> SUFFICES ASSUME LatePost, CursorTypes, [Cursor!Next]_(Cursor!vars) PROVE LatePost'
  OBVIOUS
<1> USE DEF LatePost, CursorTypes
<1>1. CASE Cursor!Start
  BY <1>1 DEF Cursor!Start, Cursor!End, Cursor!Post, Cursor!turnVars, Cursor!bridgeVars
<1>2. CASE Cursor!Stream
  BY <1>2 DEF Cursor!Stream, Cursor!idVars, Cursor!bridgeVars
<1>3. CASE Cursor!TurnFails
  BY <1>3 DEF Cursor!TurnFails, Cursor!End, Cursor!Revoked, Cursor!DropLocals,
      Cursor!bridgeVars
<1>4. CASE Cursor!TurnStale
  BY <1>4 DEF Cursor!TurnStale, Cursor!Post, Cursor!bridgeVars
<1>5. CASE Cursor!TurnDone
  BY <1>5 DEF Cursor!TurnDone, Cursor!bridgeVars
<1>6. CASE Cursor!PreStop
  BY <1>6 DEF Cursor!PreStop, Cursor!End, Cursor!Post, Cursor!idVars, Cursor!bridgeVars
<1>7. CASE Cursor!Finish
  BY <1>7 DEF Cursor!Finish, Cursor!idVars, Cursor!turnVars, Cursor!bridgeVars
<1>8. CASE Cursor!FinishBatch
  BY <1>8 DEF Cursor!FinishBatch, Cursor!idVars, Cursor!bridgeVars
<1>9. CASE Cursor!Revoke
  BY <1>9 DEF Cursor!Revoke, Cursor!Revoked, Cursor!idVars, Cursor!turnVars,
      Cursor!bridgeVars
<1>10. CASE Cursor!Store
  BY <1>10 DEF Cursor!Store, Cursor!turnVars, Cursor!bridgeVars
<1>11. CASE Cursor!Deliver
  BY <1>11 DEF Cursor!Deliver, Cursor!End, Cursor!idVars, Cursor!turnVars,
      Cursor!bridgeVars
<1>12. ASSUME NEW c \in Calls, Cursor!Ask(c) PROVE LatePost'
  BY <1>12 DEF Cursor!Ask, Cursor!OtherVars, Cursor!idVars, Cursor!turnVars
<1>13. ASSUME NEW c \in Calls, Cursor!Copy(c) PROVE LatePost'
  BY <1>13 DEF Cursor!Copy, Cursor!OtherVars, Cursor!idVars, Cursor!turnVars
<1>14. ASSUME NEW c \in Calls, Cursor!Judge(c) PROVE LatePost'
  BY <1>14 DEF Cursor!Judge, Cursor!OtherVars, Cursor!idVars, Cursor!turnVars,
      Cursor!WriteBack, Cursor!InFlight, Cursor!Passes, Cursor!Run
<1>15. ASSUME NEW c \in Calls, Cursor!Return(c) PROVE LatePost'
  BY <1>15 DEF Cursor!Return, Cursor!OtherVars, Cursor!idVars, Cursor!turnVars,
      Cursor!WriteBack, Cursor!InFlight, Cursor!Heard
<1>16. CASE Cursor!Expire
  BY <1>16 DEF Cursor!Expire, Cursor!OtherVars, Cursor!idVars, Cursor!turnVars,
      Cursor!bridgeVars
<1>17. CASE Cursor!CancelRun
  BY <1>17 DEF Cursor!CancelRun, Cursor!idVars, Cursor!turnVars, Cursor!bridgeVars
<1>18. CASE Cursor!AbortRun
  BY <1>18 DEF Cursor!AbortRun, Cursor!End, Cursor!DropLocals, Cursor!bridgeVars
<1>19. CASE UNCHANGED Cursor!vars
  BY <1>19 DEF Cursor!vars, Cursor!idVars, Cursor!turnVars, Cursor!bridgeVars
<1> QED
  BY <1>1, <1>2, <1>3, <1>4, <1>5, <1>6, <1>7, <1>8, <1>9, <1>10, <1>11, <1>12, <1>13,
      <1>14, <1>15, <1>16, <1>17, <1>18, <1>19 DEF Cursor!Next, Cursor!Step, Cursor!Bridge

----------------------------------------------------------------------------
(* The deterministic engine *)

Executes == {"feeding", "round", "asking", "tools", "judged", "guiding"}

\* The run walks the phases of a profile the validation accepted.
PipeTypes ==
    /\ profile \in Profiles /\ References(profile)
    /\ cancel \in BOOLEAN
    /\ pc \in Executes \union {"phase", "leaving", "answering", "gate", "returned"}
    /\ visits \in 0 .. MaxVisits
    /\ plan \in Nat
    /\ results \in Seq(BOOLEAN) /\ done \in Seq(BOOLEAN)
    /\ response \in {"none", "current", "stale"}
    /\ outcome # "none" <=> pc = "returned"

\* Wherever the rules lead, the phase is there and enabled.
PhaseUsable ==
    /\ Usable(phase, profile)
    /\ outcome # "bad_phase"

\* Once a late batch has begun no model is asked any more.
OneBatchLeft ==
    /\ late \in {0, 1}
    /\ ~cancel => late = 0
    /\ pc = "asking" => late = 0

\* In a staged profile the visits made are fewer than the rank of the phase to
\* come, so that what a phase finds was left by phases of lower rank.
StagedRun ==
    LET rank == Rank(profile.phases[phase].kind) IN
    Staged(profile) =>
        /\ visits <= rank /\ (pc = "phase" => visits < rank)
        /\ pc \in Executes => rank = 3 /\ Len(done) < plan
        /\ response # "stale"
        /\ response = "current" => rank = 4 /\ pc # "phase"
        /\ results # <<>> => Len(results) = plan /\ rank \in {3, 4}
        /\ results # <<>> /\ rank = 3 => pc \in {"leaving", "answering", "gate", "returned"}
        /\ terminal = "finish" => response = "current" /\ pc \in {"gate", "returned"}
        /\ outcome # "budget"

PipelineInv == PipeTypes /\ PhaseUsable /\ OneBatchLeft /\ StagedRun

\* The first rule that matches is a rule.
LEMMA TargetOfRule ==
    ASSUME NEW prof, NEW id, NEW ctx, NEW R, prof.phases[id].rules \in Seq(R)
    PROVE  \/ Target(id, ctx, prof) = "nowhere"
           \/ \E i \in DOMAIN prof.phases[id].rules : Target(id, ctx, prof) = prof.phases[id].rules[i].goto
<1> DEFINE rules == prof.phases[id].rules
           hits == {i \in DOMAIN rules : Matches(rules[i].when, ctx, prof)}
           IsFirst(i) == \A j \in hits : i <= j
<1>1. hits \subseteq Nat /\ hits \subseteq DOMAIN rules
  OBVIOUS
<1>2. CASE hits = {}
  BY <1>2 DEF Target
<1>3. CASE hits # {}
  <2> DEFINE Less == OpToRel(<, Nat)
  <2>1. \A a, b \in Nat : a < b => <<a, b>> \in Less
    BY DEF OpToRel
  <2>2. PICK x \in hits : \A y \in hits : ~ (<<y, x>> \in Less)
    <3>1. IsWellFoundedOn(Less, Nat)
      BY NatLessThanWellFounded
    <3> HIDE DEF Less
    <3> QED
      BY <1>1, <1>3, <3>1, WFMin
  <2> HIDE DEF Less
  <2>3. IsFirst(x)
    <3> SUFFICES ASSUME NEW y \in hits PROVE x <= y
      OBVIOUS
    <3>1. x \in Nat /\ y \in Nat
      BY <1>1
    <3>2. ~ (y < x)
      BY <2>1, <2>2, <3>1
    <3> QED
      BY <3>1, <3>2
  <2>4. (CHOOSE i \in hits : IsFirst(i)) \in hits
    BY <2>3
  <2>5. Target(id, ctx, prof) = rules[CHOOSE i \in hits : IsFirst(i)].goto
    BY <1>3 DEF Target
  <2> QED
    BY <1>1, <2>4, <2>5
<1> QED
  BY <1>2, <1>3

\* Where the rules of the run's phase lead: to a terminal, nowhere, or to an
\* enabled phase, of a higher rank in a staged profile.
LEMMA TargetUsable ==
    ASSUME PipeTypes, PhaseUsable
    PROVE  LET goto == Target(phase, Context, profile)
           IN  \/ goto \in Terminals \union {"nowhere"}
               \/ /\ Usable(goto, profile)
                  /\ Staged(profile) => Rank(profile.phases[phase].kind) < Rank(profile.phases[goto].kind)
<1> DEFINE goto == Target(phase, Context, profile)
<1>1. phase \in Ids(profile) /\ profile.phases[phase].enabled
  BY DEF PhaseUsable, Usable
<1>2. profile.phases[phase].rules \in Seq([when : Conditions, goto : STRING])
  BY <1>1, ProfilesAssumption DEF PipeTypes, Ids
<1>3. SUFFICES ASSUME NEW i \in DOMAIN profile.phases[phase].rules,
                      goto = profile.phases[phase].rules[i].goto, goto \notin Terminals
               PROVE  /\ Usable(goto, profile)
                      /\ Staged(profile) => Rank(profile.phases[phase].kind) < Rank(profile.phases[goto].kind)
  BY <1>2, TargetOfRule
<1>4. goto \in Ids(profile) /\ Usable(goto, profile)
  BY <1>1, <1>3 DEF PipeTypes, References, Usable
<1>5. Staged(profile) => Rank(profile.phases[phase].kind) < Rank(profile.phases[goto].kind)
  BY <1>1, <1>3, <1>4 DEF Staged
<1> QED
  BY <1>4, <1>5

\* The budget has a visit for each kind of phase.
LEMMA EnoughVisits == MaxVisits \in Nat /\ 4 <= MaxVisits
<1>1. IsFiniteSet({}) /\ Cardinality({}) = 0
  BY FS_EmptySet
<1>2. IsFiniteSet({"intent"}) /\ Cardinality({"intent"}) = 1
  BY FS_Singleton
<1>3. IsFiniteSet({"intent", "plan"}) /\ Cardinality({"intent", "plan"}) = 2
  BY <1>2, FS_AddElement, {"intent", "plan"} = {"intent"} \union {"plan"}
<1>4. IsFiniteSet({"intent", "plan", "execute"}) /\ Cardinality({"intent", "plan", "execute"}) = 3
  BY <1>3, FS_AddElement, {"intent", "plan", "execute"} = {"intent", "plan"} \union {"execute"}
<1>5. Cardinality(Kinds) = 4
  BY <1>4, FS_AddElement, Kinds = {"intent", "plan", "execute"} \union {"deliver"} DEF Kinds
<1> QED
  BY <1>5, PipelineAssumption

\* A step of the plan gets its result; the last one ends the phase.
LEMMA AcceptTypes ==
    ASSUME PipeTypes, NEW success \in BOOLEAN, Accept(success)
    PROVE  /\ results' \in Seq(BOOLEAN) /\ done' \in Seq(BOOLEAN) /\ Len(done') = Len(done) + 1
           /\ response' \in {"none", "current", "stale"}
           /\ \/ pc' = "feeding" /\ Len(done') < plan /\ UNCHANGED <<results, response>>
              \/ /\ pc' = "leaving" /\ Len(done) + 1 >= plan /\ results' = done'
                 /\ response' = IF response = "none" THEN "none" ELSE "stale"
           /\ UNCHANGED <<outcome, terminal>>
<1>1. done \in Seq(BOOLEAN) /\ done' = Append(done, success) /\ plan \in Nat
  BY DEF PipeTypes, Accept
<1>2. done' \in Seq(BOOLEAN) /\ Len(done') = Len(done) + 1 /\ Len(done) \in Nat
  BY <1>1
<1> QED
  BY <1>1, <1>2 DEF PipeTypes, Accept, endVars

\* The variables keep their types; the profile is the run's own copy.
LEMMA PipeTypesStep == PipeTypes /\ [Next]_vars => PipeTypes'
<1> SUFFICES ASSUME PipeTypes, [Next]_vars PROVE PipeTypes'
  OBVIOUS
<1> USE PipelineAssumption DEF PipeTypes, Executes
<1>1. CASE VisitFails
  BY <1>1 DEF VisitFails, Fail, planVars, stepVars
<1>2. CASE Classify
  <2>1. CASE Fail("model_error") /\ UNCHANGED planVars
    BY <1>2, <2>1 DEF Classify, Visit, Fail, planVars, stepVars
  <2>2. CASE pc' = "leaving"
    <3>1. plan' \in {plan} \union Plans /\ UNCHANGED <<results, outcome>>
      BY <1>2, <2>2 DEF Classify, PlansWithIntent, Fail, endVars
    <3>2. response' \in {"none", "stale"}
      BY <1>2, <2>2 DEF Classify, Fail
    <3>3. UNCHANGED <<profile, cancel, done>> /\ visits' \in 0 .. MaxVisits
      BY <1>2 DEF Classify, Visit, stepVars
    <3>4. plan' \in Nat
      BY <3>1 DEF Plans
    <3> QED
      BY <1>2, <2>2, <3>1, <3>2, <3>3, <3>4 DEF Classify, Visit
  <2> QED
    BY <1>2, <2>1, <2>2 DEF Classify
<1>3. CASE GeneratePlan
  BY <1>3 DEF GeneratePlan, Visit, Fail, Plans, stepVars, endVars
<1>4. CASE BeginExecute
  <2>1. done' \in Seq(BOOLEAN)
    <3>1. done' = <<>> \/ done' = done
      BY <1>4 DEF BeginExecute, stepVars
    <3>2. <<>> \in Seq(BOOLEAN)
      BY EmptySeq
    <3> QED
      BY <3>1, <3>2
  <2>2. UNCHANGED <<profile, cancel, plan, results, response>> /\ visits' \in 0 .. MaxVisits
    BY <1>4 DEF BeginExecute, Visit, planVars
  <2>3. pc' \in {"feeding", "returned"} /\ (outcome' # "none" <=> pc' = "returned")
    BY <1>4 DEF BeginExecute, Visit, Fail, endVars
  <2> QED
    BY <2>1, <2>2, <2>3
<1>5. CASE Deliver
  BY <1>5 DEF Deliver, Visit, Fail, stepVars, endVars
<1>6. CASE Leave
  BY <1>6 DEF Leave, Fail, stepVars, endVars
<1>7. CASE DirectAnswer
  BY <1>7 DEF DirectAnswer, Fail, planVars, stepVars, endVars
<1>8. CASE Gate
  BY <1>8 DEF Gate, planVars, stepVars
<1>9. CASE Feed
  BY <1>9 DEF Feed, Fail, Executing, stepVars, endVars
<1>10. CASE Round
  BY <1>10 DEF Round, Executing, endVars
<1>11. CASE ModelReturns
  BY <1>11 DEF ModelReturns, Fail, Executing, stepVars, endVars
<1>12. CASE ToolsReturn
  BY <1>12 DEF ToolsReturn, Executing, endVars
<1>13. CASE Judge
  <2>1. ASSUME NEW success \in BOOLEAN, Accept(success) PROVE PipeTypes'
    BY <1>13, <2>1, AcceptTypes DEF Judge, Executing
  <2>2. CASE ~ \E success \in BOOLEAN : Accept(success)
    BY <1>13, <2>2 DEF Judge, Again, Executing, stepVars, endVars
  <2> QED
    BY <2>1, <2>2
<1>14. CASE Escalate
  <2>1. ASSUME NEW success \in BOOLEAN, Accept(success) PROVE PipeTypes'
    BY <1>14, <2>1, AcceptTypes DEF Escalate, Executing
  <2>2. CASE ~ \E success \in BOOLEAN : Accept(success)
    BY <1>14, <2>2 DEF Escalate, Fail, Executing, stepVars, endVars
  <2> QED
    BY <2>1, <2>2
<1>15. CASE Cancel
  BY <1>15 DEF Cancel, planVars, stepVars, endVars
<1>16. CASE Abort
  BY <1>16 DEF Abort, Fail, planVars, stepVars
<1>17. CASE UNCHANGED vars
  BY <1>17 DEF vars, planVars, stepVars, endVars
<1> QED
  BY <1>1, <1>2, <1>3, <1>4, <1>5, <1>6, <1>7, <1>8, <1>9, <1>10, <1>11, <1>12, <1>13,
      <1>14, <1>15, <1>16, <1>17 DEF Next, Step

\* The next phase comes from a rule, and the rules were validated.
LEMMA PhaseUsableStep == PhaseUsable /\ PipeTypes /\ [Next]_vars => PhaseUsable'
<1> SUFFICES ASSUME PhaseUsable, PipeTypes, [Next]_vars PROVE PhaseUsable'
  OBVIOUS
<1> USE PipelineAssumption DEF PhaseUsable
<1>1. CASE VisitFails
  BY <1>1 DEF VisitFails, Fail
<1>2. CASE Classify
  BY <1>2 DEF Classify, Visit, Fail, planVars, stepVars, endVars, PlansWithIntent, Plans
<1>3. CASE GeneratePlan
  BY <1>3 DEF GeneratePlan, Visit, Fail, Plans, stepVars, endVars
<1>4. CASE BeginExecute
  BY <1>4 DEF BeginExecute, Visit, Fail, planVars, stepVars, endVars
<1>5. CASE Deliver
  BY <1>5 DEF Deliver, Visit, Fail, stepVars, endVars
<1>6. CASE Leave
  BY <1>6, TargetUsable DEF Leave, Fail, stepVars, endVars
<1>7. CASE DirectAnswer
  BY <1>7 DEF DirectAnswer, Fail, planVars, stepVars, endVars
<1>8. CASE Gate
  BY <1>8 DEF Gate, planVars, stepVars
<1>9. CASE Feed
  BY <1>9 DEF Feed, Fail, Executing, stepVars, endVars
<1>10. CASE Round
  BY <1>10 DEF Round, Executing, endVars
<1>11. CASE ModelReturns
  BY <1>11 DEF ModelReturns, Fail, Executing, stepVars, endVars
<1>12. CASE ToolsReturn
  BY <1>12 DEF ToolsReturn, Executing, endVars
<1>13. CASE Judge
  BY <1>13 DEF Judge, Accept, Again, Executing, stepVars, endVars
<1>14. CASE Escalate
  BY <1>14 DEF Escalate, Accept, Fail, Executing, stepVars, endVars
<1>15. CASE Cancel
  BY <1>15 DEF Cancel, planVars, stepVars, endVars
<1>16. CASE Abort
  BY <1>16 DEF Abort, Fail, planVars, stepVars
<1>17. CASE UNCHANGED vars
  BY <1>17 DEF vars, planVars, stepVars, endVars
<1> QED
  BY <1>1, <1>2, <1>3, <1>4, <1>5, <1>6, <1>7, <1>8, <1>9, <1>10, <1>11, <1>12, <1>13,
      <1>14, <1>15, <1>16, <1>17 DEF Next, Step

\* A round that finds the flag set is the last one that begins.
LEMMA OneBatchStep == OneBatchLeft /\ PipeTypes /\ [Next]_vars => OneBatchLeft'
<1> SUFFICES ASSUME OneBatchLeft, PipeTypes, [Next]_vars PROVE OneBatchLeft'
  OBVIOUS
<1> USE PipelineAssumption DEF OneBatchLeft, PipeTypes, Executes
<1>1. CASE VisitFails
  BY <1>1 DEF VisitFails, Fail, planVars, stepVars
<1>2. CASE Classify
  BY <1>2 DEF Classify, Visit, Fail, planVars, stepVars, endVars, PlansWithIntent, Plans
<1>3. CASE GeneratePlan
  BY <1>3 DEF GeneratePlan, Visit, Fail, Plans, stepVars, endVars
<1>4. CASE BeginExecute
  BY <1>4 DEF BeginExecute, Visit, Fail, planVars, stepVars, endVars
<1>5. CASE Deliver
  BY <1>5 DEF Deliver, Visit, Fail, stepVars, endVars
<1>6. CASE Leave
  BY <1>6 DEF Leave, Fail, stepVars, endVars
<1>7. CASE DirectAnswer
  BY <1>7 DEF DirectAnswer, Fail, planVars, stepVars, endVars
<1>8. CASE Gate
  BY <1>8 DEF Gate, planVars, stepVars
<1>9. CASE Feed
  BY <1>9 DEF Feed, Fail, Executing, stepVars, endVars
<1>10. CASE Round
  BY <1>10 DEF Round, Executing, endVars
<1>11. CASE ModelReturns
  BY <1>11 DEF ModelReturns, Fail, Executing, stepVars, endVars
<1>12. CASE ToolsReturn
  BY <1>12 DEF ToolsReturn, Executing, endVars
<1>13. CASE Judge
  BY <1>13 DEF Judge, Accept, Again, Executing, stepVars, endVars
<1>14. CASE Escalate
  BY <1>14 DEF Escalate, Accept, Fail, Executing, stepVars, endVars
<1>15. CASE Cancel
  BY <1>15 DEF Cancel, planVars, stepVars, endVars
<1>16. CASE Abort
  BY <1>16 DEF Abort, Fail, planVars, stepVars
<1>17. CASE UNCHANGED vars
  BY <1>17 DEF vars, planVars, stepVars, endVars
<1> QED
  BY <1>1, <1>2, <1>3, <1>4, <1>5, <1>6, <1>7, <1>8, <1>9, <1>10, <1>11, <1>12, <1>13,
      <1>14, <1>15, <1>16, <1>17 DEF Next, Step

\* Every visit but the last is followed by a phase of higher rank.
LEMMA StagedStep == StagedRun /\ PipeTypes /\ PhaseUsable /\ [Next]_vars => StagedRun'
<1> SUFFICES ASSUME StagedRun, PipeTypes, PhaseUsable, [Next]_vars PROVE StagedRun'
  OBVIOUS
<1> USE PipelineAssumption DEF StagedRun, PipeTypes, Executes, Rank, Kinds
<1>1. CASE VisitFails
  BY <1>1, EnoughVisits DEF VisitFails, Fail, planVars, stepVars
<1>2. CASE Classify
  <2>1. CASE Fail("model_error") /\ UNCHANGED planVars
    BY <1>2, <2>1 DEF Classify, Visit, Fail, planVars, stepVars
  <2>2. CASE pc' = "leaving"
    <3> SUFFICES ASSUME Staged(profile) PROVE StagedRun'
      BY <1>2 DEF Classify, Visit
    <3>1. visits' = 1 /\ Rank(profile.phases[phase].kind) = 1 /\ UNCHANGED <<profile, phase>>
      BY <1>2 DEF Classify, Visit
    <3>2. results = <<>> /\ response = "none" /\ terminal # "finish"
      BY <1>2 DEF Classify, Visit
    <3>3. UNCHANGED <<results, terminal, outcome>> /\ response' = "none"
      BY <1>2, <2>2, <3>2 DEF Classify, Fail, endVars
    <3>4. outcome = "none"
      BY <1>2 DEF Classify, Visit
    <3> HIDE DEF Rank
    <3> QED
      BY <2>2, <3>1, <3>2, <3>3, <3>4
  <2> QED
    BY <1>2, <2>1, <2>2 DEF Classify
<1>3. CASE GeneratePlan
  BY <1>3 DEF GeneratePlan, Visit, Fail, Plans, stepVars, endVars
<1>4. CASE BeginExecute
  BY <1>4 DEF BeginExecute, Visit, Fail, planVars, stepVars, endVars
<1>5. CASE Deliver
  BY <1>5 DEF Deliver, Visit, Fail, stepVars, endVars
<1>6. CASE Leave
  BY <1>6, TargetUsable DEF Leave, Fail, stepVars, endVars, Terminals
<1>7. CASE DirectAnswer
  BY <1>7 DEF DirectAnswer, Fail, planVars, stepVars, endVars
<1>8. CASE Gate
  BY <1>8 DEF Gate, planVars, stepVars
<1>9. CASE Feed
  BY <1>9 DEF Feed, Fail, Executing, stepVars, endVars
<1>10. CASE Round
  BY <1>10 DEF Round, Executing, endVars
<1>11. CASE ModelReturns
  BY <1>11 DEF ModelReturns, Fail, Executing, stepVars, endVars
<1>12. CASE ToolsReturn
  BY <1>12 DEF ToolsReturn, Executing, endVars
<1>13. CASE Judge
  <2>1. ASSUME NEW success \in BOOLEAN, Accept(success) PROVE StagedRun'
    <3>1. UNCHANGED <<profile, phase, visits, plan>> /\ pc \in Executes
      BY <1>13 DEF Judge, Executing
    <3> HIDE DEF Rank
    <3> QED
      BY <2>1, <3>1, AcceptTypes
  <2>2. CASE ~ \E success \in BOOLEAN : Accept(success)
    BY <1>13, <2>2 DEF Judge, Again, Fail, Executing, stepVars, endVars
  <2> QED
    BY <2>1, <2>2
<1>14. CASE Escalate
  <2>1. ASSUME NEW success \in BOOLEAN, Accept(success) PROVE StagedRun'
    <3>1. UNCHANGED <<profile, phase, visits, plan>> /\ pc \in Executes
      BY <1>14 DEF Escalate, Executing
    <3> HIDE DEF Rank
    <3> QED
      BY <2>1, <3>1, AcceptTypes
  <2>2. CASE ~ \E success \in BOOLEAN : Accept(success)
    BY <1>14, <2>2 DEF Escalate, Fail, Executing, stepVars, endVars
  <2> QED
    BY <2>1, <2>2
<1>15. CASE Cancel
  BY <1>15 DEF Cancel, planVars, stepVars, endVars
<1>16. CASE Abort
  BY <1>16 DEF Abort, Fail, planVars, stepVars
<1>17. CASE UNCHANGED vars
  BY <1>17 DEF vars, planVars, stepVars, endVars
<1> QED
  BY <1>1, <1>2, <1>3, <1>4, <1>5, <1>6, <1>7, <1>8, <1>9, <1>10, <1>11, <1>12, <1>13,
      <1>14, <1>15, <1>16, <1>17 DEF Next, Step

----------------------------------------------------------------------------
(* The two engines *)

BridgeUnused == token = "none" /\ ~stalled /\ gone = 0 /\ call = [c \in Calls |-> "idle"]

EnginesInv ==
    /\ engine \in {"deterministic", "cursor"}
    /\ engine = "deterministic" => PipelineInv /\ BridgeUnused
    /\ engine = "cursor" => CursorInv /\ terminal = "none"

LEMMA PipelineStart == Init => PipelineInv
<1> SUFFICES ASSUME Init PROVE PipelineInv
  OBVIOUS
<1>1. <<>> \in Seq(BOOLEAN)
  BY EmptySeq
<1>2. PipeTypes
  <2>1. profile \in Profiles /\ References(profile)
    BY DEF Init, Valid
  <2>2. 0 \in 0 .. MaxVisits
    BY EnoughVisits
  <2> QED
    BY <1>1, <2>1, <2>2 DEF Init, PipeTypes
<1>3. PhaseUsable
  BY DEF Init, PhaseUsable, Valid, References, Usable
<1>4. OneBatchLeft
  BY DEF Init, OneBatchLeft
<1>5. StagedRun
  BY DEF Init, StagedRun, Executes, Rank
<1> QED
  BY <1>2, <1>3, <1>4, <1>5 DEF PipelineInv

LEMMA PipelineStep == PipelineInv /\ [Next]_vars => PipelineInv'
  BY PipeTypesStep, PhaseUsableStep, OneBatchStep, StagedStep DEF PipelineInv

LEMMA CursorStart == Cursor!Init => CursorInv
<1> SUFFICES ASSUME Cursor!Init PROVE CursorInv
  OBVIOUS
<1> USE DEF Cursor!Init, Cursor!Idle, Cursor!NothingYet, Cursor!Copies, Cursor!Places
<1>1. CursorTypes
  <2>1. call \in [Calls -> {"idle", "admitted", "asked", "running", "answered"}]
    OBVIOUS
  <2>2. shared \in Cursor!Copies /\ scratch \in [Calls -> Cursor!Copies]
    OBVIOUS
  <2>3. {activated, stalled, raced} \subseteq BOOLEAN
    OBVIOUS
  <2> QED
    BY <2>1, <2>2, <2>3 DEF CursorTypes
<1>2. TokenHeld /\ StallKept /\ IdsFresh /\ LatePost
  BY DEF TokenHeld, StallKept, IdsFresh, LatePost
<1>3. CopiesHonest
  BY DEF CopiesHonest, Cursor!InFlight
<1> QED
  BY <1>1, <1>2, <1>3 DEF CursorInv

LEMMA CursorStep == CursorInv /\ [Cursor!Next]_(Cursor!vars) => CursorInv'
  BY CursorTypesStep, TokenStep, CopiesStep, StallStep, IdsStep, LateStep DEF CursorInv

LEMMA EnginesStart == EnginesInit => EnginesInv
<1>1. ASSUME engine = "deterministic", Init, Cursor!Idle(0) PROVE EnginesInv
  BY <1>1, PipelineStart DEF EnginesInv, BridgeUnused, Cursor!Idle
<1>2. ASSUME engine = "cursor", Cursor!Init, PipelineIdle PROVE EnginesInv
  BY <1>2, CursorStart DEF EnginesInv, PipelineIdle
<1> QED
  BY <1>1, <1>2 DEF EnginesInit

\* A step is one of the engine that has the run.
LEMMA EnginesSteps ==
    ASSUME [EnginesNext]_allVars
    PROVE  /\ engine' = engine
           /\ engine = "deterministic" => [Next]_vars /\ UNCHANGED cursorVars
           /\ engine = "cursor" => [Cursor!Next]_(Cursor!vars) /\ UNCHANGED pipelineVars
<1>1. CASE Deterministic(Next)
  BY <1>1 DEF Deterministic
<1>2. CASE WithCursor(Cursor!Next)
  BY <1>2 DEF WithCursor
<1>3. CASE UNCHANGED allVars
  BY <1>3 DEF allVars, runVars, cursorVars, pipelineVars, vars, planVars, stepVars, endVars,
      Cursor!vars, Cursor!idVars, Cursor!turnVars, Cursor!bridgeVars
<1> QED
  BY <1>1, <1>2, <1>3 DEF EnginesNext

LEMMA EnginesInvStep == EnginesInv /\ [EnginesNext]_allVars => EnginesInv'
<1> SUFFICES ASSUME EnginesInv, [EnginesNext]_allVars PROVE EnginesInv'
  OBVIOUS
<1>1. engine' = engine
  BY EnginesSteps
<1>2. CASE engine = "deterministic"
  <2>1. PipelineInv'
    BY <1>2, EnginesSteps, PipelineStep DEF EnginesInv
  <2>2. BridgeUnused'
    BY <1>2, EnginesSteps DEF EnginesInv, BridgeUnused, cursorVars
  <2> QED
    BY <1>1, <1>2, <2>1, <2>2 DEF EnginesInv
<1>3. CASE engine = "cursor"
  <2>1. CursorInv'
    BY <1>3, EnginesSteps, CursorStep DEF EnginesInv
  <2>2. terminal' = "none"
    BY <1>3, EnginesSteps DEF EnginesInv, pipelineVars
  <2> QED
    BY <1>1, <1>3, <2>1, <2>2 DEF EnginesInv
<1> QED
  BY <1>2, <1>3 DEF EnginesInv

\* In every run with either engine the engine's variables keep to its
\* invariant, and those of the other rest.
THEOREM Invariance == EnginesSpec => []EnginesInv
<1>1. EnginesInit => EnginesInv
  BY EnginesStart
<1>2. EnginesInv /\ [EnginesNext]_allVars => EnginesInv'
  BY EnginesInvStep
<1> QED
  BY <1>1, <1>2, PTL DEF EnginesSpec

\* However many rounds, attempts, steps and visits a cancelled run has left, and
\* whatever the profile, one batch of tools (or, with the cursor engine, one
\* turn of the sidecar) begins at most (run_step_once, run_cursor_engine).
THEOREM CancelBounds == EnginesSpec => []OneLateBatch
<1>1. EnginesInv => OneLateBatch
  BY DEF EnginesInv, PipelineInv, OneBatchLeft, CursorInv, LatePost, OneLateBatch
<1> QED
  BY <1>1, Invariance, PTL

\* A finished run of any staged profile answers with a text that knows the
\* results of the whole plan (run_profiled_pipeline).
THEOREM StagedAnswers == EnginesSpec => []AnswersItsRun
<1>1. ASSUME EnginesInv PROVE AnswersItsRun
  <2>1. CASE engine = "deterministic"
    <3> SUFFICES ASSUME terminal = "finish", Staged(profile)
                 PROVE  response = "current" /\ Len(results) \in {0, plan}
      BY DEF AnswersItsRun
    <3>1. response = "current" /\ (results # <<>> => Len(results) = plan)
      BY <1>1, <2>1 DEF EnginesInv, PipelineInv, StagedRun
    <3>2. Len(<<>>) = 0
      BY EmptySeq
    <3> QED
      BY <3>1, <3>2
  <2>2. CASE engine = "cursor"
    BY <1>1, <2>2 DEF EnginesInv, AnswersItsRun
  <2> QED
    BY <1>1, <2>1, <2>2 DEF EnginesInv
<1> QED
  BY <1>1, Invariance, PTL

\* No run of a profile that was accepted meets a phase that is missing or
\* disabled, and none of a staged one exceeds the budget of visits
\* (PipelineProfile::validate).
THEOREM AcceptedRuns == EnginesSpec => []ValidProfileRuns
<1>1. ASSUME EnginesInv PROVE ValidProfileRuns
  <2>1. CASE engine = "deterministic"
    BY <1>1, <2>1 DEF EnginesInv, PipelineInv, PhaseUsable, StagedRun, ValidProfileRuns
  <2>2. CASE engine = "cursor"
    BY <1>1, <2>2 DEF EnginesInv, CursorInv, CursorTypes, ValidProfileRuns
  <2> QED
    BY <1>1, <2>1, <2>2 DEF EnginesInv
<1> QED
  BY <1>1, Invariance, PTL

\* For any set of overlapping calls, a stall a hook called for is what the user
\* is told, unless a call wrote an older copy back (finish_run).
THEOREM StallReaches == EnginesSpec => []StallIsTold
<1>1. ASSUME EnginesInv PROVE StallIsTold
  BY <1>1 DEF EnginesInv, BridgeUnused, CursorInv, StallKept, StallIsTold, Cursor!StallIsTold
<1> QED
  BY <1>1, Invariance, PTL

\* An agent id found to be stale is not stored again by any number of turns
\* (run_cursor_engine).
THEOREM StaleIdForgotten == EnginesSpec => []StaleIdIsGone
<1>1. ASSUME EnginesInv PROVE StaleIdIsGone
  BY <1>1 DEF EnginesInv, BridgeUnused, CursorInv, IdsFresh, StaleIdIsGone, Cursor!StaleIdIsGone
<1> QED
  BY <1>1, Invariance, PTL

\* Only the bridge moves a call.
LEMMA CallsMove ==
    ASSUME [Cursor!Next]_(Cursor!vars)
    PROVE  UNCHANGED call \/ \E c \in Calls :
                Cursor!Ask(c) \/ Cursor!Copy(c) \/ Cursor!Judge(c) \/ Cursor!Return(c)
<1>1. CASE Cursor!Step
  BY <1>1 DEF Cursor!Step, Cursor!Start, Cursor!Stream, Cursor!TurnFails, Cursor!TurnStale,
      Cursor!TurnDone, Cursor!PreStop, Cursor!Finish, Cursor!FinishBatch, Cursor!Revoke,
      Cursor!Store, Cursor!Deliver, Cursor!bridgeVars
<1>2. CASE Cursor!Expire \/ Cursor!CancelRun \/ Cursor!AbortRun
  BY <1>2 DEF Cursor!Expire, Cursor!CancelRun, Cursor!AbortRun, Cursor!bridgeVars
<1>3. CASE UNCHANGED Cursor!vars
  BY <1>3 DEF Cursor!vars, Cursor!bridgeVars
<1> QED
  BY <1>1, <1>2, <1>3 DEF Cursor!Next, Cursor!Bridge

\* With the gate enabled and for any set of overlapping calls, a scheduling tool
\* runs only after the skill
\* was activated in the run, or unjudged: a copy never has the skill too early
\* (dispatch_tool_with_hooks, handle_tools_call).
THEOREM SkillGateOverlaps == EnginesSpec => SkillBeforeUse
<1> DEFINE Gate1 == \A c \in Gated : SkillGate /\ call[c] = "asked" /\ call'[c] = "running"
                                        => activated \/ c \in unjudged'
<1>1. ASSUME EnginesInv, [EnginesNext]_allVars PROVE [Gate1]_call
  <2>1. CASE engine = "deterministic"
    BY <1>1, <2>1, EnginesSteps DEF cursorVars
  <2>2. CASE engine = "cursor"
    <3>1. CASE UNCHANGED call
      BY <3>1
    <3>2. ASSUME NEW d \in Calls, Cursor!Judge(d) PROVE Gate1
      BY <1>1, <2>2, <3>2, CursorAssumption
         DEF EnginesInv, CursorInv, CursorTypes, CopiesHonest, Cursor!Judge, Cursor!Passes,
             Cursor!Run, Cursor!WriteBack, Cursor!CursorConstants
    <3>3. ASSUME NEW d \in Calls, Cursor!Ask(d) \/ Cursor!Copy(d) \/ Cursor!Return(d) PROVE Gate1
      BY <1>1, <2>2, <3>3, CursorAssumption
         DEF EnginesInv, CursorInv, CursorTypes, Cursor!Ask, Cursor!Copy, Cursor!Return,
             Cursor!WriteBack, Cursor!CursorConstants
    <3> QED
      BY <1>1, <2>2, <3>1, <3>2, <3>3, EnginesSteps, CallsMove
  <2> QED
    BY <1>1, <2>1, <2>2 DEF EnginesInv
<1> QED
  BY <1>1, Invariance, PTL DEF EnginesSpec, SkillBeforeUse, Cursor!SkillBeforeUse

\* A run that ended by its own code has no valid token left, so that the agent's
\* later calls are refused (revoke_run).
THEOREM EndedRunsRefuse == EnginesSpec => NoCallAfterEnd
<1> DEFINE Ends == \A c \in Calls : call[c] = "idle" /\ call'[c] = "admitted"
                                        => pc # "returned" \/ outcome \in {"aborted", "hook_error"}
<1>1. ASSUME EnginesInv, [EnginesNext]_allVars PROVE [Ends]_call
  <2>1. CASE engine = "deterministic"
    BY <1>1, <2>1, EnginesSteps DEF cursorVars
  <2>2. CASE engine = "cursor"
    <3>1. CASE UNCHANGED call
      BY <3>1
    <3>2. ASSUME NEW d \in Calls, Cursor!Ask(d) PROVE Ends
      BY <1>1, <2>2, <3>2 DEF EnginesInv, CursorInv, TokenHeld, Cursor!Ask
    <3>3. ASSUME NEW d \in Calls, Cursor!Copy(d) \/ Cursor!Judge(d) \/ Cursor!Return(d) PROVE Ends
      BY <1>1, <2>2, <3>3
         DEF EnginesInv, CursorInv, CursorTypes, Cursor!Copy, Cursor!Judge, Cursor!Run,
             Cursor!Return, Cursor!WriteBack
    <3> QED
      BY <1>1, <2>2, <3>1, <3>2, <3>3, EnginesSteps, CallsMove
  <2> QED
    BY <1>1, <2>1, <2>2 DEF EnginesInv
<1> QED
  BY <1>1, Invariance, PTL DEF EnginesSpec, NoCallAfterEnd, Cursor!NoCallAfterEnd
=============================================================================
