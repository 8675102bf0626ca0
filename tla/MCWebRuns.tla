----------------------------- MODULE MCWebRuns -----------------------------
(* Instances of WebRuns for TLC: one persona, so one lane. *)
EXTENDS WebRuns, TLC

CONSTANTS r1, r2, lane

OneLane == [r \in Runs |-> lane]
=============================================================================
