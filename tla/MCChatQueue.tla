---------------------------- MODULE MCChatQueue ----------------------------
(* Instances of ChatQueue for TLC. *)
EXTENDS ChatQueue, TLC

CONSTANTS a, b, c, d

Lane(chat, persona) == [chat |-> chat, persona |-> persona]

\* Three runs of one persona, one of another persona in the same chat.
TwoLanes == (a :> Lane(1, 1)) @@ (b :> Lane(1, 1)) @@ (c :> Lane(1, 1)) @@ (d :> Lane(1, 2))

\* Three runs of one persona and a request without a persona.
OneLane == (a :> Lane(1, 1)) @@ (b :> Lane(1, 1)) @@ (c :> Lane(1, 1)) @@ (d :> Lane(1, 0))

\* Three runs of one persona.
SameLane == [r \in Runs |-> Lane(1, 1)]
=============================================================================
