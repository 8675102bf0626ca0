---------------------------- MODULE MCAgentTurn ----------------------------
(* Instances of AgentTurn for TLC. *)
EXTENDS AgentTurn, TLC

\* One tool of every class.
EveryTool == {"activate_skill", "modify_skill", "schedule_task", "update_scheduled_task",
              "edit_skill", "build_skill", "write_file", "read_file", "write_memory",
              "delegate_local_subjob"}
=============================================================================
