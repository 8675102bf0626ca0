----------------------------- MODULE MCShellJobs -----------------------------
(* Instances of ShellJobs for TLC. *)
EXTENDS ShellJobs, TLC
=============================================================================
