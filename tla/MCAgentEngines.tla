--------------------------- MODULE MCAgentEngines ---------------------------
(* Instances of AgentEngines for TLC. *)
EXTENDS AgentEngines, TLC

Rule(when, goto) == [when |-> when, goto |-> goto]
Phase(kind, rules) == [kind |-> kind, enabled |-> TRUE, rules |-> rules]
Profile(entry, phases, escalate) ==
    [entry |-> entry, phases |-> phases, merged |-> TRUE, retry |-> TRUE, escalate |-> escalate,
     summaries |-> TRUE, webProceeds |-> TRUE, schedulerProceeds |-> FALSE]

Chain(intentRules, executeRules, deliverRules) ==
    ("i" :> Phase("intent", intentRules)) @@ ("p" :> Phase("plan", <<Rule("always", "e")>>))
        @@ ("e" :> Phase("execute", executeRules)) @@ ("d" :> Phase("deliver", deliverRules))

\* The default profile, and one with the terminals of the intent phase.
Finish == <<Rule("always", "finish")>>
Default == Profile("i", Chain(<<Rule("always", "p")>>, <<Rule("always", "d")>>, Finish), TRUE)
Clarifying ==
    Profile("i", Chain(<<Rule("unclear", "clarify"), Rule("conversational", "direct"), Rule("always", "p")>>,
                       <<Rule("any_failed", "finish"), Rule("always", "d")>>, Finish), FALSE)

\* Off the way the validation walks, a phase without a rule for every case.
Gaps ==
    Profile("i", Chain(<<Rule("task", "p"), Rule("unclear_proceed", "e"), Rule("always", "d")>>,
                       <<Rule("all_succeeded", "d"), Rule("web", "d")>>, Finish), FALSE)

\* A failed plan goes back to the intent; the validation never sees it fail.
Replanning ==
    Profile("i", Chain(<<Rule("always", "p")>>, <<Rule("always", "d")>>,
                       <<Rule("any_failed", "i"), Rule("always", "finish")>>), FALSE)

\* Profiles the validation refuses: a rule to a missing or to a disabled phase,
\* a circle without an end.
Dangling == Profile("i", Chain(<<Rule("task", "x"), Rule("always", "p")>>, <<Rule("always", "d")>>, Finish), TRUE)
Disabled == [Default EXCEPT !.phases = [@ EXCEPT !["p"].enabled = FALSE]]
Circular == Profile("i", Chain(<<Rule("always", "p")>>, <<Rule("always", "i")>>, Finish), TRUE)

UserProfiles == {Default, Clarifying, Gaps, Replanning, Dangling, Disabled, Circular}
=============================================================================
