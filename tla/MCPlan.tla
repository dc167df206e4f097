------------------------------- MODULE MCPlan -------------------------------
(* Artifacts of at most two plain steps, of a loop with or without a step before or *)
(* after it, and of a loop of three iterations.                                   *)
EXTENDS PlanExecution

Chains(S, n) == UNION {[1 .. m -> S] : m \in 0 .. n}

SomeDists == {"None", "Arrange", "Distribute", "Collect", "RoundRobin"}
Steps == [kind : BaseKinds, dist : SomeDists]
SomeSteps == [kind : {"Initialize", "Parallel", "Sequential"}, dist : {"Arrange", "Collect"}]
Loops == [kind : {"Iterate"}, iterations : {0, 1, 3}, steps : Chains(SomeSteps, 2)]
LoopKinds == [kind : {"Parallel", "Sequential", "Finalize"}, dist : {"None", "Arrange"}]

MCArtifacts ==
    Chains(Steps, 2)
    \cup {<<l>> : l \in Loops}
    \cup {<<s, l>> : s \in [kind : {"Initialize"}, dist : {"Distribute", "None"}],
                     l \in [kind : {"Iterate"}, iterations : {2}, steps : Chains(LoopKinds, 2)]}
    \cup {<<l, s>> : s \in SomeSteps, l \in [kind : {"Iterate"}, iterations : {2},
                                              steps : Chains(SomeSteps, 1)]}
    \cup {<<[kind |-> "Iterate", iterations |-> 3,
             steps |-> <<[kind |-> "Parallel", dist |-> "Collect"],
                         [kind |-> "Finalize", dist |-> "None"]>>]>>}
=============================================================================
