---------------------------- MODULE MCWorkbench ----------------------------
(* A chain, products with two readers, jobs with two inputs and all of them at  *)
(* once (Arrange, a diamond), on the scheduler, two clients and another node;   *)
(* one researcher, or two contexts that share an id, a key, both or nothing.    *)
EXTENDS Workbench
CONSTANTS s, c1, c2, n, w1, w2

Graph(a, b, c) == [j \in Jobs |-> CASE j = 1 -> a [] j = 2 -> b [] j = 3 -> c [] OTHER -> {}]
Chain == Graph({2}, {3}, {4})
Diamond == Graph({2, 3}, {4}, {4})
Arrange == Graph({3, 4}, {3, 4}, {})
MCGraphs == {Chain, Diamond, Arrange}

\* One job on the other node is enough, it never gets its inputs; the clients are alike,
\* so c2 only comes after c1.
MCPlacements ==
    {p \in [Jobs -> {s, c1, c2, n}] :
        /\ Cardinality({j \in Jobs : p[j] = n}) <= 1
        /\ \A j \in Jobs : p[j] = c2 => \E i \in Jobs : i < j /\ p[i] = c1}

Alone == [c \in {w1} |-> <<"i", "i">>]
Pairs == [{w1, w2} -> {"i", "k"} \X {"i", "k"}]
MCIdentities == {Alone} \cup {f \in Pairs : f[w1] = <<"i", "i">>}

\* Two contexts are only of interest while they connect: they do so before the artifact is
\* submitted, to a scheduler that has all the jobs.  Refused downloads fail in every graph
\* alike.
MCInit ==
    /\ WbInit
    /\ identity = Alone \/ \A j \in Jobs : place[j] = s
    /\ allow_download \/ (graph = Chain /\ identity = Alone)
ConnectFirst == artifact # "none" => \A c \in DOMAIN identity :
                                        context[c].pc = "new" => context'[c] = context[c]

MCNext == WbNext /\ ConnectFirst
MCSpec == MCInit /\ [][MCNext]_wbVars /\ WF_wbVars(MCNext)
=============================================================================
