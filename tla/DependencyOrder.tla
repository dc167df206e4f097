-------------------------- MODULE DependencyOrder --------------------------
(***************************************************************************)
(* What the locking mechanism of Ferdelance promises, without saying how:   *)
(* a job of the graph is offered to a worker only when every job that      *)
(* locks it has finished.  docs/source/workflow/scheduling.rst calls the    *)
(* locks "the most important part of the whole library since it defines    *)
(* the order of jobs".  Nothing here knows about tables, handlers,         *)
(* retries or failures: a finished job may be run again, an offered job    *)
(* may never finish.                                                        *)
(***************************************************************************)

VARIABLES
    jobs,      \* the jobs of one artifact
    graph,     \* pairs <<p, k>>: p locks k
    offered,   \* the jobs that some worker was allowed to start
    finished   \* the jobs whose resource has been declared ready

vars == <<jobs, graph, offered, finished>>

Pred(k) == {p \in jobs : <<p, k>> \in graph}

Init ==
    /\ graph \subseteq jobs \X jobs
    /\ offered = {}
    /\ finished = {}

Offer(k) ==
    /\ k \notin offered
    /\ Pred(k) \subseteq finished
    /\ offered' = offered \cup {k}
    /\ UNCHANGED <<jobs, graph, finished>>

Finish(j) ==
    /\ j \in offered \ finished
    /\ finished' = finished \cup {j}
    /\ UNCHANGED <<jobs, graph, offered>>

Next == \E j \in jobs : Offer(j) \/ Finish(j)

Spec == Init /\ [][Next]_vars

=============================================================================
