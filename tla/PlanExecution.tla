--------------------------- MODULE PlanExecution ---------------------------
(***************************************************************************)
(* The binding procedure composed with the promise of the locks: an         *)
(* artifact is planned (ArtifactPlan), then its jobs are offered and finish *)
(* in any order that the locks allow (DependencyOrder).  What the steps of  *)
(* an artifact mean to the researcher who wrote them is stated here, on the *)
(* executions that the locks let through.                                   *)
(***************************************************************************)
EXTENDS ArtifactPlan

VARIABLES offered, finished

Locking == INSTANCE DependencyOrder WITH
    jobs <- DOMAIN job,
    graph <- {e \in Ids \X Ids : e[2] \in job[e[1]].locks}

allvars == <<vars, offered, finished>>

ExecInit == Init /\ offered = {} /\ finished = {}

Preparing == Planning /\ UNCHANGED <<offered, finished>>

Executing == pc = "planned" /\ UNCHANGED vars /\ Locking!Next

ExecNext == Preparing \/ Executing

ExecSpec == ExecInit /\ [][ExecNext]_allvars /\ WF_allvars(ExecNext)

-----------------------------------------------------------------------------
Before(a, b) ==
    \/ a.pos < b.pos
    \/ a.pos = b.pos /\ a.iteration < b.iteration
    \/ a.pos = b.pos /\ a.iteration = b.iteration /\ a.at < b.at

Barrier(chain) ==
    \A i \in 1 .. (Len(chain) - 1) :
        chain[i].dist \in {"Arrange", "Distribute", "Collect"} /\ Count(chain[i]) > 0

\* The artifacts whose steps are meant to follow one another: every step but the last
\* has jobs and hands its results to the next one, and the body of a loop ends in a
\* single last job.  A step without jobs (Parallel, with no workers) separates nothing:
\* what comes after it is not locked by what comes before it.
Synchronised ==
    LET chain == [i \in DOMAIN steps |->
                    IF steps[i].kind = "Iterate" THEN [dist |-> "None"] ELSE steps[i]]
    IN  /\ Barrier(chain)
        /\ \A i \in DOMAIN steps : steps[i].kind = "Iterate" =>
              LET b == steps[i].steps IN
              /\ Barrier(b)
              /\ b # << >> => \/ b[Len(b)].kind = "Sequential"
                              \/ Count(b[Len(b)]) = 1

\* In a synchronised artifact nobody starts a step, or an iteration of a loop, before
\* every job of all the earlier steps and iterations has finished: the locks that are
\* only written between neighbours, and between the last job of an iteration and the
\* next iteration, are enough to order everything.
StageOrder ==
    pc = "planned" /\ Synchronised =>
        \A b \in offered, a \in DOMAIN job :
            Before(job[a].step, job[b].step) => a \in finished

KindAt(place) ==
    IF steps[place.pos].kind = "Iterate"
    THEN steps[place.pos].steps[place.at].kind
    ELSE steps[place.pos].kind

\* Sequential "schedules an operation on each node where the execution of the next job
\* requires the completion of all the previous jobs" (entities.rst), in every artifact
\* and in every iteration of a loop.
SequentialOrder ==
    \A b \in offered, a \in DOMAIN job :
        /\ a < b
        /\ job[a].step = job[b].step
        /\ KindAt(job[b].step) = "Sequential"
        => a \in finished

\* Every planned job can be reached by unlocking: an artifact never ends up with a
\* job that waits for a lock nobody will open.
EveryJobRuns == pc = "planned" ~> finished = DOMAIN job

=============================================================================
