---------------------------- MODULE ArtifactPlan ----------------------------
(***************************************************************************)
(* The binding procedure: how Artifact.jobs turns the steps of an artifact  *)
(* into SchedulerJobs and locks (ferdelance/core/artifacts.py,              *)
(* interfaces.py, steps.py and distributions/).                             *)
(*                                                                         *)
(* A SchedulerJob object is an entry of "job", indexed by the id that       *)
(* SchedulerContext.get_id gave it; the Python lists of jobs (jobs, jobs0,  *)
(* jobs1, it_jobs, job_list) are sets of ids, because every list is built   *)
(* in the order of the ids.  Operations, models and queries are left out:   *)
(* no lock depends on them.                                                 *)
(***************************************************************************)
EXTENDS Integers, FiniteSets, FiniteSetsExt, Sequences

CONSTANTS
    NWorkers,   \* len(context.workers)
    Artifacts   \* the sequences of steps that may be submitted

ASSUME NWorkersAssumption == NWorkers \in Nat

Distributions ==
    {"None", "Arrange", "Distribute", "Collect", "RoundRobin", "DirectToNext"}
BaseKinds == {"Initialize", "Parallel", "Sequential", "RoundRobin", "Finalize"}

BaseStep == [kind : BaseKinds, dist : Distributions]
Iterate == [kind : {"Iterate"}, iterations : Nat, steps : Seq(BaseStep)]

ASSUME ArtifactsAssumption == Artifacts \subseteq Seq(BaseStep \cup Iterate)

Initiator == 0      \* context.initiator; the workers are 1 .. NWorkers
NoJob == -1         \* last_job = None

VARIABLES
    steps,      \* Artifact.steps
    pos,        \* the step whose jobs are created: steps[0], then step1 of the pairs
    pc,         \* where Artifact.jobs is, or how it ended
    job,        \* the SchedulerJobs created so far, by id
    current_id, \* context.current_id
    iteration,  \* context.iteration
    jobs,       \* ids in the list that Artifact.jobs will return
    jobs0,      \* jobs of the previous step
    jobs1,      \* jobs of the step just expanded
    loop        \* the locals of Iterate.jobs

vars == <<steps, pos, pc, job, current_id, iteration, jobs, jobs0, jobs1, loop>>

Outcomes == {"planned", "ValueError", "TypeError", "IndexError"}

-----------------------------------------------------------------------------
(* The jobs of one step.  The i-th of them is counted from 0. *)

Count(step) ==
    CASE step.kind = "Parallel"   -> NWorkers
      [] step.kind = "Sequential" -> NWorkers + 2
      [] step.kind = "RoundRobin" -> NWorkers * NWorkers
      [] OTHER                    -> 1

WorkerOf(step, i) ==
    CASE step.kind = "Parallel"   -> i + 1
      [] step.kind = "Sequential" -> IF i \in 1 .. NWorkers THEN i ELSE Initiator
      [] step.kind = "RoundRobin" -> (i % NWorkers) + 1
      [] OTHER                    -> Initiator

\* Mutant: the jobs of a Sequential step are not linked.
NoLinks(step, i, first) == {}

\* Only Sequential links its own jobs: each one locks the next.
OwnLocks(step, i, first) ==
    IF step.kind = "Sequential" /\ i <= NWorkers THEN {first + i + 1} ELSE {}

\* The heap of jobs after step.jobs(context), tagged with the place of the step.
WithJobsOf(step, at) ==
    [i \in 0 .. (current_id + Count(step) - 1) |->
        IF i < current_id
        THEN job[i]
        ELSE [worker    |-> WorkerOf(step, i - current_id),
              iteration |-> at.iteration,
              step      |-> at,
              locks     |-> OwnLocks(step, i - current_id, current_id)]]

\* Mutant: one id too many.
NewIdsOneMore(step) == current_id .. (current_id + Count(step))

NewIds(step) == current_id .. (current_id + Count(step) - 1)

\* Sequential.jobs reads workers[0]
HasNoFirstWorker(step) == step.kind = "Sequential" /\ NWorkers = 0

-----------------------------------------------------------------------------
(* BaseStep.bind and the distributions. *)

\* Mutant: Collect accepts any number of jobs.
BindErrorUnchecked(dist, n0, n1) ==
    CASE dist = "Distribute" /\ n0 # 1              -> "ValueError"
      [] dist = "RoundRobin" /\ n0 # n1             -> "ValueError"
      [] dist = "RoundRobin" /\ n0 = n1 /\ n0 > 0   -> "TypeError"
      [] OTHER                                      -> "ok"

\* RoundRobin.bind_locks returns a flat list of ids where the caller expects a
\* list of lists: "job.locks += 7" is a TypeError.
BindError(dist, n0, n1) ==
    CASE dist = "Distribute" /\ n0 # 1              -> "ValueError"
      [] dist = "Collect" /\ n1 # 1                 -> "ValueError"
      [] dist = "RoundRobin" /\ n0 # n1             -> "ValueError"
      [] dist = "RoundRobin" /\ n0 = n1 /\ n0 > 0   -> "TypeError"
      [] OTHER                                      -> "ok"

\* Mutant: the arguments of bind_locks are swapped.
LockedTargetsBackwards(dist, ids0, ids1) ==
    IF dist \in {"Arrange", "Distribute", "Collect"} THEN ids0 ELSE {}

\* What a job of ids0 is made to lock: everything for Arrange and its two
\* variants, nothing for DirectToNext and for a step without distribution.
LockedTargets(dist, ids0, ids1) ==
    IF dist \in {"Arrange", "Distribute", "Collect"} THEN ids1 ELSE {}

Bound(dist, ids0, ids1) ==
    [i \in DOMAIN job |->
        IF i \in ids0
        THEN [job[i] EXCEPT !.locks = @ \cup LockedTargets(dist, ids0, ids1)]
        ELSE job[i]]

-----------------------------------------------------------------------------
EmptyLoop == [it |-> 0, at |-> 1, jobs0 |-> {}, jobs1 |-> {},
              it_jobs |-> {}, job_list |-> {}, last_job |-> NoJob]

Init ==
    /\ steps \in Artifacts
    /\ pos = 1
    /\ pc = IF Len(steps) < 1 THEN "planned" ELSE "expand"
    /\ job = [i \in {} |-> NoJob]
    /\ current_id = 0
    /\ iteration = 0
    /\ jobs = {} /\ jobs0 = {} /\ jobs1 = {}
    /\ loop = EmptyLoop

Raise(error) ==
    /\ pc' = error
    /\ UNCHANGED <<steps, pos, job, current_id, iteration, jobs, jobs0, jobs1, loop>>

(***************************************************************************)
(* Artifact.jobs, one action per call it makes: jobs1 = step1.jobs(context) *)
(* and step0.bind(jobs0, jobs1).                                            *)
(***************************************************************************)
Expand ==
    /\ pc = "expand"
    /\ steps[pos].kind # "Iterate"
    /\ IF HasNoFirstWorker(steps[pos])
       THEN Raise("IndexError")
       ELSE /\ job' = WithJobsOf(steps[pos],
                                 [pos |-> pos, iteration |-> iteration, at |-> 1])
            /\ current_id' = current_id + Count(steps[pos])
            /\ jobs1' = NewIds(steps[pos])
            /\ pc' = "bind"
            /\ UNCHANGED <<steps, pos, iteration, jobs, jobs0, loop>>

\* step0.bind for every pair; jobs += jobs0; jobs0 = jobs1
Bind ==
    /\ pc = "bind"
    /\ LET step0 == steps[pos - 1]
           error == IF pos = 1 THEN "ok"
                    ELSE IF step0.kind = "Iterate" THEN "ValueError"
                    ELSE BindError(step0.dist, Cardinality(jobs0), Cardinality(jobs1))
       IN  IF error # "ok"
           THEN Raise(error)
           ELSE /\ job' = IF pos = 1 THEN job ELSE Bound(step0.dist, jobs0, jobs1)
                /\ jobs0' = jobs1
                /\ jobs1' = {}
                /\ IF pos < Len(steps)
                   THEN /\ jobs' = jobs \cup jobs0
                        /\ pos' = pos + 1
                        /\ pc' = "expand"
                   ELSE /\ jobs' = jobs \cup jobs0 \cup jobs1
                        /\ pos' = pos
                        /\ pc' = "planned"
                /\ UNCHANGED <<steps, current_id, iteration, loop>>

(***************************************************************************)
(* Iterate.jobs: the same loop over its own steps, once per iteration.      *)
(***************************************************************************)
EnterLoop ==
    /\ pc = "expand"
    /\ steps[pos].kind = "Iterate"
    /\ loop' = EmptyLoop
    /\ IF steps[pos].iterations = 0
       THEN pc' = "bind" /\ jobs1' = {} /\ UNCHANGED iteration
       ELSE pc' = "it_expand" /\ iteration' = 0 /\ UNCHANGED jobs1
    /\ UNCHANGED <<steps, pos, job, current_id, jobs, jobs0>>

body == steps[pos].steps

LoopExpand ==
    /\ pc = "it_expand"
    /\ IF body = << >> \/ HasNoFirstWorker(body[loop.at])
       THEN Raise("IndexError")
       ELSE LET step1 == body[loop.at] IN
            /\ job' = WithJobsOf(step1,
                          [pos |-> pos, iteration |-> iteration, at |-> loop.at])
            /\ current_id' = current_id + Count(step1)
            /\ loop' = [loop EXCEPT !.jobs1 = NewIds(step1)]
            /\ pc' = "it_bind"
            /\ UNCHANGED <<steps, pos, iteration, jobs, jobs0, jobs1>>

LoopBind ==
    /\ pc = "it_bind"
    /\ LET step0 == body[loop.at - 1]
           error == IF loop.at = 1 THEN "ok"
                    ELSE BindError(step0.dist, Cardinality(loop.jobs0),
                                   Cardinality(loop.jobs1))
       IN  IF error # "ok"
           THEN Raise(error)
           ELSE /\ job' = IF loop.at = 1 THEN job
                          ELSE Bound(step0.dist, loop.jobs0, loop.jobs1)
                /\ IF loop.at < Len(body)
                   THEN /\ pc' = "it_expand"
                        /\ loop' = [loop EXCEPT !.at = @ + 1,
                                                !.it_jobs = @ \cup loop.jobs0,
                                                !.jobs0 = loop.jobs1]
                   ELSE /\ pc' = "it_end"
                        /\ loop' = [loop EXCEPT
                                      !.it_jobs = @ \cup loop.jobs0 \cup loop.jobs1]
                /\ UNCHANGED <<steps, pos, current_id, iteration, jobs, jobs0, jobs1>>

\* Mutant: the next iteration is not gated.
Ungated == job

\* last_job.locks += [job.id for job in it_jobs]: the single gate between two
\* iterations is the last job in the list of the first one.
Gated ==
    IF loop.last_job = NoJob THEN job
    ELSE [job EXCEPT ![loop.last_job].locks = @ \cup loop.it_jobs]

\* Mutant: job_list = it_jobs.
JobListOfIteration == loop.it_jobs

\* job_list += it_jobs
JobList == loop.job_list \cup loop.it_jobs

LoopEnd ==
    /\ pc = "it_end"
    /\ LET job_list == JobList
           more == loop.it + 1 < steps[pos].iterations
       IN  IF job_list = {}
           THEN Raise("IndexError")
           ELSE /\ job' = Gated
                /\ IF more
                   THEN /\ iteration' = loop.it + 1
                        /\ loop' = [EmptyLoop EXCEPT
                               !.it = loop.it + 1,
                               !.job_list = job_list,
                               !.last_job = CHOOSE i \in job_list :
                                                \A n \in job_list : n <= i]
                        /\ pc' = "it_expand"
                        /\ UNCHANGED jobs1
                   ELSE /\ jobs1' = job_list
                        /\ loop' = EmptyLoop
                        /\ pc' = "bind"
                        /\ UNCHANGED iteration
                /\ UNCHANGED <<steps, pos, current_id, jobs, jobs0>>

Planning == Expand \/ Bind \/ EnterLoop \/ LoopExpand \/ LoopBind \/ LoopEnd

\* Artifact.jobs has returned or raised.
Returned == pc \in Outcomes /\ UNCHANGED vars

Next == Planning \/ Returned

Spec == Init /\ [][Next]_vars

-----------------------------------------------------------------------------
Ids == 0 .. (current_id - 1)

Place == [pos : Nat, iteration : Nat, at : Nat]

SchedulerJob ==
    [worker : 0 .. NWorkers, iteration : Nat, step : Place, locks : SUBSET Nat]

\* Every variable of the binding procedure stays in its type: ids handed out by
\* get_id() are exactly the ids of the jobs created, and the lists of jobs hold
\* only such ids.
TypeOK ==
    /\ steps \in Seq(BaseStep \cup Iterate)
    /\ pos \in Nat \ {0} /\ (pc \in {"expand", "bind"} => pos <= Len(steps))
    /\ pc \in {"expand", "bind", "it_expand", "it_bind", "it_end"} \cup Outcomes
    /\ current_id \in Nat
    /\ iteration \in Nat
    /\ job \in [Ids -> SchedulerJob]
    /\ jobs \subseteq Ids /\ jobs0 \subseteq Ids /\ jobs1 \subseteq Ids
    /\ loop \in [it : Nat, at : Nat \ {0}, jobs0 : SUBSET Ids, jobs1 : SUBSET Ids,
                 it_jobs : SUBSET Ids, job_list : SUBSET Ids, last_job : Ids \cup {NoJob}]

\* "At higher level, this defines and stores a Direct Acyclic Graph"
\* (scheduling.rst): a job locks only jobs created after it, whatever the steps,
\* the distributions, the nesting of Iterate and the number of workers.
LocksForward == \A i \in DOMAIN job : job[i].locks \subseteq (i + 1) .. (current_id - 1)

\* No job is lost on the way: when Artifact.jobs returns, its list holds every job
\* that a step created, so every id that appears in a lock is in the job_map of
\* JobManagementService.schedule_tasks.
NothingLost == pc = "planned" => jobs = DOMAIN job

\* The artifacts that the binding procedure accepts, stated on the steps alone.
Fits(step0, n0, n1) ==
    /\ step0.dist = "Distribute" => n0 = 1
    /\ step0.dist = "Collect" => n1 = 1
    /\ step0.dist = "RoundRobin" => n0 = 0 /\ n1 = 0

ChainAccepted(chain) ==
    /\ \A i \in DOMAIN chain : chain[i].kind = "Sequential" => NWorkers > 0
    /\ \A i \in 1 .. (Len(chain) - 1) : Fits(chain[i], Count(chain[i]), Count(chain[i + 1]))

LoopAccepted(step) ==
    step.iterations > 0 =>
        /\ step.steps # << >>
        /\ ChainAccepted(step.steps)
        /\ \E i \in DOMAIN step.steps : Count(step.steps[i]) > 0

\* An Iterate may only be the last step: it cannot be bound to what follows.
Accepted ==
    LET last == Len(steps)
        front == [i \in 1 .. (last - 1) |-> steps[i]]
    IN  steps # << >> =>
            /\ \A i \in 1 .. (last - 1) : steps[i].kind # "Iterate"
            /\ IF steps[last].kind = "Iterate"
               THEN /\ LoopAccepted(steps[last])
                    /\ ChainAccepted(front)
                    /\ last > 1 =>
                         LET step0 == steps[last - 1]
                             loop_step == steps[last]
                         IN  Fits(step0, Count(step0),
                                  loop_step.iterations * MapThenSumSet(
                                      LAMBDA i : Count(loop_step.steps[i]),
                                      DOMAIN loop_step.steps))
               ELSE ChainAccepted(steps)

\* The procedure rejects exactly the artifacts whose steps do not fit together, and
\* it never leaves one half bound: it ends planned if and only if the steps fit.
AcceptsWhatFits == pc \in Outcomes => (pc = "planned" <=> Accepted)

=============================================================================
