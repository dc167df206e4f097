----------------------------- MODULE PlanProofs -----------------------------
(***************************************************************************)
(* Proofs about ArtifactPlan and PlanExecution, for every number of workers *)
(* and all artifacts, loops included.                                      *)
(*                                                                         *)
(* The lists of the binding procedure are described by the places of their  *)
(* jobs: the ids grow with the places, so that a lock written from one list *)
(* to another points forward, and a list holds all the jobs of its stage.   *)
(***************************************************************************)
EXTENDS PlanExecution, FiniteSums, SequenceTheorems

Pos(i) == job[i].step.pos
It(i) == job[i].step.iteration
Nth(i) == job[i].step.at

InLoop == {"it_expand", "it_bind", "it_end"}
Active == {"expand", "bind"} \cup InLoop

\* Where the procedure is in the steps of the artifact.
PhaseOK ==
    /\ pc = "planned" => pos >= Len(steps)
    /\ pc \in InLoop =>
          /\ pos <= Len(steps) /\ steps[pos].kind = "Iterate"
          /\ loop.it < steps[pos].iterations /\ iteration = loop.it
          /\ body # << >> => loop.at <= Len(body)
    /\ pc \in {"it_bind", "it_end"} => body # << >>
    /\ pc = "it_end" => loop.at = Len(body)

\* The jobs that are there, by their places.
Placed ==
    /\ \A i \in Ids : Pos(i) >= 1 /\ Nth(i) >= 1
    /\ pc = "expand" => \A i \in Ids : Pos(i) < pos
    /\ pc = "bind" => \A i \in Ids : Pos(i) <= pos
    /\ pc \in InLoop => \A i \in Ids :
          \/ Pos(i) < pos
          \/ Pos(i) = pos /\ It(i) < loop.it
          \/ Pos(i) = pos /\ It(i) = loop.it /\ (pc = "it_expand" => Nth(i) < loop.at)
                                             /\ (pc # "it_expand" => Nth(i) <= loop.at)

\* The lists of Artifact.jobs and of Iterate.jobs.
Listed ==
    /\ pc \in Active =>
          /\ jobs = {i \in Ids : Pos(i) < pos - 1}
          /\ jobs0 = {i \in Ids : Pos(i) = pos - 1}
    /\ pc = "bind" => jobs1 = {i \in Ids : Pos(i) = pos}
    /\ pc = "planned" => jobs = Ids
    /\ pc \in InLoop => loop.job_list = {i \in Ids : Pos(i) = pos /\ It(i) < loop.it}
    /\ pc \in {"it_expand", "it_bind"} =>
          /\ loop.it_jobs = {i \in Ids : Pos(i) = pos /\ It(i) = loop.it /\ Nth(i) < loop.at - 1}
          /\ loop.jobs0 = {i \in Ids : Pos(i) = pos /\ It(i) = loop.it /\ Nth(i) = loop.at - 1}
    /\ pc = "it_bind" =>
          loop.jobs1 = {i \in Ids : Pos(i) = pos /\ It(i) = loop.it /\ Nth(i) = loop.at}
    /\ pc = "it_end" => loop.it_jobs = {i \in Ids : Pos(i) = pos /\ It(i) = loop.it}

\* The job that gates the next iteration is the last of the iterations before.
Gate ==
    pc \in InLoop =>
        /\ loop.it = 0 => loop.last_job = NoJob
        /\ loop.it > 0 => /\ loop.last_job \in loop.job_list
                          /\ \A i \in loop.job_list : i <= loop.last_job

\* Ids grow with the places.
Grown == \A i, k \in Ids : Before(job[i].step, job[k].step) => i < k

\* The jobs of one Sequential step are linked, each to the next.
Chained ==
    \A i, k \in Ids : i < k /\ job[i].step = job[k].step /\ KindAt(job[k].step) = "Sequential" =>
        job[k - 1].step = job[k].step /\ k \in job[k - 1].locks

PlanInv ==
    TypeOK /\ PhaseOK /\ Placed /\ Listed /\ Gate /\ Grown /\ LocksForward /\ Chained

-----------------------------------------------------------------------------
(* The sizes of the lists, and what has been checked of the steps. *)

Sizes(chain) == [i \in DOMAIN chain |-> Count(chain[i])]
BodySize(step) == Total(Sizes(step.steps), 1 .. Len(step.steps))
SizeOf(step) == IF step.kind = "Iterate" THEN step.iterations * BodySize(step) ELSE Count(step)

Sized ==
    /\ pc \in Active /\ pos > 1 => Cardinality(jobs0) = SizeOf(steps[pos - 1])
    /\ pc = "bind" => Cardinality(jobs1) = SizeOf(steps[pos])
    /\ pc \in InLoop => Cardinality(loop.job_list) = loop.it * BodySize(steps[pos])
    /\ pc \in {"it_expand", "it_bind"} =>
          /\ Cardinality(loop.it_jobs \cup loop.jobs0) = Total(Sizes(body), 1 .. (loop.at - 1))
          /\ loop.at > 1 => Cardinality(loop.jobs0) = Count(body[loop.at - 1])
    /\ pc = "it_bind" => Cardinality(loop.jobs1) = Count(body[loop.at])
    /\ pc = "it_end" => Cardinality(loop.it_jobs) = BodySize(steps[pos])

StepOK(step) == IF step.kind = "Iterate" THEN LoopAccepted(step) ELSE ~ HasNoFirstWorker(step)
LinkOK(i) ==
    steps[i].kind # "Iterate" /\ Fits(steps[i], Count(steps[i]), SizeOf(steps[i + 1]))
AllOK == (\A i \in 1 .. Len(steps) : StepOK(steps[i])) /\ (\A i \in 1 .. Len(steps) - 1 : LinkOK(i))

BodyOK(n) ==
    /\ \A i \in 1 .. n : ~ HasNoFirstWorker(body[i])
    /\ \A i \in 1 .. n - 1 : Fits(body[i], Count(body[i]), Count(body[i + 1]))

Passed ==
    /\ pc \in Active => /\ \A i \in 1 .. pos - 1 : StepOK(steps[i])
                        /\ \A i \in 1 .. pos - 2 : LinkOK(i)
    /\ pc = "bind" => StepOK(steps[pos])
    /\ pc = "planned" => AllOK
    /\ pc \in Outcomes \ {"planned"} => ~ AllOK /\ Len(steps) > 0
    /\ pc \in InLoop /\ loop.it > 0 =>
          body # << >> /\ BodyOK(Len(body)) /\ \E i \in DOMAIN body : Count(body[i]) > 0
    /\ pc = "it_expand" => BodyOK(loop.at - 1)
    /\ pc = "it_bind" => /\ BodyOK(loop.at - 1) /\ ~ HasNoFirstWorker(body[loop.at])
    /\ pc = "it_end" => BodyOK(Len(body))

-----------------------------------------------------------------------------
(* The order of the stages. *)

Prior(a, b) ==
    \/ Before(job[a].step, job[b].step)
    \/ a < b /\ job[a].step = job[b].step /\ KindAt(job[b].step) = "Sequential"

\* b waits for a, directly or for a job that comes after a.
Linked(a, b) == \E c \in Ids : b \in job[c].locks /\ (c = a \/ Prior(a, c))

StepAt(place) ==
    IF steps[place.pos].kind = "Iterate" THEN steps[place.pos].steps[place.at]
    ELSE steps[place.pos]

\* A step that counts one job has one job.
Single == \A i, k \in Ids :
    job[i].step = job[k].step /\ Count(StepAt(job[i].step)) = 1 => i = k

\* The last step of the body has jobs at the end of an iteration.
Filled ==
    pc = "it_end" /\ Count(body[Len(body)]) > 0 =>
        \E i \in Ids : Pos(i) = pos /\ It(i) = loop.it /\ Nth(i) = Len(body)

\* The pairs of places whose order is already in the locks.
Bounded(a, b) ==
    /\ pc = "bind" => Pos(b) < pos \/ Pos(a) = pos
    /\ pc \in InLoop =>
          \/ Pos(b) < pos
          \/ Pos(a) = pos /\ It(b) < loop.it
          \/ Pos(a) = pos /\ It(a) = loop.it /\ (pc = "it_bind" => Nth(b) < loop.at)

Staged ==
    pc \in Active \cup {"planned"} /\ Synchronised =>
        \A a, b \in Ids : Before(job[a].step, job[b].step) /\ Bounded(a, b) => Linked(a, b)

\* The last job of an iteration belongs to the last step of the body.
GateLast ==
    pc \in InLoop /\ Synchronised /\ loop.it > 0 => Nth(loop.last_job) = Len(body)
        /\ Pos(loop.last_job) = pos /\ It(loop.last_job) = loop.it - 1

-----------------------------------------------------------------------------
(* The executions. *)

Ordered ==
    /\ finished \subseteq offered /\ offered \subseteq Ids
    /\ offered # {} => pc = "planned"
    /\ \A k \in offered, p \in Ids : k \in job[p].locks => p \in finished


-----------------------------------------------------------------------------
(* The steps and the jobs that they create. *)

\* A step is either a base step or an Iterate.
LEMMA StepKinds ==
    ASSUME steps \in Seq(BaseStep \cup Iterate), NEW p \in 1 .. Len(steps)
    PROVE  /\ steps[p].kind # "Iterate" => steps[p] \in BaseStep
           /\ steps[p].kind = "Iterate" =>
                 /\ steps[p] \in Iterate /\ steps[p].iterations \in Nat
                 /\ steps[p].steps \in Seq(BaseStep)
<1>1. steps[p] \in BaseStep \cup Iterate
  OBVIOUS
<1>2. \A s \in BaseStep : s.kind # "Iterate"
  BY DEF BaseStep, BaseKinds
<1>3. \A s \in Iterate : s.kind = "Iterate" /\ s.iterations \in Nat /\ s.steps \in Seq(BaseStep)
  BY DEF Iterate
<1>. QED  BY <1>1, <1>2, <1>3

\* A step creates a natural number of jobs.
LEMMA CountNat ==
    ASSUME NEW step
    PROVE  Count(step) \in Nat
<1>1. NWorkers * NWorkers \in Nat
  BY NWorkersAssumption
<1>. QED  BY <1>1, NWorkersAssumption DEF Count

\* The worker of the i-th job of a step is the initiator or one of the workers.
LEMMA WorkerInRange ==
    ASSUME NEW step, NEW i \in Nat, i < Count(step)
    PROVE  WorkerOf(step, i) \in 0 .. NWorkers
<1>1. CASE step.kind = "Parallel"
  BY <1>1, NWorkersAssumption DEF WorkerOf, Count
<1>2. CASE step.kind = "Sequential"
  BY <1>2, NWorkersAssumption DEF WorkerOf, Initiator
<1>3. CASE step.kind = "RoundRobin"
  <2>1. NWorkers > 0
    <3>1. NWorkers = 0 => NWorkers * NWorkers = 0
      BY NWorkersAssumption
    <3>. QED  BY <1>3, <3>1, NWorkersAssumption DEF Count
  <2>2. i % NWorkers \in 0 .. NWorkers - 1
    BY <2>1, NWorkersAssumption
  <2>. QED  BY <1>3, <2>2, NWorkersAssumption DEF WorkerOf
<1>4. CASE step.kind \notin {"Parallel", "Sequential", "RoundRobin"}
  BY <1>4, NWorkersAssumption DEF WorkerOf, Initiator
<1>. QED  BY <1>1, <1>2, <1>3, <1>4

\* The jobs that a step links are the next ones of the step.
LEMMA OwnLocksInRange ==
    ASSUME NEW step, NEW i \in Nat, i < Count(step), NEW first \in Nat
    PROVE  OwnLocks(step, i, first) \subseteq (first + i + 1) .. (first + Count(step) - 1)
BY NWorkersAssumption DEF OwnLocks, Count

\* The jobs after step.jobs: the old ones, and as many new ones as the step has.
LEMMA NewJobs ==
    ASSUME current_id \in Nat, job \in [Ids -> SchedulerJob], NEW step, NEW at \in Place
    PROVE  LET n == current_id + Count(step)
               J == WithJobsOf(step, at)
           IN  /\ n \in Nat /\ current_id <= n
               /\ J \in [0 .. n - 1 -> SchedulerJob]
               /\ \A i \in Ids : J[i] = job[i]
               /\ \A i \in current_id .. n - 1 :
                     /\ J[i].step = at
                     /\ J[i].locks = OwnLocks(step, i - current_id, current_id)
                     /\ J[i].locks \subseteq i + 1 .. n - 1
<1> DEFINE n == current_id + Count(step)
           J == WithJobsOf(step, at)
           new(i) == [worker    |-> WorkerOf(step, i - current_id),
                      iteration |-> at.iteration,
                      step      |-> at,
                      locks     |-> OwnLocks(step, i - current_id, current_id)]
<1>1. Count(step) \in Nat /\ n \in Nat /\ current_id <= n
  <2>1. Count(step) \in Nat
    BY CountNat
  <2>. QED  BY <2>1
<1>2. J = [i \in 0 .. n - 1 |-> IF i < current_id THEN job[i] ELSE new(i)]
  <2>1. 0 .. (current_id + (Count(step) - 1)) = 0 .. n - 1
    BY CountNat
  <2>2. J = [i \in 0 .. (current_id + (Count(step) - 1)) |->
                IF i < current_id THEN job[i] ELSE new(i)]
    BY DEF WithJobsOf
  <2> HIDE DEF n, J, new
  <2>. QED  BY <2>1, <2>2
<1>3. \A i \in Ids : i \in 0 .. n - 1 /\ J[i] = job[i] /\ job[i] \in SchedulerJob
  BY <1>1, <1>2 DEF Ids
<1>4. ASSUME NEW i \in current_id .. n - 1
      PROVE  /\ J[i] = new(i) /\ new(i) \in SchedulerJob
             /\ new(i).locks \subseteq i + 1 .. n - 1
  <2>1. i - current_id \in Nat /\ i - current_id < Count(step)
        /\ i \in 0 .. n - 1 /\ ~ (i < current_id)
    BY <1>1
  <2>2. WorkerOf(step, i - current_id) \in 0 .. NWorkers
    BY <2>1, WorkerInRange
  <2>3. OwnLocks(step, i - current_id, current_id)
           \subseteq (current_id + (i - current_id) + 1) .. (current_id + Count(step) - 1)
    BY <2>1, OwnLocksInRange
  <2>4. OwnLocks(step, i - current_id, current_id) \subseteq i + 1 .. n - 1
    BY <1>1, <2>1, <2>3
  <2>5. OwnLocks(step, i - current_id, current_id) \in SUBSET Nat
    BY <1>1, <2>1, <2>4
  <2>6. at.iteration \in Nat
    BY DEF Place
  <2>7. new(i) \in SchedulerJob
    BY <2>2, <2>5, <2>6 DEF SchedulerJob
  <2>8. J[i] = new(i)
    BY <1>2, <2>1
  <2>. QED  BY <2>4, <2>7, <2>8
<1>5. J \in [0 .. n - 1 -> SchedulerJob]
  <2>1. \A i \in 0 .. n - 1 : J[i] \in SchedulerJob
    <3>1. \A i \in 0 .. n - 1 : i \in Ids \/ i \in current_id .. n - 1
      BY <1>1 DEF Ids
    <3>. QED  BY <1>3, <1>4, <3>1
  <2>2. DOMAIN J = 0 .. n - 1 /\ J = [i \in 0 .. n - 1 |-> J[i]]
    BY <1>2
  <2> HIDE DEF J, n
  <2>. QED  BY <2>1, <2>2
<1>6. \A i \in current_id .. n - 1 :
         /\ J[i].step = at
         /\ J[i].locks = OwnLocks(step, i - current_id, current_id)
         /\ J[i].locks \subseteq i + 1 .. n - 1
  <2>1. \A i \in current_id .. n - 1 : new(i).step = at
           /\ new(i).locks = OwnLocks(step, i - current_id, current_id)
    OBVIOUS
  <2> HIDE DEF J, n, new
  <2>. QED  BY <1>4, <2>1
<1>. QED  BY <1>1, <1>3, <1>5, <1>6

\* Adding locks to the jobs of one list changes nothing else.
WithLocks(A, T) ==
    [i \in DOMAIN job |-> IF i \in A THEN [job[i] EXCEPT !.locks = @ \cup T] ELSE job[i]]

Relocked(J, A, T) ==
    /\ J \in [Ids -> SchedulerJob]
    /\ \A i \in Ids : /\ J[i].step = job[i].step
                      /\ J[i].locks = job[i].locks \cup (IF i \in A THEN T ELSE {})

\* WithLocks adds the targets to the locks of the jobs of A, and changes nothing else.
LEMMA MoreLocks ==
    ASSUME job \in [Ids -> SchedulerJob], NEW A, NEW T \in SUBSET Nat
    PROVE  Relocked(WithLocks(A, T), A, T)
<1> DEFINE J == WithLocks(A, T)
<1>1. DOMAIN job = Ids
  OBVIOUS
<1>2. J = [i \in Ids |-> IF i \in A THEN [job[i] EXCEPT !.locks = @ \cup T] ELSE job[i]]
  BY <1>1 DEF WithLocks
<1>3. ASSUME NEW i \in Ids
      PROVE  /\ J[i] \in SchedulerJob /\ J[i].step = job[i].step
             /\ J[i].locks = job[i].locks \cup (IF i \in A THEN T ELSE {})
  <2>1. job[i] \in SchedulerJob
    OBVIOUS
  <2>2. CASE i \in A
    <3>1. J[i] = [job[i] EXCEPT !.locks = @ \cup T]
      BY <1>2, <2>2
    <3> HIDE DEF J
    <3>. QED  BY <2>1, <2>2, <3>1 DEF SchedulerJob
  <2>3. CASE i \notin A
    <3>1. J[i] = job[i]
      BY <1>2, <2>3
    <3> HIDE DEF J
    <3>. QED  BY <2>1, <2>3, <3>1
  <2>. QED  BY <2>2, <2>3
<1>4. DOMAIN J = Ids /\ J = [i \in Ids |-> J[i]]
  BY <1>2
<1> HIDE DEF J
<1>5. J \in [Ids -> SchedulerJob]
  BY <1>3, <1>4
<1>. QED  BY <1>3, <1>5 DEF J, Relocked

\* LocksOf: the locks that a distribution writes.
LEMMA BoundLocks ==
    ASSUME job \in [Ids -> SchedulerJob], NEW dist, NEW A, NEW B, B \subseteq Nat
    PROVE  Relocked(Bound(dist, A, B), A, LockedTargets(dist, A, B))
<1>1. LockedTargets(dist, A, B) \in SUBSET Nat
  BY DEF LockedTargets
<1>2. Bound(dist, A, B) = WithLocks(A, LockedTargets(dist, A, B))
  BY DEF Bound, WithLocks
<1>. QED  BY <1>1, <1>2, MoreLocks

\* Gating adds the jobs of the iteration to the locks of the last job before it.
LEMMA GatedLocks ==
    ASSUME TypeOK
    PROVE  Relocked(Gated, {i \in Ids : i = loop.last_job}, loop.it_jobs)
<1> DEFINE A == {i \in Ids : i = loop.last_job}
<1>1. /\ current_id \in Nat /\ job \in [Ids -> SchedulerJob] /\ DOMAIN job = Ids
      /\ loop.it_jobs \in SUBSET Nat /\ loop.last_job \in Ids \cup {NoJob}
  BY DEF TypeOK, Ids
<1>2. CASE loop.last_job = NoJob
  <2>1. NoJob \notin Ids
    BY <1>1 DEF NoJob, Ids
  <2>2. Gated = job /\ \A i \in Ids : i \notin A
    BY <1>2, <2>1 DEF Gated
  <2> HIDE DEF A
  <2>3. Relocked(job, A, loop.it_jobs)
    BY <1>1, <2>2 DEF Relocked
  <2>. QED  BY <2>2, <2>3 DEF A
<1>3. CASE loop.last_job # NoJob
  <2>1. Gated = WithLocks(A, loop.it_jobs)
    <3>1. Gated = [job EXCEPT ![loop.last_job].locks = @ \cup loop.it_jobs]
      BY <1>3 DEF Gated
    <3>. QED  BY <1>1, <1>3, <3>1 DEF WithLocks
  <2> HIDE DEF A
  <2>2. Relocked(WithLocks(A, loop.it_jobs), A, loop.it_jobs)
    BY <1>1, MoreLocks
  <2>. QED  BY <2>1, <2>2 DEF A
<1>. QED  BY <1>2, <1>3

-----------------------------------------------------------------------------
(* What the steps of the procedure do to the heap of jobs. *)

\* The place of a job is made of natural numbers.
LEMMA Places ==
    ASSUME job \in [Ids -> SchedulerJob], NEW i \in Ids
    PROVE  /\ job[i].step \in Place /\ i \in Nat
           /\ Pos(i) \in Nat /\ It(i) \in Nat /\ Nth(i) \in Nat
<1>1. job[i] \in SchedulerJob
  OBVIOUS
<1>2. job[i].step \in Place
  BY <1>1 DEF SchedulerJob
<1>3. \A p \in Place : p.pos \in Nat /\ p.iteration \in Nat /\ p.at \in Nat
  BY DEF Place
<1>4. i \in Nat
  BY DEF Ids
<1>. QED  BY <1>2, <1>3, <1>4 DEF Pos, It, Nth

\* Before is a strict order of the places.
LEMMA BeforeIsOrder ==
    ASSUME NEW p \in Place, NEW q \in Place
    PROVE  Before(p, q) => ~ Before(q, p) /\ p # q
<1>1. /\ p.pos \in Nat /\ p.iteration \in Nat /\ p.at \in Nat
      /\ q.pos \in Nat /\ q.iteration \in Nat /\ q.at \in Nat
  BY DEF Place
<1>. QED  BY <1>1 DEF Before

\* Before is transitive.
LEMMA BeforeIsTransitive ==
    ASSUME NEW p \in Place, NEW q \in Place, NEW r \in Place, Before(p, q), Before(q, r)
    PROVE  Before(p, r)
<1>1. /\ p.pos \in Nat /\ p.iteration \in Nat /\ p.at \in Nat
      /\ q.pos \in Nat /\ q.iteration \in Nat /\ q.at \in Nat
      /\ r.pos \in Nat /\ r.iteration \in Nat /\ r.at \in Nat
  BY DEF Place
<1>. QED  BY <1>1 DEF Before

\* The jobs of a step were added, and nothing else happened to the heap.
Adds(step, at) ==
    /\ steps' = steps
    /\ current_id' = current_id + Count(step) /\ current_id' \in Nat
    /\ Ids' = Ids \cup NewIds(step)
    /\ job' \in [Ids' -> SchedulerJob]
    /\ \A i \in Ids : job'[i] = job[i]
    /\ \A i \in NewIds(step) :
          /\ job'[i].step = at
          /\ job'[i].locks = OwnLocks(step, i - current_id, current_id)
          /\ job'[i].locks \subseteq i + 1 .. current_id' - 1

\* The jobs of A lock those of T as well, and nothing else happened to the heap.
Relocks(A, T) ==
    /\ steps' = steps
    /\ current_id' = current_id
    /\ Ids' = Ids
    /\ Relocked(job', A, T)

\* The ids that get_id() hands out are new and greater than all the earlier ones.
LEMMA NewIdsFacts ==
    ASSUME current_id \in Nat, NEW step
    PROVE  /\ NewIds(step) \subseteq Nat
           /\ \A i \in NewIds(step) : i >= current_id /\ i \notin Ids
           /\ \A i \in Ids, k \in NewIds(step) : i < k
           /\ IsFiniteSet(NewIds(step)) /\ Cardinality(NewIds(step)) = Count(step)
<1>1. Count(step) \in Nat
  BY CountNat
<1> DEFINE n == current_id + Count(step)
<1>2. NewIds(step) = current_id .. n - 1
  BY <1>1 DEF NewIds
<1>3. n \in Nat /\ n >= current_id
  BY <1>1
<1>4. IsFiniteSet(current_id .. n - 1) /\ Cardinality(current_id .. n - 1) = n - current_id
  <2>1. current_id \in Int /\ n - 1 \in Int
    BY <1>3
  <2> DEFINE m == n - 1
  <2>2. IsFiniteSet(current_id .. m)
        /\ Cardinality(current_id .. m) = IF current_id > m THEN 0 ELSE (m - current_id) + 1
    <3> HIDE DEF m, n
    <3>1. m \in Int
      BY <2>1 DEF m
    <3>2. IsFiniteSet(current_id .. m)
          /\ Cardinality(current_id .. m) = IF current_id > m THEN 0 ELSE m - current_id + 1
      BY <2>1, <3>1, FS_Interval
    <3>. QED  BY <2>1, <3>1, <3>2
  <2>. QED  BY <1>3, <2>2
<1>5. n - current_id = Count(step)
  BY <1>1
<1> HIDE DEF n
<1>. QED  BY <1>2, <1>3, <1>4, <1>5 DEF Ids

\* What WithJobsOf does to the jobs: those that are there stay, the new ones are at the place.
LEMMA AddsJobs ==
    ASSUME TypeOK, NEW step, NEW at \in Place, steps' = steps,
           job' = WithJobsOf(step, at), current_id' = current_id + Count(step)
    PROVE  Adds(step, at)
<1> DEFINE n == current_id + Count(step)
<1>1. current_id \in Nat /\ job \in [Ids -> SchedulerJob]
  BY DEF TypeOK
<1>2. /\ n \in Nat /\ current_id <= n
      /\ job' \in [0 .. n - 1 -> SchedulerJob]
      /\ \A i \in Ids : job'[i] = job[i]
      /\ \A i \in current_id .. n - 1 :
            /\ job'[i].step = at
            /\ job'[i].locks = OwnLocks(step, i - current_id, current_id)
            /\ job'[i].locks \subseteq i + 1 .. n - 1
  BY <1>1, NewJobs
<1>3. current_id' = n
  OBVIOUS
<1>4. NewIds(step) = current_id .. n - 1
  <2>1. Count(step) \in Nat
    BY CountNat
  <2>. QED  BY <1>1, <2>1 DEF NewIds
<1> HIDE DEF n
<1>5. Ids' = 0 .. n - 1
  BY <1>3 DEF Ids
<1>6. Ids' = Ids \cup NewIds(step)
  <2>1. \A x : x \in 0 .. n - 1 <=> x \in 0 .. current_id - 1 \/ x \in current_id .. n - 1
    BY <1>1, <1>2
  <2>. QED  BY <1>4, <1>5, <2>1 DEF Ids
<1>. QED  BY <1>2, <1>3, <1>4, <1>5, <1>6 DEF Adds

-----------------------------------------------------------------------------
(* The order of the ids, and the locks, while jobs and locks are added. *)

HeapOK == TypeOK /\ Grown /\ LocksForward /\ Chained

\* at is a new place, after all the places of the jobs that are there.
Fresh(at) == \A i \in Ids : Before(job[i].step, at)

\* A range with a later end holds more.
LEMMA WiderRange ==
    ASSUME NEW a \in Nat, NEW b \in Nat, NEW c \in Nat, b <= c
    PROVE  a + 1 .. b - 1 \subseteq a + 1 .. c - 1
OBVIOUS

\* Creating the jobs of a step at a new place keeps the order of the ids and the locks.
LEMMA AddsKeeps ==
    ASSUME HeapOK, NEW step, NEW at \in Place, Fresh(at), KindAt(at) = step.kind,
           Adds(step, at)
    PROVE  Grown' /\ LocksForward' /\ Chained'
<1>1. current_id \in Nat /\ job \in [Ids -> SchedulerJob] /\ Count(step) \in Nat
  BY CountNat DEF HeapOK, TypeOK
<1>2. /\ \A i \in NewIds(step) : i \in Nat /\ i >= current_id /\ i \notin Ids
      /\ \A i \in Ids, k \in NewIds(step) : i < k
  BY <1>1, NewIdsFacts
<1>3. /\ Ids' = Ids \cup NewIds(step)
      /\ \A i \in Ids : job'[i] = job[i] /\ job[i].step \in Place
                        /\ Before(job[i].step, at)
      /\ \A i \in NewIds(step) : job'[i].step = at
  BY <1>1, Places DEF Adds, Fresh
<1>4. \A i \in Ids : ~ Before(at, job[i].step) /\ job[i].step # at
  BY <1>3, BeforeIsOrder
<1>5. ~ Before(at, at)
  BY BeforeIsOrder
<1>6. Grown'
  <2> SUFFICES ASSUME NEW i \in Ids', NEW k \in Ids', Before(job'[i].step, job'[k].step)
               PROVE  i < k
    BY DEF Grown, Before
  <2>1. CASE i \in Ids /\ k \in Ids
    BY <1>3, <2>1 DEF HeapOK, Grown
  <2>2. CASE i \in Ids /\ k \in NewIds(step)
    BY <1>2, <2>2
  <2>3. CASE i \in NewIds(step)
    BY <1>3, <1>4, <1>5, <2>3
  <2>. QED  BY <1>3, <2>1, <2>2, <2>3
<1>7. LocksForward'
  <2>1. DOMAIN job' = Ids' /\ DOMAIN job = Ids /\ current_id' >= current_id
        /\ current_id' \in Nat
    BY <1>1 DEF Adds
  <2>2. ASSUME NEW i \in Ids'
        PROVE  job'[i].locks \subseteq i + 1 .. current_id' - 1
    <3>1. CASE i \in Ids
      <4>1. job[i].locks \subseteq i + 1 .. current_id - 1
        BY <2>1, <3>1 DEF HeapOK, LocksForward
      <4>2. i \in Nat
        BY <1>1, <3>1, Places
      <4>3. current_id <= current_id'
        BY <1>1, <2>1
      <4>4. i + 1 .. current_id - 1 \subseteq i + 1 .. current_id' - 1
        BY <1>1, <2>1, <4>2, <4>3, WiderRange
      <4>. QED  BY <1>3, <3>1, <4>1, <4>4
    <3>2. CASE i \in NewIds(step)
      BY <3>2 DEF Adds
    <3>. QED  BY <1>3, <3>1, <3>2
  <2>. QED  BY <2>1, <2>2 DEF LocksForward
<1>8. Chained'
  <2> SUFFICES ASSUME NEW i \in Ids', NEW k \in Ids', i < k, job'[i].step = job'[k].step,
                      KindAt(job[k].step)' = "Sequential"
               PROVE  job'[k - 1].step = job'[k].step /\ k \in job'[k - 1].locks
    BY DEF Chained
  <2>0. steps' = steps
    BY DEF Adds
  <2>1. CASE k \in Ids
    <3>1. i \in Ids
      BY <1>1, <1>2, <1>3, <2>1 DEF Ids
    <3>2. KindAt(job[k].step) = "Sequential"
      BY <1>3, <2>0, <2>1 DEF KindAt
    <3>3. job[k - 1].step = job[k].step /\ k \in job[k - 1].locks
      BY <1>3, <2>1, <3>1, <3>2 DEF HeapOK, Chained
    <3>4. k - 1 \in Ids
      BY <1>1, <2>1, <3>1 DEF Ids
    <3>. QED  BY <1>3, <2>1, <3>3, <3>4
  <2>2. CASE k \in NewIds(step)
    <3>1. i \in NewIds(step)
      BY <1>3, <1>4, <2>2
    <3>2. step.kind = "Sequential"
      BY <1>3, <2>0, <2>2 DEF KindAt
    <3>3. k - 1 \in NewIds(step) /\ (k - 1) - current_id <= NWorkers
          /\ (k - 1) - current_id >= 0
      <4>1. Count(step) = NWorkers + 2
        BY <3>2 DEF Count
      <4>. QED  BY <1>1, <2>2, <3>1, <4>1, NWorkersAssumption DEF NewIds
    <3>4. job'[k - 1].locks = OwnLocks(step, (k - 1) - current_id, current_id)
          /\ job'[k - 1].step = at
      BY <3>3 DEF Adds
    <3>5. k \in OwnLocks(step, (k - 1) - current_id, current_id)
      <4>1. k = (current_id + ((k - 1) - current_id)) + 1
        BY <1>1, <1>2, <2>2
      <4>. QED  BY <3>2, <3>3, <4>1 DEF OwnLocks
    <3>. QED  BY <1>3, <2>2, <3>4, <3>5
  <2>. QED  BY <1>3, <2>1, <2>2
<1>. QED  BY <1>6, <1>7, <1>8

\* Locks from a list to a later one point forward.
LEMMA RelocksKeeps ==
    ASSUME HeapOK, NEW A \in SUBSET Ids, NEW T \in SUBSET Ids, Relocks(A, T),
           \A a \in A, t \in T : a < t
    PROVE  Grown' /\ LocksForward' /\ Chained'
<1>1. /\ current_id \in Nat /\ job \in [Ids -> SchedulerJob]
      /\ Ids' = Ids /\ current_id' = current_id /\ steps' = steps
      /\ job' \in [Ids -> SchedulerJob]
      /\ \A i \in Ids : /\ job'[i].step = job[i].step
                        /\ job'[i].locks = job[i].locks \cup (IF i \in A THEN T ELSE {})
  BY DEF HeapOK, TypeOK, Relocks, Relocked
<1>2. Grown'
  BY <1>1 DEF HeapOK, Grown, Before
<1>3. LocksForward'
  <2>1. DOMAIN job' = Ids /\ DOMAIN job = Ids
    BY <1>1
  <2>2. ASSUME NEW i \in Ids
        PROVE  job'[i].locks \subseteq i + 1 .. current_id - 1
    <3>1. job[i].locks \subseteq i + 1 .. current_id - 1
      BY <2>1 DEF HeapOK, LocksForward
    <3>2. i \in A => T \subseteq i + 1 .. current_id - 1
      BY <1>1 DEF Ids
    <3>. QED  BY <1>1, <3>1, <3>2
  <2>. QED  BY <1>1, <2>1, <2>2 DEF LocksForward
<1>4. Chained'
  <2> SUFFICES ASSUME NEW i \in Ids, NEW k \in Ids, i < k, job'[i].step = job'[k].step,
                      KindAt(job[k].step)' = "Sequential"
               PROVE  job'[k - 1].step = job'[k].step /\ k \in job'[k - 1].locks
    BY <1>1 DEF Chained
  <2>1. KindAt(job[k].step) = "Sequential" /\ job[i].step = job[k].step
    BY <1>1 DEF KindAt
  <2>2. job[k - 1].step = job[k].step /\ k \in job[k - 1].locks
    BY <2>1 DEF HeapOK, Chained
  <2>3. k - 1 \in Ids
    BY <1>1 DEF Ids
  <2>. QED  BY <1>1, <2>2, <2>3
<1>. QED  BY <1>2, <1>3, <1>4

\* A step that leaves the jobs alone keeps their order and locks.
LEMMA SameKeeps ==
    ASSUME HeapOK, UNCHANGED <<steps, job, current_id>>
    PROVE  Grown' /\ LocksForward' /\ Chained' /\ Ids' = Ids
<1>1. Ids' = Ids /\ job' = job /\ steps' = steps
  BY DEF Ids
<1>2. Grown'
  BY <1>1 DEF HeapOK, Grown, Before
<1>3. LocksForward'
  BY <1>1 DEF HeapOK, LocksForward
<1>4. Chained'
  <2>1. ASSUME NEW i \in Ids, NEW k \in Ids, i < k, job[i].step = job[k].step,
               KindAt(job[k].step) = "Sequential"
        PROVE  job[k - 1].step = job[k].step /\ k \in job[k - 1].locks
    BY <2>1 DEF HeapOK, Chained
  <2>2. \A k : KindAt(job[k].step)' = KindAt(job[k].step)
    BY <1>1 DEF KindAt
  <2>. QED  BY <1>1, <2>1, <2>2 DEF Chained
<1>. QED  BY <1>1, <1>2, <1>3, <1>4

\* Creating jobs moves none of those that are there.
LEMMA AddsPlaces ==
    ASSUME NEW step, NEW at, Adds(step, at)
    PROVE  /\ Ids' = Ids \cup NewIds(step)
           /\ \A i \in Ids : Pos(i)' = Pos(i) /\ It(i)' = It(i) /\ Nth(i)' = Nth(i)
           /\ \A i \in NewIds(step) :
                 Pos(i)' = at.pos /\ It(i)' = at.iteration /\ Nth(i)' = at.at
BY DEF Adds, Pos, It, Nth

\* Adding locks moves no job.
LEMMA RelocksPlaces ==
    ASSUME NEW A, NEW T, Relocks(A, T)
    PROVE  /\ Ids' = Ids /\ current_id' = current_id
           /\ \A i \in Ids : Pos(i)' = Pos(i) /\ It(i)' = It(i) /\ Nth(i)' = Nth(i)
BY DEF Relocks, Relocked, Pos, It, Nth

\* Leaving the jobs alone is adding no lock.
LEMMA SameRelocks ==
    ASSUME job \in [Ids -> SchedulerJob], UNCHANGED <<steps, job, current_id>>
    PROVE  Relocks({}, {})
BY DEF Relocks, Relocked, Ids

-----------------------------------------------------------------------------
(* The actions, case by case: what each one does to the heap. *)

LoopType(S) ==
    [it : Nat, at : Nat \ {0}, jobs0 : SUBSET S, jobs1 : SUBSET S,
     it_jobs : SUBSET S, job_list : SUBSET S, last_job : S \cup {NoJob}]

\* The types of the fields of the loop record.
LEMMA LoopFields ==
    ASSUME TypeOK
    PROVE  /\ loop.it \in Nat /\ loop.at \in Nat \ {0}
           /\ loop.jobs0 \in SUBSET Ids /\ loop.jobs1 \in SUBSET Ids
           /\ loop.it_jobs \in SUBSET Ids /\ loop.job_list \in SUBSET Ids
           /\ loop.last_job \in Ids \cup {NoJob}
BY DEF TypeOK

\* The lists of a loop stay lists of ids when ids are added.
LEMMA LoopGrows ==
    ASSUME TypeOK, NEW S, Ids \subseteq S
    PROVE  loop \in LoopType(S)
BY DEF TypeOK, LoopType

\* The loop record starts in its type.
LEMMA LoopStarts ==
    ASSUME NEW S
    PROVE  EmptyLoop \in LoopType(S)
BY DEF EmptyLoop, LoopType

\* The outcomes of a bind().
LEMMA BindErrors ==
    ASSUME NEW dist, NEW n0, NEW n1
    PROVE  BindError(dist, n0, n1) \in {"ok", "ValueError", "TypeError"}
BY DEF BindError

\* Steps of the artifact and of the body of its loop, where the procedure is.
LEMMA StepsHere ==
    ASSUME TypeOK, PhaseOK, pc \in Active
    PROVE  /\ pos \in 1 .. Len(steps) /\ pos \in Nat /\ Len(steps) \in Nat
           /\ pc \in InLoop => /\ body \in Seq(BaseStep) /\ Len(body) \in Nat
                               /\ steps[pos].iterations \in Nat
                               /\ body # << >> => loop.at \in 1 .. Len(body)
<1>1. steps \in Seq(BaseStep \cup Iterate) /\ Len(steps) \in Nat
  BY DEF TypeOK
<1>2. pos \in 1 .. Len(steps) /\ pos \in Nat
  BY <1>1 DEF TypeOK, PhaseOK, Active, InLoop
<1>3. ASSUME pc \in InLoop
      PROVE  /\ body \in Seq(BaseStep) /\ Len(body) \in Nat
             /\ steps[pos].iterations \in Nat
             /\ body # << >> => loop.at \in 1 .. Len(body)
  <2>1. steps[pos].kind = "Iterate"
    BY <1>3 DEF PhaseOK
  <2>2. steps[pos].steps \in Seq(BaseStep) /\ steps[pos].iterations \in Nat
    BY <1>1, <1>2, <2>1, StepKinds
  <2>3. loop.at \in Nat \ {0}
    BY LoopFields
  <2>4. body \in Seq(BaseStep) /\ Len(body) \in Nat
    BY <2>2 DEF body
  <2>5. body # << >> => loop.at <= Len(body)
    BY <1>3 DEF PhaseOK
  <2>. QED  BY <2>2, <2>3, <2>4, <2>5
<1>. QED  BY <1>1, <1>2, <1>3

\* Artifact.jobs creates the jobs of the next step.
LEMMA ExpandAdds ==
    ASSUME PlanInv, Expand, ~ HasNoFirstWorker(steps[pos])
    PROVE  LET at == [pos |-> pos, iteration |-> iteration, at |-> 1] IN
           /\ at \in Place /\ Fresh(at) /\ KindAt(at) = steps[pos].kind
           /\ Adds(steps[pos], at)
<1> DEFINE at == [pos |-> pos, iteration |-> iteration, at |-> 1]
<1>1. TypeOK /\ PhaseOK /\ pc = "expand" /\ pos \in Nat /\ iteration \in Nat
  BY DEF PlanInv, Expand, TypeOK
<1>2. at \in Place
  BY <1>1 DEF Place
<1>3. KindAt(at) = steps[pos].kind
  BY DEF KindAt, Expand
<1>4. Fresh(at)
  BY <1>1 DEF PlanInv, Placed, Fresh, Before, Pos
<1>5. /\ steps' = steps /\ job' = WithJobsOf(steps[pos], at)
      /\ current_id' = current_id + Count(steps[pos])
  BY DEF Expand
<1> HIDE DEF at
<1>6. Adds(steps[pos], at)
  BY <1>1, <1>2, <1>5, AddsJobs
<1>. QED  BY <1>2, <1>3, <1>4, <1>6 DEF at

\* Iterate.jobs creates the jobs of the next step of its body.
LEMMA LoopExpandAdds ==
    ASSUME PlanInv, LoopExpand, body # << >>, ~ HasNoFirstWorker(body[loop.at])
    PROVE  LET at == [pos |-> pos, iteration |-> loop.it, at |-> loop.at] IN
           /\ at \in Place /\ Fresh(at) /\ KindAt(at) = body[loop.at].kind
           /\ Adds(body[loop.at], at)
<1> DEFINE at == [pos |-> pos, iteration |-> loop.it, at |-> loop.at]
<1>1. TypeOK /\ PhaseOK /\ pc = "it_expand" /\ pos \in Nat /\ iteration \in Nat
      /\ loop.at \in Nat /\ loop.it \in Nat /\ iteration = loop.it
      /\ steps[pos].kind = "Iterate" /\ job \in [Ids -> SchedulerJob]
  BY LoopFields DEF PlanInv, LoopExpand, TypeOK, PhaseOK, InLoop
<1>2. at \in Place
  BY <1>1 DEF Place
<1>3. KindAt(at) = body[loop.at].kind
  BY <1>1 DEF KindAt, body
<1>4. Fresh(at)
  BY <1>1, Places DEF PlanInv, Placed, Fresh, Before, Pos, It, Nth, InLoop
<1>5. /\ steps' = steps /\ job' = WithJobsOf(body[loop.at], at)
      /\ current_id' = current_id + Count(body[loop.at])
  BY <1>1 DEF LoopExpand
<1> HIDE DEF at
<1>6. Adds(body[loop.at], at)
  BY <1>1, <1>2, <1>5, AddsJobs
<1>. QED  BY <1>2, <1>3, <1>4, <1>6 DEF at

\* The error that the binding of two steps ends in, and what it locks.
BindOutcome ==
    IF pos = 1 THEN "ok"
    ELSE IF steps[pos - 1].kind = "Iterate" THEN "ValueError"
    ELSE BindError(steps[pos - 1].dist, Cardinality(jobs0), Cardinality(jobs1))

BindTargets ==
    IF pos = 1 THEN {} ELSE LockedTargets(steps[pos - 1].dist, jobs0, jobs1)

LoopBindOutcome ==
    IF loop.at = 1 THEN "ok"
    ELSE BindError(body[loop.at - 1].dist, Cardinality(loop.jobs0), Cardinality(loop.jobs1))

LoopBindTargets ==
    IF loop.at = 1 THEN {}
    ELSE LockedTargets(body[loop.at - 1].dist, loop.jobs0, loop.jobs1)

\* A distribution locks jobs of the second list only.
LEMMA TargetsInList ==
    ASSUME NEW dist, NEW A, NEW B
    PROVE  LockedTargets(dist, A, B) \in SUBSET B
BY DEF LockedTargets

\* An accepted bind() adds locks from jobs0 to jobs1, and all of these come later.
LEMMA BindRelocks ==
    ASSUME PlanInv, Bind, BindOutcome = "ok"
    PROVE  /\ Relocks(jobs0, BindTargets)
           /\ BindTargets \in SUBSET jobs1 /\ jobs0 \in SUBSET Ids /\ jobs1 \in SUBSET Ids
           /\ \A a \in jobs0, t \in BindTargets : a < t
<1>1. /\ TypeOK /\ pc = "bind" /\ job \in [Ids -> SchedulerJob]
      /\ jobs0 \in SUBSET Ids /\ jobs1 \in SUBSET Ids
      /\ steps' = steps /\ current_id' = current_id /\ Ids' = Ids
  BY DEF PlanInv, TypeOK, Bind, BindOutcome, Ids
<1>2. BindTargets \in SUBSET jobs1
  BY TargetsInList DEF BindTargets
<1>3. Relocks(jobs0, BindTargets)
  <2>1. CASE pos = 1
    <3>1. job' = job /\ BindTargets = {}
      BY <2>1 DEF Bind, BindOutcome, BindTargets
    <3>. QED  BY <1>1, <3>1 DEF Relocks, Relocked
  <2>2. CASE pos # 1
    <3>1. job' = Bound(steps[pos - 1].dist, jobs0, jobs1)
          /\ BindTargets = LockedTargets(steps[pos - 1].dist, jobs0, jobs1)
      BY <2>2 DEF Bind, BindOutcome, BindTargets
    <3>2. jobs1 \subseteq Nat
      BY <1>1 DEF Ids
    <3>3. Relocked(Bound(steps[pos - 1].dist, jobs0, jobs1), jobs0, LockedTargets(steps[pos - 1].dist, jobs0, jobs1))
      BY <1>1, <3>2, BoundLocks
    <3>. QED  BY <1>1, <3>1, <3>3 DEF Relocks
  <2>. QED  BY <2>1, <2>2
<1>4. ASSUME NEW a \in jobs0, NEW t \in jobs1
      PROVE  a < t
  <2>1. Pos(a) = pos - 1 /\ Pos(t) = pos /\ a \in Ids /\ t \in Ids /\ pos \in Nat
    BY <1>1 DEF PlanInv, Listed, Active, TypeOK
  <2>2. Before(job[a].step, job[t].step)
    BY <2>1 DEF Before, Pos
  <2>. QED  BY <2>1, <2>2 DEF PlanInv, Grown
<1>. QED  BY <1>1, <1>2, <1>3, <1>4

\* The same for a bind() in the body of a loop.
LEMMA LoopBindRelocks ==
    ASSUME PlanInv, LoopBind, LoopBindOutcome = "ok"
    PROVE  /\ Relocks(loop.jobs0, LoopBindTargets)
           /\ LoopBindTargets \in SUBSET loop.jobs1
           /\ loop.jobs0 \in SUBSET Ids /\ loop.jobs1 \in SUBSET Ids
           /\ \A a \in loop.jobs0, t \in LoopBindTargets : a < t
<1>1. /\ TypeOK /\ pc = "it_bind" /\ job \in [Ids -> SchedulerJob]
      /\ loop.jobs0 \in SUBSET Ids /\ loop.jobs1 \in SUBSET Ids
      /\ steps' = steps /\ current_id' = current_id /\ Ids' = Ids
  BY LoopFields DEF PlanInv, TypeOK, LoopBind, LoopBindOutcome, Ids
<1>2. LoopBindTargets \in SUBSET loop.jobs1
  BY TargetsInList DEF LoopBindTargets
<1>3. Relocks(loop.jobs0, LoopBindTargets)
  <2>1. CASE loop.at = 1
    <3>1. job' = job /\ LoopBindTargets = {}
      BY <2>1 DEF LoopBind, LoopBindOutcome, LoopBindTargets
    <3>. QED  BY <1>1, <3>1 DEF Relocks, Relocked
  <2>2. CASE loop.at # 1
    <3>1. job' = Bound(body[loop.at - 1].dist, loop.jobs0, loop.jobs1)
          /\ LoopBindTargets = LockedTargets(body[loop.at - 1].dist, loop.jobs0, loop.jobs1)
      BY <2>2 DEF LoopBind, LoopBindOutcome, LoopBindTargets
    <3>2. loop.jobs1 \subseteq Nat
      BY <1>1 DEF Ids
    <3>3. Relocked(Bound(body[loop.at - 1].dist, loop.jobs0, loop.jobs1), loop.jobs0, LockedTargets(body[loop.at - 1].dist, loop.jobs0, loop.jobs1))
      BY <1>1, <3>2, BoundLocks
    <3>. QED  BY <1>1, <3>1, <3>3 DEF Relocks
  <2>. QED  BY <2>1, <2>2
<1>4. ASSUME NEW a \in loop.jobs0, NEW t \in loop.jobs1
      PROVE  a < t
  <2>1. /\ Pos(a) = pos /\ Pos(t) = pos /\ It(a) = loop.it /\ It(t) = loop.it
        /\ Nth(a) = loop.at - 1 /\ Nth(t) = loop.at
        /\ a \in Ids /\ t \in Ids /\ loop.at \in Nat
    BY <1>1, LoopFields DEF PlanInv, Listed
  <2>2. Before(job[a].step, job[t].step)
    BY <2>1 DEF Before, Pos, It, Nth
  <2>. QED  BY <2>1, <2>2 DEF PlanInv, Grown
<1>. QED  BY <1>1, <1>2, <1>3, <1>4

\* The end of an iteration locks its jobs by the last job of the iterations before.
LEMMA LoopEndRelocks ==
    ASSUME PlanInv, LoopEnd, JobList # {}
    PROVE  LET A == {i \in Ids : i = loop.last_job} IN
           /\ Relocks(A, loop.it_jobs)
           /\ A \in SUBSET Ids /\ loop.it_jobs \in SUBSET Ids
           /\ \A a \in A, t \in loop.it_jobs : a < t
<1> DEFINE A == {i \in Ids : i = loop.last_job}
<1>1. /\ TypeOK /\ pc = "it_end" /\ job \in [Ids -> SchedulerJob]
      /\ loop.it_jobs \in SUBSET Ids /\ loop.it \in Nat /\ current_id \in Nat
      /\ steps' = steps /\ current_id' = current_id /\ Ids' = Ids
      /\ job' = Gated
  BY LoopFields DEF PlanInv, TypeOK, LoopEnd, Ids
<1>2. Relocks(A, loop.it_jobs)
  <2>1. Relocked(Gated, A, loop.it_jobs)
    BY <1>1, GatedLocks
  <2> HIDE DEF A
  <2>. QED  BY <1>1, <2>1 DEF Relocks
<1>3. ASSUME NEW a \in A, NEW t \in loop.it_jobs
      PROVE  a < t
  <2>1. loop.it > 0 /\ a \in loop.job_list /\ a \in Ids
    <3>1. a = loop.last_job /\ a # NoJob /\ a \in Ids
      BY <1>1 DEF Ids, NoJob
    <3>. QED  BY <1>1, <3>1 DEF PlanInv, Gate, InLoop
  <2>2. Pos(a) = pos /\ It(a) < loop.it /\ Pos(t) = pos /\ It(t) = loop.it
    BY <1>1, <2>1 DEF PlanInv, Listed, InLoop
  <2>3. Before(job[a].step, job[t].step)
    BY <2>2 DEF Before, Pos, It
  <2>. QED  BY <1>1, <2>1, <2>3 DEF PlanInv, Grown
<1>. QED  BY <1>1, <1>2, <1>3

-----------------------------------------------------------------------------
(* The invariant of the lists. *)

\* An exception leaves the jobs as they are.
LEMMA RaiseKeeps ==
    ASSUME PlanInv, NEW error \in {"ValueError", "TypeError", "IndexError"}, Raise(error)
    PROVE  PlanInv'
<1>1. /\ UNCHANGED <<steps, pos, job, current_id, iteration, jobs, jobs0, jobs1, loop>>
      /\ pc' = error /\ Ids' = Ids
  BY DEF Raise, Ids
<1>2. TypeOK'
  BY <1>1 DEF PlanInv, TypeOK, Outcomes
<1>3. PhaseOK' /\ Listed' /\ Gate'
  BY <1>1 DEF PhaseOK, Listed, Gate, InLoop, Active
<1>4. Placed'
  BY <1>1 DEF PlanInv, Placed, Pos, Nth, InLoop
<1>5. HeapOK
  BY DEF PlanInv, HeapOK
<1>6. Grown' /\ LocksForward' /\ Chained'
  BY <1>1, <1>5, SameKeeps
<1>. QED  BY <1>2, <1>3, <1>4, <1>6 DEF PlanInv

\* Step.jobs() keeps the invariant of the lists.
LEMMA ExpandKeeps ==
    ASSUME PlanInv, Expand
    PROVE  PlanInv'
<1>1. CASE HasNoFirstWorker(steps[pos])
  <2>1. Raise("IndexError")
    BY <1>1 DEF Expand
  <2>. QED  BY <2>1, RaiseKeeps
<1>2. CASE ~ HasNoFirstWorker(steps[pos])
  <2> DEFINE at == [pos |-> pos, iteration |-> iteration, at |-> 1]
             step == steps[pos]
             new == NewIds(step)
  <2>1. at \in Place /\ Fresh(at) /\ KindAt(at) = step.kind /\ Adds(step, at)
    BY <1>2, ExpandAdds
  <2>2. at.pos = pos /\ at.at = 1
    OBVIOUS
  <2>3. /\ pc = "expand" /\ pc' = "bind" /\ jobs1' = new
        /\ steps' = steps /\ pos' = pos /\ iteration' = iteration
        /\ jobs' = jobs /\ jobs0' = jobs0 /\ loop' = loop
    BY <1>2 DEF Expand
  <2>4. /\ TypeOK /\ Placed /\ Listed /\ HeapOK
        /\ pos \in Nat \ {0} /\ pos <= Len(steps) /\ job \in [Ids -> SchedulerJob]
    BY <2>3 DEF PlanInv, HeapOK, TypeOK
  <2> HIDE DEF at
  <2>5. Grown' /\ LocksForward' /\ Chained'
    BY <2>1, <2>4, AddsKeeps
  <2>6. /\ Ids' = Ids \cup new
        /\ \A i \in Ids : Pos(i)' = Pos(i) /\ It(i)' = It(i) /\ Nth(i)' = Nth(i)
        /\ \A i \in new : Pos(i)' = pos /\ Nth(i)' = 1
    BY <2>1, <2>2, AddsPlaces
  <2> HIDE DEF step, new
  <2>7. TypeOK'
    <3>1. jobs' \subseteq Ids' /\ jobs0' \subseteq Ids' /\ jobs1' \subseteq Ids'
      BY <2>3, <2>4, <2>6 DEF TypeOK
    <3>2. loop' \in LoopType(Ids')
      BY <2>3, <2>4, <2>6, LoopGrows
    <3>3. current_id' \in Nat /\ job' \in [Ids' -> SchedulerJob]
      BY <2>1 DEF Adds
    <3>. QED  BY <2>3, <2>4, <3>1, <3>2, <3>3 DEF TypeOK, LoopType
  <2>8. PhaseOK'
    BY <2>3 DEF PhaseOK, InLoop
  <2>9. Placed'
    <3>1. \A i \in Ids : Pos(i) >= 1 /\ Nth(i) >= 1 /\ Pos(i) < pos /\ Pos(i) \in Nat
      BY <2>3, <2>4, Places DEF Placed
    <3>2. \A i \in Ids' : Pos(i)' >= 1 /\ Nth(i)' >= 1 /\ Pos(i)' <= pos'
      BY <2>3, <2>4, <2>6, <3>1
    <3>. QED  BY <2>3, <3>2 DEF Placed, InLoop
  <2>10. Listed'
    <3>1. jobs = {i \in Ids : Pos(i) < pos - 1} /\ jobs0 = {i \in Ids : Pos(i) = pos - 1}
      BY <2>3, <2>4 DEF Listed, Active
    <3>2. \A i \in Ids : Pos(i) < pos
      BY <2>3, <2>4 DEF Placed
    <3>3. /\ jobs' = {i \in Ids' : Pos(i)' < pos' - 1}
          /\ jobs0' = {i \in Ids' : Pos(i)' = pos' - 1}
      BY <2>3, <2>4, <2>6, <3>1
    <3>4. \A i \in Ids' : i \in jobs1' <=> Pos(i)' = pos'
      BY <2>3, <2>4, <2>6, <3>2
    <3>5. jobs1' = {i \in Ids' : Pos(i)' = pos'}
      BY <2>3, <2>6, <3>4
    <3>. QED  BY <2>3, <3>3, <3>5 DEF Listed, InLoop
  <2>11. Gate'
    BY <2>3 DEF Gate, InLoop
  <2>. QED  BY <2>5, <2>7, <2>8, <2>9, <2>10, <2>11 DEF PlanInv
<1>. QED  BY <1>1, <1>2

\* Adding locks keeps the type of the jobs.
LEMMA RelocksType ==
    ASSUME TypeOK, NEW A, NEW T, Relocks(A, T)
    PROVE  /\ Ids' = Ids /\ steps' = steps /\ current_id' \in Nat
           /\ job' \in [Ids' -> SchedulerJob]
           /\ steps' \in Seq(BaseStep \cup Iterate)
BY DEF TypeOK, Relocks, Relocked

\* bind() keeps the invariant of the lists.
LEMMA BindKeeps ==
    ASSUME PlanInv, Bind
    PROVE  PlanInv'
<1>1. CASE BindOutcome # "ok"
  <2>1. Raise(BindOutcome)
    BY <1>1 DEF Bind, BindOutcome
  <2>2. BindOutcome \in {"ValueError", "TypeError", "IndexError"}
    BY <1>1, BindErrors DEF BindOutcome
  <2>. QED  BY <2>1, <2>2, RaiseKeeps
<1>2. CASE BindOutcome = "ok"
  <2>1. /\ Relocks(jobs0, BindTargets)
        /\ BindTargets \in SUBSET jobs1 /\ jobs0 \in SUBSET Ids /\ jobs1 \in SUBSET Ids
        /\ \A a \in jobs0, t \in BindTargets : a < t
    BY <1>2, BindRelocks
  <2>2. /\ pc = "bind" /\ jobs0' = jobs1 /\ jobs1' = {}
        /\ steps' = steps /\ iteration' = iteration /\ loop' = loop
        /\ pos < Len(steps) => jobs' = jobs \cup jobs0 /\ pos' = pos + 1 /\ pc' = "expand"
        /\ ~ (pos < Len(steps)) =>
              jobs' = (jobs \cup jobs0) \cup jobs1 /\ pos' = pos /\ pc' = "planned"
    BY <1>2 DEF Bind, BindOutcome
  <2>3. /\ TypeOK /\ Placed /\ Listed /\ HeapOK
        /\ pos \in Nat \ {0} /\ pos <= Len(steps) /\ Len(steps) \in Nat
        /\ job \in [Ids -> SchedulerJob]
    BY <2>2 DEF PlanInv, HeapOK, TypeOK
  <2>4. Grown' /\ LocksForward' /\ Chained'
    <3>1. BindTargets \in SUBSET Ids
      BY <2>1
    <3>. QED  BY <2>1, <2>3, <3>1, RelocksKeeps
  <2>5. /\ Ids' = Ids /\ current_id' = current_id
        /\ \A i \in Ids : /\ Pos(i)' = Pos(i) /\ It(i)' = It(i) /\ Nth(i)' = Nth(i)
                          /\ Pos(i) \in Nat
    BY <2>1, <2>3, RelocksPlaces, Places
  <2>6. /\ jobs = {i \in Ids : Pos(i) < pos - 1} /\ jobs0 = {i \in Ids : Pos(i) = pos - 1}
        /\ jobs1 = {i \in Ids : Pos(i) = pos}
        /\ \A i \in Ids : Pos(i) <= pos /\ Pos(i) >= 1 /\ Nth(i) >= 1
    BY <2>2, <2>3 DEF Listed, Active, Placed
  <2>7. TypeOK'
    <3>1. jobs' \subseteq Ids' /\ jobs0' \subseteq Ids' /\ jobs1' \subseteq Ids'
      BY <2>1, <2>2, <2>3, <2>5 DEF TypeOK
    <3>2. loop' \in LoopType(Ids')
      BY <2>2, <2>3, <2>5, LoopGrows
    <3>3. /\ steps' \in Seq(BaseStep \cup Iterate) /\ current_id' \in Nat
          /\ job' \in [Ids' -> SchedulerJob]
      BY <2>1, <2>3, RelocksType
    <3>4. pos' \in Nat \ {0} /\ (pc' \in {"expand", "bind"} => pos' <= Len(steps))
          /\ pc' \in {"expand", "bind", "it_expand", "it_bind", "it_end"} \cup Outcomes
      BY <2>2, <2>3 DEF Outcomes
    <3>5. iteration' \in Nat
      BY <2>2, <2>3 DEF TypeOK
    <3>. QED  BY <2>2, <3>1, <3>2, <3>3, <3>4, <3>5 DEF TypeOK, LoopType
  <2>8. PhaseOK'
    BY <2>2, <2>3 DEF PhaseOK, InLoop
  <2>9. Placed'
    <3>1. pc' = "expand" => \A i \in Ids' : Pos(i)' < pos'
      BY <2>2, <2>3, <2>5, <2>6
    <3>. QED  BY <2>2, <2>5, <2>6, <3>1 DEF Placed, InLoop
  <2>10. Listed'
    <3>1. CASE pos < Len(steps)
      <4>1. /\ jobs' = {i \in Ids' : Pos(i)' < pos' - 1}
            /\ jobs0' = {i \in Ids' : Pos(i)' = pos' - 1}
        BY <2>2, <2>3, <2>5, <2>6, <3>1
      <4>. QED  BY <2>2, <3>1, <4>1 DEF Listed, InLoop
    <3>2. CASE ~ (pos < Len(steps))
      <4>1. jobs' = Ids'
        <5>1. \A i \in Ids : i \in jobs \/ i \in jobs0 \/ i \in jobs1
          BY <2>3, <2>5, <2>6
        <5>2. jobs' = (jobs \cup jobs0) \cup jobs1
          BY <2>2, <3>2
        <5>. QED  BY <2>5, <2>6, <5>1, <5>2
      <4>. QED  BY <2>2, <3>2, <4>1 DEF Listed, InLoop, Active
    <3>. QED  BY <3>1, <3>2
  <2>11. Gate'
    BY <2>2 DEF Gate, InLoop
  <2>. QED  BY <2>4, <2>7, <2>8, <2>9, <2>10, <2>11 DEF PlanInv
<1>. QED  BY <1>1, <1>2

\* Entering Iterate.jobs() keeps the invariant of the lists.
LEMMA EnterLoopKeeps ==
    ASSUME PlanInv, EnterLoop
    PROVE  PlanInv'
<1>1. /\ pc = "expand" /\ steps[pos].kind = "Iterate" /\ loop' = EmptyLoop
      /\ UNCHANGED <<steps, pos, job, current_id, jobs, jobs0>> /\ Ids' = Ids
      /\ steps[pos].iterations = 0 => pc' = "bind" /\ jobs1' = {} /\ iteration' = iteration
      /\ steps[pos].iterations # 0 =>
            pc' = "it_expand" /\ iteration' = 0 /\ jobs1' = jobs1
  BY DEF EnterLoop, Ids
<1>2. /\ TypeOK /\ Placed /\ Listed /\ HeapOK /\ PhaseOK /\ pc \in Active
      /\ pos \in Nat \ {0} /\ pos \in 1 .. Len(steps) /\ Len(steps) \in Nat
      /\ job \in [Ids -> SchedulerJob] /\ steps \in Seq(BaseStep \cup Iterate)
  BY <1>1, StepsHere DEF PlanInv, HeapOK, TypeOK, Active
<1>3. Grown' /\ LocksForward' /\ Chained'
  BY <1>1, <1>2, SameKeeps
<1>4. \A i \in Ids : /\ Pos(i)' = Pos(i) /\ It(i)' = It(i) /\ Nth(i)' = Nth(i)
                     /\ Pos(i) \in Nat
  BY <1>1, <1>2, Places DEF Pos, It, Nth
<1>5. /\ EmptyLoop.it = 0 /\ EmptyLoop.at = 1 /\ EmptyLoop.jobs0 = {}
      /\ EmptyLoop.it_jobs = {} /\ EmptyLoop.job_list = {} /\ EmptyLoop.last_job = NoJob
  BY DEF EmptyLoop
<1>6. /\ steps[pos].iterations \in Nat /\ body \in Seq(BaseStep)
  BY <1>1, <1>2, StepKinds DEF body
<1>7. TypeOK'
  <2>1. loop' \in LoopType(Ids')
    BY <1>1, LoopStarts
  <2>. QED  BY <1>1, <1>2, <2>1 DEF TypeOK, LoopType
<1>8. PhaseOK'
  <2>1. body' = body /\ (body # << >> => 1 <= Len(body))
    BY <1>1, <1>6 DEF body
  <2>2. pc' \in {"bind", "it_expand"} /\ (pc' = "it_expand" => steps[pos].iterations # 0)
    BY <1>1
  <2>. QED  BY <1>1, <1>2, <1>5, <1>6, <2>1, <2>2 DEF PhaseOK, InLoop
<1>9. Placed'
  BY <1>1, <1>2, <1>4 DEF Placed, InLoop
<1>10. Listed'
  <2>1. jobs = {i \in Ids : Pos(i) < pos - 1} /\ jobs0 = {i \in Ids : Pos(i) = pos - 1}
    BY <1>2 DEF Listed
  <2>2. \A i \in Ids : Pos(i) < pos /\ Pos(i) # pos
    BY <1>1, <1>2, <1>4 DEF Placed
  <2>3. /\ jobs' = {i \in Ids' : Pos(i)' < pos' - 1}
        /\ jobs0' = {i \in Ids' : Pos(i)' = pos' - 1}
    BY <1>1, <1>4, <2>1
  <2>4. \A i \in Ids' : Pos(i)' # pos'
    BY <1>1, <1>4, <2>2
  <2>. QED  BY <1>1, <1>5, <2>3, <2>4 DEF Listed, InLoop, Active
<1>11. Gate'
  BY <1>1, <1>5 DEF Gate, InLoop
<1>. QED  BY <1>3, <1>7, <1>8, <1>9, <1>10, <1>11 DEF PlanInv

\* Step.jobs() in the body of a loop keeps the invariant of the lists.
LEMMA LoopExpandKeeps ==
    ASSUME PlanInv, LoopExpand
    PROVE  PlanInv'
<1>1. CASE body = << >> \/ HasNoFirstWorker(body[loop.at])
  <2>1. Raise("IndexError")
    BY <1>1 DEF LoopExpand
  <2>. QED  BY <2>1, RaiseKeeps
<1>2. CASE ~ (body = << >> \/ HasNoFirstWorker(body[loop.at]))
  <2> DEFINE at == [pos |-> pos, iteration |-> loop.it, at |-> loop.at]
             step == body[loop.at]
             new == NewIds(step)
  <2>1. at \in Place /\ Fresh(at) /\ KindAt(at) = step.kind /\ Adds(step, at)
    BY <1>2, LoopExpandAdds
  <2>2. at.pos = pos /\ at.iteration = loop.it /\ at.at = loop.at
    OBVIOUS
  <2>3. /\ pc = "it_expand" /\ pc' = "it_bind"
        /\ loop' = [loop EXCEPT !.jobs1 = new]
        /\ steps' = steps /\ pos' = pos /\ iteration' = iteration
        /\ jobs' = jobs /\ jobs0' = jobs0 /\ jobs1' = jobs1
    BY <1>2 DEF LoopExpand
  <2>4. /\ TypeOK /\ Placed /\ Listed /\ HeapOK /\ Gate /\ PhaseOK
        /\ pos \in Nat \ {0} /\ job \in [Ids -> SchedulerJob]
    BY <2>3 DEF PlanInv, HeapOK, TypeOK
  <2> HIDE DEF at
  <2>5. Grown' /\ LocksForward' /\ Chained'
    BY <2>1, <2>4, AddsKeeps
  <2>6. /\ Ids' = Ids \cup new
        /\ \A i \in Ids : Pos(i)' = Pos(i) /\ It(i)' = It(i) /\ Nth(i)' = Nth(i)
        /\ \A i \in new : Pos(i)' = pos /\ It(i)' = loop.it /\ Nth(i)' = loop.at
    BY <2>1, <2>2, AddsPlaces
  <2> HIDE DEF step, new
  <2>7. /\ loop.it \in Nat /\ loop.at \in Nat \ {0}
        /\ \A i \in Ids : Pos(i) \in Nat /\ It(i) \in Nat /\ Nth(i) \in Nat
    BY <2>4, LoopFields, Places
  <2>8. /\ loop'.it = loop.it /\ loop'.at = loop.at /\ loop'.jobs0 = loop.jobs0
        /\ loop'.jobs1 = new /\ loop'.it_jobs = loop.it_jobs
        /\ loop'.job_list = loop.job_list /\ loop'.last_job = loop.last_job
    <3>1. loop \in LoopType(Ids)
      BY <2>4, LoopGrows
    <3>. QED  BY <2>3, <3>1 DEF LoopType
  <2>9. TypeOK'
    <3>1. jobs' \subseteq Ids' /\ jobs0' \subseteq Ids' /\ jobs1' \subseteq Ids'
      BY <2>3, <2>4, <2>6 DEF TypeOK
    <3>2. loop' \in LoopType(Ids')
      <4>1. loop \in LoopType(Ids')
        BY <2>4, <2>6, LoopGrows
      <4>2. new \in SUBSET Ids'
        BY <2>6
      <4>. QED  BY <2>3, <4>1, <4>2 DEF LoopType
    <3>3. current_id' \in Nat /\ job' \in [Ids' -> SchedulerJob]
      BY <2>1 DEF Adds
    <3>4. pos' \in Nat \ {0} /\ steps' \in Seq(BaseStep \cup Iterate) /\ iteration' \in Nat
      BY <2>3, <2>4 DEF TypeOK
    <3>. QED  BY <2>3, <3>1, <3>2, <3>3, <3>4 DEF TypeOK, LoopType
  <2>10. PhaseOK'
    <3>1. body' = body
      BY <2>3 DEF body
    <3>. QED  BY <1>2, <2>3, <2>4, <2>8, <3>1 DEF PhaseOK, InLoop
  <2>11. \A i \in Ids : /\ Pos(i) >= 1 /\ Nth(i) >= 1
                        /\ \/ Pos(i) < pos
                           \/ Pos(i) = pos /\ It(i) < loop.it
                           \/ Pos(i) = pos /\ It(i) = loop.it /\ Nth(i) < loop.at
    BY <2>3, <2>4 DEF Placed, InLoop
  <2>12. Placed'
    <3>1. \A i \in Ids' : /\ Pos(i)' >= 1 /\ Nth(i)' >= 1
                          /\ \/ Pos(i)' < pos'
                             \/ Pos(i)' = pos' /\ It(i)' < loop'.it
                             \/ Pos(i)' = pos' /\ It(i)' = loop'.it /\ Nth(i)' <= loop'.at
      BY <2>3, <2>4, <2>6, <2>7, <2>8, <2>11
    <3>. QED  BY <2>3, <3>1 DEF Placed, InLoop
  <2>13. Listed'
    <3>1. jobs = {i \in Ids : Pos(i) < pos - 1} /\ jobs0 = {i \in Ids : Pos(i) = pos - 1}
          /\ loop.job_list = {i \in Ids : Pos(i) = pos /\ It(i) < loop.it}
          /\ loop.it_jobs
                = {i \in Ids : Pos(i) = pos /\ It(i) = loop.it /\ Nth(i) < loop.at - 1}
          /\ loop.jobs0
                = {i \in Ids : Pos(i) = pos /\ It(i) = loop.it /\ Nth(i) = loop.at - 1}
      BY <2>3, <2>4 DEF Listed, Active, InLoop
    <3>2. /\ jobs' = {i \in Ids' : Pos(i)' < pos' - 1}
          /\ jobs0' = {i \in Ids' : Pos(i)' = pos' - 1}
      BY <2>3, <2>4, <2>6, <3>1
    <3>3. loop'.job_list = {i \in Ids' : Pos(i)' = pos' /\ It(i)' < loop'.it}
      BY <2>3, <2>6, <2>7, <2>8, <3>1
    <3>4. /\ loop'.it_jobs
                = {i \in Ids' : Pos(i)' = pos' /\ It(i)' = loop'.it /\ Nth(i)' < loop'.at - 1}
          /\ loop'.jobs0
                = {i \in Ids' : Pos(i)' = pos' /\ It(i)' = loop'.it /\ Nth(i)' = loop'.at - 1}
      BY <2>3, <2>6, <2>7, <2>8, <3>1
    <3>5. \A i \in Ids' : i \in loop'.jobs1
                <=> Pos(i)' = pos' /\ It(i)' = loop'.it /\ Nth(i)' = loop'.at
      BY <2>3, <2>6, <2>7, <2>8, <2>11
    <3>6. loop'.jobs1
                = {i \in Ids' : Pos(i)' = pos' /\ It(i)' = loop'.it /\ Nth(i)' = loop'.at}
      BY <2>6, <2>8, <3>5
    <3>. QED  BY <2>3, <3>2, <3>3, <3>4, <3>6 DEF Listed
  <2>14. Gate'
    BY <2>3, <2>4, <2>8 DEF Gate, InLoop
  <2>. QED  BY <2>5, <2>9, <2>10, <2>12, <2>13, <2>14 DEF PlanInv
<1>. QED  BY <1>1, <1>2

\* bind() in the body of a loop keeps the invariant of the lists.
LEMMA LoopBindKeeps ==
    ASSUME PlanInv, LoopBind
    PROVE  PlanInv'
<1>1. CASE LoopBindOutcome # "ok"
  <2>1. Raise(LoopBindOutcome)
    BY <1>1 DEF LoopBind, LoopBindOutcome
  <2>2. LoopBindOutcome \in {"ValueError", "TypeError", "IndexError"}
    BY <1>1, BindErrors DEF LoopBindOutcome
  <2>. QED  BY <2>1, <2>2, RaiseKeeps
<1>2. CASE LoopBindOutcome = "ok"
  <2>1. /\ Relocks(loop.jobs0, LoopBindTargets)
        /\ LoopBindTargets \in SUBSET loop.jobs1
        /\ loop.jobs0 \in SUBSET Ids /\ loop.jobs1 \in SUBSET Ids
        /\ \A a \in loop.jobs0, t \in LoopBindTargets : a < t
    BY <1>2, LoopBindRelocks
  <2>2. /\ pc = "it_bind" /\ steps' = steps /\ pos' = pos /\ iteration' = iteration
        /\ jobs' = jobs /\ jobs0' = jobs0 /\ jobs1' = jobs1
        /\ loop.at < Len(body) =>
              /\ pc' = "it_expand"
              /\ loop' = [loop EXCEPT !.at = @ + 1,
                                      !.it_jobs = @ \cup loop.jobs0,
                                      !.jobs0 = loop.jobs1]
        /\ ~ (loop.at < Len(body)) =>
              /\ pc' = "it_end"
              /\ loop' = [loop EXCEPT !.it_jobs = @ \cup loop.jobs0 \cup loop.jobs1]
    BY <1>2 DEF LoopBind, LoopBindOutcome
  <2>3. /\ TypeOK /\ Placed /\ Listed /\ HeapOK /\ Gate /\ PhaseOK /\ pc \in Active
        /\ pos \in Nat \ {0} /\ job \in [Ids -> SchedulerJob]
    BY <2>2 DEF PlanInv, HeapOK, TypeOK, Active, InLoop
  <2>4. Grown' /\ LocksForward' /\ Chained'
    <3>1. LoopBindTargets \in SUBSET Ids
      BY <2>1
    <3>. QED  BY <2>1, <2>3, <3>1, RelocksKeeps
  <2>5. /\ Ids' = Ids /\ current_id' = current_id
        /\ \A i \in Ids : /\ Pos(i)' = Pos(i) /\ It(i)' = It(i) /\ Nth(i)' = Nth(i)
                          /\ Pos(i) \in Nat /\ It(i) \in Nat /\ Nth(i) \in Nat
    BY <2>1, <2>3, RelocksPlaces, Places
  <2>6. /\ jobs = {i \in Ids : Pos(i) < pos - 1} /\ jobs0 = {i \in Ids : Pos(i) = pos - 1}
        /\ loop.job_list = {i \in Ids : Pos(i) = pos /\ It(i) < loop.it}
        /\ loop.it_jobs
              = {i \in Ids : Pos(i) = pos /\ It(i) = loop.it /\ Nth(i) < loop.at - 1}
        /\ loop.jobs0
              = {i \in Ids : Pos(i) = pos /\ It(i) = loop.it /\ Nth(i) = loop.at - 1}
        /\ loop.jobs1
              = {i \in Ids : Pos(i) = pos /\ It(i) = loop.it /\ Nth(i) = loop.at}
        /\ \A i \in Ids : /\ Pos(i) >= 1 /\ Nth(i) >= 1
                          /\ \/ Pos(i) < pos
                             \/ Pos(i) = pos /\ It(i) < loop.it
                             \/ Pos(i) = pos /\ It(i) = loop.it /\ Nth(i) <= loop.at
    BY <2>2, <2>3 DEF Listed, Active, InLoop, Placed
  <2>7. /\ loop.it \in Nat /\ loop.at \in Nat /\ body # << >> /\ loop.at \in 1 .. Len(body)
        /\ Len(body) \in Nat
    <3>1. pc \in InLoop /\ body # << >>
      BY <2>2, <2>3 DEF PhaseOK, InLoop
    <3>. QED  BY <2>3, <3>1, LoopFields, StepsHere
  <2>8. loop \in LoopType(Ids)
    BY <2>3, LoopGrows
  <2>9. /\ loop'.it = loop.it
        /\ loop'.job_list = loop.job_list /\ loop'.last_job = loop.last_job
        /\ loop.at < Len(body) =>
              /\ loop'.at = loop.at + 1 /\ loop'.jobs0 = loop.jobs1
              /\ loop'.it_jobs = loop.it_jobs \cup loop.jobs0
        /\ ~ (loop.at < Len(body)) =>
              /\ loop'.at = loop.at
              /\ loop'.it_jobs = (loop.it_jobs \cup loop.jobs0) \cup loop.jobs1
    BY <2>2, <2>8 DEF LoopType
  <2>10. TypeOK'
    <3>1. jobs' \subseteq Ids' /\ jobs0' \subseteq Ids' /\ jobs1' \subseteq Ids'
      BY <2>2, <2>3, <2>5 DEF TypeOK
    <3>2. loop' \in LoopType(Ids')
      <4>1. CASE loop.at < Len(body)
        <5>1. /\ loop.at + 1 \in Nat \ {0} /\ loop.it_jobs \cup loop.jobs0 \in SUBSET Ids
              /\ loop.jobs1 \in SUBSET Ids
          BY <2>1, <2>7, <2>8 DEF LoopType
        <5>. QED  BY <2>2, <2>5, <2>8, <4>1, <5>1 DEF LoopType
      <4>2. CASE ~ (loop.at < Len(body))
        <5>1. (loop.it_jobs \cup loop.jobs0) \cup loop.jobs1 \in SUBSET Ids
          BY <2>1, <2>8 DEF LoopType
        <5>. QED  BY <2>2, <2>5, <2>8, <4>2, <5>1 DEF LoopType
      <4>. QED  BY <4>1, <4>2
    <3>3. /\ steps' \in Seq(BaseStep \cup Iterate) /\ current_id' \in Nat
          /\ job' \in [Ids' -> SchedulerJob]
      BY <2>1, <2>3, RelocksType
    <3>4. pos' \in Nat \ {0} /\ iteration' \in Nat /\ pc' \in {"it_expand", "it_end"}
      BY <2>2, <2>3 DEF TypeOK
    <3>. QED  BY <3>1, <3>2, <3>3, <3>4 DEF TypeOK, LoopType
  <2>11. PhaseOK'
    <3>1. body' = body
      BY <2>2 DEF body
    <3>2. loop'.it < steps'[pos'].iterations /\ iteration' = loop'.it
          /\ pos' <= Len(steps') /\ steps'[pos'].kind = "Iterate"
      BY <2>2, <2>3, <2>9 DEF PhaseOK, InLoop
    <3>3. loop'.at <= Len(body) /\ (pc' = "it_end" => loop'.at = Len(body))
      BY <2>2, <2>7, <2>9
    <3>. QED  BY <2>2, <2>7, <3>1, <3>2, <3>3 DEF PhaseOK, InLoop
  <2>12. Placed'
    <3>1. \A i \in Ids' : /\ Pos(i)' >= 1 /\ Nth(i)' >= 1
                          /\ \/ Pos(i)' < pos'
                             \/ Pos(i)' = pos' /\ It(i)' < loop'.it
                             \/ /\ Pos(i)' = pos' /\ It(i)' = loop'.it
                                /\ Nth(i)' <= loop.at
      BY <2>2, <2>5, <2>6, <2>9
    <3>2. pc' = "it_expand" => \A i \in Ids' : Nth(i)' <= loop.at => Nth(i)' < loop'.at
      BY <2>2, <2>5, <2>7, <2>9
    <3>3. pc' # "it_expand" => loop'.at = loop.at
      BY <2>2, <2>9
    <3>4. pc' \in {"it_expand", "it_end"}
      BY <2>2
    <3>. QED  BY <3>1, <3>2, <3>3, <3>4 DEF Placed, InLoop
  <2>13. Listed'
    <3>1. /\ jobs' = {i \in Ids' : Pos(i)' < pos' - 1}
          /\ jobs0' = {i \in Ids' : Pos(i)' = pos' - 1}
          /\ loop'.job_list = {i \in Ids' : Pos(i)' = pos' /\ It(i)' < loop'.it}
      BY <2>2, <2>5, <2>6, <2>9
    <3>2. CASE loop.at < Len(body)
      <4>1. loop'.jobs0
                = {i \in Ids' : Pos(i)' = pos' /\ It(i)' = loop'.it /\ Nth(i)' = loop'.at - 1}
        BY <2>2, <2>5, <2>6, <2>7, <2>9, <3>2
      <4>2. loop'.it_jobs
                = {i \in Ids' : Pos(i)' = pos' /\ It(i)' = loop'.it /\ Nth(i)' < loop'.at - 1}
        <5>1. \A i : i \in loop'.it_jobs <=> i \in Ids /\ Pos(i) = pos /\ It(i) = loop.it
                                             /\ Nth(i) < loop.at
          BY <2>5, <2>6, <2>7, <2>9, <3>2
        <5>2. loop'.at - 1 = loop.at
          BY <2>7, <2>9, <3>2
        <5>. QED  BY <2>2, <2>5, <2>9, <5>1, <5>2
      <4>. QED  BY <2>2, <3>1, <3>2, <4>1, <4>2 DEF Listed
    <3>3. CASE ~ (loop.at < Len(body))
      <4>1. loop'.it_jobs = {i \in Ids' : Pos(i)' = pos' /\ It(i)' = loop'.it}
        <5>1. \A i : i \in loop'.it_jobs <=> i \in Ids /\ Pos(i) = pos /\ It(i) = loop.it
          BY <2>5, <2>6, <2>7, <2>9, <3>3
        <5>. QED  BY <2>2, <2>5, <2>9, <5>1
      <4>. QED  BY <2>2, <3>1, <3>3, <4>1 DEF Listed
    <3>. QED  BY <3>2, <3>3
  <2>14. Gate'
    BY <2>2, <2>3, <2>9 DEF Gate, InLoop
  <2>. QED  BY <2>4, <2>10, <2>11, <2>12, <2>13, <2>14 DEF PlanInv
<1>. QED  BY <1>1, <1>2

\* last_job = job_list[-1]
LEMMA LastOfList ==
    ASSUME current_id \in Nat, NEW S \in SUBSET Ids, S # {}
    PROVE  LET last == CHOOSE i \in S : \A n \in S : n <= i
           IN  last \in S /\ \A n \in S : n <= last
<1>1. S \in SUBSET Nat /\ \A n \in S : n <= current_id
  BY DEF Ids
<1>2. \E m \in S : \A n \in S : n <= m
  BY <1>1, GreatestNatural
<1>. QED  BY <1>2

\* The end of an iteration, and of the loop, keeps the invariant of the lists.
LEMMA LoopEndKeeps ==
    ASSUME PlanInv, LoopEnd
    PROVE  PlanInv'
<1>1. CASE JobList = {}
  <2>1. Raise("IndexError")
    BY <1>1 DEF LoopEnd
  <2>. QED  BY <2>1, RaiseKeeps
<1>2. CASE JobList # {}
  <2> DEFINE A == {i \in Ids : i = loop.last_job}
             last == CHOOSE i \in JobList : \A n \in JobList : n <= i
             more == loop.it + 1 < steps[pos].iterations
  <2>1. /\ Relocks(A, loop.it_jobs)
        /\ A \in SUBSET Ids /\ loop.it_jobs \in SUBSET Ids
        /\ \A a \in A, t \in loop.it_jobs : a < t
    BY <1>2, LoopEndRelocks
  <2>2. /\ pc = "it_end" /\ steps' = steps /\ pos' = pos
        /\ jobs' = jobs /\ jobs0' = jobs0
        /\ more => /\ iteration' = loop.it + 1 /\ pc' = "it_expand" /\ jobs1' = jobs1
                   /\ loop' = [EmptyLoop EXCEPT !.it = loop.it + 1,
                                                !.job_list = JobList, !.last_job = last]
        /\ ~ more => /\ jobs1' = JobList /\ loop' = EmptyLoop /\ pc' = "bind"
                     /\ iteration' = iteration
    BY <1>2 DEF LoopEnd
  <2>3. /\ TypeOK /\ Placed /\ Listed /\ HeapOK /\ PhaseOK /\ pc \in Active /\ pc \in InLoop
        /\ pos \in Nat \ {0} /\ job \in [Ids -> SchedulerJob] /\ current_id \in Nat
    BY <2>2 DEF PlanInv, HeapOK, TypeOK, Active, InLoop
  <2>4. JobList \in SUBSET Ids
    BY <2>3, LoopFields DEF JobList
  <2>5. last \in JobList /\ \A n \in JobList : n <= last
    BY <1>2, <2>3, <2>4, LastOfList
  <2> HIDE DEF A, last, more
  <2>6. Grown' /\ LocksForward' /\ Chained'
    BY <2>1, <2>3, RelocksKeeps
  <2>7. /\ Ids' = Ids /\ current_id' = current_id
        /\ \A i \in Ids : /\ Pos(i)' = Pos(i) /\ It(i)' = It(i) /\ Nth(i)' = Nth(i)
                          /\ Pos(i) \in Nat /\ It(i) \in Nat /\ Nth(i) \in Nat
    BY <2>1, <2>3, RelocksPlaces, Places
  <2>8. /\ jobs = {i \in Ids : Pos(i) < pos - 1} /\ jobs0 = {i \in Ids : Pos(i) = pos - 1}
        /\ loop.job_list = {i \in Ids : Pos(i) = pos /\ It(i) < loop.it}
        /\ loop.it_jobs = {i \in Ids : Pos(i) = pos /\ It(i) = loop.it}
        /\ \A i \in Ids : /\ Pos(i) >= 1 /\ Nth(i) >= 1
                          /\ \/ Pos(i) < pos
                             \/ Pos(i) = pos /\ It(i) < loop.it
                             \/ Pos(i) = pos /\ It(i) = loop.it
    BY <2>2, <2>3 DEF Listed, Active, InLoop, Placed
  <2>9. /\ loop.it \in Nat /\ pos <= Len(steps) /\ steps[pos].kind = "Iterate"
        /\ body # << >> /\ Len(body) \in Nat /\ steps[pos].iterations \in Nat
        /\ body \in Seq(BaseStep)
    BY <2>2, <2>3, LoopFields, StepsHere DEF PhaseOK
  <2>10. \A i : i \in JobList <=> i \in Ids /\ Pos(i) = pos
    BY <2>7, <2>8, <2>9 DEF JobList
  <2>11. /\ EmptyLoop.it = 0 /\ EmptyLoop.at = 1 /\ EmptyLoop.jobs0 = {}
         /\ EmptyLoop.it_jobs = {} /\ EmptyLoop.job_list = {} /\ EmptyLoop.last_job = NoJob
    BY DEF EmptyLoop
  <2>12. more => /\ loop'.it = loop.it + 1 /\ loop'.at = 1 /\ loop'.jobs0 = {}
                 /\ loop'.it_jobs = {} /\ loop'.job_list = JobList
                 /\ loop'.last_job = last
    BY <2>2 DEF EmptyLoop
  <2>13. TypeOK'
    <3>1. jobs' \subseteq Ids' /\ jobs0' \subseteq Ids' /\ jobs1' \subseteq Ids'
      BY <2>2, <2>3, <2>4, <2>7 DEF TypeOK
    <3>2. loop' \in LoopType(Ids')
      <4>1. CASE more
        <5>1. loop.it + 1 \in Nat /\ JobList \in SUBSET Ids /\ last \in Ids
          BY <2>4, <2>5, <2>9
        <5>2. EmptyLoop \in LoopType(Ids)
          BY LoopStarts
        <5>. QED  BY <2>2, <2>7, <4>1, <5>1, <5>2 DEF LoopType
      <4>2. CASE ~ more
        BY <2>2, <4>2, LoopStarts
      <4>. QED  BY <4>1, <4>2
    <3>3. /\ steps' \in Seq(BaseStep \cup Iterate) /\ current_id' \in Nat
          /\ job' \in [Ids' -> SchedulerJob]
      BY <2>1, <2>3, RelocksType
    <3>4. /\ pos' \in Nat \ {0} /\ iteration' \in Nat /\ pc' \in {"it_expand", "bind"}
          /\ pos' <= Len(steps')
      BY <2>2, <2>3, <2>9 DEF TypeOK
    <3>. QED  BY <3>1, <3>2, <3>3, <3>4 DEF TypeOK, LoopType
  <2>14. PhaseOK'
    <3>1. body' = body
      BY <2>2 DEF body
    <3>2. 1 <= Len(body)
      BY <2>9
    <3>3. more => loop.it + 1 < steps[pos].iterations
      BY DEF more
    <3>. QED  BY <2>2, <2>9, <2>12, <3>1, <3>2, <3>3 DEF PhaseOK, InLoop
  <2>15. Placed'
    <3>1. more => \A i \in Ids' : /\ Pos(i)' >= 1 /\ Nth(i)' >= 1
                                  /\ \/ Pos(i)' < pos'
                                     \/ Pos(i)' = pos' /\ It(i)' < loop'.it
      BY <2>2, <2>7, <2>8, <2>9, <2>12
    <3>2. \A i \in Ids' : Pos(i)' >= 1 /\ Nth(i)' >= 1 /\ Pos(i)' <= pos'
      BY <2>2, <2>3, <2>7, <2>8
    <3>. QED  BY <2>2, <3>1, <3>2 DEF Placed, InLoop
  <2>16. Listed'
    <3>1. /\ jobs' = {i \in Ids' : Pos(i)' < pos' - 1}
          /\ jobs0' = {i \in Ids' : Pos(i)' = pos' - 1}
      BY <2>2, <2>7, <2>8
    <3>2. CASE more
      <4>1. \A i \in Ids' : Nth(i)' >= 1 /\ (Pos(i)' = pos' => It(i)' < loop'.it)
                            /\ It(i)' \in Nat /\ Nth(i)' \in Nat
        BY <2>2, <2>7, <2>8, <2>9, <2>12, <3>2
      <4>2. loop'.it_jobs
               = {i \in Ids' : Pos(i)' = pos' /\ It(i)' = loop'.it /\ Nth(i)' < loop'.at - 1}
        BY <2>9, <2>12, <3>2, <4>1
      <4>3. loop'.jobs0
               = {i \in Ids' : Pos(i)' = pos' /\ It(i)' = loop'.it /\ Nth(i)' = loop'.at - 1}
        BY <2>9, <2>12, <3>2, <4>1
      <4>4. loop'.job_list = {i \in Ids' : Pos(i)' = pos' /\ It(i)' < loop'.it}
        BY <2>2, <2>7, <2>10, <2>12, <3>2, <4>1
      <4>. QED  BY <2>2, <3>1, <3>2, <4>2, <4>3, <4>4 DEF Listed, InLoop
    <3>3. CASE ~ more
      <4>1. jobs1' = {i \in Ids' : Pos(i)' = pos'}
        BY <2>2, <2>7, <2>10, <3>3
      <4>. QED  BY <2>2, <3>1, <3>3, <4>1 DEF Listed, InLoop
    <3>. QED  BY <3>2, <3>3
  <2>17. Gate'
    <3>1. more => loop'.it # 0 /\ loop'.last_job \in loop'.job_list
                  /\ \A i \in loop'.job_list : i <= loop'.last_job
      BY <2>5, <2>9, <2>12
    <3>. QED  BY <2>2, <3>1 DEF Gate, InLoop
  <2>. QED  BY <2>6, <2>13, <2>14, <2>15, <2>16, <2>17 DEF PlanInv
<1>. QED  BY <1>1, <1>2

\* The invariant of the lists holds when Artifact.jobs() is called.
LEMMA InitPlan == Init => PlanInv
<1> SUFFICES ASSUME Init PROVE PlanInv
  OBVIOUS
<1>1. /\ steps \in Seq(BaseStep \cup Iterate) /\ pos = 1 /\ current_id = 0 /\ iteration = 0
      /\ pc = IF Len(steps) < 1 THEN "planned" ELSE "expand"
      /\ jobs = {} /\ jobs0 = {} /\ jobs1 = {} /\ loop = EmptyLoop
      /\ Len(steps) \in Nat
  BY ArtifactsAssumption DEF Init
<1>2. Ids = {}
  BY <1>1 DEF Ids
<1>3. job \in [Ids -> SchedulerJob] /\ DOMAIN job = {}
  BY <1>2 DEF Init
<1>4. loop \in LoopType(Ids)
  BY <1>1, LoopStarts
<1>5. TypeOK
  BY <1>1, <1>2, <1>3, <1>4 DEF TypeOK, LoopType, Outcomes
<1>6. PhaseOK /\ Gate
  BY <1>1 DEF PhaseOK, Gate, InLoop
<1>7. Placed /\ Listed
  BY <1>1, <1>2 DEF Placed, Listed, InLoop, Active
<1>8. Grown /\ LocksForward /\ Chained
  BY <1>2, <1>3 DEF Grown, LocksForward, Chained
<1>. QED  BY <1>5, <1>6, <1>7, <1>8 DEF PlanInv

\* It depends on the variables of the plan only.
LEMMA SamePlan == PlanInv /\ UNCHANGED vars => PlanInv'
<1> SUFFICES ASSUME PlanInv, UNCHANGED vars PROVE PlanInv'
  OBVIOUS
<1>1. /\ UNCHANGED <<steps, pos, pc, job, current_id, iteration, jobs, jobs0, jobs1, loop>>
      /\ Ids' = Ids /\ body' = body
  BY DEF vars, Ids, body
<1>2. TypeOK' /\ PhaseOK' /\ Listed' /\ Gate'
  BY <1>1 DEF PlanInv, TypeOK, PhaseOK, Listed, Gate, Pos, It, Nth
<1>3. Placed'
  BY <1>1 DEF PlanInv, Placed, Pos, It, Nth
<1>4. Grown' /\ LocksForward' /\ Chained'
  BY <1>1, SameKeeps DEF PlanInv, HeapOK
<1>. QED  BY <1>2, <1>3, <1>4 DEF PlanInv

\* Every step of the binding procedure keeps the invariant of the lists.
LEMMA PlanningKeeps == PlanInv /\ Planning => PlanInv'
BY ExpandKeeps, BindKeeps, EnterLoopKeeps, LoopExpandKeeps, LoopBindKeeps, LoopEndKeeps
   DEF Planning

\* And so does every step of the composed system.
LEMMA ExecKeepsPlan == PlanInv /\ [ExecNext]_allvars => PlanInv'
<1>1. PlanInv /\ Preparing => PlanInv'
  BY PlanningKeeps DEF Preparing
<1>2. PlanInv /\ Executing => PlanInv'
  BY SamePlan DEF Executing
<1>3. PlanInv /\ UNCHANGED allvars => PlanInv'
  BY SamePlan DEF allvars
<1>. QED  BY <1>1, <1>2, <1>3 DEF ExecNext

\* The inductive invariant of the binding procedure: where it is in the steps, what its
\* lists hold, and that ids grow with the places of the jobs.
THEOREM PlanCorrect == ExecSpec => []PlanInv
<1>1. ExecInit => PlanInv
  BY InitPlan DEF ExecInit
<1>2. PlanInv /\ [ExecNext]_allvars => PlanInv'
  BY ExecKeepsPlan
<1>. QED  BY <1>1, <1>2, PTL DEF ExecSpec

\* The binding procedure keeps its variables in their types, for any number of workers
\* and any artifact: the ids of the jobs are those that get_id() handed out.
THEOREM Typed == ExecSpec => []TypeOK
<1>1. PlanInv => TypeOK
  BY DEF PlanInv
<1>. QED  BY <1>1, PlanCorrect, PTL

\* A job locks only jobs that were created after it: the graph of locks has no cycle.
THEOREM Acyclic == ExecSpec => []LocksForward
<1>1. PlanInv => LocksForward
  BY DEF PlanInv
<1>. QED  BY <1>1, PlanCorrect, PTL

\* Artifact.jobs returns all the jobs that the steps created.
THEOREM ListComplete == ExecSpec => []NothingLost
<1>1. PlanInv => NothingLost
  <2>1. PlanInv => DOMAIN job = Ids
    BY DEF PlanInv, TypeOK
  <2>. QED  BY <2>1 DEF PlanInv, Listed, NothingLost
<1>. QED  BY <1>1, PlanCorrect, PTL

-----------------------------------------------------------------------------
(* The sizes of the lists. *)

\* A list of jobs is finite.
LEMMA FiniteIds ==
    ASSUME current_id \in Nat, NEW S, S \subseteq Ids
    PROVE  IsFiniteSet(S) /\ Cardinality(S) \in Nat
<1>1. IsFiniteSet(Ids)
  BY FS_Interval DEF Ids
<1>. QED  BY <1>1, FS_Subset, FS_CardinalityType

\* The sizes of two lists without a common job add up.
LEMMA Disjoint ==
    ASSUME NEW S, NEW T, IsFiniteSet(S), IsFiniteSet(T), \A x \in S : x \notin T
    PROVE  Cardinality(S \cup T) = Cardinality(S) + Cardinality(T)
<1>1. S \cap T = {}
  OBVIOUS
<1>2. Cardinality(S \cap T) = 0
  BY <1>1, FS_EmptySet
<1>3. Cardinality(S) \in Nat /\ Cardinality(T) \in Nat
  BY FS_CardinalityType
<1>4. Cardinality(S \cup T) = Cardinality(S) + (Cardinality(T) - Cardinality(S \cap T))
  BY <1>2, <1>3, FS_Union
<1>. QED  BY <1>2, <1>3, <1>4

\* The size of a loop body, added up step by step.
LEMMA SizesSum ==
    ASSUME NEW step, step.steps \in Seq(BaseStep)
    PROVE  /\ BodySize(step) \in Nat
           /\ Total(Sizes(step.steps), 1 .. 0) = 0
           /\ \A k \in 1 .. Len(step.steps) :
                 Total(Sizes(step.steps), 1 .. k)
                    = Total(Sizes(step.steps), 1 .. (k - 1)) + Count(step.steps[k])
           /\ (\E k \in DOMAIN step.steps : Count(step.steps[k]) > 0) <=> BodySize(step) > 0
<1> DEFINE chain == step.steps
           f == Sizes(chain)
           n == Len(chain)
<1>1. n \in Nat /\ DOMAIN chain = 1 .. n
  OBVIOUS
<1>2. \A i \in 1 .. n : f[i] = Count(chain[i]) /\ f[i] \in Nat
  BY <1>1, CountNat DEF Sizes
<1> HIDE DEF f, n
<1>3. IsFiniteSet(1 .. n)
  BY <1>1, FS_Interval
<1>4. Total(f, 1 .. n) \in Nat /\ \A i \in 1 .. n : f[i] <= Total(f, 1 .. n)
  <2> DEFINE S == 1 .. n
  <2>1. IsFiniteSet(S) /\ \A i \in S : f[i] \in Nat
    BY <1>2, <1>3
  <2> HIDE DEF S
  <2>2. Total(f, S) \in Nat /\ \A i \in S : f[i] <= Total(f, S)
    BY <2>1, TotalNatural
  <2>. QED  BY <2>2 DEF S
<1>5. Total(f, 1 .. 0) = 0
  <2>1. 1 .. 0 = {}
    OBVIOUS
  <2>. QED  BY <2>1, TotalEmpty
<1>6. ASSUME NEW k \in 1 .. n
      PROVE  Total(f, 1 .. k) = Total(f, 1 .. (k - 1)) + Count(chain[k])
  <2>1. k \in Nat \ {0} /\ \A x \in 1 .. k : f[x] \in Int
    BY <1>1, <1>2
  <2>2. Total(f, 1 .. k) = Total(f, 1 .. (k - 1)) + f[k]
    BY <2>1, TotalUpTo
  <2>. QED  BY <1>2, <2>2
<1>7. (\A k \in 1 .. n : ~ (Count(chain[k]) > 0)) => Total(f, 1 .. n) = 0
  <2> DEFINE S == 1 .. n
  <2>1. SUFFICES ASSUME \A k \in S : ~ (Count(chain[k]) > 0) PROVE Total(f, S) = 0
    OBVIOUS
  <2>2. IsFiniteSet(S) /\ \A i \in S : f[i] = 0
    BY <1>2, <1>3, <2>1
  <2> HIDE DEF S
  <2>. QED  BY <2>2, TotalZero
<1>8. BodySize(step) = Total(f, 1 .. n)
  BY DEF BodySize, f, n
<1>9. (\E k \in 1 .. n : Count(chain[k]) > 0) <=> Total(f, 1 .. n) > 0
  BY <1>2, <1>4, <1>7
<1>. QED  BY <1>1, <1>4, <1>5, <1>6, <1>8, <1>9 DEF f, n

SizedPlan == PlanInv /\ Sized

\* An exception ends the lists.
LEMMA RaiseSized ==
    ASSUME NEW error \in {"ValueError", "TypeError", "IndexError"}, Raise(error)
    PROVE  Sized'
BY DEF Raise, Sized, Active, InLoop

\* Step.jobs() returns as many jobs as the step counts.
LEMMA ExpandSized ==
    ASSUME SizedPlan, Expand
    PROVE  Sized'
<1>1. CASE HasNoFirstWorker(steps[pos])
  BY <1>1, RaiseSized DEF Expand
<1>2. CASE ~ HasNoFirstWorker(steps[pos])
  <2>1. /\ pc = "expand" /\ pc' = "bind" /\ jobs1' = NewIds(steps[pos])
        /\ steps' = steps /\ pos' = pos /\ jobs0' = jobs0 /\ steps[pos].kind # "Iterate"
    BY <1>2 DEF Expand
  <2>2. Cardinality(jobs1') = SizeOf(steps[pos])
    <3>1. current_id \in Nat
      BY DEF SizedPlan, PlanInv, TypeOK
    <3>. QED  BY <2>1, <3>1, NewIdsFacts DEF SizeOf
  <2>. QED  BY <2>1, <2>2 DEF SizedPlan, Sized, Active, InLoop
<1>. QED  BY <1>1, <1>2

\* bind() passes jobs1 on as the next jobs0.
LEMMA BindSized ==
    ASSUME SizedPlan, Bind
    PROVE  Sized'
<1>1. CASE BindOutcome # "ok"
  <2>1. Raise(BindOutcome)
    BY <1>1 DEF Bind, BindOutcome
  <2>2. BindOutcome \in {"ValueError", "TypeError", "IndexError"}
    BY <1>1, BindErrors DEF BindOutcome
  <2>. QED  BY <2>1, <2>2, RaiseSized
<1>2. CASE BindOutcome = "ok"
  <2>1. /\ pc = "bind" /\ jobs0' = jobs1 /\ steps' = steps /\ pos \in Nat
        /\ \/ pos' = pos + 1 /\ pc' = "expand"
           \/ pos' = pos /\ pc' = "planned"
    BY <1>2 DEF Bind, BindOutcome, SizedPlan, PlanInv, TypeOK
  <2>2. Cardinality(jobs1) = SizeOf(steps[pos])
    BY <2>1 DEF SizedPlan, Sized
  <2>3. pos' = pos + 1 => pos' - 1 = pos
    BY <2>1
  <2>. QED  BY <2>1, <2>2, <2>3 DEF Sized, Active, InLoop
<1>. QED  BY <1>1, <1>2

\* A loop starts with empty lists.
LEMMA EnterLoopSized ==
    ASSUME SizedPlan, EnterLoop
    PROVE  Sized'
<1>1. /\ pc = "expand" /\ steps[pos].kind = "Iterate" /\ loop' = EmptyLoop
      /\ steps' = steps /\ pos' = pos /\ jobs0' = jobs0 /\ body' = body
      /\ \/ steps[pos].iterations = 0 /\ pc' = "bind" /\ jobs1' = {}
         \/ pc' = "it_expand"
  BY DEF EnterLoop, body
<1>2. pos > 1 => Cardinality(jobs0) = SizeOf(steps[pos - 1])
  BY <1>1 DEF SizedPlan, Sized, Active
<1>3. BodySize(steps[pos]) \in Nat /\ Total(Sizes(body), 1 .. 0) = 0
  <2>1. /\ steps \in Seq(BaseStep \cup Iterate) /\ pos \in 1 .. Len(steps)
    BY <1>1, StepsHere DEF SizedPlan, PlanInv, Active, TypeOK
  <2>. QED  BY <1>1, <2>1, StepKinds, SizesSum DEF body
<1>4. /\ EmptyLoop.it = 0 /\ EmptyLoop.at = 1 /\ EmptyLoop.jobs0 = {}
      /\ EmptyLoop.it_jobs = {} /\ EmptyLoop.job_list = {}
  BY DEF EmptyLoop
<1>5. Cardinality({}) = 0 /\ {} \cup {} = {} /\ 1 - 1 = 0 /\ ~ (1 > 1)
      /\ 0 * BodySize(steps[pos]) = 0
  BY <1>3, FS_EmptySet
<1>6. CASE pc' = "bind"
  <2>1. SizeOf(steps[pos]) = 0 /\ jobs1' = {}
    BY <1>1, <1>5, <1>6 DEF SizeOf
  <2>. QED  BY <1>1, <1>2, <1>5, <1>6, <2>1 DEF Sized, InLoop
<1>7. CASE pc' = "it_expand"
  <2>1. /\ loop'.it = 0 /\ loop'.at = 1 /\ loop'.jobs0 = {} /\ loop'.it_jobs = {}
        /\ loop'.job_list = {} /\ loop'.at - 1 = 0
    BY <1>1, <1>4
  <2>2. loop'.it_jobs \cup loop'.jobs0 = {}
    BY <2>1
  <2>. QED  BY <1>1, <1>2, <1>3, <1>5, <1>7, <2>1, <2>2 DEF Sized
<1>. QED  BY <1>1, <1>6, <1>7

\* Step.jobs() in a body returns as many jobs as the step counts.
LEMMA LoopExpandSized ==
    ASSUME SizedPlan, LoopExpand
    PROVE  Sized'
<1>1. CASE body = << >> \/ HasNoFirstWorker(body[loop.at])
  BY <1>1, RaiseSized DEF LoopExpand
<1>2. CASE ~ (body = << >> \/ HasNoFirstWorker(body[loop.at]))
  <2> DEFINE new == NewIds(body[loop.at])
  <2>1. /\ pc = "it_expand" /\ pc' = "it_bind" /\ loop' = [loop EXCEPT !.jobs1 = new]
        /\ steps' = steps /\ pos' = pos /\ jobs0' = jobs0 /\ body' = body
    BY <1>2 DEF LoopExpand, body
  <2>2. Cardinality(new) = Count(body[loop.at])
    <3>1. current_id \in Nat
      BY DEF SizedPlan, PlanInv, TypeOK
    <3>. QED  BY <2>1, <3>1, NewIdsFacts
  <2> HIDE DEF new
  <2>3. /\ loop'.it = loop.it /\ loop'.at = loop.at /\ loop'.jobs0 = loop.jobs0
        /\ loop'.jobs1 = new /\ loop'.it_jobs = loop.it_jobs
        /\ loop'.job_list = loop.job_list
    <3>1. loop \in LoopType(Ids)
      BY LoopGrows DEF SizedPlan, PlanInv
    <3>. QED  BY <2>1, <3>1 DEF LoopType
  <2>. QED  BY <2>1, <2>2, <2>3 DEF SizedPlan, Sized, Active, InLoop
<1>. QED  BY <1>1, <1>2

\* bind() in a body appends jobs0 to the jobs of the iteration.
LEMMA LoopBindSized ==
    ASSUME SizedPlan, LoopBind
    PROVE  Sized'
<1>1. CASE LoopBindOutcome # "ok"
  <2>1. Raise(LoopBindOutcome)
    BY <1>1 DEF LoopBind, LoopBindOutcome
  <2>2. LoopBindOutcome \in {"ValueError", "TypeError", "IndexError"}
    BY <1>1, BindErrors DEF LoopBindOutcome
  <2>. QED  BY <2>1, <2>2, RaiseSized
<1>2. CASE LoopBindOutcome = "ok"
  <2> DEFINE before == loop.it_jobs \cup loop.jobs0
             all == before \cup loop.jobs1
  <2>1. /\ pc = "it_bind" /\ steps' = steps /\ pos' = pos /\ jobs0' = jobs0 /\ body' = body
        /\ loop.at < Len(body) =>
              /\ pc' = "it_expand"
              /\ loop' = [loop EXCEPT !.at = @ + 1,
                                      !.it_jobs = @ \cup loop.jobs0,
                                      !.jobs0 = loop.jobs1]
        /\ ~ (loop.at < Len(body)) =>
              /\ pc' = "it_end"
              /\ loop' = [loop EXCEPT !.it_jobs = @ \cup loop.jobs0 \cup loop.jobs1]
    BY <1>2 DEF LoopBind, LoopBindOutcome, body
  <2>2. TypeOK /\ PhaseOK /\ Listed /\ pc \in Active /\ pc \in InLoop /\ Sized
        /\ current_id \in Nat /\ job \in [Ids -> SchedulerJob]
    BY <2>1 DEF SizedPlan, PlanInv, TypeOK, Active, InLoop
  <2>3. /\ body # << >> /\ loop.at \in 1 .. Len(body) /\ body \in Seq(BaseStep)
        /\ Len(body) \in Nat
    <3>1. body # << >>
      BY <2>1, <2>2 DEF PhaseOK
    <3>. QED  BY <2>2, <3>1, StepsHere
  <2>4. /\ Cardinality(before) = Total(Sizes(body), 1 .. (loop.at - 1))
        /\ Cardinality(loop.jobs1) = Count(body[loop.at])
        /\ Cardinality(loop.job_list) = loop.it * BodySize(steps[pos])
        /\ pos > 1 => Cardinality(jobs0) = SizeOf(steps[pos - 1])
    BY <2>1, <2>2 DEF Sized
  <2>5. /\ IsFiniteSet(before) /\ IsFiniteSet(loop.jobs1)
        /\ \A x \in before : x \notin loop.jobs1
    <3>1. before \subseteq Ids /\ loop.jobs1 \subseteq Ids
      BY <2>2, LoopFields
    <3>2. /\ \A x \in loop.it_jobs : Nth(x) < loop.at - 1
          /\ \A x \in loop.jobs0 : Nth(x) = loop.at - 1
          /\ \A x \in loop.jobs1 : Nth(x) = loop.at
      BY <2>1, <2>2 DEF Listed
    <3>3. \A x \in Ids : Nth(x) \in Nat
      BY <2>2, Places
    <3>4. \A x \in before : x \notin loop.jobs1
      BY <2>3, <3>1, <3>2, <3>3
    <3>. QED  BY <2>2, <3>1, <3>4, FiniteIds
  <2>6. Cardinality(all) = Total(Sizes(body), 1 .. loop.at)
    <3>1. Cardinality(all) = Cardinality(before) + Cardinality(loop.jobs1)
      <4> HIDE DEF before
      <4>. QED  BY <2>5, Disjoint
    <3>2. Total(Sizes(body), 1 .. loop.at)
              = Total(Sizes(body), 1 .. (loop.at - 1)) + Count(body[loop.at])
      BY <2>3, SizesSum DEF body
    <3>. QED  BY <2>4, <3>1, <3>2
  <2>7. /\ loop'.it = loop.it /\ loop'.job_list = loop.job_list
        /\ loop.at < Len(body) =>
              /\ loop'.at = loop.at + 1 /\ loop'.jobs0 = loop.jobs1
              /\ loop'.it_jobs = before
        /\ ~ (loop.at < Len(body)) => loop'.at = loop.at /\ loop'.it_jobs = all
    <3>1. loop \in LoopType(Ids)
      BY <2>2, LoopGrows
    <3>. QED  BY <2>1, <3>1 DEF LoopType
  <2> HIDE DEF before
  <2>8. CASE loop.at < Len(body)
    <3>1. loop'.at - 1 = loop.at /\ loop'.it_jobs \cup loop'.jobs0 = all
      BY <2>3, <2>7, <2>8
    <3>. QED  BY <2>1, <2>4, <2>6, <2>7, <2>8, <3>1 DEF Sized
  <2>9. CASE ~ (loop.at < Len(body))
    <3>1. loop.at = Len(body)
      BY <2>3, <2>9
    <3>2. BodySize(steps[pos]) = Total(Sizes(body), 1 .. loop.at)
      BY <3>1 DEF BodySize, body
    <3>. QED  BY <2>1, <2>4, <2>6, <2>7, <2>9, <3>2 DEF Sized
  <2>. QED  BY <2>8, <2>9
<1>. QED  BY <1>1, <1>2

\* The list of an Iterate after one more iteration.
LEMMA ListGrows ==
    ASSUME SizedPlan, pc = "it_end"
    PROVE  /\ BodySize(steps[pos]) \in Nat /\ loop.it \in Nat
           /\ Cardinality(loop.it_jobs) = BodySize(steps[pos])
           /\ Cardinality(JobList) = (loop.it + 1) * BodySize(steps[pos])
           /\ IsFiniteSet(JobList)
<1>1. TypeOK /\ PhaseOK /\ Listed /\ pc \in Active /\ pc \in InLoop /\ Sized
      /\ current_id \in Nat /\ job \in [Ids -> SchedulerJob] /\ loop.it \in Nat
      /\ loop.job_list \subseteq Ids /\ loop.it_jobs \subseteq Ids
  BY LoopFields DEF SizedPlan, PlanInv, TypeOK, Active, InLoop
<1>2. BodySize(steps[pos]) \in Nat
  BY <1>1, StepsHere, SizesSum DEF body
<1>3. /\ Cardinality(loop.it_jobs) = BodySize(steps[pos])
      /\ Cardinality(loop.job_list) = loop.it * BodySize(steps[pos])
  BY <1>1 DEF Sized
<1>4. /\ IsFiniteSet(loop.it_jobs) /\ IsFiniteSet(loop.job_list)
      /\ \A x \in loop.job_list : x \notin loop.it_jobs
  <2>1. /\ \A x \in loop.job_list : It(x) < loop.it
        /\ \A x \in loop.it_jobs : It(x) = loop.it
    BY <1>1 DEF Listed
  <2>2. \A x \in loop.job_list : x \notin loop.it_jobs
    BY <1>1, <2>1
  <2>. QED  BY <1>1, <2>2, FiniteIds
<1>5. Cardinality(JobList) = Cardinality(loop.job_list) + Cardinality(loop.it_jobs)
  BY <1>4, Disjoint DEF JobList
<1>6. \A n, m \in Nat : n * m + m = (n + 1) * m
  OBVIOUS
<1>7. IsFiniteSet(JobList)
  BY <1>4, FS_Union DEF JobList
<1>. QED  BY <1>1, <1>2, <1>3, <1>5, <1>6, <1>7

\* An iteration adds the size of the body to the list of the loop.
LEMMA LoopEndSized ==
    ASSUME SizedPlan, LoopEnd
    PROVE  Sized'
<1>1. CASE JobList = {}
  BY <1>1, RaiseSized DEF LoopEnd
<1>2. CASE JobList # {}
  <2> DEFINE more == loop.it + 1 < steps[pos].iterations
             last == CHOOSE i \in JobList : \A n \in JobList : n <= i
  <2>1. /\ pc = "it_end" /\ steps' = steps /\ pos' = pos /\ jobs0' = jobs0 /\ body' = body
        /\ more => /\ pc' = "it_expand"
                   /\ loop' = [EmptyLoop EXCEPT !.it = loop.it + 1,
                                                !.job_list = JobList, !.last_job = last]
        /\ ~ more => jobs1' = JobList /\ pc' = "bind"
    BY <1>2 DEF LoopEnd, body
  <2>2. /\ BodySize(steps[pos]) \in Nat /\ loop.it \in Nat
        /\ Cardinality(JobList) = (loop.it + 1) * BodySize(steps[pos])
    BY <2>1, ListGrows
  <2>3. /\ pos > 1 => Cardinality(jobs0) = SizeOf(steps[pos - 1])
        /\ steps[pos].kind = "Iterate" /\ steps[pos].iterations \in Nat
        /\ loop.it < steps[pos].iterations /\ body \in Seq(BaseStep)
    <3>1. TypeOK /\ PhaseOK /\ pc \in Active /\ pc \in InLoop /\ Sized
      BY <2>1 DEF SizedPlan, PlanInv, Active, InLoop
    <3>. QED  BY <3>1, StepsHere DEF Sized, PhaseOK
  <2>4. CASE more
    <3>1. /\ loop'.it = loop.it + 1 /\ loop'.at = 1 /\ loop'.jobs0 = {}
          /\ loop'.it_jobs = {} /\ loop'.job_list = JobList
      BY <2>1, <2>4 DEF EmptyLoop
    <3>2. loop'.it_jobs \cup loop'.jobs0 = {} /\ Cardinality({}) = 0
          /\ loop'.at - 1 = 0 /\ ~ (loop'.at > 1)
      BY <3>1, FS_EmptySet
    <3>3. Total(Sizes(body), 1 .. 0) = 0
      BY <2>3, SizesSum DEF body
    <3> HIDE DEF more
    <3>. QED  BY <2>1, <2>2, <2>3, <2>4, <3>1, <3>2, <3>3 DEF Sized
  <2>5. CASE ~ more
    <3>1. loop.it + 1 = steps[pos].iterations
      BY <2>2, <2>3, <2>5
    <3>2. SizeOf(steps[pos]) = (loop.it + 1) * BodySize(steps[pos])
      BY <2>3, <3>1 DEF SizeOf
    <3> HIDE DEF more
    <3>. QED  BY <2>1, <2>2, <2>3, <2>5, <3>2 DEF Sized, InLoop
  <2>. QED  BY <2>4, <2>5
<1>. QED  BY <1>1, <1>2

\* All the lists are empty at first.
LEMMA InitSized == Init => Sized
BY DEF Init, Sized, Active, InLoop

\* The sizes depend on the variables of the plan only.
LEMMA SameSized == Sized /\ UNCHANGED vars => Sized'
BY DEF Sized, vars, body

\* Every step of the binding procedure keeps the sizes.
LEMMA PlanningSized == SizedPlan /\ Planning => Sized'
BY ExpandSized, BindSized, EnterLoopSized, LoopExpandSized, LoopBindSized, LoopEndSized
   DEF Planning

-----------------------------------------------------------------------------
(* What has been checked of the steps. *)

Checked == SizedPlan /\ Passed

\* Two lists bind without an error exactly when the steps fit.
LEMMA BindFits ==
    ASSUME NEW step, NEW n0 \in Nat, NEW n1 \in Nat
    PROVE  BindError(step.dist, n0, n1) = "ok" <=> Fits(step, n0, n1)
BY DEF BindError, Fits

\* A step that was refused, or two that could not be bound.
Refused == \/ \E i \in 1 .. Len(steps) : ~ StepOK(steps[i])
           \/ \E i \in 1 .. Len(steps) - 1 : ~ LinkOK(i)

\* An exception is raised only when the steps do not fit.
LEMMA RaisePassed ==
    ASSUME Checked, pc \in Active, Refused,
           NEW error \in {"ValueError", "TypeError", "IndexError"}, Raise(error)
    PROVE  Passed'
<1>1. ~ AllOK /\ Len(steps) > 0
  <2>1. ~ AllOK
    BY DEF Refused, AllOK
  <2>2. Len(steps) > 0
    BY StepsHere DEF Checked, SizedPlan, PlanInv
  <2>. QED  BY <2>1, <2>2
<1>2. steps' = steps /\ pc' = error
  BY DEF Raise
<1>3. AllOK' <=> AllOK
  BY <1>2 DEF AllOK, LinkOK
<1>. QED  BY <1>1, <1>2, <1>3 DEF Passed, Active, InLoop

\* The checks of the steps before pos do not change while pos stays.
LEMMA PassedHere ==
    ASSUME Checked, pc \in Active
    PROVE  /\ \A i \in 1 .. pos - 1 : StepOK(steps[i])
           /\ \A i \in 1 .. pos - 2 : LinkOK(i)
BY DEF Checked, Passed

\* Step.jobs() fails exactly for a step that needs a worker where there is none.
LEMMA ExpandPassed ==
    ASSUME Checked, Expand
    PROVE  Passed'
<1>0. pc = "expand" /\ pc \in Active /\ pos \in 1 .. Len(steps)
  BY StepsHere DEF Expand, Active, Checked, SizedPlan, PlanInv
<1>1. CASE HasNoFirstWorker(steps[pos])
  <2>1. Refused
    BY <1>0, <1>1 DEF Refused, StepOK, Expand
  <2>2. Raise("IndexError")
    BY <1>1 DEF Expand
  <2>. QED  BY <1>0, <2>1, <2>2, RaisePassed
<1>2. CASE ~ HasNoFirstWorker(steps[pos])
  <2>1. /\ pc' = "bind" /\ steps' = steps /\ pos' = pos /\ steps[pos].kind # "Iterate"
    BY <1>2 DEF Expand
  <2>2. StepOK(steps[pos])
    BY <1>2, <2>1 DEF StepOK
  <2>. QED  BY <1>0, <2>1, <2>2, PassedHere DEF Passed, InLoop, LinkOK, Outcomes
<1>. QED  BY <1>1, <1>2

\* bind() fails exactly when the two steps do not fit.
LEMMA BindPassed ==
    ASSUME Checked, Bind
    PROVE  Passed'
<1>0. /\ pc = "bind" /\ pc \in Active /\ pos \in 1 .. Len(steps) /\ Len(steps) \in Nat
      /\ StepOK(steps[pos]) /\ pos \in Nat
  BY StepsHere DEF Bind, Active, Checked, SizedPlan, PlanInv, Passed
<1>1. pos > 1 =>
         /\ Cardinality(jobs0) = SizeOf(steps[pos - 1]) /\ Cardinality(jobs0) \in Nat
         /\ Cardinality(jobs1) = SizeOf(steps[pos]) /\ Cardinality(jobs1) \in Nat
         /\ steps[pos - 1].kind # "Iterate" => SizeOf(steps[pos - 1]) = Count(steps[pos - 1])
         /\ pos - 1 \in 1 .. Len(steps) - 1 /\ (pos - 1) + 1 = pos
  <2>1. Cardinality(jobs0) \in Nat /\ Cardinality(jobs1) \in Nat
    BY FiniteIds DEF Checked, SizedPlan, PlanInv, TypeOK
  <2>. QED  BY <1>0, <2>1 DEF Checked, SizedPlan, Sized, SizeOf
<1>2. BindOutcome = "ok" <=> (pos > 1 => LinkOK(pos - 1))
  <2>1. CASE pos = 1
    BY <2>1 DEF BindOutcome
  <2>2. CASE pos # 1 /\ steps[pos - 1].kind = "Iterate"
    BY <1>0, <2>2 DEF BindOutcome, LinkOK
  <2>3. CASE pos # 1 /\ steps[pos - 1].kind # "Iterate"
    <3> DEFINE step0 == steps[pos - 1]
               n0 == Cardinality(jobs0)
               n1 == Cardinality(jobs1)
    <3>1. pos > 1
      BY <1>0, <2>3
    <3>2. LinkOK(pos - 1) <=> Fits(step0, n0, n1)
      BY <1>1, <2>3, <3>1 DEF LinkOK
    <3>3. BindOutcome = BindError(step0.dist, n0, n1)
      BY <2>3 DEF BindOutcome
    <3>4. n0 \in Nat /\ n1 \in Nat
      BY <1>1, <3>1
    <3> HIDE DEF step0, n0, n1
    <3>. QED  BY <3>1, <3>2, <3>3, <3>4, BindFits
  <2>. QED  BY <2>1, <2>2, <2>3
<1>3. CASE BindOutcome # "ok"
  <2>1. Raise(BindOutcome)
    BY <1>3 DEF Bind, BindOutcome
  <2>2. BindOutcome \in {"ValueError", "TypeError", "IndexError"}
    BY <1>3, BindErrors DEF BindOutcome
  <2>3. Refused
    BY <1>1, <1>2, <1>3 DEF Refused
  <2>. QED  BY <1>0, <2>1, <2>2, <2>3, RaisePassed
<1>4. CASE BindOutcome = "ok"
  <2>1. /\ steps' = steps
        /\ pos < Len(steps) => pos' = pos + 1 /\ pc' = "expand"
        /\ ~ (pos < Len(steps)) => pos' = pos /\ pc' = "planned"
    BY <1>4 DEF Bind, BindOutcome
  <2>2. \A i \in 1 .. pos : StepOK(steps[i])
    <3>1. \A i \in 1 .. pos : i = pos \/ i \in 1 .. pos - 1
      BY <1>0
    <3>. QED  BY <1>0, <3>1, PassedHere
  <2>3. \A i \in 1 .. pos - 1 : LinkOK(i)
    <3>1. \A i \in 1 .. pos - 1 : (i = pos - 1 /\ pos > 1) \/ i \in 1 .. pos - 2
      BY <1>0
    <3>. QED  BY <1>0, <1>2, <1>4, <3>1, PassedHere
  <2>4. CASE pos < Len(steps)
    <3>1. pos' - 1 = pos /\ pos' - 2 = pos - 1
      BY <1>0, <2>1, <2>4
    <3>. QED  BY <2>1, <2>2, <2>3, <2>4, <3>1 DEF Passed, InLoop, LinkOK, Outcomes
  <2>5. CASE ~ (pos < Len(steps))
    <3>1. pos = Len(steps)
      BY <1>0, <2>5
    <3>2. AllOK
      BY <2>2, <2>3, <3>1 DEF AllOK
    <3>3. AllOK' <=> AllOK
      BY <2>1 DEF AllOK, LinkOK
    <3>. QED  BY <2>1, <2>5, <3>2, <3>3 DEF Passed, InLoop, Active
  <2>. QED  BY <2>4, <2>5
<1>. QED  BY <1>3, <1>4

\* A loop of no iterations, or one whose body is still to check, has passed so far.
LEMMA EnterLoopPassed ==
    ASSUME Checked, EnterLoop
    PROVE  Passed'
<1>0. pc = "expand" /\ pc \in Active /\ pos \in 1 .. Len(steps)
  BY StepsHere DEF EnterLoop, Active, Checked, SizedPlan, PlanInv
<1>1. /\ steps[pos].kind = "Iterate" /\ loop' = EmptyLoop /\ EmptyLoop.it = 0
      /\ EmptyLoop.at = 1
      /\ steps' = steps /\ pos' = pos /\ body' = body
      /\ \/ steps[pos].iterations = 0 /\ pc' = "bind"
         \/ pc' = "it_expand"
  BY DEF EnterLoop, body, EmptyLoop
<1>2. CASE pc' = "bind"
  <2>1. StepOK(steps[pos])
    BY <1>1, <1>2 DEF StepOK, LoopAccepted
  <2>. QED  BY <1>0, <1>1, <1>2, <2>1, PassedHere DEF Passed, InLoop, LinkOK, Outcomes
<1>3. CASE pc' = "it_expand"
  <2>1. loop'.it = 0 /\ loop'.at - 1 = 0
    BY <1>1
  <2>2. BodyOK(loop.at - 1)'
    BY <2>1 DEF BodyOK
  <2>. QED  BY <1>0, <1>1, <1>3, <2>1, <2>2, PassedHere DEF Passed, LinkOK, Outcomes
<1>. QED  BY <1>1, <1>2, <1>3

\* Where a loop is refused.
LEMMA LoopRefused ==
    ASSUME Checked, pc \in InLoop, ~ LoopAccepted(steps[pos])
    PROVE  Refused
<1>1. pc \in Active /\ pos \in 1 .. Len(steps) /\ steps[pos].kind = "Iterate"
  BY StepsHere DEF Active, Checked, SizedPlan, PlanInv, PhaseOK
<1>. QED  BY <1>1 DEF Refused, StepOK

\* The facts about the loop that the next two lemmas use.
LEMMA LoopHere ==
    ASSUME Checked, pc \in InLoop
    PROVE  /\ pc \in Active /\ steps[pos].iterations > 0 /\ steps[pos].iterations \in Nat
           /\ body = steps[pos].steps /\ body \in Seq(BaseStep)
           /\ loop.at \in Nat /\ loop.it \in Nat /\ Len(body) \in Nat
           /\ body # << >> => loop.at \in 1 .. Len(body)
           /\ loop.it > 0 => /\ body # << >> /\ BodyOK(Len(body))
                             /\ \E i \in DOMAIN body : Count(body[i]) > 0
<1>1. TypeOK /\ PhaseOK /\ pc \in Active
  BY DEF Checked, SizedPlan, PlanInv, Active
<1>2. loop.it \in Nat /\ loop.it < steps[pos].iterations
  BY <1>1, LoopFields DEF PhaseOK
<1>. QED  BY <1>1, <1>2, StepsHere, LoopFields DEF body, Checked, Passed

\* In a body Step.jobs() fails exactly for a step that needs a worker.
LEMMA LoopExpandPassed ==
    ASSUME Checked, LoopExpand
    PROVE  Passed'
<1>0. pc = "it_expand" /\ pc \in InLoop
  BY DEF LoopExpand, InLoop
<1>1. CASE body = << >> \/ HasNoFirstWorker(body[loop.at])
  <2>1. ~ LoopAccepted(steps[pos])
    <3>1. CASE body = << >>
      BY <1>0, <3>1, LoopHere DEF LoopAccepted
    <3>2. CASE body # << >>
      <4>1. HasNoFirstWorker(body[loop.at]) /\ loop.at \in DOMAIN body
        BY <1>0, <1>1, <3>2, LoopHere
      <4>2. ~ ChainAccepted(body)
        BY <4>1 DEF ChainAccepted, HasNoFirstWorker
      <4>. QED  BY <1>0, <4>2, LoopHere DEF LoopAccepted
    <3>. QED  BY <3>1, <3>2
  <2>2. Raise("IndexError")
    BY <1>1 DEF LoopExpand
  <2>. QED  BY <1>0, <2>1, <2>2, LoopRefused, LoopHere, RaisePassed
<1>2. CASE ~ (body = << >> \/ HasNoFirstWorker(body[loop.at]))
  <2> DEFINE new == NewIds(body[loop.at])
  <2>1. /\ pc' = "it_bind" /\ loop' = [loop EXCEPT !.jobs1 = new]
        /\ steps' = steps /\ pos' = pos /\ body' = body
    BY <1>2 DEF LoopExpand, body
  <2> HIDE DEF new
  <2>2. loop'.it = loop.it /\ loop'.at = loop.at
    <3>1. loop \in LoopType(Ids)
      BY LoopGrows DEF Checked, SizedPlan, PlanInv
    <3>. QED  BY <2>1, <3>1 DEF LoopType
  <2>3. BodyOK(loop.at - 1)' /\ (BodyOK(Len(body)) => BodyOK(Len(body))')
    BY <1>0, <2>1, <2>2 DEF BodyOK, Checked, Passed
  <2>4. loop'.it > 0 => /\ body' # << >> /\ BodyOK(Len(body))'
                        /\ \E i \in DOMAIN body' : Count(body'[i]) > 0
    BY <1>0, <2>1, <2>2, <2>3, LoopHere
  <2>5. ~ HasNoFirstWorker(body'[loop'.at])
    BY <1>2, <2>1, <2>2
  <2>6. /\ \A i \in 1 .. pos' - 1 : StepOK(steps'[i])
        /\ \A i \in 1 .. pos' - 2 : LinkOK(i)'
    BY <1>0, <2>1, LoopHere, PassedHere DEF LinkOK
  <2>. QED  BY <2>1, <2>3, <2>4, <2>5, <2>6 DEF Passed, Outcomes
<1>. QED  BY <1>1, <1>2

\* In a body bind() fails exactly when the two steps do not fit.
LEMMA LoopBindPassed ==
    ASSUME Checked, LoopBind
    PROVE  Passed'
<1>0. /\ pc = "it_bind" /\ pc \in InLoop /\ body # << >>
      /\ BodyOK(loop.at - 1) /\ ~ HasNoFirstWorker(body[loop.at])
  BY DEF LoopBind, InLoop, Checked, SizedPlan, PlanInv, PhaseOK, Passed
<1>1. /\ loop.at \in 1 .. Len(body) /\ loop.at \in Nat /\ Len(body) \in Nat
      /\ body \in Seq(BaseStep)
  BY <1>0, LoopHere
<1>2. LoopBindOutcome = "ok"
         <=> (loop.at > 1 => Fits(body[loop.at - 1], Count(body[loop.at - 1]),
                                  Count(body[loop.at])))
  <2>1. CASE loop.at = 1
    BY <2>1 DEF LoopBindOutcome
  <2>2. CASE loop.at # 1
    <3> DEFINE step0 == body[loop.at - 1]
               n0 == Count(step0)
               n1 == Count(body[loop.at])
    <3>1. loop.at > 1
      BY <1>1, <2>2
    <3>2. Cardinality(loop.jobs0) = n0 /\ Cardinality(loop.jobs1) = n1
      BY <1>0, <3>1 DEF Checked, SizedPlan, Sized
    <3>3. LoopBindOutcome = BindError(step0.dist, n0, n1)
      BY <2>2, <3>2 DEF LoopBindOutcome
    <3>4. n0 \in Nat /\ n1 \in Nat
      BY CountNat
    <3> HIDE DEF step0, n0, n1
    <3>5. LoopBindOutcome = "ok" <=> Fits(step0, n0, n1)
      BY <3>3, <3>4, BindFits
    <3>. QED  BY <3>1, <3>5 DEF step0, n0, n1
  <2>. QED  BY <2>1, <2>2
<1>3. CASE LoopBindOutcome # "ok"
  <2>1. Raise(LoopBindOutcome)
    BY <1>3 DEF LoopBind, LoopBindOutcome
  <2>2. LoopBindOutcome \in {"ValueError", "TypeError", "IndexError"}
    BY <1>3, BindErrors DEF LoopBindOutcome
  <2>3. ~ LoopAccepted(steps[pos])
    <3>1. /\ loop.at - 1 \in 1 .. Len(body) - 1 /\ (loop.at - 1) + 1 = loop.at
          /\ ~ Fits(body[loop.at - 1], Count(body[loop.at - 1]), Count(body[loop.at]))
      BY <1>1, <1>2, <1>3
    <3>2. ~ ChainAccepted(body)
      BY <3>1 DEF ChainAccepted
    <3>. QED  BY <1>0, <3>2, LoopHere DEF LoopAccepted
  <2>. QED  BY <1>0, <2>1, <2>2, <2>3, LoopRefused, LoopHere, RaisePassed
<1>4. CASE LoopBindOutcome = "ok"
  <2>1. /\ steps' = steps /\ pos' = pos /\ body' = body
        /\ loop.at < Len(body) =>
              /\ pc' = "it_expand"
              /\ loop' = [loop EXCEPT !.at = @ + 1,
                                      !.it_jobs = @ \cup loop.jobs0,
                                      !.jobs0 = loop.jobs1]
        /\ ~ (loop.at < Len(body)) =>
              /\ pc' = "it_end"
              /\ loop' = [loop EXCEPT !.it_jobs = @ \cup loop.jobs0 \cup loop.jobs1]
    BY <1>4 DEF LoopBind, LoopBindOutcome, body
  <2>2. /\ loop'.it = loop.it
        /\ loop.at < Len(body) => loop'.at = loop.at + 1
    <3>1. loop \in LoopType(Ids)
      BY LoopGrows DEF Checked, SizedPlan, PlanInv
    <3>. QED  BY <2>1, <3>1 DEF LoopType
  <2>3. BodyOK(loop.at)
    <3>1. \A i \in 1 .. loop.at : i = loop.at \/ i \in 1 .. loop.at - 1
      BY <1>1
    <3>2. \A i \in 1 .. loop.at - 1 : (i = loop.at - 1 /\ loop.at > 1)
                                       \/ i \in 1 .. (loop.at - 1) - 1
      BY <1>1
    <3>3. (loop.at - 1) + 1 = loop.at
      BY <1>1
    <3>4. \A i \in 1 .. loop.at : ~ HasNoFirstWorker(body[i])
      BY <1>0, <3>1 DEF BodyOK
    <3>5. \A i \in 1 .. loop.at - 1 : Fits(body[i], Count(body[i]), Count(body[i + 1]))
      BY <1>0, <1>2, <1>4, <3>2, <3>3 DEF BodyOK
    <3>. QED  BY <3>4, <3>5 DEF BodyOK
  <2>4. loop'.it > 0 => /\ body' # << >> /\ BodyOK(Len(body))'
                        /\ \E i \in DOMAIN body' : Count(body'[i]) > 0
    <3>1. BodyOK(Len(body)) => BodyOK(Len(body))'
      BY <2>1 DEF BodyOK
    <3>. QED  BY <1>0, <2>1, <2>2, <3>1, LoopHere
  <2>5. /\ \A i \in 1 .. pos' - 1 : StepOK(steps'[i])
        /\ \A i \in 1 .. pos' - 2 : LinkOK(i)'
    BY <1>0, <2>1, LoopHere, PassedHere DEF LinkOK
  <2>6. CASE loop.at < Len(body)
    <3>1. BodyOK(loop.at - 1)'
      <4>1. loop'.at - 1 = loop.at
        BY <1>1, <2>2, <2>6
      <4>. QED  BY <2>1, <2>3, <4>1 DEF BodyOK
    <3>. QED  BY <2>1, <2>4, <2>5, <2>6, <3>1 DEF Passed, Outcomes
  <2>7. CASE ~ (loop.at < Len(body))
    <3>1. BodyOK(Len(body))'
      <4>1. loop.at = Len(body)
        BY <1>1, <2>7
      <4>. QED  BY <2>1, <2>3, <4>1 DEF BodyOK
    <3>. QED  BY <2>1, <2>4, <2>5, <2>7, <3>1 DEF Passed, Outcomes
  <2>. QED  BY <2>6, <2>7
<1>. QED  BY <1>3, <1>4

\* The end of an iteration passes the body, and gates the next one.
LEMMA LoopEndPassed ==
    ASSUME Checked, LoopEnd
    PROVE  Passed'
<1>0. pc = "it_end" /\ pc \in InLoop /\ body # << >> /\ BodyOK(Len(body))
  BY DEF LoopEnd, InLoop, Checked, SizedPlan, PlanInv, PhaseOK, Passed
<1>1. /\ body = steps[pos].steps /\ body \in Seq(BaseStep) /\ Len(body) \in Nat
      /\ steps[pos].iterations > 0
  BY <1>0, LoopHere
<1>2. (\E i \in DOMAIN body : Count(body[i]) > 0) <=> JobList # {}
  <2>1. /\ BodySize(steps[pos]) \in Nat /\ loop.it \in Nat
        /\ Cardinality(JobList) = (loop.it + 1) * BodySize(steps[pos])
        /\ IsFiniteSet(JobList) /\ Cardinality(loop.it_jobs) = BodySize(steps[pos])
    BY <1>0, ListGrows DEF Checked
  <2>2. JobList = {} <=> BodySize(steps[pos]) = 0
    <3>1. JobList = {} => BodySize(steps[pos]) = 0
      <4>1. JobList = {} => loop.it_jobs = {}
        BY DEF JobList
      <4>. QED  BY <2>1, <4>1, FS_EmptySet
    <3>2. BodySize(steps[pos]) = 0 => JobList = {}
      <4>1. (loop.it + 1) * 0 = 0
        BY <2>1
      <4>. QED  BY <2>1, <4>1, FS_EmptySet
    <3>. QED  BY <3>1, <3>2
  <2>3. (\E i \in DOMAIN body : Count(body[i]) > 0) <=> BodySize(steps[pos]) > 0
    BY <1>1, SizesSum
  <2>. QED  BY <2>1, <2>2, <2>3
<1>3. CASE JobList = {}
  <2>1. Raise("IndexError")
    BY <1>3 DEF LoopEnd
  <2>2. ~ LoopAccepted(steps[pos])
    BY <1>1, <1>2, <1>3 DEF LoopAccepted
  <2>. QED  BY <1>0, <2>1, <2>2, LoopRefused, LoopHere, RaisePassed
<1>4. CASE JobList # {}
  <2>1. /\ steps' = steps /\ pos' = pos /\ body' = body
        /\ \/ pc' = "it_expand" /\ loop'.it = loop.it + 1 /\ loop'.at = 1
           \/ pc' = "bind"
    BY <1>4 DEF LoopEnd, body, EmptyLoop
  <2>2. LoopAccepted(steps[pos])
    <3>1. ChainAccepted(body)
      <4>1. \A i \in DOMAIN body : body[i].kind = "Sequential" => NWorkers > 0
        BY <1>0, <1>1, NWorkersAssumption DEF BodyOK, HasNoFirstWorker
      <4>. QED  BY <1>0, <4>1 DEF BodyOK, ChainAccepted
    <3>. QED  BY <1>0, <1>1, <1>2, <1>4, <3>1 DEF LoopAccepted
  <2>3. /\ \A i \in 1 .. pos' - 1 : StepOK(steps'[i])
        /\ \A i \in 1 .. pos' - 2 : LinkOK(i)'
    BY <1>0, <2>1, LoopHere, PassedHere DEF LinkOK
  <2>4. CASE pc' = "bind"
    <3>1. StepOK(steps'[pos'])
      <4>1. steps[pos].kind = "Iterate"
        BY <1>0 DEF Checked, SizedPlan, PlanInv, PhaseOK
      <4>. QED  BY <2>1, <2>2, <4>1 DEF StepOK
    <3>. QED  BY <2>1, <2>3, <2>4, <3>1 DEF Passed, InLoop, Outcomes
  <2>5. CASE pc' = "it_expand" /\ loop'.it = loop.it + 1 /\ loop'.at = 1
    <3>1. BodyOK(Len(body))' /\ body' # << >>
          /\ \E i \in DOMAIN body' : Count(body'[i]) > 0
      <4>1. BodyOK(Len(body))'
        BY <1>0, <2>1 DEF BodyOK
      <4>. QED  BY <1>0, <1>2, <1>4, <2>1, <4>1
    <3>2. BodyOK(loop.at - 1)'
      BY <2>5 DEF BodyOK
    <3>. QED  BY <2>3, <2>5, <3>1, <3>2 DEF Passed, Outcomes
  <2>. QED  BY <2>1, <2>4, <2>5
<1>. QED  BY <1>3, <1>4

\* Nothing has been checked at first, and nothing has to be.
LEMMA InitPassed == Init => Passed
<1> SUFFICES ASSUME Init PROVE Passed
  OBVIOUS
<1>1. /\ steps \in Seq(BaseStep \cup Iterate) /\ pos = 1 /\ Len(steps) \in Nat
      /\ pc = IF Len(steps) < 1 THEN "planned" ELSE "expand"
  BY ArtifactsAssumption DEF Init
<1>2. CASE Len(steps) < 1
  <2>1. Len(steps) = 0
    BY <1>1, <1>2
  <2>2. AllOK
    BY <2>1 DEF AllOK
  <2>. QED  BY <1>1, <1>2, <2>2 DEF Passed, Active, InLoop
<1>3. CASE ~ (Len(steps) < 1)
  BY <1>1, <1>3 DEF Passed, InLoop, Outcomes
<1>. QED  BY <1>2, <1>3

\* What has been checked depends on the variables of the plan only.
LEMMA SamePassed == Passed /\ UNCHANGED vars => Passed'
<1> SUFFICES ASSUME Passed, UNCHANGED vars PROVE Passed'
  OBVIOUS
<1>1. steps' = steps /\ pos' = pos /\ pc' = pc /\ loop' = loop /\ body' = body
  BY DEF vars, body
<1>. QED  BY <1>1 DEF Passed, AllOK, LinkOK, BodyOK

\* Every step of the binding procedure checks what it passes.
LEMMA PlanningPassed == Checked /\ Planning => Passed'
BY ExpandPassed, BindPassed, EnterLoopPassed, LoopExpandPassed, LoopBindPassed,
   LoopEndPassed DEF Planning

\* And so does every step of the composed system.
LEMMA ExecKeepsChecked == Checked /\ [ExecNext]_allvars => Checked'
<1>1. Checked /\ Preparing => Checked'
  BY PlanningKeeps, PlanningSized, PlanningPassed DEF Preparing, Checked, SizedPlan
<1>2. Checked /\ Executing => Checked'
  BY SamePlan, SameSized, SamePassed DEF Executing, Checked, SizedPlan
<1>3. Checked /\ UNCHANGED allvars => Checked'
  BY SamePlan, SameSized, SamePassed DEF allvars, Checked, SizedPlan
<1>. QED  BY <1>1, <1>2, <1>3 DEF ExecNext

\* Whatever has been bound was checked, and whatever was rejected did not fit: the sizes
\* of the lists are the numbers of jobs that the steps stand for.
THEOREM CheckedCorrect == ExecSpec => []Checked
<1>1. ExecInit => Checked
  BY InitPlan, InitSized, InitPassed DEF ExecInit, Checked, SizedPlan
<1>2. Checked /\ [ExecNext]_allvars => Checked'
  BY ExecKeepsChecked
<1>. QED  BY <1>1, <1>2, PTL DEF ExecSpec

-----------------------------------------------------------------------------
(* What fits, stated on the steps alone. *)

\* The number of jobs of a body, as Accepted counts it.
LEMMA BodySizeIs ==
    ASSUME NEW step, step.steps \in Seq(BaseStep)
    PROVE  MapThenSumSet(LAMBDA i : Count(step.steps[i]), DOMAIN step.steps) = BodySize(step)
<1> DEFINE S == DOMAIN step.steps
           f == Sizes(step.steps)
           it == CHOOSE h : h = [t \in SUBSET S |-> IF t = {} THEN 0
                     ELSE Count(step.steps[CHOOSE x \in t : TRUE])
                             + h[t \ {CHOOSE x \in t : TRUE}]]
<1>1. S = 1 .. Len(step.steps) /\ Len(step.steps) \in Nat
  OBVIOUS
<1>2. IsFiniteSet(S)
  BY <1>1, FS_Interval
<1>3. \A i \in S : f[i] = Count(step.steps[i])
  BY DEF Sizes
<1>4. MapThenSumSet(LAMBDA i : Count(step.steps[i]), S) = it[S]
  BY Zenon DEF MapThenSumSet, MapThenFoldSet
<1> HIDE DEF f, S
<1>5. \A t \in SUBSET S : t # {} => f[Pick(t)] = Count(step.steps[Pick(t)])
  BY <1>3, PickOne
<1>6. PICK h : SumsOf(h, f, S)
  BY <1>2, SumsExist
<1>7. h = [t \in SUBSET S |-> IF t = {} THEN 0
              ELSE Count(step.steps[CHOOSE x \in t : TRUE])
                      + h[t \ {CHOOSE x \in t : TRUE}]]
  <2>1. DOMAIN h = SUBSET S /\ h = [t \in SUBSET S |-> h[t]]
    BY <1>6 DEF SumsOf
  <2>2. \A t \in SUBSET S :
            h[t] = IF t = {} THEN 0 ELSE Count(step.steps[Pick(t)]) + h[t \ {Pick(t)}]
    BY <1>5, <1>6 DEF SumsOf
  <2>. QED  BY <2>1, <2>2 DEF Pick
<1>8. it = [t \in SUBSET S |-> IF t = {} THEN 0
              ELSE Count(step.steps[CHOOSE x \in t : TRUE])
                      + it[t \ {CHOOSE x \in t : TRUE}]]
  <2> DEFINE R(g) == g = [t \in SUBSET S |-> IF t = {} THEN 0
                ELSE Count(step.steps[CHOOSE x \in t : TRUE])
                        + g[t \ {CHOOSE x \in t : TRUE}]]
  <2>1. R(h)
    BY <1>7
  <2>2. it = CHOOSE g : R(g)
    OBVIOUS
  <2> HIDE DEF R, it
  <2>3. R(it)
    BY <2>1, <2>2
  <2>. QED  BY <2>3 DEF R
<1> HIDE DEF it
<1>9. SumsOf(it, f, S)
  <2>1. DOMAIN it = SUBSET S /\ it = [t \in SUBSET S |-> it[t]]
    BY <1>8
  <2>2. \A t \in SUBSET S :
            it[t] = IF t = {} THEN 0 ELSE f[Pick(t)] + it[t \ {Pick(t)}]
    BY <1>5, <1>8 DEF Pick
  <2>. QED  BY <2>1, <2>2 DEF SumsOf
<1>10. Total(f, S) = it[S]
  BY <1>2, <1>9, TotalIsSum
<1>. QED  BY <1>1, <1>4, <1>10 DEF BodySize, f, S

\* The ranges of indices that the definitions of Accepted use.
LEMMA Ranges ==
    ASSUME NEW n \in Nat, n >= 1
    PROVE  /\ \A i \in 1 .. n - 1 : i \in 1 .. n /\ i + 1 \in 1 .. n
           /\ \A i \in 1 .. (n - 1) - 1 : i + 1 \in 1 .. n - 1 /\ i \in 1 .. n - 1
           /\ \A i \in 1 .. n : i = n \/ i \in 1 .. n - 1
           /\ (n - 1) + 1 = n /\ (n > 1 => n - 1 \in 1 .. n - 1)
           /\ \A i \in 1 .. n - 1 : (i = n - 1 /\ n > 1) \/ i \in 1 .. (n - 1) - 1
OBVIOUS

\* A step is accepted on its own, and with the next one, as the procedure checks it.
LEMMA AcceptedIsAllOK ==
    ASSUME steps \in Seq(BaseStep \cup Iterate)
    PROVE  Accepted <=> AllOK
<1> DEFINE last == Len(steps)
           front == [i \in 1 .. (last - 1) |-> steps[i]]
           step0 == steps[last - 1]
           loop_step == steps[last]
<1>1. last \in Nat /\ DOMAIN steps = 1 .. last
  OBVIOUS
<1>2. CASE steps = << >>
  BY <1>2 DEF Accepted, AllOK
<1>3. CASE steps # << >>
  <2>1. last >= 1 /\ last \in 1 .. last
    BY <1>1, <1>3
  <2>2. \A i \in 1 .. last : steps[i].kind # "Iterate" =>
           /\ StepOK(steps[i]) <=> (steps[i].kind = "Sequential" => NWorkers > 0)
           /\ SizeOf(steps[i]) = Count(steps[i])
    BY NWorkersAssumption DEF StepOK, HasNoFirstWorker, SizeOf
  <2>3. CASE steps[last].kind # "Iterate"
    <3>1. Accepted <=> /\ \A i \in 1 .. (last - 1) : steps[i].kind # "Iterate"
                       /\ ChainAccepted(steps)
      BY <1>3, <2>3 DEF Accepted
    <3>2. ASSUME Accepted PROVE AllOK
      <4>1. \A i \in 1 .. last : steps[i].kind # "Iterate"
        BY <1>1, <2>3, <3>1, <3>2
      <4>2. \A i \in 1 .. last - 1 : i \in 1 .. last /\ i + 1 \in 1 .. last
        BY <1>1
      <4>. QED  BY <1>1, <2>2, <3>1, <3>2, <4>1, <4>2 DEF ChainAccepted, AllOK, LinkOK
    <3>3. ASSUME AllOK PROVE Accepted
      <4>1. \A i \in 1 .. last - 1 : steps[i].kind # "Iterate"
        BY <3>3 DEF AllOK, LinkOK
      <4>2. \A i \in 1 .. last : steps[i].kind # "Iterate"
        BY <1>1, <2>3, <4>1
      <4>3. \A i \in 1 .. last - 1 : i \in 1 .. last /\ i + 1 \in 1 .. last
        BY <1>1
      <4>4. ChainAccepted(steps)
        BY <1>1, <2>2, <3>3, <4>2, <4>3 DEF ChainAccepted, AllOK, LinkOK
      <4>. QED  BY <3>1, <4>1, <4>4
    <3>. QED  BY <3>2, <3>3
  <2>4. CASE steps[last].kind = "Iterate"
    <3>1. SizeOf(loop_step)
             = loop_step.iterations * MapThenSumSet(
                   LAMBDA i : Count(loop_step.steps[i]), DOMAIN loop_step.steps)
      <4>1. loop_step.steps \in Seq(BaseStep)
        BY <2>1, <2>4, StepKinds
      <4>2. MapThenSumSet(LAMBDA i : Count(loop_step.steps[i]), DOMAIN loop_step.steps)
               = BodySize(loop_step)
        <5> HIDE DEF loop_step
        <5>. QED  BY <4>1, BodySizeIs
      <4>. QED  BY <2>4, <4>2 DEF SizeOf
    <3>2. Accepted <=>
             /\ \A i \in 1 .. (last - 1) : steps[i].kind # "Iterate"
             /\ LoopAccepted(loop_step)
             /\ ChainAccepted(front)
             /\ last > 1 => Fits(step0, Count(step0), SizeOf(loop_step))
      BY <1>3, <2>4, <3>1, Zenon DEF Accepted
    <3>3. front \in Seq(BaseStep \cup Iterate) /\ Len(front) = last - 1
          /\ DOMAIN front = 1 .. last - 1
      BY <1>1, <2>1
    <3>4. \A i \in 1 .. last - 1 : front[i] = steps[i]
      OBVIOUS
    <3>5. StepOK(loop_step) <=> LoopAccepted(loop_step)
      BY <2>4 DEF StepOK
    <3> HIDE DEF front, step0, loop_step
    <3>6. /\ \A i \in 1 .. last - 1 : i \in 1 .. last /\ i + 1 \in 1 .. last
          /\ \A i \in 1 .. (last - 1) - 1 : i + 1 \in 1 .. last - 1 /\ i \in 1 .. last - 1
          /\ \A i \in 1 .. last : i = last \/ i \in 1 .. last - 1
          /\ (last - 1) + 1 = last /\ (last > 1 => last - 1 \in 1 .. last - 1)
          /\ \A i \in 1 .. last - 1 : (i = last - 1 /\ last > 1) \/ i \in 1 .. (last - 1) - 1
      BY <1>1, <2>1, Ranges
    <3> USE DEF step0, loop_step
    <3>7. ASSUME Accepted PROVE AllOK
      <4>1. \A i \in 1 .. last : StepOK(steps[i])
        BY <2>2, <3>2, <3>3, <3>4, <3>6, <3>5, <3>7 DEF ChainAccepted
      <4>2. \A i \in 1 .. (last - 1) - 1 :
               Fits(steps[i], Count(steps[i]), SizeOf(steps[i + 1]))
        BY <2>2, <3>2, <3>3, <3>4, <3>6, <3>7 DEF ChainAccepted
      <4>3. \A i \in 1 .. last - 1 : LinkOK(i)
        BY <3>2, <3>4, <3>6, <3>7, <4>2 DEF LinkOK
      <4>. QED  BY <4>1, <4>3 DEF AllOK
    <3>8. ASSUME AllOK PROVE Accepted
      <4>1. \A i \in 1 .. last - 1 : steps[i].kind # "Iterate"
               /\ Fits(steps[i], Count(steps[i]), SizeOf(steps[i + 1]))
        BY <3>8 DEF AllOK, LinkOK
      <4>2. \A i \in 1 .. last : StepOK(steps[i])
        BY <3>8 DEF AllOK
      <4>3. \A i \in 1 .. last - 1 : front[i].kind = "Sequential" => NWorkers > 0
        BY <2>2, <3>4, <3>6, <4>1, <4>2
      <4>4. ASSUME NEW i \in 1 .. (last - 1) - 1
            PROVE  Fits(front[i], Count(front[i]), Count(front[i + 1]))
        <5>1. i \in 1 .. last - 1 /\ i + 1 \in 1 .. last - 1 /\ i + 1 \in 1 .. last
          BY <3>6
        <5>2. front[i] = steps[i] /\ front[i + 1] = steps[i + 1]
          BY <3>4, <5>1
        <5>3. SizeOf(steps[i + 1]) = Count(steps[i + 1])
          BY <2>2, <4>1, <5>1
        <5>. QED  BY <4>1, <5>1, <5>2, <5>3
      <4>5. ChainAccepted(front)
        BY <3>3, <4>3, <4>4 DEF ChainAccepted
      <4>. QED  BY <2>1, <3>2, <3>5, <3>6, <4>1, <4>2, <4>5
    <3>. QED  BY <3>7, <3>8
  <2>. QED  BY <2>3, <2>4
<1>. QED  BY <1>2, <1>3

\* The binding procedure rejects exactly the artifacts whose steps do not fit together,
\* whatever the steps, the distributions and the number of workers.
THEOREM AcceptsExactly == ExecSpec => []AcceptsWhatFits
<1>1. Checked => AcceptsWhatFits
  <2> SUFFICES ASSUME Checked, pc \in Outcomes PROVE pc = "planned" <=> Accepted
    BY DEF AcceptsWhatFits
  <2>1. steps \in Seq(BaseStep \cup Iterate)
    BY DEF Checked, SizedPlan, PlanInv, TypeOK
  <2>2. pc = "planned" <=> AllOK
    BY DEF Checked, Passed
  <2>. QED  BY <2>1, <2>2, AcceptedIsAllOK
<1>. QED  BY <1>1, CheckedCorrect, PTL

-----------------------------------------------------------------------------
(* The executions: a job is offered when the jobs that lock it have finished. *)

\* The execution keeps the order of the locks.
LEMMA OfferedInOrder ==
    ASSUME TypeOK, Ordered, Executing
    PROVE  Ordered'
<1>1. /\ UNCHANGED vars /\ pc = "planned" /\ DOMAIN job = Ids /\ Locking!Next
      /\ pc' = pc /\ job' = job /\ Ids' = Ids
  BY DEF Executing, TypeOK, vars, Ids
<1>2. PICK j \in Ids : Locking!Offer(j) \/ Locking!Finish(j)
  BY <1>1 DEF Locking!Next
<1>3. CASE Locking!Offer(j)
  <2>1. offered' = offered \cup {j} /\ finished' = finished
        /\ Locking!Pred(j) \subseteq finished
    BY <1>3 DEF Locking!Offer
  <2>2. \A p \in Ids : j \in job[p].locks => p \in finished
    <3>1. ASSUME NEW p \in Ids, j \in job[p].locks
          PROVE  p \in Locking!Pred(j)
      <4>1. <<p, j>> \in {e \in Ids \X Ids : e[2] \in job[e[1]].locks}
        BY <3>1
      <4>. QED  BY <1>1, <4>1 DEF Locking!Pred
    <3>. QED  BY <2>1, <3>1
  <2>. QED  BY <1>1, <2>1, <2>2 DEF Ordered
<1>4. CASE Locking!Finish(j)
  BY <1>1, <1>4 DEF Locking!Finish, Ordered
<1>. QED  BY <1>2, <1>3, <1>4

\* Nothing is offered while the artifact is being bound.
LEMMA NothingOfferedYet ==
    ASSUME Ordered, Preparing
    PROVE  Ordered'
<1>1. pc # "planned" /\ UNCHANGED <<offered, finished>>
  BY DEF Preparing, Planning, Expand, Bind, EnterLoop, LoopExpand, LoopBind, LoopEnd
<1>2. offered' = {} /\ finished' = {}
  BY <1>1 DEF Ordered
<1>. QED  BY <1>2 DEF Ordered

\* Every step of the composed system keeps the order of the locks.
LEMMA ExecKeepsOrder == TypeOK /\ Ordered /\ [ExecNext]_allvars => Ordered'
<1>1. Ordered /\ UNCHANGED allvars => Ordered'
  BY DEF Ordered, allvars, vars, Ids
<1>. QED  BY <1>1, OfferedInOrder, NothingOfferedYet DEF ExecNext

\* An execution offers a job only when all the jobs that lock it have finished.
THEOREM OrderedCorrect == ExecSpec => []Ordered
<1>1. ExecInit => Ordered
  BY DEF ExecInit, Ordered
<1>2. TypeOK /\ Ordered /\ [ExecNext]_allvars => Ordered'
  BY ExecKeepsOrder
<1>. QED  BY <1>1, <1>2, Typed, PTL DEF ExecSpec

\* Each job of a Sequential step starts after all the earlier ones of the step: they are
\* linked one to the next, and so the next one has been offered only when the one
\* before it had finished, and that one had been offered only when, and so on.
THEOREM SequentialInOrder == ExecSpec => []SequentialOrder
<1>1. PlanInv /\ Ordered => SequentialOrder
  <2> SUFFICES ASSUME PlanInv, Ordered PROVE SequentialOrder
    OBVIOUS
  <2> DEFINE Early(a, b) == /\ a < b /\ job[a].step = job[b].step
                            /\ KindAt(job[b].step) = "Sequential" /\ a \notin finished
             Bad == {b \in offered : \E a \in Ids : Early(a, b)}
  <2>0. DOMAIN job = Ids /\ offered \subseteq Ids /\ Ids \subseteq Nat
    BY DEF PlanInv, TypeOK, Ordered, Ids
  <2>1. SUFFICES ASSUME Bad # {} PROVE FALSE
    BY <2>0 DEF SequentialOrder
  <2>2. PICK b \in Bad : \A d \in Bad : b <= d
    <3>1. Bad \in SUBSET Nat
      BY <2>0
    <3> HIDE DEF Bad
    <3>. QED  BY <2>1, <3>1, LeastNatural
  <2>3. PICK a \in Ids : Early(a, b)
    OBVIOUS
  <2>4. b \in offered /\ b \in Ids /\ b \in Nat /\ a \in Nat
    BY <2>0
  <2>5. job[b - 1].step = job[b].step /\ b \in job[b - 1].locks
    BY <2>3, <2>4 DEF PlanInv, Chained
  <2>6. b - 1 \in Ids
    BY <2>3, <2>4 DEF PlanInv, TypeOK, Ids
  <2>7. b - 1 \in finished /\ b - 1 \in offered
    BY <2>4, <2>5, <2>6 DEF Ordered
  <2>8. Early(a, b - 1)
    BY <2>3, <2>4, <2>5, <2>7
  <2>9. b - 1 \in Bad
    BY <2>7, <2>8
  <2>. QED  BY <2>2, <2>4, <2>9
<1>. QED  BY <1>1, PlanCorrect, OrderedCorrect, PTL

-----------------------------------------------------------------------------
(* The order of the stages, in the locks. *)

\* Jobs stay where they are, and locks are never taken away.
Extends ==
    /\ steps' = steps /\ Ids \subseteq Ids'
    /\ \A i \in Ids : job'[i].step = job[i].step /\ job[i].locks \subseteq job'[i].locks

\* Creating jobs adds to the plan and takes nothing from it.
LEMMA AddsExtends ==
    ASSUME NEW step, NEW at, Adds(step, at)
    PROVE  Extends
BY DEF Adds, Extends

\* So does adding locks.
LEMMA RelocksExtends ==
    ASSUME NEW A, NEW T, Relocks(A, T)
    PROVE  Extends
BY DEF Relocks, Relocked, Extends

\* A job that comes before another one keeps doing so.
LEMMA PriorStays ==
    ASSUME Extends, NEW a \in Ids, NEW b \in Ids
    PROVE  Prior(a, b)' <=> Prior(a, b)
BY DEF Extends, Prior, Before, KindAt

\* Jobs that are linked stay so.
LEMMA LinkedStays ==
    ASSUME Extends, NEW a \in Ids, NEW b \in Ids, Linked(a, b)
    PROVE  Linked(a, b)'
<1>1. PICK c \in Ids : b \in job[c].locks /\ (c = a \/ Prior(a, c))
  BY DEF Linked
<1>2. c \in Ids' /\ b \in job'[c].locks
  BY <1>1 DEF Extends
<1>3. Prior(a, c) => Prior(a, c)'
  BY PriorStays
<1>. QED  BY <1>1, <1>2, <1>3 DEF Linked

\* The artifact is a constant of a behaviour, and so is what Synchronised says.
LEMMA SyncStays ==
    ASSUME steps' = steps
    PROVE  Synchronised' <=> Synchronised
BY DEF Synchronised, Barrier

\* What Synchronised says of a step and the next one, and of the body of a loop.
LEMMA SyncSteps ==
    ASSUME TypeOK, Synchronised
    PROVE  /\ \A i \in 1 .. Len(steps) - 1 :
                 /\ steps[i].kind # "Iterate" /\ Count(steps[i]) > 0
                 /\ steps[i].dist \in {"Arrange", "Distribute", "Collect"}
           /\ \A p \in 1 .. Len(steps) : steps[p].kind = "Iterate" =>
                 /\ \A i \in 1 .. Len(steps[p].steps) - 1 :
                       /\ Count(steps[p].steps[i]) > 0
                       /\ steps[p].steps[i].dist \in {"Arrange", "Distribute", "Collect"}
                 /\ steps[p].steps # << >> =>
                       \/ steps[p].steps[Len(steps[p].steps)].kind = "Sequential"
                       \/ Count(steps[p].steps[Len(steps[p].steps)]) = 1
<1> DEFINE n == Len(steps)
           chain == [i \in DOMAIN steps |->
                        IF steps[i].kind = "Iterate" THEN [dist |-> "None"] ELSE steps[i]]
<1>1. n \in Nat /\ DOMAIN steps = 1 .. n /\ DOMAIN chain = 1 .. n /\ steps \in Seq(BaseStep \cup Iterate)
  BY DEF TypeOK
<1>2. Len(chain) = n
  BY <1>1
<1>3. \A i \in 1 .. n : chain[i] = IF steps[i].kind = "Iterate" THEN [dist |-> "None"]
                                  ELSE steps[i]
  BY <1>1
<1>4. /\ Barrier(chain)
      /\ \A p \in 1 .. n : steps[p].kind = "Iterate" =>
            /\ Barrier(steps[p].steps)
            /\ steps[p].steps # << >> =>
                  \/ steps[p].steps[Len(steps[p].steps)].kind = "Sequential"
                  \/ Count(steps[p].steps[Len(steps[p].steps)]) = 1
  BY <1>1, Zenon DEF Synchronised
<1> HIDE DEF chain, n
<1>5. ASSUME NEW i \in 1 .. n - 1
      PROVE  /\ steps[i].kind # "Iterate" /\ Count(steps[i]) > 0
             /\ steps[i].dist \in {"Arrange", "Distribute", "Collect"}
  <2>1. chain[i].dist \in {"Arrange", "Distribute", "Collect"} /\ Count(chain[i]) > 0
    BY <1>2, <1>4 DEF Barrier
  <2>2. i \in 1 .. n
    BY <1>1
  <2>3. steps[i].kind # "Iterate"
    <3>1. SUFFICES ASSUME steps[i].kind = "Iterate" PROVE FALSE
      OBVIOUS
    <3>2. chain[i].dist = "None"
      BY <1>3, <2>2, <3>1
    <3>. QED  BY <2>1, <3>2
  <2>. QED  BY <1>3, <2>1, <2>2, <2>3
<1>6. \A p \in 1 .. n : steps[p].kind = "Iterate" =>
         \A i \in 1 .. Len(steps[p].steps) - 1 :
            /\ Count(steps[p].steps[i]) > 0
            /\ steps[p].steps[i].dist \in {"Arrange", "Distribute", "Collect"}
  BY <1>4 DEF Barrier
<1>. QED  BY <1>4, <1>5, <1>6 DEF n

StageInv == SizedPlan /\ Single /\ Filled /\ GateLast /\ Staged

\* The facts of the earlier invariants that the proofs about the stages use.
LEMMA StageTypes ==
    ASSUME StageInv
    PROVE  /\ PlanInv /\ Sized /\ TypeOK /\ PhaseOK /\ Placed /\ Listed /\ Gate /\ Grown
           /\ current_id \in Nat /\ job \in [Ids -> SchedulerJob] /\ pos \in Nat
           /\ \A i \in Ids : /\ job[i].step \in Place /\ i \in Nat
                             /\ Pos(i) \in Nat /\ It(i) \in Nat /\ Nth(i) \in Nat
           /\ loop.it \in Nat /\ loop.at \in Nat
BY Places, LoopFields DEF StageInv, SizedPlan, PlanInv, TypeOK

\* Before, in terms of the places.
LEMMA BeforeIs ==
    ASSUME NEW a, NEW b
    PROVE  Before(job[a].step, job[b].step)
              <=> \/ Pos(a) < Pos(b)
                  \/ Pos(a) = Pos(b) /\ It(a) < It(b)
                  \/ Pos(a) = Pos(b) /\ It(a) = It(b) /\ Nth(a) < Nth(b)
BY DEF Before, Pos, It, Nth

\* A step that counts one job creates one.
LEMMA AddsSingle ==
    ASSUME StageInv, NEW step, NEW at \in Place, Fresh(at), StepAt(at) = step, Adds(step, at)
    PROVE  Single'
<1>1. /\ Ids' = Ids \cup NewIds(step) /\ steps' = steps
      /\ \A i \in Ids : job'[i] = job[i] /\ job[i].step # at
      /\ \A i \in NewIds(step) : job'[i].step = at
  BY StageTypes, BeforeIsOrder DEF Adds, Fresh
<1>2. Count(step) = 1 => \A i, k \in NewIds(step) : i = k
  BY StageTypes DEF NewIds
<1> SUFFICES ASSUME NEW i \in Ids', NEW k \in Ids', job'[i].step = job'[k].step,
                    Count(StepAt(job[i].step))' = 1
             PROVE  i = k
  BY DEF Single
<1>3. Count(StepAt(job'[i].step)) = 1
  BY <1>1 DEF StepAt, Count
<1>4. CASE i \in Ids /\ k \in Ids
  BY <1>1, <1>3, <1>4 DEF StageInv, Single
<1>5. CASE i \in NewIds(step) /\ k \in NewIds(step)
  BY <1>1, <1>2, <1>3, <1>5
<1>. QED  BY <1>1, <1>4, <1>5

\* Adding locks creates no job.
LEMMA StaysSingle ==
    ASSUME Single, Extends, Ids' = Ids
    PROVE  Single'
<1> SUFFICES ASSUME NEW i \in Ids, NEW k \in Ids, job'[i].step = job'[k].step,
                    Count(StepAt(job[i].step))' = 1
             PROVE  i = k
  BY DEF Single, Extends
<1>1. Count(StepAt(job[i].step)) = 1 /\ job[i].step = job[k].step
  BY DEF Extends, StepAt, Count
<1>. QED  BY <1>1 DEF Single

\* Nothing is claimed once the procedure has raised an error.
LEMMA RaiseStages ==
    ASSUME StageInv, NEW error \in {"ValueError", "TypeError", "IndexError"}, Raise(error)
    PROVE  Single' /\ Filled' /\ GateLast' /\ Staged'
<1>1. /\ steps' = steps /\ job' = job /\ Ids' = Ids /\ pc' = error
  BY DEF Raise, Ids
<1>2. Extends
  BY <1>1 DEF Extends
<1>3. Single'
  BY <1>1, <1>2, StaysSingle DEF StageInv
<1>. QED  BY <1>1, <1>3 DEF Filled, GateLast, Staged, Active, InLoop

\* Step.jobs() keeps the stages.
LEMMA ExpandStages ==
    ASSUME StageInv, Expand
    PROVE  Single' /\ Filled' /\ GateLast' /\ Staged'
<1>1. CASE HasNoFirstWorker(steps[pos])
  <2>1. Raise("IndexError")
    BY <1>1 DEF Expand
  <2>. QED  BY <2>1, RaiseStages
<1>2. CASE ~ HasNoFirstWorker(steps[pos])
  <2> DEFINE at == [pos |-> pos, iteration |-> iteration, at |-> 1]
             step == steps[pos]
  <2>1. at \in Place /\ Fresh(at) /\ Adds(step, at)
    BY <1>2, ExpandAdds, StageTypes
  <2>2. at.pos = pos /\ pc = "expand" /\ pc' = "bind" /\ steps' = steps /\ pos' = pos
        /\ StepAt(at) = step
    BY <1>2 DEF Expand, StepAt
  <2> HIDE DEF at, step
  <2>3. Single'
    BY <2>1, <2>2, AddsSingle
  <2>4. Filled' /\ GateLast'
    BY <2>2 DEF Filled, GateLast, InLoop
  <2>5. Staged'
    <3> SUFFICES ASSUME Synchronised', NEW a \in Ids', NEW b \in Ids',
                        Before(job[a].step, job[b].step)', Bounded(a, b)'
                 PROVE  Linked(a, b)'
      BY DEF Staged
    <3>1. /\ Ids' = Ids \cup NewIds(step)
          /\ \A i \in Ids : Pos(i)' = Pos(i) /\ It(i)' = It(i) /\ Nth(i)' = Nth(i)
          /\ \A i \in NewIds(step) :
                Pos(i)' = at.pos /\ It(i)' = at.iteration /\ Nth(i)' = at.at
      BY <2>1, AddsPlaces
    <3>2. /\ at.iteration \in Nat /\ at.at \in Nat
          /\ \A i \in Ids : Pos(i) < pos /\ Pos(i) \in Nat
      BY <2>1, <2>2, StageTypes DEF Place, Placed
    <3>3. \/ Pos(a)' < Pos(b)'
          \/ Pos(a)' = Pos(b)' /\ It(a)' < It(b)'
          \/ Pos(a)' = Pos(b)' /\ It(a)' = It(b)' /\ Nth(a)' < Nth(b)'
      BY DEF Before, Pos, It, Nth
    <3>4. Pos(b)' < pos \/ Pos(a)' = pos
      BY <2>2 DEF Bounded
    <3>5. a \in Ids /\ b \in Ids
      BY <2>2, <3>1, <3>2, <3>3, <3>4, StageTypes
    <3>6. Linked(a, b)
      <4>1. Before(job[a].step, job[b].step)
        BY <3>1, <3>3, <3>5, BeforeIs
      <4>2. Bounded(a, b) /\ Synchronised
        BY <2>2, SyncStays DEF Bounded, InLoop
      <4>. QED  BY <2>2, <3>5, <4>1, <4>2 DEF StageInv, Staged, Active
    <3>. QED  BY <2>1, <3>5, <3>6, AddsExtends, LinkedStays
  <2>. QED  BY <2>3, <2>4, <2>5
<1>. QED  BY <1>1, <1>2

\* What comes after a barrier is locked by all of it, and so waits for what comes before.
LEMMA Barriers ==
    ASSUME StageInv, Extends, Ids' = Ids, NEW A \in SUBSET Ids, A # {},
           NEW a \in Ids, NEW b \in Ids,
           \A c \in A : b \in job'[c].locks,
           a \in A \/ \A c \in A : Before(job[a].step, job[c].step)
    PROVE  Linked(a, b)'
<1>1. CASE a \in A
  BY <1>1 DEF Linked
<1>2. CASE a \notin A
  <2>1. PICK c \in A : TRUE
    OBVIOUS
  <2>2. Prior(a, c)
    BY <1>2 DEF Prior
  <2>3. Prior(a, c)'
    BY <2>2, PriorStays
  <2>4. c \in Ids' /\ b \in job'[c].locks
    OBVIOUS
  <2>. QED  BY <2>3, <2>4 DEF Linked
<1>. QED  BY <1>1, <1>2

\* bind() of a barrier links the whole list to the whole next one.
LEMMA BindStages ==
    ASSUME StageInv, Bind
    PROVE  Single' /\ Filled' /\ GateLast' /\ Staged'
<1>1. CASE BindOutcome # "ok"
  <2>1. Raise(BindOutcome)
    BY <1>1 DEF Bind, BindOutcome
  <2>2. BindOutcome \in {"ValueError", "TypeError", "IndexError"}
    BY <1>1, BindErrors DEF BindOutcome
  <2>. QED  BY <2>1, <2>2, RaiseStages
<1>2. CASE BindOutcome = "ok"
  <2>1. Relocks(jobs0, BindTargets) /\ jobs0 \in SUBSET Ids
    BY <1>2, BindRelocks, StageTypes
  <2>2. Extends /\ Ids' = Ids
    BY <2>1, RelocksExtends DEF Relocks
  <2>3. pc = "bind" /\ pc' \in {"expand", "planned"} /\ steps' = steps
    BY <1>2 DEF Bind, BindOutcome
  <2>4. Single'
    BY <2>2, StaysSingle DEF StageInv
  <2>5. Filled' /\ GateLast'
    BY <2>3 DEF Filled, GateLast, InLoop
  <2>6. Staged'
    <3> SUFFICES ASSUME Synchronised', NEW a \in Ids, NEW b \in Ids,
                        Before(job[a].step, job[b].step)'
                 PROVE  Linked(a, b)'
      BY <2>2 DEF Staged
    <3>1. Synchronised /\ Before(job[a].step, job[b].step)
      BY <2>2, <2>3, SyncStays DEF Before, Extends
    <3>2. CASE Bounded(a, b)
      <4>1. Linked(a, b)
        BY <2>3, <3>1, <3>2 DEF StageInv, Staged, Active
      <4>. QED  BY <2>2, <4>1, LinkedStays
    <3>3. CASE ~ Bounded(a, b)
      <4>1. /\ Pos(b) = pos /\ Pos(a) < pos /\ pos > 1 /\ pos \in 1 .. Len(steps)
            /\ pos - 1 \in 1 .. Len(steps) - 1
        <5>1. ~ (Pos(b) < pos) /\ Pos(a) # pos
          BY <2>3, <3>3 DEF Bounded, InLoop
        <5>2. Pos(b) <= pos /\ Pos(a) <= pos /\ Pos(a) >= 1
          BY <2>3, StageTypes DEF Placed
        <5>3. pos <= Len(steps) /\ Len(steps) \in Nat
          BY <2>3, StageTypes DEF TypeOK
        <5>4. pos \in Nat /\ Pos(a) \in Nat /\ Pos(b) \in Nat
          BY StageTypes
        <5>. QED  BY <5>1, <5>2, <5>3, <5>4
      <4>2. /\ jobs0 = {i \in Ids : Pos(i) = pos - 1}
            /\ jobs1 = {i \in Ids : Pos(i) = pos}
        BY <2>3, StageTypes DEF Listed, Active
      <4>3. /\ steps[pos - 1].kind # "Iterate" /\ Count(steps[pos - 1]) > 0
            /\ steps[pos - 1].dist \in {"Arrange", "Distribute", "Collect"}
        BY <3>1, <4>1, StageTypes, SyncSteps
      <4>4. jobs0 # {}
        <5>1. Cardinality(jobs0) = Count(steps[pos - 1])
          BY <2>3, <4>1, <4>3, StageTypes DEF Sized, SizeOf, Active
        <5>. QED  BY <4>3, <5>1, FS_EmptySet
      <4>5. BindTargets = jobs1
        BY <4>1, <4>3 DEF BindTargets, LockedTargets
      <4>6. \A c \in jobs0 : b \in job'[c].locks
        BY <2>1, <4>1, <4>2, <4>5 DEF Relocks, Relocked
      <4>7. a \in jobs0 \/ \A c \in jobs0 : Before(job[a].step, job[c].step)
        <5>1. Pos(a) = pos - 1 \/ Pos(a) < pos - 1
          BY <4>1, StageTypes
        <5>. QED  BY <4>2, <5>1, BeforeIs
      <4>. QED  BY <2>1, <2>2, <4>4, <4>6, <4>7, Barriers
    <3>. QED  BY <3>2, <3>3
  <2>. QED  BY <2>4, <2>5, <2>6
<1>. QED  BY <1>1, <1>2

\* Entering Iterate.jobs() keeps the stages.
LEMMA EnterLoopStages ==
    ASSUME StageInv, EnterLoop
    PROVE  Single' /\ Filled' /\ GateLast' /\ Staged'
<1>1. /\ pc = "expand" /\ pc' \in {"bind", "it_expand"} /\ steps' = steps /\ job' = job
      /\ Ids' = Ids /\ loop' = EmptyLoop /\ EmptyLoop.it = 0
  BY DEF EnterLoop, Ids, EmptyLoop
<1>2. Extends
  BY <1>1 DEF Extends
<1>3. Single'
  BY <1>1, <1>2, StaysSingle DEF StageInv
<1>4. Filled' /\ GateLast'
  BY <1>1 DEF Filled, GateLast
<1>5. Staged'
  <2> SUFFICES ASSUME Synchronised', NEW a \in Ids, NEW b \in Ids,
                      Before(job[a].step, job[b].step)'
               PROVE  Linked(a, b)'
    BY <1>1 DEF Staged
  <2>1. Synchronised /\ Before(job[a].step, job[b].step) /\ Bounded(a, b)
    BY <1>1, SyncStays DEF Before, Bounded, InLoop
  <2>2. Linked(a, b)
    BY <1>1, <2>1 DEF StageInv, Staged, Active
  <2>. QED  BY <1>2, <2>2, LinkedStays
<1>. QED  BY <1>3, <1>4, <1>5

\* The last job of the iteration before stays the last job while the loop goes on.
LEMMA GateLastStays ==
    ASSUME StageInv, pc \in InLoop, Extends, pos' = pos, body' = body,
           loop'.it = loop.it, loop'.last_job = loop.last_job
    PROVE  GateLast'
<1> SUFFICES ASSUME Synchronised', loop.it > 0
             PROVE  /\ Nth(loop.last_job)' = Len(body)
                    /\ Pos(loop.last_job)' = pos /\ It(loop.last_job)' = loop.it - 1
  BY DEF GateLast
<1>1. Synchronised
  BY SyncStays DEF Extends
<1>2. /\ Nth(loop.last_job) = Len(body)
      /\ Pos(loop.last_job) = pos /\ It(loop.last_job) = loop.it - 1
  BY <1>1 DEF StageInv, GateLast
<1>3. loop.last_job \in Ids
  BY StageTypes, LoopFields DEF Gate
<1>. QED  BY <1>2, <1>3 DEF Extends, Pos, It, Nth

\* Step.jobs() in the body of a loop keeps the stages.
LEMMA LoopExpandStages ==
    ASSUME StageInv, LoopExpand
    PROVE  Single' /\ Filled' /\ GateLast' /\ Staged'
<1>1. CASE body = << >> \/ HasNoFirstWorker(body[loop.at])
  <2>1. Raise("IndexError")
    BY <1>1 DEF LoopExpand
  <2>. QED  BY <2>1, RaiseStages
<1>2. CASE ~ (body = << >> \/ HasNoFirstWorker(body[loop.at]))
  <2> DEFINE at == [pos |-> pos, iteration |-> loop.it, at |-> loop.at]
             step == body[loop.at]
             new == NewIds(step)
  <2>1. at \in Place /\ Fresh(at) /\ Adds(step, at)
    BY <1>2, LoopExpandAdds, StageTypes
  <2>2. /\ at.pos = pos /\ at.iteration = loop.it /\ at.at = loop.at
        /\ pc = "it_expand" /\ pc' = "it_bind" /\ steps' = steps /\ pos' = pos /\ body' = body
        /\ loop' = [loop EXCEPT !.jobs1 = new]
    BY <1>2 DEF LoopExpand, body
  <2>3. StepAt(at) = step
    BY <2>2, StageTypes DEF StepAt, PhaseOK, InLoop, body
  <2> HIDE DEF at, step, new
  <2>4. Single'
    BY <2>1, <2>3, AddsSingle
  <2>5. loop'.it = loop.it /\ loop'.at = loop.at /\ loop'.last_job = loop.last_job
    <3>1. loop \in LoopType(Ids)
      BY StageTypes, LoopGrows
    <3>. QED  BY <2>2, <3>1 DEF LoopType
  <2>6. Extends
    BY <2>1, AddsExtends
  <2>7. Filled' /\ GateLast'
    <3>1. GateLast'
      BY <2>2, <2>5, <2>6, GateLastStays DEF InLoop
    <3>. QED  BY <2>2, <3>1 DEF Filled
  <2>8. Staged'
    <3> SUFFICES ASSUME Synchronised', NEW a \in Ids', NEW b \in Ids',
                        Before(job[a].step, job[b].step)', Bounded(a, b)'
                 PROVE  Linked(a, b)'
      BY DEF Staged
    <3>1. /\ Ids' = Ids \cup new
          /\ \A i \in Ids : Pos(i)' = Pos(i) /\ It(i)' = It(i) /\ Nth(i)' = Nth(i)
          /\ \A i \in new : Pos(i)' = pos /\ It(i)' = loop.it /\ Nth(i)' = loop.at
      BY <2>1, <2>2, AddsPlaces DEF new
    <3>2. \A i \in Ids : \/ Pos(i) < pos
                         \/ Pos(i) = pos /\ It(i) < loop.it
                         \/ Pos(i) = pos /\ It(i) = loop.it /\ Nth(i) < loop.at
      BY <2>2, StageTypes DEF Placed, InLoop
    <3>3. \/ Pos(a)' < Pos(b)'
          \/ Pos(a)' = Pos(b)' /\ It(a)' < It(b)'
          \/ Pos(a)' = Pos(b)' /\ It(a)' = It(b)' /\ Nth(a)' < Nth(b)'
      BY DEF Before, Pos, It, Nth
    <3>4. \/ Pos(b)' < pos
          \/ Pos(a)' = pos /\ It(b)' < loop.it
          \/ Pos(a)' = pos /\ It(a)' = loop.it /\ Nth(b)' < loop.at
      BY <2>2, <2>5 DEF Bounded, InLoop
    <3>5. b \in Ids
      BY <3>1, <3>4, StageTypes
    <3>6. a \in Ids
      BY <3>1, <3>2, <3>3, <3>5, StageTypes
    <3>7. Linked(a, b)
      <4>1. Before(job[a].step, job[b].step)
        BY <3>1, <3>3, <3>5, <3>6, BeforeIs
      <4>2. Bounded(a, b) /\ Synchronised
        BY <2>2, <3>1, <3>4, <3>5, <3>6, SyncStays DEF Bounded
      <4>. QED  BY <2>2, <3>5, <3>6, <4>1, <4>2 DEF StageInv, Staged, Active, InLoop
    <3>. QED  BY <2>6, <3>5, <3>6, <3>7, LinkedStays
  <2>. QED  BY <2>4, <2>7, <2>8
<1>. QED  BY <1>1, <1>2

\* bind() of a barrier in a body links the whole list to the whole next one.
LEMMA LoopBindStages ==
    ASSUME StageInv, LoopBind
    PROVE  Single' /\ Filled' /\ GateLast' /\ Staged'
<1>1. CASE LoopBindOutcome # "ok"
  <2>1. Raise(LoopBindOutcome)
    BY <1>1 DEF LoopBind, LoopBindOutcome
  <2>2. LoopBindOutcome \in {"ValueError", "TypeError", "IndexError"}
    BY <1>1, BindErrors DEF LoopBindOutcome
  <2>. QED  BY <2>1, <2>2, RaiseStages
<1>2. CASE LoopBindOutcome = "ok"
  <2>1. Relocks(loop.jobs0, LoopBindTargets) /\ loop.jobs0 \in SUBSET Ids
    BY <1>2, LoopBindRelocks, StageTypes
  <2>2. Extends /\ Ids' = Ids
        /\ \A i \in Ids : Pos(i)' = Pos(i) /\ It(i)' = It(i) /\ Nth(i)' = Nth(i)
    BY <2>1, RelocksExtends, RelocksPlaces
  <2>3. /\ pc = "it_bind" /\ pc' \in {"it_expand", "it_end"}
        /\ steps' = steps /\ pos' = pos /\ body' = body
        /\ loop'.it = loop.it /\ loop'.last_job = loop.last_job
        /\ pc' = "it_end" => ~ (loop.at < Len(body))
    <3>1. loop \in LoopType(Ids)
      BY StageTypes, LoopGrows
    <3>. QED  BY <1>2, <3>1 DEF LoopBind, LoopBindOutcome, body, LoopType
  <2>4. /\ pc \in Active /\ pc \in InLoop /\ body # << >>
        /\ loop.at \in 1 .. Len(body) /\ Len(body) \in Nat
        /\ pos \in 1 .. Len(steps) /\ steps[pos].kind = "Iterate"
    <3>1. pc \in Active /\ pc \in InLoop /\ body # << >> /\ steps[pos].kind = "Iterate"
      BY <2>3, StageTypes DEF PhaseOK, Active, InLoop
    <3>. QED  BY <3>1, StageTypes, StepsHere
  <2>5. Single'
    BY <2>2, StaysSingle DEF StageInv
  <2>6. GateLast'
    BY <2>2, <2>3, <2>4, GateLastStays
  <2>7. /\ loop.jobs0
              = {i \in Ids : Pos(i) = pos /\ It(i) = loop.it /\ Nth(i) = loop.at - 1}
        /\ loop.jobs1
              = {i \in Ids : Pos(i) = pos /\ It(i) = loop.it /\ Nth(i) = loop.at}
        /\ \A i \in Ids : /\ Pos(i) >= 1 /\ Nth(i) >= 1
                          /\ \/ Pos(i) < pos
                             \/ Pos(i) = pos /\ It(i) < loop.it
                             \/ Pos(i) = pos /\ It(i) = loop.it /\ Nth(i) <= loop.at
    BY <2>3, StageTypes DEF Listed, Placed, InLoop
  <2>8. Filled'
    <3> SUFFICES ASSUME pc' = "it_end", Count(body[Len(body)]) > 0
                 PROVE  \E i \in Ids : Pos(i) = pos /\ It(i) = loop.it /\ Nth(i) = Len(body)
      BY <2>2, <2>3 DEF Filled
    <3>1. loop.at = Len(body)
      BY <2>3, <2>4
    <3>2. Cardinality(loop.jobs1) = Count(body[Len(body)])
      BY <2>3, <3>1, StageTypes DEF Sized
    <3>3. loop.jobs1 # {}
      BY <3>2, FS_EmptySet
    <3>. QED  BY <2>7, <3>1, <3>3
  <2>9. Staged'
    <3> SUFFICES ASSUME Synchronised', NEW a \in Ids, NEW b \in Ids,
                        Before(job[a].step, job[b].step)', Bounded(a, b)'
                 PROVE  Linked(a, b)'
      BY <2>2 DEF Staged
    <3>1. Synchronised /\ Before(job[a].step, job[b].step)
      BY <2>2, <2>3, SyncStays DEF Before, Extends
    <3>2. \/ Pos(b) < pos
          \/ Pos(a) = pos /\ It(b) < loop.it
          \/ Pos(a) = pos /\ It(a) = loop.it
      BY <2>2, <2>3 DEF Bounded, InLoop
    <3>3. CASE Bounded(a, b)
      <4>1. Linked(a, b)
        BY <2>4, <3>1, <3>3 DEF StageInv, Staged
      <4>. QED  BY <2>2, <4>1, LinkedStays
    <3>4. CASE ~ Bounded(a, b)
      <4>1. ~ (Pos(b) < pos) /\ ~ (Pos(a) = pos /\ It(b) < loop.it)
            /\ ~ (Nth(b) < loop.at) /\ Pos(a) = pos /\ It(a) = loop.it
        BY <2>3, <3>2, <3>4 DEF Bounded
      <4>2. /\ Pos(b) = pos /\ It(b) = loop.it /\ Nth(b) = loop.at
            /\ Nth(a) < loop.at /\ loop.at > 1
            /\ loop.at - 1 \in 1 .. Len(body) - 1
        <5>1. Pos(b) = pos /\ It(b) = loop.it /\ Nth(b) <= loop.at
          BY <2>7, <4>1, StageTypes
        <5>2. Nth(b) = loop.at
          BY <4>1, <5>1, StageTypes
        <5>3. Nth(a) < Nth(b)
          BY <3>1, <4>1, <5>1, BeforeIs, StageTypes
        <5>4. Nth(a) >= 1 /\ Nth(a) \in Nat /\ Nth(b) \in Nat
          BY <2>7, StageTypes
        <5>5. loop.at \in Nat /\ loop.at <= Len(body) /\ Len(body) \in Nat
          BY <2>4, StageTypes
        <5>. QED  BY <5>1, <5>2, <5>3, <5>4, <5>5
      <4>3. /\ Count(body[loop.at - 1]) > 0
            /\ body[loop.at - 1].dist \in {"Arrange", "Distribute", "Collect"}
        BY <2>4, <3>1, <4>2, StageTypes, SyncSteps DEF body
      <4>4. loop.jobs0 # {}
        <5>1. Cardinality(loop.jobs0) = Count(body[loop.at - 1])
          BY <2>3, <4>2, StageTypes DEF Sized
        <5>. QED  BY <4>3, <5>1, FS_EmptySet
      <4>5. LoopBindTargets = loop.jobs1
        BY <4>2, <4>3 DEF LoopBindTargets, LockedTargets
      <4>6. \A c \in loop.jobs0 : b \in job'[c].locks
        BY <2>1, <2>7, <4>2, <4>5 DEF Relocks, Relocked
      <4>7. a \in loop.jobs0 \/ \A c \in loop.jobs0 : Before(job[a].step, job[c].step)
        <5>1. Nth(a) = loop.at - 1 \/ Nth(a) < loop.at - 1
          BY <4>2, StageTypes
        <5>. QED  BY <2>7, <4>1, <5>1, BeforeIs
      <4>. QED  BY <2>1, <2>2, <4>4, <4>6, <4>7, Barriers
    <3>. QED  BY <3>3, <3>4
  <2>. QED  BY <2>5, <2>6, <2>8, <2>9
<1>. QED  BY <1>1, <1>2

\* In a synchronised body the last step has jobs, and the last of them is alone or the
\* end of a chain.
LEMMA LastStep ==
    ASSUME StageInv, pc = "it_end", Synchronised
    PROVE  /\ body # << >>
           /\ body[Len(body)].kind = "Sequential" \/ Count(body[Len(body)]) = 1
           /\ \E i \in Ids : Pos(i) = pos /\ It(i) = loop.it /\ Nth(i) = Len(body)
<1>1. /\ body # << >> /\ steps[pos].kind = "Iterate" /\ pos \in 1 .. Len(steps)
  BY StageTypes, StepsHere DEF PhaseOK, InLoop, Active
<1>2. body[Len(body)].kind = "Sequential" \/ Count(body[Len(body)]) = 1
  BY <1>1, StageTypes, SyncSteps DEF body
<1>3. Count(body[Len(body)]) > 0
  BY <1>2, NWorkersAssumption DEF Count
<1>. QED  BY <1>1, <1>2, <1>3 DEF StageInv, Filled

\* The single last job of an iteration links it to the next one.
LEMMA LoopEndStages ==
    ASSUME StageInv, LoopEnd
    PROVE  Single' /\ Filled' /\ GateLast' /\ Staged'
<1>1. CASE JobList = {}
  <2>1. Raise("IndexError")
    BY <1>1 DEF LoopEnd
  <2>. QED  BY <2>1, RaiseStages
<1>2. CASE JobList # {}
  <2> DEFINE A == {i \in Ids : i = loop.last_job}
             last == CHOOSE i \in JobList : \A n \in JobList : n <= i
             more == loop.it + 1 < steps[pos].iterations
  <2>1. Relocks(A, loop.it_jobs) /\ A \in SUBSET Ids
    BY <1>2, LoopEndRelocks, StageTypes
  <2>2. \A i \in Ids : i \in A <=> i = loop.last_job
    OBVIOUS
  <2> HIDE DEF A
  <2>3. Extends /\ Ids' = Ids
        /\ \A i \in Ids : Pos(i)' = Pos(i) /\ It(i)' = It(i) /\ Nth(i)' = Nth(i)
    BY <2>1, RelocksExtends, RelocksPlaces
  <2>4. /\ pc = "it_end" /\ steps' = steps /\ pos' = pos /\ body' = body
        /\ \/ /\ more /\ pc' = "it_expand"
              /\ loop'.it = loop.it + 1 /\ loop'.last_job = last
           \/ ~ more /\ pc' = "bind"
    BY <1>2 DEF LoopEnd, body, EmptyLoop
  <2>5. last \in JobList /\ \A n \in JobList : n <= last
    <3>1. JobList \in SUBSET Ids
      BY StageTypes, LoopFields DEF JobList
    <3>. QED  BY <1>2, <3>1, StageTypes, LastOfList
  <2> HIDE DEF last, more
  <2>6. /\ loop.job_list = {i \in Ids : Pos(i) = pos /\ It(i) < loop.it}
        /\ loop.it_jobs = {i \in Ids : Pos(i) = pos /\ It(i) = loop.it}
        /\ \A i \in Ids : /\ Pos(i) >= 1 /\ Nth(i) >= 1
                          /\ \/ Pos(i) < pos
                             \/ Pos(i) = pos /\ It(i) < loop.it
                             \/ Pos(i) = pos /\ It(i) = loop.it /\ Nth(i) <= loop.at
        /\ loop.at = Len(body)
    BY <2>4, StageTypes DEF Listed, Placed, InLoop, PhaseOK
  <2>7. Single'
    BY <2>3, StaysSingle DEF StageInv
  <2>8. Filled'
    BY <2>4 DEF Filled
  <2>9. GateLast'
    <3> SUFFICES ASSUME Synchronised, more
                 PROVE  Nth(last) = Len(body) /\ Pos(last) = pos /\ It(last) = loop.it
                        /\ last \in Ids
      <4>1. Synchronised' => Synchronised
        BY <2>4, SyncStays
      <4>2. (loop.it + 1) - 1 = loop.it
        BY StageTypes
      <4>. QED  BY <2>3, <2>4, <4>1, <4>2 DEF GateLast, InLoop, Pos, It, Nth
    <3>1. PICK f \in Ids : Pos(f) = pos /\ It(f) = loop.it /\ Nth(f) = Len(body)
      BY <2>4, LastStep
    <3>2. f \in JobList
      BY <2>6, <3>1 DEF JobList
    <3>3. f <= last /\ last \in Ids /\ Pos(last) = pos
      <4>1. f <= last
        BY <2>5, <3>2
      <4>2. last \in loop.job_list \/ last \in loop.it_jobs
        BY <2>5 DEF JobList
      <4>. QED  BY <2>6, <4>1, <4>2
    <3>4. ~ Before(job[last].step, job[f].step)
      <4>1. Before(job[last].step, job[f].step) => last < f
        BY <3>3, StageTypes DEF Grown
      <4>. QED  BY <3>3, <4>1, StageTypes
    <3>. QED  BY <2>6, <3>1, <3>3, <3>4, BeforeIs, StageTypes
  <2>10. Staged'
    <3> SUFFICES ASSUME Synchronised', NEW a \in Ids, NEW b \in Ids,
                        Before(job[a].step, job[b].step)', Bounded(a, b)'
                 PROVE  Linked(a, b)'
      BY <2>3 DEF Staged
    <3>1. Synchronised /\ Before(job[a].step, job[b].step) /\ pc \in Active
      BY <2>3, <2>4, SyncStays DEF Before, Extends, Active, InLoop
    <3>2. CASE Bounded(a, b)
      <4>1. Linked(a, b)
        BY <3>1, <3>2 DEF StageInv, Staged
      <4>. QED  BY <2>3, <4>1, LinkedStays
    <3>3. CASE ~ Bounded(a, b)
      <4>1. ~ (Pos(b) < pos) /\ ~ (Pos(a) = pos /\ It(b) < loop.it)
            /\ ~ (Pos(a) = pos /\ It(a) = loop.it)
        BY <2>4, <3>3 DEF Bounded
      <4>2. Pos(a) = pos
        <5>1. CASE pc' = "bind"
          <6>1. Pos(b) < pos \/ Pos(a) = pos
            BY <2>3, <2>4, <5>1 DEF Bounded
          <6>. QED  BY <4>1, <6>1
        <5>2. CASE pc' = "it_expand"
          <6>1. Pos(b) < pos \/ Pos(a) = pos
            BY <2>3, <2>4, <5>2 DEF Bounded, InLoop
          <6>. QED  BY <4>1, <6>1
        <5>. QED  BY <2>4, <5>1, <5>2
      <4>3. /\ Pos(b) = pos /\ It(b) = loop.it /\ It(a) < loop.it /\ loop.it > 0
            /\ a \in loop.job_list /\ b \in loop.it_jobs
        <5>1. Pos(b) = pos /\ It(b) = loop.it
          BY <2>6, <3>1, <4>1, <4>2, BeforeIs, StageTypes
        <5>2. It(a) < loop.it
          BY <2>6, <4>1, <4>2, StageTypes
        <5>. QED  BY <2>6, <4>2, <5>1, <5>2, StageTypes
      <4>4. /\ loop.last_job \in Ids /\ a <= loop.last_job
            /\ Nth(loop.last_job) = Len(body) /\ Pos(loop.last_job) = pos
            /\ It(loop.last_job) = loop.it - 1
        <5>1. pc \in InLoop
          BY <2>4 DEF InLoop
        <5>2. loop.last_job \in loop.job_list /\ a <= loop.last_job
          BY <4>3, <5>1, StageTypes DEF Gate
        <5>. QED  BY <2>6, <3>1, <4>3, <5>1, <5>2 DEF StageInv, GateLast
      <4>5. PICK c \in Ids : /\ c = loop.last_job /\ a <= c
                             /\ Nth(c) = Len(body) /\ Pos(c) = pos /\ It(c) = loop.it - 1
        BY <4>4
      <4>10. b \in job'[c].locks
        BY <2>1, <2>2, <4>3, <4>5 DEF Relocks, Relocked
      <4>6. c = a \/ Prior(a, c)
        <5>0. /\ a \in Nat /\ c \in Nat /\ a <= c
              /\ Pos(a) \in Nat /\ It(a) \in Nat /\ Nth(a) \in Nat
              /\ Pos(c) \in Nat /\ It(c) \in Nat /\ Nth(c) \in Nat
          BY <4>5, StageTypes
        <5>1. ~ Before(job[c].step, job[a].step)
          <6>1. Before(job[c].step, job[a].step) => c < a
            <7>1. Grown
              BY StageTypes
            <7>. QED  BY <7>1 DEF Grown
          <6>. QED  BY <5>0, <6>1
        <5>2. CASE Before(job[a].step, job[c].step)
          BY <5>2 DEF Prior
        <5>3. CASE ~ Before(job[a].step, job[c].step)
          <6>1. Pos(a) = Pos(c) /\ It(a) = It(c) /\ Nth(a) = Nth(c)
            BY <5>0, <5>1, <5>3, BeforeIs
          <6>2. job[a].step = job[c].step
            <7>1. \A p, q \in Place :
                     p.pos = q.pos /\ p.iteration = q.iteration /\ p.at = q.at => p = q
              BY DEF Place
            <7>2. job[a].step \in Place /\ job[c].step \in Place
              BY <4>5, StageTypes
            <7>. QED  BY <6>1, <7>1, <7>2 DEF Pos, It, Nth
          <6>3. StepAt(job[c].step) = body[Len(body)]
                /\ KindAt(job[c].step) = body[Len(body)].kind
            <7>1. steps[pos].kind = "Iterate"
              BY <2>4, StageTypes DEF PhaseOK, InLoop
            <7>. QED  BY <4>5, <7>1 DEF StepAt, KindAt, body, Pos, Nth
          <6>4. CASE body[Len(body)].kind = "Sequential"
            BY <5>0, <6>2, <6>3, <6>4 DEF Prior
          <6>5. CASE Count(body[Len(body)]) = 1
            BY <4>5, <6>2, <6>3, <6>5 DEF StageInv, Single
          <6>. QED  BY <2>4, <3>1, <6>4, <6>5, LastStep
        <5>. QED  BY <5>2, <5>3
      <4>7. Prior(a, c) => Prior(a, c)'
        BY <2>3, <4>5, PriorStays
      <4>. QED  BY <2>3, <4>5, <4>10, <4>6, <4>7 DEF Linked
    <3>. QED  BY <3>2, <3>3
  <2>. QED  BY <2>7, <2>8, <2>9, <2>10
<1>. QED  BY <1>1, <1>2

\* There are no jobs at first.
LEMMA InitStages == Init => Single /\ Filled /\ GateLast /\ Staged
<1> SUFFICES ASSUME Init PROVE Single /\ Filled /\ GateLast /\ Staged
  OBVIOUS
<1>1. Ids = {} /\ pc \in {"planned", "expand"}
  BY DEF Init, Ids
<1>. QED  BY <1>1 DEF Single, Filled, GateLast, Staged, InLoop

\* The stages depend on the variables of the plan only.
LEMMA SameStages ==
    ASSUME StageInv, UNCHANGED vars
    PROVE  Single' /\ Filled' /\ GateLast' /\ Staged'
<1>1. /\ steps' = steps /\ job' = job /\ Ids' = Ids /\ pc' = pc /\ pos' = pos
      /\ loop' = loop /\ body' = body
  BY DEF vars, Ids, body
<1>2. Extends
  BY <1>1 DEF Extends
<1>3. Single'
  BY <1>1, <1>2, StaysSingle DEF StageInv
<1>4. Filled' /\ GateLast'
  BY <1>1, SyncStays DEF StageInv, Filled, GateLast, Pos, It, Nth
<1>5. Staged'
  <2> SUFFICES ASSUME pc \in Active \cup {"planned"}, Synchronised', NEW a \in Ids, NEW b \in Ids,
                      Before(job[a].step, job[b].step)', Bounded(a, b)'
               PROVE  Linked(a, b)'
    BY <1>1 DEF Staged
  <2>1. Synchronised /\ Before(job[a].step, job[b].step) /\ Bounded(a, b)
    BY <1>1, SyncStays DEF Before, Bounded, Pos, It, Nth
  <2>2. Linked(a, b)
    BY <2>1 DEF StageInv, Staged
  <2>. QED  BY <1>2, <2>2, LinkedStays
<1>. QED  BY <1>3, <1>4, <1>5

\* Every step of the binding procedure keeps the stages.
LEMMA PlanningStages ==
    ASSUME StageInv, Planning
    PROVE  Single' /\ Filled' /\ GateLast' /\ Staged'
BY ExpandStages, BindStages, EnterLoopStages, LoopExpandStages, LoopBindStages,
   LoopEndStages DEF Planning

\* And so does every step of the composed system.
LEMMA ExecKeepsStages == StageInv /\ [ExecNext]_allvars => StageInv'
<1>1. StageInv /\ Preparing => StageInv'
  BY PlanningKeeps, PlanningSized, PlanningStages DEF Preparing, StageInv, SizedPlan
<1>2. StageInv /\ UNCHANGED vars => StageInv'
  BY SamePlan, SameSized, SameStages DEF StageInv, SizedPlan
<1>3. StageInv /\ Executing => StageInv'
  BY <1>2 DEF Executing
<1>4. StageInv /\ UNCHANGED allvars => StageInv'
  BY <1>2 DEF allvars
<1>. QED  BY <1>1, <1>3, <1>4 DEF ExecNext

\* In a synchronised artifact a job is locked, over one or more locks, by all the jobs of
\* the earlier steps and iterations, as far as the binding has come.
THEOREM StagesCorrect == ExecSpec => []StageInv
<1>1. ExecInit => StageInv
  BY InitPlan, InitSized, InitStages DEF ExecInit, StageInv, SizedPlan
<1>2. StageInv /\ [ExecNext]_allvars => StageInv'
  BY ExecKeepsStages
<1>. QED  BY <1>1, <1>2, PTL DEF ExecSpec

\* A job of a synchronised artifact starts after all the jobs of the earlier steps and
\* iterations: by the locks it waits for one of them that comes after the others or is
\* the one in question, which itself was offered only after those.
THEOREM StagesInOrder == ExecSpec => []StageOrder
<1>1. StageInv /\ Ordered => StageOrder
  <2> SUFFICES ASSUME StageInv, Ordered, pc = "planned", Synchronised
               PROVE  \A b \in offered, a \in Ids :
                         Before(job[a].step, job[b].step) => a \in finished
    BY StageTypes DEF StageOrder
  <2> DEFINE Early(a, b) == Prior(a, b) /\ a \notin finished
             Bad == {b \in offered : \E a \in Ids : Early(a, b)}
  <2>1. offered \subseteq Ids /\ Ids \subseteq Nat
    BY StageTypes DEF Ordered
  <2>2. SUFFICES ASSUME Bad # {} PROVE FALSE
    BY DEF Prior
  <2>3. PICK b \in Bad : \A d \in Bad : b <= d
    <3>1. Bad \in SUBSET Nat
      BY <2>1
    <3> HIDE DEF Bad
    <3>. QED  BY <2>2, <3>1, LeastNatural
  <2>4. PICK a \in Ids : Early(a, b)
    OBVIOUS
  <2>5. b \in offered /\ b \in Ids /\ b \in Nat
    BY <2>1
  <2>6. Linked(a, b)
    <3>1. CASE Before(job[a].step, job[b].step)
      <4>1. Bounded(a, b)
        BY DEF Bounded, InLoop
      <4>. QED  BY <2>5, <3>1, <4>1 DEF StageInv, Staged
    <3>2. CASE a < b /\ job[a].step = job[b].step /\ KindAt(job[b].step) = "Sequential"
      <4>1. job[b - 1].step = job[b].step /\ b \in job[b - 1].locks
        BY <2>5, <3>2, StageTypes DEF PlanInv, Chained
      <4>2. b - 1 \in Ids
        BY <2>5, <3>2, StageTypes DEF Ids
      <4>3. b - 1 = a \/ Prior(a, b - 1)
        <5>1. a \in Nat /\ b \in Nat
          BY <2>1, <2>5
        <5>2. b - 1 = a \/ a < b - 1
          BY <3>2, <5>1
        <5>. QED  BY <3>2, <4>1, <5>2 DEF Prior
      <4>. QED  BY <4>1, <4>2, <4>3 DEF Linked
    <3>. QED  BY <2>4, <3>1, <3>2 DEF Prior
  <2>7. PICK c \in Ids : b \in job[c].locks /\ (c = a \/ Prior(a, c))
    BY <2>6 DEF Linked
  <2>8. c \in finished /\ c \in offered
    BY <2>5, <2>7 DEF Ordered
  <2>9. c \in Bad
    BY <2>4, <2>7, <2>8
  <2>10. c < b
    <3>1. job[c].locks \subseteq c + 1 .. current_id - 1
      BY StageTypes DEF PlanInv, LocksForward
    <3>. QED  BY <2>5, <2>7, <3>1, StageTypes
  <2>. QED  BY <2>1, <2>3, <2>5, <2>9, <2>10
<1>. QED  BY <1>1, StagesCorrect, OrderedCorrect, PTL
=============================================================================
