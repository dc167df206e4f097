----------------------------- MODULE Federation -----------------------------
(***************************************************************************)
(* One artifact in a running federation: the scheduler node (Scheduler),    *)
(* the Execution actors that carry out its jobs on the scheduler itself, on *)
(* nodes and on clients (tasks/services/execution.py), the heartbeat of the *)
(* clients (tasks/jobs/heartbeat.py), and the failures the code can meet.   *)
(*                                                                         *)
(* Faults names the failures that may happen in a run:                      *)
(*   "work"     a step raises, or a resource cannot be fetched or sent      *)
(*   "timeout"  httpx gives up on a request that the server still serves    *)
(*   "remote"   the POST that starts a task on a node raises                *)
(*   "crash"    the scheduler stops and starts again: the database stays,   *)
(*              the coroutines and their lock are gone                      *)
(***************************************************************************)
EXTENDS Scheduler

CONSTANT Faults

ASSUME FaultsAssumption == Faults \subseteq {"work", "timeout", "remote", "crash"}

RunStates ==
    {"none", "launched", "fetching", "working", "stored", "reporting", "failing", "over"}

vars == serverVars

\* Every row, coroutine and execution stays in its type: update_status is only ever
\* given statuses of artifacts, and a call always returns to where it came from.
TypeOK ==
    /\ StoreTypeOK
    /\ handler \in [Requests -> Handler]
    /\ run \in [Runs -> RunStates]

Init == ServerInit

\* the answer has been read
Close(q) == handler' = [handler EXCEPT ![q] = Idle]

Become(r, state) == run' = [run EXCEPT ![r] = state]

-----------------------------------------------------------------------------
(* TaskExecutionService.run, for the execution r of the job r[1]. *)

\* The component in whose name an execution speaks.  On a node, start_task passes the
\* component that sent the task, which is the scheduler.
ComponentId(j) == IF Place[j] = "NODE" THEN "SELF" ELSE Place[j]

\* check_signature: the signature, made with the private key of the component that runs
\* the execution, must fit the public key of the one it names.
Verified(r) == ComponentId(r[1]) = Place[r[1]]

GetTask(r) ==
    /\ run[r] = "launched"
    /\ Verified(r)
    /\ Become(r, "fetching")
    /\ Begin(<<r, "get">>, "task_read")
    /\ UNCHANGED store

\* 403, Access Denied: for the task, and then for the error report
GetRefused(r) ==
    /\ run[r] = "launched"
    /\ ~Verified(r)
    /\ Become(r, "over")
    /\ UNCHANGED <<store, handler>>

GotTask(r) ==
    /\ run[r] = "fetching"
    /\ \/ At(<<r, "get">>, "ok") /\ Become(r, "working")
       \/ At(<<r, "get">>, "failed") /\ Become(r, "failing")
    /\ Close(<<r, "get">>)
    /\ UNCHANGED store

\* task.run, env.store and post_resource to every next node
StoreProduct(r) ==
    /\ run[r] = "working"
    /\ Become(r, "stored")
    /\ WriteFile(r[1], "product")
    /\ UNCHANGED handler

\* Mutant: the report does not wait for the product to be stored.
PostDoneEarly(r) ==
    /\ run[r] \in {"working", "stored"}
    /\ Become(r, "reporting")
    /\ Begin(<<r, "done">>, "lock")
    /\ UNCHANGED store

PostDone(r) ==
    /\ run[r] = "stored"
    /\ Become(r, "reporting")
    /\ Begin(<<r, "done">>, "lock")
    /\ UNCHANGED store

DoneAnswered(r) ==
    /\ run[r] = "reporting"
    /\ \/ At(<<r, "done">>, "ok") /\ Become(r, "over")
       \/ At(<<r, "done">>, "failed") /\ Become(r, "failing")
    /\ Close(<<r, "done">>)
    /\ UNCHANGED store

PostError(r) ==
    /\ run[r] = "failing"
    /\ Become(r, "over")
    /\ Begin(<<r, "error">>, "fail_select")
    /\ UNCHANGED store

ExecutionStep(r) ==
    \/ GetTask(r) \/ GetRefused(r) \/ GotTask(r) \/ StoreProduct(r)
    \/ PostDone(r) \/ DoneAnswered(r) \/ PostError(r)

-----------------------------------------------------------------------------
(* The heartbeat of a client: ask for the next SCHEDULED job, start it, and  *)
(* forget about it.  Until the execution has fetched its task the job is     *)
(* still SCHEDULED, so the next beat may start it again.                     *)

Beat(j) ==
    /\ Place[j] = "CLIENT"
    /\ job[j] = "SCHEDULED"
    /\ \E n \in 1 .. MaxRuns[j] : run[<<j, n>>] = "none"
    /\ StartExec(j)
    /\ UNCHANGED <<store, handler>>

-----------------------------------------------------------------------------
(* Failures. *)

\* Mutant: the exception is logged and not reported.
WorkFailsSilently(r) ==
    /\ "work" \in Faults
    /\ run[r] \in {"working", "stored"}
    /\ Become(r, "over")
    /\ UNCHANGED <<store, handler>>

WorkFails(r) ==
    /\ "work" \in Faults
    /\ run[r] \in {"working", "stored"}
    /\ Become(r, "failing")
    /\ UNCHANGED <<store, handler>>

Timeout(r) ==
    /\ "timeout" \in Faults
    /\ run[r] \in {"fetching", "reporting"}
    /\ Become(r, "failing")
    /\ UNCHANGED <<store, handler>>

RemoteFails(q) ==
    /\ "remote" \in Faults
    /\ SendTaskFails(q)

\* every open connection breaks; nothing in node/startup.py resumes an artifact
Crash ==
    /\ "crash" \in Faults
    /\ handler # [q \in Requests |-> Idle]
    /\ handler' = [q \in Requests |-> Idle]
    /\ run' = [r \in Runs |-> IF run[r] \in {"fetching", "reporting"} THEN "failing" ELSE run[r]]
    /\ UNCHANGED store

\* the error report finds no server either
LoseReport(r) ==
    /\ "crash" \in Faults
    /\ run[r] = "failing"
    /\ Become(r, "over")
    /\ UNCHANGED <<store, handler>>

FaultStep ==
    \/ \E r \in Runs : WorkFails(r) \/ Timeout(r) \/ LoseReport(r)
    \/ \E q \in Requests : RemoteFails(q)
    \/ Crash

-----------------------------------------------------------------------------
Next ==
    \/ \E q \in Requests : HandlerStep(q)
    \/ \E r \in Runs : ExecutionStep(r)
    \/ \E j \in Jobs : Beat(j)
    \/ FaultStep

Spec == Init /\ [][Next]_vars

\* asyncio serves every coroutine, an actor that runs goes on, and a client never
\* stops beating; failures are never forced
Fairness ==
    /\ \A q \in Requests : WF_vars(HandlerStep(q))
    /\ \A r \in Runs : WF_vars(ExecutionStep(r))
    /\ \A j \in Jobs : WF_vars(Beat(j))

FairSpec == Spec /\ Fairness

-----------------------------------------------------------------------------
\* The jobs that a worker may have been given: check moved them on from WAITING.
Offered == Jobs \ (JobsIn(Absent) \cup JobsIn("WAITING"))

Order == INSTANCE DependencyOrder WITH
    jobs <- Jobs, graph <- Locks, offered <- Offered, finished <- is_ready

\* "This locking mechanism [...] defines the order of jobs" (scheduling.rst): whatever
\* the interleaving of requests, retries, timeouts and restarts, a job is offered to a
\* worker only once the resources of all the jobs that lock it are declared ready.
ImplementsDependencyOrder == Order!Spec

\* A job that a worker may start finds all its inputs: each job that locks it has its
\* resource marked ready AND something in the file of the resource, although the row
\* and the file are written by different requests of different processes.
InputsStored ==
    \A k \in Offered : \A p \in Pred(k) : p \in is_ready /\ content[p] # "nothing"

AtRest(q) == handler[q].pc \in {"idle", "ok", "failed"}

Quiet ==
    /\ \A q \in Requests : AtRest(q)
    /\ \A r \in Runs : run[r] \in {"none", "over"}

\* Nothing polls the tables: only the check at the end of a submission or of post_done
\* schedules and launches jobs, and it ends early, with the rest of its list untouched,
\* if another request has scheduled a job of that list.  Still, when everything has come
\* to rest without an error and the clients have nothing left to ask for, no job is left
\* WAITING with all its locks open, none is left SCHEDULED, and none is left RUNNING: no
\* execution has ended without a report.
NoJobForgotten ==
    Quiet /\ JobsIn("ERROR") = {} /\ (\A j \in JobsIn("SCHEDULED") : Place[j] # "CLIENT") =>
        /\ \A k \in JobsIn("WAITING") : ~ (Pred(k) \subseteq is_ready)
        /\ JobsIn("SCHEDULED") = {} /\ JobsIn("RUNNING") = {}

\* An artifact is COMPLETED only when all its jobs are, although check reads the jobs in
\* one statement and writes the artifact in a later one, and other requests write the
\* artifact too.
CompletedMeansAll == artifact = "COMPLETED" => Jobs = JobsIn("COMPLETED")

\* A COMPLETED artifact is never taken up again by a late check or a late task_started.
CompletedIsFinal == [][artifact = "COMPLETED" => artifact' = "COMPLETED"]_artifact

\* Every artifact comes to an end: it is COMPLETED with all its jobs and stays so, or
\* some job of it is in ERROR.
Settles ==
    <>[]\/ artifact = "COMPLETED" /\ Jobs = JobsIn("COMPLETED")
        \/ JobsIn("ERROR") # {}

\* Execution: "component_id (str): The worker node id." (tasks/jobs/execution.py), which
\* is what makes the scheduler accept its requests.
WorkerNamesItself == \A r \in Runs : run[r] # "none" => ComponentId(r[1]) = Place[r[1]]

\* schedule_job: "Change the state of a job from WAITING to SCHEDULED."
ScheduledFromWaiting ==
    [][\A j \in Jobs : job'[j] = "SCHEDULED" => job[j] \in {"WAITING", "SCHEDULED"}]_job

=============================================================================
