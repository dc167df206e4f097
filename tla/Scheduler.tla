----------------------------- MODULE Scheduler -----------------------------
(***************************************************************************)
(* The scheduler node: JobManagementService, TaskManagementService and the  *)
(* routes that call them (node/services/jobs.py, node/services/tasks.py,    *)
(* node/routes/task.py, node/routes/workbench.py).                          *)
(*                                                                         *)
(* Every HTTP request is served by a coroutine of its own with its own      *)
(* database session; "handler" holds the program counter and the locals of  *)
(* each of them.  A step goes from one database statement to the next,      *)
(* which is where asyncio may switch to another coroutine.                  *)
(***************************************************************************)
EXTENDS JobStore, Naturals

CONSTANTS
    Place,      \* where the component of a job is: "SELF", "NODE" or "CLIENT"
    MaxRuns,    \* bound: executions started for each job
    Submit,     \* the request that submits the artifact
    NoJob       \* no job selected

Runs == UNION {{j} \X (1 .. MaxRuns[j]) : j \in Jobs}
TaskRequests == Runs \X {"get", "done", "error"}
Requests == TaskRequests \cup {Submit}

ASSUME SchedulerAssumption ==
    /\ Place \in [Jobs -> {"SELF", "NODE", "CLIENT"}]
    /\ MaxRuns \in [Jobs -> Nat]
    /\ Submit \notin TaskRequests
    /\ NoJob \notin Jobs

JobOf(q) == q[1][1]

VARIABLES
    handler,    \* the coroutine of each request
    run         \* the Execution actors, by job and number

serverVars == <<store, handler, run>>

Locations ==
    {"idle", "create_artifact", "create_jobs", "add_locks",
     "lock", "complete_select", "complete_commit", "mark_done", "unlock",
     "list_unlocked", "schedule_select", "schedule_commit", "list_jobs",
     "artifact_select", "artifact_commit",
     "tms_artifact", "tms_list", "tms_launch", "send_task",
     "task_read", "start_select", "start_commit",
     "fail_select", "fail_commit", "mark_error", "write_error",
     "ok", "failed"}

Idle == [pc |-> "idle", job |-> NoJob, todo |-> {}, started |-> FALSE,
         want |-> "RUNNING", after |-> "idle"]

Handler == [pc : Locations, job : Jobs \cup {NoJob}, todo : SUBSET Jobs, started : BOOLEAN,
            want : ArtifactJobStatus, after : Locations]

At(q, pc) == handler[q].pc = pc

\* the coroutine answers and keeps nothing; anything else is the next location
Goto(q, pc) ==
    handler' = [handler EXCEPT ![q] = IF pc \in {"ok", "failed"}
                                      THEN [Idle EXCEPT !.pc = pc]
                                      ELSE [@ EXCEPT !.pc = pc]]

\* a request of an execution arrives: its coroutine starts at the first location
Begin(q, pc) ==
    handler' = [handler EXCEPT ![q] =
                   [Idle EXCEPT !.pc = pc, !.job = JobOf(q), !.after = "ok"]]

\* continue with ArtifactRepository.update_status(want), then at "after"
UpdateArtifact(q, want, after) ==
    handler' = [handler EXCEPT ![q] =
                   [@ EXCEPT !.pc = "artifact_select", !.want = want, !.after = after]]

\* back from a call: go on at "after"
Return(q) ==
    handler' = [handler EXCEPT ![q] =
        IF handler[q].after \in {"ok", "failed"}
        THEN [Idle EXCEPT !.pc = handler[q].after]
        ELSE [@ EXCEPT !.pc = handler[q].after, !.want = "RUNNING", !.after = "idle"]]

NextRun(j) == CHOOSE n \in 1 .. MaxRuns[j] :
                 run[<<j, n>>] = "none" /\ \A m \in 1 .. (n - 1) : run[<<j, m>>] # "none"

\* Backend.start_exec: a new Execution actor, never waited for
StartExec(j) ==
    run' = IF \E n \in 1 .. MaxRuns[j] : run[<<j, n>>] = "none"
           THEN [run EXCEPT ![<<j, NextRun(j)>>] = "launched"]
           ELSE run

-----------------------------------------------------------------------------
(* ArtifactRepository.update_status: reads the row, writes it if it differs. *)

ArtifactSelect(q) ==
    /\ At(q, "artifact_select")
    /\ IF artifact = handler[q].want THEN Return(q) ELSE Goto(q, "artifact_commit")
    /\ UNCHANGED <<store, run>>

ArtifactCommit(q) ==
    /\ At(q, "artifact_commit")
    /\ SetArtifact(handler[q].want)
    /\ Return(q)
    /\ UNCHANGED run

-----------------------------------------------------------------------------
(* submit_artifact and schedule_tasks. *)

CreateArtifact(q) ==
    /\ At(q, "create_artifact")
    /\ InsertArtifact
    /\ Goto(q, "create_jobs")
    /\ UNCHANGED run

CreateJob(q, j) ==
    /\ At(q, "create_jobs")
    /\ job[j] = Absent
    /\ InsertJob(j)
    /\ handler' = IF Created \cup {j} = Jobs
                  THEN [handler EXCEPT ![q] = [@ EXCEPT !.pc = "add_locks", !.todo = Jobs]]
                  ELSE handler
    /\ UNCHANGED run

AddLocks(q, j) ==
    /\ At(q, "add_locks")
    /\ j \in handler[q].todo
    /\ InsertLocks(j)
    /\ handler' = [handler EXCEPT ![q] =
          [@ EXCEPT !.pc = IF handler[q].todo = {j} THEN "list_unlocked" ELSE "add_locks",
                    !.todo = handler[q].todo \ {j}]]
    /\ UNCHANGED run

-----------------------------------------------------------------------------
(* JobManagementService.check. *)

ListUnlocked(q) ==
    /\ At(q, "list_unlocked")
    /\ handler' = [handler EXCEPT ![q] =
          [@ EXCEPT !.pc = "schedule_select", !.job = NoJob,
                    !.todo = UnlockedJobs \cap JobsIn("WAITING")]]
    /\ UNCHANGED <<store, run>>

\* jr.schedule_job(job): SELECT ... WHERE status = WAITING.  No row is a ValueError,
\* which ends the whole request.
ScheduleSelect(q, j) ==
    /\ At(q, "schedule_select")
    /\ j \in handler[q].todo
    /\ IF job[j] = "WAITING"
       THEN handler' = [handler EXCEPT ![q] = [@ EXCEPT !.pc = "schedule_commit", !.job = j]]
       ELSE Goto(q, "failed")
    /\ UNCHANGED <<store, run>>

ScheduleCommit(q) ==
    /\ At(q, "schedule_commit")
    /\ SetJob(handler[q].job, "SCHEDULED")
    /\ handler' = [handler EXCEPT ![q] =
          [@ EXCEPT !.pc = "schedule_select", !.job = NoJob,
                    !.todo = handler[q].todo \ {handler[q].job}, !.started = TRUE]]
    /\ UNCHANGED run

ScheduleEnd(q) ==
    /\ At(q, "schedule_select")
    /\ handler[q].todo = {}
    /\ IF handler[q].started
       THEN handler' = [handler EXCEPT ![q] =
               [@ EXCEPT !.pc = "artifact_select", !.started = FALSE, !.after = "list_jobs"]]
       ELSE Goto(q, "list_jobs")
    /\ UNCHANGED <<store, run>>

\* Mutant: the artifact is complete as soon as no job is under way.
ListJobsUnderWay(q) ==
    /\ At(q, "list_jobs")
    /\ IF JobsIn("SCHEDULED") \cup JobsIn("RUNNING") = {}
       THEN UpdateArtifact(q, "COMPLETED", "tms_artifact")
       ELSE Goto(q, "tms_artifact")
    /\ UNCHANGED <<store, run>>

ListJobs(q) ==
    /\ At(q, "list_jobs")
    /\ IF Created = JobsIn("COMPLETED")
       THEN UpdateArtifact(q, "COMPLETED", "tms_artifact")
       ELSE Goto(q, "tms_artifact")
    /\ UNCHANGED <<store, run>>

-----------------------------------------------------------------------------
(* TaskManagementService.check. *)

TmsArtifact(q) ==
    /\ At(q, "tms_artifact")
    /\ Goto(q, IF artifact = "RUNNING" THEN "tms_list" ELSE "ok")
    /\ UNCHANGED <<store, run>>

TmsList(q) ==
    /\ At(q, "tms_list")
    /\ handler' = [handler EXCEPT ![q] = [@ EXCEPT !.pc = "tms_launch", !.todo = JobsIn("SCHEDULED")]]
    /\ UNCHANGED <<store, run>>

StartLocally(q, j) ==
    /\ At(q, "tms_launch")
    /\ j \in handler[q].todo
    /\ Place[j] = "SELF"
    /\ StartExec(j)
    /\ handler' = [handler EXCEPT ![q] = [@ EXCEPT !.todo = handler[q].todo \ {j}]]
    /\ UNCHANGED store

\* "postponed to heartbeat"
PostponeToHeartbeat(q, j) ==
    /\ At(q, "tms_launch")
    /\ j \in handler[q].todo
    /\ Place[j] = "CLIENT"
    /\ handler' = [handler EXCEPT ![q] = [@ EXCEPT !.todo = handler[q].todo \ {j}]]
    /\ UNCHANGED <<store, run>>

\* start_remote fetches the task in the name of the node: the job is RUNNING before
\* the node has heard of it
StartRemote(q, j) ==
    /\ At(q, "tms_launch")
    /\ j \in handler[q].todo
    /\ Place[j] = "NODE"
    /\ handler' = [handler EXCEPT ![q] =
          [@ EXCEPT !.pc = "task_read", !.job = j, !.after = "send_task"]]
    /\ UNCHANGED <<store, run>>

SendTask(q) ==
    /\ At(q, "send_task")
    /\ StartExec(handler[q].job)
    /\ handler' = [handler EXCEPT ![q] =
          [@ EXCEPT !.pc = "tms_launch", !.job = NoJob,
                    !.todo = handler[q].todo \ {handler[q].job}]]
    /\ UNCHANGED store

\* httpx.post or raise_for_status raises: the node may or may not have the task
SendTaskFails(q) ==
    /\ At(q, "send_task")
    /\ StartExec(handler[q].job) \/ UNCHANGED run
    /\ Goto(q, "failed")
    /\ UNCHANGED store

LaunchEnd(q) ==
    /\ At(q, "tms_launch")
    /\ handler[q].todo = {}
    /\ Goto(q, "ok")
    /\ UNCHANGED <<store, run>>

-----------------------------------------------------------------------------
(* get_task_by_job_id and task_started.  A job that is no longer SCHEDULED  *)
(* is only warned about: the task is returned all the same.                 *)

TaskRead(q) ==
    /\ At(q, "task_read")
    /\ Goto(q, IF job[handler[q].job] = "SCHEDULED" THEN "start_select" ELSE handler[q].after)
    /\ UNCHANGED <<store, run>>

StartSelect(q) ==
    /\ At(q, "start_select")
    /\ Goto(q, IF job[handler[q].job] = "SCHEDULED" THEN "start_commit" ELSE "failed")
    /\ UNCHANGED <<store, run>>

StartCommit(q) ==
    /\ At(q, "start_commit")
    /\ SetJob(handler[q].job, "RUNNING")
    /\ UpdateArtifact(q, "RUNNING", handler[q].after)
    /\ UNCHANGED run

-----------------------------------------------------------------------------
(* post_done: task_completed, check and check under the lock of the route. *)

InLock(q) == q \in TaskRequests /\ q[2] = "done" /\ handler[q].pc \notin {"idle", "lock", "ok", "failed"}

\* Mutant: no "async with args.lock".
AcquireNothing(q) ==
    /\ At(q, "lock")
    /\ Goto(q, "complete_select")
    /\ UNCHANGED <<store, run>>

Acquire(q) ==
    /\ At(q, "lock")
    /\ \A other \in Requests : ~InLock(other)
    /\ Goto(q, "complete_select")
    /\ UNCHANGED <<store, run>>

CompleteSelect(q) ==
    /\ At(q, "complete_select")
    /\ Goto(q, IF job[handler[q].job] = "RUNNING" THEN "complete_commit" ELSE "failed")
    /\ UNCHANGED <<store, run>>

CompleteCommit(q) ==
    /\ At(q, "complete_commit")
    /\ SetJob(handler[q].job, "COMPLETED")
    /\ Goto(q, "mark_done")
    /\ UNCHANGED run

MarkDone(q) ==
    /\ At(q, "mark_done")
    /\ MarkAsDone(handler[q].job)
    /\ Goto(q, "unlock")
    /\ UNCHANGED run

\* Mutant: no jms.check after task_completed.
UnlockWithoutCheck(q) ==
    /\ At(q, "unlock")
    /\ UnlockJob(handler[q].job)
    /\ Goto(q, "tms_artifact")
    /\ UNCHANGED run

Unlock(q) ==
    /\ At(q, "unlock")
    /\ UnlockJob(handler[q].job)
    /\ Goto(q, "list_unlocked")
    /\ UNCHANGED run

-----------------------------------------------------------------------------
(* post_error: task_failed, without the lock. *)

FailSelect(q) ==
    /\ At(q, "fail_select")
    /\ Goto(q, IF job[handler[q].job] = "RUNNING" THEN "fail_commit" ELSE "failed")
    /\ UNCHANGED <<store, run>>

FailCommit(q) ==
    /\ At(q, "fail_commit")
    /\ SetJob(handler[q].job, "ERROR")
    /\ Goto(q, "mark_error")
    /\ UNCHANGED run

\* Mutant: the artifact is given a status of the jobs.
MarkErrorWaiting(q) ==
    /\ At(q, "mark_error")
    /\ MarkAsError(handler[q].job)
    /\ UpdateArtifact(q, "WAITING", "write_error")
    /\ UNCHANGED run

MarkError(q) ==
    /\ At(q, "mark_error")
    /\ MarkAsError(handler[q].job)
    /\ UpdateArtifact(q, "ERROR", "write_error")
    /\ UNCHANGED run

\* the error message overwrites the file of the resource
WriteError(q) ==
    /\ At(q, "write_error")
    /\ WriteFile(handler[q].job, "error")
    /\ Goto(q, "ok")
    /\ UNCHANGED run

-----------------------------------------------------------------------------
ServerInit ==
    /\ StoreInit
    /\ handler = [q \in Requests |-> IF q = Submit THEN [Idle EXCEPT !.pc = "create_artifact"] ELSE Idle]
    /\ run = [r \in Runs |-> "none"]

SubmitStep(q) ==
    CreateArtifact(q) \/ \E j \in Jobs : CreateJob(q, j) \/ AddLocks(q, j)

CheckStep(q) ==
    \/ ListUnlocked(q) \/ ScheduleCommit(q) \/ ScheduleEnd(q) \/ ListJobs(q)
    \/ \E j \in Jobs : ScheduleSelect(q, j)

LaunchStep(q) ==
    \/ TmsArtifact(q) \/ TmsList(q) \/ SendTask(q) \/ LaunchEnd(q)
    \/ \E j \in Jobs : StartLocally(q, j) \/ PostponeToHeartbeat(q, j) \/ StartRemote(q, j)

TaskStep(q) == TaskRead(q) \/ StartSelect(q) \/ StartCommit(q)

DoneStep(q) == Acquire(q) \/ CompleteSelect(q) \/ CompleteCommit(q) \/ MarkDone(q) \/ Unlock(q)

ErrorStep(q) == FailSelect(q) \/ FailCommit(q) \/ MarkError(q) \/ WriteError(q)

HandlerStep(q) ==
    \/ ArtifactSelect(q) \/ ArtifactCommit(q)
    \/ SubmitStep(q) \/ CheckStep(q) \/ LaunchStep(q)
    \/ TaskStep(q) \/ DoneStep(q) \/ ErrorStep(q)

=============================================================================
