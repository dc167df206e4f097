-------------------------- MODULE FederationProofs --------------------------
(***************************************************************************)
(* Proofs about Federation, for every set of jobs, every relation of locks, *)
(* every placement, any number of executions of each job and all failures;  *)
(* and about the status of the artifact, when the federation is orderly.    *)
(*                                                                         *)
(* For the order of jobs no lock is taken into account: what makes it safe  *)
(* is that the facts the handlers rely on are stable.  An open lock stays   *)
(* open, a ready resource stays ready and an offered job is never taken     *)
(* back to WAITING, so what a SELECT has seen is still true, in this        *)
(* respect, when the UPDATE is committed.                                   *)
(***************************************************************************)
EXTENDS Federation, TLAPS

Afters == {"idle", "ok", "send_task", "list_jobs", "tms_artifact", "write_error"}
Resting == {"idle", "ok", "failed"}
Submitting == {"create_artifact", "create_jobs", "add_locks"}

Planned == locked \cup unlocked = Locks
Ready(n) == Pred(n) \subseteq is_ready
Stored(j) == j \in Jobs /\ content[j] # "nothing"

\* What the tables say of one another.
StoreOK ==
    /\ \A l \in unlocked : l[1] \in is_ready
    /\ \A j \in is_ready : j \in Offered /\ Stored(j)
    /\ \A k \in Offered : Planned /\ Ready(k)

\* What a coroutine has learnt and relies upon.
HandlerOK(h) ==
    /\ h.after \in Afters
    /\ h.pc \notin Resting \cup Submitting => Planned
    /\ h.pc = "add_locks" => \A l \in Locks : l[1] \in h.todo \/ l \in locked \cup unlocked
    /\ h.pc \in {"schedule_select", "schedule_commit"} => \A n \in h.todo : Ready(n)
    /\ h.pc = "schedule_commit" => h.job \in Jobs /\ Ready(h.job)
    /\ h.pc \in {"start_commit", "complete_commit", "mark_done", "fail_commit"} => h.job \in Offered
    /\ h.pc \in {"lock", "complete_select", "complete_commit", "mark_done"} => Stored(h.job)
    /\ h.pc \in {"task_read", "start_select", "fail_select", "fail_commit", "mark_error"} =>
          h.job \in Jobs
    /\ h.pc = "unlock" => h.job \in is_ready

RunOK(r) ==
    /\ run[r] # "none" => Planned
    /\ run[r] = "stored" => Stored(r[1])

IInv ==
    /\ TypeOK
    /\ StoreOK
    /\ \A q \in Requests : HandlerOK(handler[q])
    /\ \A r \in Runs : RunOK(r)

-----------------------------------------------------------------------------
(* Types. *)

\* An execution belongs to a job, and each of its three requests is a request.
LEMMA RunsOfJobs ==
    ASSUME NEW r \in Runs
    PROVE  r[1] \in Jobs /\ \A k \in {"get", "done", "error"} : <<r, k>> \in Requests
BY DEF Runs, Requests, TaskRequests

\* A coroutine at rest is a coroutine.
LEMMA IdleType == Idle \in Handler
BY DEF Idle, Handler, Locations, ArtifactJobStatus

\* A coroutine that only moves stays a coroutine, and so does one that answers.
LEMMA MoveType ==
    ASSUME NEW h \in Handler, NEW pc \in Locations
    PROVE  [h EXCEPT !.pc = pc] \in Handler
BY DEF Handler

\* Where a coroutine goes next, it stays a coroutine.
LEMMA GotoType ==
    ASSUME NEW q \in Requests, NEW pc \in Locations, handler \in [Requests -> Handler], Goto(q, pc)
    PROVE  handler' \in [Requests -> Handler]
<1>1. [Idle EXCEPT !.pc = pc] \in Handler
  BY IdleType, MoveType
<1>2. [handler[q] EXCEPT !.pc = pc] \in Handler
  BY MoveType
<1> QED
  BY <1>1, <1>2 DEF Goto

\* A coroutine that comes back from update_status stays a coroutine.
LEMMA ReturnType ==
    ASSUME NEW q \in Requests, handler \in [Requests -> Handler], Return(q)
    PROVE  handler' \in [Requests -> Handler]
<1> DEFINE next == handler[q].after
<1>1. next \in Locations
  BY DEF Handler
<1>2. [Idle EXCEPT !.pc = next] \in Handler
  BY <1>1, IdleType, MoveType
<1>3. [handler[q] EXCEPT !.pc = next, !.want = "RUNNING", !.after = "idle"] \in Handler
  <2>1. handler[q] \in Handler
    OBVIOUS
  <2>2. ASSUME NEW h \in Handler
        PROVE  [h EXCEPT !.pc = next, !.want = "RUNNING", !.after = "idle"] \in Handler
    BY <1>1 DEF Handler, Locations, ArtifactJobStatus
  <2> QED
    BY <2>1, <2>2
<1> QED
  BY <1>2, <1>3 DEF Return

\* Starting an execution keeps the type of the executions.
LEMMA StartExecType ==
    ASSUME NEW j, run \in [Runs -> RunStates], StartExec(j)
    PROVE  run' \in [Runs -> RunStates]
BY DEF StartExec, RunStates

\* A coroutine whose locals change within their types stays a coroutine.
LEMMA LocalsType ==
    /\ \A h \in Handler, todo \in SUBSET Jobs : [h EXCEPT !.todo = todo] \in Handler
    /\ \A h \in Handler, pc \in Locations, j \in Jobs \cup {NoJob} :
          [h EXCEPT !.pc = pc, !.job = j] \in Handler
    /\ \A h \in Handler, pc \in Locations, todo \in SUBSET Jobs :
          [h EXCEPT !.pc = pc, !.todo = todo] \in Handler
    /\ \A h \in Handler, pc \in Locations, j \in Jobs \cup {NoJob}, todo \in SUBSET Jobs :
          [h EXCEPT !.pc = pc, !.job = j, !.todo = todo] \in Handler
    /\ \A h \in Handler, pc \in Locations, j \in Jobs \cup {NoJob}, todo \in SUBSET Jobs :
          [h EXCEPT !.pc = pc, !.job = j, !.todo = todo, !.started = TRUE] \in Handler
    /\ \A h \in Handler, pc \in Locations, j \in Jobs, after \in Locations :
          [h EXCEPT !.pc = pc, !.job = j, !.after = after] \in Handler
    /\ \A h \in Handler, pc \in Locations, after \in Locations :
          [h EXCEPT !.pc = pc, !.started = FALSE, !.after = after] \in Handler
    /\ \A h \in Handler, pc \in Locations, want \in ArtifactJobStatus, after \in Locations :
          [h EXCEPT !.pc = pc, !.want = want, !.after = after] \in Handler
BY DEF Handler

\* The locals of a coroutine have their types.
LEMMA FieldTypes ==
    \A h \in Handler :
        /\ h.pc \in Locations /\ h.after \in Locations
        /\ h.job \in Jobs \cup {NoJob} /\ h.todo \in SUBSET Jobs
        /\ h.started \in BOOLEAN /\ h.want \in ArtifactJobStatus
BY DEF Handler

\* The locations that the actions name are locations.
LEMMA SomeLocations ==
    {"add_locks", "list_unlocked", "schedule_commit", "artifact_select", "list_jobs",
     "tms_launch", "task_read", "send_task"} \subseteq Locations
BY DEF Locations

\* A coroutine that goes into update_status stays a coroutine.
LEMMA UpdateArtifactType ==
    ASSUME NEW q \in Requests, NEW want \in ArtifactJobStatus, NEW after \in Locations,
           handler \in [Requests -> Handler], UpdateArtifact(q, want, after)
    PROVE  handler' \in [Requests -> Handler]
<1>1. [handler[q] EXCEPT !.pc = "artifact_select", !.want = want, !.after = after] \in Handler
  BY LocalsType, SomeLocations
<1> QED
  BY <1>1 DEF UpdateArtifact

\* Every step keeps the types.
LEMMA TypeStep == IInv /\ [Next]_vars => TypeOK'
<1> SUFFICES ASSUME IInv, [Next]_vars PROVE TypeOK'
  OBVIOUS
<1>0. TypeOK
  BY DEF IInv
<1> USE <1>0 DEF TypeOK, StoreTypeOK, store
<1>1. ASSUME NEW q \in Requests, ArtifactSelect(q) PROVE TypeOK'
  BY <1>1, GotoType, ReturnType DEF ArtifactSelect, At, Locations
<1>2. ASSUME NEW q \in Requests, ArtifactCommit(q) PROVE TypeOK'
  BY <1>2, ReturnType, FieldTypes DEF ArtifactCommit, At, SetArtifact
<1>3. ASSUME NEW q \in Requests, CreateArtifact(q) PROVE TypeOK'
  BY <1>3, GotoType DEF CreateArtifact, InsertArtifact, ArtifactJobStatus, Locations
<1>4. ASSUME NEW q \in Requests, NEW j \in Jobs, CreateJob(q, j) PROVE TypeOK'
  <2>1. [handler[q] EXCEPT !.pc = "add_locks", !.todo = Jobs] \in Handler
    BY LocalsType, SomeLocations
  <2>2. job' \in [Jobs -> JobStatus \cup {Absent}]
    BY <1>4 DEF CreateJob, InsertJob, JobStatus
  <2> QED
    BY <1>4, <2>1, <2>2 DEF CreateJob, InsertJob
<1>5. ASSUME NEW q \in Requests, NEW j \in Jobs, AddLocks(q, j) PROVE TypeOK'
  <2>1. \A pc \in Locations :
          [handler[q] EXCEPT !.pc = pc, !.todo = handler[q].todo \ {j}] \in Handler
    BY LocalsType, FieldTypes, SomeLocations
  <2> QED
    BY <1>5, <2>1 DEF AddLocks, InsertLocks, Locations
<1>6. ASSUME NEW q \in Requests, ListUnlocked(q) PROVE TypeOK'
  <2> DEFINE listed == UnlockedJobs \cap JobsIn("WAITING")
  <2>1. [handler[q] EXCEPT !.pc = "schedule_select", !.job = NoJob, !.todo = listed] \in Handler
    <3>1. listed \in SUBSET Jobs /\ "schedule_select" \in Locations
      BY DEF JobsIn, Locations
    <3> QED
      BY <3>1, LocalsType
  <2> QED
    BY <1>6, <2>1 DEF ListUnlocked
<1>7. ASSUME NEW q \in Requests, NEW j \in Jobs, ScheduleSelect(q, j) PROVE TypeOK'
  <2>1. [handler[q] EXCEPT !.pc = "schedule_commit", !.job = j] \in Handler
    BY LocalsType, SomeLocations
  <2> QED
    BY <1>7, <2>1, GotoType DEF ScheduleSelect, Locations
<1>8. ASSUME NEW q \in Requests, ScheduleCommit(q) PROVE TypeOK'
  <2> DEFINE left == handler[q].todo \ {handler[q].job}
  <2>1. [handler[q] EXCEPT !.pc = "schedule_select", !.job = NoJob, !.todo = left,
                           !.started = TRUE] \in Handler
    <3>1. left \in SUBSET Jobs /\ "schedule_select" \in Locations
      BY FieldTypes DEF Locations
    <3> QED
      BY <3>1, LocalsType
  <2>2. job' \in [Jobs -> JobStatus \cup {Absent}]
    BY <1>8 DEF ScheduleCommit, SetJob, JobStatus
  <2> QED
    BY <1>8, <2>1, <2>2 DEF ScheduleCommit, SetJob
<1>9. ASSUME NEW q \in Requests, ScheduleEnd(q) PROVE TypeOK'
  <2>1. [handler[q] EXCEPT !.pc = "artifact_select", !.started = FALSE, !.after = "list_jobs"] \in Handler
    BY LocalsType, FieldTypes, SomeLocations
  <2> QED
    BY <1>9, <2>1, GotoType DEF ScheduleEnd, Locations
<1>10. ASSUME NEW q \in Requests, ListJobs(q) PROVE TypeOK'
  BY <1>10, UpdateArtifactType, GotoType DEF ListJobs, ArtifactJobStatus, Locations
<1>11. ASSUME NEW q \in Requests, TmsArtifact(q) PROVE TypeOK'
  BY <1>11, GotoType DEF TmsArtifact, Locations
<1>12. ASSUME NEW q \in Requests, TmsList(q) PROVE TypeOK'
  <2>1. [handler[q] EXCEPT !.pc = "tms_launch", !.todo = JobsIn("SCHEDULED")] \in Handler
    <3>1. JobsIn("SCHEDULED") \in SUBSET Jobs
      BY DEF JobsIn
    <3> QED
      BY <3>1, LocalsType, SomeLocations
  <2> QED
    BY <1>12, <2>1 DEF TmsList
<1>13. ASSUME NEW q \in Requests, NEW j \in Jobs, StartLocally(q, j) PROVE TypeOK'
  BY <1>13, LocalsType, StartExecType, FieldTypes DEF StartLocally
<1>14. ASSUME NEW q \in Requests, NEW j \in Jobs, PostponeToHeartbeat(q, j) PROVE TypeOK'
  BY <1>14, LocalsType, FieldTypes DEF PostponeToHeartbeat
<1>15. ASSUME NEW q \in Requests, NEW j \in Jobs, StartRemote(q, j) PROVE TypeOK'
  <2>1. [handler[q] EXCEPT !.pc = "task_read", !.job = j, !.after = "send_task"] \in Handler
    BY LocalsType, SomeLocations
  <2> QED
    BY <1>15, <2>1 DEF StartRemote, Locations
<1>16. ASSUME NEW q \in Requests, SendTask(q) PROVE TypeOK'
  <2>1. [handler[q] EXCEPT !.pc = "tms_launch", !.job = NoJob,
                             !.todo = handler[q].todo \ {handler[q].job}] \in Handler
    BY LocalsType, FieldTypes, SomeLocations
  <2> QED
    BY <1>16, <2>1, StartExecType DEF SendTask, Locations
<1>17. ASSUME NEW q \in Requests, SendTaskFails(q) PROVE TypeOK'
  BY <1>17, GotoType, StartExecType DEF SendTaskFails, Locations
<1>18. ASSUME NEW q \in Requests, LaunchEnd(q) PROVE TypeOK'
  BY <1>18, GotoType DEF LaunchEnd, Locations
<1>19. ASSUME NEW q \in Requests, TaskRead(q) PROVE TypeOK'
  BY <1>19, GotoType, FieldTypes DEF TaskRead, Locations
<1>20. ASSUME NEW q \in Requests, StartSelect(q) PROVE TypeOK'
  BY <1>20, GotoType DEF StartSelect, Locations
<1>21. ASSUME NEW q \in Requests, StartCommit(q) PROVE TypeOK'
  <2>1. handler' \in [Requests -> Handler]
    BY <1>21, UpdateArtifactType, FieldTypes DEF StartCommit, ArtifactJobStatus
  <2>2. job' \in [Jobs -> JobStatus \cup {Absent}]
    BY <1>21 DEF StartCommit, SetJob, JobStatus
  <2> QED
    BY <1>21, <2>1, <2>2 DEF StartCommit, SetJob
<1>22. ASSUME NEW q \in Requests, Acquire(q) PROVE TypeOK'
  BY <1>22, GotoType DEF Acquire, Locations
<1>23. ASSUME NEW q \in Requests, CompleteSelect(q) PROVE TypeOK'
  BY <1>23, GotoType DEF CompleteSelect, Locations
<1>24. ASSUME NEW q \in Requests, CompleteCommit(q) PROVE TypeOK'
  BY <1>24, GotoType DEF CompleteCommit, SetJob, JobStatus, Locations
<1>25. ASSUME NEW q \in Requests, MarkDone(q) PROVE TypeOK'
  BY <1>25, GotoType DEF MarkDone, IInv, HandlerOK, Stored, At, MarkAsDone, Locations
<1>26. ASSUME NEW q \in Requests, Unlock(q) PROVE TypeOK'
  BY <1>26, GotoType DEF Unlock, UnlockJob, Locations
<1>27. ASSUME NEW q \in Requests, FailSelect(q) PROVE TypeOK'
  BY <1>27, GotoType DEF FailSelect, Locations
<1>28. ASSUME NEW q \in Requests, FailCommit(q) PROVE TypeOK'
  BY <1>28, GotoType DEF FailCommit, SetJob, JobStatus, Locations
<1>29. ASSUME NEW q \in Requests, MarkError(q) PROVE TypeOK'
  BY <1>29, UpdateArtifactType DEF MarkError, IInv, HandlerOK, At, MarkAsError,
     ArtifactJobStatus, Locations
<1>30. ASSUME NEW q \in Requests, WriteError(q) PROVE TypeOK'
  BY <1>30, GotoType DEF WriteError, WriteFile, Locations
<1>31. ASSUME NEW r \in Runs, GetTask(r) PROVE TypeOK'
  BY <1>31, RunsOfJobs DEF GetTask, Become, RunStates, Begin, JobOf, Idle, Handler,
     Locations, ArtifactJobStatus
<1>32. ASSUME NEW r \in Runs, GotTask(r) PROVE TypeOK'
  BY <1>32, RunsOfJobs, IdleType DEF GotTask, Become, RunStates, Close
<1>33. ASSUME NEW r \in Runs, StoreProduct(r) PROVE TypeOK'
  BY <1>33, RunsOfJobs DEF StoreProduct, Become, RunStates, WriteFile
<1>34. ASSUME NEW r \in Runs, PostDone(r) PROVE TypeOK'
  BY <1>34, RunsOfJobs DEF PostDone, Become, RunStates, Begin, JobOf, Idle, Handler,
     Locations, ArtifactJobStatus
<1>35. ASSUME NEW r \in Runs, DoneAnswered(r) PROVE TypeOK'
  BY <1>35, RunsOfJobs, IdleType DEF DoneAnswered, Become, RunStates, Close
<1>36. ASSUME NEW r \in Runs, PostError(r) PROVE TypeOK'
  BY <1>36, RunsOfJobs DEF PostError, Become, RunStates, Begin, JobOf, Idle, Handler,
     Locations, ArtifactJobStatus
<1>37. ASSUME NEW j \in Jobs, Beat(j) PROVE TypeOK'
  BY <1>37, StartExecType DEF Beat
<1>38. ASSUME NEW r \in Runs, WorkFails(r) PROVE TypeOK'
  BY <1>38, RunsOfJobs DEF WorkFails, Become, RunStates
<1>39. ASSUME NEW r \in Runs, Timeout(r) PROVE TypeOK'
  BY <1>39, RunsOfJobs DEF Timeout, Become, RunStates
<1>40. ASSUME NEW r \in Runs, LoseReport(r) \/ GetRefused(r) PROVE TypeOK'
  BY <1>40, RunsOfJobs DEF LoseReport, GetRefused, Become, RunStates
<1>41. ASSUME Crash PROVE TypeOK'
  BY <1>41, IdleType DEF Crash, RunStates
<1>42. ASSUME UNCHANGED vars PROVE TypeOK'
  BY <1>42 DEF vars, serverVars
<1> QED
  BY <1>1, <1>2, <1>3, <1>4, <1>5, <1>6, <1>7, <1>8, <1>9, <1>10, <1>11, <1>12, <1>13,
     <1>14, <1>15, <1>16, <1>17, <1>18, <1>19, <1>20, <1>21, <1>22, <1>23, <1>24, <1>25,
     <1>26, <1>27, <1>28, <1>29, <1>30, <1>31, <1>32, <1>33, <1>34, <1>35, <1>36, <1>37,
     <1>38, <1>39, <1>40, <1>41, <1>42
     DEF Next, HandlerStep, SubmitStep, CheckStep, LaunchStep, TaskStep, DoneStep, ErrorStep,
         ExecutionStep, FaultStep, RemoteFails

-----------------------------------------------------------------------------
(* The facts that handlers and executions rely on are stable. *)

Grows ==
    /\ is_ready \subseteq is_ready'
    /\ Offered \subseteq Offered'
    /\ \A j \in Jobs : Stored(j) => Stored(j)'
    /\ locked \cup unlocked \subseteq locked' \cup unlocked'

\* A coroutine, or an execution, that does not move keeps what it relies on.
LEMMA HandlerKeeps ==
    ASSUME TypeOK', Grows, NEW q \in Requests, HandlerOK(handler[q]), handler'[q] = handler[q]
    PROVE  HandlerOK(handler[q])'
<1>1. Planned => Planned'
  BY DEF Planned, Grows, TypeOK, StoreTypeOK
<1>2. \A n \in Jobs : Ready(n) => Ready(n)'
  BY DEF Ready, Pred, Grows
<1>3. handler[q].todo \subseteq Jobs
  BY DEF TypeOK, Handler
<1> QED
  BY <1>1, <1>2, <1>3 DEF HandlerOK, Grows, Stored

\* An execution that stays where it is keeps what it relies on.
LEMMA RunKeeps ==
    ASSUME TypeOK', Grows, NEW r \in Runs, RunOK(r), run'[r] = run[r]
    PROVE  RunOK(r)'
BY DEF RunOK, Planned, Stored, Grows, TypeOK, StoreTypeOK

\* So a step keeps the invariant if what it moves and what it writes keep it.
LEMMA Compose ==
    ASSUME IInv, TypeOK', StoreOK', Grows,
           \A q \in Requests : handler'[q] = handler[q] \/ HandlerOK(handler[q])',
           \A r \in Runs : run'[r] = run[r] \/ RunOK(r)'
    PROVE  IInv'
BY HandlerKeeps, RunKeeps DEF IInv

\* A step that writes nothing keeps what the tables say of one another.
LEMMA SameStore ==
    ASSUME IInv, UNCHANGED store
    PROVE  StoreOK' /\ Grows
BY DEF IInv, StoreOK, store, Grows, Offered, JobsIn, Planned, Ready, Pred, Stored

\* Going on moves one coroutine only; one that answers keeps no locals.
LEMMA GotoEffect ==
    ASSUME NEW q \in Requests, NEW pc, TypeOK, Goto(q, pc)
    PROVE  /\ handler'[q].pc = pc
           /\ pc \notin {"ok", "failed"} =>
                /\ handler'[q].job = handler[q].job
                /\ handler'[q].todo = handler[q].todo
                /\ handler'[q].after = handler[q].after
           /\ pc \in {"ok", "failed"} => handler'[q].after = "idle"
           /\ \A o \in Requests \ {q} : handler'[o] = handler[o]
BY DEF Goto, Idle, TypeOK, Handler

\* Coming back from update_status moves one coroutine only, to where it was called from.
LEMMA ReturnEffect ==
    ASSUME NEW q \in Requests, TypeOK, Return(q)
    PROVE  /\ handler'[q].pc = handler[q].after
           /\ handler'[q].after = "idle"
           /\ \A o \in Requests \ {q} : handler'[o] = handler[o]
BY DEF Return, Idle, TypeOK, Handler


\* Calling update_status moves one coroutine only, and keeps its job and its list.
LEMMA UpdateArtifactEffect ==
    ASSUME NEW q \in Requests, NEW want, NEW after, TypeOK, UpdateArtifact(q, want, after)
    PROVE  /\ handler'[q].pc = "artifact_select"
           /\ handler'[q].after = after
           /\ \A o \in Requests \ {q} : handler'[o] = handler[o]
BY DEF UpdateArtifact, TypeOK, Handler

-----------------------------------------------------------------------------
(* Each statement that writes to the tables keeps what they say of one       *)
(* another, and takes back nothing that anybody relies on.                   *)

\* The status of the artifact says nothing about the order of jobs.
LEMMA SetArtifactKeeps ==
    ASSUME IInv, NEW status, SetArtifact(status) \/ InsertArtifact
    PROVE  StoreOK' /\ Grows
BY DEF IInv, StoreOK, SetArtifact, InsertArtifact, Grows, Offered, JobsIn, Planned, Ready,
   Pred, Stored

\* A new job is WAITING: it is offered to nobody.
LEMMA InsertJobKeeps ==
    ASSUME IInv, NEW j \in Jobs, job[j] = Absent, InsertJob(j)
    PROVE  StoreOK' /\ Grows
<1>1. Offered' = Offered
  BY DEF IInv, TypeOK, StoreTypeOK, InsertJob, Offered, JobsIn, Absent
<1> QED
  BY <1>1 DEF IInv, StoreOK, InsertJob, Grows, Planned, Ready, Pred, Stored

\* New locks are closed, and close nothing that was open.
LEMMA InsertLocksKeeps ==
    ASSUME IInv, NEW j \in Jobs, InsertLocks(j)
    PROVE  StoreOK' /\ Grows
<1>1. Offered' = Offered
  BY DEF InsertLocks, Offered, JobsIn
<1> QED
  BY <1>1 DEF IInv, TypeOK, StoreTypeOK, StoreOK, InsertLocks, Grows, Planned, Ready, Pred,
     Stored

\* A status is only ever given to a job whose locks are open.
LEMMA SetJobKeeps ==
    ASSUME IInv, NEW j \in Jobs, NEW status \in {"SCHEDULED", "RUNNING", "COMPLETED", "ERROR"},
           SetJob(j, status), Planned, Ready(j)
    PROVE  StoreOK' /\ Grows
<1>1. Offered' = Offered \cup {j}
  BY DEF IInv, TypeOK, StoreTypeOK, SetJob, Offered, JobsIn, Absent
<1> QED
  BY <1>1 DEF IInv, StoreOK, SetJob, Grows, Planned, Ready, Pred, Stored

\* A resource is declared ready only when its file has been written.
LEMMA MarkAsDoneKeeps ==
    ASSUME IInv, NEW j \in Offered, Stored(j), MarkAsDone(j)
    PROVE  StoreOK' /\ Grows
<1>1. Offered' = Offered
  BY DEF MarkAsDone, Offered, JobsIn
<1> QED
  BY <1>1 DEF IInv, StoreOK, MarkAsDone, Grows, Planned, Ready, Pred, Stored

\* The error flag of a resource says nothing about the order of jobs.
LEMMA MarkAsErrorKeeps ==
    ASSUME IInv, NEW j, MarkAsError(j)
    PROVE  StoreOK' /\ Grows
BY DEF IInv, StoreOK, MarkAsError, Grows, Offered, JobsIn, Planned, Ready, Pred, Stored

\* Locks are opened only by a job whose resource is ready.
LEMMA UnlockJobKeeps ==
    ASSUME IInv, NEW j \in is_ready, UnlockJob(j)
    PROVE  StoreOK' /\ Grows
<1>1. Offered' = Offered
  BY DEF UnlockJob, Offered, JobsIn
<1>2. locked' \cup unlocked' = locked \cup unlocked
  BY DEF UnlockJob
<1> QED
  BY <1>1, <1>2 DEF IInv, StoreOK, UnlockJob, Grows, Planned, Ready, Pred, Stored

\* A file is overwritten, never emptied.
LEMMA WriteFileKeeps ==
    ASSUME IInv, NEW j, NEW what \in {"product", "error"}, WriteFile(j, what)
    PROVE  StoreOK' /\ Grows /\ (j \in Jobs => Stored(j)')
<1>1. Offered' = Offered
  BY DEF WriteFile, Offered, JobsIn
<1>2. \A k \in Jobs : Stored(k) => Stored(k)'
  BY DEF IInv, TypeOK, StoreTypeOK, WriteFile, Stored
<1> QED
  BY <1>1, <1>2 DEF IInv, TypeOK, StoreTypeOK, StoreOK, WriteFile, Grows, Planned, Ready,
     Pred, Stored

-----------------------------------------------------------------------------
(* The invariant is inductive: the requests. *)

\* A step of one coroutine that writes nothing.
LEMMA MoveOnly ==
    ASSUME IInv, TypeOK', UNCHANGED <<store, run>>, NEW q \in Requests,
           \A o \in Requests \ {q} : handler'[o] = handler[o], HandlerOK(handler[q])'
    PROVE  IInv'
BY SameStore, Compose

\* A step of one coroutine that writes to the tables.
LEMMA WriteStep ==
    ASSUME IInv, TypeOK', StoreOK', Grows, UNCHANGED run, NEW q \in Requests,
           \A o \in Requests \ {q} : handler'[o] = handler[o], HandlerOK(handler[q])'
    PROVE  IInv'
BY Compose

\* An execution that is started has nothing to show yet.
LEMMA StartExecEffect ==
    ASSUME TypeOK, NEW j, StartExec(j), NEW r \in Runs
    PROVE  run'[r] \in {run[r], "launched"}
BY DEF StartExec, TypeOK

\* Every step of a coroutine of the scheduler keeps the invariant.
LEMMA HandlerInductive ==
    ASSUME IInv, TypeOK', NEW q \in Requests, HandlerStep(q) \/ SendTaskFails(q)
    PROVE  IInv'
<1>0. TypeOK /\ StoreOK /\ HandlerOK(handler[q])
  BY DEF IInv
<1> USE <1>0
<1>1. ASSUME ArtifactSelect(q) PROVE IInv'
  <2>1. UNCHANGED <<store, run>> /\ \A o \in Requests \ {q} : handler'[o] = handler[o]
    BY <1>1, ReturnEffect, GotoEffect DEF ArtifactSelect, TypeOK
  <2>2. HandlerOK(handler[q])'
    BY <1>1, <2>1, ReturnEffect, GotoEffect DEF ArtifactSelect, TypeOK, store, HandlerOK,
       Afters, Resting, Submitting, Planned, Ready, Pred, Stored, Offered, JobsIn, Absent,
       At
  <2> QED
    BY <2>1, <2>2, MoveOnly
<1>2. ASSUME TmsArtifact(q) PROVE IInv'
  <2>1. UNCHANGED <<store, run>> /\ \A o \in Requests \ {q} : handler'[o] = handler[o]
    BY <1>2, GotoEffect DEF TmsArtifact, TypeOK
  <2>2. HandlerOK(handler[q])'
    BY <1>2, <2>1, GotoEffect DEF TmsArtifact, TypeOK, store, HandlerOK, Afters, Resting,
       Submitting, Planned, Ready, Pred, Stored, Offered, JobsIn, Absent, At
  <2> QED
    BY <2>1, <2>2, MoveOnly
<1>3. ASSUME LaunchEnd(q) PROVE IInv'
  <2>1. UNCHANGED <<store, run>> /\ \A o \in Requests \ {q} : handler'[o] = handler[o]
    BY <1>3, GotoEffect DEF LaunchEnd, TypeOK
  <2>2. HandlerOK(handler[q])'
    BY <1>3, <2>1, GotoEffect DEF LaunchEnd, TypeOK, store, HandlerOK, Afters, Resting,
       Submitting, Planned, Ready, Pred, Stored, Offered, JobsIn, Absent, At
  <2> QED
    BY <2>1, <2>2, MoveOnly
<1>4. ASSUME TaskRead(q) PROVE IInv'
  <2>1. UNCHANGED <<store, run>> /\ \A o \in Requests \ {q} : handler'[o] = handler[o]
    BY <1>4, GotoEffect DEF TaskRead, TypeOK
  <2>2. HandlerOK(handler[q])'
    BY <1>4, <2>1, GotoEffect DEF TaskRead, TypeOK, store, HandlerOK, Afters, Resting,
       Submitting, Planned, Ready, Pred, Stored, Offered, JobsIn, Absent, At
  <2> QED
    BY <2>1, <2>2, MoveOnly
<1>5. ASSUME StartSelect(q) PROVE IInv'
  <2>1. UNCHANGED <<store, run>> /\ \A o \in Requests \ {q} : handler'[o] = handler[o]
    BY <1>5, GotoEffect DEF StartSelect, TypeOK
  <2>2. HandlerOK(handler[q])'
    BY <1>5, <2>1, GotoEffect DEF StartSelect, TypeOK, store, HandlerOK, Afters, Resting,
       Submitting, Planned, Ready, Pred, Stored, Offered, JobsIn, Absent, At
  <2> QED
    BY <2>1, <2>2, MoveOnly
<1>6. ASSUME Acquire(q) PROVE IInv'
  <2>1. UNCHANGED <<store, run>> /\ \A o \in Requests \ {q} : handler'[o] = handler[o]
    BY <1>6, GotoEffect DEF Acquire, TypeOK
  <2>2. HandlerOK(handler[q])'
    BY <1>6, <2>1, GotoEffect DEF Acquire, TypeOK, store, HandlerOK, Afters, Resting,
       Submitting, Planned, Ready, Pred, Stored, Offered, JobsIn, Absent, At
  <2> QED
    BY <2>1, <2>2, MoveOnly
<1>7. ASSUME CompleteSelect(q) PROVE IInv'
  <2>1. UNCHANGED <<store, run>> /\ \A o \in Requests \ {q} : handler'[o] = handler[o]
    BY <1>7, GotoEffect DEF CompleteSelect, TypeOK
  <2>2. HandlerOK(handler[q])'
    BY <1>7, <2>1, GotoEffect DEF CompleteSelect, TypeOK, store, HandlerOK, Afters, Resting,
       Submitting, Planned, Ready, Pred, Stored, Offered, JobsIn, Absent, At
  <2> QED
    BY <2>1, <2>2, MoveOnly
<1>8. ASSUME FailSelect(q) PROVE IInv'
  <2>1. UNCHANGED <<store, run>> /\ \A o \in Requests \ {q} : handler'[o] = handler[o]
    BY <1>8, GotoEffect DEF FailSelect, TypeOK
  <2>2. HandlerOK(handler[q])'
    BY <1>8, <2>1, GotoEffect DEF FailSelect, TypeOK, store, HandlerOK, Afters, Resting,
       Submitting, Planned, Ready, Pred, Stored, Offered, JobsIn, Absent, At
  <2> QED
    BY <2>1, <2>2, MoveOnly
<1>9. ASSUME ListUnlocked(q) PROVE IInv'
  <2>1. UNCHANGED <<store, run>> /\ \A o \in Requests \ {q} : handler'[o] = handler[o]
    BY <1>9 DEF ListUnlocked, TypeOK
  <2>2. /\ handler'[q].pc = "schedule_select"
        /\ handler'[q].todo = UnlockedJobs \cap JobsIn("WAITING")
        /\ handler'[q].after = handler[q].after
    BY <1>9 DEF ListUnlocked, At, TypeOK, Handler, HandlerOK, Afters
  <2>3. HandlerOK(handler[q])'
    BY <1>9, <2>1, <2>2 DEF ListUnlocked, store, At, HandlerOK, Afters, Resting, Submitting,
       Planned, Ready, Pred, Stored, Offered, JobsIn, Absent, UnlockedJobs, StoreOK,
       Created, TypeOK, StoreTypeOK
  <2> QED
    BY <2>1, <2>3, MoveOnly
<1>10. ASSUME NEW j \in Jobs, ScheduleSelect(q, j) PROVE IInv'
  <2>1. UNCHANGED <<store, run>> /\ \A o \in Requests \ {q} : handler'[o] = handler[o]
    BY <1>10, GotoEffect DEF ScheduleSelect, TypeOK
  <2>2. ASSUME job[j] = "WAITING" PROVE HandlerOK(handler[q])'
    <3>1. /\ handler'[q].pc = "schedule_commit" /\ handler'[q].job = j
          /\ handler'[q].todo = handler[q].todo /\ handler'[q].after = handler[q].after
      <4>1. handler' = [handler EXCEPT ![q] = [@ EXCEPT !.pc = "schedule_commit", !.job = j]]
        BY <1>10, <2>2 DEF ScheduleSelect
      <4> QED
        BY <4>1 DEF TypeOK, Handler
    <3> QED
      BY <1>10, <2>1, <3>1 DEF ScheduleSelect, store, At, HandlerOK, Afters, Resting,
         Submitting, Planned, Ready, Pred, Stored, Offered, JobsIn, Absent
  <2>3. HandlerOK(handler[q])'
    <3>1. ASSUME job[j] # "WAITING" PROVE HandlerOK(handler[q])'
      BY <1>10, <2>1, <3>1, GotoEffect DEF ScheduleSelect, HandlerOK, Afters, Resting
    <3> QED
      BY <2>2, <3>1
  <2> QED
    BY <2>1, <2>3, MoveOnly
<1>11. ASSUME ScheduleEnd(q) PROVE IInv'
  <2>1. UNCHANGED <<store, run>> /\ \A o \in Requests \ {q} : handler'[o] = handler[o]
    BY <1>11, GotoEffect DEF ScheduleEnd, TypeOK
  <2>2. handler'[q].pc \in {"artifact_select", "list_jobs"} /\ handler'[q].after \in Afters
    <3>1. CASE handler[q].started
      <4>1. handler'[q] = [handler[q] EXCEPT !.pc = "artifact_select", !.started = FALSE,
                                             !.after = "list_jobs"]
        BY <1>11, <3>1 DEF ScheduleEnd, TypeOK
      <4> QED
        BY <4>1 DEF TypeOK, Handler, Afters
    <3>2. CASE ~ handler[q].started
      BY <1>11, <3>2, GotoEffect DEF ScheduleEnd, HandlerOK
    <3> QED
      BY <3>1, <3>2
  <2>3. HandlerOK(handler[q])'
    BY <1>11, <2>1, <2>2 DEF ScheduleEnd, store, At, HandlerOK, Afters, Resting, Submitting,
       Planned, Ready, Pred, Stored, Offered, JobsIn, Absent
  <2> QED
    BY <2>1, <2>3, MoveOnly
<1>12. ASSUME ListJobs(q) PROVE IInv'
  <2>1. UNCHANGED <<store, run>> /\ \A o \in Requests \ {q} : handler'[o] = handler[o]
    BY <1>12, GotoEffect, UpdateArtifactEffect DEF ListJobs, TypeOK
  <2>2. handler'[q].pc \in {"artifact_select", "tms_artifact"} /\ handler'[q].after \in Afters
    BY <1>12, GotoEffect, UpdateArtifactEffect DEF ListJobs, At, HandlerOK, Afters
  <2>3. HandlerOK(handler[q])'
    BY <1>12, <2>1, <2>2 DEF ListJobs, store, At, HandlerOK, Afters, Resting, Submitting,
       Planned, Ready, Pred, Stored, Offered, JobsIn, Absent
  <2> QED
    BY <2>1, <2>3, MoveOnly
<1>13. ASSUME TmsList(q) PROVE IInv'
  <2>1. UNCHANGED <<store, run>> /\ \A o \in Requests \ {q} : handler'[o] = handler[o]
    BY <1>13 DEF TmsList, TypeOK
  <2>2. handler'[q].pc = "tms_launch" /\ handler'[q].after \in Afters
    BY <1>13 DEF TmsList, At, TypeOK, Handler, HandlerOK, Afters
  <2>3. HandlerOK(handler[q])'
    BY <1>13, <2>1, <2>2 DEF TmsList, store, At, HandlerOK, Afters, Resting, Submitting,
       Planned, Ready, Pred, Stored, Offered, JobsIn, Absent
  <2> QED
    BY <2>1, <2>3, MoveOnly
<1>14. ASSUME NEW j \in Jobs, PostponeToHeartbeat(q, j) PROVE IInv'
  <2>1. UNCHANGED <<store, run>> /\ \A o \in Requests \ {q} : handler'[o] = handler[o]
    BY <1>14 DEF PostponeToHeartbeat, TypeOK
  <2>2. handler'[q].pc = "tms_launch" /\ handler'[q].after \in Afters
    BY <1>14 DEF PostponeToHeartbeat, At, TypeOK, Handler, HandlerOK, Afters
  <2>3. HandlerOK(handler[q])'
    BY <1>14, <2>1, <2>2 DEF PostponeToHeartbeat, store, At, HandlerOK, Afters, Resting,
       Submitting, Planned, Ready, Pred, Stored, Offered, JobsIn, Absent
  <2> QED
    BY <2>1, <2>3, MoveOnly
<1>15. ASSUME NEW j \in Jobs, StartRemote(q, j) PROVE IInv'
  <2>1. UNCHANGED <<store, run>> /\ \A o \in Requests \ {q} : handler'[o] = handler[o]
    BY <1>15 DEF StartRemote, TypeOK
  <2>2. handler'[q].pc = "task_read" /\ handler'[q].job = j /\ handler'[q].after = "send_task"
    BY <1>15 DEF StartRemote, At, TypeOK, Handler, HandlerOK, Afters
  <2>3. HandlerOK(handler[q])'
    BY <1>15, <2>1, <2>2 DEF StartRemote, store, At, HandlerOK, Afters, Resting, Submitting,
       Planned, Ready, Pred, Stored, Offered, JobsIn, Absent
  <2> QED
    BY <2>1, <2>3, MoveOnly
<1>16. ASSUME ArtifactCommit(q) PROVE IInv'
  <2>1. StoreOK' /\ Grows
    BY <1>16, SetArtifactKeeps DEF ArtifactCommit
  <2>2. UNCHANGED run /\ \A o \in Requests \ {q} : handler'[o] = handler[o]
    BY <1>16, ReturnEffect DEF ArtifactCommit, TypeOK
  <2>3. HandlerOK(handler[q])'
    BY <1>16, <2>1, ReturnEffect DEF ArtifactCommit, Grows, TypeOK, StoreTypeOK, HandlerOK,
       Afters, Resting, Submitting, Planned, At
  <2> QED
    BY <2>1, <2>2, <2>3, WriteStep
<1>17. ASSUME CreateArtifact(q) PROVE IInv'
  <2>1. StoreOK' /\ Grows
    BY <1>17, SetArtifactKeeps DEF CreateArtifact
  <2>2. UNCHANGED run /\ \A o \in Requests \ {q} : handler'[o] = handler[o]
    BY <1>17, GotoEffect DEF CreateArtifact, TypeOK
  <2>3. HandlerOK(handler[q])'
    BY <1>17, <2>1, GotoEffect DEF CreateArtifact, Grows, TypeOK, StoreTypeOK, HandlerOK,
       Afters, Resting, Submitting, Planned
  <2> QED
    BY <2>1, <2>2, <2>3, WriteStep
<1>18. ASSUME NEW j \in Jobs, CreateJob(q, j) PROVE IInv'
  <2>1. StoreOK' /\ Grows
    BY <1>18, InsertJobKeeps DEF CreateJob
  <2>2. UNCHANGED run /\ \A o \in Requests \ {q} : handler'[o] = handler[o]
    BY <1>18 DEF CreateJob, TypeOK
  <2>3. handler'[q].pc \in {"create_jobs", "add_locks"} /\ handler'[q].after \in Afters
        /\ (handler'[q].pc = "add_locks" => handler'[q].todo = Jobs)
    <3>1. ASSUME Created \cup {j} = Jobs
          PROVE  /\ handler'[q].pc = "add_locks" /\ handler'[q].todo = Jobs
                 /\ handler'[q].after = handler[q].after
      BY <1>18, <3>1 DEF CreateJob, TypeOK, Handler
    <3>2. ASSUME Created \cup {j} # Jobs PROVE handler'[q] = handler[q]
      BY <1>18, <3>2 DEF CreateJob
    <3> QED
      BY <1>18, <3>1, <3>2 DEF CreateJob, At, HandlerOK
  <2>4. HandlerOK(handler[q])'
    BY <1>18, <2>1, <2>3, LocksAssumption DEF CreateJob, Grows, TypeOK, StoreTypeOK,
       HandlerOK, Afters, Resting, Submitting, Planned, At
  <2> QED
    BY <2>1, <2>2, <2>4, WriteStep
<1>19. ASSUME NEW j \in Jobs, AddLocks(q, j) PROVE IInv'
  <2>1. StoreOK' /\ Grows
    BY <1>19, InsertLocksKeeps DEF AddLocks
  <2>2. UNCHANGED run /\ \A o \in Requests \ {q} : handler'[o] = handler[o]
    BY <1>19 DEF AddLocks, TypeOK
  <2>3. /\ handler'[q].pc = IF handler[q].todo = {j} THEN "list_unlocked" ELSE "add_locks"
        /\ handler'[q].todo = handler[q].todo \ {j} /\ handler'[q].after \in Afters
    BY <1>19 DEF AddLocks, TypeOK, Handler, HandlerOK
  <2>4. HandlerOK(handler[q])'
    BY <1>19, <2>1, <2>3 DEF AddLocks, Grows, TypeOK, StoreTypeOK, HandlerOK, Afters,
       Resting, Submitting, Planned, At, InsertLocks
  <2> QED
    BY <2>1, <2>2, <2>4, WriteStep
<1>20. ASSUME ScheduleCommit(q) PROVE IInv'
  <2>1. handler[q].job \in Jobs /\ Planned /\ Ready(handler[q].job)
    BY <1>20 DEF ScheduleCommit, At, HandlerOK, Resting, Submitting, StoreOK, Offered
  <2>2. StoreOK' /\ Grows
    BY <1>20, <2>1, SetJobKeeps DEF ScheduleCommit
  <2>3. UNCHANGED run /\ \A o \in Requests \ {q} : handler'[o] = handler[o]
    BY <1>20 DEF ScheduleCommit, TypeOK
  <2>4. handler'[q].pc = "schedule_select" /\ handler'[q].todo \subseteq handler[q].todo
        /\ handler'[q].after \in Afters
    BY <1>20 DEF ScheduleCommit, TypeOK, Handler, HandlerOK
  <2>5. HandlerOK(handler[q])'
    BY <1>20, <2>1, <2>2, <2>4 DEF ScheduleCommit, Grows, TypeOK, StoreTypeOK, HandlerOK,
       Afters, Resting, Submitting, Planned, At, Ready, Pred, SetJob
  <2> QED
    BY <2>2, <2>3, <2>5, WriteStep
<1>21. ASSUME StartCommit(q) PROVE IInv'
  <2>1. handler[q].job \in Jobs /\ Planned /\ Ready(handler[q].job)
    BY <1>21 DEF StartCommit, At, HandlerOK, Resting, Submitting, StoreOK, Offered
  <2>2. StoreOK' /\ Grows
    BY <1>21, <2>1, SetJobKeeps DEF StartCommit
  <2>3. UNCHANGED run /\ \A o \in Requests \ {q} : handler'[o] = handler[o]
    BY <1>21, UpdateArtifactEffect DEF StartCommit, TypeOK
  <2>4. HandlerOK(handler[q])'
    BY <1>21, <2>1, <2>2, UpdateArtifactEffect DEF StartCommit, Grows, TypeOK, StoreTypeOK,
       HandlerOK, Afters, Resting, Submitting, Planned, At
  <2> QED
    BY <2>2, <2>3, <2>4, WriteStep
<1>22. ASSUME CompleteCommit(q) PROVE IInv'
  <2>1. handler[q].job \in Jobs /\ Planned /\ Ready(handler[q].job)
    BY <1>22 DEF CompleteCommit, At, HandlerOK, Resting, Submitting, StoreOK, Offered
  <2>2. StoreOK' /\ Grows
    BY <1>22, <2>1, SetJobKeeps DEF CompleteCommit
  <2>3. UNCHANGED run /\ \A o \in Requests \ {q} : handler'[o] = handler[o]
    BY <1>22, GotoEffect DEF CompleteCommit, TypeOK
  <2>4. HandlerOK(handler[q])'
    BY <1>22, <2>1, <2>2, GotoEffect DEF CompleteCommit, Grows, TypeOK, StoreTypeOK,
       HandlerOK, Afters, Resting, Submitting, Planned, At
  <2> QED
    BY <2>2, <2>3, <2>4, WriteStep
<1>23. ASSUME MarkDone(q) PROVE IInv'
  <2>1. handler[q].job \in Offered /\ Stored(handler[q].job)
    BY <1>23 DEF MarkDone, At, HandlerOK, Resting, Submitting, StoreOK, Offered
  <2>2. StoreOK' /\ Grows
    BY <1>23, <2>1, MarkAsDoneKeeps DEF MarkDone
  <2>3. UNCHANGED run /\ \A o \in Requests \ {q} : handler'[o] = handler[o]
    BY <1>23, GotoEffect DEF MarkDone, TypeOK
  <2>4. HandlerOK(handler[q])'
    BY <1>23, <2>1, <2>2, GotoEffect DEF MarkDone, Grows, TypeOK, StoreTypeOK, HandlerOK,
       Afters, Resting, Submitting, Planned, At, MarkAsDone
  <2> QED
    BY <2>2, <2>3, <2>4, WriteStep
<1>24. ASSUME Unlock(q) PROVE IInv'
  <2>1. handler[q].job \in is_ready
    BY <1>24 DEF Unlock, At, HandlerOK, Resting, Submitting, StoreOK, Offered
  <2>2. StoreOK' /\ Grows
    BY <1>24, <2>1, UnlockJobKeeps DEF Unlock
  <2>3. UNCHANGED run /\ \A o \in Requests \ {q} : handler'[o] = handler[o]
    BY <1>24, GotoEffect DEF Unlock, TypeOK
  <2>4. HandlerOK(handler[q])'
    BY <1>24, <2>1, <2>2, GotoEffect DEF Unlock, Grows, TypeOK, StoreTypeOK, HandlerOK,
       Afters, Resting, Submitting, Planned, At
  <2> QED
    BY <2>2, <2>3, <2>4, WriteStep
<1>25. ASSUME FailCommit(q) PROVE IInv'
  <2>1. handler[q].job \in Jobs /\ Planned /\ Ready(handler[q].job)
    BY <1>25 DEF FailCommit, At, HandlerOK, Resting, Submitting, StoreOK, Offered
  <2>2. StoreOK' /\ Grows
    BY <1>25, <2>1, SetJobKeeps DEF FailCommit
  <2>3. UNCHANGED run /\ \A o \in Requests \ {q} : handler'[o] = handler[o]
    BY <1>25, GotoEffect DEF FailCommit, TypeOK
  <2>4. HandlerOK(handler[q])'
    BY <1>25, <2>1, <2>2, GotoEffect DEF FailCommit, Grows, TypeOK, StoreTypeOK, HandlerOK,
       Afters, Resting, Submitting, Planned, At
  <2> QED
    BY <2>2, <2>3, <2>4, WriteStep
<1>26. ASSUME MarkError(q) PROVE IInv'
  <2>1. StoreOK' /\ Grows
    BY <1>26, MarkAsErrorKeeps DEF MarkError
  <2>2. UNCHANGED run /\ \A o \in Requests \ {q} : handler'[o] = handler[o]
    BY <1>26, UpdateArtifactEffect DEF MarkError, TypeOK
  <2>3. HandlerOK(handler[q])'
    BY <1>26, <2>1, UpdateArtifactEffect DEF MarkError, Grows, TypeOK, StoreTypeOK,
       HandlerOK, Afters, Resting, Submitting, Planned, At
  <2> QED
    BY <2>1, <2>2, <2>3, WriteStep
<1>27. ASSUME WriteError(q) PROVE IInv'
  <2>1. StoreOK' /\ Grows
    BY <1>27, WriteFileKeeps DEF WriteError
  <2>2. UNCHANGED run /\ \A o \in Requests \ {q} : handler'[o] = handler[o]
    BY <1>27, GotoEffect DEF WriteError, TypeOK
  <2>3. HandlerOK(handler[q])'
    BY <1>27, <2>1, GotoEffect DEF WriteError, Grows, TypeOK, StoreTypeOK, HandlerOK,
       Afters, Resting, Submitting, Planned, At
  <2> QED
    BY <2>1, <2>2, <2>3, WriteStep
<1>28. ASSUME NEW j \in Jobs, StartLocally(q, j) PROVE IInv'
  <2>1. Planned /\ UNCHANGED store
    BY <1>28 DEF StartLocally, At, HandlerOK, Resting, Submitting
  <2>2. \A r \in Runs : run'[r] = run[r] \/ RunOK(r)'
    BY <1>28, <2>1, StartExecEffect DEF StartLocally, TypeOK, RunOK, Planned, store
  <2>3. /\ \A o \in Requests \ {q} : handler'[o] = handler[o]
        /\ handler'[q].pc \in {"tms_launch", "failed"} /\ handler'[q].after \in Afters
    BY <1>28 DEF StartLocally, At, TypeOK, Handler, HandlerOK, Afters
  <2>4. HandlerOK(handler[q])'
    BY <2>1, <2>3 DEF HandlerOK, Resting, Submitting, Planned, store
  <2> QED
    BY <2>1, <2>2, <2>3, <2>4, SameStore, Compose
<1>29. ASSUME SendTask(q) PROVE IInv'
  <2>1. Planned /\ UNCHANGED store
    BY <1>29 DEF SendTask, At, HandlerOK, Resting, Submitting
  <2>2. \A r \in Runs : run'[r] = run[r] \/ RunOK(r)'
    BY <1>29, <2>1, StartExecEffect DEF SendTask, TypeOK, RunOK, Planned, store
  <2>3. /\ \A o \in Requests \ {q} : handler'[o] = handler[o]
        /\ handler'[q].pc \in {"tms_launch", "failed"} /\ handler'[q].after \in Afters
    BY <1>29 DEF SendTask, At, TypeOK, Handler, HandlerOK, Afters
  <2>4. HandlerOK(handler[q])'
    BY <2>1, <2>3 DEF HandlerOK, Resting, Submitting, Planned, store
  <2> QED
    BY <2>1, <2>2, <2>3, <2>4, SameStore, Compose
<1>30. ASSUME SendTaskFails(q) PROVE IInv'
  <2>1. Planned /\ UNCHANGED store
    BY <1>30 DEF SendTaskFails, At, HandlerOK, Resting, Submitting
  <2>2. \A r \in Runs : run'[r] = run[r] \/ RunOK(r)'
    BY <1>30, <2>1, StartExecEffect DEF SendTaskFails, TypeOK, RunOK, Planned, store
  <2>3. /\ \A o \in Requests \ {q} : handler'[o] = handler[o]
        /\ handler'[q].pc \in {"tms_launch", "failed"} /\ handler'[q].after \in Afters
    BY <1>30, GotoEffect DEF SendTaskFails, HandlerOK, Afters
  <2>4. HandlerOK(handler[q])'
    BY <2>1, <2>3 DEF HandlerOK, Resting, Submitting, Planned, store
  <2> QED
    BY <2>1, <2>2, <2>3, <2>4, SameStore, Compose
<1> QED
  BY <1>1, <1>2, <1>3, <1>4, <1>5, <1>6, <1>7, <1>8, <1>9, <1>10, <1>11, <1>12,
     <1>13, <1>14, <1>15, <1>16, <1>17, <1>18, <1>19, <1>20, <1>21, <1>22, <1>23, <1>24,
     <1>25, <1>26, <1>27, <1>28, <1>29, <1>30
     DEF HandlerStep, SubmitStep, CheckStep, LaunchStep, TaskStep, DoneStep, ErrorStep

-----------------------------------------------------------------------------
(* The invariant is inductive: the executions, the heartbeat, the failures.  *)

\* A request that arrives starts one coroutine, at its first location.
LEMMA BeginEffect ==
    ASSUME TypeOK, NEW r \in Runs, NEW k \in {"get", "done", "error"}, NEW pc,
           Begin(<<r, k>>, pc)
    PROVE  /\ handler'[<<r, k>>].pc = pc
           /\ handler'[<<r, k>>].job = r[1]
           /\ handler'[<<r, k>>].after = "ok"
           /\ \A o \in Requests \ {<<r, k>>} : handler'[o] = handler[o]
BY RunsOfJobs DEF Begin, JobOf, Idle, TypeOK

\* A request whose answer has been read leaves one coroutine at rest.
LEMMA CloseEffect ==
    ASSUME TypeOK, NEW q \in Requests, Close(q)
    PROVE  /\ HandlerOK(handler[q])'
           /\ \A o \in Requests \ {q} : handler'[o] = handler[o]
BY DEF Close, Idle, TypeOK, HandlerOK, Afters, Resting

\* An execution that moves leaves the others where they are.
LEMMA BecomeEffect ==
    ASSUME TypeOK, NEW r \in Runs, NEW state, Become(r, state)
    PROVE  run'[r] = state /\ \A o \in Runs \ {r} : run'[o] = run[o]
BY DEF Become, TypeOK

\* Every step of an execution, failures included, keeps the invariant.
LEMMA ExecutionInductive ==
    ASSUME IInv, TypeOK', NEW r \in Runs,
           ExecutionStep(r) \/ WorkFails(r) \/ Timeout(r) \/ LoseReport(r)
    PROVE  IInv'
<1>0. TypeOK /\ RunOK(r) /\ r[1] \in Jobs /\ \A k \in {"get", "done", "error"} : <<r, k>> \in Requests
  BY RunsOfJobs DEF IInv
<1> USE <1>0
<1>1. ASSUME GetTask(r) PROVE IInv'
  <2>1. StoreOK' /\ Grows /\ Planned'
    BY <1>1, SameStore DEF GetTask, RunOK, Planned, store
  <2>2. RunOK(r)' /\ \A o \in Runs \ {r} : run'[o] = run[o]
    BY <1>1, <2>1, BecomeEffect DEF GetTask, RunOK
  <2>3. /\ HandlerOK(handler[<<r, "get">>])'
        /\ \A o \in Requests \ {<<r, "get">>} : handler'[o] = handler[o]
    BY <1>1, <2>1, BeginEffect DEF GetTask, HandlerOK, Afters
  <2> QED
    BY <2>1, <2>2, <2>3, Compose
<1>2. ASSUME GotTask(r) \/ DoneAnswered(r) PROVE IInv'
  <2>1. StoreOK' /\ Grows /\ Planned'
    BY <1>2, SameStore DEF GotTask, DoneAnswered, RunOK, Planned, store
  <2>2. RunOK(r)' /\ \A o \in Runs \ {r} : run'[o] = run[o]
    BY <1>2, <2>1, BecomeEffect DEF GotTask, DoneAnswered, RunOK
  <2>3. \A o \in Requests : handler'[o] = handler[o] \/ HandlerOK(handler[o])'
    BY <1>2, CloseEffect DEF GotTask, DoneAnswered
  <2> QED
    BY <2>1, <2>2, <2>3, Compose
<1>3. ASSUME StoreProduct(r) PROVE IInv'
  <2>1. StoreOK' /\ Grows /\ Stored(r[1])'
    BY <1>3, WriteFileKeeps DEF StoreProduct
  <2>2. RunOK(r)' /\ \A o \in Runs \ {r} : run'[o] = run[o]
    BY <1>3, <2>1, BecomeEffect DEF StoreProduct, RunOK, WriteFile, Planned
  <2> QED
    BY <1>3, <2>1, <2>2, Compose DEF StoreProduct
<1>4. ASSUME PostDone(r) PROVE IInv'
  <2>1. StoreOK' /\ Grows /\ Planned' /\ Stored(r[1])'
    BY <1>4, SameStore DEF PostDone, RunOK, Planned, Stored, store
  <2>2. RunOK(r)' /\ \A o \in Runs \ {r} : run'[o] = run[o]
    BY <1>4, <2>1, BecomeEffect DEF PostDone, RunOK
  <2>3. /\ HandlerOK(handler[<<r, "done">>])'
        /\ \A o \in Requests \ {<<r, "done">>} : handler'[o] = handler[o]
    <3>1. /\ handler'[<<r, "done">>].pc = "lock" /\ handler'[<<r, "done">>].job = r[1]
          /\ handler'[<<r, "done">>].after = "ok"
          /\ \A o \in Requests \ {<<r, "done">>} : handler'[o] = handler[o]
      BY <1>4, BeginEffect DEF PostDone
    <3> QED
      BY <3>1, <2>1 DEF HandlerOK, Afters, Stored
  <2> QED
    BY <2>1, <2>2, <2>3, Compose
<1>5. ASSUME PostError(r) PROVE IInv'
  <2>1. StoreOK' /\ Grows /\ Planned'
    BY <1>5, SameStore DEF PostError, RunOK, Planned, store
  <2>2. RunOK(r)' /\ \A o \in Runs \ {r} : run'[o] = run[o]
    BY <1>5, <2>1, BecomeEffect DEF PostError, RunOK
  <2>3. /\ HandlerOK(handler[<<r, "error">>])'
        /\ \A o \in Requests \ {<<r, "error">>} : handler'[o] = handler[o]
    BY <1>5, <2>1, BeginEffect DEF PostError, HandlerOK, Afters
  <2> QED
    BY <2>1, <2>2, <2>3, Compose
<1>6. ASSUME GetRefused(r) \/ WorkFails(r) \/ Timeout(r) \/ LoseReport(r) PROVE IInv'
  <2>1. StoreOK' /\ Grows /\ Planned'
    BY <1>6, SameStore DEF GetRefused, WorkFails, Timeout, LoseReport, RunOK, Planned, store
  <2>2. RunOK(r)' /\ \A o \in Runs \ {r} : run'[o] = run[o]
    BY <1>6, <2>1, BecomeEffect DEF GetRefused, WorkFails, Timeout, LoseReport, RunOK
  <2> QED
    BY <1>6, <2>1, <2>2, Compose DEF GetRefused, WorkFails, Timeout, LoseReport
<1> QED
  BY <1>1, <1>2, <1>3, <1>4, <1>5, <1>6 DEF ExecutionStep

\* The next beat starts a job that was offered, so the locks are all in the table.
LEMMA BeatInductive ==
    ASSUME IInv, TypeOK', NEW j \in Jobs, Beat(j)
    PROVE  IInv'
<1>1. Planned
  <2>1. j \in Offered
    BY DEF Beat, Offered, JobsIn, Absent
  <2> QED
    BY <2>1 DEF IInv, StoreOK
<1>2. StoreOK' /\ Grows /\ Planned'
  BY <1>1, SameStore DEF Beat, Planned, store
<1>3. \A r \in Runs : run'[r] = run[r] \/ RunOK(r)'
  BY <1>2, StartExecEffect DEF Beat, IInv, RunOK
<1> QED
  BY <1>2, <1>3, Compose DEF Beat

\* A restart of the scheduler keeps the invariant: only the tables are relied upon after
\* it.
LEMMA CrashInductive ==
    ASSUME IInv, TypeOK', Crash
    PROVE  IInv'
<1>1. StoreOK' /\ Grows /\ (Planned => Planned')
  BY SameStore DEF Crash, Planned, store
<1>2. \A q \in Requests : HandlerOK(handler[q])'
  BY DEF Crash, HandlerOK, Idle, Afters, Resting
<1>3. \A r \in Runs : run'[r] = run[r] \/ RunOK(r)'
  BY <1>1 DEF Crash, IInv, RunOK
<1> QED
  BY <1>1, <1>2, <1>3, Compose

-----------------------------------------------------------------------------
\* The invariant holds before anything has been submitted.
LEMMA InitInvariant == Init => IInv
<1> SUFFICES ASSUME Init PROVE IInv
  OBVIOUS
<1>1. TypeOK
  BY DEF Init, ServerInit, StoreInit, TypeOK, StoreTypeOK, RunStates, ArtifactJobStatus,
     JobStatus,
         Absent, Idle, Handler, Locations
<1>2. Offered = {}
  BY DEF Init, ServerInit, StoreInit, Offered, JobsIn, Absent
<1>3. StoreOK
  BY <1>2 DEF Init, ServerInit, StoreInit, StoreOK
<1>4. \A q \in Requests : HandlerOK(handler[q])
  BY DEF Init, ServerInit, Idle, HandlerOK, Afters, Resting, Submitting
<1>5. \A r \in Runs : RunOK(r)
  BY DEF Init, ServerInit, RunOK
<1> QED
  BY <1>1, <1>3, <1>4, <1>5 DEF IInv

\* Every step keeps the invariant.
LEMMA NextInvariant == IInv /\ [Next]_vars => IInv'
<1> SUFFICES ASSUME IInv, [Next]_vars PROVE IInv'
  OBVIOUS
<1>1. TypeOK'
  BY TypeStep
<1>2. ASSUME UNCHANGED vars PROVE IInv'
  BY <1>1, <1>2, SameStore, Compose DEF vars, serverVars
<1> QED
  BY <1>1, <1>2, HandlerInductive, ExecutionInductive, BeatInductive, CrashInductive
     DEF Next, FaultStep, RemoteFails

\* The invariant always holds.
LEMMA Invariance == Spec => []IInv
BY InitInvariant, NextInvariant, PTL DEF Spec

\* The tables, the coroutines and the executions always have their types, for every
\* artifact and with all the failures.
THEOREM TypeCorrect == Spec => []TypeOK
<1>1. IInv => TypeOK
  BY DEF IInv
<1> QED
  BY <1>1, Invariance, PTL

\* A job that a worker may start always finds the results of the jobs that lock it,
\* for every graph of locks, every placement, any number of duplicate executions and
\* all the failures.
THEOREM InputsAreStored == Spec => []InputsStored
<1>1. IInv => InputsStored
  BY DEF IInv, StoreOK, InputsStored, Ready, Stored
<1> QED
  BY <1>1, Invariance, PTL

-----------------------------------------------------------------------------
(* Every step is a step of DependencyOrder or leaves it alone. *)

\* A step that changes neither the statuses of the jobs nor the ready flags offers and
\* finishes nothing.
LEMMA Stutters ==
    ASSUME Offered' = Offered, is_ready' = is_ready
    PROVE  [Order!Next]_(Order!vars)
BY DEF Order!vars

\* A status is given: the job is offered now, or it was before.
LEMMA SetJobRefines ==
    ASSUME IInv, NEW j \in Jobs, NEW status \in {"SCHEDULED", "RUNNING", "COMPLETED", "ERROR"},
           SetJob(j, status), Ready(j)
    PROVE  [Order!Next]_(Order!vars)
<1>1. Offered' = Offered \cup {j} /\ is_ready' = is_ready
  BY DEF IInv, TypeOK, StoreTypeOK, SetJob, Offered, JobsIn, Absent
<1>2. CASE j \in Offered
  BY <1>1, <1>2, Stutters
<1>3. CASE j \notin Offered
  <2>1. Order!Offer(j)
    BY <1>1, <1>3 DEF Order!Offer, Order!Pred, Ready, Pred
  <2> QED
    BY <2>1 DEF Order!Next
<1> QED
  BY <1>2, <1>3

\* A resource is declared ready: the job, offered before, finishes.
LEMMA MarkAsDoneRefines ==
    ASSUME NEW j \in Offered, MarkAsDone(j)
    PROVE  [Order!Next]_(Order!vars)
<1>1. Offered' = Offered /\ is_ready' = is_ready \cup {j}
  BY DEF MarkAsDone, Offered, JobsIn
<1>2. CASE j \in is_ready
  BY <1>1, <1>2, Stutters
<1>3. CASE j \notin is_ready
  <2>1. Order!Finish(j)
    BY <1>1, <1>3 DEF Order!Finish
  <2> QED
    BY <2>1 DEF Order!Next, Offered
<1> QED
  BY <1>2, <1>3

\* Every step of a coroutine offers one job, finishes one job, or does neither.
LEMMA HandlerRefines ==
    ASSUME IInv, NEW q \in Requests, HandlerStep(q) \/ SendTaskFails(q)
    PROVE  [Order!Next]_(Order!vars)
<1>0. HandlerOK(handler[q]) /\ StoreOK
  BY DEF IInv
<1>1. CASE ScheduleCommit(q)
  BY <1>0, <1>1, SetJobRefines DEF ScheduleCommit, HandlerOK, At
<1>2. ASSUME handler[q].job \in Offered
      PROVE  handler[q].job \in Jobs /\ Ready(handler[q].job)
  BY <1>0, <1>2 DEF StoreOK, Offered
<1>3. CASE StartCommit(q)
  BY <1>0, <1>2, <1>3, SetJobRefines DEF StartCommit, HandlerOK, At
<1>4. CASE CompleteCommit(q)
  BY <1>0, <1>2, <1>4, SetJobRefines DEF CompleteCommit, HandlerOK, At
<1>5. CASE FailCommit(q)
  BY <1>0, <1>2, <1>5, SetJobRefines DEF FailCommit, HandlerOK, At
<1>6. CASE MarkDone(q)
  BY <1>0, <1>6, MarkAsDoneRefines DEF MarkDone, HandlerOK, At
<1>7. ASSUME NEW j \in Jobs, CreateJob(q, j) PROVE Offered' = Offered /\ is_ready' = is_ready
  BY <1>7 DEF CreateJob, InsertJob, IInv, TypeOK, StoreTypeOK, Offered, JobsIn, Absent
<1>8. ASSUME UNCHANGED <<job, is_ready>> PROVE Offered' = Offered /\ is_ready' = is_ready
  BY <1>8 DEF Offered, JobsIn
<1>9. CASE \/ ArtifactSelect(q) \/ ArtifactCommit(q) \/ CreateArtifact(q)
           \/ \E j \in Jobs : AddLocks(q, j) \/ ScheduleSelect(q, j)
           \/ ListUnlocked(q) \/ ScheduleEnd(q) \/ ListJobs(q)
  BY <1>8, <1>9, Stutters
     DEF ArtifactSelect, ArtifactCommit, SetArtifact, CreateArtifact, InsertArtifact, AddLocks,
         InsertLocks, ScheduleSelect, ListUnlocked, ScheduleEnd, ListJobs, store
<1>10. CASE LaunchStep(q) \/ SendTaskFails(q) \/ TaskRead(q) \/ StartSelect(q)
  BY <1>8, <1>10, Stutters
     DEF LaunchStep, TmsArtifact, TmsList, SendTask, LaunchEnd, StartLocally, PostponeToHeartbeat,
         StartRemote, SendTaskFails, TaskRead, StartSelect, store
<1>11. CASE \/ Acquire(q) \/ CompleteSelect(q) \/ Unlock(q)
            \/ FailSelect(q) \/ MarkError(q) \/ WriteError(q)
  BY <1>8, <1>11, Stutters
     DEF Acquire, CompleteSelect, Unlock, UnlockJob, FailSelect, MarkError, MarkAsError,
         WriteError, WriteFile, store
<1> QED
  BY <1>1, <1>3, <1>4, <1>5, <1>6, <1>7, <1>9, <1>10, <1>11, Stutters
     DEF HandlerStep, SubmitStep, CheckStep, TaskStep, DoneStep, ErrorStep

\* Every step of the federation offers one job, finishes one job, or does neither.
LEMMA NextRefines == IInv /\ [Next]_vars => [Order!Next]_(Order!vars)
<1> SUFFICES ASSUME IInv, [Next]_vars PROVE [Order!Next]_(Order!vars)
  OBVIOUS
<1>1. ASSUME UNCHANGED <<job, is_ready>> PROVE [Order!Next]_(Order!vars)
  BY <1>1, Stutters DEF Offered, JobsIn
<1>2. ASSUME NEW r \in Runs, ExecutionStep(r) \/ WorkFails(r) \/ Timeout(r) \/ LoseReport(r)
      PROVE  UNCHANGED <<job, is_ready>>
  BY <1>2 DEF ExecutionStep, GetTask, GetRefused, GotTask, StoreProduct, WriteFile, PostDone, DoneAnswered,
              PostError, WorkFails, Timeout, LoseReport, store
<1>3. ASSUME UNCHANGED vars \/ Crash \/ \E j \in Jobs : Beat(j)
      PROVE  UNCHANGED <<job, is_ready>>
  BY <1>3 DEF vars, serverVars, Crash, Beat, store
<1> QED
  BY <1>1, <1>2, <1>3, HandlerRefines DEF Next, FaultStep, RemoteFails

\* At first nothing is offered and nothing has finished.
LEMMA InitRefines == Init => Order!Init
BY LocksAssumption DEF Init, ServerInit, StoreInit, Order!Init, Offered, JobsIn, Absent

\* The statements, handlers, retries and failures of the scheduler implement the promise
\* of the locks: a job is offered only after all the jobs that lock it have finished.
THEOREM OrderIsKept == Spec => ImplementsDependencyOrder
BY InitRefines, NextRefines, Invariance, PTL DEF Spec, ImplementsDependencyOrder, Order!Spec

-----------------------------------------------------------------------------
(* The status of the artifact.                                               *)
(*                                                                           *)
(* It is written by every check, every task_started and every task_failed,   *)
(* most of them without the lock, from what they have read before.  What     *)
(* makes it right is that there is one checker at a time.  post_done takes    *)
(* the lock; the submission, which does not, is over with its check before    *)
(* anybody can report, and a job is COMPLETED by its own execution only.     *)

\* What this rests on: no job is executed twice, no job that waits for nothing is for a
\* client, whose beats do not wait for the submission, and nobody gives up on an answer.
\* None of the three can be left out: a late task_started or a late task_failed then
\* takes a COMPLETED artifact back, or a job of it.
Orderly ==
    /\ \A j \in Jobs : MaxRuns[j] <= 1
    /\ \A j \in Jobs : Pred(j) = {} => Place[j] # "CLIENT"
    /\ "timeout" \notin Faults

\* What the status of the artifact is about.
AllDone == \A j \in Jobs : job[j] = "COMPLETED"
NodeJobs == {j \in Jobs : Place[j] = "NODE"}
AllCreated == \A j \in Jobs : job[j] # Absent

\* Where a coroutine is: in update_status, in task_started, in the two checks, ...
InUpdate == {"artifact_select", "artifact_commit"}
Taking == {"task_read", "start_select", "start_commit"}
Checking == {"list_unlocked", "schedule_select", "schedule_commit", "list_jobs"}
Launching == {"tms_artifact", "tms_list", "tms_launch", "send_task"} \cup Taking
Completing == {"complete_select", "complete_commit", "mark_done", "unlock"}
Failing == {"fail_select", "fail_commit", "mark_error", "write_error"}

\* get_task: the execution waits for its task, and nobody has completed the job.
GetFits(r, h) ==
    h.pc # "idle" =>
        /\ run[r] = "fetching"
        /\ h.pc \in Taking \cup InUpdate \cup {"ok", "failed"}
        /\ h.pc \in Taking \cup InUpdate => h.job = r[1] /\ h.after = "ok" /\ h.want = "RUNNING"

\* post_error, after the end of the execution.
ErrorFits(r, h) ==
    h.pc # "idle" =>
        /\ run[r] = "over"
        /\ h.pc \in Failing \cup InUpdate \cup {"ok", "failed"}
        /\ h.pc \in Failing \cup InUpdate => h.job = r[1]
        /\ h.pc \in InUpdate => h.after = "write_error" /\ h.want = "ERROR"
        /\ h.pc \in InUpdate \cup {"fail_commit", "mark_error"} => job[r[1]] # "COMPLETED"

\* A check, of a submission or of a completion, and the launch that follows it.
CheckFits(h) ==
    /\ h.pc \notin InUpdate => h.want = "RUNNING"
    /\ h.started => h.pc \in {"schedule_select", "schedule_commit"} /\ ~AllDone
    /\ h.pc = "schedule_commit" => job[h.job] = "WAITING"
    /\ h.pc \in InUpdate =>
          \/ h.after = "list_jobs" /\ h.want = "RUNNING" /\ ~AllDone
          \/ h.after = "tms_artifact" /\ h.want = "COMPLETED" /\ AllDone
          \/ h.after = "send_task" /\ h.want = "RUNNING"
    /\ h.pc \in Taking => h.after = "send_task"
    /\ h.pc \in Taking \cup InUpdate /\ h.after = "send_task" => h.job \in NodeJobs
    /\ h.pc \in Checking \cup InUpdate \cup Launching => AllCreated

\* post_done: the execution waits for the answer to its report.
DoneFits(r, h) ==
    /\ h.pc # "idle" => run[r] = "reporting"
    /\ h.pc \in Checking \cup InUpdate \cup Launching \cup Completing
               \cup {"idle", "lock", "ok", "failed"}
    /\ h.pc \in Completing \cup {"lock"} => h.job = r[1]
    /\ CheckFits(h)

\* The submission until its first jobs may be launched: nobody else is at work.
Before(h) ==
    \/ h.pc \in Submitting \cup Checking \cup {"tms_artifact", "tms_list"}
    \/ h.pc \in InUpdate /\ h.after # "send_task"

\* submit_artifact.
SubmitFits(h) ==
    /\ h.pc \in Submitting \cup Checking \cup InUpdate \cup Launching \cup {"idle", "ok", "failed"}
    /\ h.pc = "create_artifact" => artifact = Absent
    /\ h.pc = "add_locks" => AllCreated
    /\ Before(h) => is_ready = {} /\ \A r \in Runs : run[r] = "none"
    /\ CheckFits(h)

\* What a request is doing fits what its execution and the tables say.
Fits(q) ==
    /\ q = Submit => SubmitFits(handler[q])
    /\ \A r \in Runs : /\ q = <<r, "get">> => GetFits(r, handler[q])
                       /\ q = <<r, "done">> => DoneFits(r, handler[q])
                       /\ q = <<r, "error">> => ErrorFits(r, handler[q])

\* The lock of the route.
Mutex == \A q, o \in Requests : InLock(q) /\ InLock(o) => q = o

\* A job is COMPLETED by its own execution, which does not run on a node.
RunFits(r) ==
    /\ job[r[1]] = "COMPLETED" => run[r] \in {"reporting", "failing", "over"}
    /\ run[r] \notin {"none", "launched", "over"} => Place[r[1]] # "NODE"
    /\ run[r] # "none" => AllCreated

\* What the tables say of one another.
Tables ==
    /\ \A j \in Jobs : job[j] = "COMPLETED" => Place[j] # "NODE"
    /\ Offered # {} => AllCreated
    /\ artifact = "COMPLETED" => AllDone

\* With IInv, the inductive invariant.
CInv ==
    /\ \A q \in Requests : Fits(q)
    /\ \A r \in Runs : RunFits(r)
    /\ Mutex
    /\ Tables

-----------------------------------------------------------------------------
\* Each job has one execution at most.
LEMMA OneRun ==
    ASSUME Orderly, NEW r \in Runs, NEW s \in Runs, r[1] = s[1]
    PROVE  r = s
BY SchedulerAssumption DEF Orderly, Runs

\* A request is the submission or one of the three requests of one execution.
LEMMA Kinds ==
    /\ Submit \in Requests /\ Submit \notin TaskRequests
    /\ \A q \in Requests :
          q # Submit => \E r \in Runs : q \in {<<r, "get">>, <<r, "done">>, <<r, "error">>}
    /\ \A r \in Runs, k \in {"get", "done", "error"} : <<r, k>> \in TaskRequests \cap Requests
BY SchedulerAssumption DEF Requests, TaskRequests

\* While a submission has not launched anything, there is nobody else.
LEMMA Alone ==
    ASSUME CInv, Before(handler[Submit])
    PROVE  /\ is_ready = {}
           /\ \A r \in Runs : run[r] = "none"
           /\ \A q \in Requests : q # Submit => handler[q].pc = "idle"
<1>1. is_ready = {} /\ \A r \in Runs : run[r] = "none"
  BY Kinds DEF CInv, Fits, SubmitFits
<1>2. ASSUME NEW q \in Requests, q # Submit PROVE handler[q].pc = "idle"
  <2>1. PICK r \in Runs : q \in {<<r, "get">>, <<r, "done">>, <<r, "error">>}
    BY <1>2, Kinds
  <2> QED
    BY <1>1, <2>1 DEF CInv, Fits, GetFits, DoneFits, ErrorFits
<1> QED
  BY <1>1, <1>2

\* Who may schedule or complete jobs: the holder of the lock, or the submission.
Checker(q) ==
    \/ InLock(q)
    \/ q = Submit /\ Before(handler[q])

\* There is one checker at a time.
LEMMA OneChecker ==
    ASSUME CInv, NEW q \in Requests, NEW o \in Requests, Checker(q), Checker(o)
    PROVE  q = o
<1>1. ASSUME NEW p \in Requests, Before(handler[Submit]) PROVE ~ InLock(p)
  BY <1>1, Alone, Kinds DEF InLock
<1> QED
  BY <1>1 DEF Checker, CInv, Mutex

\* A coroutine that does not move still fits if nobody took away what it relies on.
LEMMA FrameFits ==
    ASSUME IInv, CInv, NEW o \in Requests, handler'[o] = handler[o],
           o = Submit => ~ Before(handler[o]),
           \A r \in Runs, k \in {"get", "done", "error"} :
              o = <<r, k>> => run'[r] = run[r] \/ handler[o].pc = "idle",
           AllCreated => AllCreated',
           \A j \in Jobs : job[j] = "COMPLETED" => job'[j] = "COMPLETED",
           Checker(o) => \A j \in Jobs : /\ job[j] = "WAITING" => job'[j] = "WAITING"
                                         /\ job'[j] = "COMPLETED" => job[j] = "COMPLETED",
           \A r \in Runs : /\ o = <<r, "error">> /\ handler[o].pc # "idle"
                           /\ job'[r[1]] = "COMPLETED"
                           => job[r[1]] = "COMPLETED"
    PROVE  Fits(o)'
<1>1. Fits(o) /\ TypeOK /\ HandlerOK(handler[o])
  BY DEF CInv, IInv
<1>2. AllDone => AllDone'
  BY DEF AllDone
<1>3. Checker(o) => (AllDone' => AllDone)
  BY DEF AllDone
<1>4. CASE o = Submit
  <2>1. SubmitFits(handler[o]) /\ ~ Before(handler[o])
    BY <1>1, <1>4 DEF Fits
  <2>2. CheckFits(handler[o])'
    BY <2>1, <1>2 DEF SubmitFits, CheckFits, Before, Checking, InUpdate, Launching, Taking,
       Submitting
  <2>3. SubmitFits(handler[o])'
    BY <2>1, <2>2 DEF SubmitFits, Before, Submitting, Checking, InUpdate
  <2> QED
    BY <1>4, <2>3, Kinds DEF Fits
<1>5. ASSUME NEW r \in Runs, o = <<r, "get">> PROVE Fits(o)'
  <2>1. GetFits(r, handler[o])'
    BY <1>1, <1>5 DEF Fits, GetFits
  <2> QED
    BY <1>5, <2>1, Kinds DEF Fits
<1>6. ASSUME NEW r \in Runs, o = <<r, "error">> PROVE Fits(o)'
  <2>1. ErrorFits(r, handler[o])'
    BY <1>1, <1>6 DEF Fits, ErrorFits
  <2> QED
    BY <1>6, <2>1, Kinds DEF Fits
<1>7. ASSUME NEW r \in Runs, o = <<r, "done">> PROVE Fits(o)'
  <2>1. DoneFits(r, handler[o])
    BY <1>1, <1>7 DEF Fits
  <2>2. CASE handler[o].pc \in {"idle", "lock", "ok", "failed"}
    <3>1. CheckFits(handler[o])'
      BY <2>1, <2>2 DEF DoneFits, CheckFits, InUpdate, Taking, Checking, Launching
    <3> QED
      BY <1>7, <2>1, <2>2, <3>1, Kinds DEF Fits, DoneFits
  <2>3. CASE handler[o].pc \notin {"idle", "lock", "ok", "failed"}
    <3>1. Checker(o)
      BY <1>7, <2>3, Kinds DEF Checker, InLock, Requests, TaskRequests
    <3>2. handler[o].pc = "schedule_commit" => handler[o].job \in Jobs
      BY <1>1 DEF HandlerOK
    <3>3. CheckFits(handler[o])'
      BY <2>1, <3>1, <3>2, <1>2, <1>3 DEF DoneFits, CheckFits
    <3> QED
      BY <1>7, <2>1, <2>3, <3>3, Kinds DEF Fits, DoneFits
  <2> QED
    BY <2>2, <2>3
<1> QED
  BY <1>4, <1>5, <1>6, <1>7, Kinds

\* Only the report of an execution completes a job.
LEMMA Completer ==
    ASSUME CInv, NEW q \in Requests, handler[q].pc \in Completing \cup {"lock"}
    PROVE  \E r \in Runs : q = <<r, "done">> /\ run[r] = "reporting" /\ handler[q].job = r[1]
                          /\ Place[r[1]] # "NODE"
<1>1. q # Submit
  BY DEF CInv, Fits, SubmitFits, Completing, Submitting, Checking, InUpdate, Launching, Taking
<1>2. PICK r \in Runs : q \in {<<r, "get">>, <<r, "done">>, <<r, "error">>}
  BY <1>1, Kinds
<1>3. q = <<r, "done">>
  BY <1>2 DEF CInv, Fits, GetFits, ErrorFits, Completing, Failing, InUpdate, Taking
<1> QED
  BY <1>3 DEF CInv, Fits, DoneFits, RunFits, Completing

\* A step of a coroutine keeps the invariant if it leaves the coroutine fit, takes no
\* completion back, and schedules or completes jobs only as a checker.
LEMMA CoroutineStep ==
    ASSUME Orderly, IInv, CInv, NEW q \in Requests, handler[q].pc # "idle",
           \A o \in Requests \ {q} : handler'[o] = handler[o],
           Fits(q)',
           InLock(q)' => InLock(q) \/ \A o \in Requests : ~ InLock(o),
           AllCreated => AllCreated',
           \A j \in Jobs : job[j] = "COMPLETED" => job'[j] = "COMPLETED",
           \A j \in Jobs : job[j] = "WAITING" => job'[j] = "WAITING" \/ Checker(q),
           \A j \in Jobs : job'[j] = "COMPLETED" =>
              \/ job[j] = "COMPLETED"
              \/ handler[q].pc = "complete_commit" /\ j = handler[q].job,
           \A r \in Runs :
              run'[r] = run[r] \/ (run[r] = "none" /\ run'[r] = "launched" /\ AllCreated),
           Offered' # {} => AllCreated \/ Offered # {},
           artifact' = "COMPLETED" => AllDone \/ artifact = "COMPLETED"
    PROVE  CInv'
<1>1. handler[q].pc = "complete_commit" =>
        /\ Checker(q)
        /\ \E r \in Runs : q = <<r, "done">> /\ run[r] = "reporting" /\ handler[q].job = r[1]
                           /\ Place[r[1]] # "NODE"
  <2> SUFFICES ASSUME handler[q].pc = "complete_commit"
               PROVE  Checker(q) /\ \E r \in Runs : q = <<r, "done">> /\ run[r] = "reporting"
                                      /\ handler[q].job = r[1] /\ Place[r[1]] # "NODE"
    OBVIOUS
  <2>1. PICK r \in Runs : q = <<r, "done">> /\ run[r] = "reporting"
                          /\ handler[q].job = r[1] /\ Place[r[1]] # "NODE"
    BY Completer DEF Completing
  <2>2. q \in TaskRequests /\ q[2] = "done"
    BY <2>1, Kinds
  <2> QED
    BY <2>1, <2>2 DEF Checker, InLock
<1>2. ASSUME NEW o \in Requests, o # q PROVE Fits(o)'
  <2>1. o = Submit => ~ Before(handler[o])
    BY <1>2, Alone
  <2>2. \A r \in Runs, k \in {"get", "done", "error"} :
           o = <<r, k>> => run'[r] = run[r] \/ handler[o].pc = "idle"
    BY DEF CInv, Fits, GetFits, DoneFits, ErrorFits
  <2>3. Checker(o) => ~ Checker(q)
    BY <1>2, OneChecker
  <2>4. ASSUME NEW r \in Runs, o = <<r, "error">>, handler[o].pc # "idle",
               job'[r[1]] = "COMPLETED"
        PROVE  job[r[1]] = "COMPLETED"
    <3>1. ASSUME handler[q].pc = "complete_commit", r[1] = handler[q].job PROVE FALSE
      <4>1. PICK s \in Runs : run[s] = "reporting" /\ handler[q].job = s[1]
        BY <1>1, <3>1
      <4>2. r = s
        BY <3>1, <4>1, OneRun
      <4> QED
        BY <2>4, <4>1, <4>2 DEF CInv, Fits, ErrorFits
    <3> QED
      BY <2>4, <3>1, RunsOfJobs
  <2> QED
    BY <1>1, <1>2, <2>1, <2>2, <2>3, <2>4, FrameFits
<1>3. ASSUME NEW r \in Runs PROVE RunFits(r)'
  <2>1. RunFits(r) /\ r[1] \in Jobs
    BY RunsOfJobs DEF CInv
  <2>2. ASSUME job'[r[1]] = "COMPLETED" PROVE run'[r] \in {"reporting", "failing", "over"}
    <3>1. CASE job[r[1]] = "COMPLETED"
      BY <2>1, <3>1 DEF RunFits
    <3>2. CASE handler[q].pc = "complete_commit" /\ r[1] = handler[q].job
      <4>1. PICK s \in Runs : run[s] = "reporting" /\ handler[q].job = s[1]
        BY <1>1, <3>2
      <4>2. r = s
        BY <3>2, <4>1, OneRun
      <4> QED
        BY <4>1, <4>2
    <3> QED
      BY <2>1, <2>2, <3>1, <3>2
  <2> QED
    BY <2>1, <2>2 DEF RunFits
<1>4. Mutex'
  BY DEF CInv, Mutex, InLock
<1>5. Tables'
  <2>1. \A j \in Jobs : job'[j] = "COMPLETED" => Place[j] # "NODE"
    BY <1>1 DEF CInv, Tables
  <2>2. AllDone => AllDone'
    BY DEF AllDone
  <2> QED
    BY <2>1, <2>2 DEF CInv, Tables
<1> QED
  BY <1>2, <1>3, <1>4, <1>5 DEF CInv

\* Most steps write neither the status of a job nor an execution.
LEMMA MoveFits ==
    ASSUME Orderly, IInv, CInv, UNCHANGED <<job, run>>, NEW q \in Requests, handler[q].pc # "idle",
           \A o \in Requests \ {q} : handler'[o] = handler[o],
           Fits(q)',
           InLock(q)' => InLock(q) \/ \A o \in Requests : ~ InLock(o),
           artifact' = "COMPLETED" => AllDone \/ artifact = "COMPLETED"
    PROVE  CInv'
<1>1. AllCreated' = AllCreated /\ Offered' = Offered
  BY DEF AllCreated, Offered, JobsIn
<1> QED
  BY <1>1, CoroutineStep

\* What a step leaves of the locals of its coroutine.
LEMMA GotoLocals ==
    ASSUME NEW q \in Requests, NEW pc, TypeOK, Goto(q, pc)
    PROVE  /\ handler'[q].pc = pc
           /\ pc \in {"ok", "failed"} => handler'[q].want = "RUNNING" /\ ~ handler'[q].started
           /\ pc \notin {"ok", "failed"} =>
                /\ handler'[q].job = handler[q].job /\ handler'[q].todo = handler[q].todo
                /\ handler'[q].after = handler[q].after /\ handler'[q].want = handler[q].want
                /\ handler'[q].started = handler[q].started
BY DEF Goto, Idle, TypeOK, Handler

\* What is left when update_status returns.
LEMMA ReturnLocals ==
    ASSUME NEW q \in Requests, TypeOK, Return(q)
    PROVE  /\ handler'[q].pc = handler[q].after
           /\ handler'[q].want = "RUNNING"
           /\ handler'[q].started => handler[q].started
           /\ handler[q].after \notin {"ok", "failed"} => handler'[q].job = handler[q].job
BY DEF Return, Idle, TypeOK, Handler

\* What is left when update_status is called.
LEMMA UpdateArtifactLocals ==
    ASSUME NEW q \in Requests, NEW want, NEW after, TypeOK, UpdateArtifact(q, want, after)
    PROVE  /\ handler'[q].pc = "artifact_select"
           /\ handler'[q].want = want /\ handler'[q].after = after
           /\ handler'[q].job = handler[q].job /\ handler'[q].started = handler[q].started
BY DEF UpdateArtifact, TypeOK, Handler

\* Back from update_status.
LEMMA ReturnFits ==
    ASSUME IInv, CInv, NEW q \in Requests, UNCHANGED <<job, run, is_ready>>,
           handler[q].pc \in InUpdate, Return(q)
    PROVE  Fits(q)'
<1>1. /\ handler'[q].pc = handler[q].after
      /\ handler'[q].want = "RUNNING"
      /\ handler'[q].started => handler[q].started
      /\ handler[q].after \notin {"ok", "failed"} => handler'[q].job = handler[q].job
  BY ReturnLocals DEF IInv
<1> USE <1>1 DEF InUpdate, Submitting, Taking, Checking, Launching, Completing, Failing
<1>2. Fits(q)
  BY DEF CInv
<1>3. ASSUME CheckFits(handler[q]) PROVE CheckFits(handler[q])'
  BY <1>3 DEF CheckFits, AllDone, AllCreated
<1>4. ASSUME q = Submit PROVE Fits(q)'
  BY <1>2, <1>3, <1>4, Kinds DEF Fits, SubmitFits, Before, CheckFits
<1>5. ASSUME NEW r \in Runs, q = <<r, "get">> PROVE Fits(q)'
  BY <1>2, <1>5, Kinds DEF Fits, GetFits
<1>6. ASSUME NEW r \in Runs, q = <<r, "done">> PROVE Fits(q)'
  BY <1>2, <1>3, <1>6, Kinds DEF Fits, DoneFits, CheckFits
<1>7. ASSUME NEW r \in Runs, q = <<r, "error">> PROVE Fits(q)'
  BY <1>2, <1>7, Kinds DEF Fits, ErrorFits
<1> QED
  BY <1>4, <1>5, <1>6, <1>7, Kinds

\* A check of the artifact: of a submission or of a report.
LEMMA Checks ==
    ASSUME CInv, NEW q \in Requests,
           handler[q].pc \in Checking \cup {"tms_artifact", "tms_list", "tms_launch", "send_task"}
    PROVE  /\ q = Submit \/ \E r \in Runs : q = <<r, "done">>
           /\ CheckFits(handler[q])
<1> USE DEF InUpdate, Submitting, Taking, Checking, Launching, Completing, Failing
<1>1. Fits(q)
  BY DEF CInv
<1>2. CASE q = Submit
  BY <1>1, <1>2 DEF Fits, SubmitFits
<1>3. ASSUME NEW r \in Runs, q \in {<<r, "get">>, <<r, "done">>, <<r, "error">>}
      PROVE  q = <<r, "done">> /\ CheckFits(handler[q])
  BY <1>1, <1>3 DEF Fits, GetFits, DoneFits, ErrorFits
<1> QED
  BY <1>2, <1>3, Kinds

\* A check that goes on, with the tables unchanged, and may launch an execution.
LEMMA CheckMoves ==
    ASSUME Orderly, IInv, CInv, UNCHANGED store, NEW q \in Requests,
           \A o \in Requests \ {q} : handler'[o] = handler[o],
           \A r \in Runs : \/ run'[r] = run[r]
                          \/ /\ run[r] = "none" /\ run'[r] = "launched"
                             /\ handler[q].pc \in {"tms_launch", "send_task"},
           handler[q].pc \in Checking \cup {"tms_artifact", "tms_list", "tms_launch", "send_task"},
           handler'[q].pc \in Checking \cup InUpdate \cup Launching \cup {"ok", "failed"},
           Before(handler[q])' => Before(handler[q]),
           CheckFits(handler[q])'
    PROVE  CInv'
<1> USE DEF InUpdate, Submitting, Taking, Checking, Launching, Completing
<1>1. Fits(q)
  BY DEF CInv
<1>2. ASSUME q = Submit PROVE Fits(q)'
  BY <1>1, <1>2, Kinds DEF Fits, SubmitFits, Before, store
<1>3. ASSUME NEW r \in Runs, q = <<r, "done">> PROVE Fits(q)'
  BY <1>1, <1>3, Kinds DEF Fits, DoneFits
<1>4. Fits(q)'
  BY <1>2, <1>3, Checks
<1>5. InLock(q)' => InLock(q)
  BY DEF InLock
<1>6. AllCreated
  BY Checks DEF CheckFits
<1>7. UNCHANGED <<job, artifact>> /\ AllCreated'
  BY <1>6 DEF store, AllCreated
<1> QED
  BY <1>4, <1>5, <1>6, <1>7, CoroutineStep

\* update_status leaves its coroutine fit, and never takes an artifact back.
LEMMA ArtifactStepFits ==
    ASSUME Orderly, IInv, CInv, NEW q \in Requests, ArtifactSelect(q) \/ ArtifactCommit(q)
    PROVE  CInv' /\ (artifact = "COMPLETED" => artifact' = "COMPLETED")
<1> USE DEF InUpdate, Submitting, Taking, Checking, Launching, Completing, Failing
<1>0. TypeOK
  BY DEF IInv
<1>1. /\ UNCHANGED <<job, run, is_ready>>
      /\ \A o \in Requests \ {q} : handler'[o] = handler[o]
      /\ handler[q].pc \in InUpdate
  BY <1>0, GotoEffect, ReturnEffect
     DEF ArtifactSelect, ArtifactCommit, SetArtifact, store, At
<1>2. Fits(q)
  BY DEF CInv
<1> DEFINE WantFits == (handler[q].want = "COMPLETED") <=> AllDone
<1>3. WantFits
  <2>1. ASSUME CheckFits(handler[q]) PROVE WantFits
    BY <1>1, <2>1 DEF CheckFits, AllDone, NodeJobs, CInv, Tables
  <2>2. CASE q = Submit
    BY <1>2, <2>1, <2>2 DEF Fits, SubmitFits
  <2>3. ASSUME NEW r \in Runs, q = <<r, "get">> PROVE WantFits
    BY <1>1, <1>2, <2>3, RunsOfJobs DEF Fits, GetFits, AllDone, CInv, RunFits
  <2>4. ASSUME NEW r \in Runs, q = <<r, "done">> PROVE WantFits
    BY <1>2, <2>1, <2>4 DEF Fits, DoneFits
  <2>5. ASSUME NEW r \in Runs, q = <<r, "error">> PROVE WantFits
    BY <1>1, <1>2, <2>5, RunsOfJobs DEF Fits, ErrorFits, AllDone
  <2> QED
    BY <2>2, <2>3, <2>4, <2>5, Kinds
<1>4. artifact = "COMPLETED" => AllDone
  BY DEF CInv, Tables
<1>5. /\ artifact' = "COMPLETED" => AllDone \/ artifact = "COMPLETED"
      /\ artifact = "COMPLETED" => artifact' = "COMPLETED"
  BY <1>3, <1>4 DEF ArtifactSelect, ArtifactCommit, SetArtifact, store
<1>6. InLock(q)' => InLock(q)
  BY <1>1 DEF InLock
<1>7. Fits(q)'
  <2>1. ASSUME Return(q) PROVE Fits(q)'
    BY <1>1, <2>1, ReturnFits
  <2>2. ASSUME Goto(q, "artifact_commit") PROVE Fits(q)'
    <3>1. /\ handler'[q].pc = "artifact_commit"
          /\ handler'[q].job = handler[q].job /\ handler'[q].after = handler[q].after
          /\ handler'[q].want = handler[q].want /\ handler'[q].started = handler[q].started
      BY <1>0, <2>2, GotoLocals
    <3>2. CheckFits(handler[q]) => CheckFits(handler[q])'
      BY <1>1, <3>1 DEF CheckFits, AllDone, AllCreated
    <3>3. CASE q = Submit
      BY <1>1, <1>2, <3>1, <3>2, <3>3, Kinds DEF Fits, SubmitFits, Before
    <3>4. ASSUME NEW r \in Runs, q = <<r, "get">> PROVE Fits(q)'
      BY <1>1, <1>2, <3>1, <3>4, Kinds DEF Fits, GetFits
    <3>5. ASSUME NEW r \in Runs, q = <<r, "done">> PROVE Fits(q)'
      BY <1>1, <1>2, <3>1, <3>2, <3>5, Kinds DEF Fits, DoneFits
    <3>6. ASSUME NEW r \in Runs, q = <<r, "error">> PROVE Fits(q)'
      BY <1>1, <1>2, <3>1, <3>6, Kinds DEF Fits, ErrorFits
    <3> QED
      BY <3>3, <3>4, <3>5, <3>6, Kinds
  <2> QED
    BY <2>1, <2>2 DEF ArtifactSelect, ArtifactCommit
<1> QED
  BY <1>1, <1>5, <1>6, <1>7, MoveFits

\* The submission creates the rows while there is nobody else.
LEMMA SubmitStepFits ==
    ASSUME Orderly, IInv, CInv, NEW q \in Requests, SubmitStep(q)
    PROVE  CInv' /\ (artifact = "COMPLETED" => artifact' = "COMPLETED")
<1> USE DEF InUpdate, Submitting, Taking, Checking, Launching, Completing, Failing
<1>0. TypeOK /\ Fits(q)
  BY DEF IInv, CInv
<1>1. handler[q].pc \in Submitting /\ UNCHANGED <<run, is_ready>>
  BY DEF SubmitStep, CreateArtifact, CreateJob, AddLocks, InsertArtifact, InsertJob, InsertLocks, At
<1>2. q = Submit
  BY <1>0, <1>1, Kinds DEF Fits, GetFits, DoneFits, ErrorFits
<1>3. SubmitFits(handler[q])
  BY <1>0, <1>2 DEF Fits
<1>4. ASSUME CreateArtifact(q) PROVE CInv' /\ artifact # "COMPLETED"
  <2>1. /\ handler'[q].pc = "create_jobs" /\ handler'[q].want = handler[q].want
        /\ handler'[q].started = handler[q].started
        /\ \A o \in Requests \ {q} : handler'[o] = handler[o]
    BY <1>0, <1>4, GotoLocals, GotoEffect DEF CreateArtifact
  <2>2. UNCHANGED job /\ artifact' = "SCHEDULED" /\ artifact # "COMPLETED"
    BY <1>3, <1>4 DEF CreateArtifact, InsertArtifact, SubmitFits, At, Absent
  <2>3. Fits(q)'
    BY <1>1, <1>2, <1>3, <2>1, Kinds DEF Fits, SubmitFits, Before, CheckFits
  <2>4. ~ InLock(q)'
    BY <1>2, Kinds DEF InLock
  <2> QED
    BY <1>1, <2>1, <2>2, <2>3, <2>4, MoveFits
<1>5. ASSUME NEW j \in Jobs, CreateJob(q, j) PROVE CInv' /\ artifact' = artifact
  <2>1. /\ job' = [job EXCEPT ![j] = "WAITING"] /\ job[j] = Absent /\ artifact' = artifact
    BY <1>5 DEF CreateJob, InsertJob
  <2>2. /\ handler'[q].pc \in {"create_jobs", "add_locks"}
        /\ handler'[q].want = handler[q].want /\ handler'[q].started = handler[q].started
        /\ handler'[q].pc = "add_locks" => Created \cup {j} = Jobs
        /\ \A o \in Requests \ {q} : handler'[o] = handler[o]
    BY <1>0, <1>5 DEF CreateJob, At, TypeOK, Handler
  <2>3. \A k \in Jobs : job'[k] = IF k = j THEN "WAITING" ELSE job[k]
    BY <1>0, <2>1 DEF TypeOK, StoreTypeOK
  <2>4. Created \cup {j} = Jobs => AllCreated'
    BY <2>3 DEF Created, AllCreated, Absent
  <2>5. Fits(q)'
    BY <1>1, <1>2, <1>3, <2>2, <2>4, Kinds DEF Fits, SubmitFits, Before, CheckFits
  <2>6. ~ InLock(q)'
    BY <1>2, Kinds DEF InLock
  <2>7. AllCreated => AllCreated'
    BY <2>3 DEF AllCreated, Absent
  <2>8. Offered' # {} => Offered # {}
    BY <2>3 DEF Offered, JobsIn, Absent
  <2> QED
    BY <1>1, <2>1, <2>2, <2>3, <2>5, <2>6, <2>7, <2>8, CoroutineStep DEF Absent
<1>6. ASSUME NEW j \in Jobs, AddLocks(q, j) PROVE CInv' /\ artifact' = artifact
  <2>1. /\ handler'[q].pc \in {"add_locks", "list_unlocked"}
        /\ handler'[q].want = handler[q].want /\ handler'[q].started = handler[q].started
        /\ \A o \in Requests \ {q} : handler'[o] = handler[o]
    BY <1>0, <1>6 DEF AddLocks, TypeOK, Handler
  <2>2. UNCHANGED <<job, artifact>> /\ handler[q].pc = "add_locks"
    BY <1>6 DEF AddLocks, InsertLocks, At
  <2>3. AllCreated'
    BY <1>3, <2>2 DEF SubmitFits, AllCreated
  <2>4. Fits(q)'
    BY <1>1, <1>2, <1>3, <2>1, <2>2, <2>3, Kinds DEF Fits, SubmitFits, Before, CheckFits
  <2>5. ~ InLock(q)'
    BY <1>2, Kinds DEF InLock
  <2> QED
    BY <1>1, <2>1, <2>2, <2>4, <2>5, MoveFits
<1> QED
  BY <1>4, <1>5, <1>6 DEF SubmitStep

\* A check schedules WAITING jobs, and finds the artifact complete only if all its jobs are.
LEMMA CheckStepFits ==
    ASSUME Orderly, IInv, CInv, NEW q \in Requests, CheckStep(q)
    PROVE  CInv' /\ artifact' = artifact
<1> USE DEF InUpdate, Submitting, Taking, Checking, Launching, Completing, Failing
<1>0. TypeOK /\ HandlerOK(handler[q])
  BY DEF IInv
<1>1. handler[q].pc \in Checking /\ artifact' = artifact
  BY DEF CheckStep, ListUnlocked, ScheduleCommit, ScheduleEnd, ListJobs, ScheduleSelect, SetJob, At,
     store
<1>2. CheckFits(handler[q]) /\ AllCreated
  BY <1>1, Checks DEF CheckFits
<1>3. ASSUME ListUnlocked(q) PROVE CInv'
  <2>1. /\ UNCHANGED <<store, run>> /\ \A o \in Requests \ {q} : handler'[o] = handler[o]
        /\ handler[q].pc = "list_unlocked" /\ handler'[q].pc = "schedule_select"
        /\ handler'[q].want = handler[q].want /\ handler'[q].started = handler[q].started
    BY <1>0, <1>3 DEF ListUnlocked, At, TypeOK, Handler
  <2>2. CheckFits(handler[q])'
    BY <1>2, <2>1 DEF CheckFits, AllCreated, store
  <2> QED
    BY <2>1, <2>2, CheckMoves DEF Before
<1>4. ASSUME NEW j \in Jobs, ScheduleSelect(q, j) PROVE CInv'
  <2>1. /\ UNCHANGED <<store, run>> /\ \A o \in Requests \ {q} : handler'[o] = handler[o]
        /\ handler[q].pc = "schedule_select"
    BY <1>0, <1>4, GotoEffect DEF ScheduleSelect, At, TypeOK
  <2>2. CASE job[j] = "WAITING"
    <3>1. /\ handler'[q].pc = "schedule_commit" /\ handler'[q].job = j
          /\ handler'[q].want = handler[q].want /\ handler'[q].started = handler[q].started
      <4>1. handler' = [handler EXCEPT ![q] = [@ EXCEPT !.pc = "schedule_commit", !.job = j]]
        BY <1>4, <2>2 DEF ScheduleSelect
      <4> QED
        BY <1>0, <4>1 DEF TypeOK, Handler
    <3>2. CheckFits(handler[q])'
      BY <1>2, <2>1, <2>2, <3>1 DEF CheckFits, AllCreated, AllDone, store
    <3> QED
      BY <2>1, <3>1, <3>2, CheckMoves DEF Before
  <2>3. CASE job[j] # "WAITING"
    <3>1. handler'[q].pc = "failed" /\ handler'[q].want = "RUNNING" /\ ~ handler'[q].started
      BY <1>0, <1>4, <2>3, GotoLocals DEF ScheduleSelect
    <3>2. CheckFits(handler[q])'
      BY <3>1 DEF CheckFits
    <3> QED
      BY <2>1, <3>1, <3>2, CheckMoves DEF Before
  <2> QED
    BY <2>2, <2>3
<1>5. ASSUME ScheduleEnd(q) PROVE CInv'
  <2>1. /\ UNCHANGED <<store, run>> /\ \A o \in Requests \ {q} : handler'[o] = handler[o]
        /\ handler[q].pc = "schedule_select"
    BY <1>0, <1>5, GotoEffect DEF ScheduleEnd, At, TypeOK
  <2>2. CASE handler[q].started
    <3>1. /\ handler'[q].pc = "artifact_select" /\ handler'[q].after = "list_jobs"
          /\ handler'[q].want = handler[q].want /\ ~ handler'[q].started
      <4>1. handler' = [handler EXCEPT ![q] = [@ EXCEPT !.pc = "artifact_select", !.started = FALSE,
                                                        !.after = "list_jobs"]]
        BY <1>5, <2>2 DEF ScheduleEnd
      <4> QED
        BY <1>0, <4>1 DEF TypeOK, Handler
    <3>2. CheckFits(handler[q])'
      BY <1>2, <2>1, <2>2, <3>1 DEF CheckFits, AllCreated, AllDone, store
    <3> QED
      BY <2>1, <3>1, <3>2, CheckMoves DEF Before
  <2>3. CASE ~ handler[q].started
    <3>1. /\ handler'[q].pc = "list_jobs"
          /\ handler'[q].want = handler[q].want /\ handler'[q].started = handler[q].started
      BY <1>0, <1>5, <2>3, GotoLocals DEF ScheduleEnd
    <3>2. CheckFits(handler[q])'
      BY <1>2, <2>1, <2>3, <3>1 DEF CheckFits, AllCreated, store
    <3> QED
      BY <2>1, <3>1, <3>2, CheckMoves DEF Before
  <2> QED
    BY <2>2, <2>3
<1>6. ASSUME ListJobs(q) PROVE CInv'
  <2>1. /\ UNCHANGED <<store, run>> /\ \A o \in Requests \ {q} : handler'[o] = handler[o]
        /\ handler[q].pc = "list_jobs"
    BY <1>0, <1>6, GotoEffect, UpdateArtifactEffect DEF ListJobs, At
  <2>2. Created = JobsIn("COMPLETED") => AllDone
    BY <1>2 DEF Created, JobsIn, AllCreated, AllDone
  <2>3. CASE Created = JobsIn("COMPLETED")
    <3>1. /\ handler'[q].pc = "artifact_select" /\ handler'[q].after = "tms_artifact"
          /\ handler'[q].want = "COMPLETED" /\ handler'[q].started = handler[q].started
      BY <1>0, <1>6, <2>3, UpdateArtifactLocals DEF ListJobs
    <3>2. CheckFits(handler[q])'
      BY <1>2, <2>1, <2>2, <2>3, <3>1 DEF CheckFits, AllCreated, AllDone, store
    <3> QED
      BY <2>1, <3>1, <3>2, CheckMoves DEF Before
  <2>4. CASE Created # JobsIn("COMPLETED")
    <3>1. /\ handler'[q].pc = "tms_artifact"
          /\ handler'[q].want = handler[q].want /\ handler'[q].started = handler[q].started
      BY <1>0, <1>6, <2>4, GotoLocals DEF ListJobs
    <3>2. CheckFits(handler[q])'
      BY <1>2, <2>1, <3>1 DEF CheckFits, AllCreated, store
    <3> QED
      BY <2>1, <3>1, <3>2, CheckMoves DEF Before
  <2> QED
    BY <2>3, <2>4
<1>7. ASSUME ScheduleCommit(q) PROVE CInv'
  <2> DEFINE j == handler[q].job
  <2>1. j \in Jobs /\ job[j] = "WAITING" /\ handler[q].pc = "schedule_commit"
    BY <1>0, <1>2, <1>7 DEF ScheduleCommit, HandlerOK, CheckFits, At
  <2>2. job' = [job EXCEPT ![j] = "SCHEDULED"] /\ UNCHANGED <<run, is_ready>>
    BY <1>7 DEF ScheduleCommit, SetJob
  <2>3. /\ handler'[q].pc = "schedule_select" /\ handler'[q].want = handler[q].want
        /\ \A o \in Requests \ {q} : handler'[o] = handler[o]
    <3>1. ASSUME NEW h \in Handler, NEW todo
          PROVE  LET n == [h EXCEPT !.pc = "schedule_select", !.job = NoJob, !.todo = todo,
                                    !.started = TRUE]
                 IN  n.pc = "schedule_select" /\ n.want = h.want
      BY DEF Handler
    <3>2. handler' = [handler EXCEPT ![q] =
             [handler[q] EXCEPT !.pc = "schedule_select", !.job = NoJob,
                                !.todo = handler[q].todo \ {j}, !.started = TRUE]]
      BY <1>7 DEF ScheduleCommit
    <3> QED
      BY <1>0, <3>1, <3>2 DEF TypeOK
  <2>4. \A k \in Jobs : job'[k] = IF k = j THEN "SCHEDULED" ELSE job[k]
    BY <1>0, <2>2 DEF TypeOK, StoreTypeOK
  <2> HIDE DEF j
  <2>5. AllCreated' /\ ~ AllDone'
    BY <1>2, <2>1, <2>4 DEF AllCreated, AllDone, Absent
  <2>6. CheckFits(handler[q])'
    BY <1>2, <2>1, <2>3, <2>5 DEF CheckFits
  <2>7. ASSUME q = Submit PROVE Fits(q)' /\ Checker(q)
    <3>1. SubmitFits(handler[q])
      BY <2>7 DEF CInv, Fits
    <3> QED
      BY <2>1, <2>2, <2>3, <2>6, <2>7, <3>1, Kinds DEF Fits, SubmitFits, Before, Checker
  <2>8. ASSUME NEW r \in Runs, q = <<r, "done">> PROVE Fits(q)' /\ Checker(q)
    <3>1. DoneFits(r, handler[q])
      BY <2>8 DEF CInv, Fits
    <3>2. q \in TaskRequests /\ q[2] = "done"
      BY <2>8, Kinds
    <3> QED
      BY <2>1, <2>2, <2>3, <2>6, <2>8, <3>1, <3>2, Kinds DEF Fits, DoneFits, Checker, InLock
  <2>9. Fits(q)' /\ Checker(q)
    BY <1>1, <2>7, <2>8, Checks
  <2>10. InLock(q)' => InLock(q)
    BY <2>1 DEF InLock
  <2> QED
    BY <1>1, <1>2, <2>1, <2>2, <2>3, <2>4, <2>5, <2>9, <2>10, CoroutineStep
<1> QED
  BY <1>1, <1>3, <1>4, <1>5, <1>6, <1>7 DEF CheckStep

\* What is launched has not been launched before.
LEMMA FirstLaunch ==
    ASSUME Orderly, TypeOK, NEW j, StartExec(j), NEW r \in Runs
    PROVE  run'[r] = run[r] \/ (run[r] = "none" /\ run'[r] = "launched")
<1>1. ASSUME \E n \in 1 .. MaxRuns[j] : run[<<j, n>>] = "none", r = <<j, NextRun(j)>>
      PROVE  run[r] = "none"
  <2>1. j \in Jobs /\ NextRun(j) \in 1 .. MaxRuns[j]
    BY <1>1 DEF Runs
  <2>2. MaxRuns[j] = 1
    BY <2>1, SchedulerAssumption DEF Orderly
  <2>3. NextRun(j) = 1 /\ run[<<j, 1>>] = "none"
    BY <1>1, <2>1, <2>2
  <2> QED
    BY <1>1, <2>3
<1> QED
  BY <1>1 DEF StartExec, TypeOK

\* A launch starts executions, or takes the task of a job of a node.
LEMMA LaunchStepFits ==
    ASSUME Orderly, IInv, CInv, NEW q \in Requests, LaunchStep(q) \/ SendTaskFails(q)
    PROVE  CInv' /\ artifact' = artifact
<1> USE DEF InUpdate, Submitting, Taking, Checking, Launching, Completing, Failing
<1>0. TypeOK
  BY DEF IInv
<1>1. handler[q].pc \in {"tms_artifact", "tms_list", "tms_launch", "send_task"} /\ UNCHANGED store
  BY DEF LaunchStep, TmsArtifact, TmsList, SendTask, SendTaskFails, LaunchEnd, StartLocally,
     PostponeToHeartbeat, StartRemote, At, store
<1>2. CheckFits(handler[q]) /\ AllCreated
  BY <1>1, Checks DEF CheckFits
<1>3. UNCHANGED <<job, artifact>> /\ AllCreated'
  BY <1>1, <1>2 DEF AllCreated, store
<1>4. ASSUME TmsArtifact(q) \/ LaunchEnd(q) PROVE CInv'
  <2>1. PICK pc \in {"tms_list", "ok"} :
           Goto(q, pc) /\ (pc = "tms_list" => handler[q].pc = "tms_artifact")
    <3>1. CASE TmsArtifact(q)
      BY <3>1 DEF TmsArtifact, At
    <3>2. CASE LaunchEnd(q)
      BY <3>2 DEF LaunchEnd
    <3> QED
      BY <1>4, <3>1, <3>2
  <2>2. /\ UNCHANGED run /\ \A o \in Requests \ {q} : handler'[o] = handler[o]
    BY <1>0, <1>4, <2>1, GotoEffect DEF TmsArtifact, LaunchEnd
  <2>3. handler'[q].pc = pc /\ handler'[q].want = "RUNNING" /\ ~ handler'[q].started
    BY <1>0, <1>1, <1>2, <2>1, GotoLocals DEF CheckFits
  <2>4. CheckFits(handler[q])'
    BY <1>3, <2>1, <2>3 DEF CheckFits
  <2> QED
    BY <1>1, <2>1, <2>2, <2>3, <2>4, CheckMoves DEF Before
<1>5. ASSUME TmsList(q) PROVE CInv'
  <2>1. /\ handler[q].pc = "tms_list" /\ handler'[q].pc = "tms_launch"
        /\ handler'[q].want = handler[q].want /\ handler'[q].started = handler[q].started
        /\ UNCHANGED run /\ \A o \in Requests \ {q} : handler'[o] = handler[o]
    BY <1>0, <1>5 DEF TmsList, At, TypeOK, Handler
  <2>2. CheckFits(handler[q])'
    BY <1>2, <1>3, <2>1 DEF CheckFits
  <2> QED
    BY <1>1, <2>1, <2>2, CheckMoves DEF Before
<1>6. ASSUME NEW j \in Jobs, StartLocally(q, j) \/ PostponeToHeartbeat(q, j) PROVE CInv'
  <2>1. handler' = [handler EXCEPT ![q] = [@ EXCEPT !.todo = handler[q].todo \ {j}]]
    BY <1>6 DEF StartLocally, PostponeToHeartbeat
  <2>2. /\ handler[q].pc = "tms_launch" /\ handler'[q].pc = "tms_launch"
        /\ handler'[q].want = handler[q].want /\ handler'[q].started = handler[q].started
        /\ \A o \in Requests \ {q} : handler'[o] = handler[o]
    BY <1>0, <1>6, <2>1 DEF StartLocally, PostponeToHeartbeat, At, TypeOK, Handler
  <2>3. \A r \in Runs : run'[r] = run[r] \/ (run[r] = "none" /\ run'[r] = "launched")
    BY <1>0, <1>6, FirstLaunch DEF StartLocally, PostponeToHeartbeat
  <2>4. CheckFits(handler[q])'
    BY <1>2, <1>3, <2>2 DEF CheckFits
  <2> QED
    BY <1>1, <2>2, <2>3, <2>4, CheckMoves DEF Before
<1>7. ASSUME NEW j \in Jobs, StartRemote(q, j) PROVE CInv'
  <2>1. handler' = [handler EXCEPT ![q] = [@ EXCEPT !.pc = "task_read", !.job = j,
                                              !.after = "send_task"]]
    BY <1>7 DEF StartRemote
  <2>2. /\ handler[q].pc = "tms_launch" /\ handler'[q].pc = "task_read"
        /\ handler'[q].job = j /\ handler'[q].after = "send_task"
        /\ handler'[q].want = handler[q].want /\ handler'[q].started = handler[q].started
        /\ UNCHANGED run /\ \A o \in Requests \ {q} : handler'[o] = handler[o]
    BY <1>0, <1>7, <2>1 DEF StartRemote, At, TypeOK, Handler
  <2>3. j \in NodeJobs
    BY <1>7 DEF StartRemote, NodeJobs
  <2>4. CheckFits(handler[q])'
    BY <1>2, <1>3, <2>2, <2>3 DEF CheckFits
  <2> QED
    BY <1>1, <2>2, <2>4, CheckMoves DEF Before
<1>8. ASSUME SendTask(q) PROVE CInv'
  <2>1. handler' = [handler EXCEPT ![q] = [@ EXCEPT !.pc = "tms_launch", !.job = NoJob,
                                              !.todo = handler[q].todo \ {handler[q].job}]]
    BY <1>8 DEF SendTask
  <2>2. /\ handler[q].pc = "send_task" /\ handler'[q].pc = "tms_launch"
        /\ handler'[q].want = handler[q].want /\ handler'[q].started = handler[q].started
        /\ \A o \in Requests \ {q} : handler'[o] = handler[o]
    BY <1>0, <1>8, <2>1 DEF SendTask, At, TypeOK, Handler
  <2>3. \A r \in Runs : run'[r] = run[r] \/ (run[r] = "none" /\ run'[r] = "launched")
    BY <1>0, <1>8, FirstLaunch DEF SendTask
  <2>4. CheckFits(handler[q])'
    BY <1>2, <1>3, <2>2 DEF CheckFits
  <2> QED
    BY <1>1, <2>2, <2>3, <2>4, CheckMoves DEF Before
<1>9. ASSUME SendTaskFails(q) PROVE CInv'
  <2>1. /\ handler[q].pc = "send_task" /\ handler'[q].pc = "failed"
        /\ handler'[q].want = "RUNNING" /\ ~ handler'[q].started
        /\ \A o \in Requests \ {q} : handler'[o] = handler[o]
    BY <1>0, <1>9, GotoEffect, GotoLocals DEF SendTaskFails, At
  <2>2. \A r \in Runs : run'[r] = run[r] \/ (run[r] = "none" /\ run'[r] = "launched")
    BY <1>0, <1>9, FirstLaunch DEF SendTaskFails
  <2>3. CheckFits(handler[q])'
    BY <1>2, <1>3, <2>1 DEF CheckFits
  <2> QED
    BY <1>1, <2>1, <2>2, <2>3, CheckMoves DEF Before
<1> QED
  BY <1>3, <1>4, <1>5, <1>6, <1>7, <1>8, <1>9 DEF LaunchStep

\* A task is taken by the execution that asks for it, or by a check that sends it to a node;
\* its job is not COMPLETED.
LEMMA Takers ==
    ASSUME IInv, CInv, NEW q \in Requests, handler[q].pc \in Taking
    PROVE  /\ handler[q].job \in Jobs /\ job[handler[q].job] # "COMPLETED"
           /\ handler[q].want = "RUNNING" /\ handler[q].after \in {"ok", "send_task"}
           /\ \A r \in Runs : q # <<r, "error">>
<1> USE DEF InUpdate, Submitting, Taking, Checking, Launching, Completing, Failing
<1>1. Fits(q)
  BY DEF CInv
<1>2. ASSUME CheckFits(handler[q])
      PROVE  /\ handler[q].job \in Jobs /\ job[handler[q].job] # "COMPLETED"
             /\ handler[q].want = "RUNNING" /\ handler[q].after \in {"ok", "send_task"}
  BY <1>2 DEF CheckFits, NodeJobs, CInv, Tables
<1>3. CASE q = Submit
  BY <1>1, <1>2, <1>3, Kinds DEF Fits, SubmitFits
<1>4. ASSUME NEW r \in Runs, q = <<r, "get">>
      PROVE  /\ handler[q].job = r[1] /\ run[r] = "fetching" /\ RunFits(r)
             /\ handler[q].want = "RUNNING" /\ handler[q].after = "ok"
  BY <1>1, <1>4 DEF Fits, GetFits, CInv
<1>5. ASSUME NEW r \in Runs, q = <<r, "done">> PROVE CheckFits(handler[q])
  BY <1>1, <1>5 DEF Fits, DoneFits
<1>6. ASSUME NEW r \in Runs, q = <<r, "error">> PROVE FALSE
  BY <1>1, <1>6 DEF Fits, ErrorFits
<1> QED
  <2>1. ASSUME NEW r \in Runs, q = <<r, "get">>
        PROVE  handler[q].job \in Jobs /\ job[handler[q].job] # "COMPLETED"
    BY <1>4, <2>1, RunsOfJobs DEF RunFits
  <2> QED
    BY <1>2, <1>3, <1>4, <1>5, <1>6, <2>1, Kinds

\* A coroutine that takes a task stays fit on its way.
LEMMA TakeFits ==
    ASSUME IInv, CInv, NEW q \in Requests, handler[q].pc \in Taking, UNCHANGED run,
           AllCreated => AllCreated',
           handler'[q].want = "RUNNING", handler'[q].started => handler[q].started,
           \/ handler'[q].pc \in {handler[q].after, "failed"}
           \/ /\ handler'[q].pc \in Taking \cup {"artifact_select"}
              /\ handler'[q].job = handler[q].job /\ handler'[q].after = handler[q].after
    PROVE  Fits(q)'
<1> USE DEF InUpdate, Submitting, Taking, Checking, Launching, Completing, Failing
<1>1. Fits(q)
  BY DEF CInv
<1>2. ASSUME CheckFits(handler[q]) PROVE CheckFits(handler[q])'
  BY <1>2 DEF CheckFits, NodeJobs
<1>3. CASE q = Submit
  BY <1>1, <1>2, <1>3, Kinds DEF Fits, SubmitFits, Before, CheckFits
<1>4. ASSUME NEW r \in Runs, q = <<r, "get">> PROVE Fits(q)'
  BY <1>1, <1>4, Kinds DEF Fits, GetFits
<1>5. ASSUME NEW r \in Runs, q = <<r, "done">> PROVE Fits(q)'
  BY <1>1, <1>2, <1>5, Kinds DEF Fits, DoneFits, CheckFits
<1> QED
  BY <1>3, <1>4, <1>5, Takers, Kinds

\* Taking a task gives a job back to RUNNING only if nobody has completed it.
LEMMA TaskStepFits ==
    ASSUME Orderly, IInv, CInv, NEW q \in Requests, TaskStep(q)
    PROVE  CInv' /\ artifact' = artifact
<1>0. TypeOK /\ HandlerOK(handler[q])
  BY DEF IInv
<1>1. handler[q].pc \in Taking /\ artifact' = artifact /\ UNCHANGED run
  BY DEF TaskStep, TaskRead, StartSelect, StartCommit, SetJob, At, Taking, store
<1>2. InLock(q)' => InLock(q)
  BY <1>1 DEF InLock, Taking
<1>3. ASSUME TaskRead(q) \/ StartSelect(q) PROVE CInv'
  <2>1. PICK pc \in {"start_select", "start_commit", "failed", handler[q].after} : Goto(q, pc)
    BY <1>3 DEF TaskRead, StartSelect
  <2>2. UNCHANGED job /\ \A o \in Requests \ {q} : handler'[o] = handler[o]
    BY <1>0, <1>3, <2>1, GotoEffect DEF TaskRead, StartSelect, store
  <2>3. /\ handler'[q].pc = pc
        /\ handler'[q].want = "RUNNING" /\ (handler'[q].started => handler[q].started)
        /\ pc \in {"start_select", "start_commit"} =>
              handler'[q].job = handler[q].job /\ handler'[q].after = handler[q].after
    BY <1>0, <1>1, <2>1, GotoLocals, Takers
  <2>4. Fits(q)'
    BY <1>1, <2>2, <2>3, TakeFits DEF AllCreated, Taking
  <2> QED
    BY <1>1, <1>2, <2>2, <2>4, MoveFits DEF Taking
<1>4. ASSUME StartCommit(q) PROVE CInv'
  <2> DEFINE j == handler[q].job
  <2>1. j \in Jobs /\ job[j] # "COMPLETED" /\ j \in Offered
    BY <1>0, <1>1, <1>4, Takers DEF StartCommit, HandlerOK, At
  <2>2. /\ handler'[q].pc = "artifact_select" /\ handler'[q].want = "RUNNING"
        /\ handler'[q].after = handler[q].after /\ handler'[q].job = handler[q].job
        /\ handler'[q].started = handler[q].started
        /\ \A o \in Requests \ {q} : handler'[o] = handler[o]
    BY <1>0, <1>4, UpdateArtifactLocals, UpdateArtifactEffect DEF StartCommit
  <2>3. \A k \in Jobs : job'[k] = IF k = j THEN "RUNNING" ELSE job[k]
    BY <1>0, <1>4 DEF StartCommit, SetJob, TypeOK, StoreTypeOK
  <2> HIDE DEF j
  <2>4. AllCreated => AllCreated'
    BY <2>3 DEF AllCreated, Absent
  <2>5. Fits(q)'
    BY <1>1, <2>2, <2>4, TakeFits
  <2>6. job[j] # "WAITING"
    BY <2>1 DEF Offered, JobsIn
  <2> QED
    BY <1>1, <1>2, <2>1, <2>2, <2>3, <2>4, <2>5, <2>6, CoroutineStep DEF Taking
<1> QED
  BY <1>1, <1>3, <1>4 DEF TaskStep

\* A report stays fit on its way to the check.
LEMMA CompleteFits ==
    ASSUME IInv, CInv, NEW q \in Requests, handler[q].pc \in Completing \cup {"lock"},
           UNCHANGED run,
           AllCreated => AllCreated',
           handler'[q].pc \in Completing \cup {"list_unlocked", "failed"},
           handler'[q].want = "RUNNING", handler'[q].started => handler[q].started,
           handler'[q].pc # "failed" => handler'[q].job = handler[q].job
    PROVE  Fits(q)' /\ q # Submit
<1> USE DEF InUpdate, Submitting, Taking, Checking, Launching, Completing
<1>1. PICK r \in Runs : q = <<r, "done">> /\ run[r] = "reporting"
  BY Completer
<1>2. DoneFits(r, handler[q])
  BY <1>1 DEF CInv, Fits
<1>3. AllCreated'
  BY <1>1 DEF CInv, RunFits
<1>4. CheckFits(handler[q])'
  BY <1>2, <1>3 DEF DoneFits, CheckFits
<1>5. DoneFits(r, handler[q])'
  BY <1>1, <1>2, <1>4 DEF DoneFits
<1> QED
  BY <1>1, <1>5, Kinds DEF Fits

\* post_done completes its own job, alone in the lock, and then checks.
LEMMA DoneStepFits ==
    ASSUME Orderly, IInv, CInv, NEW q \in Requests, DoneStep(q)
    PROVE  CInv' /\ artifact' = artifact
<1> USE DEF InUpdate, Submitting, Taking, Checking, Launching, Completing
<1>0. TypeOK /\ HandlerOK(handler[q])
  BY DEF IInv
<1>1. /\ handler[q].pc \in Completing \cup {"lock"} /\ UNCHANGED <<run, artifact>>
      /\ handler'[q].pc \in Completing \cup {"list_unlocked", "failed"}
      /\ \A o \in Requests \ {q} : handler'[o] = handler[o]
      /\ \E pc \in Completing \cup {"list_unlocked", "failed"} : Goto(q, pc)
  BY <1>0, GotoEffect DEF DoneStep, Acquire, CompleteSelect, CompleteCommit, MarkDone, Unlock,
     SetJob, MarkAsDone, UnlockJob, store, At
<1>2. PICK r \in Runs : q = <<r, "done">> /\ run[r] = "reporting" /\ handler[q].job = r[1]
  BY <1>1, Completer
<1>3. handler[q].want = "RUNNING"
  BY <1>1, <1>2 DEF CInv, Fits, DoneFits, CheckFits
<1>4. /\ handler'[q].want = "RUNNING" /\ (handler'[q].started => handler[q].started)
      /\ handler'[q].pc # "failed" => handler'[q].job = handler[q].job
  BY <1>0, <1>1, <1>3, GotoLocals
<1>5. InLock(q)' => InLock(q) \/ \A o \in Requests : ~ InLock(o)
  BY <1>1 DEF InLock, DoneStep, Acquire, CompleteSelect, CompleteCommit, MarkDone, Unlock, At
<1>6. CASE CompleteCommit(q)
  <2> DEFINE j == handler[q].job
  <2>1. handler[q].pc = "complete_commit" /\ j \in Offered
    BY <1>0, <1>6 DEF CompleteCommit, HandlerOK, At
  <2>2. \A k \in Jobs : job'[k] = IF k = j THEN "COMPLETED" ELSE job[k]
    BY <1>0, <1>6 DEF CompleteCommit, SetJob, TypeOK, StoreTypeOK
  <2>3. AllCreated => AllCreated'
    BY <2>2 DEF AllCreated, Absent
  <2>4. Fits(q)'
    BY <1>1, <1>4, <2>3, CompleteFits
  <2>5. job[j] # "WAITING"
    BY <2>1 DEF Offered, JobsIn
  <2> HIDE DEF j
  <2>6. \A k \in Jobs : job'[k] = "COMPLETED" => job[k] = "COMPLETED" \/ k = j
    BY <2>2
  <2> QED
    BY <1>1, <1>5, <2>1, <2>2, <2>3, <2>4, <2>5, <2>6, CoroutineStep DEF j
<1>7. CASE ~ CompleteCommit(q)
  <2>1. UNCHANGED job
    BY <1>7 DEF DoneStep, Acquire, CompleteSelect, MarkDone, Unlock, MarkAsDone, UnlockJob, store
  <2>2. Fits(q)'
    BY <1>1, <1>4, <2>1, CompleteFits DEF AllCreated
  <2> QED
    BY <1>1, <1>5, <2>1, <2>2, MoveFits
<1> QED
  BY <1>1, <1>6, <1>7

\* post_error, without the lock, never touches a job that has been completed.
LEMMA ErrorStepFits ==
    ASSUME Orderly, IInv, CInv, NEW q \in Requests, ErrorStep(q)
    PROVE  CInv' /\ artifact' = artifact
<1> USE DEF InUpdate, Submitting, Taking, Checking, Launching, Completing, Failing
<1>0. TypeOK /\ HandlerOK(handler[q])
  BY DEF IInv
<1>1. /\ handler[q].pc \in Failing /\ UNCHANGED <<run, artifact>>
      /\ \A o \in Requests \ {q} : handler'[o] = handler[o]
  BY <1>0, GotoEffect, UpdateArtifactEffect DEF ErrorStep, FailSelect, FailCommit, MarkError,
     WriteError, SetJob, MarkAsError, WriteFile, store, At
<1>2. PICK r \in Runs : q = <<r, "error">>
  <2>1. Fits(q)
    BY DEF CInv
  <2> QED
    BY <1>1, <2>1, Kinds DEF Fits, SubmitFits, GetFits, DoneFits
<1>3. ErrorFits(r, handler[q]) /\ r[1] \in Jobs /\ handler[q].job = r[1]
  BY <1>1, <1>2, RunsOfJobs DEF CInv, Fits, ErrorFits
<1>4. ~ InLock(q)'
  BY <1>2 DEF InLock
<1>5. ASSUME ErrorFits(r, handler[q])' PROVE Fits(q)'
  BY <1>2, <1>5, Kinds DEF Fits
<1>6. CASE FailCommit(q)
  <2>1. handler[q].pc = "fail_commit" /\ r[1] \in Offered
    BY <1>0, <1>3, <1>6 DEF FailCommit, HandlerOK, At
  <2>2. \A k \in Jobs : job'[k] = IF k = r[1] THEN "ERROR" ELSE job[k]
    BY <1>0, <1>3, <1>6 DEF FailCommit, SetJob, TypeOK, StoreTypeOK
  <2>3. handler'[q].pc = "mark_error" /\ handler'[q].job = handler[q].job
    BY <1>0, <1>6, GotoLocals DEF FailCommit
  <2>4. Fits(q)'
    BY <1>1, <1>3, <1>5, <2>2, <2>3 DEF ErrorFits
  <2>5. job[r[1]] \notin {"WAITING", "COMPLETED"} /\ (AllCreated => AllCreated')
    BY <1>3, <2>1, <2>2 DEF Offered, JobsIn, ErrorFits, AllCreated, Absent
  <2> QED
    BY <1>1, <1>4, <2>1, <2>2, <2>4, <2>5, CoroutineStep
<1>7. CASE MarkError(q)
  <2>1. /\ handler'[q].pc = "artifact_select" /\ handler'[q].want = "ERROR"
        /\ handler'[q].after = "write_error" /\ handler'[q].job = handler[q].job
    BY <1>0, <1>7, UpdateArtifactLocals DEF MarkError
  <2>2. UNCHANGED job /\ handler[q].pc = "mark_error"
    BY <1>7 DEF MarkError, MarkAsError, At
  <2>3. Fits(q)'
    BY <1>1, <1>3, <1>5, <2>1, <2>2 DEF ErrorFits
  <2> QED
    BY <1>1, <1>4, <2>2, <2>3, MoveFits
<1>8. CASE FailSelect(q) \/ WriteError(q)
  <2>1. UNCHANGED job
    BY <1>8 DEF FailSelect, WriteError, WriteFile, store
  <2>2. PICK pc \in {"fail_commit", "failed", "ok"} :
           Goto(q, pc) /\ (pc = "fail_commit" => job[r[1]] = "RUNNING")
    BY <1>3, <1>8 DEF FailSelect, WriteError
  <2>3. handler'[q].pc = pc /\ (pc = "fail_commit" => handler'[q].job = handler[q].job)
    BY <1>0, <2>2, GotoLocals
  <2>4. Fits(q)'
    BY <1>1, <1>3, <1>5, <2>1, <2>2, <2>3 DEF ErrorFits
  <2> QED
    BY <1>1, <1>4, <2>1, <2>4, MoveFits
<1> QED
  BY <1>1, <1>6, <1>7, <1>8 DEF ErrorStep

\* An execution waits for one answer at most.
LEMMA OneAnswer ==
    ASSUME CInv, NEW r \in Runs
    PROVE  /\ run[r] # "fetching" => handler[<<r, "get">>].pc = "idle"
           /\ run[r] # "reporting" => handler[<<r, "done">>].pc = "idle"
           /\ run[r] # "over" => handler[<<r, "error">>].pc = "idle"
BY Kinds DEF CInv, Fits, GetFits, DoneFits, ErrorFits

\* A request that has not been made, or whose answer has been read, fits.
LEMMA IdleFits ==
    ASSUME NEW r \in Runs, NEW k \in {"get", "done", "error"}, handler'[<<r, k>>].pc = "idle",
           k = "done" => handler'[<<r, k>>].want = "RUNNING" /\ ~ handler'[<<r, k>>].started
    PROVE  Fits(<<r, k>>)'
BY Kinds DEF Fits, GetFits, DoneFits, ErrorFits, CheckFits, InUpdate, Taking, Checking, Launching,
   Completing

\* A step of an execution, which may make one request or read one answer.
LEMMA RunStep ==
    ASSUME Orderly, IInv, CInv, UNCHANGED <<job, artifact>>, NEW r \in Runs, run[r] # "none",
           NEW state, run' = [run EXCEPT ![r] = state],
           \A o \in Requests :
              (\A k \in {"get", "done", "error"} : o # <<r, k>>) => handler'[o] = handler[o],
           \A k \in {"get", "done", "error"} : Fits(<<r, k>>)',
           InLock(<<r, "done">>)' => InLock(<<r, "done">>),
           job[r[1]] = "COMPLETED" => state \in {"reporting", "failing", "over"},
           state # "over" => Place[r[1]] # "NODE"
    PROVE  CInv'
<1>1. \A s \in Runs : run'[s] = IF s = r THEN state ELSE run[s]
  BY DEF IInv, TypeOK
<1>2. ~ Before(handler[Submit])
  BY Alone
<1>3. AllCreated' = AllCreated /\ Offered' = Offered /\ AllDone' = AllDone
  BY DEF AllCreated, AllDone, Offered, JobsIn
<1>4. ASSUME NEW o \in Requests PROVE Fits(o)'
  <2>1. CASE \E k \in {"get", "done", "error"} : o = <<r, k>>
    BY <2>1
  <2>2. CASE \A k \in {"get", "done", "error"} : o # <<r, k>>
    BY <1>1, <1>2, <1>3, <2>2, FrameFits
  <2> QED
    BY <2>1, <2>2
<1>5. ASSUME NEW s \in Runs PROVE RunFits(s)'
  BY <1>1, <1>3, <1>5 DEF CInv, RunFits
<1>6. \A o \in Requests : InLock(o)' => InLock(o)
  <2>1. ASSUME NEW o \in Requests, o \in TaskRequests, o[2] = "done", o # <<r, "done">>
        PROVE  \A k \in {"get", "done", "error"} : o # <<r, k>>
    <3>1. \A k \in {"get", "done", "error"} : o = <<r, k>> => k = o[2]
      OBVIOUS
    <3> QED
      BY <2>1, <3>1
  <2> QED
    BY <2>1 DEF InLock
<1>7. Mutex' /\ Tables'
  BY <1>3, <1>6 DEF CInv, Mutex, Tables
<1> QED
  BY <1>4, <1>5, <1>7 DEF CInv

\* A request that an execution makes starts with the job of the execution.
LEMMA BeginLocals ==
    ASSUME TypeOK, NEW r \in Runs, NEW k \in {"get", "done", "error"}, NEW pc, Begin(<<r, k>>, pc)
    PROVE  /\ handler'[<<r, k>>].pc = pc /\ handler'[<<r, k>>].job = r[1]
           /\ handler'[<<r, k>>].after = "ok" /\ handler'[<<r, k>>].want = "RUNNING"
           /\ ~ handler'[<<r, k>>].started
           /\ \A o \in Requests \ {<<r, k>>} : handler'[o] = handler[o]
BY Kinds DEF Begin, JobOf, Idle, TypeOK, Handler

\* A step of an execution leaves its requests fit if it leaves alone those that wait for an
\* answer.
LEMMA AnswersFit ==
    ASSUME CInv, TypeOK, NEW r \in Runs, NEW k \in {"get", "done", "error"},
           \/ handler'[<<r, k>>] = handler[<<r, k>>] /\ handler[<<r, k>>].pc = "idle"
           \/ handler'[<<r, k>>] = Idle
    PROVE  Fits(<<r, k>>)'
<1>1. <<r, k>> \in Requests
  BY Kinds
<1>2. k = "done" /\ handler[<<r, k>>].pc = "idle" =>
         handler[<<r, k>>].want = "RUNNING" /\ ~ handler[<<r, k>>].started
  BY <1>1 DEF CInv, Fits, DoneFits, CheckFits, InUpdate
<1>3. handler'[<<r, k>>].pc = "idle"
  BY DEF Idle
<1>4. k = "done" => handler'[<<r, k>>].want = "RUNNING" /\ ~ handler'[<<r, k>>].started
  BY <1>2 DEF Idle
<1> QED
  BY <1>3, <1>4, IdleFits

\* An execution makes its requests one after the other.
LEMMA ExecutionStepFits ==
    ASSUME Orderly, IInv, CInv, NEW r \in Runs, ExecutionStep(r) \/ WorkFails(r) \/ LoseReport(r)
    PROVE  CInv' /\ artifact' = artifact
<1> DEFINE Asks == {"get", "done", "error"}
<1>0. TypeOK /\ RunFits(r) /\ r[1] \in Jobs /\ \A k \in Asks : <<r, k>> \in Requests
  BY RunsOfJobs, Kinds DEF IInv, CInv
<1>1. ASSUME GetTask(r) PROVE CInv' /\ artifact' = artifact
  <2>1. /\ run[r] = "launched" /\ run' = [run EXCEPT ![r] = "fetching"]
        /\ UNCHANGED <<job, artifact>> /\ Place[r[1]] # "NODE"
    BY <1>1 DEF GetTask, Become, Verified, ComponentId, store
  <2>2. Begin(<<r, "get">>, "task_read")
    BY <1>1 DEF GetTask
  <2>3. /\ handler'[<<r, "done">>] = handler[<<r, "done">>]
        /\ handler'[<<r, "error">>] = handler[<<r, "error">>]
    BY <1>0, <2>2, BeginLocals
  <2>4. Fits(<<r, "done">>)' /\ Fits(<<r, "error">>)'
    BY <1>0, <2>1, <2>3, OneAnswer, AnswersFit
  <2>5. run'[r] = "fetching"
    BY <1>0, <2>1 DEF TypeOK
  <2>6. Fits(<<r, "get">>)'
    BY <1>0, <2>2, <2>5, BeginLocals, Kinds DEF Fits, GetFits, Taking, InUpdate
  <2>7. InLock(<<r, "done">>)' => InLock(<<r, "done">>)
    BY <2>3 DEF InLock
  <2>8. job[r[1]] # "COMPLETED"
    BY <1>0, <2>1 DEF RunFits
  <2>9. \A o \in Requests : (\A k \in Asks : o # <<r, k>>) => handler'[o] = handler[o]
    BY <1>0, <2>2, BeginLocals
  <2> QED
    BY <2>1, <2>4, <2>6, <2>7, <2>8, <2>9, RunStep
<1>2. ASSUME PostDone(r) PROVE CInv' /\ artifact' = artifact
  <2>1. /\ run[r] = "stored" /\ run' = [run EXCEPT ![r] = "reporting"]
        /\ UNCHANGED <<job, artifact>>
    BY <1>2 DEF PostDone, Become, store
  <2>2. Begin(<<r, "done">>, "lock")
    BY <1>2 DEF PostDone
  <2>3. /\ handler'[<<r, "get">>] = handler[<<r, "get">>]
        /\ handler'[<<r, "error">>] = handler[<<r, "error">>]
    BY <1>0, <2>2, BeginLocals
  <2>4. Fits(<<r, "get">>)' /\ Fits(<<r, "error">>)'
    BY <1>0, <2>1, <2>3, OneAnswer, AnswersFit
  <2>5. run'[r] = "reporting"
    BY <1>0, <2>1 DEF TypeOK
  <2>6. CheckFits(handler[<<r, "done">>])'
    BY <1>0, <2>2, BeginLocals DEF CheckFits, InUpdate, Taking, Checking, Launching
  <2>7. Fits(<<r, "done">>)' /\ ~ InLock(<<r, "done">>)'
    BY <1>0, <2>2, <2>5, <2>6, BeginLocals, Kinds DEF Fits, DoneFits, InLock
  <2>8. Place[r[1]] # "NODE"
    BY <1>0, <2>1 DEF RunFits
  <2>9. \A o \in Requests : (\A k \in Asks : o # <<r, k>>) => handler'[o] = handler[o]
    BY <1>0, <2>2, BeginLocals
  <2> QED
    BY <2>1, <2>4, <2>7, <2>8, <2>9, RunStep
<1>3. ASSUME PostError(r) PROVE CInv' /\ artifact' = artifact
  <2>1. /\ run[r] = "failing" /\ run' = [run EXCEPT ![r] = "over"]
        /\ UNCHANGED <<job, artifact>>
    BY <1>3 DEF PostError, Become, store
  <2>2. Begin(<<r, "error">>, "fail_select")
    BY <1>3 DEF PostError
  <2>3. /\ handler'[<<r, "get">>] = handler[<<r, "get">>]
        /\ handler'[<<r, "done">>] = handler[<<r, "done">>]
    BY <1>0, <2>2, BeginLocals
  <2>4. Fits(<<r, "get">>)' /\ Fits(<<r, "done">>)'
    BY <1>0, <2>1, <2>3, OneAnswer, AnswersFit
  <2>5. run'[r] = "over"
    BY <1>0, <2>1 DEF TypeOK
  <2>6. Fits(<<r, "error">>)'
    BY <1>0, <2>2, <2>5, BeginLocals, Kinds DEF Fits, ErrorFits, Failing, InUpdate
  <2>7. InLock(<<r, "done">>)' => InLock(<<r, "done">>)
    BY <2>3 DEF InLock
  <2>8. \A o \in Requests : (\A k \in Asks : o # <<r, k>>) => handler'[o] = handler[o]
    BY <1>0, <2>2, BeginLocals
  <2> QED
    BY <2>1, <2>4, <2>6, <2>7, <2>8, RunStep
<1>4. ASSUME GotTask(r) \/ DoneAnswered(r) PROVE CInv' /\ artifact' = artifact
  <2>1. PICK k \in {"get", "done"}, state \in {"working", "failing", "over"} :
           /\ run[r] = IF k = "get" THEN "fetching" ELSE "reporting"
           /\ k = "get" => state # "over"
           /\ k = "done" => state # "working"
           /\ run' = [run EXCEPT ![r] = state] /\ Close(<<r, k>>)
    <3>1. CASE GotTask(r)
      BY <3>1 DEF GotTask, Become
    <3>2. CASE DoneAnswered(r)
      BY <3>2 DEF DoneAnswered, Become
    <3> QED
      BY <1>4, <3>1, <3>2
  <2>2. UNCHANGED <<job, artifact>>
    BY <1>4 DEF GotTask, DoneAnswered, store
  <2>3. \A o \in Requests : handler'[o] = IF o = <<r, k>> THEN Idle ELSE handler[o]
    BY <1>0, <2>1 DEF Close, TypeOK
  <2>4. \A a \in Asks : \/ handler'[<<r, a>>] = Idle
                       \/ /\ handler'[<<r, a>>] = handler[<<r, a>>]
                          /\ handler[<<r, a>>].pc = "idle"
    BY <1>0, <2>1, <2>3, OneAnswer
  <2>5. \A a \in Asks : Fits(<<r, a>>)'
    BY <1>0, <2>4, AnswersFit
  <2>6. InLock(<<r, "done">>)' => InLock(<<r, "done">>)
    BY <1>0, <2>3 DEF InLock, Idle
  <2>7. /\ job[r[1]] = "COMPLETED" => state \in {"reporting", "failing", "over"}
        /\ Place[r[1]] # "NODE"
    BY <1>0, <2>1 DEF RunFits
  <2> QED
    BY <1>0, <2>1, <2>2, <2>3, <2>5, <2>6, <2>7, RunStep
<1>5. ASSUME GetRefused(r) \/ StoreProduct(r) \/ WorkFails(r) \/ LoseReport(r)
      PROVE  CInv' /\ artifact' = artifact
  <2>1. PICK state \in {"stored", "failing", "over"} :
           /\ run' = [run EXCEPT ![r] = state]
           /\ state = "over" => run[r] \in {"launched", "failing"}
           /\ state # "over" => run[r] \in {"working", "stored"}
    BY <1>5 DEF GetRefused, StoreProduct, WorkFails, LoseReport, Become
  <2>2. UNCHANGED <<job, artifact, handler>>
    BY <1>5 DEF GetRefused, StoreProduct, WorkFails, LoseReport, WriteFile, store
  <2>3. \A a \in Asks : Fits(<<r, a>>)'
    BY <1>0, <2>1, <2>2, OneAnswer, AnswersFit
  <2>4. InLock(<<r, "done">>)' => InLock(<<r, "done">>)
    BY <2>2 DEF InLock
  <2>5. /\ job[r[1]] = "COMPLETED" => state \in {"reporting", "failing", "over"}
        /\ state # "over" => Place[r[1]] # "NODE"
        /\ run[r] # "none"
    BY <1>0, <2>1 DEF RunFits
  <2> QED
    BY <2>1, <2>2, <2>3, <2>4, <2>5, RunStep
<1> QED
  BY <1>1, <1>2, <1>3, <1>4, <1>5 DEF ExecutionStep

\* A client starts no job before the first jobs have been launched.
LEMMA BeatFits ==
    ASSUME Orderly, IInv, CInv, NEW j \in Jobs, Beat(j)
    PROVE  CInv' /\ artifact' = artifact
<1>0. TypeOK /\ StoreOK
  BY DEF IInv
<1>1. UNCHANGED <<job, artifact, is_ready, handler>> /\ j \in Offered
  BY <1>0 DEF Beat, store, Offered, JobsIn, Absent
<1>2. AllCreated /\ AllCreated' /\ Offered' = Offered /\ AllDone' = AllDone
  BY <1>1 DEF CInv, Tables, AllCreated, AllDone, Offered, JobsIn
<1>3. \A r \in Runs : run'[r] = run[r] \/ (run[r] = "none" /\ run'[r] = "launched")
  BY <1>0, FirstLaunch DEF Beat
<1>4. ~ Before(handler[Submit])
  <2>1. Pred(j) # {} /\ Pred(j) \subseteq is_ready
    BY <1>0, <1>1 DEF Beat, Orderly, StoreOK, Ready
  <2> QED
    BY <2>1, Alone
<1>5. ASSUME NEW o \in Requests PROVE Fits(o)'
  <2>1. \A r \in Runs, k \in {"get", "done", "error"} :
           o = <<r, k>> => run'[r] = run[r] \/ handler[o].pc = "idle"
    BY <1>3, OneAnswer
  <2> QED
    BY <1>1, <1>2, <1>4, <2>1, FrameFits
<1>6. ASSUME NEW r \in Runs PROVE RunFits(r)'
  BY <1>1, <1>2, <1>3 DEF CInv, RunFits
<1>7. Mutex' /\ Tables'
  BY <1>1, <1>2 DEF CInv, Mutex, InLock, Tables
<1> QED
  BY <1>1, <1>5, <1>6, <1>7 DEF CInv

\* After a crash nobody is at work on the scheduler.
LEMMA CrashFits ==
    ASSUME Orderly, IInv, CInv, Crash
    PROVE  CInv' /\ artifact' = artifact
<1>1. UNCHANGED <<job, artifact>> /\ \A q \in Requests : handler'[q] = Idle
  BY DEF Crash, store
<1>2. \A r \in Runs : run'[r] = IF run[r] \in {"fetching", "reporting"} THEN "failing" ELSE run[r]
  BY DEF Crash
<1>3. AllCreated' = AllCreated /\ Offered' = Offered /\ AllDone' = AllDone
  BY <1>1 DEF AllCreated, AllDone, Offered, JobsIn
<1>4. ASSUME NEW r \in Runs, NEW k \in {"get", "done", "error"} PROVE Fits(<<r, k>>)'
  BY <1>1, Kinds, AnswersFit DEF IInv
<1>5. Fits(Submit)'
  <2>1. /\ handler'[Submit].pc = "idle" /\ handler'[Submit].want = "RUNNING"
        /\ ~ handler'[Submit].started
    BY <1>1, Kinds DEF Idle
  <2>2. SubmitFits(handler[Submit])'
    BY <2>1 DEF SubmitFits, CheckFits, Before, InUpdate, Submitting, Taking, Checking, Launching
  <2> QED
    BY <2>2, Kinds DEF Fits
<1>6. ASSUME NEW r \in Runs PROVE RunFits(r)'
  BY <1>1, <1>2, <1>3 DEF CInv, RunFits
<1>7. Mutex' /\ Tables'
  BY <1>1, <1>3 DEF CInv, Mutex, InLock, Tables, Idle
<1>8. \A q \in Requests : Fits(q)'
  BY <1>4, <1>5, Kinds
<1> QED
  BY <1>1, <1>6, <1>7, <1>8 DEF CInv

\* At first there is nothing but the submission.
LEMMA StatusInit == Init => CInv
<1> SUFFICES ASSUME Init PROVE CInv
  OBVIOUS
<1>1. /\ artifact = Absent /\ is_ready = {} /\ \A j \in Jobs : job[j] = Absent
      /\ \A r \in Runs : run[r] = "none"
      /\ \A q \in Requests : q # Submit => handler[q] = Idle
      /\ handler[Submit] = [Idle EXCEPT !.pc = "create_artifact"]
  BY Kinds DEF Init, ServerInit, StoreInit
<1>2. ASSUME NEW r \in Runs, NEW k \in {"get", "done", "error"} PROVE Fits(<<r, k>>)
  <2>1. /\ handler[<<r, k>>].pc = "idle" /\ handler[<<r, k>>].want = "RUNNING"
        /\ ~ handler[<<r, k>>].started
    <3>1. <<r, k>> \in Requests /\ <<r, k>> # Submit
      BY Kinds
    <3> QED
      BY <1>1, <3>1 DEF Idle
  <2>2. CheckFits(handler[<<r, k>>])
    BY <2>1 DEF CheckFits, InUpdate, Taking, Checking, Launching
  <2> QED
    BY <2>1, <2>2, Kinds DEF Fits, GetFits, DoneFits, ErrorFits, Completing
<1>3. Fits(Submit)
  <2>1. /\ handler[Submit].pc = "create_artifact" /\ handler[Submit].want = "RUNNING"
        /\ ~ handler[Submit].started
    BY <1>1 DEF Idle
  <2>2. SubmitFits(handler[Submit])
    BY <1>1, <2>1 DEF SubmitFits, CheckFits, InUpdate, Submitting, Taking, Checking, Launching
  <2> QED
    BY <2>2, Kinds DEF Fits
<1>4. Mutex /\ \A r \in Runs : RunFits(r)
  <2>1. \A q \in Requests : handler[q].pc = "idle" \/ q = Submit
    BY <1>1 DEF Idle
  <2>2. \A q \in Requests : ~ InLock(q)
    BY <2>1, Kinds DEF InLock
  <2> QED
    BY <1>1, <2>2, RunsOfJobs DEF Mutex, RunFits, Absent
<1>5. Tables
  BY <1>1 DEF Tables, Offered, JobsIn, Absent
<1>6. \A q \in Requests : Fits(q)
  BY <1>2, <1>3, Kinds
<1> QED
  BY <1>4, <1>5, <1>6 DEF CInv

\* Every step keeps the invariant, and never takes a COMPLETED artifact back.
LEMMA StatusStep ==
    ASSUME Orderly, IInv, CInv, [Next]_vars
    PROVE  CInv' /\ (artifact = "COMPLETED" => artifact' = "COMPLETED")
<1>1. ASSUME NEW q \in Requests, HandlerStep(q) \/ RemoteFails(q)
      PROVE  CInv' /\ (artifact = "COMPLETED" => artifact' = "COMPLETED")
  BY <1>1, ArtifactStepFits, SubmitStepFits, CheckStepFits, LaunchStepFits, TaskStepFits,
     DoneStepFits, ErrorStepFits
     DEF HandlerStep, RemoteFails
<1>2. ASSUME NEW r \in Runs, ExecutionStep(r) \/ WorkFails(r) \/ Timeout(r) \/ LoseReport(r)
      PROVE  CInv' /\ (artifact = "COMPLETED" => artifact' = "COMPLETED")
  BY <1>2, ExecutionStepFits DEF Timeout, Orderly
<1>3. ASSUME UNCHANGED vars PROVE CInv' /\ artifact' = artifact
  <2>1. UNCHANGED <<artifact, job, is_ready, handler, run>>
    BY <1>3 DEF vars, serverVars, store
  <2>2. AllCreated' = AllCreated /\ AllDone' = AllDone /\ Offered' = Offered
    BY <2>1 DEF AllCreated, AllDone, Offered, JobsIn
  <2>3. \A h \in Handler : CheckFits(h) => CheckFits(h)'
    BY <2>1, <2>2 DEF CheckFits
  <2>4. ASSUME NEW q \in Requests PROVE Fits(q)'
    BY <2>1, <2>2, <2>3, <2>4 DEF CInv, IInv, TypeOK, Fits, SubmitFits, GetFits, DoneFits, ErrorFits
  <2>5. \A r \in Runs : RunFits(r)'
    BY <2>1, <2>2 DEF CInv, RunFits
  <2> QED
    BY <2>1, <2>2, <2>4, <2>5 DEF CInv, Mutex, InLock, Tables
<1> QED
  BY <1>1, <1>2, <1>3, BeatFits, CrashFits DEF Next, FaultStep

\* The invariant always holds.
LEMMA StatusInvariant ==
    ASSUME Orderly
    PROVE  Spec => []CInv
BY StatusInit, StatusStep, Invariance, PTL DEF Spec

\* check declares the artifact COMPLETED only when all its jobs are, and they stay so,
\* although it reads the jobs and writes the artifact in two statements.
THEOREM AllBeforeCompleted ==
    ASSUME Orderly
    PROVE  Spec => []CompletedMeansAll
<1>1. CInv => CompletedMeansAll
  BY DEF CInv, Tables, AllDone, CompletedMeansAll, JobsIn
<1> QED
  BY <1>1, StatusInvariant, PTL

\* No late check, no late task_started and no late task_failed takes a COMPLETED artifact
\* up again.
THEOREM CompletedStays ==
    ASSUME Orderly
    PROVE  Spec => CompletedIsFinal
<1>1. IInv /\ CInv /\ [Next]_vars => [artifact = "COMPLETED" => artifact' = "COMPLETED"]_artifact
  BY StatusStep
<1> QED
  BY <1>1, StatusInvariant, Invariance, PTL DEF Spec, CompletedIsFinal
=============================================================================
