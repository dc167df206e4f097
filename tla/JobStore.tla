------------------------------ MODULE JobStore ------------------------------
(***************************************************************************)
(* The scheduler's database as its repositories change it: the rows of one *)
(* artifact in the tables artifacts, jobs, job_locks and resources, and     *)
(* the file of each resource (database/tables.py, database/repositories).   *)
(*                                                                         *)
(* Every operator here is ONE statement that reaches the database: sessions *)
(* run in autocommit reads and commit each write on its own, so another     *)
(* request may run between any two of them.                                 *)
(***************************************************************************)
EXTENDS FiniteSets

CONSTANTS
    Jobs,       \* the jobs that the binding procedure planned for the artifact
    Locks       \* pairs <<p, n>>: p is in job_locks with next_id = n

ASSUME LocksAssumption == Locks \subseteq Jobs \X Jobs

JobStatus == {"WAITING", "SCHEDULED", "RUNNING", "COMPLETED", "ERROR"}
ArtifactJobStatus == {"SCHEDULED", "RUNNING", "COMPLETED", "ERROR"}
Absent == "ABSENT"      \* no such row yet

VARIABLES
    artifact,   \* artifacts.status
    job,        \* jobs.status
    locked,     \* rows of job_locks with locked = True
    unlocked,   \* rows of job_locks with locked = False
    is_ready,   \* jobs whose resource has is_ready = True
    is_error,   \* jobs whose resource has is_error = True
    content     \* what the file of the resource holds

store == <<artifact, job, locked, unlocked, is_ready, is_error, content>>

StoreTypeOK ==
    /\ artifact \in ArtifactJobStatus \cup {Absent}
    /\ job \in [Jobs -> JobStatus \cup {Absent}]
    /\ locked \subseteq Locks
    /\ unlocked \subseteq Locks
    /\ is_ready \subseteq Jobs
    /\ is_error \subseteq Jobs
    /\ content \in [Jobs -> {"nothing", "product", "error"}]

StoreInit ==
    /\ artifact = Absent
    /\ job = [j \in Jobs |-> Absent]
    /\ locked = {} /\ unlocked = {}
    /\ is_ready = {} /\ is_error = {}
    /\ content = [j \in Jobs |-> "nothing"]

-----------------------------------------------------------------------------
(* Queries. *)

JobsIn(status) == {j \in Jobs : job[j] = status}
Created == {j \in Jobs : job[j] # Absent}

Pred(n) == {p \in Jobs : <<p, n>> \in Locks}

\* Mutant: the sub-query on job_locks is left out.
CreatedAnyway == Created

\* list_unlocked_jobs_by_artifact_id: jobs that no row locks any more
UnlockedJobs == {n \in Created : \A p \in Jobs : <<p, n>> \notin locked}

-----------------------------------------------------------------------------
(* Statements that write. *)

InsertArtifact ==
    /\ artifact' = "SCHEDULED"
    /\ UNCHANGED <<job, locked, unlocked, is_ready, is_error, content>>

InsertJob(j) ==
    /\ job' = [job EXCEPT ![j] = "WAITING"]
    /\ UNCHANGED <<artifact, locked, unlocked, is_ready, is_error, content>>

\* add_locks(job, locked_jobs): one commit for all the locks of a job
InsertLocks(j) ==
    /\ locked' = locked \cup {l \in Locks : l[1] = j}
    /\ UNCHANGED <<artifact, job, unlocked, is_ready, is_error, content>>

SetArtifact(status) ==
    /\ artifact' = status
    /\ UNCHANGED <<job, locked, unlocked, is_ready, is_error, content>>

\* the commit of update_job_status: the row was selected by its previous status,
\* but the UPDATE names only the id
SetJob(j, status) ==
    /\ job' = [job EXCEPT ![j] = status]
    /\ UNCHANGED <<artifact, locked, unlocked, is_ready, is_error, content>>

\* Mutant: the WHERE clause compares next_id.
UnlockJobByNext(j) ==
    /\ locked' = {l \in locked : l[2] # j}
    /\ unlocked' = unlocked \cup {l \in locked : l[2] = j}
    /\ UNCHANGED <<artifact, job, is_ready, is_error, content>>

\* unlock_job: UPDATE job_locks SET locked = False WHERE job_id = j
UnlockJob(j) ==
    /\ locked' = {l \in locked : l[1] # j}
    /\ unlocked' = unlocked \cup {l \in locked : l[1] = j}
    /\ UNCHANGED <<artifact, job, is_ready, is_error, content>>

MarkAsDone(j) ==
    /\ is_ready' = is_ready \cup {j}
    /\ UNCHANGED <<artifact, job, locked, unlocked, is_error, content>>

MarkAsError(j) ==
    /\ is_error' = is_error \cup {j}
    /\ UNCHANGED <<artifact, job, locked, unlocked, is_ready, content>>

WriteFile(j, what) ==
    /\ content' = [content EXCEPT ![j] = what]
    /\ UNCHANGED <<artifact, job, locked, unlocked, is_ready, is_error>>

=============================================================================
