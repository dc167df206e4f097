# A specification of Ferdelance

Ferdelance is a framework for federated analysis. A researcher submits an *artifact*, a
list of steps; the *scheduler* node turns the steps into *jobs* for itself, for other nodes
and for clients, and starts each job when the jobs that *lock* it are done. This directory
holds TLA+ modules that model the code under `src/ferdelance`, configurations that
model-check them with TLC, and theorems about them that TLAPS checks.

Paths below are relative to `src/ferdelance`.

## 1. The system

| Component | State | Operations | Talks to |
|---|---|---|---|
| Binding procedure (`core/artifacts.py`, `core/interfaces.py`, `core/steps.py`, `core/distributions/`) | the jobs created so far with their locks, `SchedulerContext.current_id` and `iteration` | `Artifact.jobs`, `Iterate.jobs`, the `jobs` of every step, `bind`, `bind_locks` | called by job management |
| Job store (`database/repositories/`, `database/tables.py`) | rows in `artifacts`, `jobs`, `job_locks`, `resources`, and the files of the resources | one SQL statement each, every write committed on its own | called by both management services |
| Job management (`node/services/jobs.py`) | none of its own | `submit_artifact`, `schedule_tasks`, `check`, `get_task_by_job_id`, `task_started`, `task_completed`, `task_failed` | job store, binding procedure |
| Task management (`node/services/tasks.py`, `node/routes/task.py`) | the lock of the route `/task/done` | `check`, `start_locally`, `start_remote`, `start_task` | job management, backend, other nodes by HTTP |
| Task execution (`tasks/services/execution.py`, `tasks/services/routes.py`) | one actor per execution, its work directory | fetch the task, work, store and send the product, report | scheduler and other components by HTTP |
| Heartbeat (`tasks/jobs/heartbeat.py`, `node/services/actions.py`) | the last action | ask for the next SCHEDULED job, start an execution | scheduler by HTTP |
| Request signing (`node/middlewares.py`, `security/exchange.py`) | keys of the components | check the signature of a request, decrypt it, encrypt the answer | every route |
| Resource routing (`node/routes/resources.py`, `tasks/services/routes.py`) | path, `encrypted_for` and file of each resource; the `Exchange` of an execution | get and post a resource, also through the scheduler for a client | executions |
| Workbench (`workbench/context.py`, `node/routes/workbench.py`, `node/services/workbench.py`) | id and key of a context, the users in the components table | connect, submit, wait, list and load resources | job management, resources |
| Membership (`node/services/node.py`, `node/startup.py`) | the components table and the private key of each node | join, announce a node, leave | nodes by HTTP |
| Metadata and projects (`database/repositories/projects.py`, `datasource.py`) | data sources by hash, projects, the JSON files of the data sources | announce metadata, link a data source to the projects it names | submission reads it |
| Worker state (`core/environment.py`) | `local.pkl` of a component and artifact | load, change, store | one execution each |
| Estimators (`core/estimators/`) | a running sum, the mask in the local variables of the initiator | mask, add, unmask | a Sequential step |
| Streams (`security/algorithms/`) | position in header, key and body, checksum | encrypt and decrypt chunk by chunk | every transfer |
| Configuration (`config/config.py`) | keys, data sources, projects of a node | read at the start | startup |

**How they interact.** The scheduler is an asyncio program: every HTTP request is served by
a coroutine with its own database session, and another coroutine may run wherever one
awaits, that is between any two statements. Only `post_done` takes a lock
(`node/routes/task.py:104`); submission, task fetch and `post_error` do not. An execution is
a separate process which is started and never waited for. It fetches its task, which sets
the job RUNNING, works, stores its product and reports. Clients are not reachable: their
jobs wait until the next heartbeat asks. Nothing polls the database on the scheduler: what
is unlocked is scheduled by the check that runs at the end of a submission or of a report,
or not at all.

**What is hard.** The interleaving of these coroutines (a status is selected in one statement
and updated, by id only, in another); a report that is repeated because a job was started
twice; an HTTP timeout while the server goes on; a restart of the scheduler between two
commits; a launch on a node that fails half-way through a list; and, in the binding
procedure, whether locks written only between neighbouring steps order a whole artifact.
Outside the scheduling: a startup made of many commits, any of which may be the last before a
crash, and whose exceptions are only logged; a handler that goes on when its sender has given
up; one file and one `encrypted_for` for a product that several readers need; executions of
one client that load and store one file; bytes that the network cuts anywhere.
`PROJECT.json` lists each hazard at its line.

**What makes it correct.** Binding: a job locks only later jobs, no job is lost, what does not
fit is rejected, the graph means what the steps say. Scheduling: no job is offered before
all the jobs that lock it have finished and left a product; no job is forgotten; a status
only goes forward; COMPLETED means all. Execution: an execution ends with a report.
Resource routing: a product is readable by those who need it and by nobody else, and a job is
done only when its product has been stored whole. Workbench: who waits is released, and what is
listed as the result is the result. Membership: who thinks it has joined has joined, and an
identity is never replaced. Projects: what is linked can be loaded. Worker state and
estimators: a result is exact, or there is none. Stream: any chunking decrypts to the content.

## 2. Modules

    DependencyOrder          what the locks promise (abstract)
      ^ instantiated by
    PlanExecution  -- EXTENDS --> ArtifactPlan         the binding procedure
      ^ EXTENDS
    PlanProofs               theorems about the plan and its execution

    Federation     -- EXTENDS --> Scheduler -- EXTENDS --> JobStore
      ^ EXTENDS
    FederationProofs         theorems about Federation

    Workbench      -- EXTENDS --> ResourceRouting      a session over the routing of products
      ^ EXTENDS
    RoutingProofs            theorems about the routing
      ^ EXTENDS
    WorkbenchProofs          which artifacts fail; what a session gets

    Onboarding     -- EXTENDS --> Catalog -- EXTENDS --> Membership
      ^ EXTENDS
    OnboardingProofs         theorems about the startup and the data sources

    HybridStream   -- INSTANCE -> Delivery             a stream delivers (abstract)
      ^ EXTENDS
    StreamProofs             theorems about the stream

    SecureAggregation                                  estimators and the state of a worker
      ^ EXTENDS
    AggregationProofs        theorems about masks and results
    FiniteSums               lemmas about sums over finite sets; PlanProofs, AggregationProofs
                             and OnboardingProofs extend it

**ArtifactPlan** is `Artifact.jobs` with one action per call: `Expand` is
`step1.jobs(context)`, `Bind` is `step0.bind(jobs0, jobs1)` with the two assignments that
follow it, `EnterLoop`, `LoopExpand`, `LoopBind` and `LoopEnd` are the body of
`Iterate.jobs`. A `SchedulerJob` is an entry of `job` indexed by its id; Python lists of jobs
are sets of ids, since they are always built in the order of ids. Exceptions are
final values of `pc`. Left out: operations, models and queries, on which no lock depends.

**DependencyOrder** is the promise: a job is offered only when all that lock it have
finished. **PlanExecution** runs a planned artifact under that promise alone, to say
what the plan means to the researcher who wrote it. `Synchronised` are the artifacts whose locks
order everything: each step has jobs and hands its results on. A Parallel step has no jobs where there
are no workers; what comes after it is then not locked by what comes before it, which an
attempt to prove `StageOrder` for every number of workers brought out.

**JobStore** has one operator per statement: `UnlockedJobs`, `SetJob`, `UnlockJob` and so on.
`locked` and `unlocked` are the rows of `job_locks` by their flag. `job[j] = "ABSENT"` is a row
not inserted yet. `content[j]` says whether the file of a resource holds a product or an
error message; `create_job` inserts the resource row with it.

**Scheduler** is every coroutine of the scheduler: `handler[q]` is the program counter and
the locals of request `q`, each action goes from one statement to the next. `Submit` is the
submission; an execution `r` has up to three requests, `<<r, "get">>`, `<<r, "done">>`,
`<<r, "error">>`. A `ValueError` of `update_job_status` ends the whole request, as in the code:
the location is `"failed"`, and the caller sees a 500 (`encrypt_response` turns a returned
`HTTPException` into its status).

**Federation** adds the executions (`run`), the heartbeat (`Beat`) and the failures of `Faults`:

- `"work"`: the step raises, a resource cannot be fetched or sent;
- `"timeout"`: the execution gives up on a fetch or a report while the coroutine goes on;
- `"remote"`: the POST to a node raises, before or after the node got the task;
- `"crash"`: the scheduler restarts; the tables stay, coroutines and the lock are gone, open
  connections fail and error reports may be lost.

An execution on a node acts in the name of the scheduler (`ComponentId`), because
`post_task` hands `args.source` to the service that starts it; `Verified` is the signature
check, which refuses it (`GetRefused`).  `StoreProduct` writes the product of every
job; for the last job on a client nothing is ever sent, but only jobs with successors have
their content read.

**ResourceRouting** is one artifact whose jobs are offered as their locks say, and everything
that their products go through. `GetTask` is the descriptor of `get_task_by_job_id`
(`available_locally`, `use_scheduler_as_proxy`); `ChangeRoute`, `SignedHeaders`, `Attached` are
the `Exchange` of an execution with its proxy key, which is never cleared; `Accepted` and
`Proxied` are `check_signature` and `SignedRequest.body`; `Download`, `PostLocal`, `OpenUpload`
and `EndUpload` are the two resource routes. A file is a state and the keys it was
encrypted with, a key is named by its owner. `clear` collects what crosses a connection
unencrypted. `Break` breaks a connection in the middle of a stream.

**Workbench** puts a researcher on top: a context has an identity read from its files, is
registered by its key (`Register`) and served by its id and key (`AllowAccess`), submits,
polls the status (`Wait` counts rounds of `wait_time`), lists and loads. `Follow` says how the
status of the artifact follows the jobs; the statements between are in `Scheduler`.

**Membership** holds the components table and the key of every node with the operators of
`ComponentRepository`; **Catalog** the data sources, the projects, their links and files, and the
metadata sessions, which save all data sources in one transaction, each in a file that is opened,
and thereby truncated, then written, then read back (`Save`, `Write`, `Load`, `Commit`), and link
them one commit at a time; **Onboarding** is `NodeStartup.startup` as a sequence of steps
(`phase`) with the join and metadata handlers of the other side. `joins[<<n, TRUE>>]` is a
request whose sender waits, `joins[<<n, FALSE>>]` one whose sender is gone. What a session has
told the first node is said once, `PollingIsCatalogued`: a session ends at the first unknown
token, so the data sources that come after it stay unlinked even if their own tokens are known,
which an attempt to prove an earlier form of the property brought out. Failures: a timeout,
a crash, a reinstallation of a node other than the first, which loses its database and its key
but not its id.

**HybridStream** is one transfer. A byte of the content is ciphered at a counter and can only
be read at the same counter, so that a byte lost, repeated or taken for the header shows. The
sender is the generator of `core.py` for files and for contents in memory; the receiver is
`HybridDecryptionAlgorithm.update` on chunks of any size, `PlainUpdate` the one without
encryption. `Break` ends the stream with an error, `Cut` ends it silently. **Delivery** is what a
channel promises.

**SecureAggregation** is the Sequential step of an estimator: the initiator's first job draws
the mask and keeps it in its `local.pkl`, each worker adds what it has, the initiator's last
job takes the mask off. Two estimators of an artifact interleave on the same files.
`StoreOpen` truncates the file and `StoreEnd` fills it. A product has the keys that its own
execution has set (`Environment.products` starts empty for each job): `Spent` is the noise that a
worker passes on, and `ExecWork` fails where it looks for one that was not set.

## 3. Runs

Each MC module defines the instances; the bounds are constants in its `.cfg` files.

| Run | Instance | Checks |
|---|---|---|
| `plan` | 2 workers; all artifacts of up to two plain steps; loops of 0, 1, 2 or 3 iterations, alone, before or after a step; every order of execution | `TypeOK`, `LocksForward`, `NothingLost`, `AcceptsWhatFits`, `StageOrder`, `SequentialOrder`, `EveryJobRuns` |
| `faults` | a job that locks one on a node and one on a client; work, remote, timeout, crash | `TypeOK`, `InputsStored`, `ImplementsDependencyOrder` |
| `duplicates` | two jobs on clients, the first may be started twice; work | `NoJobForgotten` |
| `race` | two jobs to start with, a third locked by one of them; work | `NoJobForgotten` |
| `initiated` | the diamond initialize, two clients, finalize; work; fair | `CompletedMeansAll`, `CompletedIsFinal`, `Settles` |
| `session` | 4 jobs: a chain, a diamond, two readers of two products; on the scheduler, two clients, another node; one broken connection; one or two contexts; fair | `TypeOK`, `Outcome`, `Confidential`, `DoneIsStored`, `AllDelivered`, `LatestIsResult`, `LoadsWhatIsClear`, `ConnectedIsServed`, `WaitEnds` |
| `stream` | contents of up to 5 bytes, chunks of 1 to 3, keys that contain parts of the separator, every cut; fair | `TypeOK`, `KeepsUp`, `ChecksumTells`, `ImplementsDelivery`, `Ends` |
| `onboarding` | a first node, a client with two data sources and three tokens, another node; three faults, or one when the other node takes part; fair | `TypeOK`, `JoinRecorded`, `LinkedLoadable`, `PollingIsCatalogued`, `IdentityKept`, `StartupEnds` |
| `worker` | projects of 1, 2 or 3 workers with different groups; one estimator of each kind, three pairs with and without names in common; fair | `TypeOK`, `MaskCarriedOnce`, `ExactOrNothing`, `AllGroups`, `AloneEnds` |

Two workers are enough for the binding procedure: it treats all workers alike, and with two
of them a step has one job, as many jobs as there are workers, two more, or their square.
Three iterations have a first, a middle and a last. For the scheduling, a pair of jobs has
each of the races between two requests, the diamond adds a job with two predecessors and a
step with two jobs, and the third job of `race` is the one that an early end of a check can
forget. `MaxRuns` bounds the executions of a job; its effect is that a client does not beat
again for a job that was started so often. No run needs symmetry.

For the routing, four jobs give a product with two readers, a reader of two products and
a product passed on twice; the two clients are alike, so the second only comes after the first,
and one job on the other node is enough, since it never gets its inputs. One broken connection
shows what an interrupted transfer leaves; `MaxWait = 1` has a round that goes on and one that
gives up. Two contexts connect before the artifact is submitted, as afterwards nothing of them
depends on each other, and downloads are forbidden on the chain only, where every one of them
fails as in the other graphs. For the streams, five bytes in chunks of two have a first, a
middle and a short last chunk, and the separator begins and ends with the same byte, as
`DEFAULT_SEPARATOR` does. For the startup, three faults are a crash after a lost answer and a
reinstallation on top; the third node has no data and is there for the list of nodes, hence
its smaller bound; the `--leave` argument comes with at most two faults (`Bounded`). Three faults are
enough for a session that is abandoned, one of its sender's next startup beside it, and a stop
of the node whose files they write. The masks of `worker` include 0, which `Count` and `Mean` may
draw; groups differ between the workers in both directions. Three workers are one that gets the
noise, one that gets it spent and one that gets none; a fourth would fail like the third, or add
like the second.

What the runs show beside their properties: with duplicates *and* timeouts, that no job is left
RUNNING, that statuses only move forward and `CompletedMeansAll` are not true of the code. A fetch that times out
before `task_started` has its error report rejected, because the job is still SCHEDULED, and
the job is then RUNNING with nobody working on it; a second fetch with a stale SELECT takes a
COMPLETED job back to RUNNING. So these are checked where they hold, on the instances that
say so. The order of jobs (`ImplementsDependencyOrder`, `InputsStored`) holds with everything
and is proved.

Three runs show where the code does not do what its documentation says (`findings`):

- `scheduling`: the check of a submission, which does not take the lock, can take a job that
  already runs back to SCHEDULED, and an artifact out of COMPLETED.
- `node_names`: an execution on a node names the scheduler as its component; its requests are
  refused, and a job placed on a node stays RUNNING for ever.
- `polls`: a client whose data names a token that its own configuration has no project for is
  joined, up, and never polls: the token of the new project is used as its id, which ends the
  metadata session on the client's own database and with it the startup. Where only the first node
  has no such project, the error is logged there and on the client, which polls (`onboarding`).

A failing launch on a node also leaves the jobs after it in the list SCHEDULED until the next
report; `duplicates` and `race` have no job on a node.

**What else the models show of the code.** Each of these was found by a property that had to
say it:

- An artifact in ERROR goes back to RUNNING when another of its jobs starts or unlocks
  something (`node/services/jobs.py:195`); scheduling.rst says that the whole artifact fails.
- The RoundRobin distribution returns a flat list and binding it raises a TypeError
  (`AcceptsWhatFits` counts it among the steps that do not fit).
- A product reaches its readers only if they are all on the scheduler, or all on one other
  client (`Deliverable`, and `Outcome` says exactly that): the last post overwrites the file and
  `encrypted_for`, a reader on another node has no route, a client that reads its own product gets
  a 404. entities.rst speaks of products distributed to several clients.
- The product of a last job on a client or a node is never sent, so a researcher gets a 404 for
  it; products in transit between clients are listed as ready but cannot be unpickled.
- `Context.wait` ends only on COMPLETED: for an artifact in ERROR it takes `max_wait`. A lost
  answer to a submission leaves an artifact whose id nobody knows.
- A context whose key is registered with another id connects and is then refused everywhere; one
  with a known id and a new key gets an error of the database.
- In `GroupCount` and `GroupMean`, the mask does not reach the groups that the first worker does not
  have, and is taken off them all the same: those groups are wrong (`ExactOrNothing`).
- `GroupCount` and `GroupMean` fail in every project of more than two workers: a worker sets the noise
  to 0 only if it was not 0 (`group_counters.py:62`, `group_means.py:82`), so the product of the second
  has none and the third raises a KeyError (`AloneEnds`, `ExactOrNothing`). `test_groups.py:44` runs
  three workers over one `Environment` that keeps its products, and so passes.
- `.init_value` is the local variable of both `Count` and `GroupCount`: an artifact with both
  may use one mask for the other.
- A lost answer to a join leaves a row at the join node, and the next join with that id is
  refused for ever; so is a node reinstalled with a new key. The startup only logs it.
- Two overlapping metadata requests of a client insert a data source twice, and every later
  one fails (`MultipleResultsFound`). A second unknown token fails on the empty name of the first
  one's project. A crash between the file and the commit of a data source leaks the file.
- A `datasource.json` is rewritten in place (`datasource.py:192`): a node that stops between the
  truncation and the write has a linked data source, and so a project, that cannot be loaded until
  the owner sends its metadata again; and a session that reads the file of another one in between
  ends there (`LinkedLoadable`, `PollingIsCatalogued`).
- The receivers of a resource compute the checksum of the stream and never compare it
  (`tasks/services/routes.py:197`): `ChecksumTells` is about what a comparison would tell.
- The filter of `distribute_add` and `distribute_remove` (`node/services/node.py:153`) lets
  nobody pass but the two nodes that the list never contains, so no node is ever announced
  to the others (`AnnouncedTo`), against security.rst.
- A client that has left still has jobs planned for its data (`get_node_by_datasource_id` does
  not look at `active`).

**Fairness** (`FairSpec`, used by `initiated`): every coroutine goes on (asyncio serves all of
them, and each await is a local database statement), every execution goes on (an actor that
runs is not suspended for ever; a process that dies is a stutter of the safety runs), and a
client does not stop beating (`Heartbeat.run` is a loop that ends only on an exit). Failures
are never forced. `Acquire` is weakly fair: only two reports of the instance can compete, and
asyncio serves waiters in order. `PlanExecution` assumes that a planned artifact goes on.
`session` assumes only that somebody goes on while anybody can: the steps of an artifact and of
a session are finitely many. `stream`: sender and receiver each go on, and the network may break
but never has to. `onboarding`: a startup under way and the handlers go on, since httpx and
asyncio do; nothing obliges a node to start, to leave or to fail. `worker`: each execution goes on.

## 4. Proofs

`FederationProofs` proves, for every set of jobs, relation of locks, placement, number of
executions and set of failures:

- `TypeCorrect`: `Spec => []TypeOK`;
- `InputsAreStored`: `Spec => []InputsStored`;
- `OrderIsKept`: `Spec => ImplementsDependencyOrder`, the refinement of `DependencyOrder`;
- `AllBeforeCompleted` and `CompletedStays`: `Spec => []CompletedMeansAll` and
  `Spec => CompletedIsFinal`, provided that `Orderly` holds.

They rest on the named assumptions of the modules: locks relate jobs, a job is placed
somewhere, the bound of executions is a number, and the names of requests differ.

`InputsStored` alone is not inductive: a coroutine may hold a list of jobs that it read long
ago. `IInv` adds what the tables say of one another (`StoreOK`: an open lock belongs to a ready
resource, a ready resource has a file, an offered job has all its locks in the table and its
predecessors ready), what a coroutine relies upon at each location (`HandlerOK`: for instance,
every job still on the list of a check has ready predecessors), and the same for an execution
(`RunOK`). The argument needs no lock: each of these facts is stable (`Grows`), since locks
open, flags are set, files are overwritten and jobs never go back to WAITING. `Compose`
says so once; then one step per action shows that what it writes and where it goes keep the
invariant. `NextRefines` uses the invariant to show that the commit of a status is an
`Offer` or a stutter and that `mark_as_done` is a `Finish` or a stutter.

The status of the artifact does need the lock, and more. `Orderly` says that no job is executed
twice (`MaxRuns` at most 1: a second start changes nothing), that no job that waits for nothing is
for a client, and that no request is given up on; executions may fail, posts to nodes may raise and
the scheduler may crash, and the locks, the placement of the other jobs and the number of jobs are
arbitrary. An artifact that begins with `Initialize` on the scheduler, as those of the run
`initiated`, is orderly. No condition can be left out: TLC refutes `CompletedMeansAll` or
`CompletedIsFinal` on two jobs, one after the other, if the first is on a client, if both may be
executed twice, or if requests may time out. `CInv`, inductive together with `IInv`, says that there
is one checker at a time (`OneChecker`): the lock keeps the reports apart (`Mutex`), and while the
submission is checking, nothing has been launched (`Before`), which a client that beats without
being told would break. So the two statements of `check` see the same jobs, except for those of the
checker itself. `Fits` relates what each request does to its execution, for instance that
`task_started` and `task_failed` are about a job that has not been completed, since the one
execution of the job waits for their answer or is over; hence COMPLETED jobs stay so, and what
update_status is about to write (`WantFits`) agrees with them.

`NoJobForgotten` is not proved. The code forgets jobs in so many ways that a theorem would have to
exclude almost everything that can go wrong: TLC refutes it on three jobs of the scheduler if requests
may time out (an execution that gives up on its task reports the error before the job is RUNNING, and
the report is refused), if the scheduler may crash (nothing resumes an artifact), if a job is on a node
(the finding about `WorkerNamesItself`), and if one of two jobs that wait for nothing is on a client
and the other on the scheduler: the client beats and reports before the submission has scheduled the
other job, the check of the report schedules and launches it, the `schedule_job` of the submission
takes it from RUNNING back to SCHEDULED, and the report of its error is refused. The runs `race` and
`duplicates` check it where it holds.

`RoutingProofs` and `WorkbenchProofs` are about `WbSpec`, for every finite set of
jobs, every graph and placement, any bound of broken connections, any contexts with any ids and
keys. The only assumptions are `RoutingAssumption` (graphs relate jobs and have no cycle, which is
`LocksForward` of `ArtifactPlan`; a placement places every job somewhere) and
`WorkbenchAssumption` (an identity is a pair):

- `TypeCorrect`: `WbSpec => []TypeOK`;
- `StoredWhenDone`: `WbSpec => []DoneIsStored`;
- `OnlyReadersRead`: `WbSpec => []Confidential`;
- `DeliverableNeverFails`: `WbSpec => []NothingFails`, the half of `Outcome` that says that no
  job of a deliverable artifact fails;
- `OutcomeIsExact`: `WbSpec => []Outcome`, both halves: `Deliverable` is not only enough for an
  artifact to go through, it is exactly what is needed;
- `LatestIsOfALastJob`, `OnlyClearIsLoaded`, `ServedByKey`: `WbSpec => []LatestIsResult`,
  `[]LoadsWhatIsClear` and `[]ConnectedIsServed`.

A job writes only its own product and what it relies upon of the others, that the jobs before it
are done, stays true; so the invariant is one row per job. `Stage(j)` says which of six points the
job is at and what its file then holds, `Private(j)` with whose keys; `OneRow` says once that
a step of `j` is a proof about the row of `j`, and there is one lemma per action.
`DoneIsStored` needs the upload that is under way (`Uploading`: whole on the side of the
execution, truncated on the other); `Confidential` needs `Readers`, and that what is attached for
the scheduler opens to the product itself. `NothingFails` is stronger: `Served(j)` adds that
every request is signed for the scheduler whatever proxy key an earlier route left in the
exchange, and that the one file is sealed for its one reader (`Sealed`), which is where the
condition of `Deliverable` on a product of the scheduler with two readers comes from. The other
half of `Outcome` goes backwards. `Traces(j)` says what the sending of a product leaves behind: a
column as soon as a client was sent to, one key more each time the scheduler sends a product of its
own to a client, no file at all if a client would be its only reader. `Finds(k)` says what an
execution that has worked has found in its inputs: the product in clear if it runs on a node, one
key and its own name in the column if it runs on a client. If all jobs are done, the two meet on
every product and leave only the deliverable artifacts (`AllDoneDelivers`); and an artifact at rest
without an error has all its jobs done, since otherwise the first one that is not, in the order that
an acyclic graph has, would wait for nobody (`SettledIsDone`). For the
sessions, `Times` says that a resource is later than those its job has used, and `Session1` what a
context knows at each point and that it stays true whatever the jobs and the other contexts do.

`StreamProofs` is about `HybridStream`, for every content, key, separator and chunk size, from
`StreamAssumption`: a key is not empty and the separator does not occur before its end (the key
is the raw output of RSA, in which it would with a probability of about 2^-104), a chunk is
not empty.

- `TypeCorrect`, `ReceiverKeepsUp`, `ChecksumIsRight`: `Spec => []TypeOK`, `[]KeepsUp`,
  `[]ChecksumTells`;
- `StreamDelivers`: `Spec => ImplementsDelivery`, the refinement of `Delivery`.

Both ends are compared with `Full`, the stream as it is when complete (`InStep`): the wire is a
prefix of it, the sender's counter is what it yielded of the content, the output is as much of
the content as lies behind the header in the `taken` bytes. `KeepsUp` alone is not inductive: the
receiver may be in the middle of the header, and `ReceiverAt` says that it then holds all that
it was given. `FindIs` is the lemma about the search: it fails as long as the header is not
complete and then finds the end of the key, even if the content happens to hold the separator.

`PlanProofs` is about `ExecSpec`, for every number of workers (0 included) and every artifact, of
any length, with loops of any number of iterations; `NWorkersAssumption` is the only assumption.

- `Typed`, `Acyclic`, `ListComplete`: `ExecSpec => []TypeOK`, `[]LocksForward`, `[]NothingLost`;
- `AcceptsExactly`: `ExecSpec => []AcceptsWhatFits`;
- `SequentialInOrder`, `StagesInOrder`: `ExecSpec => []SequentialOrder`, `[]StageOrder`.

`LocksForward` is not inductive, since a lock is written from one list to another and the
invariant has to say which jobs these lists hold. Every job has a place: the step, the iteration and
the position in the body. `Listed` describes each list by the places of its jobs (`jobs0` are all the
jobs of the step before, `loop.job_list` all those of the finished iterations), `Placed` says that
nothing lies beyond the current place, and `Grown` that ids grow with the places; so a lock from
one list to the next points forward. `PlanInv` is the conjunction, with `Chained` for the jobs of a
Sequential step. For `AcceptsWhatFits` `Sized` counts the lists, which is what `bind` looks at
(an iteration adds the sum of its steps), and `Passed` says that exactly the steps so far have been
found to fit. For the order of an execution, `Staged` says that in a synchronised artifact every job
of a later place is locked by one that comes last among, or after, those of an earlier place
(`Linked`), which needs `GateLast`: the job that gates an iteration is the single last one of the
iteration before. The rest is an induction over the ids: the least job that was offered too early is locked by
a job which was offered too early as well.

`AggregationProofs` is about `SecureAggregation`, for every number of workers, all data and all
masks. The assumptions: there is a worker, masks are integers and those of a grouping estimator
are not 0 (`NoiseAssumption`, as the source draws them), a data frame has finitely many groups.

- `Typed`, `CarriedOnce`, `ExactResults`, `NoGroupLost`: `Spec => []TypeOK`, `[]MaskCarriedOnce`,
  `[]ExactOrNothing`, `[]AllGroups`.

For a grouping estimator the first two are about at most two workers, and the last two about
projects of at most two: `ExactOrNothing` says, and `ExactResults` proves, that larger ones get no
result.

The jobs of an estimator run in order (`InOrder`); `Carried` says what the product of the k-th
worker holds, group by group, and that only the first passes a noise on, which is 0; `Kept` that what is found under the name of a mask, in a file or in
the memory of an execution, is that mask, which is true when no other estimator of the artifact
uses the name; `Cleaned` what the last job then returns. The files need no lock: the initiator's
two jobs are ordered by the chain, and a race with another estimator leaves a file without the
mask, with which the last job fails, but never one with another mask.

`OnboardingProofs` is about `Spec` of `Onboarding`, for every finite set of components and tokens,
every configuration, and any number of keys, identifiers and faults. The assumptions
(`MembershipAssumption`, `CatalogAssumption`, `OnboardingAssumption`) say that the first node is of
`NodeMode`, that a configuration holds a data source once (`DataSourceStorage` is a dictionary by
hash), that initial projects have tokens, and that what stands for "no row" is not a row.

- `Typed`, `RecordedIsRegistered`, `PollingCatalogued`: `Spec => []TypeOK`, `[]JoinRecorded`,
  `[]PollingIsCatalogued`;
- `ProjectsLoad`: `Spec => LinkedLoadable`, an invariant about the rows and an action property about
  the contents of the files;
- `IdentitiesKept`: `Spec => IdentityKept`, an action property.

None of these is inductive. A startup relies at each step upon what earlier ones have left in two
databases, and a handler may run long after its sender has stopped. Of each node the invariant says:
`RequestOK`, what the handler of its join relies upon (a row made for a request has the key of
that request, and a request that is awaited has the key of now); `ProjectsOK`, that a populated
database has the initial projects; `StartupOK`, that a node with a remote id or a join row is
registered (`JoinRecorded`), and that what is left to record is known to the first node, in
particular itself, without which a client would never tell it of its data; `ToldOK`, that as long as the
first node is not on the list of those to be told, it has been told (`AllCatalogued`, which is
`PollingIsCatalogued` for one client). `Left` adds that a client which is inactive there had told it before,
since its next request is refused. Of the databases: `Stock` (files are numbered without gaps, a row
has a file of its own, a link has its row) and `Fresh` (the rows a session will commit have ids that no
other session and no row has: `uuid4` in the code, the next number in the model), which give
the first half of `LinkedLoadable`. The second half says that only a stop leaves the file of a linked
data source truncated with nobody about to write it. `Whole` is what makes it so: whatever a session
has an id for, and will link, is on disk or about to be written. That the one who is about to write
does write needs `Awaited`: a session that somebody waits for is the one that its owner's startup is at,
so that no startup replaces it by a new one, and `WritersKept`: of an owner that gives up, or stops, the
session goes on in another slot. `SlotsOK` says how far each session is: the ids it holds have rows, those it has
passed are linked, and one that has ended leaves `AllCatalogued`, whether it is done or failed.

A session only ever adds rows and links, and what is said of a session or of a client that was told
only needs them (`SessionGrows`, `CataloguedStays`); `Steady` says that of all steps outside the
sessions, and `Moved` that a session which loses its sender is the same session. So there is one lemma
per action about the nodes (`StartNet` and so on), one or two per step of a session (`SaveStays` for the rows, `SaveWhole` for the files, and so
on), and one about the reinstallation, which takes rows away: of a node that is stopped, so that no
session runs there, and that is not the first, so that nobody was told.

`FiniteSums` states what `PlanProofs` and `AggregationProofs` use about sums over finite sets. The library's theorems about folds
and about induction take an operator as a parameter, so the lemmas are proved from a least
counterexample: a nonempty set of natural numbers, or of subsets of a finite set, has a least element.

Only model-checked: every liveness property (`Settles`, `EveryJobRuns`,
`AllDelivered`, `WaitEnds`, `Ends`, `StartupEnds`, `AloneEnds`: fairness is out of the prover's
reach), and `NoJobForgotten`, for which see above.

## 5. Not modelled, and why

- Queries, transformers and models: pandas and scikit-learn on one worker, with no concurrency
  and with data out of reach of a model checker.
- The command line, standalone mode and most of the configuration: input and output.
- External resources (`create_resource_external`), which a user may post: no job refers to them.
- Metrics: they are stored and never read by what is modelled.
- `/node/add` and `/node/remove`: nobody calls them, see above. The "removed" branch of a data
  source: no configuration produces it.
- Duplicate executions of a job in `ResourceRouting` (they would share a `.enc` file and find
  the path of a download taken), and a client that has left in `Scheduler`.

## 6. What would come next

A composition of `Federation` with `ResourceRouting`, so that duplicate executions meet on the same
files; and a property that says of every forgotten job which failure it was forgotten by.
