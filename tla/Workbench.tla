----------------------------- MODULE Workbench -----------------------------
(***************************************************************************)
(* A researcher's session (workbench/context.py) with the routes that serve   *)
(* it (node/routes/workbench.py, node/services/workbench.py): connect, submit *)
(* the artifact, wait for its completion, list the resources and load one,    *)
(* while the jobs of the artifact run as in ResourceRouting.                  *)
(*                                                                           *)
(* A context is a Context object: an id and a private key, read from files     *)
(* that may be shared or copied, each on its own.                             *)
(***************************************************************************)
EXTENDS ResourceRouting

CONSTANTS
    Contexts,
    Identities,  \* functions from the contexts in use to their <<id, key>>
    MaxWait      \* max_wait, in intervals of wait_time

ASSUME WorkbenchAssumption ==
    /\ MaxWait \in Nat \ {0}
    /\ \A f \in Identities : DOMAIN f \subseteq Contexts
                             /\ \A c \in DOMAIN f : f[c] = <<f[c][1], f[c][2]>>

VARIABLES
    identity,       \* chosen once
    users,          \* the rows of TYPE_USER in the components table: <<id, key>>
    artifact,       \* the status of the artifact, "none" before it is submitted
    creation_time,  \* resource -> when it was marked as done, 0 before that
    context         \* what each context is at

execution == <<status, run, file, encrypted_for, got, clear>>
jobs == <<setting, execution, broken>>
wbVars == <<jobs, identity, users, artifact, creation_time, context>>

NoObject == [job |-> NoKey, as |-> "none"]

NewContext ==
    [pc |-> "new", last_state |-> "none", waited |-> 0, completed |-> FALSE,
     listed |-> {}, object |-> NoObject]

Step(c, pc) == context' = [context EXCEPT ![c].pc = pc]

-----------------------------------------------------------------------------
(* The server                                                                *)

\* get_by_key, and _check_for_existing_user
KeyRegistered(key) == \E u \in users : u[2] = key

\* create_component checks only the key of a user; that the id is the primary key of the
\* table is an error of the database.
IdTaken(id) == \E u \in users : u[1] = id

\* WorkbenchConnectService.register: the key alone tells who is connecting.
Register(id, key) == users' = IF KeyRegistered(key) THEN users ELSE users \cup {<<id, key>>}

\* Mutant: the id is not looked at.
AllowAccessByKey(c) == KeyRegistered(identity[c][2])
\* Every other route wants a row with the id that is in the headers and with the key
\* that signed them (check_signature, allow_access).
AllowAccess(c) == identity[c] \in users

\* list_resources_by_artifact_id, with only_complete as by default
ListResources == {j \in Jobs : creation_time[j] > 0}

\* The file at the path of a resource, whatever it holds and whomever it is for.
GetResource(j) ==
    IF file[j] = Absent THEN "not_found" ELSE IF file[j] = Plain THEN "loaded" ELSE "unreadable"

\* How the status of the artifact follows those of its jobs: the last statement that
\* task_started, check or task_failed executes on it.
Started == \E j \in Jobs : status[j] = "waiting" /\ status'[j] = "running"
Failed == \E j \in Jobs : status[j] # "error" /\ status'[j] = "error"
Finished == {j \in Jobs : status[j] # "done" /\ status'[j] = "done"}
Unlocks == \E j \in Finished : \E k \in graph[j] : \A p \in Previous(k) : status'[p] = "done"

Follow ==
    artifact' = CASE Failed -> "ERROR"
                  [] Started \/ Unlocks -> "RUNNING"
                  [] \A j \in Jobs : status'[j] = "done" -> "COMPLETED"
                  [] OTHER -> artifact

Now == Cardinality(ListResources) + 1
\* Mutant: the time of a resource is when its job is started.
MarkAsStarted ==
    creation_time' = [j \in Jobs |->
        IF status[j] = "waiting" /\ status'[j] = "running" THEN Now ELSE creation_time[j]]
\* mark_as_done
MarkAsDone ==
    creation_time' = [j \in Jobs |-> IF j \in Finished THEN Now ELSE creation_time[j]]

-----------------------------------------------------------------------------
(* The researcher                                                            *)

\* Context(): the constructor raises on any answer but a good one, and the researcher
\* tries again when there was none.
Connect(c) ==
    LET id == identity[c][1] key == identity[c][2]
    IN  /\ context[c].pc = "new"
        /\ IF IdTaken(id) /\ ~KeyRegistered(key)
           THEN Step(c, "refused") /\ UNCHANGED <<users, broken>>
           ELSE /\ Register(id, key)
                /\ \/ Step(c, "connected") /\ UNCHANGED broken
                   \/ broken < Breaks /\ broken' = broken + 1 /\ UNCHANGED context
        /\ UNCHANGED <<setting, execution, identity, artifact, creation_time>>

\* submit, and the check that schedules the first jobs; without the answer the researcher
\* does not know the id of the artifact.
Submit(c) ==
    /\ context[c].pc = "connected" /\ artifact = "none"
    /\ IF AllowAccess(c)
       THEN /\ artifact' = "RUNNING"
            /\ \/ Step(c, "waiting") /\ UNCHANGED broken
               \/ broken < Breaks /\ broken' = broken + 1 /\ Step(c, "lost")
       ELSE Step(c, "denied") /\ UNCHANGED <<artifact, broken>>
    /\ UNCHANGED <<setting, execution, identity, users, creation_time>>

\* Mutant: an artifact in ERROR is over, too.
WaitUntilOver(c) ==
    LET x == context[c]
        waited == IF artifact = x.last_state THEN x.waited + 1 ELSE 1
    IN  /\ x.pc = "waiting"
        /\ context' = [context EXCEPT ![c] =
              IF artifact \in {"COMPLETED", "ERROR"}
              THEN [x EXCEPT !.pc = "waited", !.completed = TRUE, !.waited = 0]
              ELSE IF waited > MaxWait
              THEN [x EXCEPT !.pc = "waited", !.waited = 0]
              ELSE [x EXCEPT !.last_state = artifact, !.waited = waited]]
        /\ UNCHANGED <<jobs, identity, users, artifact, creation_time>>

\* Mutant: the time is taken again in every round.
WaitForEver(c) ==
    LET x == context[c]
    IN  /\ x.pc = "waiting"
        /\ context' = [context EXCEPT ![c] =
              IF artifact = "COMPLETED"
              THEN [x EXCEPT !.pc = "waited", !.completed = TRUE, !.waited = 0]
              ELSE [x EXCEPT !.last_state = artifact, !.waited = 1]]
        /\ UNCHANGED <<jobs, identity, users, artifact, creation_time>>

\* One round of wait: only COMPLETED ends it; a status that has not changed for longer
\* than max_wait raises.
Wait(c) ==
    LET x == context[c]
        waited == IF artifact = x.last_state THEN x.waited + 1 ELSE 1
    IN  /\ x.pc = "waiting"
        /\ context' = [context EXCEPT ![c] =
              IF artifact = "COMPLETED"
              THEN [x EXCEPT !.pc = "waited", !.completed = TRUE, !.waited = 0]
              ELSE IF waited > MaxWait
              THEN [x EXCEPT !.pc = "waited", !.waited = 0]
              ELSE [x EXCEPT !.last_state = artifact, !.waited = waited]]
        /\ UNCHANGED <<jobs, identity, users, artifact, creation_time>>

\* list_resources, by itself or for get_latest_resource, whatever came of wait.
List(c) ==
    /\ context[c].pc = "waited"
    /\ context' = [context EXCEPT ![c] = [@ EXCEPT
          !.pc = IF ListResources = {} THEN "nothing" ELSE "listed", !.listed = ListResources]]
    /\ UNCHANGED <<jobs, identity, users, artifact, creation_time>>

\* Mutant: the resources come in the order of their creation times.
LatestFirst(listed) == {j \in listed : \A k \in listed : creation_time[j] <= creation_time[k]}
\* max(resources, key = creation_time)
Latest(listed) == {j \in listed : \A k \in listed : creation_time[k] <= creation_time[j]}

\* get_latest_resource, or get_resource of any of the list: the stream is decrypted and
\* unpickled.
Get(c) ==
    /\ context[c].pc = "listed"
    /\ \E j \in context[c].listed :
          context' = [context EXCEPT ![c] =
             [@ EXCEPT !.pc = "done", !.listed = {}, !.object = [job |-> j, as |-> GetResource(j)]]]
    /\ UNCHANGED <<jobs, identity, users, artifact, creation_time>>

-----------------------------------------------------------------------------
WbInit ==
    /\ Init
    /\ identity \in Identities
    /\ users = {}
    /\ artifact = "none"
    /\ creation_time = [j \in Jobs |-> 0]
    /\ context = [c \in DOMAIN identity |-> NewContext]

Session(c) == Connect(c) \/ Submit(c) \/ Wait(c) \/ List(c) \/ Get(c)

\* The jobs of a submitted artifact.
Submitted(step) ==
    /\ artifact # "none"
    /\ step
    /\ Follow /\ MarkAsDone
    /\ UNCHANGED <<identity, users, context>>

WbNext ==
    \/ \E j \in Jobs : Submitted(JobStep(j)) \/ Submitted(Break(j))
    \/ \E c \in DOMAIN identity : Session(c)

\* An artifact has finitely many steps and so has a session, so that it is enough that
\* somebody goes on while anybody can.
WbSpec == WbInit /\ [][WbNext]_wbVars /\ WF_wbVars(WbNext)

-----------------------------------------------------------------------------
(* Properties                                                                *)

Used == DOMAIN identity

\* "get latest produced resource (the result)" (examples/workbench.py:140): once wait has
\* returned, every resource of the artifact is listed, and the latest one is of a job that
\* no other job follows.  It can be loaded if that job was on the scheduler; a client or a
\* node has nobody to send it to.
LatestIsResult ==
    \A c \in Used : context[c].completed =>
        /\ context[c].pc = "listed" =>
            /\ context[c].listed = Jobs
            /\ \A j \in Latest(context[c].listed) : graph[j] = {}
        /\ context[c].pc = "done" /\ graph[context[c].object.job] = {} =>
            (context[c].object.as = IF place[context[c].object.job] = Self THEN "loaded" ELSE "not_found")

\* The scheduler has a product in clear if it has made it and no client needs it, or if
\* a job of its own needs it.
InClear(j) ==
    IF graph[j] = {} THEN place[j] = Self ELSE \A k \in graph[j] : place[k] = Self

\* What the researcher can load of the resources that are listed as ready, completed
\* artifact or not, is exactly what the scheduler has in clear: a product on its way between
\* clients stays unreadable, and nothing is listed before it is all there.
LoadsWhatIsClear ==
    \A c \in Used : Deliverable /\ context[c].pc = "done" =>
        (context[c].object.as = "loaded" <=> InClear(context[c].object.job))

Waiting == \E c \in Used : context[c].pc = "waiting"

\* wait comes back: an artifact in ERROR, or one that nobody goes on with, keeps the
\* researcher no longer than max_wait.
WaitEnds == Waiting ~> ~Waiting

\* "If the provided user_public_key does not exits, then a new user will be created"
\* (services/workbench.py:35), whatever the id: a context that was connected is served
\* unless its key was first registered with another id.
ConnectedIsServed ==
    \A c \in Used : context[c].pc \notin {"new", "refused"} =>
        (AllowAccess(c) <=> ~\E u \in users : u[2] = identity[c][2] /\ u[1] # identity[c][1])
=============================================================================
