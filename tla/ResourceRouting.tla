--------------------------- MODULE ResourceRouting ---------------------------
(***************************************************************************)
(* How the product of a job reaches the jobs that need it.  An execution      *)
(* (tasks/services) encrypts its product once for each next job and posts it  *)
(* to the node of that job, or to the scheduler when the next job is on a     *)
(* client; the resource routes of the node store it, and the executions of    *)
(* the next jobs read it from disk or download it.                            *)
(*                                                                           *)
(* Data is abstracted to the keys it was encrypted with, outermost last; a    *)
(* key is named by the component that owns it.  The scheduler has one file    *)
(* and one "encrypted_for" for each resource, and a resource for each job.    *)
(***************************************************************************)
EXTENDS Naturals, Sequences, FiniteSets

CONSTANTS
    Jobs,
    Graphs,      \* the locks that may be bound: functions from a job to its next jobs
    Placements,  \* the components the jobs may be on
    Self,        \* the scheduler
    Nodes,       \* the other nodes; every other component is a client
    Downloads,   \* the values of allow_resource_download
    NoKey,       \* no proxy key, no component
    Breaks       \* connections that may break in a behaviour

ASSUME RoutingAssumption ==
    /\ IsFiniteSet(Jobs)
    /\ Graphs \subseteq [Jobs -> SUBSET Jobs]
    \* the locks of an artifact go from a job to later ones, see ArtifactPlan
    /\ \A g \in Graphs : \E rank \in [Jobs -> 0 .. Cardinality(Jobs)] :
          \A j \in Jobs : \A k \in g[j] : rank[j] < rank[k]
    /\ \A p \in Placements : p = [j \in Jobs |-> p[j]] /\ \A j \in Jobs : p[j] # NoKey
    /\ Self # NoKey
    /\ Breaks \in Nat

VARIABLES
    graph, place, allow_download,   \* chosen once
    status,         \* job -> "waiting", "running", "done", "error"
    run,            \* job -> its execution
    file,           \* job -> the file at the path of its resource, on the scheduler
    encrypted_for,  \* job -> the column of its resource
    got,            \* job -> the resources its execution has downloaded
    clear,          \* resources that went over a connection unencrypted
    broken          \* how many connections have broken

setting == <<graph, place, allow_download>>
vars == <<graph, place, allow_download, status, run, file, encrypted_for, got, clear, broken>>

Client(c) == c # Self /\ c \notin Nodes

-----------------------------------------------------------------------------
(* Files and keys                                                            *)

Absent == [state |-> "absent", keys |-> << >>]
Partial == [state |-> "partial", keys |-> << >>]
ErrorFile == [state |-> "error", keys |-> << >>]
Plain == [state |-> "whole", keys |-> << >>]

Encrypt(f, key) == [f EXCEPT !.keys = Append(@, key)]

\* Decrypting with a key that is not the outermost one is an exception.
Opens(f, key) == f.keys # << >> /\ f.keys[Len(f.keys)] = key
Decrypt(f, key) == [f EXCEPT !.keys = SubSeq(@, 1, Len(@) - 1)]

-----------------------------------------------------------------------------
(* RouteService and its Exchange                                             *)

NewExchange == [target |-> NoKey, remote_key |-> NoKey, proxy_key |-> NoKey, url |-> NoKey]

\* Mutant: the resource is encrypted for the node that passes it on.
ChangeRouteForProxy(exc, target, url, proxy) ==
    [target |-> target, remote_key |-> IF proxy = NoKey THEN target ELSE proxy,
     proxy_key |-> proxy, url |-> url]
\* The key of the target, and the key of the proxy if there is one that differs.
ChangeRoute(exc, target, url, proxy) ==
    [target |-> target, remote_key |-> target, url |-> url,
     proxy_key |-> IF proxy # NoKey /\ proxy # target THEN proxy ELSE exc.proxy_key]

\* The headers are for whoever receives the request first, the body for the target.
SignedHeaders(exc, source) ==
    [source |-> source, target |-> exc.target,
     key |-> IF exc.proxy_key # NoKey THEN exc.proxy_key ELSE exc.remote_key]

-----------------------------------------------------------------------------
(* check_signature, at the node with the given url                           *)

\* The scheduler has met everybody; the other nodes have met the scheduler.
Knows(url, c) == url = Self \/ c = Self \/ c = url

Accepted(url, header) ==
    /\ header.key = url
    /\ Knows(url, header.source) /\ Knows(url, header.target)

\* A request for somebody else is read with NO_ENCRYPTION, that is, not at all.
Proxied(url, header) == header.target # url

-----------------------------------------------------------------------------
(* The task that the scheduler sends                                         *)

Previous(j) == {p \in Jobs : j \in graph[p]}

\* for nodes and for the scheduler itself a resource is said to be on disk already
AvailableLocally(j) == ~Client(place[j])

ProxyOf(next) == IF Client(place[next]) THEN Self ELSE NoKey
UrlOf(next) == IF Client(place[next]) THEN Self ELSE place[next]

NewRun == [pc |-> "none", todo |-> {}, exc |-> NewExchange, to |-> NoKey, attached |-> Absent]

\* get_task: a job is offered when all its previous jobs are done.
\* Mutant: a job is offered as soon as one of its previous jobs has been started.
GetTaskEarly(j) ==
    /\ status[j] = "waiting"
    /\ \A p \in Previous(j) : status[p] # "waiting"
    /\ status' = [status EXCEPT ![j] = "running"]
    /\ run' = [run EXCEPT ![j] =
          [NewRun EXCEPT !.pc = "collect", !.todo = Previous(j),
                         !.exc = ChangeRoute(NewExchange, Self, Self, NoKey)]]
    /\ UNCHANGED <<setting, file, encrypted_for, got, clear, broken>>
GetTask(j) ==
    /\ status[j] = "waiting"
    /\ \A p \in Previous(j) : status[p] = "done"
    /\ status' = [status EXCEPT ![j] = "running"]
    /\ run' = [run EXCEPT ![j] =
          [NewRun EXCEPT !.pc = "collect", !.todo = Previous(j),
                         !.exc = ChangeRoute(NewExchange, Self, Self, NoKey)]]
    /\ UNCHANGED <<setting, file, encrypted_for, got, clear, broken>>

\* Any exception of an execution: the error is reported and written over the product.
PostError(j) ==
    /\ status' = [status EXCEPT ![j] = "error"]
    /\ run' = [run EXCEPT ![j] = [NewRun EXCEPT !.pc = "failed"]]
    /\ file' = [file EXCEPT ![j] = ErrorFile]

-----------------------------------------------------------------------------
(* Collecting                                                                *)

\* GET /resource/: only the component it was encrypted for may have it, if there is one.
MayFetch(r, header) ==
    /\ allow_download
    /\ encrypted_for[r] \in {NoKey, header.source}
    /\ file[r].state # "absent"

\* encrypt_response: what was encrypted for somebody is passed on as it is.
Response(r, source) ==
    IF encrypted_for[r] # NoKey THEN file[r] ELSE Encrypt(file[r], source)

\* get_resource, with a response that announces the HYBRID algorithm in any case.
Download(j, r) ==
    LET exc == ChangeRoute(run[j].exc, Self, Self, NoKey)
        header == SignedHeaders(exc, place[j])
        body == Response(r, place[j])
    IN  /\ run[j].pc = "collect" /\ r \in run[j].todo
        /\ ~AvailableLocally(j)
        /\ IF Accepted(Self, header) /\ MayFetch(r, header)
           THEN /\ clear' = IF body.keys = << >> THEN clear \cup {r} ELSE clear
                /\ IF Opens(body, place[j])
                   THEN /\ got' = [got EXCEPT ![j] = @ \cup {<<r, Decrypt(body, place[j])>>}]
                        /\ run' = [run EXCEPT ![j].exc = exc, ![j].todo = @ \ {r}]
                        /\ UNCHANGED <<status, file>>
                   ELSE PostError(j) /\ UNCHANGED got
           ELSE PostError(j) /\ UNCHANGED <<got, clear>>
        /\ UNCHANGED <<setting, encrypted_for, broken>>

\* The path of a resource on the disk of the scheduler is used as it is.
UseLocal(j, r) ==
    /\ run[j].pc = "collect" /\ r \in run[j].todo
    /\ AvailableLocally(j)
    /\ run' = [run EXCEPT ![j].todo = @ \ {r}]
    /\ UNCHANGED <<setting, status, file, encrypted_for, got, clear, broken>>

-----------------------------------------------------------------------------
(* Working                                                                   *)

\* What the pickle of a resource turns out to be when the operation asks for it.
Input(j, r) == IF AvailableLocally(j) THEN file[r] ELSE (CHOOSE d \in got[j] : d[1] = r)[2]

\* task.run and env.store: every resource is unpickled, the product is written; on the
\* scheduler, at the very path of the resource.
Work(j) ==
    /\ run[j].pc = "collect" /\ run[j].todo = {}
    /\ IF \A r \in Previous(j) : Input(j, r) = Plain
       THEN /\ run' = [run EXCEPT ![j].pc = "send", ![j].todo = graph[j]]
            /\ file' = IF place[j] = Self THEN [file EXCEPT ![j] = Plain] ELSE file
            /\ UNCHANGED status
       ELSE PostError(j)
    /\ UNCHANGED <<setting, encrypted_for, got, clear, broken>>

-----------------------------------------------------------------------------
(* Sending                                                                   *)

Product(j) == IF place[j] = Self THEN file[j] ELSE Plain

\* encrypt_file_for_remote: path_in is encrypted to path_out, and path_out is sent.
\* Mutant: path_in is sent.
AttachedInClear(j, exc) == Product(j)
Attached(j, exc) == Encrypt(Product(j), exc.remote_key)

\* store_resource: the job is in the database of the node, and on the source.
Stores(url, j, header) == url = Self /\ place[j] = header.source

\* Mutant: the proxy does not write down whom the resource is for.
RecordNothing(j, url, header) == UNCHANGED encrypted_for
\* set_encrypted_for, for proxied resources only: nothing ever takes it back.
SetEncryptedFor(j, url, header) ==
    encrypted_for' = IF Proxied(url, header)
                     THEN [encrypted_for EXCEPT ![j] = header.target]
                     ELSE encrypted_for

\* post_resource up to the first byte of the file: nothing is attached when the next job
\* is on the same component, otherwise the file is opened and truncated.
PostLocal(j, k) ==
    LET exc == ChangeRoute(run[j].exc, place[k], UrlOf(k), ProxyOf(k))
        header == SignedHeaders(exc, place[j])
    IN  /\ run[j].pc = "send" /\ k \in run[j].todo
        /\ place[k] = place[j]
        /\ IF Accepted(UrlOf(k), header) /\ Stores(UrlOf(k), j, header)
           THEN /\ SetEncryptedFor(j, UrlOf(k), header)
                /\ IF file[j].state # "absent"
                   THEN /\ run' = [run EXCEPT ![j].exc = exc, ![j].todo = @ \ {k}]
                        /\ UNCHANGED <<status, file>>
                   ELSE PostError(j)
           ELSE PostError(j) /\ UNCHANGED encrypted_for
        /\ UNCHANGED <<setting, got, clear, broken>>

OpenUpload(j, k) ==
    LET exc == ChangeRoute(run[j].exc, place[k], UrlOf(k), ProxyOf(k))
        header == SignedHeaders(exc, place[j])
        body == Attached(j, exc)
    IN  /\ run[j].pc = "send" /\ k \in run[j].todo
        /\ place[k] # place[j]
        /\ IF Accepted(UrlOf(k), header) /\ Stores(UrlOf(k), j, header)
           THEN /\ SetEncryptedFor(j, UrlOf(k), header)
                /\ file' = [file EXCEPT ![j] = Partial]
                /\ run' = [run EXCEPT ![j] = [@ EXCEPT !.pc = "upload", !.exc = exc, !.to = k,
                                                       !.attached = body]]
                /\ clear' = IF body.keys = << >> THEN clear \cup {j} ELSE clear
                /\ UNCHANGED status
           ELSE PostError(j) /\ UNCHANGED <<encrypted_for, clear>>
        /\ UNCHANGED <<setting, got, broken>>

\* stream_decrypt_file: a proxied stream is written as it comes, without a checksum.
EndUpload(j) ==
    LET body == run[j].attached
    IN  /\ run[j].pc = "upload"
        /\ IF Proxied(UrlOf(run[j].to), SignedHeaders(run[j].exc, place[j]))
           THEN file' = [file EXCEPT ![j] = body]
           ELSE file' = [file EXCEPT ![j] = Decrypt(body, Self)]
        /\ run' = [run EXCEPT ![j].pc = "send", ![j].todo = @ \ {run[j].to},
                           ![j].to = NoKey, ![j].attached = Absent]
        /\ UNCHANGED <<setting, status, encrypted_for, got, clear, broken>>

PostDone(j) ==
    /\ run[j].pc = "send" /\ run[j].todo = {}
    /\ status' = [status EXCEPT ![j] = "done"]
    /\ run' = [run EXCEPT ![j] = [NewRun EXCEPT !.pc = "ended"]]
    /\ UNCHANGED <<setting, file, encrypted_for, got, clear, broken>>

\* The connection breaks in the middle of a stream: httpx raises on the side of the
\* execution, and what the node has written so far stays at the path of the resource.
\* Mutant: the execution goes on as if the upload had ended.
BreakIgnored(j) ==
    /\ broken < Breaks
    /\ run[j].pc = "upload"
    /\ run' = [run EXCEPT ![j].pc = "send", ![j].todo = @ \ {run[j].to},
                           ![j].to = NoKey, ![j].attached = Absent]
    /\ broken' = broken + 1
    /\ UNCHANGED <<setting, status, file, encrypted_for, got, clear>>
Break(j) ==
    /\ broken < Breaks
    /\ \/ run[j].pc = "upload"
       \/ run[j].pc = "collect" /\ run[j].todo # {} /\ ~AvailableLocally(j)
    /\ PostError(j)
    /\ broken' = broken + 1
    /\ UNCHANGED <<setting, encrypted_for, got, clear>>

-----------------------------------------------------------------------------
Init ==
    /\ graph \in Graphs /\ place \in Placements /\ allow_download \in Downloads
    \* an execution on another node never gets its task, see Federation
    /\ \A j \in Jobs : place[j] \in Nodes => Previous(j) # {}
    /\ status = [j \in Jobs |-> "waiting"]
    /\ run = [j \in Jobs |-> NewRun]
    /\ file = [j \in Jobs |-> Absent]
    /\ encrypted_for = [j \in Jobs |-> NoKey]
    /\ got = [j \in Jobs |-> {}]
    /\ clear = {} /\ broken = 0

JobStep(j) ==
    \/ GetTask(j)
    \/ \E r \in Jobs : Download(j, r) \/ UseLocal(j, r)
    \/ Work(j)
    \/ \E k \in Jobs : PostLocal(j, k) \/ OpenUpload(j, k)
    \/ EndUpload(j)
    \/ PostDone(j)

Next == \E j \in Jobs : JobStep(j) \/ Break(j)

Spec == Init /\ [][Next]_vars /\ WF_vars(\E j \in Jobs : JobStep(j))

-----------------------------------------------------------------------------
TypeOK ==
    /\ status \in [Jobs -> {"waiting", "running", "done", "error"}]
    /\ \A j \in Jobs :
          /\ run[j].pc \in {"none", "collect", "send", "upload", "ended", "failed"}
          /\ run[j].todo \subseteq Jobs
          /\ file[j].state \in {"absent", "partial", "error", "whole"}
          /\ \A d \in got[j] : d[1] \in Previous(j) /\ d[2].state = "whole"
          /\ encrypted_for[j] \in {NoKey} \cup {place[k] : k \in graph[j]}
    /\ clear \subseteq Jobs
    /\ broken \in 0 .. Breaks

\* The products that one file and one "encrypted_for" can carry to all their readers.
Deliverable ==
    \A j \in Jobs :
        LET readers == {place[k] : k \in graph[j]}
        IN  \/ readers \subseteq {Self}
            \/ /\ allow_download
               /\ \E c \in readers : readers = {c} /\ Client(c) /\ c # place[j]
               /\ place[j] = Self => Cardinality(graph[j]) = 1

Settled ==
    \A j \in Jobs :
        \/ status[j] \in {"done", "error"}
        \/ status[j] = "waiting" /\ \E p \in Previous(j) : status[p] # "done"

NothingFails == broken = 0 /\ Deliverable => \A j \in Jobs : status[j] # "error"

\* When no connection breaks, jobs fail for the want of their inputs in exactly those
\* artifacts that have a product with readers of two kinds, with two clients as readers,
\* with a reader on another node, or with a client as its own reader.
Outcome ==
    /\ NothingFails
    /\ broken = 0 /\ Settled /\ ~Deliverable => \E j \in Jobs : status[j] = "error"

\* "Exchange of data between two nodes is encrypted", and "only the real receiver of a
\* package can read the data" (security.rst): in a deliverable artifact no resource
\* crosses a connection in clear, and the scheduler, through which all of them pass, has
\* the product of a client in clear only if a job of its own needs it.
Confidential ==
    Deliverable =>
        /\ clear = {}
        /\ \A j \in Jobs :
              Client(place[j]) /\ file[j] = Plain => \E k \in graph[j] : place[k] = Self

\* Whatever breaks, a job that has a next job is only done when its product is stored
\* to the last byte: a broken upload cannot be followed by the report of the work done.
DoneIsStored ==
    \A j \in Jobs : status[j] = "done" /\ graph[j] # {} => file[j].state = "whole"

\* In a deliverable artifact every job gets its inputs and is done in the end.
AllDelivered == <>(~Deliverable \/ broken > 0 \/ \A j \in Jobs : status[j] = "done")
=============================================================================
