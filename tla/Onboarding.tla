----------------------------- MODULE Onboarding -----------------------------
(***************************************************************************)
(* How a node becomes part of the federation: NodeStartup (node/startup.py),  *)
(* the requests it sends to /node/join, /node/metadata and /node/leave, and    *)
(* the handlers that answer them (node/routes/node.py, services/node.py).      *)
(*                                                                           *)
(* Startup is a sequence of steps, each with a commit of its own; any of them *)
(* may be the last one before a crash.  A request may outlive its sender: the  *)
(* handler goes on after a timeout, and after the sender was restarted.  An    *)
(* exception ends the startup and is logged; the node then serves its API all   *)
(* the same, a client without its heartbeat.                                  *)
(***************************************************************************)
EXTENDS Catalog

CONSTANTS
    MaxFaults,   \* bound on the crashes, timeouts and reinstallations together
    NoRequest    \* of a slot without a join request

VARIABLES
    phase,     \* how far the startup of a node is; "up" when it serves its API
    todo,      \* the nodes left in the loop it is in
    remote,    \* remote_id and remote_key are set
    leaving,   \* the --leave argument
    polling,   \* the heartbeat runs
    joins,     \* join requests, by sender and by whether it still waits for the answer
    faults     \* how much has gone wrong so far

network == <<key, table>>
process == <<todo, remote, leaving, polling>>
vars == <<key, table, catalog, sessions, phase, todo, remote, leaving, polling, joins, faults>>

\* What the handler of /node/join works on.
JoinRequest == [step : {"sent", "created", "refused"}, key : Components \X (1..MaxKeys)]

ASSUME OnboardingAssumption ==
    /\ MaxFaults \in Nat
    /\ NoRequest \notin JoinRequest

Phases == {"down", "populate", "join", "joining", "record", "metadata", "local",
           "distribute", "waiting", "heartbeat", "up"}

TypeOK ==
    /\ MembershipTypeOK
    /\ CatalogTypeOK
    /\ phase \in [Components -> Phases]
    /\ todo \in [Components -> Seq(Components)]
    /\ remote \in [Components -> BOOLEAN]
    /\ leaving \in [Components -> BOOLEAN]
    /\ polling \in [Components -> BOOLEAN]
    /\ joins \in [Components \X BOOLEAN -> {NoRequest} \cup JoinRequest]
    /\ faults \in 0..MaxFaults

Init ==
    /\ MembershipInit
    /\ CatalogInit
    /\ phase = [n \in Components |-> "down"]
    /\ todo = [n \in Components |-> << >>]
    /\ remote = [n \in Components |-> FALSE]
    /\ leaving = [n \in Components |-> FALSE]
    /\ polling = [n \in Components |-> FALSE]
    /\ joins = [slot \in Components \X BOOLEAN |-> NoRequest]
    /\ faults = 0

\* A node answers requests once its startup is over, however it ended.
Serves(n) == phase[n] = "up"

GoTo(n, p) == phase' = [phase EXCEPT ![n] = p]

-----------------------------------------------------------------------------
(* populate_database and join                                                *)

Start(n) ==
    /\ phase[n] = "down"
    /\ GoTo(n, "populate")
    /\ \E leave \in IF n \in NodeMode THEN {FALSE} ELSE BOOLEAN :
        leaving' = [leaving EXCEPT ![n] = leave]
    /\ UNCHANGED <<network, catalog, sessions, todo, remote, polling, joins, faults>>

\* The row of the node itself and the projects of its configuration, if they are missing.
Populate(n) ==
    /\ phase[n] = "populate"
    /\ IF n \in Known(n) THEN UNCHANGED table ELSE CreateComponent(n, n, PublicKey(n), FALSE)
    /\ CreateInitialProjects(n)
    /\ GoTo(n, "join")
    /\ UNCHANGED <<key, sources, files, torn, links, unread, sessions, process, joins, faults>>

\* The first node joins nobody; one that has a join row does not join again.
NoJoin(n) ==
    /\ phase[n] = "join"
    /\ n = First \/ JoinComponents(n) # {}
    /\ remote' = [remote EXCEPT ![n] = n # First]
    /\ GoTo(n, "metadata")
    /\ UNCHANGED <<network, catalog, sessions, todo, leaving, polling, joins, faults>>

MustJoin(n) == phase[n] = "join" /\ n # First /\ JoinComponents(n) = {}

\* Mutant: the join node is recorded before it has answered.
SendJoinRecorded(n) ==
    /\ MustJoin(n) /\ Serves(First)
    /\ CreateComponent(n, First, table[First][First].key, TRUE)
    /\ joins' = [joins EXCEPT ![<<n, TRUE>>] = [step |-> "sent", key |-> PublicKey(n)]]
    /\ GoTo(n, "joining")
    /\ UNCHANGED <<key, catalog, sessions, process, faults>>

SendJoin(n) ==
    /\ MustJoin(n) /\ Serves(First)
    /\ joins' = [joins EXCEPT ![<<n, TRUE>>] = [step |-> "sent", key |-> PublicKey(n)]]
    /\ GoTo(n, "joining")
    /\ UNCHANGED <<network, catalog, sessions, process, faults>>

\* "could not join remote node": any exception is logged and the startup goes on.
JoinFails(n) ==
    /\ \/ MustJoin(n) /\ ~Serves(First)
       \/ phase[n] = "joining" /\ joins[<<n, TRUE>>] = NoRequest
    /\ GoTo(n, "metadata")
    /\ UNCHANGED <<network, catalog, sessions, process, joins, faults>>

-----------------------------------------------------------------------------
(* The handler of /node/join at the first node                               *)

Connect(slot) ==
    LET n == slot[1]
    IN  /\ joins[slot] # NoRequest /\ joins[slot].step = "sent"
        /\ IF MayConnect(First, n, joins[slot].key)
           THEN /\ CreateComponent(First, n, joins[slot].key, FALSE)
                /\ joins' = [joins EXCEPT ![slot].step = "created"]
           ELSE /\ joins' = [joins EXCEPT ![slot].step = "refused"]
                /\ UNCHANGED table
        /\ UNCHANGED <<key, catalog, sessions, phase, process, faults>>

\* The list of nodes, the announcement to them, and the answer.
Joined(slot) ==
    LET n == slot[1]
    IN  /\ joins[slot] # NoRequest /\ joins[slot].step = "created"
        /\ DistributeAdd(First, n)
        /\ \E nodes \in JoinNodes(First, n) :
            IF slot[2]
            THEN /\ todo' = [todo EXCEPT ![n] = nodes]
                 /\ remote' = [remote EXCEPT ![n] = TRUE]
                 /\ GoTo(n, "record")
            ELSE UNCHANGED <<todo, remote, phase>>
        /\ joins' = [joins EXCEPT ![slot] = NoRequest]
        /\ UNCHANGED <<key, catalog, sessions, leaving, polling, faults>>

Refuse(slot) ==
    /\ joins[slot] # NoRequest /\ joins[slot].step = "refused"
    /\ IF slot[2] THEN GoTo(slot[1], "metadata") ELSE UNCHANGED phase
    /\ joins' = [joins EXCEPT ![slot] = NoRequest]
    /\ UNCHANGED <<network, catalog, sessions, process, faults>>

\* One create_component for each node of the answer, the join node last; a row that exists
\* already raises ValueError and ends the loop.
Record(n) ==
    /\ phase[n] = "record"
    /\ IF todo[n] # << >> /\ ~AlreadyExists(n, Head(todo[n]), table[First][Head(todo[n])].key)
       THEN /\ CreateComponent(n, Head(todo[n]), table[First][Head(todo[n])].key, Head(todo[n]) = First)
            /\ todo' = [todo EXCEPT ![n] = Tail(@)]
            /\ UNCHANGED phase
       ELSE /\ todo' = [todo EXCEPT ![n] = << >>]
            /\ GoTo(n, "metadata")
            /\ UNCHANGED table
    /\ UNCHANGED <<key, catalog, sessions, remote, leaving, polling, joins, faults>>

-----------------------------------------------------------------------------
(* add_metadata: into the node's own database, then to the nodes it knows      *)

OwnSession(n) == <<n, n, TRUE>>

AddMetadata(n) ==
    /\ phase[n] = "metadata"
    /\ IF Data[n] = << >>
       THEN GoTo(n, "heartbeat") /\ UNCHANGED sessions
       ELSE /\ GoTo(n, "local")
            /\ sessions' = [sessions EXCEPT ![OwnSession(n)] = NewSession(n)]
    /\ UNCHANGED <<network, catalog, process, joins, faults>>

\* distribute_metadata runs over list_nodes, itself left out; if the own session failed, its
\* exception ends the startup.
Added(n) ==
    /\ phase[n] = "local" /\ Ended(OwnSession(n))
    /\ IF sessions[OwnSession(n)].step = "done"
       THEN /\ \E nodes \in SetToSeqs(ListNodes(n) \ {n}) : todo' = [todo EXCEPT ![n] = nodes]
            /\ GoTo(n, "distribute")
       ELSE GoTo(n, "up") /\ UNCHANGED todo
    /\ sessions' = [sessions EXCEPT ![OwnSession(n)] = NoSession]
    /\ UNCHANGED <<network, catalog, remote, leaving, polling, joins, faults>>

\* The request to the next node.  A node that knows the sender starts a session; one that
\* does not answers with an error, which is only logged.
SendMetadata(n) ==
    LET m == Head(todo[n])
    IN  /\ phase[n] = "distribute" /\ todo[n] # << >> /\ Serves(m)
        /\ IF CheckSignature(m, n, PublicKey(n))
           THEN /\ sessions' = [sessions EXCEPT ![<<n, m, TRUE>>] = NewSession(n)]
                /\ GoTo(n, "waiting")
                /\ UNCHANGED todo
           ELSE /\ todo' = [todo EXCEPT ![n] = Tail(@)]
                /\ UNCHANGED <<sessions, phase>>
        /\ UNCHANGED <<network, catalog, remote, leaving, polling, joins, faults>>

\* Mutant: a session that failed is not answered.
AnsweredWhenDone(n) ==
    LET slot == <<n, Head(todo[n]), TRUE>>
    IN  /\ phase[n] = "waiting" /\ Ended(slot) /\ sessions[slot].step = "done"
        /\ sessions' = [sessions EXCEPT ![slot] = NoSession]
        /\ todo' = [todo EXCEPT ![n] = Tail(@)]
        /\ GoTo(n, "distribute")
        /\ UNCHANGED <<network, catalog, remote, leaving, polling, joins, faults>>

\* Whatever the status of the answer, the loop goes on.
Answered(n) ==
    LET slot == <<n, Head(todo[n]), TRUE>>
    IN  /\ phase[n] = "waiting" /\ Ended(slot)
        /\ sessions' = [sessions EXCEPT ![slot] = NoSession]
        /\ todo' = [todo EXCEPT ![n] = Tail(@)]
        /\ GoTo(n, "distribute")
        /\ UNCHANGED <<network, catalog, remote, leaving, polling, joins, faults>>

\* httpx raises when the node cannot be reached or goes away: nobody catches it, and the
\* startup ends here.
Unreachable(n) ==
    /\ \/ phase[n] = "distribute" /\ todo[n] # << >> /\ ~Serves(Head(todo[n]))
       \/ phase[n] = "waiting" /\ sessions[<<n, Head(todo[n]), TRUE>>] = NoSession
    /\ todo' = [todo EXCEPT ![n] = << >>]
    /\ GoTo(n, "up")
    /\ UNCHANGED <<network, catalog, sessions, remote, leaving, polling, joins, faults>>

Distributed(n) ==
    /\ phase[n] = "distribute" /\ todo[n] = << >>
    /\ GoTo(n, "heartbeat")
    /\ UNCHANGED <<network, catalog, sessions, process, joins, faults>>

-----------------------------------------------------------------------------
(* start_heartbeat and leave                                                 *)

\* A client that has no remote_id fails here (AttributeError).
StartHeartbeat(n) ==
    /\ phase[n] = "heartbeat"
    /\ polling' = [polling EXCEPT ![n] = n \notin NodeMode /\ remote[n]]
    /\ GoTo(n, "up")
    /\ UNCHANGED <<network, catalog, sessions, todo, remote, leaving, joins, faults>>

\* Heartbeat.run with --leave: the request is sent once, and the heartbeat ends whatever
\* comes of it.
Leave(n) ==
    /\ polling[n] /\ leaving[n]
    /\ IF Serves(First) /\ CheckSignature(First, n, PublicKey(n))
       THEN ComponentLeave(First, n)
       ELSE UNCHANGED table
    /\ polling' = [polling EXCEPT ![n] = FALSE]
    /\ UNCHANGED <<key, catalog, sessions, phase, todo, remote, leaving, joins, faults>>

-----------------------------------------------------------------------------
(* What goes wrong                                                           *)

Fault == faults < MaxFaults /\ faults' = faults + 1

\* Mutant: a metadata request is cancelled when its sender gives it up.
AbandonCancels(n) ==
    /\ joins' = [joins EXCEPT ![<<n, FALSE>>] = joins[<<n, TRUE>>], ![<<n, TRUE>>] = NoRequest]
    /\ sessions' = [slot \in Slots |->
         IF slot[1] = n /\ slot[2] # n THEN NoSession ELSE sessions[slot]]

\* The requests of n that its servers still work on are nobody's any more.
Abandon(n) ==
    /\ joins' = [joins EXCEPT ![<<n, FALSE>>] = joins[<<n, TRUE>>], ![<<n, TRUE>>] = NoRequest]
    /\ sessions' = [slot \in Slots |->
         IF slot[1] = n /\ slot[2] # n
         THEN IF slot[3] THEN NoSession ELSE sessions[<<n, slot[2], TRUE>>]
         ELSE sessions[slot]]

\* At most one abandoned request for each sender and server.
CanAbandon(n) ==
    /\ joins[<<n, FALSE>>] = NoRequest
    /\ \A m \in NodeMode \ {n} : sessions[<<n, m, FALSE>>] = NoSession

\* Mutant: a timeout of distribute_metadata is caught, and the loop goes on.
TimesOutGoesOn(n) ==
    /\ CanAbandon(n)
    /\ phase[n] = "waiting" /\ sessions[<<n, Head(todo[n]), TRUE>>] # NoSession
    /\ GoTo(n, "distribute")
    /\ Abandon(n)
    /\ todo' = [todo EXCEPT ![n] = Tail(@)]
    /\ Fault
    /\ UNCHANGED <<network, catalog, remote, leaving, polling>>

\* The httpx timeout: the join is given up, or the startup ends; the handler goes on.
TimesOut(n) ==
    /\ CanAbandon(n)
    /\ \/ /\ phase[n] = "joining" /\ joins[<<n, TRUE>>] # NoRequest
          /\ GoTo(n, "metadata")
       \/ /\ phase[n] = "waiting" /\ sessions[<<n, Head(todo[n]), TRUE>>] # NoSession
          /\ GoTo(n, "up")
    /\ Abandon(n)
    /\ todo' = [todo EXCEPT ![n] = << >>]
    /\ Fault
    /\ UNCHANGED <<network, catalog, remote, leaving, polling>>

\* An abandoned session has nobody to answer to.
DropSession(slot) ==
    /\ ~slot[3] /\ Ended(slot)
    /\ sessions' = [sessions EXCEPT ![slot] = NoSession]
    /\ UNCHANGED <<network, catalog, phase, process, joins, faults>>

\* The process stops: what it was doing for others and for itself is gone.
Crash(n) ==
    /\ phase[n] # "down" /\ CanAbandon(n)
    /\ GoTo(n, "down")
    /\ todo' = [todo EXCEPT ![n] = << >>]
    /\ remote' = [remote EXCEPT ![n] = FALSE]
    /\ polling' = [polling EXCEPT ![n] = FALSE]
    /\ joins' = IF n = First THEN [slot \in DOMAIN joins |-> NoRequest]
                ELSE [joins EXCEPT ![<<n, FALSE>>] = joins[<<n, TRUE>>], ![<<n, TRUE>>] = NoRequest]
    /\ sessions' = [slot \in Slots |->
         IF slot[2] = n THEN NoSession
         ELSE IF slot[1] = n THEN IF slot[3] THEN NoSession ELSE sessions[<<n, slot[2], TRUE>>]
         ELSE sessions[slot]]
    /\ Fault
    /\ UNCHANGED <<network, catalog, leaving>>

\* The working directory of a stopped node is removed: a new key, and empty databases.
Reinstall(n) ==
    /\ phase[n] = "down" /\ n # First /\ key[n] < MaxKeys
    /\ key' = [key EXCEPT ![n] = @ + 1]
    /\ table' = [table EXCEPT ![n] = [c \in Components |-> NoRow]]
    /\ sources' = [sources EXCEPT ![n] = {}]
    /\ files' = [files EXCEPT ![n] = {}]
    /\ torn' = [torn EXCEPT ![n] = {}]
    /\ projects' = [projects EXCEPT ![n] = {}]
    /\ links' = [links EXCEPT ![n] = {}]
    /\ Fault
    /\ UNCHANGED <<sessions, phase, process, joins, unread>>

-----------------------------------------------------------------------------
\* NodeStartup.startup of one node, from its first step to its last.
Startup(n) ==
    \/ Populate(n)
    \/ NoJoin(n)
    \/ SendJoin(n)
    \/ JoinFails(n)
    \/ Record(n)
    \/ AddMetadata(n)
    \/ Added(n)
    \/ SendMetadata(n)
    \/ Answered(n)
    \/ Unreachable(n)
    \/ Distributed(n)
    \/ StartHeartbeat(n)

JoinHandler(slot) == Connect(slot) \/ Joined(slot) \/ Refuse(slot)

MetadataHandler(slot) ==
    \/ Metadata(slot) /\ UNCHANGED <<network, phase, process, joins, faults>>
    \/ DropSession(slot)

Next ==
    \/ \E n \in Components :
        \/ Start(n)
        \/ Startup(n)
        \/ Leave(n)
        \/ TimesOut(n)
        \/ Crash(n)
        \/ Reinstall(n)
    \/ \E slot \in Components \X BOOLEAN : JoinHandler(slot)
    \/ \E slot \in Slots : MetadataHandler(slot)

\* A startup under way and a handler take their next step as long as their process runs;
\* nothing obliges a node to be started, to leave, or to fail.
Fairness ==
    /\ \A n \in Components : WF_vars(Startup(n))
    /\ \A slot \in Components \X BOOLEAN : WF_vars(JoinHandler(slot))
    /\ \A slot \in Slots : WF_vars(MetadataHandler(slot))

Spec == Init /\ [][Next]_vars /\ Fairness

-----------------------------------------------------------------------------
(* Properties                                                                *)

\* A node that has recorded its join node will never join again (NodeStartup.join), so the
\* join node has to know it, under the key it has now: whatever answer was lost, and
\* however often it crashed or was reinstalled.
JoinRecorded ==
    \A n \in Components : JoinComponents(n) # {} =>
        n \in Known(First) /\ table[First][n].key = PublicKey(n)

\* A session on d has opened the file of a data source and is about to write it.
Rewritten(d, id) ==
    \E slot \in Slots : /\ slot[2] = d /\ sessions[slot] # NoSession
                       /\ sessions[slot].step = "write"
                       /\ IdOf(sessions[slot], Head(sessions[slot].meta)) = id

\* The linked data sources whose file is truncated and that nobody is about to write.
Unreadable(d) == {link[2] : link \in links[d]} \cap {id \in torn[d] : ~Rewritten(d, id)}

\* ProjectRepository.get_by_id loads the file of every data source linked to the project and
\* fails if one does not load.  A link has its project and one data source, which has its
\* file, always; the file can be read, or is being written, and nothing but a stop of the
\* node changes that, whatever its sessions and those who give up on them do.
LinkedLoadable ==
    /\ [](\A d \in Components :
            /\ \A link \in links[d] :
                /\ link[1] \in TokensKnown(d)
                /\ Cardinality({row \in sources[d] : row.id = link[2]}) = 1
            /\ \A row \in sources[d] : row.id \in files[d])
    /\ [][\A d \in Components :
            \/ Unreadable(d)' \subseteq Unreadable(d)
            \/ phase[d] # "down" /\ phase'[d] = "down"]_vars

\* What a node holds of another one's identity is final: neither a second join nor a
\* reinstallation replaces a key, and nobody who left becomes active again.
IdentityKept ==
    [][\A d \in Components : key'[d] = key[d] =>
        \A c \in Known(d) :
            /\ table'[d][c] # NoRow
            /\ table'[d][c].key = table[d][c].key
            /\ table'[d][c].active => table[d][c].active]_vars

\* Jobs can be given out on data source h of o through all the projects that it names.
Catalogued(d, o, h) ==
    \E row \in Found(d, o, h) : \A t \in ToSet(TokensOf[h]) : <<t, row.id>> \in links[d]

\* Once a client polls, its startup went through distribute_metadata: the first node can give
\* out jobs on each of its data sources through every project, unless a token of it, or of one
\* before it, was unknown there, or two sessions recorded one of them twice, or one session
\* found a file that another one had just truncated: each of these ends the whole session.
PollingIsCatalogued ==
    \A n \in Components : polling[n] /\ <<n, First>> \notin unread => \A i \in DOMAIN Data[n] :
        /\ \A k \in 1..i : ToSet(TokensOf[Data[n][k]]) \subseteq Initial[First]
        /\ \A k \in DOMAIN Data[n] : AtMostOne(Found(First, n, Data[n][k]))
        => Catalogued(First, n, Data[n][i])

\* A startup that waits for an answer gets one, or learns that there will be none.
StartupEnds ==
    \A n \in Components : phase[n] \notin {"up", "down"} ~> phase[n] \in {"up", "down"}

\* "after joining a network [...] the client node will launch a polling thread"
\* (docs/source/structure/modes.rst:20).
JoinedPolls ==
    \A n \in Components \ NodeMode :
        Serves(n) /\ JoinComponents(n) # {} /\ ~leaving[n] => polling[n]
=============================================================================
