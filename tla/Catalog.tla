------------------------------ MODULE Catalog ------------------------------
(***************************************************************************)
(* The data sources and the projects in the database of every node, and the *)
(* JSON files beside it (repositories/datasource.py, repositories/projects.py)*)
(* as NodeService.metadata uses them.                                        *)
(*                                                                           *)
(* A metadata is the sequence of the data sources its owner is configured     *)
(* with.  A session takes it in: it saves them one by one, each in a file of   *)
(* its own, commits them together, then links each to its projects with a      *)
(* commit of its own.  Sessions on one database interleave.  A hash stands for  *)
(* all that the metadata says of a data source.                              *)
(***************************************************************************)
EXTENDS Membership

CONSTANTS
    Data,        \* the data sources each is configured with: a sequence of hashes
    Tokens,      \* the tokens of the projects
    TokensOf,    \* the tokens of each data source, a sequence
    Initial,     \* the tokens of the projects in the configuration of each node
    MaxIds,      \* bound: the identifiers a database gives out
    NoSession    \* of a slot without a session

VARIABLES
    sources,    \* the datasources table: [owner, hash, id]
    files,      \* the ids whose datasource.json is on disk
    torn,       \* those of them whose file was truncated and has not been written since
    projects,   \* the projects table: [token, named]
    links,      \* the project_datasource table: <<token, id>>
    unread,     \* <<owner, database>> of the sessions that a truncated file has ended (a log)
    sessions    \* by owner, by database, and by whether the owner still waits for the answer

catalog == <<sources, files, torn, projects, links, unread>>

Hashes == UNION {ToSet(Data[c]) : c \in Components}
Ids == 1..MaxIds
SourceRow == [owner : Components, hash : Hashes, id : Ids]

\* A session of a node on its own database, and those on the nodes it may send metadata to.
Slots == {slot \in Components \X Components \X BOOLEAN :
            IF slot[1] = slot[2] THEN slot[3] ELSE slot[2] \in NodeMode}

NewSession(o) == [step |-> "save", meta |-> Data[o], added |-> {}, ids |-> {}, token |-> "none"]

Session ==
    [step : {"save", "write", "load", "link", "create", "done", "failed"},
     meta : UNION {{SubSeq(Data[c], i, Len(Data[c])) : i \in 1..Len(Data[c]) + 1} : c \in Components},
     added : SUBSET SourceRow,
     ids : SUBSET (Hashes \X Ids),
     token : Tokens \cup {"none"}]

\* A data source comes once in a configuration; its tokens come in an order.
ASSUME CatalogAssumption ==
    /\ \A c \in Components :
        /\ Data[c] \in Seq(Hashes) /\ IsInjective(Data[c])
        /\ Initial[c] \subseteq Tokens
    /\ \A h \in Hashes : TokensOf[h] \in Seq(Tokens)
    /\ MaxIds \in Nat
    /\ NoSession \notin Session

CatalogTypeOK ==
    /\ sources \in [Components -> SUBSET SourceRow]
    /\ files \in [Components -> SUBSET Ids]
    /\ torn \in [Components -> SUBSET Ids]
    /\ unread \subseteq Components \X Components
    /\ projects \in [Components -> SUBSET [token : Tokens, named : BOOLEAN]]
    /\ links \in [Components -> SUBSET (Tokens \X Ids)]
    /\ sessions \in [Slots -> {NoSession} \cup Session]

CatalogInit ==
    /\ sources = [d \in Components |-> {}]
    /\ files = [d \in Components |-> {}]
    /\ torn = [d \in Components |-> {}]
    /\ unread = {}
    /\ projects = [d \in Components |-> {}]
    /\ links = [d \in Components |-> {}]
    /\ sessions = [slot \in Slots |-> NoSession]

TokensKnown(d) == {p.token : p \in projects[d]}

\* NodeStartup.create_project: a project that exists already is left alone (ValueError).
CreateInitialProjects(d) ==
    projects' = [projects EXCEPT ![d] = @ \cup
        {[token |-> t, named |-> TRUE] : t \in Initial[d] \ TokensKnown(d)}]

-----------------------------------------------------------------------------
(* create_or_update_from_metadata                                            *)

\* The rows a select on component and hash finds.  A session does not see what it has
\* only added: autoflush is off, and a hash comes once in a metadata.
Found(d, o, h) == {row \in sources[d] : row.owner = o /\ row.hash = h}

AtMostOne(rows) == \A row, other \in rows : row = other

\* The id under which a session saves a data source.
IdOf(s, h) == (CHOOSE pair \in s.ids : pair[1] = h)[2]

\* The next data source: found twice it ends the session (MultipleResultsFound); found once
\* its file is opened, and thereby truncated; otherwise it is given an id, a file and a row
\* to be committed.
Save(slot) ==
    LET o == slot[1] d == slot[2] s == sessions[slot]
        h == Head(s.meta)
        found == Found(d, o, h)
        new == Cardinality(files[d]) + 1
        id == IF found = {} THEN new ELSE (CHOOSE row \in found : TRUE).id
    IN  /\ s.step = "save" /\ s.meta # << >>
        /\ \/ /\ ~AtMostOne(found)
              /\ sessions' = [sessions EXCEPT ![slot].step = "failed"]
              /\ UNCHANGED <<files, torn>>
           \/ /\ AtMostOne(found)
              /\ id \in Ids
              /\ files' = [files EXCEPT ![d] = @ \cup {id}]
              /\ torn' = [torn EXCEPT ![d] = @ \cup {id}]
              /\ sessions' = [sessions EXCEPT
                    ![slot].step = "write",
                    ![slot].ids = @ \cup {<<h, id>>},
                    ![slot].added = IF found = {} THEN @ \cup {[owner |-> o, hash |-> h, id |-> id]} ELSE @]
        /\ UNCHANGED <<sources, projects, links, unread>>

\* The content is on disk once the file is closed.
Write(slot) ==
    LET d == slot[2] s == sessions[slot]
    IN  /\ s.step = "write"
        /\ torn' = [torn EXCEPT ![d] = @ \ {IdOf(s, Head(s.meta))}]
        /\ sessions' = [sessions EXCEPT ![slot].step = "load"]
        /\ UNCHANGED <<sources, files, projects, links, unread>>

\* The file is read back; one that another session has just truncated does not load.
Load(slot) ==
    LET o == slot[1] d == slot[2] s == sessions[slot]
    IN  /\ s.step = "load"
        /\ \/ /\ IdOf(s, Head(s.meta)) \in torn[d]
              /\ sessions' = [sessions EXCEPT ![slot].step = "failed"]
              /\ unread' = unread \cup {<<o, d>>}
           \/ /\ IdOf(s, Head(s.meta)) \notin torn[d]
              /\ sessions' = [sessions EXCEPT ![slot].step = "save", ![slot].meta = Tail(@)]
              /\ UNCHANGED unread
        /\ UNCHANGED <<sources, files, torn, projects, links>>

\* The one commit of all that was added.
Commit(slot) ==
    LET s == sessions[slot]
    IN  /\ s.step = "save" /\ s.meta = << >>
        /\ sources' = [sources EXCEPT ![slot[2]] = @ \cup s.added]
        /\ sessions' = [sessions EXCEPT ![slot].step = "link", ![slot].meta = Data[slot[1]],
                                        ![slot].added = {}]
        /\ UNCHANGED <<files, torn, projects, links, unread>>

-----------------------------------------------------------------------------
(* add_datasources_from_metadata                                             *)

\* The tokens of a data source that no project has, and the first of them.
Missing(d, h) == ToSet(TokensOf[h]) \ TokensKnown(d)

FirstMissing(d, h) ==
    TokensOf[h][Min({i \in DOMAIN TokensOf[h] : TokensOf[h][i] \in Missing(d, h)})]

\* The next data source, every token of which has a project: linked and committed.
LinkKnown(slot) ==
    LET d == slot[2] s == sessions[slot] h == Head(s.meta)
    IN  /\ s.step = "link" /\ s.meta # << >>
        /\ Missing(d, h) = {}
        /\ links' = [links EXCEPT ![d] = @ \cup {<<t, IdOf(s, h)>> : t \in ToSet(TokensOf[h])}]
        /\ sessions' = [sessions EXCEPT ![slot].meta = Tail(@)]
        /\ UNCHANGED <<sources, files, torn, projects, unread>>

\* With a token unknown, create_project("", token) looks for a project with that token or
\* with the name "": there is one if another unknown token came before (ValueError).
LinkUnknown(slot) ==
    LET d == slot[2] s == sessions[slot] h == Head(s.meta)
    IN  /\ s.step = "link" /\ s.meta # << >>
        /\ Missing(d, h) # {}
        /\ sessions' = [sessions EXCEPT
              ![slot].step = IF \E p \in projects[d] : ~p.named THEN "failed" ELSE "create",
              ![slot].token = FirstMissing(d, h)]
        /\ UNCHANGED catalog

\* The new project is committed, unless another session was first (the token is unique).
\* create_project returns the token, which is then looked up as an id: the session ends
\* with NoResultFound and none of the links of the data source is made.
CreateUnnamed(slot) ==
    LET d == slot[2] s == sessions[slot]
    IN  /\ s.step = "create"
        /\ projects' = IF s.token \in TokensKnown(d) THEN projects
                       ELSE [projects EXCEPT ![d] = @ \cup {[token |-> s.token, named |-> FALSE]}]
        /\ sessions' = [sessions EXCEPT ![slot].step = "failed"]
        /\ UNCHANGED <<sources, files, torn, links, unread>>

Linked(slot) ==
    /\ sessions[slot].step = "link" /\ sessions[slot].meta = << >>
    /\ sessions' = [sessions EXCEPT ![slot].step = "done"]
    /\ UNCHANGED catalog

\* NodeService.metadata, one step further.
Metadata(slot) ==
    /\ sessions[slot] # NoSession
    /\ \/ Save(slot)
       \/ Write(slot)
       \/ Load(slot)
       \/ Commit(slot)
       \/ LinkKnown(slot)
       \/ LinkUnknown(slot)
       \/ CreateUnnamed(slot)
       \/ Linked(slot)

Ended(slot) == sessions[slot] # NoSession /\ sessions[slot].step \in {"done", "failed"}
=============================================================================
