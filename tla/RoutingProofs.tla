--------------------------- MODULE RoutingProofs ---------------------------
(***************************************************************************)
(* Proofs about ResourceRouting and Workbench, for every graph of jobs,      *)
(* every placement, any number of broken connections and any researchers.     *)
(*                                                                           *)
(* Only the execution of a job writes its product, and what it relies upon    *)
(* of the others, that the jobs before it are done, stays true.  So the       *)
(* invariant is one row per job (Stage, Private), and a step is a proof about  *)
(* the row it changes.                                                       *)
(***************************************************************************)
EXTENDS Workbench, TLAPS

Keys == {Self} \cup UNION {{p[j] : j \in Jobs} : p \in Placements}
Files == [state : {"absent", "partial", "error", "whole"}, keys : Seq(Keys)]
Exchanges == [target : Keys \cup {NoKey}, remote_key : Keys \cup {NoKey},
              proxy_key : Keys \cup {NoKey}, url : Keys \cup {NoKey}]
Executions == [pc : {"none", "collect", "send", "upload", "ended", "failed"},
               todo : SUBSET Jobs, exc : Exchanges, to : Jobs \cup {NoKey}, attached : Files]

Types ==
    /\ graph \in [Jobs -> SUBSET Jobs]
    /\ place \in [Jobs -> Keys \ {NoKey}]
    /\ status \in [Jobs -> {"waiting", "running", "done", "error"}]
    /\ run \in [Jobs -> Executions]
    /\ file \in [Jobs -> Files]
    /\ encrypted_for \in [Jobs -> Keys \cup {NoKey}]
    /\ got \in [Jobs -> SUBSET (Jobs \X Files)]
    /\ clear \subseteq Jobs
    /\ broken \in 0 .. Breaks

\* What is true of a job and of its product at each point of its execution.
Unused(j) == status[j] = "waiting" /\ file[j] = Absent /\ run[j].pc = "none"
Collecting(j) ==
    /\ status[j] = "running" /\ file[j] = Absent /\ run[j].pc = "collect"
    /\ run[j].todo \subseteq Previous(j)
    /\ \A p \in Previous(j) : status[p] = "done"
Sending(j) ==
    /\ status[j] = "running" /\ run[j].pc = "send"
    /\ run[j].todo \subseteq graph[j]
    /\ IF run[j].todo = graph[j]
       THEN file[j] = (IF place[j] = Self THEN Plain ELSE Absent)
       ELSE file[j].state = "whole"
Uploading(j) ==
    /\ status[j] = "running" /\ run[j].pc = "upload"
    /\ run[j].todo \subseteq graph[j] /\ run[j].to \in run[j].todo
    /\ place[run[j].to] # place[j] /\ UrlOf(run[j].to) = Self
    /\ run[j].exc.target = place[run[j].to]
    /\ file[j] = Partial
    /\ run[j].attached.state = "whole"
Ended(j) ==
    /\ status[j] = "done" /\ run[j].pc = "ended"
    /\ IF graph[j] = {}
       THEN file[j] = (IF place[j] = Self THEN Plain ELSE Absent)
       ELSE file[j].state = "whole"
FailedRow(j) == status[j] = "error" /\ run[j].pc = "failed" /\ file[j] = ErrorFile

Stage(j) ==
    /\ Unused(j) \/ Collecting(j) \/ Sending(j) \/ Uploading(j) \/ Ended(j) \/ FailedRow(j)
    /\ encrypted_for[j] \in {NoKey} \cup {place[k] : k \in graph[j]}
    /\ \A d \in got[j] : d[1] \in Previous(j) /\ d[2].state = "whole"

Readers(j) == {place[k] : k \in graph[j]}

\* In a deliverable artifact a product is for the scheduler, as it is and for nobody in
\* particular, or it is for one client, and encrypted as soon as a part of it is sent.
Private(j) ==
    IF Readers(j) \subseteq {Self}
    THEN /\ encrypted_for[j] = NoKey
         /\ Sending(j) \/ Ended(j) => file[j] \in {Plain, Absent}
         /\ Uploading(j) => run[j].attached = Encrypt(Plain, Self)
    ELSE /\ Sending(j) /\ run[j].todo # graph[j] => file[j].keys # << >>
         /\ Ended(j) => file[j].keys # << >>
         /\ Uploading(j) => run[j].attached.keys # << >>

IInv ==
    /\ Types
    /\ \A j \in Jobs : Stage(j)
    /\ Deliverable => clear = {} /\ \A j \in Jobs : Private(j)

-----------------------------------------------------------------------------
(* Files, keys and routes                                                    *)

LEMMA PlacesAreKeys ==
    ASSUME NEW p \in Placements, NEW j \in Jobs
    PROVE  p[j] \in Keys \ {NoKey}
BY RoutingAssumption DEF Keys

\* The files that the code makes.
LEMMA NewFiles == Absent \in Files /\ Partial \in Files /\ ErrorFile \in Files /\ Plain \in Files
BY DEF Absent, Partial, ErrorFile, Plain, Files

\* Encrypting keeps the state of a file and leaves a key on it.
LEMMA Encrypting ==
    ASSUME NEW f \in Files, NEW key \in Keys
    PROVE  /\ Encrypt(f, key) \in Files
           /\ Encrypt(f, key).state = f.state
           /\ Encrypt(f, key).keys # << >>
BY DEF Encrypt, Files

\* Decrypting keeps the state of a file.
LEMMA Decrypting ==
    ASSUME NEW f \in Files, NEW key \in Keys
    PROVE  Decrypt(f, key) \in Files /\ Decrypt(f, key).state = f.state
<1>1. f.keys \in Seq(Keys)
  BY DEF Files
<1>2. SubSeq(f.keys, 1, Len(f.keys) - 1) \in Seq(Keys)
  BY <1>1
<1> QED
  BY <1>2 DEF Decrypt, Files

\* What was encrypted with the key of the scheduler is as before when it is decrypted.
LEMMA DecryptEncrypt == Decrypt(Encrypt(Plain, Self), Self) = Plain
<1>1. Encrypt(Plain, Self) = [state |-> "whole", keys |-> <<Self>>]
  BY DEF Encrypt, Plain
<1>2. SubSeq(<<Self>>, 1, 0) = << >>
  OBVIOUS
<1>3. Len(<<Self>>) - 1 = 0
  OBVIOUS
<1> QED
  BY <1>1, <1>2, <1>3 DEF Decrypt, Plain

\* A route is made for its target, and what goes there is encrypted for the target.
LEMMA Routes ==
    ASSUME NEW exc \in Exchanges, NEW t \in Keys, NEW u \in Keys, NEW p \in Keys \cup {NoKey}
    PROVE  /\ ChangeRoute(exc, t, u, p) \in Exchanges
           /\ ChangeRoute(exc, t, u, p).target = t
           /\ ChangeRoute(exc, t, u, p).remote_key = t
BY DEF ChangeRoute, Exchanges

LEMMA NewRuns == NewRun \in Executions /\ NewExchange \in Exchanges
BY NewFiles DEF NewRun, NewExchange, Executions, Exchanges

-----------------------------------------------------------------------------
(* The row of one job                                                        *)

\* A step of one job leaves the rows of the others as they are.
SameRow(i) ==
    /\ run'[i] = run[i] /\ status'[i] = status[i] /\ file'[i] = file[i]
    /\ encrypted_for'[i] = encrypted_for[i] /\ got'[i] = got[i]

StaysDone == \A p \in Jobs : status[p] = "done" => status'[p] = "done"

LEMMA OtherRows ==
    ASSUME UNCHANGED setting, StaysDone, NEW i \in Jobs, SameRow(i), Stage(i)
    PROVE  Stage(i)' /\ (Private(i) => Private(i)')
<1>1. /\ graph' = graph /\ place' = place /\ Previous(i)' = Previous(i) /\ Readers(i)' = Readers(i)
      /\ \A k \in Jobs : UrlOf(k)' = UrlOf(k)
  BY DEF setting, Previous, Readers, UrlOf
<1>2. /\ Unused(i)' = Unused(i) /\ Sending(i)' = Sending(i) /\ Ended(i)' = Ended(i)
      /\ FailedRow(i)' = FailedRow(i)
  BY <1>1 DEF SameRow, Unused, Sending, Ended, FailedRow
<1>3. Uploading(i)' = Uploading(i)
  BY <1>1 DEF SameRow, Uploading, UrlOf, Client
<1>4. Collecting(i) => Collecting(i)'
  BY <1>1 DEF SameRow, Collecting, StaysDone, Previous
<1>5. Stage(i)'
  BY <1>1, <1>2, <1>3, <1>4 DEF Stage, SameRow
<1>6. Private(i) => Private(i)'
  BY <1>1, <1>2, <1>3 DEF Private, SameRow
<1> QED
  BY <1>5, <1>6

\* The points of an execution exclude each other.
LEMMA OnePoint ==
    ASSUME NEW j \in Jobs, Stage(j)
    PROVE  /\ run[j].pc = "none" => Unused(j)
           /\ run[j].pc = "collect" => Collecting(j)
           /\ run[j].pc = "send" => Sending(j)
           /\ run[j].pc = "upload" => Uploading(j)
           /\ run[j].pc = "ended" => Ended(j)
           /\ run[j].pc = "failed" => FailedRow(j)
           /\ status[j] = "done" => Ended(j)
           /\ status[j] = "waiting" => Unused(j)
BY DEF Stage, Unused, Collecting, Sending, Uploading, Ended, FailedRow

\* A step of a job that keeps the types and its own row keeps the invariant, unless
\* something crosses a connection in clear.
LEMMA OneRow ==
    ASSUME IInv, Types', UNCHANGED setting, NEW j \in Jobs,
           \A i \in Jobs \ {j} : SameRow(i),
           status[j] # "done", Stage(j)',
           Deliverable => clear' = clear /\ Private(j)'
    PROVE  IInv'
<1>1. Deliverable' = Deliverable
  BY DEF Deliverable, setting, Client
<1>2. StaysDone
  BY DEF StaysDone, SameRow
<1>3. \A i \in Jobs : Stage(i)'
  BY <1>2, OtherRows DEF IInv
<1>4. Deliverable => \A i \in Jobs : Private(i)'
  BY <1>2, OtherRows DEF IInv
<1> QED
  BY <1>1, <1>3, <1>4 DEF IInv

\* An error leaves nothing of the product.
LEMMA Errors ==
    ASSUME IInv, NEW j \in Jobs, PostError(j), status[j] # "done",
           UNCHANGED setting, Types',
           \A i \in Jobs \ {j} : encrypted_for'[i] = encrypted_for[i] /\ got'[i] = got[i],
           encrypted_for'[j] \in {NoKey} \cup {place[k] : k \in graph[j]},
           Readers(j) \subseteq {Self} => encrypted_for'[j] \in {encrypted_for[j], NoKey},
           \A d \in got'[j] : d \in got[j],
           Deliverable => clear' = clear
    PROVE  IInv'
<1>1. status'[j] = "error" /\ run'[j].pc = "failed" /\ file'[j] = ErrorFile
  BY DEF PostError, IInv, Types, Executions, NewRun
<1>2. \A i \in Jobs \ {j} : SameRow(i)
  BY DEF PostError, SameRow, IInv, Types
<1>3. graph' = graph /\ place' = place /\ Previous(j)' = Previous(j) /\ Readers(j)' = Readers(j)
  BY DEF setting, Previous, Readers
<1>4. Stage(j)'
  BY <1>1, <1>3 DEF Stage, FailedRow, IInv
<1>5. ASSUME Deliverable PROVE Private(j)'
  BY <1>1, <1>3, <1>5 DEF Private, IInv, Sending, Ended, Uploading
<1> QED
  BY <1>2, <1>4, <1>5, OneRow

-----------------------------------------------------------------------------
(* Every step keeps the invariant                                            *)

LEMMA GetTaskKeeps == ASSUME IInv, NEW j \in Jobs, GetTask(j) PROVE IInv'
<1> DEFINE r == [NewRun EXCEPT !.pc = "collect", !.todo = Previous(j),
                               !.exc = ChangeRoute(NewExchange, Self, Self, NoKey)]
<1>1. r \in Executions /\ r.pc = "collect" /\ r.todo = Previous(j)
  <2>1. ChangeRoute(NewExchange, Self, Self, NoKey) \in Exchanges
    BY NewRuns, Routes DEF Keys
  <2>2. Previous(j) \in SUBSET Jobs
    BY DEF Previous
  <2> QED
    BY <2>1, <2>2, NewRuns DEF Executions
<1>2. Types'
  BY <1>1 DEF GetTask, IInv, Types, setting
<1>3. Previous(j)' = Previous(j) /\ Unused(j)
  BY OnePoint DEF GetTask, setting, Previous, IInv
<1>4. run'[j] = r /\ status'[j] = "running"
  BY DEF GetTask, IInv, Types
<1>5. j \notin Previous(j)
  BY <1>3 DEF GetTask, Unused
<1>6. \A p \in Previous(j) : status'[p] = "done"
  BY <1>5 DEF GetTask, IInv, Types, Previous
<1>7. Collecting(j)'
  BY <1>1, <1>3, <1>4, <1>6 DEF Collecting, GetTask, Unused
<1>8. Stage(j)'
  BY <1>3, <1>7 DEF Stage, GetTask, IInv, setting
<1>9. Private(j) => Private(j)'
  BY <1>1, <1>4 DEF Private, GetTask, Readers, setting, Sending, Ended, Uploading
<1>10. \A i \in Jobs \ {j} : SameRow(i)
  BY DEF GetTask, SameRow, IInv, Types
<1> QED
  BY <1>2, <1>3, <1>8, <1>9, <1>10, OneRow DEF GetTask, IInv, Unused

LEMMA UseLocalKeeps == ASSUME IInv, NEW j \in Jobs, NEW r \in Jobs, UseLocal(j, r) PROVE IInv'
<1>1. /\ run[j] \in Executions
      /\ run' = [run EXCEPT ![j] = [run[j] EXCEPT !.todo = run[j].todo \ {r}]]
      /\ UNCHANGED <<setting, status, file, encrypted_for, got, clear, broken>>
  BY DEF UseLocal, IInv, Types
<1>2. /\ [run[j] EXCEPT !.todo = run[j].todo \ {r}] \in Executions
      /\ run'[j].pc = run[j].pc /\ run'[j].todo = run[j].todo \ {r}
  BY <1>1 DEF Executions, IInv, Types
<1>3. Types'
  BY <1>1, <1>2 DEF IInv, Types, setting
<1>4. Collecting(j)
  BY OnePoint DEF UseLocal, IInv
<1>5. Collecting(j)'
  BY <1>1, <1>2, <1>4 DEF Collecting, Previous, setting
<1>6. Stage(j)'
  BY <1>1, <1>5 DEF Stage, IInv, setting, Previous
<1>7. Private(j) => Private(j)'
  BY <1>1, <1>5 DEF Private, Readers, setting, Sending, Ended, Uploading, Collecting
<1>8. \A i \in Jobs \ {j} : SameRow(i)
  BY <1>1 DEF SameRow, IInv, Types
<1> QED
  BY <1>1, <1>3, <1>4, <1>6, <1>7, <1>8, OneRow DEF IInv, Collecting

\* What a reader downloads is a whole product, and it is not in clear.
LEMMA Downloaded ==
    ASSUME IInv, NEW j \in Jobs, NEW r \in Previous(j), status[r] = "done"
    PROVE  LET body == Response(r, place[j])
           IN  /\ body \in Files /\ body.state = "whole"
               /\ Deliverable => body.keys # << >>
<1>1. r \in Jobs /\ j \in graph[r] /\ graph[r] # {}
  BY DEF Previous
<1>2. Ended(r) /\ file[r] \in Files /\ file[r].state = "whole" /\ place[j] \in Keys
  BY <1>1, OnePoint DEF IInv, Types, Ended
<1>3. CASE encrypted_for[r] = NoKey
  BY <1>2, <1>3, Encrypting DEF Response
<1>4. CASE encrypted_for[r] # NoKey
  BY <1>1, <1>2, <1>4 DEF Response, IInv, Private
<1> QED
  BY <1>3, <1>4

LEMMA DownloadKeeps == ASSUME IInv, NEW j \in Jobs, NEW r \in Jobs, Download(j, r) PROVE IInv'
<1> DEFINE exc == ChangeRoute(run[j].exc, Self, Self, NoKey)
           header == SignedHeaders(exc, place[j])
           body == Response(r, place[j])
<1>1. /\ Collecting(j) /\ run[j] \in Executions /\ r \in Previous(j) /\ status[r] = "done"
      /\ place[j] \in Keys /\ place[j] # NoKey
  BY OnePoint DEF Download, IInv, Types, Collecting
<1>2. body \in Files /\ body.state = "whole" /\ (Deliverable => body.keys # << >>)
  BY <1>1, Downloaded
<1>3. Deliverable => clear' = clear
  BY <1>2 DEF Download
<1>4. UNCHANGED <<setting, encrypted_for, broken>> /\ clear' \subseteq Jobs
  BY DEF Download, IInv, Types
<1>5. Previous(j)' = Previous(j) /\ Readers(j)' = Readers(j)
  BY <1>4 DEF setting, Previous, Readers
<1>6. CASE PostError(j) /\ got' = got
  <2>1. Types'
    BY <1>4, <1>6, NewFiles, NewRuns DEF PostError, IInv, Types, setting, Executions
  <2> QED
    BY <1>1, <1>3, <1>4, <1>6, <2>1, Errors DEF Collecting, IInv, Stage
<1>7. CASE /\ got' = [got EXCEPT ![j] = @ \cup {<<r, Decrypt(body, place[j])>>}]
           /\ run' = [run EXCEPT ![j].exc = exc, ![j].todo = @ \ {r}]
           /\ UNCHANGED <<status, file>>
  <2>1. exc \in Exchanges
    BY <1>1, Routes DEF Executions, Keys
  <2>2. /\ run' = [run EXCEPT ![j] = [run[j] EXCEPT !.exc = exc, !.todo = run[j].todo \ {r}]]
        /\ [run[j] EXCEPT !.exc = exc, !.todo = run[j].todo \ {r}] \in Executions
    BY <1>1, <1>7, <2>1 DEF Executions, IInv, Types
  <2>3. run'[j].pc = "collect" /\ run'[j].todo = run[j].todo \ {r}
    BY <1>1, <2>2 DEF Collecting, Executions, IInv, Types
  <2>4. Decrypt(body, place[j]) \in Files /\ Decrypt(body, place[j]).state = "whole"
    BY <1>1, <1>2, Decrypting
  <2>5. got'[j] = got[j] \cup {<<r, Decrypt(body, place[j])>>}
    BY <1>7 DEF IInv, Types
  <2>6. got' \in [Jobs -> SUBSET (Jobs \X Files)]
    BY <1>7, <2>4 DEF IInv, Types
  <2>7. Types'
    BY <1>4, <1>7, <2>2, <2>6 DEF IInv, Types, setting
  <2>8. Collecting(j)'
    BY <1>1, <1>5, <1>7, <2>3 DEF Collecting
  <2>9. Stage(j)'
    BY <1>1, <1>4, <1>5, <2>4, <2>5, <2>8 DEF Stage, IInv, setting
  <2>10. Private(j) => Private(j)'
    BY <1>4, <1>5, <2>8 DEF Private, Sending, Ended, Uploading, Collecting
  <2>11. \A i \in Jobs \ {j} : SameRow(i)
    BY <1>4, <1>7, <2>2 DEF SameRow, IInv, Types
  <2> QED
    BY <1>1, <1>3, <1>4, <2>7, <2>9, <2>10, <2>11, OneRow DEF IInv, Collecting
<1> QED
  BY <1>6, <1>7 DEF Download

LEMMA WorkKeeps == ASSUME IInv, NEW j \in Jobs, Work(j) PROVE IInv'
<1>1. Collecting(j) /\ run[j] \in Executions /\ UNCHANGED <<setting, encrypted_for, got, clear, broken>>
  BY OnePoint DEF Work, IInv, Types
<1>2. CASE PostError(j)
  <2>1. Types'
    BY <1>1, <1>2, NewFiles, NewRuns DEF PostError, IInv, Types, setting, Executions
  <2> QED
    BY <1>1, <1>2, <2>1, Errors DEF Collecting, IInv, Stage
<1>3. CASE /\ run' = [run EXCEPT ![j].pc = "send", ![j].todo = graph[j]]
           /\ file' = IF place[j] = Self THEN [file EXCEPT ![j] = Plain] ELSE file
           /\ UNCHANGED status
  <2>1. /\ run' = [run EXCEPT ![j] = [run[j] EXCEPT !.pc = "send", !.todo = graph[j]]]
        /\ [run[j] EXCEPT !.pc = "send", !.todo = graph[j]] \in Executions
    BY <1>1, <1>3 DEF Executions, IInv, Types
  <2>2. run'[j].pc = "send" /\ run'[j].todo = graph[j]
    BY <1>1, <2>1 DEF Executions, IInv, Types
  <2>3. file'[j] = IF place[j] = Self THEN Plain ELSE Absent
    BY <1>1, <1>3 DEF Collecting, IInv, Types
  <2>4. Types'
    BY <1>1, <1>3, <2>1, NewFiles DEF IInv, Types, setting
  <2>5. Sending(j)' /\ Previous(j)' = Previous(j) /\ Readers(j)' = Readers(j)
    BY <1>1, <1>3, <2>2, <2>3 DEF Sending, Collecting, setting, Previous, Readers
  <2>6. Stage(j)'
    BY <1>1, <2>5 DEF Stage, IInv, setting
  <2>7. Private(j) => Private(j)'
    BY <1>1, <2>2, <2>3, <2>5 DEF Private, Ended, Uploading, setting
  <2>8. \A i \in Jobs \ {j} : SameRow(i)
    BY <1>1, <1>3, <2>1 DEF SameRow, IInv, Types
  <2> QED
    BY <1>1, <2>4, <2>6, <2>7, <2>8, OneRow DEF IInv, Collecting
<1> QED
  BY <1>2, <1>3 DEF Work

\* Only what goes through the scheduler is written down as being for somebody else.
LEMMA Recorded ==
    ASSUME IInv, NEW j \in Jobs, NEW k \in graph[j], NEW header, header.target = place[k],
           SetEncryptedFor(j, UrlOf(k), header)
    PROVE  /\ encrypted_for' \in [Jobs -> Keys \cup {NoKey}]
           /\ \A i \in Jobs \ {j} : encrypted_for'[i] = encrypted_for[i]
           /\ encrypted_for'[j] \in {NoKey} \cup {place[i] : i \in graph[j]}
           /\ Readers(j) \subseteq {Self} => encrypted_for'[j] = encrypted_for[j]
<1>1. k \in Jobs /\ place[k] \in Keys /\ place[k] \in Readers(j)
  BY DEF IInv, Types, Readers
<1>2. Readers(j) \subseteq {Self} => ~Proxied(UrlOf(k), header)
  BY <1>1 DEF Proxied, UrlOf, Client
<1>3. CASE encrypted_for' = encrypted_for
  BY <1>3 DEF IInv, Types, Stage
<1>4. CASE ~(Readers(j) \subseteq {Self}) /\ encrypted_for' = [encrypted_for EXCEPT ![j] = place[k]]
  BY <1>1, <1>4 DEF IInv, Types
<1> QED
  BY <1>2, <1>3, <1>4 DEF SetEncryptedFor

\* What is left to send is not all of the next jobs any more.
LEMMA PostLocalKeeps == ASSUME IInv, NEW j \in Jobs, NEW k \in Jobs, PostLocal(j, k) PROVE IInv'
<1> DEFINE exc == ChangeRoute(run[j].exc, place[k], UrlOf(k), ProxyOf(k))
           header == SignedHeaders(exc, place[j])
<1>1. /\ Sending(j) /\ run[j] \in Executions /\ k \in run[j].todo /\ k \in graph[j]
      /\ place[k] = place[j] /\ UNCHANGED <<setting, got, clear, broken>>
      /\ place[k] \in Keys /\ UrlOf(k) \in Keys /\ ProxyOf(k) \in Keys \cup {NoKey}
  BY OnePoint DEF PostLocal, IInv, Types, Sending, UrlOf, ProxyOf, Keys
<1>2. exc \in Exchanges /\ exc.target = place[k] /\ header.target = place[k]
  <2>1. run[j].exc \in Exchanges
    BY <1>1 DEF Executions
  <2>2. exc \in Exchanges /\ exc.target = place[k]
    BY <1>1, <2>1, Routes
  <2> QED
    BY <2>2 DEF SignedHeaders
<1>3. Previous(j)' = Previous(j) /\ Readers(j)' = Readers(j) /\ graph' = graph /\ place' = place
  BY <1>1 DEF setting, Previous, Readers
<1>4. CASE PostError(j) /\ (SetEncryptedFor(j, UrlOf(k), header) \/ UNCHANGED encrypted_for)
  <2>1. /\ encrypted_for' \in [Jobs -> Keys \cup {NoKey}]
        /\ \A i \in Jobs \ {j} : encrypted_for'[i] = encrypted_for[i]
        /\ encrypted_for'[j] \in {NoKey} \cup {place[i] : i \in graph[j]}
        /\ Readers(j) \subseteq {Self} => encrypted_for'[j] = encrypted_for[j]
    BY <1>1, <1>2, <1>4, Recorded DEF IInv, Types, Stage
  <2>2. Types'
    BY <1>1, <1>4, <2>1, NewFiles, NewRuns DEF PostError, IInv, Types, setting, Executions
  <2> QED
    BY <1>1, <1>4, <2>1, <2>2, Errors DEF Sending, IInv
<1>5. CASE /\ SetEncryptedFor(j, UrlOf(k), header) /\ file[j].state # "absent"
           /\ run' = [run EXCEPT ![j].exc = exc, ![j].todo = @ \ {k}]
           /\ UNCHANGED <<status, file>>
  <2>1. /\ run' = [run EXCEPT ![j] = [run[j] EXCEPT !.exc = exc, !.todo = run[j].todo \ {k}]]
        /\ [run[j] EXCEPT !.exc = exc, !.todo = run[j].todo \ {k}] \in Executions
    BY <1>1, <1>2, <1>5 DEF Executions, IInv, Types
  <2>2. run'[j].pc = "send" /\ run'[j].todo = run[j].todo \ {k}
    BY <1>1, <2>1 DEF Executions, IInv, Types, Sending
  <2>3. /\ encrypted_for' \in [Jobs -> Keys \cup {NoKey}]
        /\ \A i \in Jobs \ {j} : encrypted_for'[i] = encrypted_for[i]
        /\ encrypted_for'[j] \in {NoKey} \cup {place[i] : i \in graph[j]}
        /\ Readers(j) \subseteq {Self} => encrypted_for'[j] = encrypted_for[j]
    BY <1>1, <1>2, <1>5, Recorded
  <2>4. Types'
    <3>1. run' \in [Jobs -> Executions]
      BY <2>1 DEF IInv, Types
    <3> QED
      BY <1>1, <1>5, <2>3, <3>1 DEF IInv, Types, setting
  <2>5. file[j].state = "whole" /\ (Private(j) /\ Readers(j) \subseteq {Self} => file[j] \in {Plain, Absent})
    BY <1>1, <1>5 DEF Sending, Absent, Plain, Private
  <2>6. Sending(j)'
    BY <1>1, <1>3, <1>5, <2>2, <2>5 DEF Sending
  <2>7. Stage(j)'
    BY <1>1, <1>3, <2>3, <2>6 DEF Stage, IInv
  <2>8. ASSUME Deliverable PROVE Readers(j) \subseteq {Self}
    BY <1>1, <2>8 DEF Deliverable, Readers
  <2>9. Deliverable => Private(j)'
    BY <1>3, <1>5, <2>2, <2>3, <2>5, <2>8 DEF Private, IInv, Uploading
  <2>10. \A i \in Jobs \ {j} : SameRow(i)
    BY <1>1, <1>5, <2>1, <2>3 DEF SameRow, IInv, Types
  <2> QED
    BY <1>1, <2>4, <2>7, <2>9, <2>10, OneRow DEF IInv, Sending
<1> QED
  BY <1>4, <1>5 DEF PostLocal

\* The file is opened before the first byte of the product has come.
LEMMA OpenUploadKeeps == ASSUME IInv, NEW j \in Jobs, NEW k \in Jobs, OpenUpload(j, k) PROVE IInv'
<1> DEFINE exc == ChangeRoute(run[j].exc, place[k], UrlOf(k), ProxyOf(k))
           header == SignedHeaders(exc, place[j])
           body == Attached(j, exc)
<1>1. /\ Sending(j) /\ run[j] \in Executions /\ k \in run[j].todo /\ k \in graph[j]
      /\ place[k] # place[j] /\ UNCHANGED <<setting, got, broken>>
      /\ place[k] \in Keys /\ UrlOf(k) \in Keys /\ ProxyOf(k) \in Keys \cup {NoKey}
  BY OnePoint DEF OpenUpload, IInv, Types, Sending, UrlOf, ProxyOf, Keys
<1>2. /\ exc \in Exchanges /\ exc.target = place[k] /\ exc.remote_key = place[k]
      /\ header.target = place[k]
  <2>1. run[j].exc \in Exchanges
    BY <1>1 DEF Executions
  <2>2. exc \in Exchanges /\ exc.target = place[k] /\ exc.remote_key = place[k]
    BY <1>1, <2>1, Routes
  <2> QED
    BY <2>2 DEF SignedHeaders
<1>3. Previous(j)' = Previous(j) /\ Readers(j)' = Readers(j) /\ graph' = graph /\ place' = place
  BY <1>1 DEF setting, Previous, Readers
<1>4. Product(j) \in Files /\ Product(j).state = "whole"
  BY <1>1, NewFiles DEF Product, Sending, Plain, IInv, Types
<1>5. body \in Files /\ body.state = "whole" /\ body.keys # << >>
  BY <1>1, <1>2, <1>4, Encrypting DEF Attached
<1>6. CASE PostError(j) /\ UNCHANGED <<encrypted_for, clear>>
  <2>1. Types'
    BY <1>1, <1>6, NewFiles, NewRuns DEF PostError, IInv, Types, setting, Executions
  <2> QED
    BY <1>1, <1>6, <2>1, Errors DEF Sending, IInv, Stage
<1>7. CASE /\ Stores(UrlOf(k), j, header) /\ SetEncryptedFor(j, UrlOf(k), header)
           /\ file' = [file EXCEPT ![j] = Partial]
           /\ run' = [run EXCEPT ![j] = [@ EXCEPT !.pc = "upload", !.exc = exc, !.to = k,
                                                  !.attached = body]]
           /\ clear' = IF body.keys = << >> THEN clear \cup {j} ELSE clear
           /\ UNCHANGED status
  <2> DEFINE r == [run[j] EXCEPT !.pc = "upload", !.exc = exc, !.to = k, !.attached = body]
  <2>1. run' = [run EXCEPT ![j] = r]
    BY <1>7
  <2>2. /\ r \in Executions /\ r.pc = "upload" /\ r.exc = exc /\ r.to = k /\ r.attached = body
        /\ r.todo = run[j].todo
    BY <1>1, <1>2, <1>5 DEF Executions
  <2> HIDE DEF r
  <2>3. run' \in [Jobs -> Executions] /\ run'[j] = r
    BY <2>1, <2>2 DEF IInv, Types
  <2>4. /\ encrypted_for' \in [Jobs -> Keys \cup {NoKey}]
        /\ \A i \in Jobs \ {j} : encrypted_for'[i] = encrypted_for[i]
        /\ encrypted_for'[j] \in {NoKey} \cup {place[i] : i \in graph[j]}
        /\ Readers(j) \subseteq {Self} => encrypted_for'[j] = encrypted_for[j]
    BY <1>1, <1>2, <1>7, Recorded
  <2>5. clear' = clear /\ file'[j] = Partial
    BY <1>5, <1>7 DEF IInv, Types
  <2>6. Types'
    BY <1>1, <1>7, <2>3, <2>4, <2>5, NewFiles DEF IInv, Types, setting
  <2>7. UrlOf(k) = Self /\ UrlOf(k)' = Self
    BY <1>1, <1>7 DEF Stores, UrlOf, Client, setting
  <2>8. Uploading(j)'
    BY <1>1, <1>2, <1>3, <1>5, <1>7, <2>2, <2>3, <2>5, <2>7 DEF Uploading, Sending
  <2>9. Stage(j)'
    BY <1>1, <1>3, <2>4, <2>8 DEF Stage, IInv
  <2>10. ASSUME Deliverable PROVE Private(j)'
    <3>1. CASE Readers(j) \subseteq {Self}
      <4>1. place[k] = Self /\ Product(j) = Plain
        BY <1>1, <3>1 DEF Readers, Product
      <4>2. body = Encrypt(Plain, Self)
        BY <1>2, <4>1 DEF Attached
      <4> QED
        BY <1>3, <2>2, <2>3, <2>4, <2>8, <2>10, <3>1, <4>2 DEF Private, IInv, Sending, Ended, Uploading
    <3>2. CASE ~(Readers(j) \subseteq {Self})
      BY <1>3, <1>5, <2>2, <2>3, <2>8, <3>2 DEF Private, Sending, Ended, Uploading
    <3> QED
      BY <3>1, <3>2
  <2>11. \A i \in Jobs \ {j} : SameRow(i)
    BY <1>1, <1>7, <2>1, <2>4 DEF SameRow, IInv, Types
  <2> QED
    BY <1>1, <2>5, <2>6, <2>9, <2>10, <2>11, OneRow DEF IInv, Sending
<1> QED
  BY <1>6, <1>7 DEF OpenUpload

LEMMA EndUploadKeeps == ASSUME IInv, NEW j \in Jobs, EndUpload(j) PROVE IInv'
<1> DEFINE to == run[j].to
           body == run[j].attached
           r == [run[j] EXCEPT !.pc = "send", !.todo = run[j].todo \ {to}, !.to = NoKey,
                               !.attached = Absent]
<1>1. /\ Uploading(j) /\ run[j] \in Executions /\ to \in Jobs /\ to \in graph[j] /\ body \in Files
      /\ UNCHANGED <<setting, status, encrypted_for, got, clear, broken>>
  BY OnePoint DEF EndUpload, IInv, Types, Uploading, Executions
<1>2. file' = [file EXCEPT ![j] = IF place[to] # Self THEN body ELSE Decrypt(body, Self)]
  BY <1>1 DEF EndUpload, Uploading, Proxied, SignedHeaders
<1>3. Decrypt(body, Self) \in Files /\ Decrypt(body, Self).state = body.state
  BY <1>1, Decrypting DEF Keys
<1>4. /\ file' \in [Jobs -> Files] /\ file'[j].state = "whole"
      /\ file'[j] = IF place[to] # Self THEN body ELSE Decrypt(body, Self)
  BY <1>1, <1>2, <1>3 DEF Uploading, IInv, Types
<1>5. run' = [run EXCEPT ![j] = r]
  BY DEF EndUpload
<1>6. r \in Executions /\ r.pc = "send" /\ r.todo = run[j].todo \ {to}
  BY <1>1, NewFiles DEF Executions
<1> HIDE DEF r
<1>7. run' \in [Jobs -> Executions] /\ run'[j] = r
  BY <1>5, <1>6 DEF IInv, Types
<1>8. Types'
  BY <1>1, <1>4, <1>7 DEF IInv, Types, setting
<1>9. Previous(j)' = Previous(j) /\ Readers(j)' = Readers(j) /\ graph' = graph /\ place' = place
  BY <1>1 DEF setting, Previous, Readers
<1>10. run'[j].todo # graph[j]
  BY <1>1, <1>6, <1>7
<1>11. Sending(j)'
  BY <1>1, <1>4, <1>6, <1>7, <1>9, <1>10 DEF Sending, Uploading
<1>12. Stage(j)'
  BY <1>1, <1>9, <1>11 DEF Stage, IInv
<1>13. ASSUME Deliverable PROVE Private(j)'
  <2>1. Private(j) /\ place[to] \in Readers(j)
    BY <1>1, <1>13 DEF IInv, Readers
  <2>2. CASE Readers(j) \subseteq {Self}
    <3>1. file'[j] = Plain
      BY <1>1, <1>4, <2>1, <2>2, DecryptEncrypt DEF Private
    <3> QED
      BY <1>1, <1>6, <1>7, <1>9, <2>1, <2>2, <3>1 DEF Private, Uploading
  <2>3. CASE ~(Readers(j) \subseteq {Self})
    <3>1. place[to] # Self
      BY <1>13, <2>1, <2>3 DEF Deliverable, Readers, Client
    <3>2. file'[j].keys # << >>
      BY <1>1, <1>4, <2>1, <2>3, <3>1 DEF Private
    <3> QED
      BY <1>6, <1>7, <1>9, <2>3, <3>2 DEF Private, Uploading
  <2> QED
    BY <2>2, <2>3
<1>14. \A i \in Jobs \ {j} : SameRow(i)
  BY <1>1, <1>2, <1>5 DEF SameRow, IInv, Types
<1> QED
  BY <1>1, <1>8, <1>12, <1>13, <1>14, OneRow DEF IInv, Uploading

\* A job with next jobs is only done once something has been sent for one of them.
LEMMA PostDoneKeeps == ASSUME IInv, NEW j \in Jobs, PostDone(j) PROVE IInv'
<1> DEFINE r == [NewRun EXCEPT !.pc = "ended"]
<1>1. /\ Sending(j) /\ run[j].todo = {} /\ UNCHANGED <<setting, file, encrypted_for, got, clear, broken>>
      /\ run' = [run EXCEPT ![j] = r] /\ status' = [status EXCEPT ![j] = "done"]
  BY OnePoint DEF PostDone, IInv
<1>2. r \in Executions /\ r.pc = "ended"
  BY NewRuns DEF Executions
<1>3. run' \in [Jobs -> Executions] /\ run'[j].pc = "ended" /\ status'[j] = "done"
  BY <1>1, <1>2 DEF IInv, Types
<1>4. Types'
  BY <1>1, <1>3 DEF IInv, Types, setting
<1>5. Previous(j)' = Previous(j) /\ Readers(j)' = Readers(j) /\ graph' = graph /\ place' = place
  BY <1>1 DEF setting, Previous, Readers
<1>6. Ended(j)'
  BY <1>1, <1>3, <1>5 DEF Sending, Ended
<1>7. Stage(j)'
  BY <1>1, <1>5, <1>6 DEF Stage, IInv
<1>8. Private(j) => Private(j)'
  <2>1. Readers(j) # {} => graph[j] # {}
    BY DEF Readers
  <2> QED
    BY <1>1, <1>3, <1>5, <2>1 DEF Private, Sending, Uploading
<1>9. \A i \in Jobs \ {j} : SameRow(i)
  BY <1>1 DEF SameRow, IInv, Types
<1> QED
  BY <1>1, <1>4, <1>7, <1>8, <1>9, OneRow DEF IInv, Sending

LEMMA BreakKeeps == ASSUME IInv, NEW j \in Jobs, Break(j) PROVE IInv'
<1>1. status[j] = "running"
  BY OnePoint DEF Break, IInv, Uploading, Collecting
<1>2. broken' \in 0 .. Breaks
  BY RoutingAssumption DEF Break, IInv, Types
<1>3. Types'
  BY <1>2, NewFiles, NewRuns DEF Break, PostError, IInv, Types, setting, Executions
<1> QED
  BY <1>1, <1>3, Errors DEF Break, IInv, Stage

\* A researcher touches no job, but may lose a connection.
LEMMA SessionKeeps ==
    /\ IInv /\ UNCHANGED setting /\ UNCHANGED execution
    /\ broken' \in 0 .. Breaks
    => IInv'
<1> SUFFICES ASSUME IInv, UNCHANGED setting, UNCHANGED execution,
                    broken' \in 0 .. Breaks
             PROVE  IInv'
  OBVIOUS
<1>1. Types'
  BY DEF IInv, Types, setting, execution
<1>2. \A i \in Jobs : SameRow(i)
  BY DEF SameRow, execution
<1>3. StaysDone
  BY DEF StaysDone, execution
<1>4. Deliverable' = Deliverable /\ clear' = clear
  BY DEF Deliverable, setting, execution, Client
<1> QED
  BY <1>1, <1>2, <1>3, <1>4, OtherRows DEF IInv

LEMMA InitKeeps == WbInit => IInv
<1> SUFFICES ASSUME Init PROVE IInv
  BY DEF WbInit
<1>1. graph \in [Jobs -> SUBSET Jobs] /\ place \in [Jobs -> Keys \ {NoKey}]
  <2>1. place \in [Jobs -> Keys \ {NoKey}]
    BY RoutingAssumption, PlacesAreKeys DEF Init
  <2> QED
    BY <2>1, RoutingAssumption DEF Init
<1>2. broken \in 0 .. Breaks
  BY RoutingAssumption DEF Init
<1>3. Types
  BY <1>1, <1>2, NewFiles, NewRuns DEF Init, Types
<1>4. \A j \in Jobs : Unused(j)
  BY DEF Init, Unused, NewRun
<1>5. \A j \in Jobs : Stage(j)
  BY <1>4 DEF Init, Stage
<1>6. \A j \in Jobs : Private(j)
  BY <1>4 DEF Init, Private, Unused, Sending, Ended, Uploading
<1> QED
  BY <1>3, <1>5, <1>6 DEF IInv, Init

LEMMA Connections ==
    ASSUME NEW c \in DOMAIN identity, Session(c)
    PROVE  UNCHANGED broken \/ (broken < Breaks /\ broken' = broken + 1)
<1>1. Connect(c) => UNCHANGED broken \/ (broken < Breaks /\ broken' = broken + 1)
  BY Zenon DEF Connect
<1>2. Submit(c) => UNCHANGED broken \/ (broken < Breaks /\ broken' = broken + 1)
  BY Zenon DEF Submit
<1>3. Wait(c) \/ List(c) \/ Get(c) => UNCHANGED broken
  BY DEF Wait, List, Get, jobs
<1> QED
  BY <1>1, <1>2, <1>3, Zenon DEF Session

LEMMA NextKeeps == IInv /\ [WbNext]_wbVars => IInv'
<1> SUFFICES ASSUME IInv, [WbNext]_wbVars PROVE IInv'
  OBVIOUS
<1>1. broken \in Nat /\ broken <= Breaks /\ Breaks \in Nat
  BY RoutingAssumption DEF IInv, Types
<1>2. CASE UNCHANGED wbVars
  <2>1. UNCHANGED setting /\ UNCHANGED execution /\ broken' \in 0 .. Breaks
    BY <1>1, <1>2 DEF wbVars, jobs
  <2> QED
    BY <2>1, SessionKeeps
<1>3. CASE \E j \in Jobs : Submitted(JobStep(j)) \/ Submitted(Break(j))
  <2>1. PICK j \in Jobs : JobStep(j) \/ Break(j)
    BY <1>3 DEF Submitted
  <2> QED
    BY <2>1, GetTaskKeeps, DownloadKeeps, UseLocalKeeps, WorkKeeps, PostLocalKeeps,
       OpenUploadKeeps, EndUploadKeeps, PostDoneKeeps, BreakKeeps DEF JobStep
<1>4. CASE \E c \in DOMAIN identity : Session(c)
  <2>1. PICK c \in DOMAIN identity : Session(c)
    BY <1>4
  <2>2. UNCHANGED setting /\ UNCHANGED execution
    BY <2>1 DEF Session, Connect, Submit, Wait, List, Get, jobs
  <2>3. broken' \in 0 .. Breaks
    <3>1. UNCHANGED broken \/ (broken < Breaks /\ broken' = broken + 1)
      BY <2>1, Connections
    <3> QED
      BY <1>1, <3>1
  <2> QED
    BY <2>2, <2>3, SessionKeeps
<1> QED
  BY <1>2, <1>3, <1>4 DEF WbNext

LEMMA Invariance == WbSpec => []IInv
<1> QED
  BY InitKeeps, NextKeeps, PTL DEF WbSpec

-----------------------------------------------------------------------------
(* What follows from the invariant                                           *)

\* An execution is always at one of its points, it only ever holds whole resources of the
\* jobs before its own, and a product is only ever marked for a component that needs it.
THEOREM TypeCorrect == WbSpec => []TypeOK
<1>1. IInv => TypeOK
  BY DEF IInv, Types, Stage, TypeOK, Executions, Files
<1> QED
  BY <1>1, Invariance, PTL

\* Whatever the artifact, wherever its jobs are and however many connections break: a job
\* that another one waits for is only done when its whole product is on the scheduler.
THEOREM StoredWhenDone == WbSpec => []DoneIsStored
<1>1. IInv => DoneIsStored
  BY OnePoint DEF IInv, DoneIsStored, Ended
<1> QED
  BY <1>1, Invariance, PTL

\* In every artifact whose products each have the scheduler or one client as reader, no
\* resource crosses a connection in clear, and the scheduler has the product of a client in
\* clear only if a job of its own needs it.
THEOREM OnlyReadersRead == WbSpec => []Confidential
<1>1. IInv => Confidential
  <2> SUFFICES ASSUME IInv, Deliverable, NEW j \in Jobs, Client(place[j]), file[j] = Plain
               PROVE  \E k \in graph[j] : place[k] = Self
    BY DEF IInv, Confidential
  <2>1. Sending(j) \/ Ended(j)
    BY DEF IInv, Stage, Unused, Collecting, Uploading, FailedRow, Plain, Absent, Partial, ErrorFile
  <2>2. Plain # Absent /\ place[j] # Self
    BY DEF Plain, Absent, Client
  <2>3. Sending(j) => run[j].todo # graph[j] /\ graph[j] # {}
    BY <2>2 DEF Sending
  <2>4. Ended(j) => graph[j] # {}
    BY <2>2 DEF Ended
  <2>5. Readers(j) \subseteq {Self}
    BY <2>1, <2>3, <2>4 DEF IInv, Private, Plain
  <2> QED
    BY <2>1, <2>3, <2>4, <2>5 DEF Readers
<1> QED
  BY <1>1, Invariance, PTL
=============================================================================
