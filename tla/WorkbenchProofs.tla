-------------------------- MODULE WorkbenchProofs --------------------------
(***************************************************************************)
(* Proofs about what a researcher gets: a deliverable artifact gets           *)
(* everything it needs, and a session is served and shown the result.         *)
(***************************************************************************)
EXTENDS RoutingProofs, FiniteSums

-----------------------------------------------------------------------------
(* No job of a deliverable artifact fails while no connection breaks, for     *)
(* every graph and every placement.  Every request is accepted, for it is      *)
(* signed for the scheduler whatever was left in the exchange; and every       *)
(* input opens, for the one file of a product is encrypted once, for the one   *)
(* component that reads it.                                                  *)

\* The one file of the product of a job, and the one column, are for its one reader.
Sealed(j) == \E c \in Readers(j) : file[j] = Encrypt(Plain, c) /\ encrypted_for[j] = c

Served(j) ==
    /\ run[j].exc.proxy_key \in {NoKey, Self}
    /\ ~(Readers(j) \subseteq {Self}) =>
          /\ Sending(j) /\ run[j].todo # graph[j] => Sealed(j)
          /\ Ended(j) => Sealed(j)
          /\ Uploading(j) => /\ run[j].attached = Encrypt(Plain, place[run[j].to])
                             /\ encrypted_for[j] = place[run[j].to]
    /\ Collecting(j) /\ Client(place[j]) =>
          \A r \in Previous(j) \ run[j].todo : \E d \in got[j] : d[1] = r
    /\ \A d \in got[j] : d[2] = Plain
    /\ broken = 0 => status[j] # "error"

OInv == IInv /\ (Deliverable => \A j \in Jobs : Served(j))

-----------------------------------------------------------------------------
(* Requests                                                                  *)

\* Who reads the products of a deliverable artifact.
LEMMA OneReader ==
    ASSUME IInv, Deliverable, NEW j \in Jobs, NEW k \in graph[j]
    PROVE  /\ k \in Jobs /\ place[k] \in Readers(j)
           /\ Readers(j) \subseteq {Self} => place[k] = Self
           /\ ~(Readers(j) \subseteq {Self}) =>
                 /\ Readers(j) = {place[k]} /\ Client(place[k]) /\ place[k] # place[j]
                 /\ allow_download
                 /\ place[j] = Self => graph[j] = {k}
<1>1. k \in Jobs /\ place[k] \in Readers(j) /\ graph[j] \subseteq Jobs
  BY DEF IInv, Types, Readers
<1>2. ASSUME ~(Readers(j) \subseteq {Self})
      PROVE  /\ Readers(j) = {place[k]} /\ Client(place[k]) /\ place[k] # place[j] /\ allow_download
             /\ place[j] = Self => Cardinality(graph[j]) = 1
  BY <1>1, <1>2 DEF Deliverable, Readers
<1>3. Cardinality(graph[j]) = 1 => graph[j] = {k}
  <2>1. IsFiniteSet(graph[j])
    BY <1>1, RoutingAssumption, FS_Subset
  <2> QED
    BY <2>1, FS_Singleton
<1> QED
  BY <1>1, <1>2, <1>3

\* A product is posted to the scheduler, which accepts it.
LEMMA Posts ==
    ASSUME IInv, Deliverable, NEW j \in Jobs, NEW k \in graph[j], NEW exc \in Exchanges,
           exc.proxy_key \in {NoKey, Self}
    PROVE  LET new == ChangeRoute(exc, place[k], UrlOf(k), ProxyOf(k))
               header == SignedHeaders(new, place[j])
           IN  /\ UrlOf(k) = Self /\ new.proxy_key \in {NoKey, Self}
               /\ new.target = place[k] /\ new.remote_key = place[k]
               /\ Accepted(Self, header) /\ Stores(Self, j, header)
               /\ header.target = place[k]
<1>1. k \in Jobs /\ (place[k] = Self \/ Client(place[k]))
  BY OneReader
<1>2. UrlOf(k) = Self
  BY <1>1 DEF UrlOf
<1>3. CASE place[k] = Self
  BY <1>2, <1>3 DEF ChangeRoute, SignedHeaders, ProxyOf, Client, Accepted, Knows, Stores
<1>4. CASE Client(place[k])
  BY <1>2, <1>4, RoutingAssumption
     DEF ChangeRoute, SignedHeaders, ProxyOf, Client, Accepted, Knows, Stores
<1> QED
  BY <1>1, <1>3, <1>4

\* A product of which something was sent to a client: what the client gets opens, and it
\* is the product.
LEMMA Fetches ==
    ASSUME IInv, Deliverable, NEW j \in Jobs, NEW r \in Previous(j), Client(place[j]),
           Served(r), status[r] = "done", NEW exc \in Exchanges, exc.proxy_key \in {NoKey, Self}
    PROVE  LET new == ChangeRoute(exc, Self, Self, NoKey)
               header == SignedHeaders(new, place[j])
               body == Response(r, place[j])
           IN  /\ new.proxy_key \in {NoKey, Self}
               /\ Accepted(Self, header) /\ MayFetch(r, header)
               /\ Opens(body, place[j]) /\ Decrypt(body, place[j]) = Plain
<1>1. r \in Jobs /\ j \in graph[r] /\ Ended(r)
  BY OnePoint DEF Previous, IInv
<1>2. ~(Readers(r) \subseteq {Self}) /\ Readers(r) = {place[j]} /\ allow_download
  BY <1>1, OneReader DEF Client
<1>3. file[r] = Encrypt(Plain, place[j]) /\ encrypted_for[r] = place[j]
  BY <1>1, <1>2 DEF Served, Sealed
<1>4. Encrypt(Plain, place[j]) = [state |-> "whole", keys |-> <<place[j]>>]
  BY DEF Encrypt, Plain
<1>5. place[j] # NoKey /\ place[j] \in Keys
  BY DEF IInv, Types
<1>6. Response(r, place[j]) = [state |-> "whole", keys |-> <<place[j]>>]
  BY <1>3, <1>4, <1>5 DEF Response
<1>7. Opens(Response(r, place[j]), place[j]) /\ Decrypt(Response(r, place[j]), place[j]) = Plain
  <2>1. Len(<<place[j]>>) = 1 /\ <<place[j]>>[1] = place[j] /\ <<place[j]>> # << >>
    OBVIOUS
  <2>2. SubSeq(<<place[j]>>, 1, 0) = << >>
    BY <1>5
  <2> QED
    BY <1>6, <2>1, <2>2 DEF Opens, Decrypt, Plain
<1>8. /\ ChangeRoute(exc, Self, Self, NoKey).proxy_key \in {NoKey, Self}
      /\ Accepted(Self, SignedHeaders(ChangeRoute(exc, Self, Self, NoKey), place[j]))
  BY DEF ChangeRoute, SignedHeaders, Accepted, Knows
<1>9. MayFetch(r, SignedHeaders(ChangeRoute(exc, Self, Self, NoKey), place[j]))
  BY <1>2, <1>3, <1>4 DEF MayFetch, SignedHeaders
<1> QED
  BY <1>7, <1>8, <1>9

-----------------------------------------------------------------------------
(* The row of one job                                                        *)

\* The point of an execution shows in its pc.
LEMMA Points ==
    ASSUME NEW j \in Jobs
    PROVE  /\ Collecting(j) => run[j].pc = "collect"
           /\ Sending(j) => run[j].pc = "send"
           /\ Uploading(j) => run[j].pc = "upload"
           /\ Ended(j) => run[j].pc = "ended"
BY DEF Collecting, Sending, Uploading, Ended

LEMMA OthersServed ==
    ASSUME IInv, UNCHANGED setting, NEW i \in Jobs, SameRow(i), Served(i), broken' = 0 => broken = 0
    PROVE  Served(i)'
<1>1. /\ graph' = graph /\ place' = place /\ Previous(i)' = Previous(i) /\ Readers(i)' = Readers(i)
      /\ \A k \in Jobs : UrlOf(k)' = UrlOf(k)
  BY DEF setting, Previous, Readers, UrlOf
<1>2. Sending(i)' = Sending(i) /\ Ended(i)' = Ended(i) /\ Sealed(i)' = Sealed(i)
  BY <1>1 DEF SameRow, Sending, Ended, Sealed
<1>3. Uploading(i)' = Uploading(i)
  BY <1>1 DEF SameRow, Uploading, UrlOf, Client
<1>4. Collecting(i)' => Collecting(i)
  BY OnePoint DEF IInv, SameRow, Collecting
<1> QED
  BY <1>1, <1>2, <1>3, <1>4 DEF Served, SameRow, Client

LEMMA OneServed ==
    ASSUME OInv, IInv', UNCHANGED setting, NEW j \in Jobs,
           \A i \in Jobs \ {j} : SameRow(i), broken' = 0 => broken = 0,
           Deliverable => Served(j)'
    PROVE  OInv'
<1>1. Deliverable' = Deliverable
  BY DEF Deliverable, setting, Client
<1>2. Deliverable => \A i \in Jobs : Served(i)'
  BY OthersServed DEF OInv
<1> QED
  BY <1>1, <1>2 DEF OInv

-----------------------------------------------------------------------------
(* Every step serves                                                         *)

LEMMA GetTaskServes == ASSUME OInv, IInv', NEW j \in Jobs, GetTask(j) PROVE OInv'
<1>1. /\ UNCHANGED setting /\ UNCHANGED got /\ UNCHANGED broken
      /\ run'[j].pc = "collect" /\ run'[j].todo = Previous(j) /\ run'[j].exc.proxy_key = NoKey
      /\ status'[j] = "running" /\ Previous(j)' = Previous(j)
  BY DEF GetTask, OInv, IInv, Types, NewRun, NewExchange, ChangeRoute, Previous, setting
<1>2. \A i \in Jobs \ {j} : SameRow(i)
  BY DEF GetTask, SameRow, OInv, IInv, Types
<1>3. Deliverable => Served(j)'
  BY <1>1 DEF Served, OInv, Sending, Ended, Uploading
<1> QED
  BY <1>1, <1>2, <1>3, OneServed

LEMMA UseLocalServes == ASSUME OInv, IInv', NEW j \in Jobs, NEW r \in Jobs, UseLocal(j, r) PROVE OInv'
<1>1. /\ UNCHANGED setting /\ UNCHANGED got /\ UNCHANGED broken /\ UNCHANGED status
      /\ run'[j].pc = "collect" /\ run'[j].exc = run[j].exc /\ ~Client(place[j])'
  BY DEF UseLocal, AvailableLocally, OInv, IInv, Types, Executions, setting, Client
<1>2. \A i \in Jobs \ {j} : SameRow(i)
  BY DEF UseLocal, SameRow, OInv, IInv, Types
<1>3. Deliverable => Served(j)'
  BY <1>1 DEF Served, OInv, Sending, Ended, Uploading
<1> QED
  BY <1>1, <1>2, <1>3, OneServed

LEMMA DownloadServes == ASSUME OInv, IInv', NEW j \in Jobs, NEW r \in Jobs, Download(j, r) PROVE OInv'
<1> DEFINE exc == ChangeRoute(run[j].exc, Self, Self, NoKey)
           body == Response(r, place[j])
<1>1. /\ UNCHANGED setting /\ UNCHANGED encrypted_for /\ UNCHANGED broken
      /\ Client(place[j]) /\ r \in run[j].todo
  BY DEF Download, AvailableLocally
<1>2. \A i \in Jobs \ {j} : SameRow(i)
  BY DEF Download, PostError, SameRow, OInv, IInv, Types
<1>3. ASSUME Deliverable PROVE Served(j)'
  <2>1. Served(j) /\ Served(r) /\ Collecting(j) /\ run[j] \in Executions
    BY <1>3, OnePoint DEF OInv, Download, IInv, Types
  <2>2. r \in Previous(j) /\ status[r] = "done" /\ run[j].exc \in Exchanges
    BY <1>1, <2>1 DEF Collecting, Executions
  <2>3. /\ exc.proxy_key \in {NoKey, Self}
        /\ Accepted(Self, SignedHeaders(exc, place[j])) /\ MayFetch(r, SignedHeaders(exc, place[j]))
        /\ Opens(body, place[j]) /\ Decrypt(body, place[j]) = Plain
    BY <1>1, <1>3, <2>1, <2>2, Fetches DEF OInv, Served
  <2>4. /\ got' = [got EXCEPT ![j] = @ \cup {<<r, Plain>>}]
        /\ run' = [run EXCEPT ![j].exc = exc, ![j].todo = @ \ {r}]
        /\ status' = status
    BY <2>3 DEF Download
  <2>5. run' = [run EXCEPT ![j] = [run[j] EXCEPT !.exc = exc, !.todo = run[j].todo \ {r}]]
    BY <2>4
  <2>6. run'[j].pc = "collect" /\ run'[j].exc = exc /\ run'[j].todo = run[j].todo \ {r}
    BY <2>1, <2>5 DEF Executions, OInv, IInv, Types, Collecting
  <2>7. got'[j] = got[j] \cup {<<r, Plain>>}
    BY <2>4 DEF OInv, IInv, Types
  <2>8. Previous(j)' = Previous(j)
    BY <1>1 DEF setting, Previous
  <2>9. \A q \in Previous(j) \ run'[j].todo : \E d \in got'[j] : d[1] = q
    <3>1. <<r, Plain>> \in got'[j] /\ <<r, Plain>>[1] = r /\ got[j] \subseteq got'[j]
      BY <2>7
    <3>2. \A q \in Previous(j) \ run[j].todo : \E d \in got[j] : d[1] = q
      BY <1>1, <2>1 DEF Served
    <3> QED
      BY <2>6, <3>1, <3>2
  <2>10. \A d \in got'[j] : d[2] = Plain
    BY <2>1, <2>7 DEF Served
  <2>11. broken' = 0 => status'[j] # "error"
    BY <1>1, <2>1, <2>4 DEF Served
  <2> QED
    BY <2>3, <2>6, <2>8, <2>9, <2>10, <2>11 DEF Served, Sending, Ended, Uploading
<1> QED
  BY <1>1, <1>2, <1>3, OneServed

\* Every input is the product of its job.
LEMMA Inputs ==
    ASSUME OInv, Deliverable, NEW j \in Jobs, Collecting(j), run[j].todo = {}, NEW r \in Previous(j)
    PROVE  Input(j, r) = Plain
<1>1. r \in Jobs /\ j \in graph[r] /\ Ended(r) /\ Private(r)
  BY OnePoint DEF Previous, Collecting, OInv, IInv
<1>2. CASE AvailableLocally(j)
  <2>1. Readers(r) \subseteq {Self}
    BY <1>1, <1>2, OneReader DEF OInv, AvailableLocally
  <2>2. file[r] \in {Plain, Absent} /\ file[r].state = "whole"
    BY <1>1, <2>1 DEF Private, Ended
  <2> QED
    BY <1>2, <2>2 DEF Input, Absent
<1>3. CASE ~AvailableLocally(j)
  <2>1. /\ \E d \in got[j] : d[1] = r
        /\ \A d \in got[j] : d[2] = Plain
    BY <1>3 DEF OInv, Served, AvailableLocally
  <2> QED
    BY <1>3, <2>1 DEF Input
<1> QED
  BY <1>2, <1>3

LEMMA WorkServes == ASSUME OInv, IInv', NEW j \in Jobs, Work(j) PROVE OInv'
<1>1. UNCHANGED setting /\ UNCHANGED encrypted_for /\ UNCHANGED broken /\ UNCHANGED got
  BY DEF Work
<1>2. \A i \in Jobs \ {j} : SameRow(i)
  BY DEF Work, PostError, SameRow, OInv, IInv, Types
<1>3. ASSUME Deliverable PROVE Served(j)'
  <2>1. Served(j) /\ Collecting(j) /\ run[j] \in Executions /\ run[j].todo = {}
    BY <1>3, OnePoint DEF OInv, Work, IInv, Types
  <2>2. \A r \in Previous(j) : Input(j, r) = Plain
    BY <1>3, <2>1, Inputs
  <2>3. /\ run' = [run EXCEPT ![j] = [run[j] EXCEPT !.pc = "send", !.todo = graph[j]]]
        /\ status' = status
    BY <2>2 DEF Work
  <2>4. run'[j].pc = "send" /\ run'[j].exc = run[j].exc /\ run'[j].todo = graph'[j]
    BY <1>1, <2>1, <2>3 DEF Executions, OInv, IInv, Types, setting
  <2> QED
    BY <1>1, <2>1, <2>3, <2>4 DEF Served, Collecting, Ended, Uploading
<1> QED
  BY <1>1, <1>2, <1>3, OneServed

LEMMA PostLocalServes == ASSUME OInv, IInv', NEW j \in Jobs, NEW k \in Jobs, PostLocal(j, k) PROVE OInv'
<1> DEFINE exc == ChangeRoute(run[j].exc, place[k], UrlOf(k), ProxyOf(k))
           header == SignedHeaders(exc, place[j])
<1>1. /\ UNCHANGED setting /\ UNCHANGED got /\ UNCHANGED broken /\ place[k] = place[j]
      /\ k \in run[j].todo
  BY DEF PostLocal
<1>2. Sending(j) /\ run[j] \in Executions /\ run[j].exc \in Exchanges /\ k \in graph[j]
  BY <1>1, OnePoint DEF PostLocal, OInv, IInv, Types, Sending, Executions
<1>3. \A i \in Jobs \ {j} : SameRow(i)
  BY <1>2, Recorded DEF PostLocal, PostError, SetEncryptedFor, SameRow, OInv, IInv, Types
<1>4. ASSUME Deliverable PROVE Served(j)'
  <2>1. Served(j) /\ Private(j)
    BY <1>4 DEF OInv, IInv
  <2>2. Readers(j) \subseteq {Self} /\ place[k] = Self
    BY <1>1, <1>2, <1>4, OneReader DEF OInv
  <2>3. file[j].state # "absent"
    BY <1>1, <1>2, <2>2 DEF Sending, Plain
  <2>4. /\ UrlOf(k) = Self /\ exc.proxy_key \in {NoKey, Self}
        /\ Accepted(Self, header) /\ Stores(Self, j, header)
    BY <1>2, <1>4, <2>1, Posts DEF OInv, Served
  <2>5. /\ run' = [run EXCEPT ![j].exc = exc, ![j].todo = @ \ {k}]
        /\ status' = status
    BY <2>3, <2>4 DEF PostLocal
  <2>6. run'[j].pc = "send" /\ run'[j].exc = exc
    BY <1>2, <2>5 DEF Executions, OInv, IInv, Types, Sending
  <2>7. Readers(j)' \subseteq {Self}
    BY <1>1, <2>2 DEF Readers, setting
  <2> QED
    BY <1>1, <2>1, <2>4, <2>5, <2>6, <2>7 DEF Served, Collecting
<1> QED
  BY <1>1, <1>3, <1>4, OneServed

LEMMA OpenUploadServes == ASSUME OInv, IInv', NEW j \in Jobs, NEW k \in Jobs, OpenUpload(j, k) PROVE OInv'
<1> DEFINE exc == ChangeRoute(run[j].exc, place[k], UrlOf(k), ProxyOf(k))
           header == SignedHeaders(exc, place[j])
           body == Attached(j, exc)
<1>1. UNCHANGED setting /\ UNCHANGED got /\ UNCHANGED broken /\ k \in run[j].todo
  BY DEF OpenUpload
<1>2. Sending(j) /\ run[j] \in Executions /\ run[j].exc \in Exchanges /\ k \in graph[j]
  BY <1>1, OnePoint DEF OpenUpload, OInv, IInv, Types, Sending, Executions
<1>3. \A i \in Jobs \ {j} : SameRow(i)
  BY <1>2 DEF OpenUpload, PostError, SetEncryptedFor, SameRow, OInv, IInv, Types
<1>4. ASSUME Deliverable PROVE Served(j)'
  <2>1. Served(j) /\ IInv
    BY <1>4 DEF OInv
  <2>2. /\ UrlOf(k) = Self /\ exc.proxy_key \in {NoKey, Self}
        /\ exc.remote_key = place[k] /\ header.target = place[k]
        /\ Accepted(Self, header) /\ Stores(Self, j, header)
    BY <1>2, <1>4, <2>1, Posts DEF Served
  <2>3. /\ SetEncryptedFor(j, Self, header) /\ status' = status
        /\ run' = [run EXCEPT ![j] = [@ EXCEPT !.pc = "upload", !.exc = exc, !.to = k,
                                               !.attached = body]]
    BY <2>2 DEF OpenUpload
  <2>4. /\ run'[j].pc = "upload" /\ run'[j].exc = exc /\ run'[j].to = k
        /\ run'[j].attached = body
    BY <1>2, <2>3 DEF Executions, OInv, IInv, Types
  <2>5. Readers(j)' = Readers(j) /\ place' = place
    BY <1>1 DEF Readers, setting
  <2>6. ASSUME ~(Readers(j) \subseteq {Self})
        PROVE  body = Encrypt(Plain, place[k]) /\ encrypted_for'[j] = place[k]
    <3>1. place[k] # Self /\ (place[j] = Self => graph[j] = {k})
      BY <1>2, <1>4, <2>1, <2>6, OneReader DEF Client
    <3>2. Product(j) = Plain
      <4>1. CASE place[j] = Self
        <5>1. run[j].todo = graph[j]
          BY <1>1, <1>2, <3>1, <4>1 DEF Sending
        <5> QED
          BY <1>2, <4>1, <5>1 DEF Sending, Product
      <4>2. CASE place[j] # Self
        BY <4>2 DEF Product
      <4> QED
        BY <4>1, <4>2
    <3>3. Proxied(Self, header)
      BY <2>2, <3>1 DEF Proxied
    <3>4. encrypted_for' = [encrypted_for EXCEPT ![j] = place[k]]
      BY <2>2, <2>3, <3>3 DEF SetEncryptedFor
    <3> QED
      BY <2>1, <2>2, <3>2, <3>4 DEF Attached, IInv, Types
  <2> QED
    BY <1>1, <2>1, <2>2, <2>3, <2>4, <2>5, <2>6 DEF Served, Collecting, Sending, Ended
<1> QED
  BY <1>1, <1>3, <1>4, OneServed

LEMMA EndUploadServes == ASSUME OInv, IInv', NEW j \in Jobs, EndUpload(j) PROVE OInv'
<1> DEFINE to == run[j].to
<1>1. /\ UNCHANGED setting /\ UNCHANGED got /\ UNCHANGED broken /\ UNCHANGED status
      /\ UNCHANGED encrypted_for
      /\ run' = [run EXCEPT ![j].pc = "send", ![j].todo = @ \ {run[j].to},
                            ![j].to = NoKey, ![j].attached = Absent]
  BY DEF EndUpload
<1>2. Uploading(j) /\ run[j] \in Executions /\ to \in graph[j]
  BY OnePoint DEF EndUpload, OInv, IInv, Types, Uploading
<1>3. \A i \in Jobs \ {j} : SameRow(i)
  BY DEF EndUpload, SameRow, OInv, IInv, Types
<1>4. run'[j].pc = "send" /\ run'[j].exc = run[j].exc
  BY <1>1, <1>2 DEF Executions, OInv, IInv, Types
<1>5. Readers(j)' = Readers(j) /\ place' = place
  BY <1>1 DEF Readers, setting
<1>6. ASSUME Deliverable PROVE Served(j)'
  <2>1. Served(j) /\ IInv
    BY <1>6 DEF OInv
  <2>2. ASSUME ~(Readers(j) \subseteq {Self}) PROVE Sealed(j)'
    <3>1. place[to] # Self /\ place[to] \in Readers(j)
      BY <1>2, <1>6, <2>1, <2>2, OneReader DEF Client
    <3>2. file' = [file EXCEPT ![j] = run[j].attached]
      BY <1>2, <3>1 DEF EndUpload, Uploading, Proxied, SignedHeaders
    <3>3. file'[j] = Encrypt(Plain, place[to]) /\ encrypted_for'[j] = place[to]
      BY <1>1, <1>2, <2>1, <2>2, <3>2 DEF Served, IInv, Types
    <3> QED
      BY <1>5, <3>1, <3>3 DEF Sealed
  <2> QED
    BY <1>1, <1>4, <1>5, <2>1, <2>2 DEF Served, Collecting, Ended, Uploading
<1> QED
  BY <1>1, <1>3, <1>6, OneServed

LEMMA PostDoneServes == ASSUME OInv, IInv', NEW j \in Jobs, PostDone(j) PROVE OInv'
<1>1. /\ UNCHANGED setting /\ UNCHANGED got /\ UNCHANGED broken /\ UNCHANGED file
      /\ UNCHANGED encrypted_for /\ Sending(j) /\ run[j].todo = {}
  BY OnePoint DEF PostDone, OInv, IInv
<1>2. run'[j].pc = "ended" /\ run'[j].exc.proxy_key = NoKey /\ status'[j] = "done"
  BY DEF PostDone, NewRun, NewExchange, OInv, IInv, Types
<1>3. \A i \in Jobs \ {j} : SameRow(i)
  BY DEF PostDone, SameRow, OInv, IInv, Types
<1>4. Readers(j)' = Readers(j) /\ Sealed(j)' = Sealed(j)
  BY <1>1 DEF Readers, Sealed, setting
<1>5. ~(Readers(j) \subseteq {Self}) => graph[j] # {}
  BY DEF Readers
<1>6. Deliverable => Served(j)'
  BY <1>1, <1>2, <1>4, <1>5 DEF Served, OInv, Collecting, Sending, Uploading
<1> QED
  BY <1>1, <1>3, <1>6, OneServed

LEMMA BreakServes == ASSUME OInv, IInv', NEW j \in Jobs, Break(j) PROVE OInv'
<1>1. UNCHANGED setting /\ UNCHANGED got /\ broken' # 0
  BY DEF Break, OInv, IInv, Types
<1>2. run'[j].pc = "failed" /\ run'[j].exc.proxy_key = NoKey
  BY DEF Break, PostError, NewRun, NewExchange, OInv, IInv, Types
<1>3. \A i \in Jobs \ {j} : SameRow(i)
  BY DEF Break, PostError, SameRow, OInv, IInv, Types
<1>4. Deliverable => Served(j)'
  BY <1>1, <1>2 DEF Served, OInv, Collecting, Sending, Uploading, Ended
<1> QED
  BY <1>1, <1>3, <1>4, OneServed

-----------------------------------------------------------------------------
(* The theorem                                                               *)

LEMMA OutcomeInit == WbInit => OInv
<1> SUFFICES ASSUME WbInit PROVE OInv
  OBVIOUS
<1>1. \A j \in Jobs : /\ run[j].pc = "none" /\ run[j].exc.proxy_key = NoKey
                      /\ got[j] = {} /\ status[j] = "waiting"
  BY DEF WbInit, Init, NewRun, NewExchange
<1>2. \A j \in Jobs : Served(j)
  BY <1>1 DEF Served, Collecting, Sending, Uploading, Ended
<1> QED
  BY <1>2, InitKeeps DEF OInv

LEMMA OutcomeNext == OInv /\ [WbNext]_wbVars => OInv'
<1> SUFFICES ASSUME OInv, [WbNext]_wbVars PROVE OInv'
  OBVIOUS
<1>1. IInv'
  BY NextKeeps DEF OInv
<1>2. CASE \E j \in Jobs : Submitted(JobStep(j)) \/ Submitted(Break(j))
  <2>1. PICK j \in Jobs : JobStep(j) \/ Break(j)
    BY <1>2 DEF Submitted
  <2> QED
    BY <1>1, <2>1, GetTaskServes, DownloadServes, UseLocalServes, WorkServes, PostLocalServes,
       OpenUploadServes, EndUploadServes, PostDoneServes, BreakServes DEF JobStep
<1>3. ASSUME UNCHANGED setting, UNCHANGED execution, broken' = 0 => broken = 0 PROVE OInv'
  <2>1. \A i \in Jobs : SameRow(i)
    BY <1>3 DEF SameRow, execution
  <2>2. Deliverable' = Deliverable
    BY <1>3 DEF Deliverable, setting, Client
  <2>3. Deliverable => \A i \in Jobs : Served(i)'
    BY <1>3, <2>1, OthersServed DEF OInv
  <2> QED
    BY <1>1, <2>2, <2>3 DEF OInv
<1>4. CASE UNCHANGED wbVars
  BY <1>3, <1>4 DEF wbVars, jobs
<1>5. CASE \E c \in DOMAIN identity : Session(c)
  <2>1. PICK c \in DOMAIN identity : Session(c)
    BY <1>5
  <2>2. UNCHANGED setting /\ UNCHANGED execution
    BY <2>1 DEF Session, Connect, Submit, Wait, List, Get, jobs
  <2>3. UNCHANGED broken \/ (broken < Breaks /\ broken' = broken + 1)
    BY <2>1, Connections
  <2>4. broken' = 0 => broken = 0
    BY <2>3 DEF OInv, IInv, Types
  <2> QED
    BY <1>3, <2>2, <2>4
<1> QED
  BY <1>2, <1>4, <1>5 DEF WbNext

\* In every deliverable artifact, whatever its graph and wherever its jobs are: while no
\* connection breaks, every request is accepted, every input opens, and no job fails.
THEOREM DeliverableNeverFails == WbSpec => []NothingFails
<1>1. OInv => NothingFails
  BY DEF OInv, NothingFails, Served
<1> QED
  BY <1>1, OutcomeInit, OutcomeNext, PTL DEF WbSpec

-----------------------------------------------------------------------------
(* The other direction, for every acyclic graph: an artifact that is not       *)
(* deliverable fails.  A product keeps the traces of all the jobs that it was  *)
(* sent for, in its column and in the keys on its file, and an execution that  *)
(* has worked has found in each of its inputs the traces that suit it.         *)

\* The next jobs that the product has been sent for, the one that it is being sent for
\* included.
Sent(j) ==
    IF run[j].pc = "send" THEN graph[j] \ run[j].todo
    ELSE IF run[j].pc = "upload" THEN (graph[j] \ run[j].todo) \cup {run[j].to}
    ELSE IF run[j].pc = "ended" THEN graph[j]
    ELSE {}

Past(j) == run[j].pc \in {"send", "upload", "ended"}

\* The keys on the product as it was last sent.
Seals(j) == IF run[j].pc = "upload" THEN run[j].attached.keys ELSE file[j].keys

\* What the sending of a product leaves behind.
Traces(j) ==
    /\ \A k \in Sent(j) : place[k] = Self \/ Client(place[k])
    /\ \A k \in Sent(j) : Client(place[k]) => encrypted_for[j] # NoKey
    /\ Past(j) /\ place[j] # Self /\ file[j].state = "whole" =>
          \E k \in graph[j] : place[k] # place[j]
    /\ place[j] = Self =>
          \A k \in Sent(j) : Client(place[k]) =>
             /\ Seals(j) # << >>
             /\ \A i \in Sent(j) : Client(place[i]) /\ i # k => Len(Seals(j)) > 1

\* The product of r was of use to a client.
Openable(r, c) ==
    /\ allow_download /\ encrypted_for[r] \in {NoKey, c}
    /\ encrypted_for[r] # NoKey => Len(file[r].keys) = 1

\* What the inputs of a job have been.
Finds(j) ==
    /\ \A d \in got[j] : /\ status[d[1]] = "done"
                         /\ d[2] = Plain => Openable(d[1], place[j])
    /\ run[j].pc = "collect" /\ Client(place[j]) =>
          \A r \in Previous(j) \ run[j].todo : \E d \in got[j] : d[1] = r
    /\ Past(j) => \A r \in Previous(j) :
          /\ status[r] = "done"
          /\ IF Client(place[j]) THEN Openable(r, place[j]) ELSE file[r] = Plain

TInv == IInv /\ graph \in Graphs /\ \A j \in Jobs : Traces(j) /\ Finds(j)

-----------------------------------------------------------------------------
(* What is done stays as it is, and so does what was found in it             *)

Kept == \A r \in Jobs : status[r] = "done" =>
            /\ status'[r] = "done" /\ file'[r] = file[r] /\ encrypted_for'[r] = encrypted_for[r]

\* A row that does not change keeps its traces: what it found is done.
LEMMA OthersTraced ==
    ASSUME IInv, UNCHANGED setting, Kept, NEW i \in Jobs, SameRow(i), Traces(i), Finds(i)
    PROVE  Traces(i)' /\ Finds(i)'
<1>1. /\ graph' = graph /\ place' = place /\ allow_download' = allow_download
      /\ Previous(i)' = Previous(i) /\ Previous(i) \subseteq Jobs
  BY DEF setting, Previous
<1>2. Sent(i)' = Sent(i) /\ Seals(i)' = Seals(i) /\ Past(i)' = Past(i)
  BY <1>1 DEF SameRow, Sent, Seals, Past
<1>3. \A c : Client(c)' = Client(c)
  BY DEF Client
<1>4. Traces(i)'
  BY <1>1, <1>2, <1>3 DEF SameRow, Traces, Client
<1>5. \A r \in Jobs : status[r] = "done" => (Openable(r, place[i]) => Openable(r, place[i])')
  BY <1>1 DEF Kept, Openable
<1>6. \A d \in got[i] : d[1] \in Jobs
  BY DEF IInv, Types
<1>7. \A d \in got'[i] : status'[d[1]] = "done" /\ (d[2] = Plain => Openable(d[1], place[i])')
  BY <1>5, <1>6 DEF SameRow, Finds, Kept
<1>8. Past(i)' => \A r \in Previous(i)' :
          /\ status'[r] = "done"
          /\ IF Client(place[i])' THEN Openable(r, place[i])' ELSE file'[r] = Plain
  BY <1>1, <1>2, <1>5 DEF Finds, Kept, Client
<1> QED
  BY <1>1, <1>4, <1>7, <1>8 DEF Finds, SameRow, Client, Openable

\* It is enough to look at the row that changes.
LEMMA OneTraced ==
    ASSUME TInv, IInv', UNCHANGED setting, NEW j \in Jobs, status[j] # "done",
           \A i \in Jobs \ {j} : SameRow(i), Traces(j)', Finds(j)'
    PROVE  TInv'
<1>1. Kept
  BY DEF Kept, SameRow
<1>2. \A i \in Jobs : Traces(i)' /\ Finds(i)'
  BY <1>1, OthersTraced DEF TInv
<1> QED
  BY <1>2 DEF TInv, setting

\* What has been downloaded stays as it is.
LEMMA GotKept ==
    ASSUME TInv, UNCHANGED setting, NEW j \in Jobs, status[j] # "done",
           \A i \in Jobs \ {j} : SameRow(i), NEW d \in got[j]
    PROVE  status'[d[1]] = "done" /\ (d[2] = Plain => Openable(d[1], place[j])')
<1>1. d[1] \in Jobs /\ status[d[1]] = "done" /\ d[1] # j
  BY DEF TInv, IInv, Types, Finds
<1> QED
  BY <1>1 DEF TInv, Finds, Openable, SameRow, setting

\* A failed execution leaves nothing to say.
LEMMA ErrorsTraced ==
    ASSUME TInv, IInv', UNCHANGED setting, NEW j \in Jobs, status[j] # "done",
           \A i \in Jobs \ {j} : SameRow(i), PostError(j),
           \A d \in got'[j] : d \in got[j]
    PROVE  TInv'
<1>1. run'[j].pc = "failed"
  BY DEF PostError, NewRun, TInv, IInv, Types
<1>2. Traces(j)'
  BY <1>1 DEF Traces, Sent, Past
<1>3. Finds(j)'
  BY <1>1, GotKept DEF Finds, Past
<1> QED
  BY <1>2, <1>3, OneTraced

-----------------------------------------------------------------------------
(* Every step leaves its traces                                              *)

\* An execution starts with nothing found and nothing sent.
LEMMA GetTaskTraces == ASSUME TInv, IInv', NEW j \in Jobs, GetTask(j) PROVE TInv'
<1>1. /\ UNCHANGED setting /\ UNCHANGED got
      /\ run'[j].pc = "collect" /\ run'[j].todo = Previous(j)
      /\ Previous(j)' = Previous(j) /\ status[j] # "done"
  BY DEF GetTask, TInv, IInv, Types, NewRun, Previous, setting
<1>2. \A i \in Jobs \ {j} : SameRow(i)
  BY DEF GetTask, SameRow, TInv, IInv, Types
<1>3. Traces(j)'
  BY <1>1 DEF Traces, Sent, Past
<1>4. \A d \in got'[j] : status'[d[1]] = "done" /\ (d[2] = Plain => Openable(d[1], place[j])')
  BY <1>1, <1>2, GotKept
<1>5. Finds(j)'
  BY <1>1, <1>4 DEF Finds, Past
<1> QED
  BY <1>1, <1>2, <1>3, <1>5, OneTraced

\* What is used from the disk is looked at when the execution works.
LEMMA UseLocalTraces == ASSUME TInv, IInv', NEW j \in Jobs, NEW r \in Jobs, UseLocal(j, r) PROVE TInv'
<1>1. /\ UNCHANGED setting /\ UNCHANGED got /\ UNCHANGED status
      /\ run'[j].pc = "collect" /\ ~Client(place[j])' /\ status[j] # "done"
  BY OnePoint DEF UseLocal, AvailableLocally, TInv, IInv, Types, Executions, setting, Client, Collecting
<1>2. \A i \in Jobs \ {j} : SameRow(i)
  BY DEF UseLocal, SameRow, TInv, IInv, Types
<1>3. Traces(j)'
  BY <1>1 DEF Traces, Sent, Past
<1>4. \A d \in got'[j] : status'[d[1]] = "done" /\ (d[2] = Plain => Openable(d[1], place[j])')
  BY <1>1, <1>2, GotKept
<1>5. Finds(j)'
  BY <1>1, <1>4 DEF Finds, Past
<1> QED
  BY <1>1, <1>2, <1>3, <1>5, OneTraced

\* What opens to the product had been encrypted once, or not at all and for nobody.
LEMMA OpensToProduct ==
    ASSUME IInv, NEW j \in Jobs, NEW r \in Jobs, NEW exc,
           MayFetch(r, SignedHeaders(exc, place[j])),
           Opens(Response(r, place[j]), place[j]),
           Decrypt(Response(r, place[j]), place[j]) = Plain
    PROVE  Openable(r, place[j])
<1>1. allow_download /\ encrypted_for[r] \in {NoKey, place[j]}
  BY DEF MayFetch, SignedHeaders
<1>2. ASSUME encrypted_for[r] # NoKey PROVE Len(file[r].keys) = 1
  <2>1. Response(r, place[j]) = file[r] /\ file[r].keys \in Seq(Keys)
    BY <1>2 DEF Response, IInv, Types, Files
  <2> DEFINE keys == file[r].keys
  <2>2. keys # << >> /\ SubSeq(keys, 1, Len(keys) - 1) = << >>
    BY <2>1 DEF Opens, Decrypt, Plain, IInv, Types, Files
  <2>3. Len(keys) \in Nat /\ keys \in Seq(Keys)
    BY <2>1
  <2>4. Len(keys) # 0
    BY <2>2, <2>3
  <2>5. Len(SubSeq(keys, 1, Len(keys) - 1)) = Len(keys) - 1
    BY <2>3, <2>4
  <2>6. Len(keys) - 1 = 0
    BY <2>2, <2>5
  <2> HIDE DEF keys
  <2>7. Len(keys) = 1
    BY <2>3, <2>6
  <2> QED
    BY <2>7 DEF keys
<1> QED
  BY <1>1, <1>2 DEF Openable

\* What a client has downloaded, and can use, was openable.
LEMMA DownloadTraces == ASSUME TInv, IInv', NEW j \in Jobs, NEW r \in Jobs, Download(j, r) PROVE TInv'
<1> DEFINE exc == ChangeRoute(run[j].exc, Self, Self, NoKey)
           body == Response(r, place[j])
<1>1. /\ UNCHANGED setting /\ UNCHANGED encrypted_for /\ r \in run[j].todo
      /\ Collecting(j) /\ run[j] \in Executions
  BY OnePoint DEF Download, TInv, IInv, Types
<1>2. \A i \in Jobs \ {j} : SameRow(i)
  BY DEF Download, PostError, SameRow, TInv, IInv, Types
<1>3. status[j] # "done" /\ r \in Previous(j) /\ status[r] = "done" /\ r # j
  BY <1>1 DEF Collecting
<1>4. CASE PostError(j) /\ got' = got
  BY <1>1, <1>2, <1>3, <1>4, ErrorsTraced
<1>5. CASE /\ MayFetch(r, SignedHeaders(exc, place[j])) /\ Opens(body, place[j])
           /\ got' = [got EXCEPT ![j] = @ \cup {<<r, Decrypt(body, place[j])>>}]
           /\ run' = [run EXCEPT ![j].exc = exc, ![j].todo = @ \ {r}]
           /\ UNCHANGED <<status, file>>
  <2>1. run' = [run EXCEPT ![j] = [run[j] EXCEPT !.exc = exc, !.todo = run[j].todo \ {r}]]
    BY <1>5
  <2>2. run'[j].pc = "collect" /\ run'[j].todo = run[j].todo \ {r}
    BY <1>1, <2>1 DEF Executions, TInv, IInv, Types, Collecting
  <2>3. got'[j] = got[j] \cup {<<r, Decrypt(body, place[j])>>}
    BY <1>5 DEF TInv, IInv, Types
  <2>4. Decrypt(body, place[j]) = Plain => Openable(r, place[j])
    BY <1>5, OpensToProduct DEF TInv
  <2>5. Openable(r, place[j]) => Openable(r, place[j])'
    BY <1>1, <1>5 DEF Openable, setting
  <2>6. ASSUME NEW d \in got'[j]
        PROVE  status'[d[1]] = "done" /\ (d[2] = Plain => Openable(d[1], place[j])')
    <3>1. CASE d \in got[j]
      BY <1>1, <1>2, <1>3, <3>1, GotKept
    <3>2. CASE d = <<r, Decrypt(body, place[j])>>
      <4>1. d[1] = r /\ d[2] = Decrypt(body, place[j])
        BY <3>2
      <4> QED
        BY <1>3, <1>5, <2>4, <2>5, <4>1
    <3> QED
      BY <2>3, <3>1, <3>2
  <2>7. Previous(j)' = Previous(j) /\ place' = place
    BY <1>1 DEF setting, Previous
  <2>8. Client(place[j]) => \A q \in Previous(j) \ run'[j].todo : \E d \in got'[j] : d[1] = q
    <3>1. <<r, Decrypt(body, place[j])>> \in got'[j] /\ <<r, Decrypt(body, place[j])>>[1] = r
          /\ got[j] \subseteq got'[j]
      BY <2>3
    <3>2. Client(place[j]) => \A q \in Previous(j) \ run[j].todo : \E d \in got[j] : d[1] = q
      BY <1>1 DEF TInv, Finds, Collecting
    <3> QED
      BY <2>2, <3>1, <3>2
  <2>9. Finds(j)'
    BY <2>2, <2>6, <2>7, <2>8 DEF Finds, Past, Client
  <2>10. Traces(j)'
    BY <2>2 DEF Traces, Sent, Past
  <2> QED
    BY <1>1, <1>2, <1>3, <2>9, <2>10, OneTraced
<1> QED
  BY <1>4, <1>5 DEF Download

\* A job only works with the products of the jobs before it.
LEMMA WorkTraces == ASSUME TInv, IInv', NEW j \in Jobs, Work(j) PROVE TInv'
<1>1. /\ UNCHANGED setting /\ UNCHANGED encrypted_for /\ UNCHANGED got
      /\ Collecting(j) /\ run[j] \in Executions /\ run[j].todo = {}
  BY OnePoint DEF Work, TInv, IInv, Types
<1>2. \A i \in Jobs \ {j} : SameRow(i)
  BY DEF Work, PostError, SameRow, TInv, IInv, Types
<1>3. status[j] # "done" /\ \A r \in Previous(j) : r \in Jobs /\ status[r] = "done" /\ r # j
  BY <1>1 DEF Collecting, Previous
<1>4. CASE PostError(j)
  BY <1>1, <1>2, <1>3, <1>4, ErrorsTraced
<1>5. CASE /\ \A r \in Previous(j) : Input(j, r) = Plain
           /\ run' = [run EXCEPT ![j].pc = "send", ![j].todo = graph[j]]
           /\ file' = IF place[j] = Self THEN [file EXCEPT ![j] = Plain] ELSE file
           /\ UNCHANGED status
  <2>1. run' = [run EXCEPT ![j] = [run[j] EXCEPT !.pc = "send", !.todo = graph[j]]]
    BY <1>5
  <2>2. run'[j].pc = "send" /\ run'[j].todo = graph[j]
    BY <1>1, <2>1 DEF Executions, TInv, IInv, Types
  <2>3. /\ place' = place /\ graph' = graph /\ Previous(j)' = Previous(j)
        /\ Client(place[j])' = Client(place[j]) /\ allow_download' = allow_download
    BY <1>1 DEF setting, Previous, Client
  <2>4. Sent(j)' = {}
    BY <2>2, <2>3 DEF Sent
  <2>5. place[j] # Self => file'[j].state # "whole"
    BY <1>1, <1>5 DEF Collecting, Absent
  <2>6. Traces(j)'
    BY <2>3, <2>4, <2>5 DEF Traces
  <2>7. ASSUME NEW r \in Previous(j)
        PROVE  IF Client(place[j]) THEN Openable(r, place[j])' ELSE file'[r] = Plain
    <3>1. r \in Jobs /\ r # j /\ file'[r] = file[r] /\ encrypted_for'[r] = encrypted_for[r]
      BY <1>2, <1>3 DEF SameRow
    <3>2. CASE Client(place[j])
      <4>1. \E d \in got[j] : d[1] = r
        BY <1>1, <3>2 DEF TInv, Finds, Collecting
      <4>2. PICK d \in got[j] : d[1] = r /\ d[2] = Plain
        BY <1>5, <3>2, <4>1 DEF Input, AvailableLocally
      <4>3. Openable(r, place[j])
        BY <4>2 DEF TInv, Finds
      <4> QED
        BY <2>3, <3>1, <3>2, <4>3 DEF Openable
    <3>3. CASE ~Client(place[j])
      BY <1>5, <3>1, <3>3 DEF Input, AvailableLocally
    <3> QED
      BY <3>2, <3>3
  <2>8. \A d \in got'[j] : status'[d[1]] = "done" /\ (d[2] = Plain => Openable(d[1], place[j])')
    BY <1>1, <1>2, <1>3, GotKept
  <2>9. Finds(j)'
    BY <1>3, <1>5, <2>2, <2>3, <2>7, <2>8 DEF Finds
  <2> QED
    BY <1>1, <1>2, <1>3, <2>6, <2>9, OneTraced
<1> QED
  BY <1>4, <1>5 DEF Work

\* What the inputs have been does not change any more.
LEMMA FindsKept ==
    ASSUME TInv, UNCHANGED setting, UNCHANGED got, NEW j \in Jobs, status[j] # "done",
           \A i \in Jobs \ {j} : SameRow(i), Past(j), Past(j)'
    PROVE  Finds(j)'
<1>1. /\ place' = place /\ Previous(j)' = Previous(j) /\ Client(place[j])' = Client(place[j])
      /\ allow_download' = allow_download /\ Previous(j) \subseteq Jobs
  BY DEF setting, Previous, Client
<1>2. \A r \in Previous(j) : r # j /\ status[r] = "done"
  BY DEF TInv, Finds
<1>3. \A r \in Previous(j) :
          /\ status'[r] = "done" /\ file'[r] = file[r]
          /\ Openable(r, place[j]) => Openable(r, place[j])'
  BY <1>1, <1>2 DEF SameRow, Openable
<1>4. \A r \in Previous(j) : IF Client(place[j]) THEN Openable(r, place[j])' ELSE file'[r] = Plain
  BY <1>3 DEF TInv, Finds
<1>5. \A d \in got'[j] : status'[d[1]] = "done" /\ (d[2] = Plain => Openable(d[1], place[j])')
  BY GotKept
<1> QED
  BY <1>1, <1>3, <1>4, <1>5 DEF Finds, Past

\* What is posted is marked for its target unless that is the scheduler.
LEMMA Marked ==
    ASSUME IInv, NEW j \in Jobs, NEW k \in graph[j], NEW header, header.target = place[k],
           Stores(UrlOf(k), j, header), SetEncryptedFor(j, UrlOf(k), header)
    PROVE  /\ k \in Jobs /\ UrlOf(k) = Self /\ (place[k] = Self \/ Client(place[k]))
           /\ \A i \in Jobs \ {j} : encrypted_for'[i] = encrypted_for[i]
           /\ encrypted_for'[j] = IF Client(place[k]) THEN place[k] ELSE encrypted_for[j]
           /\ place[k] # NoKey
<1>1. k \in Jobs /\ UrlOf(k) = Self /\ place[k] # NoKey
  BY DEF IInv, Types, Stores
<1>2. place[k] = Self \/ Client(place[k])
  BY <1>1 DEF UrlOf
<1>3. Proxied(UrlOf(k), header) <=> Client(place[k])
  BY <1>1, <1>2 DEF Proxied, Client
<1>4. encrypted_for' = IF Client(place[k]) THEN [encrypted_for EXCEPT ![j] = place[k]]
                                           ELSE encrypted_for
  BY <1>3 DEF SetEncryptedFor
<1> QED
  BY <1>1, <1>2, <1>4 DEF IInv, Types

\* A post without a file leaves the keys as they are, but it may be for a client.
LEMMA PostLocalTraces == ASSUME TInv, IInv', NEW j \in Jobs, NEW k \in Jobs, PostLocal(j, k) PROVE TInv'
<1> DEFINE exc == ChangeRoute(run[j].exc, place[k], UrlOf(k), ProxyOf(k))
           header == SignedHeaders(exc, place[j])
<1>1. /\ UNCHANGED setting /\ UNCHANGED got /\ place[k] = place[j] /\ k \in run[j].todo
      /\ Sending(j) /\ run[j] \in Executions /\ k \in graph[j] /\ status[j] # "done"
      /\ header.target = place[k]
  BY OnePoint DEF PostLocal, TInv, IInv, Types, Sending, ChangeRoute, SignedHeaders
<1>2. \A i \in Jobs \ {j} : SameRow(i)
  BY <1>1, Recorded DEF PostLocal, PostError, SameRow, TInv, IInv, Types
<1>3. CASE PostError(j)
  BY <1>1, <1>2, <1>3, ErrorsTraced
<1>4. CASE /\ Stores(UrlOf(k), j, header) /\ SetEncryptedFor(j, UrlOf(k), header)
           /\ run' = [run EXCEPT ![j].exc = exc, ![j].todo = @ \ {k}]
           /\ UNCHANGED <<status, file>>
  <2>1. run' = [run EXCEPT ![j] = [run[j] EXCEPT !.exc = exc, !.todo = run[j].todo \ {k}]]
    BY <1>4
  <2>2. run'[j].pc = "send" /\ run'[j].todo = run[j].todo \ {k} /\ run[j].pc = "send"
    BY <1>1, <2>1 DEF Executions, TInv, IInv, Types, Sending
  <2>3. place' = place /\ graph' = graph /\ \A c : Client(c)' = Client(c)
    BY <1>1 DEF setting, Client
  <2>4. /\ Sent(j)' = Sent(j) \cup {k} /\ Seals(j)' = Seals(j) /\ Past(j) /\ Past(j)'
        /\ file'[j] = file[j]
    BY <1>1, <1>4, <2>2, <2>3 DEF Sent, Seals, Past
  <2>5. /\ place[k] = Self \/ Client(place[k])
        /\ encrypted_for'[j] = IF Client(place[k]) THEN place[k] ELSE encrypted_for[j]
        /\ place[k] # NoKey
    BY <1>1, <1>4, Marked DEF TInv
  <2>6. \A i \in Sent(j)' : place[i] = Self \/ Client(place[i])
    BY <2>4, <2>5 DEF TInv, Traces
  <2>7. \A i \in Sent(j)' : Client(place[i]) => encrypted_for'[j] # NoKey
    BY <2>4, <2>5 DEF TInv, Traces
  <2>8. place[j] = Self => ~Client(place[k])
    BY <1>1 DEF Client
  <2>9. Traces(j)
    BY DEF TInv
  <2>10. Traces(j)'
    BY <2>3, <2>4, <2>6, <2>7, <2>8, <2>9 DEF Traces, Client
  <2>11. Finds(j)'
    BY <1>1, <1>2, <2>4, FindsKept
  <2> QED
    BY <1>1, <1>2, <2>10, <2>11, OneTraced
<1> QED
  BY <1>3, <1>4 DEF PostLocal

\* Each time the scheduler sends a product of its own to a client, it encrypts it again.
LEMMA OpenUploadTraces == ASSUME TInv, IInv', NEW j \in Jobs, NEW k \in Jobs, OpenUpload(j, k) PROVE TInv'
<1> DEFINE exc == ChangeRoute(run[j].exc, place[k], UrlOf(k), ProxyOf(k))
           header == SignedHeaders(exc, place[j])
           body == Attached(j, exc)
<1>1. /\ UNCHANGED setting /\ UNCHANGED got /\ place[k] # place[j] /\ k \in run[j].todo
      /\ Sending(j) /\ run[j] \in Executions /\ k \in graph[j] /\ status[j] # "done"
      /\ header.target = place[k]
  BY OnePoint DEF OpenUpload, TInv, IInv, Types, Sending, ChangeRoute, SignedHeaders
<1>2. \A i \in Jobs \ {j} : SameRow(i)
  BY <1>1, Recorded DEF OpenUpload, PostError, SameRow, TInv, IInv, Types
<1>3. CASE PostError(j)
  BY <1>1, <1>2, <1>3, ErrorsTraced
<1>4. CASE /\ Stores(UrlOf(k), j, header) /\ SetEncryptedFor(j, UrlOf(k), header)
           /\ file' = [file EXCEPT ![j] = Partial]
           /\ run' = [run EXCEPT ![j] = [@ EXCEPT !.pc = "upload", !.exc = exc, !.to = k,
                                                  !.attached = body]]
  <2>1. /\ run'[j].pc = "upload" /\ run'[j].todo = run[j].todo /\ run'[j].to = k
        /\ run'[j].attached = body /\ run[j].pc = "send"
    BY <1>1, <1>4 DEF Executions, TInv, IInv, Types, Sending
  <2>2. place' = place /\ graph' = graph /\ \A c : Client(c)' = Client(c)
    BY <1>1 DEF setting, Client
  <2>3. /\ Sent(j)' = Sent(j) \cup {k} /\ Seals(j)' = body.keys /\ Past(j) /\ Past(j)'
        /\ Seals(j) = file[j].keys
    BY <1>1, <2>1, <2>2 DEF Sent, Seals, Past
  <2>4. /\ place[k] = Self \/ Client(place[k])
        /\ encrypted_for'[j] = IF Client(place[k]) THEN place[k] ELSE encrypted_for[j]
        /\ place[k] # NoKey
    BY <1>1, <1>4, Marked DEF TInv
  <2>5. Traces(j)
    BY DEF TInv
  <2>6. \A i \in Sent(j)' : place[i] = Self \/ Client(place[i])
    BY <2>3, <2>4, <2>5 DEF Traces
  <2>7. \A i \in Sent(j)' : Client(place[i]) => encrypted_for'[j] # NoKey
    BY <2>3, <2>4, <2>5 DEF Traces
  <2>8. \E i \in graph[j] : place[i] # place[j]
    BY <1>1
  <2>9. ASSUME place[j] = Self
        PROVE  \A i \in Sent(j)' : Client(place[i]) =>
                  /\ Seals(j)' # << >>
                  /\ \A h \in Sent(j)' : Client(place[h]) /\ h # i => Len(Seals(j)') > 1
    <3>1. body.keys = Append(file[j].keys, exc.remote_key) /\ file[j].keys \in Seq(Keys)
      BY <2>9 DEF Attached, Product, Encrypt, TInv, IInv, Types, Files
    <3>2. exc.remote_key \in Keys
      BY <1>1 DEF ChangeRoute, TInv, IInv, Types
    <3> DEFINE old == file[j].keys
               key == exc.remote_key
    <3>3. Seals(j)' = Append(old, key) /\ old \in Seq(Keys) /\ key \in Keys
      BY <2>3, <3>1, <3>2
    <3>4. Seals(j) = old
      BY <2>3
    <3> HIDE DEF old, key
    <3>5. Seals(j)' # << >> /\ (old # << >> => Len(Seals(j)') > 1)
      BY <3>3
    <3>6. \A i, h \in Sent(j)' : Client(place[i]) /\ Client(place[h]) /\ h # i => old # << >>
      BY <2>3, <2>5, <2>9, <3>4 DEF Traces
    <3> QED
      BY <3>5, <3>6
  <2>10. Traces(j)'
    BY <2>2, <2>6, <2>7, <2>8, <2>9 DEF Traces, Client
  <2>11. Finds(j)'
    BY <1>1, <1>2, <2>3, FindsKept
  <2> QED
    BY <1>1, <1>2, <2>10, <2>11, OneTraced
<1> QED
  BY <1>3, <1>4 DEF OpenUpload

\* The keys of an upload are those of the file that it becomes, unless it was opened.
LEMMA EndUploadTraces == ASSUME TInv, IInv', NEW j \in Jobs, EndUpload(j) PROVE TInv'
<1> DEFINE to == run[j].to
           r == [run[j] EXCEPT !.pc = "send", !.todo = run[j].todo \ {to}, !.to = NoKey,
                               !.attached = Absent]
<1>1. /\ UNCHANGED setting /\ UNCHANGED got /\ UNCHANGED status /\ UNCHANGED encrypted_for
      /\ Uploading(j) /\ run[j] \in Executions /\ to \in run[j].todo /\ to \in graph[j]
      /\ run[j].todo \subseteq graph[j] /\ place[to] # place[j]
      /\ run[j].pc = "upload" /\ status[j] # "done"
  BY OnePoint DEF EndUpload, TInv, IInv, Types, Uploading
<1>2. \A i \in Jobs \ {j} : SameRow(i)
  BY DEF EndUpload, SameRow, TInv, IInv, Types
<1>3. run'[j].pc = "send" /\ run'[j].todo = run[j].todo \ {to}
  <2>1. run' = [run EXCEPT ![j] = r]
    BY DEF EndUpload
  <2> QED
    BY <1>1, <2>1 DEF Executions, TInv, IInv, Types
<1>4. place' = place /\ graph' = graph /\ \A c : Client(c)' = Client(c)
  BY <1>1 DEF setting, Client
<1>5. Sent(j)' = Sent(j) /\ Seals(j)' = file'[j].keys /\ Past(j) /\ Past(j)'
  BY <1>1, <1>3, <1>4 DEF Sent, Seals, Past
<1>6. place[j] = Self => Seals(j)' = Seals(j)
  <2> SUFFICES ASSUME place[j] = Self PROVE file'[j] = run[j].attached
    BY <1>1, <1>5 DEF Seals
  <2>1. place[to] # Self
    BY <1>1
  <2>2. file' = [file EXCEPT ![j] = run[j].attached]
    BY <1>1, <2>1 DEF EndUpload, Uploading, Proxied, SignedHeaders
  <2> QED
    BY <2>2 DEF TInv, IInv, Types
<1>7. Traces(j)
  BY DEF TInv
<1>8. Traces(j)'
  BY <1>1, <1>4, <1>5, <1>6, <1>7 DEF Traces, Client
<1>9. Finds(j)'
  BY <1>1, <1>2, <1>5, FindsKept
<1> QED
  BY <1>1, <1>2, <1>8, <1>9, OneTraced

\* All that was to be sent has been sent.
LEMMA PostDoneTraces == ASSUME TInv, IInv', NEW j \in Jobs, PostDone(j) PROVE TInv'
<1>1. /\ UNCHANGED setting /\ UNCHANGED got /\ UNCHANGED file /\ UNCHANGED encrypted_for
      /\ Sending(j) /\ run[j].todo = {} /\ status[j] # "done" /\ run[j].pc = "send"
  BY OnePoint DEF PostDone, TInv, IInv, Sending
<1>2. run'[j].pc = "ended"
  BY DEF PostDone, NewRun, TInv, IInv, Types
<1>3. \A i \in Jobs \ {j} : SameRow(i)
  BY DEF PostDone, SameRow, TInv, IInv, Types
<1>4. place' = place /\ graph' = graph /\ \A c : Client(c)' = Client(c)
  BY <1>1 DEF setting, Client
<1>5. Sent(j)' = Sent(j) /\ Seals(j)' = Seals(j) /\ Past(j) /\ Past(j)'
  BY <1>1, <1>2, <1>4 DEF Sent, Seals, Past
<1>6. Traces(j)
  BY DEF TInv
<1>7. Traces(j)'
  BY <1>1, <1>4, <1>5, <1>6 DEF Traces, Client
<1>8. Finds(j)'
  BY <1>1, <1>3, <1>5, FindsKept
<1> QED
  BY <1>1, <1>3, <1>7, <1>8, OneTraced

\* A broken connection is an error.
LEMMA BreakTraces == ASSUME TInv, IInv', NEW j \in Jobs, Break(j) PROVE TInv'
<1>1. UNCHANGED setting /\ UNCHANGED got /\ PostError(j) /\ status[j] # "done"
  BY OnePoint DEF Break, TInv, IInv, Uploading, Collecting
<1>2. \A i \in Jobs \ {j} : SameRow(i)
  BY DEF Break, PostError, SameRow, TInv, IInv, Types
<1> QED
  BY <1>1, <1>2, ErrorsTraced

-----------------------------------------------------------------------------
(* The invariant                                                             *)

\* Nothing has been sent or found in the beginning.
LEMMA TracesInit == WbInit => TInv
<1> SUFFICES ASSUME WbInit PROVE TInv
  OBVIOUS
<1>1. \A j \in Jobs : run[j].pc = "none" /\ got[j] = {}
  BY DEF WbInit, Init, NewRun
<1>2. \A j \in Jobs : Traces(j) /\ Finds(j)
  BY <1>1 DEF Traces, Finds, Sent, Past
<1> QED
  BY <1>2, InitKeeps DEF TInv, WbInit, Init

\* The jobs and the researchers keep the traces.
LEMMA TracesNext == TInv /\ [WbNext]_wbVars => TInv'
<1> SUFFICES ASSUME TInv, [WbNext]_wbVars PROVE TInv'
  OBVIOUS
<1>1. IInv'
  BY NextKeeps DEF TInv
<1>2. CASE \E j \in Jobs : Submitted(JobStep(j)) \/ Submitted(Break(j))
  <2>1. PICK j \in Jobs : JobStep(j) \/ Break(j)
    BY <1>2 DEF Submitted
  <2> QED
    BY <1>1, <2>1, GetTaskTraces, DownloadTraces, UseLocalTraces, WorkTraces, PostLocalTraces,
       OpenUploadTraces, EndUploadTraces, PostDoneTraces, BreakTraces DEF JobStep
<1>3. ASSUME UNCHANGED setting, UNCHANGED execution PROVE TInv'
  <2>1. Kept /\ \A i \in Jobs : SameRow(i)
    BY <1>3 DEF Kept, SameRow, execution
  <2> QED
    BY <1>1, <1>3, <2>1, OthersTraced DEF TInv, setting
<1>4. CASE UNCHANGED wbVars
  BY <1>3, <1>4 DEF wbVars, jobs
<1>5. CASE \E c \in DOMAIN identity : Session(c)
  <2>1. PICK c \in DOMAIN identity : Session(c)
    BY <1>5
  <2>2. UNCHANGED setting /\ UNCHANGED execution
    BY <2>1 DEF Session, Connect, Submit, Wait, List, Get, jobs
  <2> QED
    BY <1>3, <2>2
<1> QED
  BY <1>2, <1>4, <1>5 DEF WbNext

-----------------------------------------------------------------------------
(* The theorem                                                               *)

\* When every job is done, one file and one column have suited all the readers of each
\* product, which leaves the scheduler alone, or one client that is not its own reader.
LEMMA AllDoneDelivers ==
    ASSUME TInv, \A j \in Jobs : status[j] = "done"
    PROVE  Deliverable
<1> SUFFICES ASSUME NEW j \in Jobs, ~(Readers(j) \subseteq {Self})
             PROVE  /\ allow_download
                    /\ \E c \in Readers(j) : Readers(j) = {c} /\ Client(c) /\ c # place[j]
                    /\ place[j] = Self => Cardinality(graph[j]) = 1
  BY DEF Deliverable, Readers
<1>1. /\ graph[j] \subseteq Jobs /\ Ended(j) /\ Traces(j)
      /\ \A k \in graph[j] : Ended(k) /\ Finds(k) /\ j \in Previous(k)
  BY OnePoint DEF TInv, IInv, Types, Previous
<1>2. /\ Sent(j) = graph[j] /\ Seals(j) = file[j].keys /\ Past(j)
      /\ \A k \in graph[j] : Past(k)
  BY <1>1 DEF Ended, Sent, Seals, Past
<1>3. PICK k \in graph[j] : place[k] # Self
  BY DEF Readers
<1>4. Client(place[k]) /\ encrypted_for[j] # NoKey
  BY <1>1, <1>2, <1>3 DEF Traces
<1>5. allow_download /\ encrypted_for[j] = place[k] /\ Len(file[j].keys) = 1
  BY <1>1, <1>2, <1>4 DEF Finds, Openable
<1>6. file[j] # Plain
  <2>1. Len(Plain.keys) = 0
    BY DEF Plain
  <2> QED
    BY <1>5, <2>1
<1>7. ASSUME NEW i \in graph[j] PROVE place[i] = place[k]
  <2>1. Client(place[i])
    BY <1>1, <1>2, <1>6 DEF Finds
  <2> QED
    BY <1>1, <1>2, <1>4, <1>5, <2>1 DEF Finds, Openable
<1>8. Readers(j) = {place[k]}
  BY <1>3, <1>7 DEF Readers
<1>9. file[j].state = "whole"
  BY <1>1, <1>3 DEF Ended
<1>10. place[k] # place[j]
  <2> SUFFICES ASSUME place[k] = place[j] PROVE FALSE
    OBVIOUS
  <2>1. \E i \in graph[j] : place[i] # place[j]
    BY <1>1, <1>2, <1>3, <1>9 DEF Traces
  <2> QED
    BY <1>7, <2>1
<1>11. ASSUME place[j] = Self PROVE Cardinality(graph[j]) = 1
  <2>1. ASSUME NEW i \in graph[j], i # k PROVE FALSE
    <3>1. Client(place[i])
      BY <1>4, <1>7
    <3>2. Len(file[j].keys) > 1
      BY <1>1, <1>2, <1>4, <1>11, <2>1, <3>1 DEF Traces
    <3> QED
      BY <1>5, <3>2
  <2>2. graph[j] = {k}
    BY <2>1
  <2> QED
    BY <2>2, FS_Singleton
<1> QED
  BY <1>4, <1>5, <1>8, <1>10, <1>11

\* When nothing fails and nothing can go on, everything is done: of the jobs that are not,
\* the first one would not be waiting for another.
LEMMA SettledIsDone ==
    ASSUME IInv, graph \in Graphs, Settled, \A j \in Jobs : status[j] # "error"
    PROVE  \A j \in Jobs : status[j] = "done"
<1>1. PICK rank \in [Jobs -> 0 .. Cardinality(Jobs)] : \A j \in Jobs : \A k \in graph[j] : rank[j] < rank[k]
  BY RoutingAssumption
<1>2. Cardinality(Jobs) \in Nat
  BY RoutingAssumption, FS_CardinalityType
<1> SUFFICES ASSUME NEW i \in Jobs, status[i] # "done" PROVE FALSE
  OBVIOUS
<1> DEFINE Left == {rank[j] : j \in {x \in Jobs : status[x] # "done"}}
<1>3. Left \in SUBSET Nat /\ Left # {}
  BY <1>1, <1>2
<1>4. PICK m \in Left : \A n \in Left : m <= n
  BY <1>3, LeastNatural
<1>5. PICK j \in Jobs : status[j] # "done" /\ rank[j] = m
  BY <1>4
<1>6. PICK p \in Previous(j) : status[p] # "done"
  BY <1>5 DEF Settled
<1>7. p \in Jobs /\ rank[p] < rank[j] /\ rank[p] \in Left
  BY <1>1, <1>5, <1>6 DEF Previous
<1>8. rank[p] \in Nat /\ rank[j] \in Nat /\ rank[j] <= rank[p]
  BY <1>1, <1>2, <1>4, <1>5, <1>7
<1> QED
  BY <1>7, <1>8

\* For every acyclic graph and every placement: an artifact all of whose jobs could be done
\* is deliverable, so that one that is not deliverable comes to rest with a job that failed.
THEOREM OutcomeIsExact == WbSpec => []Outcome
<1>1. ASSUME TInv, NothingFails PROVE Outcome
  <2> SUFFICES ASSUME Settled, ~Deliverable, \A j \in Jobs : status[j] # "error" PROVE FALSE
    BY <1>1 DEF Outcome
  <2>1. \A j \in Jobs : status[j] = "done"
    BY <1>1, SettledIsDone DEF TInv
  <2> QED
    BY <1>1, <2>1, AllDoneDelivers
<1>3. WbSpec => []TInv
  BY TracesInit, TracesNext, PTL DEF WbSpec
<1>4. TInv /\ NothingFails => Outcome
  BY <1>1
<1> QED
  BY <1>3, <1>4, DeliverableNeverFails, PTL

-----------------------------------------------------------------------------
(* The sessions.  What a researcher gets depends on the order in which jobs   *)
(* are done: a job is done after the jobs before it, so its resource is later  *)
(* than theirs, and what was true of a resource when it was listed stays true. *)

Sessions ==
    [pc : {"new", "connected", "refused", "denied", "lost", "waiting", "waited",
           "nothing", "listed", "done"},
     last_state : {"none", "RUNNING", "ERROR", "COMPLETED"},
     waited : Nat, completed : BOOLEAN, listed : SUBSET Jobs,
     object : [job : Jobs \cup {NoKey}, as : {"none", "not_found", "loaded", "unreadable"}]]

\* No job is begun before the ones it needs are done.
Ordered ==
    \A j \in Jobs : status[j] \in {"running", "done"} => \A p \in Previous(j) : status[p] = "done"

\* A resource has a time when its job is done, and it is later than those of its inputs.
Times ==
    /\ creation_time \in [Jobs -> Nat]
    /\ \A j \in Jobs : creation_time[j] > 0 <=> status[j] = "done"
    /\ \A j \in Jobs : creation_time[j] <= Cardinality(ListResources)
    /\ \A j \in Jobs : \A k \in graph[j] :
          status[k] = "done" => creation_time[j] < creation_time[k]

AllDone == \A j \in Jobs : status[j] = "done"

\* A key is the key of one user.
Users ==
    /\ \A u \in users : u = <<u[1], u[2]>>
    /\ \A u, v \in users : u[2] = v[2] => u = v
    /\ \A c \in Used : identity[c] = <<identity[c][1], identity[c][2]>>

\* What is known of a session at each point.
Session1(c) ==
    /\ context[c].pc \notin {"new", "refused"} => KeyRegistered(identity[c][2])
    /\ context[c].completed => AllDone
    /\ context[c].pc = "listed" =>
          /\ \A j \in context[c].listed : status[j] = "done"
          /\ context[c].completed => context[c].listed = Jobs
    /\ context[c].pc = "done" =>
          /\ context[c].object.job \in Jobs
          /\ graph[context[c].object.job] = {} =>
               context[c].object.as = (IF place[context[c].object.job] = Self THEN "loaded" ELSE "not_found")
          /\ Deliverable => (context[c].object.as = "loaded" <=> InClear(context[c].object.job))

SInv ==
    /\ IInv /\ Ordered /\ Times /\ Users
    /\ artifact \in {"none", "RUNNING", "ERROR", "COMPLETED"}
    /\ artifact = "COMPLETED" => AllDone
    /\ context \in [Used -> Sessions]
    /\ \A c \in Used : Session1(c)

-----------------------------------------------------------------------------
(* The jobs                                                                  *)

\* What a step of a job may do to the statuses.
LEMMA StatusSteps ==
    ASSUME IInv, NEW j \in Jobs, JobStep(j) \/ Break(j)
    PROVE  /\ UNCHANGED setting
           /\ \/ status' = status
              \/ /\ status[j] = "waiting" /\ status' = [status EXCEPT ![j] = "running"]
                 /\ \A p \in Previous(j) : status[p] = "done"
              \/ status[j] = "running" /\ status' = [status EXCEPT ![j] = "error"]
              \/ status[j] = "running" /\ status' = [status EXCEPT ![j] = "done"]
<1> DEFINE Goal == /\ UNCHANGED setting
                   /\ \/ status' = status
                      \/ /\ status[j] = "waiting" /\ status' = [status EXCEPT ![j] = "running"]
                         /\ \A p \in Previous(j) : status[p] = "done"
                      \/ status[j] = "running" /\ status' = [status EXCEPT ![j] = "error"]
                      \/ status[j] = "running" /\ status' = [status EXCEPT ![j] = "done"]
<1>1. run[j].pc \in {"collect", "send", "upload"} => status[j] = "running"
  BY OnePoint DEF IInv, Collecting, Sending, Uploading
<1>2. GetTask(j) => Goal
  BY DEF GetTask
<1>3. ASSUME NEW r \in Jobs, Download(j, r) PROVE Goal
  BY <1>1, <1>3 DEF Download, PostError
<1>4. ASSUME NEW r \in Jobs, UseLocal(j, r) PROVE Goal
  BY <1>4 DEF UseLocal
<1>5. Work(j) => Goal
  BY <1>1 DEF Work, PostError
<1>6. ASSUME NEW k \in Jobs, PostLocal(j, k) PROVE Goal
  BY <1>1, <1>6 DEF PostLocal, PostError
<1>7. ASSUME NEW k \in Jobs, OpenUpload(j, k) PROVE Goal
  BY <1>1, <1>7 DEF OpenUpload, PostError
<1>8. EndUpload(j) => Goal
  BY DEF EndUpload
<1>9. PostDone(j) => Goal
  BY <1>1 DEF PostDone
<1>10. Break(j) => Goal
  BY <1>1 DEF Break, PostError
<1> QED
  BY <1>2, <1>3, <1>4, <1>5, <1>6, <1>7, <1>8, <1>9, <1>10 DEF JobStep

\* What is done stays done, and a job is begun when the jobs before it are done.
LEMMA OrderKept ==
    ASSUME IInv, Ordered, NEW j \in Jobs, JobStep(j) \/ Break(j)
    PROVE  StaysDone /\ Ordered'
<1>1. StaysDone
  BY StatusSteps DEF StaysDone, IInv, Types
<1>2. \A i \in Jobs : Previous(i)' = Previous(i) /\ Previous(i) \subseteq Jobs
  BY StatusSteps DEF setting, Previous
<1>3. \A i \in Jobs : status'[i] \in {"running", "done"} =>
                        \A p \in Previous(i) : status[p] = "done"
  BY StatusSteps DEF IInv, Types, Ordered
<1> QED
  BY <1>1, <1>2, <1>3 DEF Ordered, StaysDone

\* A resource gets its time after those that its job has used.
LEMMA TimesKept ==
    ASSUME IInv, Ordered, Times, NEW j \in Jobs, JobStep(j) \/ Break(j), MarkAsDone
    PROVE  Times'
<1>1. StaysDone /\ graph' = graph
  BY OrderKept, StatusSteps DEF setting
<1>2. IsFiniteSet(ListResources) /\ Cardinality(ListResources) \in Nat
  BY RoutingAssumption, FS_Subset, FS_CardinalityType DEF ListResources
<1>3. Now \in Nat /\ Now = Cardinality(ListResources) + 1 /\ \A i \in Jobs : creation_time[i] < Now
  BY <1>2 DEF Now, Times
<1>4. CASE Finished = {}
  <2>1. creation_time' = creation_time
    BY <1>4 DEF MarkAsDone, Times
  <2>2. \A i \in Jobs : status'[i] = "done" <=> status[i] = "done"
    BY <1>1, <1>4 DEF Finished, StaysDone
  <2> QED
    BY <1>1, <2>1, <2>2 DEF Times, ListResources, IInv, Types
<1>5. CASE Finished # {}
  <2>1. /\ status[j] = "running" /\ status' = [status EXCEPT ![j] = "done"]
        /\ Finished = {j}
    BY <1>5, StatusSteps DEF Finished, IInv, Types
  <2>2. creation_time' = [creation_time EXCEPT ![j] = Now]
    BY <2>1 DEF MarkAsDone, Times
  <2>3. creation_time' \in [Jobs -> Nat]
    BY <1>3, <2>2 DEF Times
  <2>4. \A i \in Jobs : creation_time'[i] > 0 <=> status'[i] = "done"
    BY <1>2, <1>3, <2>1, <2>2 DEF Times, IInv, Types
  <2>5. ListResources' = ListResources \cup {j} /\ j \notin ListResources
    BY <1>2, <1>3, <2>1, <2>2 DEF ListResources, Times
  <2>6. Cardinality(ListResources') = Now
    BY <1>2, <1>3, <2>5, FS_AddElement
  <2>7. \A i \in Jobs : creation_time'[i] <= Cardinality(ListResources')
    BY <1>3, <2>2, <2>6 DEF Times
  <2>8. ASSUME NEW i \in Jobs, NEW k \in graph[i], status'[k] = "done"
        PROVE  creation_time'[i] < creation_time'[k]
    <3>1. k \in Jobs /\ i \in Previous(k)
      BY DEF IInv, Types, Previous
    <3>2. CASE k = j
      <4>1. status[i] = "done" /\ i # j
        BY <2>1, <3>1, <3>2 DEF Ordered
      <4> QED
        BY <1>3, <2>2, <3>2, <4>1 DEF Times
    <3>3. CASE k # j
      <4>1. status[k] = "done"
        BY <2>1, <2>8, <3>1, <3>3 DEF IInv, Types
      <4>2. status[i] = "done" /\ i # j
        BY <2>1, <3>1, <4>1 DEF Ordered
      <4> QED
        BY <2>2, <3>1, <3>3, <4>1, <4>2 DEF Times
    <3> QED
      BY <3>2, <3>3
  <2> QED
    BY <1>1, <2>3, <2>4, <2>7, <2>8 DEF Times
<1> QED
  BY <1>4, <1>5

-----------------------------------------------------------------------------
(* The sessions                                                              *)

\* What a session knows stays true, whatever the jobs and the other sessions do.
LEMMA Others ==
    ASSUME SInv, NEW c \in Used, UNCHANGED setting, UNCHANGED identity, StaysDone,
           users \subseteq users', context'[c] = context[c]
    PROVE  Session1(c)'
<1>1. graph' = graph /\ place' = place /\ Deliverable' = Deliverable /\ context[c] \in Sessions
      /\ \A j \in Jobs : InClear(j)' = InClear(j)
  BY DEF setting, Deliverable, Client, InClear, SInv
<1>2. AllDone => AllDone'
  BY DEF AllDone, StaysDone
<1>3. \A j \in context[c].listed : j \in Jobs
  BY <1>1 DEF Sessions
<1>4. context[c].pc \notin {"new", "refused"} => KeyRegistered(identity[c][2])'
  BY DEF SInv, Session1, KeyRegistered
<1>5. context[c].pc = "listed" => \A j \in context[c].listed : status'[j] = "done"
  BY <1>3 DEF SInv, Session1, StaysDone
<1> QED
  BY <1>1, <1>2, <1>4, <1>5 DEF SInv, Session1

\* The steps of the jobs.
LEMMA JobsKeep ==
    ASSUME SInv, IInv', NEW j \in Jobs, Submitted(JobStep(j)) \/ Submitted(Break(j))
    PROVE  SInv'
<1>1. /\ JobStep(j) \/ Break(j)
      /\ Follow /\ MarkAsDone /\ UNCHANGED identity /\ UNCHANGED users /\ UNCHANGED context
  BY DEF Submitted
<1>2. StaysDone /\ Ordered' /\ UNCHANGED setting /\ Times'
  BY <1>1, OrderKept, StatusSteps, TimesKept DEF SInv
<1>3. Users' /\ Used' = Used
  BY <1>1 DEF SInv, Users, Used
<1>4. artifact' \in {"none", "RUNNING", "ERROR", "COMPLETED"} /\ (artifact' = "COMPLETED" => AllDone')
  <2>1. AllDone => AllDone'
    BY <1>2 DEF AllDone, StaysDone
  <2>2. artifact' \in {"ERROR", "RUNNING", artifact} \/ (artifact' = "COMPLETED" /\ AllDone')
    BY <1>1 DEF Follow, AllDone
  <2> QED
    BY <2>1, <2>2 DEF SInv
<1>5. \A c \in Used : Session1(c)'
  BY <1>1, <1>2, Others
<1> QED
  BY <1>1, <1>2, <1>3, <1>4, <1>5 DEF SInv

\* A step of one session leaves the jobs as they are, and the other sessions.
LEMMA OneSession ==
    ASSUME SInv, NEW c \in Used, NEW x \in Sessions,
           UNCHANGED setting, UNCHANGED execution, UNCHANGED identity, UNCHANGED creation_time,
           broken' \in 0 .. Breaks, users \subseteq users', Users',
           artifact' \in {artifact, "RUNNING"},
           context' = [context EXCEPT ![c] = x], Session1(c)'
    PROVE  SInv'
<1>1. IInv'
  BY SessionKeeps DEF SInv
<1>2. /\ status' = status /\ graph' = graph /\ Used' = Used
      /\ \A j \in Jobs : Previous(j)' = Previous(j)
  BY DEF setting, execution, Previous, Used
<1>3. StaysDone /\ Ordered' /\ AllDone' = AllDone
  BY <1>2 DEF StaysDone, Ordered, AllDone, SInv
<1>4. Times'
  BY <1>2 DEF Times, ListResources, SInv
<1>5. context' \in [Used -> Sessions] /\ \A d \in Used \ {c} : context'[d] = context[d]
  BY DEF SInv
<1>6. \A d \in Used : Session1(d)'
  BY <1>3, <1>5, Others
<1>7. artifact' \in {"none", "RUNNING", "ERROR", "COMPLETED"} /\ (artifact' = "COMPLETED" => AllDone')
  BY <1>3 DEF SInv
<1> QED
  BY <1>1, <1>2, <1>3, <1>4, <1>5, <1>6, <1>7 DEF SInv

LEMMA Broken ==
    ASSUME IInv, UNCHANGED broken \/ (broken < Breaks /\ broken' = broken + 1)
    PROVE  broken' \in 0 .. Breaks
BY RoutingAssumption DEF IInv, Types

LEMMA ConnectKeeps == ASSUME SInv, NEW c \in Used, Connect(c) PROVE SInv'
<1> DEFINE id == identity[c][1]
           key == identity[c][2]
<1>1. /\ UNCHANGED setting /\ UNCHANGED execution /\ UNCHANGED identity /\ UNCHANGED artifact
      /\ UNCHANGED creation_time /\ context[c] \in Sessions /\ identity[c] = <<id, key>>
  BY DEF Connect, SInv, Users
<1>2. CASE Step(c, "refused") /\ UNCHANGED <<users, broken>>
  <2> DEFINE x == [context[c] EXCEPT !.pc = "refused"]
  <2>1. x \in Sessions /\ context' = [context EXCEPT ![c] = x] /\ context'[c] = x
    BY <1>1, <1>2 DEF Step, Sessions, SInv
  <2>2. Session1(c)'
    <3>1. context[c].completed => AllDone'
      BY <1>1 DEF SInv, Session1, AllDone, execution
    <3> QED
      BY <1>1, <2>1, <3>1 DEF Session1, Sessions
  <2>3. users' = users /\ Users' /\ broken' \in 0 .. Breaks
    BY <1>1, <1>2, Broken DEF SInv, Users, Used
  <2> HIDE DEF x
  <2> QED
    BY <1>1, <2>1, <2>2, <2>3, OneSession
<1>3. CASE /\ Register(id, key)
           /\ \/ Step(c, "connected") /\ UNCHANGED broken
              \/ broken < Breaks /\ broken' = broken + 1 /\ UNCHANGED context
  <2>1. users \subseteq users' /\ KeyRegistered(key)'
    <3>1. users' = (IF KeyRegistered(key) THEN users ELSE users \cup {<<id, key>>})
      BY <1>3 DEF Register
    <3>2. <<id, key>> \in users' => \E u \in users' : u[2] = key
      OBVIOUS
    <3>3. key' = key
      BY <1>1
    <3>4. KeyRegistered(key) => \E u \in users' : u[2] = key
      BY <3>1 DEF KeyRegistered
    <3>5. \E u \in users' : u[2] = key
      BY <3>1, <3>2, <3>4
    <3> QED
      BY <3>1, <3>3, <3>5 DEF KeyRegistered
  <2>2. Users'
    <3>1. users' = (IF KeyRegistered(key) THEN users ELSE users \cup {<<id, key>>})
      BY <1>3 DEF Register
    <3>2. CASE KeyRegistered(key)
      BY <1>1, <3>1, <3>2 DEF Users, SInv, Used
    <3>3. CASE ~KeyRegistered(key)
      <4>1. \A u \in users : u[2] # key
        BY <3>3 DEF KeyRegistered
      <4> HIDE DEF id, key
      <4>2. users' = users \cup {<<id, key>>} /\ <<id, key>>[1] = id /\ <<id, key>>[2] = key
        BY <3>1, <3>3
      <4> QED
        BY <1>1, <4>1, <4>2 DEF Users, SInv, Used
    <3> QED
      BY <3>2, <3>3
  <2>3. broken' \in 0 .. Breaks
    <3>1. UNCHANGED broken \/ (broken < Breaks /\ broken' = broken + 1)
      BY <1>3, Zenon
    <3> QED
      BY <3>1, Broken DEF SInv
  <2>4. CASE Step(c, "connected")
    <3> DEFINE x == [context[c] EXCEPT !.pc = "connected"]
    <3>1. x \in Sessions /\ context' = [context EXCEPT ![c] = x] /\ context'[c] = x
      BY <1>1, <2>4 DEF Step, Sessions, SInv
    <3>2. Session1(c)'
      <4>1. context[c].completed => AllDone'
        BY <1>1 DEF SInv, Session1, AllDone, execution
      <4> QED
        BY <1>1, <2>1, <3>1, <4>1 DEF Session1, Sessions
    <3> HIDE DEF x
    <3> QED
      BY <1>1, <2>1, <2>2, <2>3, <3>1, <3>2, OneSession
  <2>5. CASE UNCHANGED context
    <3>1. context' = [context EXCEPT ![c] = context[c]] /\ context'[c] = context[c]
      BY <2>5 DEF SInv
    <3>2. StaysDone
      BY <1>1 DEF StaysDone, execution
    <3>3. Session1(c)'
      BY <1>1, <2>1, <3>1, <3>2, Others
    <3> QED
      BY <1>1, <2>1, <2>2, <2>3, <3>1, <3>3, OneSession
  <2> QED
    BY <1>3, <2>4, <2>5
<1> QED
  BY <1>2, <1>3 DEF Connect

LEMMA SubmitKeeps == ASSUME SInv, NEW c \in Used, Submit(c) PROVE SInv'
<1>1. /\ UNCHANGED setting /\ UNCHANGED execution /\ UNCHANGED identity /\ UNCHANGED users
      /\ UNCHANGED creation_time /\ context[c] \in Sessions /\ context[c].pc = "connected"
      /\ artifact' \in {artifact, "RUNNING"}
  BY DEF Submit, SInv
<1>2. PICK pc \in {"waiting", "lost", "denied"} : Step(c, pc)
  BY DEF Submit
<1> DEFINE x == [context[c] EXCEPT !.pc = pc]
<1>3. x \in Sessions /\ context' = [context EXCEPT ![c] = x] /\ context'[c] = x
  BY <1>1, <1>2 DEF Step, Sessions, SInv
<1>4. UNCHANGED broken \/ (broken < Breaks /\ broken' = broken + 1)
  BY Zenon DEF Submit
<1>5. broken' \in 0 .. Breaks /\ Users'
  BY <1>1, <1>4, Broken DEF SInv, Users, Used
<1>6. Session1(c)'
  <2>1. context[c].completed => AllDone'
    BY <1>1 DEF SInv, Session1, AllDone, execution
  <2>2. KeyRegistered(identity[c][2])'
    BY <1>1 DEF SInv, Session1, KeyRegistered
  <2> QED
    BY <1>1, <1>3, <2>1, <2>2 DEF Session1, Sessions
<1> HIDE DEF x
<1> QED
  BY <1>1, <1>3, <1>5, <1>6, OneSession

LEMMA WaitKeeps == ASSUME SInv, NEW c \in Used, Wait(c) PROVE SInv'
<1> DEFINE waited == IF artifact = context[c].last_state THEN context[c].waited + 1 ELSE 1
           x == IF artifact = "COMPLETED"
                THEN [context[c] EXCEPT !.pc = "waited", !.completed = TRUE, !.waited = 0]
                ELSE IF waited > MaxWait
                THEN [context[c] EXCEPT !.pc = "waited", !.waited = 0]
                ELSE [context[c] EXCEPT !.last_state = artifact, !.waited = waited]
<1>1. /\ UNCHANGED setting /\ UNCHANGED execution /\ UNCHANGED identity /\ UNCHANGED users
      /\ UNCHANGED creation_time /\ context[c] \in Sessions /\ context[c].pc = "waiting"
      /\ UNCHANGED artifact /\ UNCHANGED broken
  BY DEF Wait, jobs, SInv
<1>2. context' = [context EXCEPT ![c] = x]
  BY DEF Wait
<1>3. waited \in Nat
  BY <1>1 DEF Sessions
<1>4. /\ x \in Sessions /\ x.pc \in {"waiting", "waited"}
      /\ x.completed => context[c].completed \/ artifact = "COMPLETED"
  BY <1>1, <1>3 DEF Sessions, SInv
<1> HIDE DEF x
<1>5. context'[c] = x
  BY <1>2, <1>4 DEF SInv
<1>6. broken' \in 0 .. Breaks /\ Users'
  BY <1>1, Broken DEF SInv, Users, Used
<1>7. Session1(c)'
  <2>1. x.completed => AllDone'
    BY <1>1, <1>4 DEF SInv, Session1, AllDone, execution
  <2>2. KeyRegistered(identity[c][2])'
    BY <1>1 DEF SInv, Session1, KeyRegistered
  <2> QED
    BY <1>4, <1>5, <2>1, <2>2 DEF Session1
<1> QED
  BY <1>1, <1>2, <1>4, <1>6, <1>7, OneSession

\* What is listed is done, and it is everything when everything is done.
LEMMA ListKeeps == ASSUME SInv, NEW c \in Used, List(c) PROVE SInv'
<1> DEFINE x == [context[c] EXCEPT
                   !.pc = IF ListResources = {} THEN "nothing" ELSE "listed",
                   !.listed = ListResources]
<1>1. /\ UNCHANGED setting /\ UNCHANGED execution /\ UNCHANGED identity /\ UNCHANGED users
      /\ UNCHANGED creation_time /\ context[c] \in Sessions /\ context[c].pc = "waited"
      /\ UNCHANGED artifact /\ UNCHANGED broken
  BY DEF List, jobs, SInv
<1>2. context' = [context EXCEPT ![c] = x]
  BY DEF List
<1>3. ListResources \in SUBSET Jobs
  BY DEF ListResources
<1>4. /\ x \in Sessions /\ x.pc \in {"nothing", "listed"} /\ x.listed = ListResources
      /\ x.completed = context[c].completed
  BY <1>1, <1>3 DEF Sessions
<1> HIDE DEF x
<1>5. context'[c] = x
  BY <1>2, <1>4 DEF SInv
<1>6. broken' \in 0 .. Breaks /\ Users'
  BY <1>1, Broken DEF SInv, Users, Used
<1>7. Session1(c)'
  <2>1. x.completed => AllDone /\ AllDone'
    BY <1>1, <1>4 DEF SInv, Session1, AllDone, execution
  <2>2. KeyRegistered(identity[c][2])'
    BY <1>1 DEF SInv, Session1, KeyRegistered
  <2>3. \A j \in ListResources : status'[j] = "done"
    BY <1>1 DEF SInv, Times, ListResources, execution
  <2>4. x.completed => ListResources = Jobs
    BY <2>1 DEF SInv, Times, ListResources, AllDone
  <2> QED
    BY <1>4, <1>5, <2>1, <2>2, <2>3, <2>4 DEF Session1
<1> QED
  BY <1>1, <1>2, <1>4, <1>6, <1>7, OneSession

\* What the resource of a done job is to a researcher.
LEMMA Loaded ==
    ASSUME IInv, NEW j \in Jobs, status[j] = "done"
    PROVE  /\ graph[j] = {} => GetResource(j) = (IF place[j] = Self THEN "loaded" ELSE "not_found")
           /\ Deliverable => (GetResource(j) = "loaded" <=> InClear(j))
<1>1. Ended(j) /\ Plain # Absent /\ Plain.keys = << >> /\ Absent.state # "whole"
  BY OnePoint DEF IInv, Plain, Absent
<1>2. GetResource(j) = "loaded" <=> file[j] = Plain
  BY <1>1 DEF GetResource
<1>3. CASE graph[j] = {}
  BY <1>1, <1>3 DEF Ended, GetResource, InClear
<1>4. CASE graph[j] # {}
  <2>1. InClear(j) <=> Readers(j) \subseteq {Self}
    BY <1>4 DEF InClear, Readers
  <2>2. ASSUME Deliverable PROVE file[j] = Plain <=> Readers(j) \subseteq {Self}
    BY <1>1, <1>4, <2>2 DEF IInv, Private, Ended
  <2> QED
    BY <1>2, <1>4, <2>1, <2>2
<1> QED
  BY <1>3, <1>4

LEMMA GetKeeps == ASSUME SInv, NEW c \in Used, Get(c) PROVE SInv'
<1>1. /\ UNCHANGED setting /\ UNCHANGED execution /\ UNCHANGED identity /\ UNCHANGED users
      /\ UNCHANGED creation_time /\ context[c] \in Sessions /\ context[c].pc = "listed"
      /\ UNCHANGED artifact /\ UNCHANGED broken
  BY DEF Get, jobs, SInv
<1>2. PICK j \in context[c].listed : context' = [context EXCEPT ![c] =
             [@ EXCEPT !.pc = "done", !.listed = {}, !.object = [job |-> j, as |-> GetResource(j)]]]
  BY DEF Get
<1> DEFINE x == [context[c] EXCEPT
                   !.pc = "done", !.listed = {}, !.object = [job |-> j, as |-> GetResource(j)]]
<1>3. j \in Jobs /\ status[j] = "done" /\ context' = [context EXCEPT ![c] = x]
  BY <1>1, <1>2 DEF Sessions, SInv, Session1
<1>4. GetResource(j) \in {"none", "not_found", "loaded", "unreadable"}
  BY DEF GetResource
<1>5. /\ x \in Sessions /\ x.pc = "done" /\ x.object.job = j /\ x.object.as = GetResource(j)
      /\ x.completed = context[c].completed
  BY <1>1, <1>3, <1>4 DEF Sessions
<1> HIDE DEF x
<1>6. context'[c] = x
  BY <1>3, <1>5 DEF SInv
<1>7. broken' \in 0 .. Breaks /\ Users'
  BY <1>1, Broken DEF SInv, Users, Used
<1>8. Session1(c)'
  <2>1. x.completed => AllDone'
    BY <1>1, <1>5 DEF SInv, Session1, AllDone, execution
  <2>2. KeyRegistered(identity[c][2])'
    BY <1>1 DEF SInv, Session1, KeyRegistered
  <2>3. graph' = graph /\ place' = place /\ Deliverable' = Deliverable /\ InClear(j)' = InClear(j)
    BY <1>1 DEF setting, Deliverable, Client, InClear
  <2> QED
    BY <1>3, <1>5, <1>6, <2>1, <2>2, <2>3, Loaded DEF Session1, SInv
<1> QED
  BY <1>1, <1>3, <1>5, <1>7, <1>8, OneSession

-----------------------------------------------------------------------------
(* The invariant                                                             *)

LEMMA SessionsInit == WbInit => SInv
<1> SUFFICES ASSUME WbInit PROVE SInv
  OBVIOUS
<1>1. \A j \in Jobs : status[j] = "waiting"
  BY DEF WbInit, Init
<1>2. Times
  <2>1. Cardinality(ListResources) \in Nat
    BY RoutingAssumption, FS_Subset, FS_CardinalityType DEF ListResources
  <2> QED
    BY <1>1, <2>1, InitKeeps DEF WbInit, Times, IInv, Types
<1>3. Users
  BY WorkbenchAssumption DEF WbInit, Users, Used
<1>4. context \in [Used -> Sessions] /\ \A c \in Used : context[c] = NewContext
  BY DEF WbInit, NewContext, NoObject, Sessions, Used
<1>5. \A c \in Used : Session1(c)
  BY <1>4 DEF Session1, NewContext
<1> QED
  BY <1>1, <1>2, <1>3, <1>4, <1>5, InitKeeps DEF SInv, WbInit, Ordered

LEMMA SessionsNext == SInv /\ [WbNext]_wbVars => SInv'
<1> SUFFICES ASSUME SInv, [WbNext]_wbVars PROVE SInv'
  OBVIOUS
<1>1. IInv'
  BY NextKeeps DEF SInv
<1>2. CASE UNCHANGED wbVars
  <2>1. /\ status' = status /\ graph' = graph /\ place' = place /\ users' = users
        /\ identity' = identity /\ artifact' = artifact /\ creation_time' = creation_time
        /\ context' = context /\ UNCHANGED setting
    BY <1>2 DEF wbVars, jobs, setting, execution
  <2>2. StaysDone /\ Ordered' /\ Users' /\ Times' /\ AllDone' = AllDone /\ Used' = Used
    BY <2>1 DEF SInv, StaysDone, Ordered, Previous, Users, Times, ListResources, AllDone, Used
  <2>3. \A c \in Used : Session1(c)'
    BY <2>1, <2>2, Others
  <2> QED
    BY <1>1, <2>1, <2>2, <2>3 DEF SInv
<1>3. CASE \E j \in Jobs : Submitted(JobStep(j)) \/ Submitted(Break(j))
  BY <1>1, <1>3, JobsKeep
<1>4. CASE \E c \in DOMAIN identity : Session(c)
  BY <1>4, ConnectKeeps, SubmitKeeps, WaitKeeps, ListKeeps, GetKeeps DEF Session, Used
<1> QED
  BY <1>2, <1>3, <1>4 DEF WbNext

LEMMA SessionsInvariant == WbSpec => []SInv
<1> QED
  BY SessionsInit, SessionsNext, PTL DEF WbSpec

-----------------------------------------------------------------------------
(* What follows from the invariant                                           *)

\* Whatever the artifact and whatever breaks: once wait has returned because the artifact
\* is completed, the list is complete, and its latest resource is of a job that no other
\* job follows.
THEOREM LatestIsOfALastJob == WbSpec => []LatestIsResult
<1>1. SInv => LatestIsResult
  <2> SUFFICES ASSUME SInv, NEW c \in Used, context[c].completed
               PROVE  /\ context[c].pc = "listed" =>
                            /\ context[c].listed = Jobs
                            /\ \A j \in Latest(context[c].listed) : graph[j] = {}
                      /\ context[c].pc = "done" /\ graph[context[c].object.job] = {} =>
                            (context[c].object.as =
                               IF place[context[c].object.job] = Self THEN "loaded" ELSE "not_found")
    BY DEF LatestIsResult
  <2>1. ASSUME NEW j \in Latest(Jobs) PROVE graph[j] = {}
    <3> SUFFICES ASSUME NEW k \in graph[j] PROVE FALSE
      OBVIOUS
    <3>1. j \in Jobs /\ k \in Jobs /\ creation_time[k] <= creation_time[j] /\ status[k] = "done"
      BY DEF Latest, SInv, IInv, Types, Session1, AllDone
    <3> QED
      BY <3>1 DEF SInv, Times
  <2> QED
    BY <2>1 DEF SInv, Session1
<1> QED
  BY <1>1, SessionsInvariant, PTL

\* In every deliverable artifact, completed or not: a listed resource can be loaded if and
\* only if the scheduler has it in clear.
THEOREM OnlyClearIsLoaded == WbSpec => []LoadsWhatIsClear
<1>1. SInv => LoadsWhatIsClear
  BY DEF SInv, Session1, LoadsWhatIsClear
<1> QED
  BY <1>1, SessionsInvariant, PTL

\* For any number of contexts with any ids and keys: a context that was connected is served
\* if and only if its key was not registered before with another id.
THEOREM ServedByKey == WbSpec => []ConnectedIsServed
<1>1. SInv => ConnectedIsServed
  <2> SUFFICES ASSUME SInv, NEW c \in Used, context[c].pc \notin {"new", "refused"}
               PROVE  AllowAccess(c) <=> ~\E u \in users : u[2] = identity[c][2] /\ u[1] # identity[c][1]
    BY DEF ConnectedIsServed
  <2>1. PICK u \in users : u[2] = identity[c][2]
    BY DEF SInv, Session1, KeyRegistered
  <2> QED
    BY <2>1 DEF SInv, Users, AllowAccess
<1> QED
  BY <1>1, SessionsInvariant, PTL
=============================================================================
