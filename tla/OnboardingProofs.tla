-------------------------- MODULE OnboardingProofs --------------------------
(***************************************************************************)
(* Proofs about Onboarding, for all components, data sources, tokens and     *)
(* configurations, and any number of faults.                                 *)
(*                                                                         *)
(* A startup relies upon what its earlier steps have left in two databases,  *)
(* its own and the one of the first node, and the handlers of its requests    *)
(* may run long after it has stopped: each part of the invariant says what    *)
(* one of them relies upon.                                                  *)
(***************************************************************************)
EXTENDS Onboarding, FiniteSums, SequenceTheorems

-----------------------------------------------------------------------------
(* Who knows whom.                                                           *)

\* The first node knows n by the key that it has now.
Registered(n) == n \in Known(First) /\ table[First][n].key = PublicKey(n)

\* A row has a key of its component, and the one join node is the first node.
Named ==
    /\ \A d, c \in Components : c \in Known(d) => table[d][c].key[1] = c
    /\ \A d \in Components : JoinComponents(d) \subseteq {First} \ {d}

\* What the handler of a join relies upon, whether its sender waits or not.
RequestOK(n) ==
    /\ \A awaited \in BOOLEAN : joins[<<n, awaited>>] # NoRequest =>
          /\ n # First /\ First \in Known(First)
          /\ joins[<<n, awaited>>].key[1] = n
          /\ joins[<<n, awaited>>].step = "created" =>
                n \in Known(First) /\ table[First][n].key = joins[<<n, awaited>>].key
    /\ joins[<<n, TRUE>>] # NoRequest =>
          phase[n] = "joining" /\ joins[<<n, TRUE>>].key = PublicKey(n)

Populated(d) == phase[d] \notin {"down", "populate"}

\* What the database of a node holds once it is populated.
ProjectsOK(n) ==
    /\ Populated(n) => n \in Known(n) /\ Initial[n] \subseteq TokensKnown(n)
    /\ n = First /\ n \in Known(n) => Initial[n] \subseteq TokensKnown(n)

\* What a startup relies upon at each of its steps.
StartupOK(n) ==
    /\ phase[n] = "down" => ~ remote[n]
    /\ phase[n] \in {"joining", "record"} => n # First
    /\ remote[n] \/ JoinComponents(n) # {} => n # First /\ Registered(n)
    /\ phase[n] = "record" =>
          /\ remote[n] /\ ToSet(todo[n]) \subseteq Known(First)
          /\ n \notin NodeMode =>
                /\ ToSet(todo[n]) \subseteq {First}
                /\ todo[n] = << >> => First \in Known(n)
    /\ remote[n] /\ n \notin NodeMode /\ phase[n] # "record" => First \in Known(n)
    /\ polling[n] => n \notin NodeMode /\ remote[n] /\ phase[n] = "up"

-----------------------------------------------------------------------------
(* The data sources.                                                         *)

Rest(o, i) == SubSeq(Data[o], i, Len(Data[o]))

\* The rows that a session has added and not committed.
Pending(slot) == IF sessions[slot] = NoSession THEN {} ELSE sessions[slot].added

\* The files are numbered, each row has one of its own, and each link has its row.
Stock ==
    \A d \in Components :
        /\ IsFiniteSet(files[d]) /\ files[d] = 1..Cardinality(files[d])
        /\ \A row \in sources[d] : row.id \in files[d]
        /\ \A row, other \in sources[d] : row.id = other.id => row = other
        /\ \A link \in links[d] :
              link[1] \in TokensKnown(d) /\ \E row \in sources[d] : row.id = link[2]

\* And so has each row that will be committed.
Fresh ==
    /\ \A slot \in Slots : \A row \in Pending(slot) :
          /\ row.id \in files[slot[2]]
          /\ \A other \in sources[slot[2]] : other.id # row.id
    /\ \A slot, twin \in Slots : slot[2] = twin[2] =>
          \A row \in Pending(slot), other \in Pending(twin) :
             row.id = other.id => slot = twin /\ row = other

\* What a whole session leaves: see PollingIsCatalogued.
AllCatalogued(d, o) ==
    \/ <<o, d>> \in unread
    \/ \A i \in DOMAIN Data[o] :
          /\ \A k \in 1..i : ToSet(TokensOf[Data[o][k]]) \subseteq Initial[d]
          /\ \A k \in DOMAIN Data[o] : AtMostOne(Found(d, o, Data[o][k]))
          => Catalogued(d, o, Data[o][i])

\* The session s of o at d has an id for data source k.
HasId(s, o, k) == \E pair \in s.ids : pair[1] = Data[o][k]

\* The session s has ids for the first n data sources of o, and for no others.
HasFirst(s, o, n) ==
    /\ \A k \in 1..n : HasId(s, o, k)
    /\ \A pair \in s.ids : \E k \in 1..n : pair[1] = Data[o][k]

\* How far a session is: the first i - 1 data sources are saved, or linked.
Reached(s, d, o, i) ==
    /\ s.meta = Rest(o, i)
    /\ s.step = "save" => HasFirst(s, o, i - 1)
    /\ s.step \in {"write", "load"} => i \in DOMAIN Data[o] /\ HasFirst(s, o, i)
    /\ s.step \in {"link", "create"} =>
          /\ \A k \in DOMAIN Data[o] : HasId(s, o, k)
          /\ \A k \in 1..(i - 1) : Catalogued(d, o, Data[o][k])
    /\ s.step = "create" =>
          i \in DOMAIN Data[o] /\ ~ (ToSet(TokensOf[Data[o][i]]) \subseteq Initial[d])

SessionOK(s, d, o) ==
    /\ \A pair \in s.ids :
          [owner |-> o, hash |-> pair[1], id |-> pair[2]] \in sources[d] \cup s.added
    /\ s.step \in {"link", "create", "done"} => s.added = {}
    /\ \E i \in 1..(Len(Data[o]) + 1) : Reached(s, d, o, i)
    /\ s.step = "create" => s.token \in Tokens
    /\ s.step \in {"done", "failed"} => AllCatalogued(d, o)

SlotsOK ==
    \A slot \in Slots : sessions[slot] # NoSession =>
        Populated(slot[2]) /\ SessionOK(sessions[slot], slot[2], slot[1])

\* Before a client polls, the first node has been told of its data, unless the client is
\* inactive there.
ToldOK(n) ==
    /\ phase[n] \in {"distribute", "waiting"} => ToSet(todo[n]) \subseteq NodeMode \ {n}
    /\ phase[n] = "waiting" => todo[n] # << >>
    /\ remote[n] /\ n \notin NodeMode =>
          /\ phase[n] \in {"distribute", "waiting"} =>
                First \in ToSet(todo[n]) \/ AllCatalogued(First, n)
          /\ phase[n] = "heartbeat" => AllCatalogued(First, n)
    /\ polling[n] => AllCatalogued(First, n)

\* Who is inactive had told it before it left.
Left == \A c \in Known(First) : table[First][c].active \/ AllCatalogued(First, c)

NodeOK(n) == RequestOK(n) /\ ProjectsOK(n) /\ StartupOK(n) /\ ToldOK(n)

NetInv == TypeOK /\ Named /\ Left /\ \A n \in Components : NodeOK(n)

\* A session that somebody waits for is the one that its owner's startup is at.
Awaited ==
    \A slot \in Slots : sessions[slot] # NoSession /\ slot[3] =>
        IF slot[2] = slot[1] THEN phase[slot[1]] = "local"
        ELSE phase[slot[1]] = "waiting" /\ slot[2] = Head(todo[slot[1]])

\* What a session has an id for and will link is on disk, or about to be.
Whole ==
    \A slot \in Slots : sessions[slot] # NoSession =>
        \A pair \in sessions[slot].ids :
            pair[2] \in torn[slot[2]] => Rewritten(slot[2], pair[2])

IInv == NetInv /\ Stock /\ Fresh /\ SlotsOK /\ Awaited /\ Whole

-----------------------------------------------------------------------------
(* Sequences.                                                                *)

\* A list is its head and the rest.
LEMMA TailSet ==
    ASSUME NEW S, NEW s \in Seq(S), s # << >>
    PROVE  /\ Head(s) \in ToSet(s) /\ Head(s) \in S /\ Tail(s) \in Seq(S)
           /\ ToSet(s) = {Head(s)} \cup ToSet(Tail(s))
<1>1. Len(s) \in Nat \ {0} /\ DOMAIN s = 1 .. Len(s) /\ Head(s) = s[1]
  BY LenProperties, EmptySeq
<1>2. /\ Head(s) \in S /\ Tail(s) \in Seq(S) /\ Len(Tail(s)) = Len(s) - 1
      /\ \A i \in 1 .. Len(Tail(s)) : Tail(s)[i] = s[i + 1]
  BY HeadTailProperties
<1>3. DOMAIN Tail(s) = 1 .. (Len(s) - 1)
  BY <1>2, LenProperties
<1>4. ToSet(Tail(s)) \subseteq ToSet(s) /\ Head(s) \in ToSet(s)
  BY <1>1, <1>2, <1>3 DEF ToSet
<1>5. ASSUME NEW i \in 1 .. Len(s), i # 1
      PROVE  s[i] \in ToSet(Tail(s))
  <2>1. i - 1 \in DOMAIN Tail(s) /\ Tail(s)[i - 1] = s[i]
    BY <1>1, <1>2, <1>3, <1>5
  <2>. QED  BY <2>1 DEF ToSet
<1>6. ToSet(s) \subseteq {Head(s)} \cup ToSet(Tail(s))
  BY <1>1, <1>5 DEF ToSet
<1>. QED  BY <1>2, <1>4, <1>6

\* The empty list names nobody.
LEMMA EmptyList == ToSet(<< >>) = {}
BY DEF ToSet

\* One more element makes one more member.
LEMMA AppendSet ==
    ASSUME NEW S, NEW s \in Seq(S), NEW x \in S
    PROVE  Append(s, x) \in Seq(S) /\ ToSet(Append(s, x)) = ToSet(s) \cup {x}
<1>1. Len(s) \in Nat /\ DOMAIN s = 1 .. Len(s)
  BY LenProperties
<1>2. /\ Append(s, x) \in Seq(S) /\ Len(Append(s, x)) = Len(s) + 1
      /\ DOMAIN Append(s, x) = 1 .. (Len(s) + 1)
      /\ \A i \in 1 .. Len(s) : Append(s, x)[i] = s[i]
      /\ Append(s, x)[Len(s) + 1] = x
  BY <1>1
<1>3. \A i \in 1 .. (Len(s) + 1) : i \in 1 .. Len(s) \/ i = Len(s) + 1
  BY <1>1
<1>. QED  BY <1>1, <1>2, <1>3 DEF ToSet

\* A list of a finite set names every member.
LEMMA ListsAll ==
    ASSUME NEW S, IsFiniteSet(S), NEW f \in SetToSeqs(S)
    PROVE  f \in Seq(S) /\ ToSet(f) = S
<1> DEFINE D == 1 .. Cardinality(S)
<1>1. Cardinality(S) \in Nat
  BY FS_CardinalityType
<1>2. f \in [D -> S] /\ \A i, j \in D : i # j => f[i] # f[j]
  BY DEF SetToSeqs
<1>3. f \in Injection(D, S)
  BY <1>2 DEF Injection, IsInjective
<1>4. Cardinality(D) = Cardinality(S)
  BY <1>1, FS_Interval
<1>5. f \in Surjection(D, S)
  BY <1>3, <1>4, FS_Injection
<1>6. \A x \in S : \E i \in D : f[i] = x
  BY <1>5 DEF Surjection
<1>7. f \in Seq(S)
  BY <1>1, <1>2, SeqDef
<1>. QED  BY <1>2, <1>6, <1>7 DEF ToSet

-----------------------------------------------------------------------------
(* Types.                                                                    *)

Keys == Components \X (1..MaxKeys)

\* A new row is active and carries what it is made from.
LEMMA RowFields ==
    ASSUME NEW k \in Keys, NEW j \in BOOLEAN
    PROVE  /\ Row(k, j) \in Rows /\ Row(k, j) # NoRow
           /\ Row(k, j).key = k /\ Row(k, j).active = TRUE /\ Row(k, j).is_join = j
<1>1. Row(k, j) \in Rows
  BY DEF Row, Rows, Keys
<1>2. NoRow \notin Rows
  BY MembershipAssumption
<1>. QED  BY <1>1, <1>2 DEF Row

\* The types of the rows and keys.
LEMMA NetTypes ==
    ASSUME TypeOK
    PROVE  /\ key \in [Components -> 1..MaxKeys]
           /\ \A d \in Components : Known(d) \subseteq Components
           /\ \A d, c \in Components : c \in Known(d) <=> table[d][c] # NoRow
           /\ \A d, c \in Components : c \in Known(d) =>
                 table[d][c] \in Rows /\ table[d][c].key \in Keys
           /\ \A n \in Components : PublicKey(n) \in Keys /\ PublicKey(n)[1] = n
           /\ \A n \in Components, awaited \in BOOLEAN : joins[<<n, awaited>>] # NoRequest =>
                 joins[<<n, awaited>>] \in JoinRequest /\ joins[<<n, awaited>>].key \in Keys
<1>1. key \in [Components -> 1..MaxKeys]
      /\ table \in [Components -> [Components -> {NoRow} \cup Rows]]
  BY DEF TypeOK, MembershipTypeOK
<1>2. \A d, c \in Components : c \in Known(d) => table[d][c] \in Rows /\ table[d][c].key \in Keys
  BY <1>1 DEF Known, Rows, Keys
<1>3. \A n \in Components : PublicKey(n) \in Keys /\ PublicKey(n)[1] = n
  BY <1>1 DEF PublicKey, Keys
<1>4. \A n \in Components, awaited \in BOOLEAN : joins[<<n, awaited>>] # NoRequest =>
         joins[<<n, awaited>>] \in JoinRequest /\ joins[<<n, awaited>>].key \in Keys
  BY DEF TypeOK, JoinRequest, Keys
<1>. QED  BY <1>1, <1>2, <1>3, <1>4 DEF Known

\* A row is added, and the others stay.
AddsRow(d, c, k, j) ==
    /\ key' = key
    /\ \A e, x \in Components : table'[e][x] = IF e = d /\ x = c THEN Row(k, j) ELSE table[e][x]

\* create_component adds one row.
LEMMA CreateAdds ==
    ASSUME TypeOK, NEW d \in Components, NEW c \in Components, NEW k \in Keys, NEW j \in BOOLEAN,
           CreateComponent(d, c, k, j), key' = key
    PROVE  AddsRow(d, c, k, j) /\ MembershipTypeOK'
<1>1. table \in [Components -> [Components -> {NoRow} \cup Rows]]
  BY DEF TypeOK, MembershipTypeOK
<1>2. table' = [table EXCEPT ![d][c] = Row(k, j)]
  BY DEF CreateComponent
<1>3. Row(k, j) \in Rows
  BY RowFields
<1>4. table' \in [Components -> [Components -> {NoRow} \cup Rows]]
  BY <1>1, <1>2, <1>3
<1>. QED  BY <1>1, <1>2, <1>4 DEF AddsRow, TypeOK, MembershipTypeOK

\* distribute_add announces a node to nobody: the filter lets only those pass that the list
\* does not contain.
LEMMA AnnouncesNobody ==
    ASSUME TypeOK, NEW d, NEW c, DistributeAdd(d, c)
    PROVE  table' = table
<1>1. AnnouncedTo(d, c) = {}
  BY DEF AnnouncedTo
<1>2. table' = [m \in Components |-> table[m]]
  BY <1>1 DEF DistributeAdd
<1>. QED  BY <1>2 DEF TypeOK, MembershipTypeOK

-----------------------------------------------------------------------------
(* What a step keeps of the nodes that it is not about.                      *)

\* The first node forgets nobody, and no data source of anybody.
FirstKept ==
    /\ \A c \in Known(First) : c \in Known(First)' /\ table'[First][c].key = table[First][c].key
    /\ sources[First] \subseteq sources'[First] /\ links[First] \subseteq links'[First]
    /\ unread \subseteq unread'

Untouched(m) ==
    /\ key'[m] = key[m] /\ phase'[m] = phase[m] /\ todo'[m] = todo[m]
    /\ remote'[m] = remote[m] /\ polling'[m] = polling[m]
    /\ \A awaited \in BOOLEAN : joins'[<<m, awaited>>] \in {joins[<<m, awaited>>], NoRequest}
    /\ Known(m) \subseteq Known(m)' /\ JoinComponents(m)' \subseteq JoinComponents(m)
    /\ m = First /\ m \in Known(m)' => m \in Known(m)
    /\ TokensKnown(m) \subseteq TokensKnown(m)'

\* What is catalogued stays so.
LEMMA CataloguedStays ==
    ASSUME NEW d, NEW o, sources[d] \subseteq sources'[d], links[d] \subseteq links'[d],
           unread \subseteq unread'
    PROVE  /\ \A h : Catalogued(d, o, h) => Catalogued(d, o, h)'
           /\ AllCatalogued(d, o) => AllCatalogued(d, o)'
<1>1. \A h : Found(d, o, h) \subseteq Found(d, o, h)'
  BY DEF Found
<1>2. \A h : Catalogued(d, o, h) => Catalogued(d, o, h)'
  BY <1>1 DEF Catalogued
<1>3. \A h : AtMostOne(Found(d, o, h))' => AtMostOne(Found(d, o, h))
  BY <1>1 DEF AtMostOne
<1>. QED  BY <1>2, <1>3 DEF AllCatalogued

\* The facts of a node survive the steps that leave it alone.
LEMMA UntouchedStays ==
    ASSUME FirstKept, NEW m \in Components, Untouched(m), NodeOK(m)
    PROVE  NodeOK(m)'
<1>1. AllCatalogued(First, m) => AllCatalogued(First, m)'
  BY CataloguedStays DEF FirstKept
<1>2. PublicKey(m)' = PublicKey(m)
  BY DEF PublicKey, Untouched
<1>3. RequestOK(m)'
  BY <1>2 DEF NodeOK, RequestOK, Untouched, FirstKept
<1>4. ProjectsOK(m)'
  BY DEF NodeOK, ProjectsOK, Untouched, Populated
<1>5. StartupOK(m)'
  BY <1>2 DEF NodeOK, StartupOK, Untouched, FirstKept, Registered
<1>6. ToldOK(m)'
  BY <1>1 DEF NodeOK, ToldOK, Untouched
<1>. QED  BY <1>3, <1>4, <1>5, <1>6 DEF NodeOK

\* A step of the node n, or of a handler of its request, that leaves all databases alone.
Quiet == UNCHANGED <<network, catalog>>

\* A step that changes neither rows nor data sources keeps what is said of them.
LEMMA SameFacts ==
    ASSUME NetInv, UNCHANGED <<network, sources, links, unread>>
    PROVE  /\ FirstKept /\ Named' /\ Left'
           /\ MembershipTypeOK'
           /\ \A m \in Components :
                 /\ Known(m)' = Known(m) /\ JoinComponents(m)' = JoinComponents(m)
                 /\ PublicKey(m)' = PublicKey(m) /\ key'[m] = key[m]
                 /\ Registered(m)' = Registered(m)
                 /\ AllCatalogued(First, m) => AllCatalogued(First, m)'
<1>1. /\ table' = table /\ key' = key /\ sources' = sources /\ links' = links
      /\ unread' = unread
  BY DEF network
<1>2. \A m : AllCatalogued(First, m) => AllCatalogued(First, m)'
  BY <1>1, CataloguedStays
<1>3. \A m : /\ Known(m)' = Known(m) /\ JoinComponents(m)' = JoinComponents(m)
             /\ PublicKey(m)' = PublicKey(m)
  BY <1>1 DEF Known, JoinComponents, PublicKey
<1>4. FirstKept
  BY <1>1, <1>3 DEF FirstKept
<1>5. Named'
  BY <1>1, <1>3 DEF NetInv, Named
<1>6. Left'
  BY <1>1, <1>2, <1>3 DEF NetInv, Left
<1>7. MembershipTypeOK'
  BY <1>1 DEF NetInv, TypeOK, MembershipTypeOK
<1>. QED  BY <1>1, <1>2, <1>3, <1>4, <1>5, <1>6, <1>7 DEF Registered

\* The same of a step that changes no database at all.
LEMMA QuietFacts ==
    ASSUME NetInv, Quiet
    PROVE  /\ FirstKept /\ Named' /\ Left'
           /\ MembershipTypeOK'
           /\ \A m \in Components :
                 /\ Known(m)' = Known(m) /\ JoinComponents(m)' = JoinComponents(m)
                 /\ TokensKnown(m)' = TokensKnown(m)
                 /\ PublicKey(m)' = PublicKey(m) /\ key'[m] = key[m]
                 /\ Registered(m)' = Registered(m)
                 /\ AllCatalogued(First, m) => AllCatalogued(First, m)'
<1>1. UNCHANGED <<network, sources, links, unread>> /\ projects' = projects
  BY DEF Quiet, catalog
<1>2. \A m : TokensKnown(m)' = TokensKnown(m)
  BY <1>1 DEF TokensKnown
<1>. QED  BY <1>1, <1>2, SameFacts

\* What the new row of c at d is to the others; J are the join nodes that come with it.
Adds(d, c, k, J) ==
    /\ FirstKept /\ Named' /\ Left' /\ key' = key
    /\ \A m \in Components :
          /\ Known(m)' = Known(m) \cup (IF m = d THEN {c} ELSE {})
          /\ JoinComponents(m)' = IF m = d THEN JoinComponents(m) \cup J ELSE JoinComponents(m)
          /\ PublicKey(m)' = PublicKey(m)
          /\ AllCatalogued(First, m) => AllCatalogued(First, m)'
    /\ table'[d][c].key = k

\* A row that was missing takes nothing from the others.
LEMMA AddsFacts ==
    ASSUME NetInv, NEW d \in Components, NEW c \in Components, c \notin Known(d),
           NEW k \in Keys, k[1] = c, NEW j \in BOOLEAN, j => c = First /\ d # First,
           AddsRow(d, c, k, j), sources' = sources, links' = links, unread' = unread
    PROVE  Adds(d, c, k, IF j THEN {c} ELSE {})
<1> DEFINE J == IF j THEN {c} ELSE {}
<1>0. TypeOK /\ First \in Components
  BY MembershipAssumption DEF NetInv
<1>1. key' = key /\ \A e, x \in Components :
         table'[e][x] = IF e = d /\ x = c THEN Row(k, j) ELSE table[e][x]
  BY DEF AddsRow
<1>2. Row(k, j) # NoRow /\ Row(k, j).key = k /\ Row(k, j).active /\ Row(k, j).is_join = j
  BY RowFields
<1>3. \A m : AllCatalogued(First, m) => AllCatalogued(First, m)'
  BY CataloguedStays
<1>4. \A m \in Components : Known(m)' = Known(m) \cup (IF m = d THEN {c} ELSE {})
  BY <1>1, <1>2 DEF Known
<1>5. \A m \in Components :
         JoinComponents(m)' = IF m = d THEN JoinComponents(m) \cup J ELSE JoinComponents(m)
  <2> TAKE m \in Components
  <2>1. \A x \in Known(m) : x \in Components /\ table'[m][x] = table[m][x]
    BY <1>0, <1>1, NetTypes
  <2>2. m = d => table'[m][c].is_join = j
    BY <1>1, <1>2
  <2>. QED  BY <1>4, <2>1, <2>2 DEF JoinComponents
<1>6. \A m : PublicKey(m)' = PublicKey(m)
  BY <1>1 DEF PublicKey
<1>7. \A x \in Known(First) : x \in Components /\ x \in Known(First)'
                              /\ table'[First][x] = table[First][x]
  BY <1>0, <1>1, <1>4, NetTypes
<1>8. FirstKept
  BY <1>7 DEF FirstKept
<1>9. Named'
  <2>1. \A e, x \in Components : x \in Known(e)' => table'[e][x].key[1] = x
    BY <1>1, <1>2, <1>4 DEF NetInv, Named
  <2>2. \A e \in Components : JoinComponents(e)' \subseteq {First} \ {e}
    BY <1>5 DEF NetInv, Named
  <2>. QED  BY <2>1, <2>2 DEF Named
<1>10. Left'
  <2>1. First = d => table'[First][c].active
    BY <1>0, <1>1, <1>2
  <2>. QED  BY <1>0, <1>3, <1>4, <1>7, <2>1 DEF NetInv, Left
<1> HIDE DEF J
<1>11. Adds(d, c, k, J)
  BY <1>1, <1>2, <1>3, <1>4, <1>5, <1>6, <1>8, <1>9, <1>10 DEF Adds
<1>. QED  BY <1>11 DEF J

\* create_component of a row without the flag, when there is none yet.
LEMMA CreatesPlain ==
    ASSUME NetInv, NEW d \in Components, NEW c \in Components, c \notin Known(d),
           NEW k \in Keys, k[1] = c, CreateComponent(d, c, k, FALSE),
           key' = key, sources' = sources, links' = links, unread' = unread
    PROVE  Adds(d, c, k, {}) /\ MembershipTypeOK'
<1>1. PICK j \in BOOLEAN : j = FALSE
  OBVIOUS
<1>2. AddsRow(d, c, k, j) /\ MembershipTypeOK'
  BY <1>1, CreateAdds DEF NetInv
<1>3. Adds(d, c, k, IF j THEN {c} ELSE {})
  BY <1>1, <1>2, AddsFacts
<1>4. (IF j THEN {c} ELSE {}) = {}
  BY <1>1
<1>. QED  BY <1>2, <1>3, <1>4

\* And of the join node.
LEMMA CreatesJoin ==
    ASSUME NetInv, NEW d \in Components, d # First, First \notin Known(d),
           NEW k \in Keys, k[1] = First, CreateComponent(d, First, k, TRUE),
           key' = key, sources' = sources, links' = links, unread' = unread
    PROVE  Adds(d, First, k, {First}) /\ MembershipTypeOK'
<1>0. First \in Components
  BY MembershipAssumption
<1>1. PICK j \in BOOLEAN : j = TRUE
  OBVIOUS
<1>2. AddsRow(d, First, k, j) /\ MembershipTypeOK'
  BY <1>0, <1>1, CreateAdds DEF NetInv
<1>3. Adds(d, First, k, IF j THEN {First} ELSE {})
  BY <1>0, <1>1, <1>2, AddsFacts
<1>4. (IF j THEN {First} ELSE {}) = {First}
  BY <1>1
<1>. QED  BY <1>2, <1>3, <1>4

\* What is to be shown of a step of n.
LEMMA NetStep ==
    ASSUME NetInv, TypeOK', FirstKept, Named', Left', NEW n \in Components, NodeOK(n)',
           \A m \in Components \ {n} : Untouched(m)
    PROVE  NetInv'
<1>1. \A m \in Components \ {n} : NodeOK(m)'
  BY UntouchedStays DEF NetInv
<1>. QED  BY <1>1 DEF NetInv

\* The parts of NodeOK that a quiet step keeps.
LEMMA RequestQuiet ==
    ASSUME NetInv, Quiet, NEW n \in Components,
           \A awaited \in BOOLEAN :
              joins'[<<n, awaited>>] \in {NoRequest, joins[<<n, TRUE>>], joins[<<n, FALSE>>]},
           joins'[<<n, TRUE>>] \in {NoRequest, joins[<<n, TRUE>>]},
           joins'[<<n, TRUE>>] # NoRequest => phase'[n] = "joining"
    PROVE  RequestOK(n)'
<1>1. table' = table /\ Known(First)' = Known(First) /\ PublicKey(n)' = PublicKey(n)
  BY QuietFacts, MembershipAssumption DEF Quiet, network
<1>2. \A awaited \in BOOLEAN : joins'[<<n, awaited>>] # NoRequest =>
         \E old \in BOOLEAN :
            joins'[<<n, awaited>>] = joins[<<n, old>>] /\ joins[<<n, old>>] # NoRequest
  OBVIOUS
<1>3. RequestOK(n)
  BY DEF NetInv, NodeOK
<1>4. \A awaited \in BOOLEAN : joins'[<<n, awaited>>] # NoRequest =>
         /\ n # First /\ First \in Known(First)'
         /\ joins'[<<n, awaited>>].key[1] = n
         /\ joins'[<<n, awaited>>].step = "created" =>
               n \in Known(First)' /\ table'[First][n].key = joins'[<<n, awaited>>].key
  BY <1>1, <1>2, <1>3 DEF RequestOK
<1>5. joins'[<<n, TRUE>>] # NoRequest =>
         phase'[n] = "joining" /\ joins'[<<n, TRUE>>].key = PublicKey(n)'
  BY <1>1, <1>3 DEF RequestOK
<1>. QED  BY <1>4, <1>5 DEF RequestOK

\* The projects of a node, when its phase at most leaves "populate".
LEMMA ProjectsQuiet ==
    ASSUME NetInv, Quiet, NEW n \in Components, phase'[n] \in {"down", "populate"} \/ Populated(n)
    PROVE  ProjectsOK(n)'
BY QuietFacts DEF NetInv, NodeOK, ProjectsOK, Populated

-----------------------------------------------------------------------------
(* populate_database and join.                                               *)

\* Starting a process.
LEMMA StartNet ==
    ASSUME NetInv, NEW n \in Components, Start(n)
    PROVE  NetInv'
<1>1. /\ phase[n] = "down" /\ phase' = [phase EXCEPT ![n] = "populate"] /\ Quiet
      /\ sessions' = sessions /\ todo' = todo /\ remote' = remote /\ polling' = polling
      /\ joins' = joins /\ faults' = faults
  BY DEF Start, GoTo, Quiet
<1>2. TypeOK'
  <2>1. leaving' \in [Components -> BOOLEAN]
    BY DEF Start, NetInv, TypeOK
  <2>2. CatalogTypeOK'
    BY <1>1 DEF NetInv, TypeOK, CatalogTypeOK, Quiet, catalog
  <2>. QED  BY <1>1, <2>1, <2>2, QuietFacts DEF NetInv, TypeOK, Phases
<1>3. phase'[n] = "populate" /\ \A m \in Components \ {n} : phase'[m] = phase[m]
  BY <1>1 DEF NetInv, TypeOK
<1>4. \A m \in Components \ {n} : Untouched(m)
  BY <1>1, <1>3, QuietFacts DEF Untouched
<1>5. NodeOK(n)'
  <2>1. RequestOK(n)'
    BY <1>1, <1>3, RequestQuiet DEF NetInv, NodeOK, RequestOK
  <2>2. ProjectsOK(n)'
    BY <1>1, <1>3, ProjectsQuiet
  <2>3. StartupOK(n)'
    BY <1>1, <1>3, QuietFacts DEF NetInv, NodeOK, StartupOK
  <2>4. ToldOK(n)'
    BY <1>1, <1>3, QuietFacts DEF NetInv, NodeOK, StartupOK, ToldOK
  <2>. QED  BY <2>1, <2>2, <2>3, <2>4 DEF NodeOK
<1>. QED  BY <1>1, <1>2, <1>4, <1>5, QuietFacts, NetStep

\* The projects that populate_database creates.
LEMMA NewProjects ==
    ASSUME NEW T
    PROVE  LET new == {[token |-> t, named |-> TRUE] : t \in T}
           IN  /\ \A t \in T : \E p \in new : p.token = t
               /\ T \subseteq Tokens => new \subseteq [token : Tokens, named : BOOLEAN]
<1> DEFINE new == {[token |-> t, named |-> TRUE] : t \in T}
<1>1. ASSUME NEW t \in T PROVE \E p \in new : p.token = t
  <2> DEFINE p == [token |-> t, named |-> TRUE]
  <2>1. p \in new
    BY Zenon
  <2>2. p.token = t
    OBVIOUS
  <2>. QED  BY <2>1, <2>2, Zenon
<1>2. ASSUME T \subseteq Tokens, NEW p \in new
      PROVE  p \in [token : Tokens, named : BOOLEAN]
  <2>1. PICK t \in T : p = [token |-> t, named |-> TRUE]
    BY Zenon
  <2>2. t \in Tokens /\ TRUE \in BOOLEAN
    BY <1>2
  <2> DEFINE yes == TRUE
  <2>3. yes \in BOOLEAN /\ p = [token |-> t, named |-> yes]
    BY <2>1
  <2> HIDE DEF yes
  <2>. QED  BY <2>2, <2>3
<1>. QED  BY <1>1, <1>2

\* populate_database: the node's own row, and its initial projects.
LEMMA PopulateNet ==
    ASSUME NetInv, NEW n \in Components, Populate(n)
    PROVE  NetInv'
<1>0. First \in Components
  BY MembershipAssumption
<1>1. /\ phase[n] = "populate" /\ phase' = [phase EXCEPT ![n] = "join"] /\ key' = key
      /\ sessions' = sessions /\ todo' = todo /\ remote' = remote /\ polling' = polling
      /\ joins' = joins /\ faults' = faults /\ leaving' = leaving
      /\ sources' = sources /\ files' = files /\ links' = links
      /\ torn' = torn /\ unread' = unread
      /\ CreateInitialProjects(n)
      /\ IF n \in Known(n) THEN table' = table ELSE CreateComponent(n, n, PublicKey(n), FALSE)
  BY DEF Populate, GoTo, process
<1>2. phase'[n] = "join" /\ \A m \in Components \ {n} : phase'[m] = phase[m]
  BY <1>1 DEF NetInv, TypeOK
<1>3. /\ FirstKept /\ Named' /\ Left' /\ MembershipTypeOK'
      /\ \A m \in Components :
            /\ Known(m)' = Known(m) \cup (IF m = n THEN {n} ELSE {})
            /\ JoinComponents(m)' = JoinComponents(m)
            /\ PublicKey(m)' = PublicKey(m) /\ key'[m] = key[m]
            /\ AllCatalogued(First, m) => AllCatalogued(First, m)'
  <2>1. CASE n \in Known(n)
    BY <1>1, <2>1, SameFacts DEF network
  <2>2. CASE n \notin Known(n)
    <3>1. PublicKey(n) \in Keys /\ PublicKey(n)[1] = n
      BY NetTypes DEF NetInv
    <3>2. PICK k \in Keys : k = PublicKey(n) /\ k[1] = n
      BY <3>1
    <3>3. /\ CreateComponent(n, n, k, FALSE) /\ key' = key
          /\ sources' = sources /\ links' = links /\ unread' = unread
      BY <1>1, <2>2, <3>2
    <3>4. Adds(n, n, k, {}) /\ MembershipTypeOK'
      BY <2>2, <3>2, <3>3, CreatesPlain
    <3>. QED  BY <3>4 DEF Adds
  <2>. QED  BY <2>1, <2>2
<1>4. /\ \A m \in Components : TokensKnown(m) \subseteq TokensKnown(m)'
      /\ Initial[n] \subseteq TokensKnown(n)'
      /\ projects' \in [Components -> SUBSET [token : Tokens, named : BOOLEAN]]
  <2>1. projects \in [Components -> SUBSET [token : Tokens, named : BOOLEAN]]
    BY DEF NetInv, TypeOK, CatalogTypeOK
  <2> DEFINE new == {[token |-> t, named |-> TRUE] : t \in Initial[n] \ TokensKnown(n)}
  <2>2. projects' = [projects EXCEPT ![n] = @ \cup new]
    BY <1>1 DEF CreateInitialProjects
  <2>3. /\ \A t \in Initial[n] \ TokensKnown(n) : \E p \in new : p.token = t
        /\ new \subseteq [token : Tokens, named : BOOLEAN]
    <3>1. Initial[n] \ TokensKnown(n) \subseteq Tokens
      BY CatalogAssumption
    <3>. QED  BY <3>1, NewProjects
  <2> HIDE DEF new
  <2>5. \A m \in Components : projects'[m] = IF m = n THEN projects[m] \cup new ELSE projects[m]
    BY <2>1, <2>2
  <2>6. projects' \in [Components -> SUBSET [token : Tokens, named : BOOLEAN]]
    BY <2>1, <2>2, <2>3
  <2>. QED  BY <2>3, <2>5, <2>6 DEF TokensKnown
<1>5. TypeOK'
  <2>1. CatalogTypeOK'
    BY <1>1, <1>4 DEF NetInv, TypeOK, CatalogTypeOK
  <2>. QED  BY <1>1, <1>3, <2>1 DEF NetInv, TypeOK, Phases
<1>6. \A m \in Components \ {n} : Untouched(m)
  BY <1>1, <1>2, <1>3, <1>4 DEF Untouched
<1>7. NodeOK(n)'
  <2>0. NodeOK(n)
    BY DEF NetInv
  <2>1. RequestOK(n)'
    <3>1. \A c \in Known(First) : c \in Known(First)' /\ table'[First][c].key = table[First][c].key
      BY <1>3 DEF FirstKept
    <3>. QED  BY <1>0, <1>1, <1>3, <2>0, <3>1 DEF NodeOK, RequestOK
  <2>2. ProjectsOK(n)'
    BY <1>3, <1>4 DEF ProjectsOK, Populated
  <2>3. StartupOK(n)'
    BY <1>0, <1>1, <1>2, <1>3, <2>0 DEF NodeOK, StartupOK, Registered, FirstKept
  <2>4. ToldOK(n)'
    BY <1>1, <1>2, <1>3, <2>0 DEF NodeOK, ToldOK
  <2>. QED  BY <2>1, <2>2, <2>3, <2>4 DEF NodeOK
<1>. QED  BY <1>3, <1>5, <1>6, <1>7, NetStep

\* No join: the join node was recorded earlier, hence the node is registered there.
LEMMA NoJoinNet ==
    ASSUME NetInv, NEW n \in Components, NoJoin(n)
    PROVE  NetInv'
<1>1. /\ phase[n] = "join" /\ phase' = [phase EXCEPT ![n] = "metadata"] /\ Quiet
      /\ sessions' = sessions /\ todo' = todo /\ polling' = polling /\ leaving' = leaving
      /\ joins' = joins /\ faults' = faults
      /\ remote' = [remote EXCEPT ![n] = n # First]
      /\ n = First \/ JoinComponents(n) # {}
  BY DEF NoJoin, GoTo, Quiet
<1>2. TypeOK'
  <2>1. CatalogTypeOK'
    BY <1>1 DEF NetInv, TypeOK, CatalogTypeOK, Quiet, catalog
  <2>. QED  BY <1>1, <2>1, QuietFacts DEF NetInv, TypeOK, Phases
<1>3. /\ phase'[n] = "metadata" /\ \A m \in Components \ {n} : phase'[m] = phase[m]
      /\ remote'[n] = (n # First) /\ \A m \in Components \ {n} : remote'[m] = remote[m]
  BY <1>1 DEF NetInv, TypeOK
<1>4. \A m \in Components \ {n} : Untouched(m)
  BY <1>1, <1>3, QuietFacts DEF Untouched
<1>5. NodeOK(n)'
  <2>0. NodeOK(n)
    BY DEF NetInv
  <2>1. RequestOK(n)'
    BY <1>1, <1>3, <2>0, RequestQuiet DEF NodeOK, RequestOK
  <2>2. ProjectsOK(n)'
    BY <1>1, ProjectsQuiet DEF Populated
  <2>3. StartupOK(n)'
    <3>0. JoinComponents(n) \subseteq {First} /\ JoinComponents(n) \subseteq Known(n)
      BY DEF NetInv, Named, JoinComponents
    <3>1. remote'[n] => First \in Known(n)
      BY <1>1, <1>3, <3>0
    <3>. QED  BY <1>1, <1>3, <2>0, <3>1, QuietFacts DEF NodeOK, StartupOK
  <2>4. ToldOK(n)'
    BY <1>1, <1>3, <2>0, QuietFacts DEF NodeOK, StartupOK, ToldOK
  <2>. QED  BY <2>1, <2>2, <2>3, <2>4 DEF NodeOK
<1>. QED  BY <1>1, <1>2, <1>4, <1>5, QuietFacts, NetStep

\* A step that leaves the databases alone.
LEMMA QuietTypes ==
    ASSUME NetInv, Quiet,
           sessions' \in [Slots -> {NoSession} \cup Session],
           phase' \in [Components -> Phases], todo' \in [Components -> Seq(Components)],
           remote' \in [Components -> BOOLEAN], leaving' = leaving,
           polling' \in [Components -> BOOLEAN],
           joins' \in [Components \X BOOLEAN -> {NoRequest} \cup JoinRequest],
           faults' \in 0..MaxFaults
    PROVE  TypeOK'
<1>1. CatalogTypeOK'
  BY DEF NetInv, TypeOK, CatalogTypeOK, Quiet, catalog
<1>. QED  BY <1>1, QuietFacts DEF NetInv, TypeOK

\* The types that a step which does not name a variable may need of it.
LEMMA Unchanged ==
    ASSUME NetInv
    PROVE  /\ sessions' = sessions => sessions' \in [Slots -> {NoSession} \cup Session]
           /\ todo' = todo => todo' \in [Components -> Seq(Components)]
           /\ remote' = remote => remote' \in [Components -> BOOLEAN]
           /\ polling' = polling => polling' \in [Components -> BOOLEAN]
           /\ joins' = joins => joins' \in [Components \X BOOLEAN -> {NoRequest} \cup JoinRequest]
           /\ faults' = faults => faults' \in 0..MaxFaults
BY DEF NetInv, TypeOK, CatalogTypeOK

\* One phase changes.
LEMMA PhaseStep ==
    ASSUME NetInv, NEW n \in Components, NEW p \in Phases, GoTo(n, p)
    PROVE  /\ phase' \in [Components -> Phases]
           /\ phase'[n] = p /\ \A m \in Components \ {n} : phase'[m] = phase[m]
BY DEF NetInv, TypeOK, GoTo

\* One list changes.
LEMMA TodoStep ==
    ASSUME NetInv, NEW n \in Components, NEW s \in Seq(Components), todo' = [todo EXCEPT ![n] = s]
    PROVE  /\ todo' \in [Components -> Seq(Components)]
           /\ todo'[n] = s /\ \A m \in Components \ {n} : todo'[m] = todo[m]
BY DEF NetInv, TypeOK

\* A quiet step of n changes nobody else's startup.
LEMMA QuietNet ==
    ASSUME NetInv, Quiet, TypeOK', NEW n \in Components, NodeOK(n)',
           \A m \in Components \ {n} :
              /\ phase'[m] = phase[m] /\ todo'[m] = todo[m]
              /\ remote'[m] = remote[m] /\ polling'[m] = polling[m]
              /\ \A awaited \in BOOLEAN :
                    joins'[<<m, awaited>>] \in {joins[<<m, awaited>>], NoRequest}
    PROVE  NetInv'
<1>1. \A m \in Components \ {n} : Untouched(m)
  BY QuietFacts DEF Untouched
<1>. QED  BY <1>1, QuietFacts, NetStep

\* The request carries the key the node has now.
LEMMA SendJoinNet ==
    ASSUME NetInv, NEW n \in Components, SendJoin(n)
    PROVE  NetInv'
<1>0. First \in Components /\ NodeOK(n) /\ NodeOK(First)
  BY MembershipAssumption DEF NetInv
<1> DEFINE r == [step |-> "sent", key |-> PublicKey(n)]
<1>1. /\ phase[n] = "join" /\ n # First /\ phase[First] = "up" /\ GoTo(n, "joining") /\ Quiet
      /\ joins' = [joins EXCEPT ![<<n, TRUE>>] = r]
      /\ sessions' = sessions /\ todo' = todo /\ remote' = remote /\ polling' = polling
      /\ leaving' = leaving /\ faults' = faults
  BY DEF SendJoin, MustJoin, Serves, Quiet, process
<1>2. /\ phase' \in [Components -> Phases]
      /\ phase'[n] = "joining" /\ \A m \in Components \ {n} : phase'[m] = phase[m]
  BY <1>1, PhaseStep DEF Phases
<1>3. PublicKey(n) \in Keys /\ PublicKey(n)[1] = n /\ PublicKey(n)' = PublicKey(n)
  BY <1>1, NetTypes, QuietFacts DEF NetInv
<1>4. r \in JoinRequest /\ r # NoRequest /\ r.step = "sent" /\ r.key = PublicKey(n)
  BY <1>3, OnboardingAssumption DEF JoinRequest, Keys
<1> HIDE DEF r
<1>5. /\ joins' \in [Components \X BOOLEAN -> {NoRequest} \cup JoinRequest]
      /\ joins'[<<n, TRUE>>] = r /\ joins'[<<n, FALSE>>] = joins[<<n, FALSE>>]
      /\ \A m \in Components \ {n} : \A awaited \in BOOLEAN :
            joins'[<<m, awaited>>] = joins[<<m, awaited>>]
  BY <1>1, <1>4 DEF NetInv, TypeOK
<1>6. TypeOK'
  BY <1>1, <1>2, <1>5, QuietTypes, Unchanged
<1>7. First \in Known(First) /\ Known(First)' = Known(First) /\ table' = table
  BY <1>0, <1>1, QuietFacts DEF NodeOK, ProjectsOK, Populated, Quiet, network
<1>8. NodeOK(n)'
  <2>1. RequestOK(n)'
    <3>1. \A awaited \in BOOLEAN : joins'[<<n, awaited>>] # NoRequest =>
             /\ n # First /\ First \in Known(First)'
             /\ joins'[<<n, awaited>>].key[1] = n
             /\ joins'[<<n, awaited>>].step = "created" =>
                   n \in Known(First)' /\ table'[First][n].key = joins'[<<n, awaited>>].key
      <4> TAKE awaited \in BOOLEAN
      <4>1. CASE awaited = TRUE
        BY <1>1, <1>3, <1>4, <1>5, <1>7, <4>1
      <4>2. CASE awaited = FALSE
        <5>1. joins'[<<n, awaited>>] = joins[<<n, awaited>>]
          BY <1>5, <4>2
        <5>2. RequestOK(n)
          BY <1>0 DEF NodeOK
        <5>. QED  BY <1>7, <5>1, <5>2 DEF RequestOK
      <4>. QED  BY <4>1, <4>2
    <3>. QED  BY <1>2, <1>3, <1>4, <1>5, <3>1 DEF RequestOK
  <2>2. ProjectsOK(n)'
    BY <1>1, ProjectsQuiet DEF Populated
  <2>3. StartupOK(n)'
    BY <1>0, <1>1, <1>2, QuietFacts DEF NodeOK, StartupOK
  <2>4. ToldOK(n)'
    BY <1>0, <1>1, <1>2, QuietFacts DEF NodeOK, ToldOK
  <2>. QED  BY <2>1, <2>2, <2>3, <2>4 DEF NodeOK
<1>. QED  BY <1>1, <1>2, <1>5, <1>6, <1>8, QuietNet

\* A join that fails leaves the node as it was.
LEMMA JoinFailsNet ==
    ASSUME NetInv, NEW n \in Components, JoinFails(n)
    PROVE  NetInv'
<1>0. NodeOK(n)
  BY DEF NetInv
<1>1. /\ phase[n] \in {"join", "joining"} /\ GoTo(n, "metadata") /\ Quiet
      /\ joins[<<n, TRUE>>] = NoRequest
      /\ joins' = joins /\ sessions' = sessions /\ todo' = todo /\ remote' = remote
      /\ polling' = polling /\ leaving' = leaving /\ faults' = faults
  BY <1>0 DEF JoinFails, MustJoin, Quiet, process, NodeOK, RequestOK
<1>2. /\ phase' \in [Components -> Phases]
      /\ phase'[n] = "metadata" /\ \A m \in Components \ {n} : phase'[m] = phase[m]
  BY <1>1, PhaseStep DEF Phases
<1>3. TypeOK'
  BY <1>1, <1>2, QuietTypes, Unchanged
<1>4. NodeOK(n)'
  <2>1. RequestOK(n)'
    BY <1>1, RequestQuiet
  <2>2. ProjectsOK(n)'
    BY <1>1, ProjectsQuiet DEF Populated
  <2>3. StartupOK(n)'
    BY <1>0, <1>1, <1>2, QuietFacts DEF NodeOK, StartupOK
  <2>4. ToldOK(n)'
    BY <1>0, <1>1, <1>2, QuietFacts DEF NodeOK, ToldOK
  <2>. QED  BY <2>1, <2>2, <2>3, <2>4 DEF NodeOK
<1>. QED  BY <1>1, <1>2, <1>3, <1>4, QuietNet

-----------------------------------------------------------------------------
(* The handler of /node/join.                                                *)

\* The handler registers the sender by the key in its request, or refuses it.
LEMMA ConnectNet ==
    ASSUME NetInv, NEW slot \in Components \X BOOLEAN, Connect(slot)
    PROVE  NetInv'
<1>0. First \in Components
  BY MembershipAssumption
<1>1. PICK n \in Components, b \in BOOLEAN : slot = <<n, b>>
  OBVIOUS
<1>2. PICK k \in Keys : k = joins[slot].key
  BY <1>1, NetTypes DEF Connect, NetInv
<1>3. /\ joins[slot] # NoRequest /\ joins[slot].step = "sent"
      /\ IF MayConnect(First, n, k)
         THEN CreateComponent(First, n, k, FALSE) /\ joins' = [joins EXCEPT ![slot].step = "created"]
         ELSE joins' = [joins EXCEPT ![slot].step = "refused"] /\ table' = table
      /\ key' = key /\ UNCHANGED catalog
      /\ sessions' = sessions /\ phase' = phase /\ todo' = todo /\ remote' = remote
      /\ polling' = polling /\ leaving' = leaving /\ faults' = faults
  BY <1>1, <1>2 DEF Connect, process
<1>4. NodeOK(n) /\ n # First /\ First \in Known(First) /\ k[1] = n
  <2>1. NodeOK(n) /\ RequestOK(n)
    BY DEF NetInv, NodeOK
  <2>2. joins[<<n, b>>] # NoRequest /\ joins[<<n, b>>].key = k
    BY <1>1, <1>2, <1>3
  <2>. QED  BY <2>1, <2>2 DEF RequestOK
<1>5. /\ joins' \in [Components \X BOOLEAN -> {NoRequest} \cup JoinRequest]
      /\ joins'[slot].key = k /\ joins'[slot] # NoRequest
      /\ \A other \in Components \X BOOLEAN : other # slot => joins'[other] = joins[other]
  <2>1. joins[slot] \in JoinRequest
    BY <1>3 DEF NetInv, TypeOK
  <2>2. PICK p \in {"created", "refused"} : joins' = [joins EXCEPT ![slot].step = p]
    BY <1>3
  <2>3. [joins[slot] EXCEPT !.step = p] \in JoinRequest /\ [joins[slot] EXCEPT !.step = p].key = k
    BY <1>2, <2>1 DEF JoinRequest
  <2>. QED  BY <2>2, <2>3, OnboardingAssumption DEF NetInv, TypeOK
<1>6. \A m \in Components \ {n} : \A awaited \in BOOLEAN :
         joins'[<<m, awaited>>] = joins[<<m, awaited>>]
  BY <1>1, <1>5
<1>7. CASE ~ MayConnect(First, n, k)
  <2>1. Quiet
    BY <1>3, <1>7 DEF Quiet, network
  <2>2. joins'[slot].step = "refused"
    BY <1>3, <1>7 DEF NetInv, TypeOK, JoinRequest
  <2>3. TypeOK'
    BY <1>3, <1>5, <2>1, QuietTypes, Unchanged DEF NetInv, TypeOK
  <2>4. NodeOK(n)'
    <3>1. RequestOK(n)'
      <4>1. RequestOK(n) /\ table' = table /\ Known(First)' = Known(First)
            /\ PublicKey(n)' = PublicKey(n)
        BY <1>0, <1>4, <2>1, QuietFacts DEF NodeOK, Quiet, network
      <4>2. /\ joins'[slot].key = joins[slot].key /\ joins'[slot].step # "created"
            /\ joins[slot] # NoRequest
        BY <1>2, <1>3, <1>5, <2>2
      <4>3. \A awaited \in BOOLEAN :
               /\ joins'[<<n, awaited>>] # NoRequest <=> joins[<<n, awaited>>] # NoRequest
               /\ joins'[<<n, awaited>>].key = joins[<<n, awaited>>].key
               /\ joins'[<<n, awaited>>].step = "created" => joins[<<n, awaited>>].step = "created"
        <5> TAKE awaited \in BOOLEAN
        <5>1. CASE <<n, awaited>> = slot
          BY <1>5, <4>2, <5>1
        <5>2. CASE <<n, awaited>> # slot
          BY <1>5, <5>2
        <5>. QED  BY <5>1, <5>2
      <4>. QED  BY <1>3, <4>1, <4>3 DEF RequestOK
    <3>2. ProjectsOK(n)' /\ StartupOK(n)' /\ ToldOK(n)'
      BY <1>0, <1>3, <1>4, <2>1, QuietFacts
         DEF NodeOK, ProjectsOK, StartupOK, ToldOK, Populated
    <3>. QED  BY <3>1, <3>2 DEF NodeOK
  <2>. QED  BY <1>3, <1>6, <2>1, <2>3, <2>4, QuietNet
<1>8. CASE MayConnect(First, n, k)
  <2>1. n \notin Known(First)
    BY <1>8 DEF MayConnect, AlreadyExists
  <2>2. sources' = sources /\ links' = links /\ projects' = projects /\ unread' = unread
    BY <1>3 DEF catalog
  <2>3. CreateComponent(First, n, k, FALSE) /\ key' = key
    BY <1>3, <1>8
  <2>4. Adds(First, n, k, {}) /\ MembershipTypeOK'
    BY <1>0, <1>4, <2>1, <2>2, <2>3, CreatesPlain
  <2>5. /\ FirstKept /\ Named' /\ Left'
        /\ \A m \in Components :
              /\ Known(m)' = Known(m) \cup (IF m = First THEN {n} ELSE {})
              /\ JoinComponents(m)' = JoinComponents(m)
              /\ TokensKnown(m)' = TokensKnown(m)
              /\ PublicKey(m)' = PublicKey(m) /\ key'[m] = key[m]
              /\ AllCatalogued(First, m) => AllCatalogued(First, m)'
        /\ table'[First][n].key = k
    BY <2>2, <2>4 DEF Adds, TokensKnown
  <2>6. TypeOK'
    <3>1. CatalogTypeOK'
      BY <1>3 DEF NetInv, TypeOK, CatalogTypeOK, catalog
    <3>. QED  BY <1>3, <1>5, <2>4, <3>1 DEF NetInv, TypeOK
  <2>7. \A m \in Components \ {n} : Untouched(m)
    BY <1>3, <1>4, <1>6, <2>5 DEF Untouched
  <2>8. NodeOK(n)'
    <3>1. RequestOK(n)'
      <4>1. RequestOK(n) /\ n \in Known(First)' /\ First \in Known(First)'
        BY <1>0, <1>4, <2>5 DEF NodeOK
      <4>2. \A awaited \in BOOLEAN : <<n, awaited>> # slot =>
               joins'[<<n, awaited>>] = joins[<<n, awaited>>]
        BY <1>5
      <4>3. \A awaited \in BOOLEAN : joins'[<<n, awaited>>] # NoRequest =>
               /\ joins'[<<n, awaited>>].key[1] = n
               /\ joins'[<<n, awaited>>].step = "created" =>
                     table'[First][n].key = joins'[<<n, awaited>>].key
        <5> TAKE awaited \in BOOLEAN
        <5>1. CASE <<n, awaited>> = slot
          BY <1>4, <1>5, <2>5, <5>1
        <5>2. CASE <<n, awaited>> # slot
          BY <2>1, <4>1, <4>2, <5>2 DEF RequestOK
        <5>. QED  BY <5>1, <5>2
      <4>4. joins'[<<n, TRUE>>] # NoRequest =>
               phase'[n] = "joining" /\ joins'[<<n, TRUE>>].key = PublicKey(n)'
        <5>1. CASE <<n, TRUE>> = slot
          BY <1>2, <1>3, <1>5, <2>5, <4>1, <5>1 DEF RequestOK
        <5>2. CASE <<n, TRUE>> # slot
          BY <1>3, <2>5, <4>1, <4>2, <5>2 DEF RequestOK
        <5>. QED  BY <5>1, <5>2
      <4>. QED  BY <1>4, <4>1, <4>3, <4>4 DEF RequestOK
    <3>2. ProjectsOK(n)'
      BY <1>3, <1>4, <2>5 DEF NodeOK, ProjectsOK, Populated
    <3>3. StartupOK(n)'
      BY <1>0, <1>3, <1>4, <2>5 DEF NodeOK, StartupOK, Registered, FirstKept
    <3>4. ToldOK(n)'
      BY <1>3, <1>4, <2>5 DEF NodeOK, ToldOK
    <3>. QED  BY <3>1, <3>2, <3>3, <3>4 DEF NodeOK
  <2>. QED  BY <2>5, <2>6, <2>7, <2>8, NetStep
<1>. QED  BY <1>7, <1>8

\* A refusal is an answer like any other.
LEMMA RefuseNet ==
    ASSUME NetInv, NEW slot \in Components \X BOOLEAN, Refuse(slot)
    PROVE  NetInv'
<1>0. PICK n \in Components, b \in BOOLEAN : slot = <<n, b>>
  OBVIOUS
<1>1. /\ joins[slot] # NoRequest /\ Quiet
      /\ IF b THEN GoTo(n, "metadata") ELSE phase' = phase
      /\ joins' = [joins EXCEPT ![slot] = NoRequest]
      /\ sessions' = sessions /\ todo' = todo /\ remote' = remote
      /\ polling' = polling /\ leaving' = leaving /\ faults' = faults
  BY <1>0 DEF Refuse, Quiet, process
<1>2. NodeOK(n) /\ (b => phase[n] = "joining")
  BY <1>0, <1>1 DEF NetInv, NodeOK, RequestOK
<1>3. /\ phase' \in [Components -> Phases]
      /\ phase'[n] = IF b THEN "metadata" ELSE phase[n]
      /\ \A m \in Components \ {n} : phase'[m] = phase[m]
  <2>1. CASE b
    BY <1>1, <2>1, PhaseStep DEF Phases
  <2>2. CASE ~ b
    BY <1>1, <2>2 DEF NetInv, TypeOK
  <2>. QED  BY <2>1, <2>2
<1>4. /\ joins' \in [Components \X BOOLEAN -> {NoRequest} \cup JoinRequest]
      /\ \A m \in Components, awaited \in BOOLEAN :
            joins'[<<m, awaited>>] = IF <<m, awaited>> = slot THEN NoRequest
                                     ELSE joins[<<m, awaited>>]
  BY <1>1 DEF NetInv, TypeOK
<1>5. TypeOK'
  BY <1>1, <1>3, <1>4, QuietTypes, Unchanged
<1>6. NodeOK(n)'
  <2>1. RequestOK(n)'
    <3>1. joins'[<<n, TRUE>>] # NoRequest => phase'[n] = "joining"
      BY <1>0, <1>2, <1>3, <1>4 DEF NodeOK, RequestOK
    <3>. QED  BY <1>1, <1>4, <3>1, RequestQuiet
  <2>2. ProjectsOK(n)'
    BY <1>1, <1>2, <1>3, ProjectsQuiet DEF Populated
  <2>3. StartupOK(n)'
    <3>1. CASE b
      BY <1>1, <1>2, <1>3, <3>1, QuietFacts DEF NodeOK, StartupOK
    <3>2. CASE ~ b
      <4>1. /\ phase'[n] = phase[n] /\ todo' = todo /\ remote' = remote /\ polling' = polling
            /\ StartupOK(n)
        BY <1>1, <1>2, <1>3, <3>2 DEF NodeOK
      <4>2. Quiet
        BY <1>1
      <4>. QED  BY <4>1, <4>2, QuietFacts, MembershipAssumption DEF StartupOK
    <3>. QED  BY <3>1, <3>2
  <2>4. ToldOK(n)'
    BY <1>1, <1>2, <1>3, QuietFacts DEF NodeOK, ToldOK
  <2>. QED  BY <2>1, <2>2, <2>3, <2>4 DEF NodeOK
<1>. QED  BY <1>1, <1>3, <1>4, <1>5, <1>6, QuietNet

\* The list of nodes that the answer carries: the first node knows them all, and a client
\* is told of no other.
LEMMA JoinNodesList ==
    ASSUME NetInv, First \in Known(First), NEW n \in Components, NEW nodes \in JoinNodes(First, n)
    PROVE  /\ nodes \in Seq(Components) /\ ToSet(nodes) \subseteq Known(First)
           /\ n \notin NodeMode => ToSet(nodes) \subseteq {First} /\ nodes # << >>
<1>0. First \in Components /\ IsFiniteSet(Components) /\ Known(First) \subseteq Components
  BY MembershipAssumption DEF Known
<1> DEFINE others == IF n \in NodeMode THEN ListNodes(First) \ {n, First} ELSE {}
<1>1. others \subseteq Known(First) /\ others \in SUBSET Components
  BY <1>0 DEF ListNodes
<1>2. PICK s \in SetToSeqs(others) : nodes = Append(s, First)
  BY DEF JoinNodes
<1>3. IsFiniteSet(others)
  BY <1>0, <1>1, FS_Subset
<1>4. s \in Seq(others) /\ ToSet(s) = others
  BY <1>3, ListsAll
<1>5. n \notin NodeMode => others = {}
  OBVIOUS
<1> HIDE DEF others
<1>6. s \in Seq(Components)
  BY <1>1, <1>4, SeqMonotonic
<1>7. nodes \in Seq(Components) /\ ToSet(nodes) = others \cup {First}
  BY <1>0, <1>2, <1>4, <1>6, AppendSet
<1>8. nodes # << >>
  BY <1>7, EmptyList
<1>. QED  BY <1>1, <1>5, <1>7, <1>8

\* The answer lists nodes that the first node knows, itself included.
LEMMA JoinedNet ==
    ASSUME NetInv, NEW slot \in Components \X BOOLEAN, Joined(slot)
    PROVE  NetInv'
<1>1. PICK n \in Components, b \in BOOLEAN : slot = <<n, b>>
  OBVIOUS
<1>2. /\ joins[slot] # NoRequest /\ joins[slot].step = "created" /\ Quiet
      /\ joins' = [joins EXCEPT ![slot] = NoRequest]
      /\ sessions' = sessions /\ polling' = polling /\ leaving' = leaving /\ faults' = faults
  <2>1. table' = table
    BY AnnouncesNobody DEF Joined, NetInv
  <2>. QED  BY <2>1 DEF Joined, Quiet, network
<1>3. PICK nodes \in JoinNodes(First, n) :
         IF b
         THEN /\ todo' = [todo EXCEPT ![n] = nodes]
              /\ remote' = [remote EXCEPT ![n] = TRUE]
              /\ GoTo(n, "record")
         ELSE todo' = todo /\ remote' = remote /\ phase' = phase
  BY <1>1 DEF Joined
<1>4. /\ NodeOK(n) /\ n # First /\ First \in Known(First)
      /\ n \in Known(First) /\ table[First][n].key = joins[slot].key
      /\ b => phase[n] = "joining" /\ Registered(n)
  <2>1. NodeOK(n)
    BY DEF NetInv
  <2>2. /\ n # First /\ First \in Known(First)
        /\ n \in Known(First) /\ table[First][n].key = joins[slot].key
    BY <1>1, <1>2, <2>1 DEF NodeOK, RequestOK
  <2>3. b => phase[n] = "joining" /\ joins[slot].key = PublicKey(n)
    BY <1>1, <1>2, <2>1 DEF NodeOK, RequestOK
  <2>. QED  BY <2>1, <2>2, <2>3 DEF Registered
<1>5. /\ nodes \in Seq(Components) /\ ToSet(nodes) \subseteq Known(First)
      /\ n \notin NodeMode => ToSet(nodes) \subseteq {First} /\ nodes # << >>
  BY <1>4, JoinNodesList
<1>6. /\ phase' \in [Components -> Phases] /\ todo' \in [Components -> Seq(Components)]
      /\ remote' \in [Components -> BOOLEAN]
      /\ \A m \in Components \ {n} :
            phase'[m] = phase[m] /\ todo'[m] = todo[m] /\ remote'[m] = remote[m]
      /\ b => phase'[n] = "record" /\ todo'[n] = nodes /\ remote'[n]
      /\ ~ b => phase'[n] = phase[n] /\ todo'[n] = todo[n] /\ remote'[n] = remote[n]
  <2>1. CASE b
    <3>1. /\ phase' \in [Components -> Phases] /\ phase'[n] = "record"
          /\ \A m \in Components \ {n} : phase'[m] = phase[m]
      BY <1>3, <2>1, PhaseStep DEF Phases
    <3>2. /\ todo' \in [Components -> Seq(Components)] /\ todo'[n] = nodes
          /\ \A m \in Components \ {n} : todo'[m] = todo[m]
      BY <1>3, <1>5, <2>1, TodoStep
    <3>3. /\ remote' \in [Components -> BOOLEAN] /\ remote'[n]
          /\ \A m \in Components \ {n} : remote'[m] = remote[m]
      BY <1>3, <2>1 DEF NetInv, TypeOK
    <3>. QED  BY <2>1, <3>1, <3>2, <3>3
  <2>2. CASE ~ b
    BY <1>3, <2>2 DEF NetInv, TypeOK
  <2>. QED  BY <2>1, <2>2
<1>7. /\ joins' \in [Components \X BOOLEAN -> {NoRequest} \cup JoinRequest]
      /\ \A m \in Components, awaited \in BOOLEAN :
            joins'[<<m, awaited>>] = IF <<m, awaited>> = slot THEN NoRequest
                                     ELSE joins[<<m, awaited>>]
  BY <1>2 DEF NetInv, TypeOK
<1>8. TypeOK'
  BY <1>2, <1>6, <1>7, QuietTypes, Unchanged
<1>9. NodeOK(n)'
  <2>1. RequestOK(n)'
    <3>1. joins'[<<n, TRUE>>] # NoRequest => phase'[n] = "joining"
      <4>1. CASE b
        BY <1>1, <1>7, <4>1
      <4>2. CASE ~ b
        BY <1>4, <1>6, <1>7, <4>2 DEF NodeOK, RequestOK
      <4>. QED  BY <4>1, <4>2
    <3>. QED  BY <1>2, <1>7, <3>1, RequestQuiet
  <2>2. ProjectsOK(n)'
    <3>1. phase'[n] \in {"down", "populate"} \/ Populated(n)
      BY <1>4, <1>6 DEF Populated
    <3>. QED  BY <1>2, <3>1, ProjectsQuiet
  <2>3. StartupOK(n)'
    <3>1. CASE b
      <4>1. Registered(n)' /\ Known(First)' = Known(First)
        BY <1>2, <1>4, <3>1, QuietFacts, MembershipAssumption
      <4>2. polling'[n] = polling[n] /\ ~ polling[n]
        BY <1>2, <1>4, <3>1 DEF NodeOK, StartupOK
      <4>. QED  BY <1>4, <1>5, <1>6, <3>1, <4>1, <4>2 DEF StartupOK
    <3>2. CASE ~ b
      <4>1. /\ phase'[n] = phase[n] /\ todo'[n] = todo[n] /\ remote'[n] = remote[n]
            /\ polling' = polling /\ StartupOK(n)
        BY <1>2, <1>4, <1>6, <3>2 DEF NodeOK
      <4>. QED  BY <1>2, <4>1, QuietFacts, MembershipAssumption DEF StartupOK
    <3>. QED  BY <3>1, <3>2
  <2>4. ToldOK(n)'
    <3>1. CASE b
      BY <1>2, <1>4, <1>6, <3>1 DEF NodeOK, StartupOK, ToldOK
    <3>2. CASE ~ b
      <4>1. /\ phase'[n] = phase[n] /\ todo'[n] = todo[n] /\ remote'[n] = remote[n]
            /\ polling' = polling /\ ToldOK(n)
        BY <1>2, <1>4, <1>6, <3>2 DEF NodeOK
      <4>. QED  BY <1>2, <4>1, QuietFacts DEF ToldOK
    <3>. QED  BY <3>1, <3>2
  <2>. QED  BY <2>1, <2>2, <2>3, <2>4 DEF NodeOK
<1>. QED  BY <1>2, <1>6, <1>7, <1>8, <1>9, QuietNet

\* One node of the answer is recorded; the join node is the first one, which has registered the sender.
LEMMA RecordNet ==
    ASSUME NetInv, NEW n \in Components, Record(n)
    PROVE  NetInv'
<1>0. First \in Components /\ NodeOK(n)
  BY MembershipAssumption DEF NetInv
<1>1. /\ phase[n] = "record" /\ key' = key /\ UNCHANGED catalog
      /\ sessions' = sessions /\ remote' = remote /\ polling' = polling
      /\ leaving' = leaving /\ joins' = joins /\ faults' = faults
  BY DEF Record
<1>2. /\ n # First /\ remote[n] /\ Registered(n) /\ ToSet(todo[n]) \subseteq Known(First)
      /\ n \notin NodeMode => ToSet(todo[n]) \subseteq {First}
                              /\ (todo[n] = << >> => First \in Known(n))
      /\ ~ polling[n] /\ todo[n] \in Seq(Components)
      /\ joins[<<n, TRUE>>] = NoRequest
  BY <1>0, <1>1 DEF NetInv, TypeOK, NodeOK, RequestOK, StartupOK
<1>3. CatalogTypeOK' /\ leaving' \in [Components -> BOOLEAN]
  BY <1>1 DEF NetInv, TypeOK, CatalogTypeOK, catalog
<1>4. sources' = sources /\ links' = links /\ projects' = projects /\ unread' = unread
  BY <1>1 DEF catalog
<1> DEFINE c == Head(todo[n])
<1>5. CASE /\ todo[n] # << >> /\ ~ AlreadyExists(n, c, table[First][c].key)
           /\ CreateComponent(n, c, table[First][c].key, c = First)
           /\ todo' = [todo EXCEPT ![n] = Tail(todo[n])] /\ phase' = phase
  <2>1. /\ c \in ToSet(todo[n]) /\ c \in Components /\ Tail(todo[n]) \in Seq(Components)
        /\ ToSet(todo[n]) = {c} \cup ToSet(Tail(todo[n]))
    BY <1>2, <1>5, TailSet
  <2>2. c \in Known(First) /\ c \notin Known(n)
    BY <1>2, <1>5, <2>1 DEF AlreadyExists
  <2>3. PICK k \in Keys : k = table[First][c].key /\ k[1] = c
    BY <1>0, <2>1, <2>2, NetTypes DEF NetInv, Named
  <2> DEFINE J == IF c = First THEN {First} ELSE {}
  <2>4. Adds(n, c, k, J) /\ MembershipTypeOK'
    <3>1. CASE c = First
      <4>1. CreateComponent(n, First, k, TRUE) /\ First \notin Known(n) /\ k[1] = First
        BY <1>5, <2>2, <2>3, <3>1
      <4>2. Adds(n, First, k, {First}) /\ MembershipTypeOK'
        BY <1>1, <1>2, <1>4, <4>1, CreatesJoin
      <4>. QED  BY <3>1, <4>2
    <3>2. CASE c # First
      <4>1. PICK d \in Components : d = c
        BY <2>1
      <4>2. CreateComponent(n, d, k, FALSE) /\ d \notin Known(n) /\ k[1] = d
        BY <1>5, <2>2, <2>3, <3>2, <4>1
      <4>3. Adds(n, d, k, {}) /\ MembershipTypeOK'
        BY <1>1, <1>4, <4>2, CreatesPlain
      <4>. QED  BY <3>2, <4>1, <4>3
    <3>. QED  BY <3>1, <3>2
  <2>5. /\ todo' \in [Components -> Seq(Components)] /\ todo'[n] = Tail(todo[n])
        /\ \A m \in Components \ {n} : todo'[m] = todo[m]
    BY <1>5, <2>1 DEF NetInv, TypeOK
  <2>6. TypeOK'
    BY <1>1, <1>3, <1>5, <2>4, <2>5 DEF NetInv, TypeOK
  <2> HIDE DEF c, J
  <2>7. /\ FirstKept /\ Named' /\ Left' /\ key' = key
        /\ \A m \in Components :
              /\ Known(m)' = Known(m) \cup (IF m = n THEN {c} ELSE {})
              /\ JoinComponents(m)' = IF m = n THEN JoinComponents(m) \cup J ELSE JoinComponents(m)
              /\ PublicKey(m)' = PublicKey(m) /\ TokensKnown(m)' = TokensKnown(m)
              /\ AllCatalogued(First, m) => AllCatalogued(First, m)'
    BY <1>4, <2>4 DEF Adds, TokensKnown
  <2>8. \A m \in Components \ {n} : Untouched(m)
    BY <1>1, <1>5, <2>5, <2>7 DEF Untouched
  <2>9. NodeOK(n)'
    <3>1. RequestOK(n)'
      BY <1>0, <1>1, <1>2, <2>7 DEF NodeOK, RequestOK, FirstKept
    <3>2. ProjectsOK(n)'
      BY <1>0, <1>1, <1>2, <1>5, <2>7 DEF NodeOK, ProjectsOK, Populated
    <3>3. StartupOK(n)'
      <4>1. Registered(n)' /\ Known(First) \subseteq Known(First)'
        BY <1>0, <1>2, <2>7 DEF Registered, FirstKept
      <4>2. n \notin NodeMode => c = First
        BY <1>2, <2>1
      <4>3. c \in Known(n)'
        BY <2>7
      <4>. QED  BY <1>1, <1>2, <1>5, <2>1, <2>5, <4>1, <4>2, <4>3 DEF StartupOK
    <3>4. ToldOK(n)'
      BY <1>1, <1>2, <1>5 DEF ToldOK
    <3>. QED  BY <3>1, <3>2, <3>3, <3>4 DEF NodeOK
  <2>. QED  BY <2>6, <2>7, <2>8, <2>9, NetStep
<1>6. CASE /\ ~ (todo[n] # << >> /\ ~ AlreadyExists(n, c, table[First][c].key))
           /\ todo' = [todo EXCEPT ![n] = << >>] /\ GoTo(n, "metadata") /\ table' = table
  <2>1. Quiet
    BY <1>1, <1>6 DEF Quiet, network
  <2>2. /\ phase' \in [Components -> Phases] /\ phase'[n] = "metadata"
        /\ \A m \in Components \ {n} : phase'[m] = phase[m]
    BY <1>6, PhaseStep DEF Phases
  <2>3. /\ todo' \in [Components -> Seq(Components)]
        /\ \A m \in Components \ {n} : todo'[m] = todo[m]
    BY <1>6 DEF NetInv, TypeOK
  <2>4. TypeOK'
    BY <1>1, <2>1, <2>2, <2>3, QuietTypes, Unchanged
  <2>5. n \notin NodeMode => First \in Known(n)
    <3>1. SUFFICES ASSUME n \notin NodeMode, todo[n] # << >> PROVE First \in Known(n)
      BY <1>2
    <3>2. c = First
      BY <1>2, <3>1, TailSet
    <3>3. PICK x \in Components : x \in Known(n) /\
             (x = First \/ table[n][x].key = table[First][First].key)
      BY <1>0, <1>6, <3>1, <3>2 DEF AlreadyExists, KeyInUse, Known
    <3>4. First \in Known(First)
      BY <1>2, <3>1, <3>2, TailSet
    <3>5. table[First][First].key[1] = First /\ table[n][x].key[1] = x
      BY <1>0, <3>3, <3>4 DEF NetInv, Named
    <3>. QED  BY <3>3, <3>5
  <2>6. NodeOK(n)'
    <3>1. RequestOK(n)'
      BY <1>1, <1>2, <2>1, RequestQuiet
    <3>2. ProjectsOK(n)'
      BY <1>1, <2>1, ProjectsQuiet DEF Populated
    <3>3. StartupOK(n)'
      BY <1>1, <1>2, <2>1, <2>2, <2>5, QuietFacts DEF StartupOK
    <3>4. ToldOK(n)'
      BY <1>1, <1>2, <2>2 DEF ToldOK
    <3>. QED  BY <3>1, <3>2, <3>3, <3>4 DEF NodeOK
  <2>. QED  BY <1>1, <2>1, <2>2, <2>3, <2>4, <2>6, QuietNet
<1>7. \/ /\ todo[n] # << >> /\ ~ AlreadyExists(n, c, table[First][c].key)
         /\ CreateComponent(n, c, table[First][c].key, c = First)
         /\ todo' = [todo EXCEPT ![n] = Tail(todo[n])] /\ phase' = phase
      \/ /\ ~ (todo[n] # << >> /\ ~ AlreadyExists(n, c, table[First][c].key))
         /\ todo' = [todo EXCEPT ![n] = << >>] /\ GoTo(n, "metadata") /\ table' = table
  BY DEF Record
<1>. QED  BY <1>5, <1>6, <1>7

-----------------------------------------------------------------------------
(* Sessions.                                                                 *)

\* The data sources of a component, in the order of its configuration.
LEMMA DataSeq ==
    ASSUME NEW o \in Components
    PROVE  /\ Data[o] \in Seq(Hashes) /\ Len(Data[o]) \in Nat
           /\ DOMAIN Data[o] = 1 .. Len(Data[o]) /\ IsInjective(Data[o])
           /\ Rest(o, 1) = Data[o]
           /\ \A i \in 1 .. Len(Data[o]) : Data[o][i] \in Hashes
<1>1. Data[o] \in Seq(Hashes) /\ IsInjective(Data[o])
  BY CatalogAssumption
<1>2. Rest(o, 1) = Data[o]
  BY <1>1, SubSeqFull DEF Rest
<1>. QED  BY <1>1, <1>2, LenProperties, ElementOfSeq

\* The metadatas that a session may have left to take in.
Metas == UNION {{SubSeq(Data[c], i, Len(Data[c])) : i \in 1..Len(Data[c]) + 1} : c \in Components}

\* What is left of a metadata has the type of one.
LEMMA RestMeta ==
    ASSUME NEW o \in Components, NEW i \in 1 .. (Len(Data[o]) + 1)
    PROVE  Rest(o, i) \in Metas
<1>1. Rest(o, i) \in {SubSeq(Data[o], j, Len(Data[o])) : j \in 1..Len(Data[o]) + 1}
  BY DEF Rest
<1>. QED  BY <1>1 DEF Metas

\* A new session has everything before it.
LEMMA NewSessionFacts ==
    ASSUME NEW o \in Components
    PROVE  /\ NewSession(o) \in Session /\ NewSession(o) # NoSession
           /\ NewSession(o).added = {}
           /\ \A d : SessionOK(NewSession(o), d, o)
<1>1. Data[o] \in Metas /\ Len(Data[o]) \in Nat /\ Rest(o, 1) = Data[o]
  BY DataSeq, RestMeta
<1>2. NewSession(o) \in Session
  BY <1>1 DEF NewSession, Session, Metas
<1>3. NewSession(o) # NoSession
  BY <1>2, CatalogAssumption
<1>4. \A d : Reached(NewSession(o), d, o, 1)
  BY <1>1 DEF Reached, NewSession, HasFirst
<1>5. 1 \in 1 .. (Len(Data[o]) + 1)
  BY <1>1
<1>. QED  BY <1>2, <1>3, <1>4, <1>5 DEF SessionOK, NewSession

\* A slot gets a session, or none.
LEMMA SessionStep ==
    ASSUME NetInv, NEW slot \in Slots, NEW s \in {NoSession} \cup Session,
           sessions' = [sessions EXCEPT ![slot] = s]
    PROVE  /\ sessions' \in [Slots -> {NoSession} \cup Session]
           /\ sessions'[slot] = s
           /\ \A other \in Slots : other # slot => sessions'[other] = sessions[other]
BY DEF NetInv, TypeOK, CatalogTypeOK

\* A slot is an owner, a database, and whether the owner waits.
LEMMA SlotParts ==
    \A slot \in Slots : /\ slot \in Components \X Components \X BOOLEAN
                        /\ slot[1] \in Components /\ slot[2] \in Components
                        /\ slot[3] \in BOOLEAN /\ slot = <<slot[1], slot[2], slot[3]>>
<1>1. \A slot \in Slots : slot \in Components \X Components \X BOOLEAN
  BY DEF Slots
<1>2. \A slot \in Components \X Components \X BOOLEAN :
         /\ slot[1] \in Components /\ slot[2] \in Components
         /\ slot[3] \in BOOLEAN /\ slot = <<slot[1], slot[2], slot[3]>>
  OBVIOUS
<1>. QED  BY <1>1, <1>2

\* Where a session of n may run.
LEMMA SlotOf ==
    ASSUME NEW n \in Components
    PROVE  /\ OwnSession(n) \in Slots
           /\ \A m \in NodeMode \ {n} : <<n, m, TRUE>> \in Slots /\ <<n, m, FALSE>> \in Slots
           /\ \A slot \in Slots : slot \in Components \X Components \X BOOLEAN
           /\ \A slot \in Slots : slot[1] \in Components /\ slot[2] \in Components
                                  /\ slot[3] \in BOOLEAN /\ slot = <<slot[1], slot[2], slot[3]>>
<1>1. \A slot \in Slots : slot \in Components \X Components \X BOOLEAN
  BY DEF Slots
<1>2. \A slot \in Components \X Components \X BOOLEAN :
         /\ slot[1] \in Components /\ slot[2] \in Components
         /\ slot[3] \in BOOLEAN /\ slot = <<slot[1], slot[2], slot[3]>>
  OBVIOUS
<1>3. <<n, n, TRUE>> \in Slots
  <2> DEFINE slot == <<n, n, TRUE>>
  <2>1. slot \in Components \X Components \X BOOLEAN
    OBVIOUS
  <2>2. slot[1] = n /\ slot[2] = n /\ slot[3] = TRUE
    OBVIOUS
  <2> HIDE DEF slot
  <2>3. slot \in Slots
    BY <2>1, <2>2 DEF Slots
  <2>. QED  BY <2>3 DEF slot
<1>4. ASSUME NEW m \in NodeMode \ {n}, NEW b \in BOOLEAN
      PROVE  <<n, m, b>> \in Slots
  <2> DEFINE slot == <<n, m, b>>
  <2>1. slot \in Components \X Components \X BOOLEAN
    BY MembershipAssumption
  <2>2. slot[1] = n /\ slot[2] = m
    OBVIOUS
  <2> HIDE DEF slot
  <2>3. slot \in Slots
    BY <2>1, <2>2 DEF Slots
  <2>. QED  BY <2>3 DEF slot
<1>. QED  BY <1>1, <1>2, <1>3, <1>4 DEF OwnSession

-----------------------------------------------------------------------------
(* add_metadata and start_heartbeat.                                         *)

\* With no data there is nothing to tell.
LEMMA AddMetadataNet ==
    ASSUME NetInv, NEW n \in Components, AddMetadata(n)
    PROVE  NetInv'
<1>0. First \in Components /\ NodeOK(n)
  BY MembershipAssumption DEF NetInv
<1>1. /\ phase[n] = "metadata" /\ Quiet
      /\ IF Data[n] = << >> THEN GoTo(n, "heartbeat") /\ sessions' = sessions
         ELSE GoTo(n, "local") /\ sessions' = [sessions EXCEPT ![OwnSession(n)] = NewSession(n)]
      /\ remote' = remote /\ todo' = todo /\ polling' = polling
      /\ leaving' = leaving /\ joins' = joins /\ faults' = faults
  BY DEF AddMetadata, Quiet, process
<1>2. PICK p \in {"heartbeat", "local"} :
         GoTo(n, p) /\ (p = "heartbeat" => Data[n] = << >>)
  BY <1>1
<1>3. /\ phase' \in [Components -> Phases] /\ phase'[n] = p
      /\ \A m \in Components \ {n} : phase'[m] = phase[m]
  BY <1>2, PhaseStep DEF Phases
<1>4. sessions' \in [Slots -> {NoSession} \cup Session]
  <2>1. CASE Data[n] = << >>
    BY <1>1, <2>1, Unchanged
  <2>2. CASE Data[n] # << >>
    BY <1>1, <2>2, SessionStep, SlotOf, NewSessionFacts
  <2>. QED  BY <2>1, <2>2
<1>5. TypeOK'
  BY <1>1, <1>3, <1>4, QuietTypes, Unchanged
<1>6. NodeOK(n)'
  <2>1. RequestOK(n)'
    BY <1>0, <1>1, RequestQuiet DEF NodeOK, RequestOK
  <2>2. ProjectsOK(n)'
    BY <1>1, ProjectsQuiet DEF Populated
  <2>3. StartupOK(n)'
    BY <1>0, <1>1, <1>3, QuietFacts DEF NodeOK, StartupOK
  <2>4. ToldOK(n)'
    <3>1. p = "heartbeat" => AllCatalogued(First, n)'
      BY <1>2 DEF AllCatalogued
    <3>2. ~ polling'[n]
      BY <1>0, <1>1 DEF NodeOK, StartupOK
    <3>. QED  BY <1>3, <3>1, <3>2 DEF ToldOK
  <2>. QED  BY <2>1, <2>2, <2>3, <2>4 DEF NodeOK
<1>. QED  BY <1>1, <1>3, <1>5, <1>6, QuietNet

\* A client that has joined knows the first node, so it tells it.
LEMMA AddedNet ==
    ASSUME NetInv, NEW n \in Components, Added(n)
    PROVE  NetInv'
<1>0. First \in Components /\ First \in NodeMode /\ NodeOK(n)
  BY MembershipAssumption DEF NetInv
<1>1. /\ phase[n] = "local" /\ Quiet
      /\ \/ /\ \E nodes \in SetToSeqs(ListNodes(n) \ {n}) : todo' = [todo EXCEPT ![n] = nodes]
            /\ GoTo(n, "distribute")
         \/ GoTo(n, "up") /\ todo' = todo
      /\ sessions' = [sessions EXCEPT ![OwnSession(n)] = NoSession]
      /\ remote' = remote /\ polling' = polling
      /\ leaving' = leaving /\ joins' = joins /\ faults' = faults
  BY DEF Added, Quiet
<1>2. sessions' \in [Slots -> {NoSession} \cup Session]
  BY <1>1, SessionStep, SlotOf
<1>3. ~ polling'[n] /\ (remote'[n] /\ n \notin NodeMode => First \in Known(n))
  BY <1>0, <1>1 DEF NodeOK, StartupOK
<1>4. PICK p \in {"distribute", "up"} :
         /\ phase' \in [Components -> Phases] /\ phase'[n] = p
         /\ \A m \in Components \ {n} : phase'[m] = phase[m]
         /\ todo' \in [Components -> Seq(Components)]
         /\ \A m \in Components \ {n} : todo'[m] = todo[m]
         /\ p = "distribute" => ToSet(todo'[n]) = ListNodes(n) \ {n}
  <2>1. CASE GoTo(n, "up") /\ todo' = todo
    BY <2>1, PhaseStep, Unchanged DEF Phases
  <2>2. CASE /\ \E nodes \in SetToSeqs(ListNodes(n) \ {n}) : todo' = [todo EXCEPT ![n] = nodes]
             /\ GoTo(n, "distribute")
    <3>1. PICK nodes \in SetToSeqs(ListNodes(n) \ {n}) : todo' = [todo EXCEPT ![n] = nodes]
      BY <2>2
    <3> DEFINE S == ListNodes(n) \ {n}
    <3>2. S \in SUBSET Components /\ IsFiniteSet(S)
      BY MembershipAssumption, FS_Subset DEF ListNodes, Known
    <3>3. nodes \in Seq(S) /\ ToSet(nodes) = S
      BY <3>2, ListsAll
    <3> HIDE DEF S
    <3>4. nodes \in Seq(Components)
      BY <3>2, <3>3, SeqMonotonic
    <3>5. /\ todo' \in [Components -> Seq(Components)] /\ todo'[n] = nodes
          /\ \A m \in Components \ {n} : todo'[m] = todo[m]
      BY <3>1, <3>4, TodoStep
    <3>6. /\ phase' \in [Components -> Phases] /\ phase'[n] = "distribute"
          /\ \A m \in Components \ {n} : phase'[m] = phase[m]
      BY <2>2, PhaseStep DEF Phases
    <3>. QED  BY <3>3, <3>5, <3>6 DEF S
  <2>. QED  BY <1>1, <2>1, <2>2
<1>5. TypeOK'
  BY <1>1, <1>2, <1>4, QuietTypes, Unchanged
<1>6. NodeOK(n)'
  <2>1. RequestOK(n)'
    BY <1>0, <1>1, RequestQuiet DEF NodeOK, RequestOK
  <2>2. ProjectsOK(n)'
    BY <1>1, ProjectsQuiet DEF Populated
  <2>3. StartupOK(n)'
    BY <1>0, <1>1, <1>3, <1>4, QuietFacts DEF NodeOK, StartupOK
  <2>4. ToldOK(n)'
    <3>1. p = "distribute" => ToSet(todo'[n]) \subseteq NodeMode \ {n}
      BY <1>4 DEF ListNodes
    <3>2. p = "distribute" /\ remote'[n] /\ n \notin NodeMode => First \in ToSet(todo'[n])
      BY <1>0, <1>3, <1>4 DEF ListNodes
    <3>. QED  BY <1>3, <1>4, <3>1, <3>2 DEF ToldOK
  <2>. QED  BY <2>1, <2>2, <2>3, <2>4 DEF NodeOK
<1>. QED  BY <1>1, <1>4, <1>5, <1>6, QuietNet

\* The first node knows a client that has joined: it starts a session, or the client had left.
LEMMA SendMetadataNet ==
    ASSUME NetInv, NEW n \in Components, SendMetadata(n)
    PROVE  NetInv'
<1>0. First \in Components /\ NodeOK(n) /\ TypeOK
  BY MembershipAssumption DEF NetInv
<1> DEFINE h == Head(todo[n])
           s == NewSession(n)
<1>1. /\ phase[n] = "distribute" /\ todo[n] # << >> /\ Quiet
      /\ \/ /\ sessions' = [sessions EXCEPT ![<<n, h, TRUE>>] = s]
            /\ GoTo(n, "waiting") /\ todo' = todo
         \/ /\ ~ CheckSignature(h, n, PublicKey(n))
            /\ todo' = [todo EXCEPT ![n] = Tail(todo[n])]
            /\ sessions' = sessions /\ phase' = phase
      /\ remote' = remote /\ polling' = polling
      /\ leaving' = leaving /\ joins' = joins /\ faults' = faults
  BY DEF SendMetadata, Quiet
<1>2. todo[n] \in Seq(Components)
  BY <1>0 DEF TypeOK
<1>3. /\ h \in ToSet(todo[n]) /\ h \in Components /\ Tail(todo[n]) \in Seq(Components)
      /\ ToSet(todo[n]) = {h} \cup ToSet(Tail(todo[n]))
  BY <1>1, <1>2, TailSet
<1>4. ~ polling'[n] /\ h \in NodeMode \ {n} /\ ToSet(todo[n]) \subseteq NodeMode \ {n}
  BY <1>0, <1>1, <1>3 DEF NodeOK, StartupOK, ToldOK
<1>5. s \in Session /\ <<n, h, TRUE>> \in Slots
  BY <1>4, NewSessionFacts, SlotOf
<1>6. \A old : old = First /\ ~ CheckSignature(old, n, PublicKey(n)) /\ remote[n] /\ n \notin NodeMode =>
         AllCatalogued(First, n)
  <2>1. remote[n] => n \in Known(First) /\ table[First][n].key = PublicKey(n)
    BY <1>0 DEF NodeOK, StartupOK, Registered
  <2>. QED  BY <2>1 DEF CheckSignature, NetInv, Left
<1> HIDE DEF h, s
<1>7. CASE /\ sessions' = [sessions EXCEPT ![<<n, h, TRUE>>] = s]
           /\ GoTo(n, "waiting") /\ todo' = todo
  <2>1. /\ phase' \in [Components -> Phases] /\ phase'[n] = "waiting"
        /\ \A m \in Components \ {n} : phase'[m] = phase[m]
    BY <1>7, PhaseStep DEF Phases
  <2>2. sessions' \in [Slots -> {NoSession} \cup Session]
    BY <1>5, <1>7, SessionStep
  <2>3. TypeOK'
    BY <1>1, <1>7, <2>1, <2>2, QuietTypes, Unchanged
  <2>4. NodeOK(n)'
    <3>1. RequestOK(n)'
      BY <1>0, <1>1, RequestQuiet DEF NodeOK, RequestOK
    <3>2. ProjectsOK(n)'
      BY <1>1, ProjectsQuiet DEF Populated
    <3>3. StartupOK(n)'
      BY <1>0, <1>1, <1>4, <2>1, QuietFacts DEF NodeOK, StartupOK
    <3>4. ToldOK(n)'
      BY <1>0, <1>1, <1>4, <1>7, <2>1, QuietFacts DEF NodeOK, ToldOK
    <3>. QED  BY <3>1, <3>2, <3>3, <3>4 DEF NodeOK
  <2>. QED  BY <1>1, <1>7, <2>1, <2>3, <2>4, QuietNet
<1>8. CASE /\ ~ CheckSignature(h, n, PublicKey(n))
           /\ todo' = [todo EXCEPT ![n] = Tail(todo[n])]
           /\ sessions' = sessions /\ phase' = phase
  <2>1. /\ todo' \in [Components -> Seq(Components)] /\ todo'[n] = Tail(todo[n])
        /\ \A m \in Components \ {n} : todo'[m] = todo[m]
    BY <1>3, <1>8, TodoStep
  <2>2. TypeOK'
    BY <1>0, <1>1, <1>8, <2>1, QuietTypes, Unchanged DEF TypeOK
  <2>3. NodeOK(n)'
    <3>1. RequestOK(n)'
      BY <1>0, <1>1, <1>8, RequestQuiet DEF NodeOK, RequestOK
    <3>2. ProjectsOK(n)'
      BY <1>1, ProjectsQuiet DEF Populated
    <3>3. StartupOK(n)'
      BY <1>0, <1>1, <1>4, <1>8, QuietFacts DEF NodeOK, StartupOK
    <3>4. ToldOK(n)'
      <4>1. /\ AllCatalogued(First, n) => AllCatalogued(First, n)'
            /\ remote[n] /\ n \notin NodeMode => First \in ToSet(todo[n]) \/ AllCatalogued(First, n)
        BY <1>0, <1>1, QuietFacts DEF NodeOK, ToldOK
      <4>2. remote[n] /\ n \notin NodeMode =>
               First \in ToSet(Tail(todo[n])) \/ AllCatalogued(First, n)'
        BY <1>3, <1>6, <1>8, <4>1
      <4>. QED  BY <1>1, <1>3, <1>4, <1>8, <2>1, <4>2 DEF ToldOK
    <3>. QED  BY <3>1, <3>2, <3>3, <3>4 DEF NodeOK
  <2>. QED  BY <1>1, <1>8, <2>1, <2>2, <2>3, QuietNet
<1>. QED  BY <1>1, <1>7, <1>8 DEF h, s

\* The session that n waits for has told its server of all that n has, however it ended.
LEMMA AnsweredNet ==
    ASSUME NetInv, SlotsOK, NEW n \in Components, Answered(n)
    PROVE  NetInv'
<1>0. First \in Components /\ NodeOK(n) /\ TypeOK
  BY MembershipAssumption DEF NetInv
<1> DEFINE h == Head(todo[n])
<1>1. /\ phase[n] = "waiting" /\ Quiet /\ GoTo(n, "distribute") /\ Ended(<<n, h, TRUE>>)
      /\ sessions' = [sessions EXCEPT ![<<n, h, TRUE>>] = NoSession]
      /\ todo' = [todo EXCEPT ![n] = Tail(todo[n])]
      /\ remote' = remote /\ polling' = polling
      /\ leaving' = leaving /\ joins' = joins /\ faults' = faults
  BY DEF Answered, Quiet
<1>2. todo[n] \in Seq(Components) /\ todo[n] # << >> /\ ToSet(todo[n]) \subseteq NodeMode \ {n}
  BY <1>0, <1>1 DEF TypeOK, NodeOK, ToldOK
<1>3. /\ h \in ToSet(todo[n]) /\ Tail(todo[n]) \in Seq(Components)
      /\ ToSet(todo[n]) = {h} \cup ToSet(Tail(todo[n]))
  BY <1>2, TailSet
<1>4. <<n, h, TRUE>> \in Slots
  BY <1>2, <1>3, SlotOf
<1>5. AllCatalogued(h, n)
  <2>1. SessionOK(sessions[<<n, h, TRUE>>], h, n)
    BY <1>1, <1>4 DEF SlotsOK, Ended
  <2>. QED  BY <1>1, <2>1 DEF SessionOK, Ended
<1> HIDE DEF h
<1>6. /\ phase' \in [Components -> Phases] /\ phase'[n] = "distribute"
      /\ \A m \in Components \ {n} : phase'[m] = phase[m]
  BY <1>1, PhaseStep DEF Phases
<1>7. /\ todo' \in [Components -> Seq(Components)] /\ todo'[n] = Tail(todo[n])
      /\ \A m \in Components \ {n} : todo'[m] = todo[m]
  BY <1>1, <1>3, TodoStep
<1>8. TypeOK'
  BY <1>1, <1>4, <1>6, <1>7, QuietTypes, Unchanged, SessionStep
<1>9. NodeOK(n)'
  <2>1. RequestOK(n)'
    BY <1>0, <1>1, RequestQuiet DEF NodeOK, RequestOK
  <2>2. ProjectsOK(n)'
    BY <1>1, ProjectsQuiet DEF Populated
  <2>3. StartupOK(n)'
    BY <1>0, <1>1, <1>6, QuietFacts DEF NodeOK, StartupOK
  <2>4. ToldOK(n)'
    <3>1. AllCatalogued(First, n) => AllCatalogued(First, n)'
      BY <1>0, <1>1, QuietFacts
    <3>2. /\ ~ polling'[n]
          /\ remote[n] /\ n \notin NodeMode => First \in ToSet(todo[n]) \/ AllCatalogued(First, n)
      BY <1>0, <1>1 DEF NodeOK, StartupOK, ToldOK
    <3>3. remote[n] /\ n \notin NodeMode =>
             First \in ToSet(Tail(todo[n])) \/ AllCatalogued(First, n)'
      BY <1>3, <1>5, <3>1, <3>2
    <3>. QED  BY <1>1, <1>2, <1>3, <1>6, <1>7, <3>2, <3>3 DEF ToldOK
  <2>. QED  BY <2>1, <2>2, <2>3, <2>4 DEF NodeOK
<1>. QED  BY <1>1, <1>6, <1>7, <1>8, <1>9, QuietNet

\* A startup that ends early does not poll.
LEMMA UnreachableNet ==
    ASSUME NetInv, NEW n \in Components, Unreachable(n)
    PROVE  NetInv'
<1>0. NodeOK(n)
  BY DEF NetInv
<1>1. /\ phase[n] \in {"distribute", "waiting"} /\ Quiet /\ GoTo(n, "up")
      /\ todo' = [todo EXCEPT ![n] = << >>]
      /\ sessions' = sessions /\ remote' = remote /\ polling' = polling
      /\ leaving' = leaving /\ joins' = joins /\ faults' = faults
  BY DEF Unreachable, Quiet
<1>2. /\ phase' \in [Components -> Phases] /\ phase'[n] = "up"
      /\ \A m \in Components \ {n} : phase'[m] = phase[m]
  BY <1>1, PhaseStep DEF Phases
<1>3. /\ todo' \in [Components -> Seq(Components)] /\ todo'[n] = << >>
      /\ \A m \in Components \ {n} : todo'[m] = todo[m]
  BY <1>1 DEF NetInv, TypeOK
<1>4. TypeOK'
  BY <1>1, <1>2, <1>3, QuietTypes, Unchanged
<1>5. NodeOK(n)'
  <2>1. RequestOK(n)'
    BY <1>0, <1>1, RequestQuiet DEF NodeOK, RequestOK
  <2>2. ProjectsOK(n)'
    BY <1>1, ProjectsQuiet DEF Populated
  <2>3. StartupOK(n)'
    BY <1>0, <1>1, <1>2, QuietFacts DEF NodeOK, StartupOK
  <2>4. ToldOK(n)'
    BY <1>0, <1>1, <1>2 DEF NodeOK, StartupOK, ToldOK
  <2>. QED  BY <2>1, <2>2, <2>3, <2>4 DEF NodeOK
<1>. QED  BY <1>1, <1>2, <1>3, <1>4, <1>5, QuietNet

\* Nobody is left to tell, so the first node has been told.
LEMMA DistributedNet ==
    ASSUME NetInv, NEW n \in Components, Distributed(n)
    PROVE  NetInv'
<1>0. NodeOK(n)
  BY DEF NetInv
<1>1. /\ phase[n] = "distribute" /\ todo[n] = << >> /\ Quiet /\ GoTo(n, "heartbeat")
      /\ sessions' = sessions /\ todo' = todo /\ remote' = remote /\ polling' = polling
      /\ leaving' = leaving /\ joins' = joins /\ faults' = faults
  BY DEF Distributed, Quiet, process
<1>2. /\ phase' \in [Components -> Phases] /\ phase'[n] = "heartbeat"
      /\ \A m \in Components \ {n} : phase'[m] = phase[m]
  BY <1>1, PhaseStep DEF Phases
<1>3. TypeOK'
  BY <1>1, <1>2, QuietTypes, Unchanged
<1>4. NodeOK(n)'
  <2>1. RequestOK(n)'
    BY <1>0, <1>1, RequestQuiet DEF NodeOK, RequestOK
  <2>2. ProjectsOK(n)'
    BY <1>1, ProjectsQuiet DEF Populated
  <2>3. StartupOK(n)'
    BY <1>0, <1>1, <1>2, QuietFacts DEF NodeOK, StartupOK
  <2>4. ToldOK(n)'
    BY <1>0, <1>1, <1>2, EmptyList, QuietFacts DEF NodeOK, StartupOK, ToldOK
  <2>. QED  BY <2>1, <2>2, <2>3, <2>4 DEF NodeOK
<1>. QED  BY <1>1, <1>2, <1>3, <1>4, QuietNet

\* Only a client polls that has a remote id and has told the first node.
LEMMA StartHeartbeatNet ==
    ASSUME NetInv, NEW n \in Components, StartHeartbeat(n)
    PROVE  NetInv'
<1>0. NodeOK(n)
  BY DEF NetInv
<1>1. /\ phase[n] = "heartbeat" /\ Quiet /\ GoTo(n, "up")
      /\ polling' = [polling EXCEPT ![n] = n \notin NodeMode /\ remote[n]]
      /\ sessions' = sessions /\ todo' = todo /\ remote' = remote
      /\ leaving' = leaving /\ joins' = joins /\ faults' = faults
  BY DEF StartHeartbeat, Quiet
<1>2. /\ phase' \in [Components -> Phases] /\ phase'[n] = "up"
      /\ \A m \in Components \ {n} : phase'[m] = phase[m]
  BY <1>1, PhaseStep DEF Phases
<1>3. /\ polling' \in [Components -> BOOLEAN] /\ polling'[n] = (n \notin NodeMode /\ remote[n])
      /\ \A m \in Components \ {n} : polling'[m] = polling[m]
  BY <1>1 DEF NetInv, TypeOK
<1>4. TypeOK'
  BY <1>1, <1>2, <1>3, QuietTypes, Unchanged
<1>5. NodeOK(n)'
  <2>1. RequestOK(n)'
    BY <1>0, <1>1, RequestQuiet DEF NodeOK, RequestOK
  <2>2. ProjectsOK(n)'
    BY <1>1, ProjectsQuiet DEF Populated
  <2>3. StartupOK(n)'
    BY <1>0, <1>1, <1>2, <1>3, QuietFacts DEF NodeOK, StartupOK
  <2>4. ToldOK(n)'
    BY <1>0, <1>1, <1>2, <1>3, QuietFacts DEF NodeOK, ToldOK
  <2>. QED  BY <2>1, <2>2, <2>3, <2>4 DEF NodeOK
<1>. QED  BY <1>1, <1>2, <1>3, <1>4, <1>5, QuietNet

\* Who leaves polls no more, and it had told the first node.
LEMMA LeaveNet ==
    ASSUME NetInv, NEW n \in Components, Leave(n)
    PROVE  NetInv'
<1>0. First \in Components /\ NodeOK(n) /\ TypeOK
  BY MembershipAssumption DEF NetInv
<1>1. /\ polling[n] /\ key' = key /\ UNCHANGED catalog
      /\ \/ table' = table
         \/ ComponentLeave(First, n) /\ n \in Known(First)
      /\ polling' = [polling EXCEPT ![n] = FALSE]
      /\ sessions' = sessions /\ todo' = todo /\ remote' = remote /\ phase' = phase
      /\ leaving' = leaving /\ joins' = joins /\ faults' = faults
  BY DEF Leave, CheckSignature
<1>2. AllCatalogued(First, n)
  BY <1>0, <1>1 DEF NodeOK, ToldOK
<1>3. sources' = sources /\ links' = links /\ projects' = projects /\ unread' = unread
  BY <1>1 DEF catalog
<1>4. /\ MembershipTypeOK'
      /\ \A d, c \in Components :
            /\ table'[d][c] # NoRow <=> table[d][c] # NoRow
            /\ table[d][c] # NoRow => /\ table'[d][c].key = table[d][c].key
                                      /\ table'[d][c].is_join = table[d][c].is_join
            /\ c # n => table'[d][c].active = table[d][c].active
  <2>1. CASE table' = table
    BY <1>0, <1>1, <2>1 DEF TypeOK, MembershipTypeOK
  <2>2. CASE ComponentLeave(First, n) /\ n \in Known(First)
    <3>1. table[First][n] \in Rows
      BY <1>0, <2>2, NetTypes
    <3>2. PICK r : r = [table[First][n] EXCEPT !.active = FALSE]
      OBVIOUS
    <3>3. /\ r \in Rows /\ r # NoRow /\ r.key = table[First][n].key
          /\ r.is_join = table[First][n].is_join
      BY <3>1, <3>2, MembershipAssumption DEF Rows
    <3>4. table' = [table EXCEPT ![First][n] = r]
      BY <2>2, <3>2 DEF ComponentLeave
    <3>5. table[First][n] # NoRow
      BY <2>2 DEF Known
    <3>. QED  BY <1>0, <1>1, <3>3, <3>4, <3>5 DEF TypeOK, MembershipTypeOK
  <2>. QED  BY <1>1, <2>1, <2>2
<1>5. \A m \in Components :
         /\ Known(m)' = Known(m) /\ JoinComponents(m)' = JoinComponents(m)
         /\ PublicKey(m)' = PublicKey(m) /\ TokensKnown(m)' = TokensKnown(m)
         /\ AllCatalogued(First, m) => AllCatalogued(First, m)'
  <2>1. \A m : AllCatalogued(First, m) => AllCatalogued(First, m)'
    BY <1>3, CataloguedStays
  <2>2. \A m \in Components : Known(m)' = Known(m)
    BY <1>4 DEF Known
  <2>3. \A m \in Components : JoinComponents(m)' = JoinComponents(m)
    BY <1>4, <2>2 DEF JoinComponents, Known
  <2>. QED  BY <1>1, <1>3, <2>1, <2>2, <2>3 DEF PublicKey, TokensKnown
<1>6. FirstKept
  BY <1>0, <1>3, <1>4, <1>5 DEF FirstKept, Known
<1>7. Named'
  BY <1>4, <1>5 DEF NetInv, Named, Known
<1>8. Left'
  <2> SUFFICES ASSUME NEW c \in Known(First)'
               PROVE  table'[First][c].active \/ AllCatalogued(First, c)'
    BY DEF Left
  <2>1. c \in Components /\ c \in Known(First)
    BY <1>0, <1>5 DEF Known
  <2>2. CASE c = n
    BY <1>2, <1>5, <2>2
  <2>3. CASE c # n
    BY <1>0, <1>4, <1>5, <2>1, <2>3 DEF NetInv, Left
  <2>. QED  BY <2>2, <2>3
<1>9. /\ polling' \in [Components -> BOOLEAN] /\ polling'[n] = FALSE
      /\ \A m \in Components \ {n} : polling'[m] = polling[m]
  BY <1>0, <1>1 DEF TypeOK
<1>10. TypeOK'
  <2>1. CatalogTypeOK'
    BY <1>0, <1>1 DEF TypeOK, CatalogTypeOK, catalog
  <2>. QED  BY <1>0, <1>1, <1>4, <1>9, <2>1 DEF TypeOK
<1>11. \A m \in Components \ {n} : Untouched(m)
  BY <1>1, <1>5, <1>9 DEF Untouched
<1>12. NodeOK(n)'
  <2>1. RequestOK(n)'
    BY <1>0, <1>1, <1>5, <1>6 DEF NodeOK, RequestOK, FirstKept
  <2>2. ProjectsOK(n)'
    BY <1>0, <1>1, <1>5 DEF NodeOK, ProjectsOK, Populated
  <2>3. StartupOK(n)'
    BY <1>0, <1>1, <1>5, <1>6, <1>9 DEF NodeOK, StartupOK, Registered, FirstKept
  <2>4. ToldOK(n)'
    BY <1>0, <1>1, <1>5, <1>9 DEF NodeOK, ToldOK
  <2>. QED  BY <2>1, <2>2, <2>3, <2>4 DEF NodeOK
<1>. QED  BY <1>6, <1>7, <1>8, <1>10, <1>11, <1>12, NetStep

-----------------------------------------------------------------------------
(* What goes wrong.                                                          *)

\* Where the session of a slot was before the requests of n were abandoned: those that n waits
\* for change places with those that it does not.
Moved(n, slot) == IF slot[1] = n /\ slot[2] # n THEN <<n, slot[2], ~ slot[3]>> ELSE slot

\* A session that changes its slot brings its owner and its database along.
LEMMA MovedSlots ==
    ASSUME NEW n \in Components
    PROVE  /\ \A slot \in Slots : /\ Moved(n, slot) \in Slots
                                  /\ Moved(n, slot)[1] = slot[1] /\ Moved(n, slot)[2] = slot[2]
           /\ \A slot, twin \in Slots : Moved(n, slot) = Moved(n, twin) => slot = twin
<1>1. ASSUME NEW slot \in Slots, slot[1] = n, slot[2] # n
      PROVE  /\ Moved(n, slot) \in Slots /\ Moved(n, slot)[1] = n /\ Moved(n, slot)[2] = slot[2]
             /\ Moved(n, slot)[3] = ~ slot[3]
  <2>1. PICK m \in Components, b \in BOOLEAN : slot = <<n, m, b>>
    BY <1>1, SlotOf
  <2>2. m \in NodeMode \ {n}
    BY <1>1, <2>1 DEF Slots
  <2>3. PICK c \in BOOLEAN : c = ~ b
    BY <2>1
  <2>4. Moved(n, slot) = <<n, m, c>>
    BY <1>1, <2>1, <2>3 DEF Moved
  <2>5. <<n, m, c>> \in Slots
    BY <2>2, <2>3, SlotOf
  <2>. QED  BY <2>1, <2>3, <2>4, <2>5
<1>2. ASSUME NEW slot \in Slots, ~ (slot[1] = n /\ slot[2] # n)
      PROVE  Moved(n, slot) = slot
  BY <1>2 DEF Moved
<1>3. ASSUME NEW slot \in Slots, NEW twin \in Slots, Moved(n, slot) = Moved(n, twin)
      PROVE  slot = twin
  <2>1. /\ slot = <<slot[1], slot[2], slot[3]>> /\ slot[3] \in BOOLEAN
        /\ twin = <<twin[1], twin[2], twin[3]>> /\ twin[3] \in BOOLEAN
    BY SlotOf
  <2>2. slot[1] = twin[1] /\ slot[2] = twin[2]
    BY <1>1, <1>2, <1>3
  <2>3. CASE slot[1] = n /\ slot[2] # n
    BY <1>1, <1>3, <2>1, <2>2, <2>3
  <2>4. CASE ~ (slot[1] = n /\ slot[2] # n)
    BY <1>2, <1>3, <2>2, <2>4
  <2>. QED  BY <2>3, <2>4
<1>. QED  BY <1>1, <1>2, <1>3

\* Every session is new, or was there for the same owner on the same database.
Carries(org) ==
    /\ \A slot \in Slots :
          org[slot] \in Slots /\ org[slot][1] = slot[1] /\ org[slot][2] = slot[2]
    /\ \A slot, twin \in Slots : org[slot] = org[twin] => slot = twin
    /\ \A slot \in Slots : sessions'[slot] # NoSession =>
          /\ sessions'[slot] = NewSession(slot[1]) \/ sessions'[slot] = sessions[org[slot]]
          /\ phase'[slot[2]] \notin {"down", "populate"}

SessionsKept == \E org : Carries(org)

\* Most steps change at most the session of one slot.
LEMMA KeptInPlace ==
    ASSUME \A slot \in Slots : sessions'[slot] # NoSession =>
              /\ sessions'[slot] = NewSession(slot[1]) \/ sessions'[slot] = sessions[slot]
              /\ phase'[slot[2]] \notin {"down", "populate"}
    PROVE  SessionsKept
<1> DEFINE org == [slot \in Slots |-> slot]
<1>1. \A slot \in Slots : org[slot] = slot
  OBVIOUS
<1> HIDE DEF org
<1>2. Carries(org)
  BY <1>1 DEF Carries
<1>. QED  BY <1>2 DEF SessionsKept

\* And a step that ends none and starts none changes no phase to one without sessions.
LEMMA KeptSame ==
    ASSUME SlotsOK, sessions' = sessions,
           \A d \in Components : Populated(d) => phase'[d] \notin {"down", "populate"}
    PROVE  SessionsKept
<1>1. \A slot \in Slots : slot[2] \in Components
  BY DEF Slots
<1>. QED  BY <1>1, KeptInPlace DEF SlotsOK

\* A stopped sender leaves its sessions to their servers.
LEMMA AbandonSessions ==
    ASSUME NetInv, SlotsOK, NEW n \in Components, NEW Gone,
           \A d \in Components : d \notin Gone /\ Populated(d) => phase'[d] \notin {"down", "populate"},
           sessions' = [slot \in Slots |->
              IF slot[2] \in Gone THEN NoSession
              ELSE IF slot[1] = n /\ slot[2] # n
                   THEN IF slot[3] THEN NoSession ELSE sessions[<<n, slot[2], TRUE>>]
                   ELSE sessions[slot]]
    PROVE  sessions' \in [Slots -> {NoSession} \cup Session] /\ SessionsKept
<1>0. sessions \in [Slots -> {NoSession} \cup Session]
  BY DEF NetInv, TypeOK, CatalogTypeOK
<1> DEFINE org == [slot \in Slots |-> Moved(n, slot)]
<1>1. \A slot \in Slots : /\ org[slot] \in Slots
                          /\ org[slot][1] = slot[1] /\ org[slot][2] = slot[2]
  BY MovedSlots
<1>2. \A slot, twin \in Slots : org[slot] = org[twin] => slot = twin
  BY MovedSlots
<1>3. ASSUME NEW slot \in Slots
      PROVE  /\ sessions'[slot] \in {NoSession, sessions[org[slot]]}
             /\ sessions'[slot] # NoSession => slot[2] \notin Gone
  <2>1. sessions'[slot] =
              IF slot[2] \in Gone THEN NoSession
              ELSE IF slot[1] = n /\ slot[2] # n
                   THEN IF slot[3] THEN NoSession ELSE sessions[<<n, slot[2], TRUE>>]
                   ELSE sessions[slot]
    OBVIOUS
  <2>2. CASE slot[1] = n /\ slot[2] # n
    <3>1. slot[3] \in BOOLEAN /\ org[slot] = <<n, slot[2], ~ slot[3]>>
      BY <2>2, SlotOf DEF Moved
    <3>2. ~ slot[3] => org[slot] = <<n, slot[2], TRUE>>
      BY <3>1
    <3>. QED  BY <2>1, <2>2, <3>1, <3>2
  <2>3. CASE ~ (slot[1] = n /\ slot[2] # n)
    BY <2>1, <2>3 DEF Moved
  <2>. QED  BY <2>2, <2>3
<1> HIDE DEF org
<1>4. ASSUME NEW slot \in Slots, sessions'[slot] # NoSession
      PROVE  phase'[slot[2]] \notin {"down", "populate"}
  <2>1. slot[2] \in Components
    BY SlotOf
  <2>2. Populated(slot[2])
    BY <1>1, <1>3, <1>4 DEF SlotsOK
  <2>. QED  BY <1>3, <1>4, <2>1, <2>2
<1>5. Carries(org)
  BY <1>1, <1>2, <1>3, <1>4 DEF Carries
<1>6. \A slot \in Slots : sessions'[slot] \in {NoSession} \cup Session
  BY <1>0, <1>1, <1>3
<1>7. sessions' \in [Slots -> {NoSession} \cup Session]
  BY <1>6
<1>. QED  BY <1>5, <1>7 DEF SessionsKept

\* A timeout abandons the request of a startup that ends, or goes on without a join.
LEMMA TimesOutNet ==
    ASSUME NetInv, SlotsOK, NEW n \in Components, TimesOut(n)
    PROVE  NetInv' /\ SessionsKept
<1>0. NodeOK(n)
  BY DEF NetInv
<1>1. /\ phase[n] \in {"joining", "waiting"} /\ Quiet
      /\ joins' = [joins EXCEPT ![<<n, FALSE>>] = joins[<<n, TRUE>>], ![<<n, TRUE>>] = NoRequest]
      /\ sessions' = [slot \in Slots |->
            IF slot[1] = n /\ slot[2] # n
            THEN IF slot[3] THEN NoSession ELSE sessions[<<n, slot[2], TRUE>>]
            ELSE sessions[slot]]
      /\ todo' = [todo EXCEPT ![n] = << >>] /\ faults < MaxFaults /\ faults' = faults + 1
      /\ remote' = remote /\ polling' = polling /\ leaving' = leaving
  BY DEF TimesOut, Quiet, Abandon, Fault
<1>2. PICK p \in {"metadata", "up"} : GoTo(n, p)
  BY DEF TimesOut
<1>3. /\ phase' \in [Components -> Phases] /\ phase'[n] = p
      /\ \A m \in Components \ {n} : phase'[m] = phase[m]
  BY <1>2, PhaseStep DEF Phases
<1>4. sessions' \in [Slots -> {NoSession} \cup Session] /\ SessionsKept
  <2>0. PICK Gone : Gone = {}
    OBVIOUS
  <2>1. sessions' = [slot \in Slots |->
              IF slot[2] \in Gone THEN NoSession
              ELSE IF slot[1] = n /\ slot[2] # n
                   THEN IF slot[3] THEN NoSession ELSE sessions[<<n, slot[2], TRUE>>]
                   ELSE sessions[slot]]
    BY <1>1, <2>0
  <2>2. \A d \in Components : d \notin Gone /\ Populated(d) => phase'[d] \notin {"down", "populate"}
    BY <1>3 DEF Populated
  <2>. QED  BY <2>1, <2>2, AbandonSessions
<1>5. /\ joins' \in [Components \X BOOLEAN -> {NoRequest} \cup JoinRequest]
      /\ joins'[<<n, FALSE>>] = joins[<<n, TRUE>>] /\ joins'[<<n, TRUE>>] = NoRequest
      /\ \A m \in Components \ {n} : \A awaited \in BOOLEAN :
            joins'[<<m, awaited>>] = joins[<<m, awaited>>]
  BY <1>1 DEF NetInv, TypeOK
<1>6. /\ todo' \in [Components -> Seq(Components)] /\ todo'[n] = << >>
      /\ \A m \in Components \ {n} : todo'[m] = todo[m]
  BY <1>1 DEF NetInv, TypeOK
<1>7. faults' \in 0..MaxFaults
  BY <1>1, OnboardingAssumption DEF NetInv, TypeOK
<1>8. TypeOK'
  BY <1>1, <1>3, <1>4, <1>5, <1>6, <1>7, QuietTypes, Unchanged
<1>9. NodeOK(n)'
  <2>1. RequestOK(n)'
    <3>1. \A awaited \in BOOLEAN :
             joins'[<<n, awaited>>] \in {NoRequest, joins[<<n, TRUE>>], joins[<<n, FALSE>>]}
      BY <1>5
    <3>. QED  BY <1>1, <1>5, <3>1, RequestQuiet
  <2>2. ProjectsOK(n)'
    BY <1>1, ProjectsQuiet DEF Populated
  <2>3. StartupOK(n)'
    BY <1>0, <1>1, <1>3, QuietFacts DEF NodeOK, StartupOK
  <2>4. ToldOK(n)'
    BY <1>0, <1>1, <1>3 DEF NodeOK, StartupOK, ToldOK
  <2>. QED  BY <2>1, <2>2, <2>3, <2>4 DEF NodeOK
<1>10. NetInv'
  BY <1>1, <1>3, <1>5, <1>6, <1>8, <1>9, QuietNet
<1>. QED  BY <1>4, <1>10

\* A crash ends the sessions on the databases of the node and abandons its own elsewhere.
LEMMA CrashNet ==
    ASSUME NetInv, SlotsOK, NEW n \in Components, Crash(n)
    PROVE  NetInv' /\ SessionsKept
<1>0. NodeOK(n) /\ TypeOK
  BY DEF NetInv
<1>1. /\ Quiet /\ GoTo(n, "down")
      /\ joins' = IF n = First THEN [slot \in DOMAIN joins |-> NoRequest]
                  ELSE [joins EXCEPT ![<<n, FALSE>>] = joins[<<n, TRUE>>], ![<<n, TRUE>>] = NoRequest]
      /\ sessions' = [slot \in Slots |->
            IF slot[2] = n THEN NoSession
            ELSE IF slot[1] = n THEN IF slot[3] THEN NoSession ELSE sessions[<<n, slot[2], TRUE>>]
            ELSE sessions[slot]]
      /\ todo' = [todo EXCEPT ![n] = << >>] /\ faults < MaxFaults /\ faults' = faults + 1
      /\ remote' = [remote EXCEPT ![n] = FALSE] /\ polling' = [polling EXCEPT ![n] = FALSE]
      /\ leaving' = leaving
  BY DEF Crash, Quiet, Fault
<1>2. /\ phase' \in [Components -> Phases] /\ phase'[n] = "down"
      /\ \A m \in Components \ {n} : phase'[m] = phase[m]
  BY <1>1, PhaseStep DEF Phases
<1>3. sessions' \in [Slots -> {NoSession} \cup Session] /\ SessionsKept
  <2>1. sessions' = [slot \in Slots |->
              IF slot[2] \in {n} THEN NoSession
              ELSE IF slot[1] = n /\ slot[2] # n
                   THEN IF slot[3] THEN NoSession ELSE sessions[<<n, slot[2], TRUE>>]
                   ELSE sessions[slot]]
    BY <1>1
  <2>2. \A d \in Components : d \notin {n} /\ Populated(d) => phase'[d] \notin {"down", "populate"}
    BY <1>2 DEF Populated
  <2>. QED  BY <2>1, <2>2, AbandonSessions
<1>4. /\ joins' \in [Components \X BOOLEAN -> {NoRequest} \cup JoinRequest]
      /\ joins'[<<n, FALSE>>] \in {NoRequest, joins[<<n, TRUE>>]} /\ joins'[<<n, TRUE>>] = NoRequest
      /\ \A m \in Components \ {n} : \A awaited \in BOOLEAN :
            joins'[<<m, awaited>>] \in {joins[<<m, awaited>>], NoRequest}
  <2>1. CASE n = First
    BY <1>0, <1>1, <2>1 DEF TypeOK
  <2>2. CASE n # First
    BY <1>0, <1>1, <2>2 DEF TypeOK
  <2>. QED  BY <2>1, <2>2
<1>5. /\ todo' \in [Components -> Seq(Components)] /\ todo'[n] = << >>
      /\ remote' \in [Components -> BOOLEAN] /\ remote'[n] = FALSE
      /\ polling' \in [Components -> BOOLEAN] /\ polling'[n] = FALSE
      /\ \A m \in Components \ {n} :
            todo'[m] = todo[m] /\ remote'[m] = remote[m] /\ polling'[m] = polling[m]
  BY <1>0, <1>1 DEF TypeOK
<1>6. faults' \in 0..MaxFaults
  BY <1>0, <1>1, OnboardingAssumption DEF TypeOK
<1>7. TypeOK'
  BY <1>1, <1>2, <1>3, <1>4, <1>5, <1>6, QuietTypes, Unchanged
<1>8. NodeOK(n)'
  <2>1. RequestOK(n)'
    <3>1. \A awaited \in BOOLEAN :
             joins'[<<n, awaited>>] \in {NoRequest, joins[<<n, TRUE>>], joins[<<n, FALSE>>]}
      BY <1>4
    <3>. QED  BY <1>1, <1>4, <3>1, RequestQuiet
  <2>2. ProjectsOK(n)'
    BY <1>1, <1>2, ProjectsQuiet
  <2>3. StartupOK(n)'
    BY <1>0, <1>1, <1>2, <1>5, QuietFacts DEF NodeOK, StartupOK
  <2>4. ToldOK(n)'
    BY <1>2, <1>5 DEF ToldOK
  <2>. QED  BY <2>1, <2>2, <2>3, <2>4 DEF NodeOK
<1>9. NetInv'
  BY <1>1, <1>2, <1>4, <1>5, <1>7, <1>8, QuietNet
<1>. QED  BY <1>3, <1>9

\* A reinstalled node has no join node, so nobody needs to know its new key.
LEMMA ReinstallNet ==
    ASSUME NetInv, NEW n \in Components, Reinstall(n)
    PROVE  NetInv'
<1>0. First \in Components /\ NodeOK(n) /\ TypeOK
  BY MembershipAssumption DEF NetInv
<1>1. /\ phase[n] = "down" /\ n # First /\ key[n] < MaxKeys
      /\ key' = [key EXCEPT ![n] = @ + 1]
      /\ table' = [table EXCEPT ![n] = [c \in Components |-> NoRow]]
      /\ sources' = [sources EXCEPT ![n] = {}] /\ files' = [files EXCEPT ![n] = {}]
      /\ torn' = [torn EXCEPT ![n] = {}] /\ unread' = unread
      /\ projects' = [projects EXCEPT ![n] = {}] /\ links' = [links EXCEPT ![n] = {}]
      /\ faults < MaxFaults /\ faults' = faults + 1
      /\ sessions' = sessions /\ phase' = phase /\ joins' = joins /\ todo' = todo
      /\ remote' = remote /\ polling' = polling /\ leaving' = leaving
  BY DEF Reinstall, Fault, process
<1>2. ~ remote[n] /\ ~ polling[n] /\ joins[<<n, TRUE>>] = NoRequest
  BY <1>0, <1>1 DEF NodeOK, StartupOK, RequestOK
<1>3. MembershipTypeOK'
  BY <1>0, <1>1, MembershipAssumption DEF TypeOK, MembershipTypeOK
<1>4. CatalogTypeOK'
  BY <1>0, <1>1 DEF TypeOK, CatalogTypeOK
<1>5. faults' \in 0..MaxFaults
  BY <1>0, <1>1, OnboardingAssumption DEF TypeOK
<1>6. TypeOK'
  BY <1>0, <1>1, <1>3, <1>4, <1>5 DEF TypeOK
<1>7. /\ table' \in [Components -> [Components -> {NoRow} \cup Rows]]
      /\ \A c \in Components : table'[n][c] = NoRow
      /\ \A m \in Components \ {n} : /\ table'[m] = table[m] /\ key'[m] = key[m]
                                     /\ sources'[m] = sources[m] /\ links'[m] = links[m]
                                     /\ projects'[m] = projects[m]
  BY <1>0, <1>1, <1>3 DEF TypeOK, MembershipTypeOK, CatalogTypeOK
<1>8. Known(n)' = {} /\ JoinComponents(n)' = {}
  BY <1>7 DEF Known, JoinComponents
<1>9. \A m \in Components \ {n} :
         /\ Known(m)' = Known(m) /\ JoinComponents(m)' = JoinComponents(m)
         /\ PublicKey(m)' = PublicKey(m) /\ TokensKnown(m)' = TokensKnown(m)
  BY <1>7 DEF Known, JoinComponents, PublicKey, TokensKnown
<1>10. FirstKept
  BY <1>0, <1>1, <1>7, <1>9 DEF FirstKept
<1>11. \A m : AllCatalogued(First, m) => AllCatalogued(First, m)'
  BY <1>10, CataloguedStays DEF FirstKept
<1>12. Named'
  <2>1. \A d, c \in Components : c \in Known(d)' => table'[d][c].key[1] = c
    BY <1>7, <1>8, <1>9 DEF NetInv, Named
  <2>2. \A d \in Components : JoinComponents(d)' \subseteq {First} \ {d}
    BY <1>8, <1>9 DEF NetInv, Named
  <2>. QED  BY <2>1, <2>2 DEF Named
<1>13. Left'
  BY <1>0, <1>1, <1>7, <1>9, <1>11 DEF NetInv, Left
<1>14. \A m \in Components \ {n} : Untouched(m)
  BY <1>1, <1>7, <1>9 DEF Untouched
<1>15. NodeOK(n)'
  <2>1. RequestOK(n)'
    BY <1>0, <1>1, <1>2, <1>7, <1>9 DEF NodeOK, RequestOK
  <2>2. ProjectsOK(n)'
    BY <1>1 DEF ProjectsOK, Populated
  <2>3. StartupOK(n)'
    BY <1>1, <1>2, <1>8 DEF StartupOK
  <2>4. ToldOK(n)'
    BY <1>1, <1>2 DEF ToldOK
  <2>. QED  BY <2>1, <2>2, <2>3, <2>4 DEF NodeOK
<1>. QED  BY <1>6, <1>10, <1>12, <1>13, <1>14, <1>15, NetStep

\* Nobody waits for an abandoned session.
LEMMA DropSessionNet ==
    ASSUME NetInv, NEW slot \in Slots, DropSession(slot)
    PROVE  NetInv'
<1>1. /\ Quiet /\ sessions' = [sessions EXCEPT ![slot] = NoSession]
      /\ phase' = phase /\ todo' = todo /\ remote' = remote /\ polling' = polling
      /\ leaving' = leaving /\ joins' = joins /\ faults' = faults
  BY DEF DropSession, Quiet, process
<1>2. sessions' \in [Slots -> {NoSession} \cup Session]
  BY <1>1, SessionStep
<1>3. TypeOK'
  BY <1>1, <1>2, QuietTypes, Unchanged DEF NetInv, TypeOK
<1>4. \A m \in Components : Untouched(m)
  BY <1>1, QuietFacts DEF Untouched
<1>. QED  BY <1>1, <1>3, <1>4, QuietFacts, UntouchedStays DEF NetInv

\* A step of a session changes one database, where nothing is removed.
LEMMA CatalogNet ==
    ASSUME NetInv, UNCHANGED <<network, phase, process, joins, faults>>, CatalogTypeOK',
           unread \subseteq unread',
           \A d \in Components : /\ sources[d] \subseteq sources'[d] /\ links[d] \subseteq links'[d]
                                 /\ TokensKnown(d) \subseteq TokensKnown(d)'
    PROVE  NetInv'
<1>0. First \in Components
  BY MembershipAssumption
<1>1. /\ key' = key /\ table' = table /\ phase' = phase /\ todo' = todo /\ remote' = remote
      /\ polling' = polling /\ leaving' = leaving /\ joins' = joins /\ faults' = faults
  BY DEF network, process
<1>2. \A m : /\ Known(m)' = Known(m) /\ JoinComponents(m)' = JoinComponents(m)
             /\ PublicKey(m)' = PublicKey(m)
  BY <1>1 DEF Known, JoinComponents, PublicKey
<1>3. \A m : AllCatalogued(First, m) => AllCatalogued(First, m)'
  BY <1>0, CataloguedStays
<1>4. FirstKept
  BY <1>0, <1>1, <1>2 DEF FirstKept
<1>5. Named'
  BY <1>1, <1>2 DEF NetInv, Named
<1>6. Left'
  BY <1>1, <1>2, <1>3 DEF NetInv, Left
<1>7. TypeOK'
  BY <1>1 DEF NetInv, TypeOK, MembershipTypeOK
<1>8. \A m \in Components : Untouched(m)
  BY <1>1, <1>2 DEF Untouched
<1>. QED  BY <1>4, <1>5, <1>6, <1>7, <1>8, UntouchedStays DEF NetInv

-----------------------------------------------------------------------------
(* What the sessions keep.                                                   *)

\* A session relies upon data sources and links only, and those only grow.
LEMMA SessionGrows ==
    ASSUME NEW d, NEW o, NEW s, SessionOK(s, d, o),
           sources[d] \subseteq sources'[d], links[d] \subseteq links'[d],
           unread \subseteq unread'
    PROVE  SessionOK(s, d, o)'
<1>1. AllCatalogued(d, o) => AllCatalogued(d, o)'
  BY CataloguedStays
<1>2. PICK i \in 1..(Len(Data[o]) + 1) : Reached(s, d, o, i)
  BY DEF SessionOK
<1>3. Reached(s, d, o, i)'
  BY <1>2, CataloguedStays DEF Reached, HasFirst, HasId
<1>. QED  BY <1>1, <1>3 DEF SessionOK

\* What is said of a session is said of the slot that has it.
LEMMA SessionThere ==
    ASSUME NEW slot, NEW d, NEW o, NEW s, sessions'[slot] = s, SessionOK(s, d, o)'
    PROVE  SessionOK(sessions[slot], d, o)'
BY DEF SessionOK, Reached, HasFirst, HasId

\* Outside of the steps of a session.
LEMMA SteadyStays ==
    ASSUME NetInv, Stock, Fresh, SlotsOK, SessionsKept,
           sources' = sources, links' = links, files' = files, unread' = unread,
           \A d \in Components : TokensKnown(d) \subseteq TokensKnown(d)'
    PROVE  Stock' /\ Fresh' /\ SlotsOK'
<1>1. PICK org : Carries(org)
  BY DEF SessionsKept
<1>2. Stock'
  BY DEF Stock
<1>3. \A slot \in Slots : Pending(slot)' \subseteq Pending(org[slot])
  <2> TAKE slot \in Slots
  <2>1. slot[1] \in Components
    BY SlotOf DEF Slots
  <2>2. NewSession(slot[1]).added = {}
    BY <2>1, NewSessionFacts
  <2>3. Pending(slot)' = IF sessions'[slot] = NoSession THEN {} ELSE sessions'[slot].added
    BY DEF Pending
  <2>. QED  BY <1>1, <2>2, <2>3 DEF Carries, Pending
<1>4. Fresh'
  <2>1. ASSUME NEW slot \in Slots, NEW row \in Pending(slot)'
        PROVE  row.id \in files'[slot[2]] /\ \A other \in sources'[slot[2]] : other.id # row.id
    BY <1>1, <1>3, <2>1 DEF Carries, Fresh
  <2>2. ASSUME NEW slot \in Slots, NEW twin \in Slots, slot[2] = twin[2],
               NEW row \in Pending(slot)', NEW other \in Pending(twin)', row.id = other.id
        PROVE  slot = twin /\ row = other
    <3>1. /\ org[slot] \in Slots /\ org[twin] \in Slots /\ org[slot][2] = org[twin][2]
          /\ row \in Pending(org[slot]) /\ other \in Pending(org[twin])
      BY <1>1, <1>3, <2>2 DEF Carries
    <3>2. org[slot] = org[twin] /\ row = other
      BY <2>2, <3>1 DEF Fresh
    <3>. QED  BY <1>1, <3>2 DEF Carries
  <2>. QED  BY <2>1, <2>2 DEF Fresh
<1>5. SlotsOK'
  <2>1. ASSUME NEW slot \in Slots, sessions'[slot] # NoSession
        PROVE  Populated(slot[2])' /\ SessionOK(sessions[slot], slot[2], slot[1])'
    <3>1. Populated(slot[2])'
      BY <1>1, <2>1 DEF Carries, Populated
    <3>2. PICK s : s = sessions'[slot]
      OBVIOUS
    <3>3. SessionOK(s, slot[2], slot[1])
      <4>1. CASE s = NewSession(slot[1])
        <5>1. slot[1] \in Components
          BY DEF Slots
        <5>. QED  BY <4>1, <5>1, NewSessionFacts
      <4>2. CASE s = sessions[org[slot]]
        BY <1>1, <2>1, <3>2, <4>2 DEF Carries, SlotsOK
      <4>. QED  BY <1>1, <2>1, <3>2, <4>1, <4>2 DEF Carries
    <3>4. SessionOK(s, slot[2], slot[1])'
      BY <3>3, SessionGrows
    <3>5. SessionOK(sessions[slot], slot[2], slot[1])'
      BY <3>2, <3>4, SessionThere
    <3>. QED  BY <3>1, <3>5
  <2>. QED  BY <2>1 DEF SlotsOK
<1>. QED  BY <1>2, <1>4, <1>5

\* The next step of the session of one slot.
LEMMA SlotMoves ==
    ASSUME NetInv, SlotsOK, NEW slot \in Slots, NEW s \in Session, sessions[slot] # NoSession,
           sessions' = [sessions EXCEPT ![slot] = s], phase' = phase,
           \A d \in Components : sources[d] \subseteq sources'[d] /\ links[d] \subseteq links'[d],
           unread \subseteq unread',
           SessionOK(s, slot[2], slot[1])'
    PROVE  /\ SlotsOK' /\ sessions' \in [Slots -> {NoSession} \cup Session]
           /\ Pending(slot) = sessions[slot].added /\ Pending(slot)' = s.added
           /\ \A other \in Slots : other # slot => Pending(other)' = Pending(other)
<1>1. /\ sessions' \in [Slots -> {NoSession} \cup Session] /\ sessions'[slot] = s
      /\ \A other \in Slots : other # slot => sessions'[other] = sessions[other]
  BY SessionStep
<1>2. s # NoSession
  BY CatalogAssumption
<1>3. \A other \in Slots : sessions[other] # NoSession => Populated(other[2])'
  BY DEF SlotsOK, Populated
<1>4. ASSUME NEW other \in Slots, sessions'[other] # NoSession
      PROVE  Populated(other[2])' /\ SessionOK(sessions[other], other[2], other[1])'
  <2>1. CASE other = slot
    <3>1. Populated(slot[2])'
      BY <1>3
    <3>2. SessionOK(sessions[slot], slot[2], slot[1])'
      BY <1>1, SessionThere
    <3>. QED  BY <2>1, <3>1, <3>2
  <2>2. CASE other # slot
    <3>1. PICK t : t = sessions[other]
      OBVIOUS
    <3>2. t # NoSession /\ SessionOK(t, other[2], other[1]) /\ other[2] \in Components
      BY <1>1, <1>4, <2>2, <3>1 DEF SlotsOK, Slots
    <3>3. SessionOK(t, other[2], other[1])'
      BY <3>2, SessionGrows
    <3>4. sessions'[other] = t
      BY <1>1, <2>2, <3>1
    <3>5. SessionOK(sessions[other], other[2], other[1])'
      BY <3>3, <3>4, SessionThere
    <3>. QED  BY <1>3, <3>1, <3>2, <3>5
  <2>. QED  BY <2>1, <2>2
<1>5. SlotsOK'
  BY <1>4 DEF SlotsOK
<1>. QED  BY <1>1, <1>2, <1>5 DEF Pending

\* How much of the metadata is left.
LEMMA RestFacts ==
    ASSUME NEW o \in Components, NEW i \in 1 .. (Len(Data[o]) + 1)
    PROVE  /\ Rest(o, i) = << >> <=> i = Len(Data[o]) + 1
           /\ i # Len(Data[o]) + 1 =>
                 /\ i \in DOMAIN Data[o] /\ i + 1 \in 1 .. (Len(Data[o]) + 1)
                 /\ Head(Rest(o, i)) = Data[o][i] /\ Tail(Rest(o, i)) = Rest(o, i + 1)
<1>1. /\ Data[o] \in Seq(Hashes) /\ Len(Data[o]) \in Nat /\ DOMAIN Data[o] = 1 .. Len(Data[o])
      /\ \A j \in 1 .. Len(Data[o]) : Data[o][j] \in Hashes
  BY DataSeq
<1>2. CASE i = Len(Data[o]) + 1
  <2>1. Rest(o, i) = << >>
    BY <1>1, <1>2, SubSeqEmpty DEF Rest
  <2>. QED  BY <1>2, <2>1
<1>3. CASE i # Len(Data[o]) + 1
  <2>1. i \in 1 .. Len(Data[o]) /\ Len(Data[o]) \in i .. Len(Data[o])
    BY <1>1, <1>3
  <2>2. Head(Rest(o, i)) = Data[o][i] /\ Tail(Rest(o, i)) = Rest(o, i + 1)
    BY <1>1, <2>1, HeadTailOfSubSeq DEF Rest
  <2>3. Len(Rest(o, i)) = Len(Data[o]) - i + 1
    BY <1>1, <2>1, SubSeqProperties DEF Rest
  <2>4. Rest(o, i) # << >>
    BY <1>1, <2>1, <2>3
  <2>. QED  BY <1>1, <1>3, <2>1, <2>2, <2>4
<1>. QED  BY <1>2, <1>3

-----------------------------------------------------------------------------
(* The steps of a session.                                                   *)

\* The database of a session has the initial projects of its node.
LEMMA SessionFacts ==
    ASSUME NetInv, SlotsOK, NEW slot \in Slots, sessions[slot] # NoSession
    PROVE  \E d, o \in Components : \E s \in Session : \E i \in 1..(Len(Data[o]) + 1) :
              /\ slot[1] = o /\ slot[2] = d /\ s = sessions[slot]
              /\ SessionOK(s, d, o) /\ Reached(s, d, o, i)
              /\ Initial[d] \subseteq TokensKnown(d)
<1>1. slot[1] \in Components /\ slot[2] \in Components
  BY DEF Slots
<1>2. sessions[slot] \in Session
  BY DEF NetInv, TypeOK, CatalogTypeOK
<1>3. Populated(slot[2]) /\ SessionOK(sessions[slot], slot[2], slot[1])
  BY DEF SlotsOK
<1>4. Initial[slot[2]] \subseteq TokensKnown(slot[2])
  BY <1>1, <1>3 DEF NetInv, NodeOK, ProjectsOK
<1>5. \E i \in 1..(Len(Data[slot[1]]) + 1) : Reached(sessions[slot], slot[2], slot[1], i)
  BY <1>3 DEF SessionOK
<1>. QED  BY <1>1, <1>2, <1>3, <1>4, <1>5

SessionStays == NetInv' /\ Stock' /\ Fresh' /\ SlotsOK'

\* Save: a new data source is given the next number, which nothing else has.
LEMMA SaveStays ==
    ASSUME NetInv, Stock, Fresh, SlotsOK, NEW slot \in Slots, sessions[slot] # NoSession,
           Save(slot), UNCHANGED <<network, phase, process, joins, faults>>
    PROVE  SessionStays
<1>1. PICK d, o \in Components : \E s \in Session : \E i \in 1..(Len(Data[o]) + 1) :
         /\ slot[1] = o /\ slot[2] = d /\ s = sessions[slot]
         /\ SessionOK(s, d, o) /\ Reached(s, d, o, i)
         /\ Initial[d] \subseteq TokensKnown(d)
  BY SessionFacts
<1>2. PICK s \in Session, i \in 1..(Len(Data[o]) + 1) :
         /\ slot[1] = o /\ slot[2] = d /\ s = sessions[slot]
         /\ SessionOK(s, d, o) /\ Reached(s, d, o, i)
  BY <1>1
<1> DEFINE h == Data[o][i]
           found == Found(d, o, h)
           new == Cardinality(files[d]) + 1
           id == IF found = {} THEN new ELSE (CHOOSE row \in found : TRUE).id
           added == IF found = {} THEN s.added \cup {[owner |-> o, hash |-> h, id |-> id]}
                    ELSE s.added
<1>3. /\ s.step = "save" /\ i \in DOMAIN Data[o] /\ i + 1 \in 1 .. (Len(Data[o]) + 1)
      /\ Head(s.meta) = h /\ Tail(s.meta) = Rest(o, i + 1)
  <2>1. s.step = "save" /\ s.meta # << >> /\ s.meta = Rest(o, i)
    BY <1>2 DEF Save, Reached
  <2>2. i # Len(Data[o]) + 1
    BY <2>1, RestFacts
  <2>. QED  BY <2>1, <2>2, RestFacts
<1>4. /\ sources' = sources /\ projects' = projects /\ links' = links /\ unread' = unread
      /\ \/ /\ ~ AtMostOne(found)
            /\ sessions' = [sessions EXCEPT ![slot].step = "failed"]
            /\ files' = files /\ torn' = torn
         \/ /\ AtMostOne(found) /\ id \in Ids
            /\ files' = [files EXCEPT ![d] = @ \cup {id}]
            /\ torn' = [torn EXCEPT ![d] = @ \cup {id}]
            /\ sessions' = [sessions EXCEPT ![slot].step = "write",
                                            ![slot].ids = @ \cup {<<h, id>>},
                                            ![slot].added = added]
  BY <1>2, <1>3 DEF Save
<1>5. h \in Hashes
  BY <1>3, DataSeq
<1>6. sessions \in [Slots -> {NoSession} \cup Session] /\ sources[d] \subseteq SourceRow
      /\ files \in [Components -> SUBSET Ids] /\ torn \in [Components -> SUBSET Ids]
  BY DEF NetInv, TypeOK, CatalogTypeOK
<1>7. \A e \in Components : TokensKnown(e)' = TokensKnown(e)
  BY <1>4 DEF TokensKnown
<1>8. CASE /\ ~ AtMostOne(found)
           /\ sessions' = [sessions EXCEPT ![slot].step = "failed"]
           /\ files' = files /\ torn' = torn
  <2>1. PICK t : t = [s EXCEPT !.step = "failed"]
    OBVIOUS
  <2>2. /\ t \in Session /\ t.step = "failed" /\ t.meta = s.meta /\ t.ids = s.ids
        /\ t.added = s.added
    BY <2>1 DEF Session
  <2>3. sessions' = [sessions EXCEPT ![slot] = t]
    BY <1>2, <1>8, <2>1
  <2>4. AllCatalogued(d, o)
    BY <1>3, <1>8 DEF AllCatalogued
  <2> HIDE DEF h, found, new, id, added
  <2>5. SessionOK(t, d, o)
    <3>1. Reached(t, d, o, i)
      BY <1>2, <2>2 DEF Reached
    <3>. QED  BY <1>2, <2>2, <2>4, <3>1 DEF SessionOK
  <2>6. SessionOK(t, d, o)'
    BY <1>4, <2>5, SessionGrows
  <2>7. /\ SlotsOK' /\ sessions' \in [Slots -> {NoSession} \cup Session]
        /\ \A other \in Slots : Pending(other)' = Pending(other)
    <3>1. /\ SlotsOK' /\ sessions' \in [Slots -> {NoSession} \cup Session]
          /\ Pending(slot) = s.added /\ Pending(slot)' = t.added
          /\ \A other \in Slots : other # slot => Pending(other)' = Pending(other)
      BY <1>2, <1>4, <2>2, <2>3, <2>6, SlotMoves
    <3>. QED  BY <2>2, <3>1
  <2>8. CatalogTypeOK'
    BY <1>4, <1>8, <2>7 DEF NetInv, TypeOK, CatalogTypeOK
  <2>9. NetInv'
    BY <1>4, <1>7, <2>8, CatalogNet
  <2>10. Stock'
    BY <1>4, <1>7, <1>8 DEF Stock
  <2>11. Fresh'
    BY <1>4, <1>8, <2>7 DEF Fresh
  <2>. QED  BY <2>7, <2>9, <2>10, <2>11 DEF SessionStays
<1>9. CASE /\ AtMostOne(found) /\ id \in Ids
           /\ files' = [files EXCEPT ![d] = @ \cup {id}]
           /\ torn' = [torn EXCEPT ![d] = @ \cup {id}]
           /\ sessions' = [sessions EXCEPT ![slot].step = "write",
                                           ![slot].ids = @ \cup {<<h, id>>},
                                           ![slot].added = added]
  <2>1. /\ Cardinality(files[d]) \in Nat /\ IsFiniteSet(files[d])
        /\ files[d] = 1 .. Cardinality(files[d])
    BY FS_CardinalityType DEF Stock
  <2>2. PICK r : r = [owner |-> o, hash |-> h, id |-> id]
    OBVIOUS
  <2>3. r \in SourceRow /\ r.id = id /\ r.owner = o /\ r.hash = h
    BY <1>5, <1>9, <2>2 DEF SourceRow
  <2>4. /\ found = {} => id = new /\ added = s.added \cup {r} /\ id \notin files[d]
        /\ found # {} => id \in files[d] /\ added = s.added /\ r \in sources[d]
    <3>1. CASE found = {}
      BY <2>1, <2>2, <3>1
    <3>2. CASE found # {}
      <4>1. PICK row \in found : id = row.id
        BY <3>2
      <4>2. row \in sources[d] /\ row.owner = o /\ row.hash = h /\ row \in SourceRow
        BY <1>6, <4>1 DEF Found
      <4>3. row = r
        BY <2>3, <4>1, <4>2 DEF SourceRow
      <4>4. id \in files[d]
        BY <4>1, <4>2 DEF Stock
      <4>. QED  BY <3>2, <4>2, <4>3, <4>4
    <3>. QED  BY <3>1, <3>2
  <2>5. PICK ids, add : ids = s.ids \cup {<<h, id>>} /\ add = added
    OBVIOUS
  <2>6. ids \in SUBSET (Hashes \X Ids) /\ add \in SUBSET SourceRow
    <3>1. s.ids \in SUBSET (Hashes \X Ids) /\ s.added \in SUBSET SourceRow
      BY DEF Session
    <3>2. <<h, id>> \in Hashes \X Ids
      BY <1>5, <1>9
    <3>3. add = s.added \/ add = s.added \cup {r}
      BY <2>4, <2>5
    <3> HIDE DEF h, found, new, id, added
    <3>. QED  BY <2>3, <2>5, <3>1, <3>2, <3>3
  <2>7. PICK t : t = [s EXCEPT !.step = "write", !.ids = ids, !.added = add]
    OBVIOUS
  <2>8. /\ t \in Session /\ t.step = "write" /\ t.meta = s.meta /\ t.ids = ids
        /\ t.added = add
    BY <2>6, <2>7 DEF Session
  <2>9. sessions' = [sessions EXCEPT ![slot] = t]
    <3>1. sessions' = [sessions EXCEPT ![slot].step = "write",
                                       ![slot].ids = s.ids \cup {<<h, id>>},
                                       ![slot].added = add]
      BY <1>2, <1>6, <1>9, <2>5 DEF Session
    <3>. QED  BY <1>2, <1>6, <2>5, <2>7, <3>1 DEF Session
  <2> HIDE DEF h, found, new, id, added
  <2>10. SessionOK(t, d, o)
    <3>1. \A pair \in t.ids :
             [owner |-> o, hash |-> pair[1], id |-> pair[2]] \in sources[d] \cup t.added
      <4> TAKE pair \in t.ids
      <4>1. CASE pair \in s.ids
        BY <1>2, <2>4, <2>5, <2>8, <4>1 DEF SessionOK
      <4>2. CASE pair = <<h, id>>
        BY <2>2, <2>4, <2>5, <2>8, <4>2
      <4>. QED  BY <2>5, <2>8, <4>1, <4>2
    <3>2. Reached(t, d, o, i)
      <4>1. HasFirst(s, o, i - 1)
        BY <1>2, <1>3 DEF Reached
      <4>2. t.ids = s.ids \cup {<<h, id>>} /\ <<h, id>>[1] = h
        BY <2>5, <2>8
      <4>3. \A k \in 1..i : k \in 1..(i - 1) \/ k = i
        BY <1>3, DataSeq
      <4>4. \A k \in 1..i : HasId(t, o, k)
        BY <4>1, <4>2, <4>3 DEF HasFirst, HasId, h
      <4>5. \A pair \in t.ids : \E k \in 1..i : pair[1] = Data[o][k]
        <5>1. \A k \in 1..(i - 1) : k \in 1..i
          OBVIOUS
        <5>2. i \in 1..i
          BY <1>3, DataSeq
        <5>. QED  BY <4>1, <4>2, <5>1, <5>2 DEF HasFirst, h
      <4>6. HasFirst(t, o, i)
        BY <4>4, <4>5 DEF HasFirst
      <4>. QED  BY <1>2, <1>3, <2>8, <4>6 DEF Reached
    <3>. QED  BY <2>8, <3>1, <3>2 DEF SessionOK
  <2>11. SessionOK(t, d, o)'
    BY <1>4, <2>10, SessionGrows
  <2>12. /\ SlotsOK' /\ sessions' \in [Slots -> {NoSession} \cup Session]
         /\ Pending(slot) = s.added /\ Pending(slot)' = t.added
         /\ \A other \in Slots : other # slot => Pending(other)' = Pending(other)
    BY <1>2, <1>4, <2>8, <2>9, <2>11, SlotMoves
  <2>13. /\ files' \in [Components -> SUBSET Ids] /\ torn' \in [Components -> SUBSET Ids]
         /\ \A e \in Components : files'[e] = IF e = d THEN files[d] \cup {id} ELSE files[e]
    BY <1>6, <1>9
  <2>14. CatalogTypeOK'
    BY <1>4, <2>12, <2>13 DEF NetInv, TypeOK, CatalogTypeOK
  <2>15. NetInv'
    BY <1>4, <1>7, <2>14, CatalogNet
  <2>16. Stock'
    <3>1. IsFiniteSet(files'[d]) /\ files'[d] = 1 .. Cardinality(files'[d])
      <4>1. CASE found # {}
        BY <2>1, <2>4, <2>13, <4>1
      <4>2. CASE found = {}
        <5>1. PICK c \in Nat : c = Cardinality(files[d]) /\ id = c + 1
          BY <2>1, <2>4, <4>2 DEF new
        <5>2. files[d] = 1 .. c /\ files'[d] = (1 .. c) \cup {c + 1}
          BY <2>1, <2>13, <5>1
        <5>3. files'[d] = 1 .. (c + 1)
          BY <5>2
        <5>4. IsFiniteSet(1 .. (c + 1)) /\ Cardinality(1 .. (c + 1)) = c + 1
          BY FS_Interval
        <5>. QED  BY <5>3, <5>4
      <4>. QED  BY <4>1, <4>2
    <3>2. \A e \in Components : IsFiniteSet(files'[e]) /\ files'[e] = 1 .. Cardinality(files'[e])
      BY <2>13, <3>1 DEF Stock
    <3>3. \A e \in Components : \A row \in sources[e] : row.id \in files'[e]
      BY <2>13 DEF Stock
    <3>. QED  BY <1>4, <1>7, <3>2, <3>3 DEF Stock
  <2>17. Fresh'
    <3>1. \A other \in Slots : \A row \in Pending(other)' :
             row \in Pending(other) \/ (other = slot /\ row = r /\ found = {})
      BY <2>4, <2>5, <2>8, <2>12
    <3>2. \A other \in Slots : \A row \in Pending(other) : row.id \in files[other[2]]
      BY DEF Fresh
    <3>3. \A other \in Slots : other[2] \in Components
      BY DEF Slots
    <3>4. found = {} => \A row \in sources[d] : row.id # r.id
      BY <2>3, <2>4 DEF Stock
    <3>5. \A other \in Slots : \A row \in Pending(other)' :
             /\ row.id \in files'[other[2]]
             /\ \A source \in sources'[other[2]] : source.id # row.id
      BY <1>2, <1>4, <2>3, <2>13, <3>1, <3>2, <3>3, <3>4 DEF Fresh
    <3>6. ASSUME NEW one \in Slots, NEW two \in Slots, one[2] = two[2],
                 NEW row \in Pending(one)', NEW other \in Pending(two)', row.id = other.id
          PROVE  one = two /\ row = other
      <4>1. CASE row \in Pending(one) /\ other \in Pending(two)
        BY <3>6, <4>1 DEF Fresh
      <4>2. CASE row \in Pending(one) /\ two = slot /\ other = r /\ found = {}
        BY <1>2, <2>3, <2>4, <3>2, <3>6, <4>2
      <4>3. CASE other \in Pending(two) /\ one = slot /\ row = r /\ found = {}
        BY <1>2, <2>3, <2>4, <3>2, <3>6, <4>3
      <4>4. CASE one = slot /\ row = r /\ two = slot /\ other = r
        BY <4>4
      <4>. QED  BY <3>1, <3>6, <4>1, <4>2, <4>3, <4>4
    <3>. QED  BY <3>5, <3>6 DEF Fresh
  <2>. QED  BY <2>12, <2>15, <2>16, <2>17 DEF SessionStays
<1>. QED  BY <1>4, <1>8, <1>9

\* A step that changes no table, no file and none of the rows to be committed.
LEMMA PlainStays ==
    ASSUME NetInv, Stock, Fresh, SlotsOK, NEW slot \in Slots, sessions[slot] # NoSession,
           UNCHANGED <<network, phase, process, joins, faults>>,
           NEW t \in Session, t.added = sessions[slot].added,
           sessions' = [sessions EXCEPT ![slot] = t], SessionOK(t, slot[2], slot[1])',
           UNCHANGED <<sources, files, projects, links>>,
           torn' \in [Components -> SUBSET Ids],
           unread \subseteq unread', unread' \subseteq Components \X Components
    PROVE  SessionStays
<1>1. /\ sources' = sources /\ files' = files /\ projects' = projects /\ links' = links
      /\ \A d : TokensKnown(d)' = TokensKnown(d)
  BY DEF TokensKnown
<1>2. /\ SlotsOK' /\ sessions' \in [Slots -> {NoSession} \cup Session]
      /\ \A other \in Slots : Pending(other)' = Pending(other)
  <2>1. /\ SlotsOK' /\ sessions' \in [Slots -> {NoSession} \cup Session]
        /\ Pending(slot) = sessions[slot].added /\ Pending(slot)' = t.added
        /\ \A other \in Slots : other # slot => Pending(other)' = Pending(other)
    BY <1>1, SlotMoves
  <2>. QED  BY <2>1
<1>3. CatalogTypeOK'
  BY <1>1, <1>2 DEF NetInv, TypeOK, CatalogTypeOK
<1>4. NetInv'
  BY <1>1, <1>3, CatalogNet
<1>5. Stock' /\ Fresh'
  BY <1>1, <1>2 DEF Stock, Fresh
<1>. QED  BY <1>2, <1>4, <1>5 DEF SessionStays

\* Write: nothing but the file.
LEMMA WriteStays ==
    ASSUME NetInv, Stock, Fresh, SlotsOK, NEW slot \in Slots, sessions[slot] # NoSession,
           Write(slot), UNCHANGED <<network, phase, process, joins, faults>>
    PROVE  SessionStays
<1>1. PICK d, o \in Components : \E s \in Session : \E i \in 1..(Len(Data[o]) + 1) :
         /\ slot[1] = o /\ slot[2] = d /\ s = sessions[slot]
         /\ SessionOK(s, d, o) /\ Reached(s, d, o, i)
         /\ Initial[d] \subseteq TokensKnown(d)
  BY SessionFacts
<1>2. PICK s \in Session, i \in 1..(Len(Data[o]) + 1) :
         /\ slot[1] = o /\ slot[2] = d /\ s = sessions[slot]
         /\ SessionOK(s, d, o) /\ Reached(s, d, o, i)
  BY <1>1
<1>3. PICK id : id = IdOf(s, Head(s.meta))
  OBVIOUS
<1>4. /\ s.step = "write" /\ torn' = [torn EXCEPT ![d] = @ \ {id}]
      /\ sessions' = [sessions EXCEPT ![slot].step = "load"]
      /\ UNCHANGED <<sources, files, projects, links>> /\ unread' = unread
  BY <1>2, <1>3 DEF Write
<1>5. torn' \in [Components -> SUBSET Ids] /\ unread' \subseteq Components \X Components
  BY <1>4 DEF NetInv, TypeOK, CatalogTypeOK
<1>6. PICK t : t = [s EXCEPT !.step = "load"]
  OBVIOUS
<1>7. /\ t \in Session /\ t.step = "load" /\ t.meta = s.meta /\ t.ids = s.ids
      /\ t.added = s.added /\ t.added = sessions[slot].added
  BY <1>2, <1>6 DEF Session
<1>8. sessions' = [sessions EXCEPT ![slot] = t]
  BY <1>2, <1>4, <1>6
<1>9. SessionOK(t, d, o)
  <2>1. Reached(t, d, o, i)
    BY <1>2, <1>4, <1>7 DEF Reached, HasFirst, HasId
  <2>. QED  BY <1>2, <1>4, <1>7, <2>1 DEF SessionOK
<1>10. SessionOK(t, d, o)'
  BY <1>4, <1>9, SessionGrows
<1>11. SessionOK(t, slot[2], slot[1])'
  BY <1>2, <1>10
<1>. QED  BY <1>4, <1>5, <1>7, <1>8, <1>11, PlainStays

\* Load: the session goes on, or is one of those that a truncated file has ended.
LEMMA LoadStays ==
    ASSUME NetInv, Stock, Fresh, SlotsOK, NEW slot \in Slots, sessions[slot] # NoSession,
           Load(slot), UNCHANGED <<network, phase, process, joins, faults>>
    PROVE  SessionStays
<1>1. PICK d, o \in Components : \E s \in Session : \E i \in 1..(Len(Data[o]) + 1) :
         /\ slot[1] = o /\ slot[2] = d /\ s = sessions[slot]
         /\ SessionOK(s, d, o) /\ Reached(s, d, o, i)
         /\ Initial[d] \subseteq TokensKnown(d)
  BY SessionFacts
<1>2. PICK s \in Session, i \in 1..(Len(Data[o]) + 1) :
         /\ slot[1] = o /\ slot[2] = d /\ s = sessions[slot]
         /\ SessionOK(s, d, o) /\ Reached(s, d, o, i)
  BY <1>1
<1>3. /\ s.step = "load" /\ i \in DOMAIN Data[o] /\ i + 1 \in 1 .. (Len(Data[o]) + 1)
      /\ Tail(s.meta) = Rest(o, i + 1) /\ HasFirst(s, o, i)
  <2>1. s.step = "load" /\ s.meta = Rest(o, i) /\ i \in DOMAIN Data[o] /\ HasFirst(s, o, i)
    BY <1>2 DEF Load, Reached
  <2>2. i # Len(Data[o]) + 1
    BY <2>1, DataSeq
  <2>. QED  BY <2>1, <2>2, RestFacts
<1>4. /\ \/ /\ sessions' = [sessions EXCEPT ![slot].step = "failed"]
            /\ unread' = unread \cup {<<o, d>>}
         \/ /\ sessions' = [sessions EXCEPT ![slot].step = "save", ![slot].meta = Tail(@)]
            /\ unread' = unread
      /\ UNCHANGED <<sources, files, torn, projects, links>>
  BY <1>2 DEF Load
<1>5. /\ torn' \in [Components -> SUBSET Ids]
      /\ unread \subseteq unread' /\ unread' \subseteq Components \X Components
      /\ sessions \in [Slots -> {NoSession} \cup Session]
  BY <1>4 DEF NetInv, TypeOK, CatalogTypeOK
<1>6. CASE /\ sessions' = [sessions EXCEPT ![slot].step = "failed"]
           /\ unread' = unread \cup {<<o, d>>}
  <2>1. PICK t : t = [s EXCEPT !.step = "failed"]
    OBVIOUS
  <2>2. /\ t \in Session /\ t.step = "failed" /\ t.meta = s.meta /\ t.ids = s.ids
        /\ t.added = s.added /\ t.added = sessions[slot].added
    BY <1>2, <2>1 DEF Session
  <2>3. sessions' = [sessions EXCEPT ![slot] = t]
    BY <1>2, <1>6, <2>1
  <2>4. AllCatalogued(d, o)'
    BY <1>6 DEF AllCatalogued
  <2>5. SessionOK(t, d, o)'
    <3>1. Reached(t, d, o, i)'
      BY <1>2, <2>2 DEF Reached
    <3>2. \A pair \in t.ids :
             [owner |-> o, hash |-> pair[1], id |-> pair[2]] \in sources'[d] \cup t.added
      BY <1>2, <1>4, <2>2 DEF SessionOK
    <3>. QED  BY <2>2, <2>4, <3>1, <3>2 DEF SessionOK
  <2>6. SessionOK(t, slot[2], slot[1])'
    BY <1>2, <2>5
  <2>. QED  BY <1>4, <1>5, <2>2, <2>3, <2>6, PlainStays
<1>7. CASE /\ sessions' = [sessions EXCEPT ![slot].step = "save", ![slot].meta = Tail(@)]
           /\ unread' = unread
  <2>1. PICK t : t = [s EXCEPT !.step = "save", !.meta = Rest(o, i + 1)]
    OBVIOUS
  <2>2. /\ t \in Session /\ t.step = "save" /\ t.meta = Rest(o, i + 1) /\ t.ids = s.ids
        /\ t.added = s.added /\ t.added = sessions[slot].added
    <3>1. Rest(o, i + 1) \in Metas
      BY <1>3, RestMeta
    <3>. QED  BY <1>2, <2>1, <3>1 DEF Session, Metas
  <2>3. sessions' = [sessions EXCEPT ![slot] = t]
    BY <1>2, <1>3, <1>5, <1>7, <2>1 DEF Session
  <2>4. SessionOK(t, d, o)
    <3>1. (i + 1) - 1 = i
      BY <1>3
    <3>2. HasFirst(t, o, (i + 1) - 1)
      BY <1>3, <2>2, <3>1 DEF HasFirst, HasId
    <3>3. Reached(t, d, o, i + 1)
      BY <2>2, <3>2 DEF Reached
    <3>. QED  BY <1>2, <1>3, <2>2, <3>3 DEF SessionOK
  <2>5. SessionOK(t, d, o)'
    BY <1>4, <1>7, <2>4, SessionGrows
  <2>6. SessionOK(t, slot[2], slot[1])'
    BY <1>2, <2>5
  <2>. QED  BY <1>4, <1>5, <2>2, <2>3, <2>6, PlainStays
<1>. QED  BY <1>4, <1>6, <1>7

\* Commit: all that was added has its row.
LEMMA CommitStays ==
    ASSUME NetInv, Stock, Fresh, SlotsOK, NEW slot \in Slots, sessions[slot] # NoSession,
           Commit(slot), UNCHANGED <<network, phase, process, joins, faults>>
    PROVE  SessionStays
<1>1. PICK d, o \in Components : \E s \in Session : \E i \in 1..(Len(Data[o]) + 1) :
         /\ slot[1] = o /\ slot[2] = d /\ s = sessions[slot]
         /\ SessionOK(s, d, o) /\ Reached(s, d, o, i)
         /\ Initial[d] \subseteq TokensKnown(d)
  BY SessionFacts
<1>2. PICK s \in Session, i \in 1..(Len(Data[o]) + 1) :
         /\ slot[1] = o /\ slot[2] = d /\ s = sessions[slot]
         /\ SessionOK(s, d, o) /\ Reached(s, d, o, i)
  BY <1>1
<1>3. /\ s.step = "save" /\ s.meta = << >>
      /\ sources' = [sources EXCEPT ![d] = @ \cup s.added]
      /\ sessions' = [sessions EXCEPT ![slot].step = "link", ![slot].meta = Data[o],
                                      ![slot].added = {}]
      /\ files' = files /\ projects' = projects /\ links' = links
      /\ torn' = torn /\ unread' = unread
  BY <1>2 DEF Commit
<1>4. i = Len(Data[o]) + 1 /\ \A k \in DOMAIN Data[o] : HasId(s, o, k)
  <2>0. Rest(o, i) = << >>
    BY <1>2, <1>3 DEF Reached
  <2>1. i = Len(Data[o]) + 1
    BY <2>0, RestFacts
  <2>2. 1 .. (i - 1) = DOMAIN Data[o]
    BY <2>1, DataSeq
  <2>. QED  BY <1>2, <1>3, <2>1, <2>2 DEF Reached, HasFirst
<1>5. /\ sessions \in [Slots -> {NoSession} \cup Session] /\ s.added \subseteq SourceRow
      /\ sources \in [Components -> SUBSET SourceRow]
  BY DEF NetInv, TypeOK, CatalogTypeOK, Session
<1>6. /\ sources' \in [Components -> SUBSET SourceRow]
      /\ \A e \in Components : sources'[e] = IF e = d THEN sources[d] \cup s.added ELSE sources[e]
  BY <1>3, <1>5
<1>7. Data[o] \in Metas /\ 1 \in 1 .. (Len(Data[o]) + 1) /\ Rest(o, 1) = Data[o]
  BY DataSeq, RestMeta
<1>8. PICK t : t = [s EXCEPT !.step = "link", !.meta = Data[o], !.added = {}]
  OBVIOUS
<1>9. /\ t \in Session /\ t.step = "link" /\ t.meta = Data[o] /\ t.ids = s.ids /\ t.added = {}
  BY <1>7, <1>8 DEF Session, Metas
<1>10. sessions' = [sessions EXCEPT ![slot] = t]
  BY <1>2, <1>3, <1>5, <1>8 DEF Session
<1>11. \A e \in Components : TokensKnown(e)' = TokensKnown(e)
  BY <1>3 DEF TokensKnown
<1>12. SessionOK(t, d, o)'
  <2>1. \A pair \in t.ids :
           [owner |-> o, hash |-> pair[1], id |-> pair[2]] \in sources'[d] \cup t.added
    BY <1>2, <1>6, <1>9 DEF SessionOK
  <2>2. Reached(t, d, o, 1)'
    <3>1. \A k \in DOMAIN Data[o] : HasId(t, o, k)
      BY <1>4, <1>9 DEF HasId
    <3>. QED  BY <1>7, <1>9, <3>1 DEF Reached, HasId
  <2>. QED  BY <1>7, <1>9, <2>1, <2>2 DEF SessionOK
<1>13. /\ SlotsOK' /\ sessions' \in [Slots -> {NoSession} \cup Session]
       /\ Pending(slot) = s.added /\ Pending(slot)' = t.added
       /\ \A other \in Slots : other # slot => Pending(other)' = Pending(other)
  <2>1. \A e \in Components : sources[e] \subseteq sources'[e] /\ links[e] \subseteq links'[e]
    BY <1>3, <1>6
  <2>2. phase' = phase /\ unread \subseteq unread'
    BY <1>3
  <2>. QED  BY <1>2, <1>9, <1>10, <1>12, <2>1, <2>2, SlotMoves
<1>14. CatalogTypeOK'
  BY <1>3, <1>6, <1>13 DEF NetInv, TypeOK, CatalogTypeOK
<1>15. NetInv'
  BY <1>3, <1>6, <1>11, <1>14, CatalogNet
<1>16. Stock'
  <2>1. /\ \A row \in s.added : row.id \in files[d] /\ \A other \in sources[d] : other.id # row.id
        /\ \A row, other \in s.added : row.id = other.id => row = other
    BY <1>2, <1>13 DEF Fresh
  <2>2. \A e \in Components : \A row \in sources'[e] : row.id \in files'[e]
    BY <1>3, <1>6, <2>1 DEF Stock
  <2>3. \A e \in Components : \A row, other \in sources'[e] : row.id = other.id => row = other
    BY <1>6, <2>1 DEF Stock
  <2>4. \A e \in Components : \A link \in links'[e] :
           link[1] \in TokensKnown(e)' /\ \E row \in sources'[e] : row.id = link[2]
    BY <1>3, <1>6, <1>11 DEF Stock
  <2>5. \A e \in Components : IsFiniteSet(files'[e]) /\ files'[e] = 1 .. Cardinality(files'[e])
    BY <1>3 DEF Stock
  <2>. QED  BY <2>2, <2>3, <2>4, <2>5 DEF Stock
<1>17. Fresh'
  <2>1. \A other \in Slots : Pending(other)' \subseteq Pending(other)
    BY <1>9, <1>13
  <2>2. \A other \in Slots : \A row \in Pending(other)' :
           /\ row.id \in files'[other[2]]
           /\ \A source \in sources'[other[2]] : source.id # row.id
    <3> TAKE other \in Slots
    <3> TAKE row \in Pending(other)'
    <3>1. row \in Pending(other) /\ other # slot
      BY <1>9, <1>13
    <3>2. /\ row.id \in files[other[2]]
          /\ \A source \in sources[other[2]] : source.id # row.id
          /\ other[2] = d => \A source \in s.added : source.id # row.id
      BY <1>2, <1>13, <3>1 DEF Fresh
    <3>3. other[2] \in Components
      BY DEF Slots
    <3>. QED  BY <1>3, <1>6, <3>2, <3>3
  <2>. QED  BY <2>1, <2>2 DEF Fresh
<1>. QED  BY <1>13, <1>15, <1>16, <1>17 DEF SessionStays

\* The steps after the commit add no data source.
LEMMA LinkingStays ==
    ASSUME NetInv, Stock, Fresh, SlotsOK, NEW slot \in Slots, sessions[slot] # NoSession,
           UNCHANGED <<network, phase, process, joins, faults>>,
           NEW t \in Session, t.added = sessions[slot].added,
           sessions' = [sessions EXCEPT ![slot] = t], SessionOK(t, slot[2], slot[1])',
           sources' = sources, files' = files, torn' = torn, unread' = unread,
           projects' \in [Components -> SUBSET [token : Tokens, named : BOOLEAN]],
           links' \in [Components -> SUBSET (Tokens \X Ids)],
           \A d \in Components :
              /\ TokensKnown(d) \subseteq TokensKnown(d)' /\ links[d] \subseteq links'[d]
              /\ \A link \in links'[d] \ links[d] :
                    link[1] \in TokensKnown(d) /\ \E row \in sources[d] : row.id = link[2]
    PROVE  SessionStays
<1>1. /\ SlotsOK' /\ sessions' \in [Slots -> {NoSession} \cup Session]
      /\ \A other \in Slots : Pending(other)' = Pending(other)
  <2>1. /\ SlotsOK' /\ sessions' \in [Slots -> {NoSession} \cup Session]
        /\ Pending(slot) = sessions[slot].added /\ Pending(slot)' = t.added
        /\ \A other \in Slots : other # slot => Pending(other)' = Pending(other)
    BY SlotMoves
  <2>. QED  BY <2>1
<1>2. CatalogTypeOK'
  BY <1>1 DEF NetInv, TypeOK, CatalogTypeOK
<1>3. NetInv'
  BY <1>2, CatalogNet
<1>4. Stock'
  <2>1. \A e \in Components : \A link \in links'[e] :
           link[1] \in TokensKnown(e)' /\ \E row \in sources'[e] : row.id = link[2]
    BY DEF Stock
  <2>. QED  BY <2>1 DEF Stock
<1>5. Fresh'
  BY <1>1 DEF Fresh
<1>. QED  BY <1>1, <1>3, <1>4, <1>5 DEF SessionStays

\* Each data source gets an id, so that linking it puts it in the projects.
LEMMA LinkKnownStays ==
    ASSUME NetInv, Stock, Fresh, SlotsOK, NEW slot \in Slots, sessions[slot] # NoSession,
           LinkKnown(slot), UNCHANGED <<network, phase, process, joins, faults>>
    PROVE  SessionStays
<1>1. PICK d, o \in Components : \E s \in Session : \E i \in 1..(Len(Data[o]) + 1) :
         /\ slot[1] = o /\ slot[2] = d /\ s = sessions[slot]
         /\ SessionOK(s, d, o) /\ Reached(s, d, o, i)
         /\ Initial[d] \subseteq TokensKnown(d)
  BY SessionFacts
<1>2. PICK s \in Session, i \in 1..(Len(Data[o]) + 1) :
         /\ slot[1] = o /\ slot[2] = d /\ s = sessions[slot]
         /\ SessionOK(s, d, o) /\ Reached(s, d, o, i)
  BY <1>1
<1> DEFINE h == Data[o][i]
           new == {<<t, IdOf(s, h)>> : t \in ToSet(TokensOf[h])}
<1>3. /\ s.step = "link" /\ i \in DOMAIN Data[o] /\ i + 1 \in 1 .. (Len(Data[o]) + 1)
      /\ Head(s.meta) = h /\ Tail(s.meta) = Rest(o, i + 1)
  BY <1>2, RestFacts DEF LinkKnown, Reached
<1>4. /\ Missing(d, h) = {}
      /\ links' = [links EXCEPT ![d] = @ \cup new]
      /\ sessions' = [sessions EXCEPT ![slot].meta = Tail(@)]
      /\ sources' = sources /\ files' = files /\ projects' = projects
      /\ torn' = torn /\ unread' = unread
  BY <1>2, <1>3 DEF LinkKnown
<1>5. /\ sessions \in [Slots -> {NoSession} \cup Session]
      /\ links \in [Components -> SUBSET (Tokens \X Ids)]
      /\ sources[d] \subseteq SourceRow
      /\ projects' \in [Components -> SUBSET [token : Tokens, named : BOOLEAN]]
  BY <1>4 DEF NetInv, TypeOK, CatalogTypeOK
<1>6. PICK id : id = IdOf(s, h)
  OBVIOUS
<1>7. \E row \in Found(d, o, h) : row.id = id /\ id \in Ids
  <2>1. \E pair \in s.ids : pair[1] = h
    BY <1>2, <1>3 DEF Reached, HasId
  <2>2. PICK pair \in s.ids : pair[1] = h /\ id = pair[2]
    BY <1>6, <2>1 DEF IdOf
  <2>3. PICK row : row = [owner |-> o, hash |-> pair[1], id |-> pair[2]]
    OBVIOUS
  <2>4. row \in sources[d]
    BY <1>2, <1>3, <2>2, <2>3 DEF SessionOK
  <2>5. row.owner = o /\ row.hash = h /\ row.id = id
    BY <2>2, <2>3
  <2>. QED  BY <1>5, <2>4, <2>5 DEF Found, SourceRow
<1>8. ToSet(TokensOf[h]) \subseteq TokensKnown(d) /\ ToSet(TokensOf[h]) \subseteq Tokens
  <2>1. h \in Hashes
    BY <1>3, DataSeq
  <2>2. TokensOf[h] \in Seq(Tokens)
    BY <2>1, CatalogAssumption
  <2>. QED  BY <1>4, <2>2, LenProperties, ElementOfSeq DEF Missing, ToSet
<1>9. /\ links' \in [Components -> SUBSET (Tokens \X Ids)]
      /\ \A e \in Components : links'[e] = IF e = d THEN links[d] \cup new ELSE links[e]
      /\ \A t \in ToSet(TokensOf[h]) : <<t, id>> \in links'[d]
      /\ \A link \in new : link[1] \in ToSet(TokensOf[h]) /\ link[2] = id
  <2>1. /\ \A t \in ToSet(TokensOf[h]) : <<t, id>> \in new
        /\ \A link \in new : \E t \in ToSet(TokensOf[h]) : link = <<t, id>>
    BY <1>6
  <2> HIDE DEF new
  <2>2. new \subseteq Tokens \X Ids
    BY <1>7, <1>8, <2>1
  <2>. QED  BY <1>4, <1>5, <2>1, <2>2
<1> HIDE DEF new
<1>10. \A e \in Components :
          /\ TokensKnown(e) \subseteq TokensKnown(e)' /\ links[e] \subseteq links'[e]
          /\ \A link \in links'[e] \ links[e] :
                link[1] \in TokensKnown(e) /\ \E row \in sources[e] : row.id = link[2]
  <2>1. \A e : TokensKnown(e)' = TokensKnown(e)
    BY <1>4 DEF TokensKnown
  <2>. QED  BY <1>7, <1>8, <1>9, <2>1 DEF Found
<1>11. PICK t : t = [s EXCEPT !.meta = Rest(o, i + 1)]
  OBVIOUS
<1>12. /\ t \in Session /\ t.step = "link" /\ t.meta = Rest(o, i + 1) /\ t.ids = s.ids
       /\ t.added = s.added /\ t.added = sessions[slot].added
  <2>1. Rest(o, i + 1) \in Metas
    BY <1>3, RestMeta
  <2>. QED  BY <1>2, <1>3, <1>11, <2>1 DEF Session, Metas
<1>13. sessions' = [sessions EXCEPT ![slot] = t]
  BY <1>2, <1>3, <1>4, <1>5, <1>11 DEF Session
<1>14. SessionOK(t, d, o)'
  <2>1. Catalogued(d, o, h)'
    BY <1>4, <1>7, <1>9 DEF Catalogued, Found
  <2>2. \A k \in 1..(i - 1) : Catalogued(d, o, Data[o][k])'
    BY <1>2, <1>3, <1>4, <1>10, CataloguedStays DEF Reached
  <2>3. \A k \in 1..i : Catalogued(d, o, Data[o][k])'
    BY <2>1, <2>2
  <2>4. \A k \in DOMAIN Data[o] : HasId(t, o, k)
    BY <1>2, <1>3, <1>12 DEF Reached, HasId
  <2>5. Reached(t, d, o, i + 1)'
    BY <1>12, <2>3, <2>4 DEF Reached, HasId
  <2>. QED  BY <1>2, <1>3, <1>4, <1>12, <2>5 DEF SessionOK
<1>15. SessionOK(t, slot[2], slot[1])'
  BY <1>2, <1>14
<1>. QED  BY <1>4, <1>5, <1>9, <1>10, <1>12, <1>13, <1>15, LinkingStays

\* FirstMissing is one of the tokens of the data source that no project has.
LEMMA FirstMissingToken ==
    ASSUME NEW d, NEW h, TokensOf[h] \in Seq(Tokens), Missing(d, h) # {}
    PROVE  FirstMissing(d, h) \in Tokens
<1> DEFINE At == {i \in DOMAIN TokensOf[h] : TokensOf[h][i] \in Missing(d, h)}
<1>1. DOMAIN TokensOf[h] = 1 .. Len(TokensOf[h]) /\ Len(TokensOf[h]) \in Nat
  BY LenProperties
<1>2. At \in SUBSET Nat /\ At # {}
  BY <1>1 DEF Missing, ToSet
<1>3. \E i \in At : \A j \in At : i <= j
  BY <1>2, LeastNatural
<1>4. Min(At) \in At
  <2> HIDE DEF At
  <2>. QED  BY <1>3 DEF Min
<1>5. \A i \in 1 .. Len(TokensOf[h]) : TokensOf[h][i] \in Tokens
  BY ElementOfSeq
<1>. QED  BY <1>1, <1>4, <1>5 DEF FirstMissing

\* What is linked before the first unknown token is all that can be expected.
LEMMA UnknownToken ==
    ASSUME NEW d, NEW o, NEW i \in DOMAIN Data[o], o \in Components,
           ~ (ToSet(TokensOf[Data[o][i]]) \subseteq Initial[d]),
           \A k \in 1..(i - 1) : Catalogued(d, o, Data[o][k])
    PROVE  AllCatalogued(d, o)
<1>1. DOMAIN Data[o] = 1 .. Len(Data[o]) /\ Len(Data[o]) \in Nat
  BY DataSeq
<1>2. ASSUME NEW j \in DOMAIN Data[o],
             \A k \in 1..j : ToSet(TokensOf[Data[o][k]]) \subseteq Initial[d]
      PROVE  Catalogued(d, o, Data[o][j])
  <2>1. j < i
    BY <1>1, <1>2
  <2>. QED  BY <1>1, <2>1
<1>. QED  BY <1>2 DEF AllCatalogued

\* LinkUnknown: an unknown token is not an initial one, so the session may fail.
LEMMA LinkUnknownStays ==
    ASSUME NetInv, Stock, Fresh, SlotsOK, NEW slot \in Slots, sessions[slot] # NoSession,
           LinkUnknown(slot), UNCHANGED <<network, phase, process, joins, faults>>
    PROVE  SessionStays
<1>1. PICK d, o \in Components : \E s \in Session : \E i \in 1..(Len(Data[o]) + 1) :
         /\ slot[1] = o /\ slot[2] = d /\ s = sessions[slot]
         /\ SessionOK(s, d, o) /\ Reached(s, d, o, i)
         /\ Initial[d] \subseteq TokensKnown(d)
  BY SessionFacts
<1>2. PICK s \in Session, i \in 1..(Len(Data[o]) + 1) :
         /\ slot[1] = o /\ slot[2] = d /\ s = sessions[slot]
         /\ SessionOK(s, d, o) /\ Reached(s, d, o, i)
         /\ Initial[d] \subseteq TokensKnown(d)
  BY <1>1
<1> DEFINE h == Data[o][i]
<1>3. /\ s.step = "link" /\ i \in DOMAIN Data[o] /\ Head(s.meta) = h
  BY <1>2, RestFacts DEF LinkUnknown, Reached
<1>4. /\ Missing(d, h) # {} /\ UNCHANGED catalog
      /\ \E p \in {"failed", "create"} :
            sessions' = [sessions EXCEPT ![slot].step = p, ![slot].token = FirstMissing(d, h)]
  BY <1>2, <1>3 DEF LinkUnknown
<1>0. PICK token : token = FirstMissing(d, h)
  OBVIOUS
<1>5. PICK p \in {"failed", "create"} :
         sessions' = [sessions EXCEPT ![slot].step = p, ![slot].token = token]
  BY <1>0, <1>4
<1>6. /\ sources' = sources /\ files' = files /\ projects' = projects /\ links' = links
      /\ torn' = torn /\ unread' = unread
  BY <1>4 DEF catalog
<1>7. /\ sessions \in [Slots -> {NoSession} \cup Session]
      /\ links' \in [Components -> SUBSET (Tokens \X Ids)]
      /\ projects' \in [Components -> SUBSET [token : Tokens, named : BOOLEAN]]
  BY <1>6 DEF NetInv, TypeOK, CatalogTypeOK
<1>8. token \in Tokens
  <2>1. TokensOf[h] \in Seq(Tokens)
    BY <1>3, DataSeq, CatalogAssumption
  <2>. QED  BY <1>0, <1>4, <2>1, FirstMissingToken
<1>9. ~ (ToSet(TokensOf[h]) \subseteq Initial[d])
  BY <1>2, <1>4 DEF Missing
<1>10. PICK t : t = [s EXCEPT !.step = p, !.token = token]
  OBVIOUS
<1>11. /\ t \in Session /\ t.step = p /\ t.token = token /\ t.meta = s.meta /\ t.ids = s.ids
       /\ t.added = s.added /\ t.added = sessions[slot].added
  BY <1>2, <1>8, <1>10 DEF Session
<1>12. sessions' = [sessions EXCEPT ![slot] = t]
  BY <1>2, <1>5, <1>7, <1>10 DEF Session
<1>13. SessionOK(t, d, o)
  <2>1. s.added = {} /\ \A k \in 1..(i - 1) : Catalogued(d, o, Data[o][k])
    BY <1>2, <1>3 DEF SessionOK, Reached
  <2>2. AllCatalogued(d, o)
    BY <1>3, <1>9, <2>1, UnknownToken
  <2>3. Reached(t, d, o, i)
    <3>1. \A k \in DOMAIN Data[o] : HasId(t, o, k)
      BY <1>2, <1>3, <1>11 DEF Reached, HasId
    <3>2. t.meta = Rest(o, i)
      BY <1>2, <1>11 DEF Reached
    <3>. QED  BY <1>3, <1>9, <1>11, <2>1, <3>1, <3>2 DEF Reached
  <2>. QED  BY <1>2, <1>8, <1>11, <2>1, <2>2, <2>3 DEF SessionOK
<1>14. SessionOK(t, d, o)'
  BY <1>6, <1>13, SessionGrows
<1>15. SessionOK(t, slot[2], slot[1])'
  BY <1>2, <1>14
<1>16. \A e \in Components :
          /\ TokensKnown(e) \subseteq TokensKnown(e)' /\ links[e] \subseteq links'[e]
          /\ \A link \in links'[e] \ links[e] :
                link[1] \in TokensKnown(e) /\ \E row \in sources[e] : row.id = link[2]
  BY <1>6 DEF TokensKnown
<1>. QED  BY <1>6, <1>7, <1>11, <1>12, <1>15, <1>16, LinkingStays

\* CreateUnnamed: the session fails with the links of this data source not made.
LEMMA CreateUnnamedStays ==
    ASSUME NetInv, Stock, Fresh, SlotsOK, NEW slot \in Slots, sessions[slot] # NoSession,
           CreateUnnamed(slot), UNCHANGED <<network, phase, process, joins, faults>>
    PROVE  SessionStays
<1>1. PICK d, o \in Components : \E s \in Session : \E i \in 1..(Len(Data[o]) + 1) :
         /\ slot[1] = o /\ slot[2] = d /\ s = sessions[slot]
         /\ SessionOK(s, d, o) /\ Reached(s, d, o, i)
         /\ Initial[d] \subseteq TokensKnown(d)
  BY SessionFacts
<1>2. PICK s \in Session, i \in 1..(Len(Data[o]) + 1) :
         /\ slot[1] = o /\ slot[2] = d /\ s = sessions[slot]
         /\ SessionOK(s, d, o) /\ Reached(s, d, o, i)
  BY <1>1
<1>3. /\ s.step = "create"
      /\ projects' = IF s.token \in TokensKnown(d) THEN projects
                     ELSE [projects EXCEPT ![d] = @ \cup {[token |-> s.token, named |-> FALSE]}]
      /\ sessions' = [sessions EXCEPT ![slot].step = "failed"]
      /\ sources' = sources /\ files' = files /\ links' = links
      /\ torn' = torn /\ unread' = unread
  BY <1>2 DEF CreateUnnamed
<1>4. /\ sessions \in [Slots -> {NoSession} \cup Session]
      /\ links' \in [Components -> SUBSET (Tokens \X Ids)]
      /\ projects \in [Components -> SUBSET [token : Tokens, named : BOOLEAN]]
  BY <1>3 DEF NetInv, TypeOK, CatalogTypeOK
<1>5. PICK p : p = [token |-> s.token, named |-> FALSE]
  OBVIOUS
<1>6. p \in [token : Tokens, named : BOOLEAN]
  BY <1>2, <1>3, <1>5 DEF SessionOK
<1>7. /\ projects' \in [Components -> SUBSET [token : Tokens, named : BOOLEAN]]
      /\ \A e \in Components : projects[e] \subseteq projects'[e]
  BY <1>3, <1>4, <1>5, <1>6
<1>8. PICK t : t = [s EXCEPT !.step = "failed"]
  OBVIOUS
<1>9. /\ t \in Session /\ t.step = "failed" /\ t.meta = s.meta /\ t.ids = s.ids
      /\ t.added = s.added /\ t.added = sessions[slot].added
  BY <1>2, <1>8 DEF Session
<1>10. sessions' = [sessions EXCEPT ![slot] = t]
  BY <1>2, <1>3, <1>8
<1>11. SessionOK(t, d, o)
  <2>1. AllCatalogued(d, o)
    <3>1. /\ i \in DOMAIN Data[o] /\ ~ (ToSet(TokensOf[Data[o][i]]) \subseteq Initial[d])
          /\ \A k \in 1..(i - 1) : Catalogued(d, o, Data[o][k])
      BY <1>2, <1>3 DEF Reached
    <3>. QED  BY <3>1, UnknownToken
  <2>2. Reached(t, d, o, i)
    BY <1>2, <1>9 DEF Reached
  <2>. QED  BY <1>2, <1>9, <2>1, <2>2 DEF SessionOK
<1>12. SessionOK(t, d, o)'
  BY <1>3, <1>11, SessionGrows
<1>13. SessionOK(t, slot[2], slot[1])'
  BY <1>2, <1>12
<1>14. \A e \in Components :
          /\ TokensKnown(e) \subseteq TokensKnown(e)' /\ links[e] \subseteq links'[e]
          /\ \A link \in links'[e] \ links[e] :
                link[1] \in TokensKnown(e) /\ \E row \in sources[e] : row.id = link[2]
  BY <1>3, <1>7 DEF TokensKnown
<1>. QED  BY <1>3, <1>4, <1>7, <1>9, <1>10, <1>13, <1>14, LinkingStays

\* Linked: the whole metadata was linked.
LEMMA LinkedStays ==
    ASSUME NetInv, Stock, Fresh, SlotsOK, NEW slot \in Slots, sessions[slot] # NoSession,
           Linked(slot), UNCHANGED <<network, phase, process, joins, faults>>
    PROVE  SessionStays
<1>1. PICK d, o \in Components : \E s \in Session : \E i \in 1..(Len(Data[o]) + 1) :
         /\ slot[1] = o /\ slot[2] = d /\ s = sessions[slot]
         /\ SessionOK(s, d, o) /\ Reached(s, d, o, i)
         /\ Initial[d] \subseteq TokensKnown(d)
  BY SessionFacts
<1>2. PICK s \in Session, i \in 1..(Len(Data[o]) + 1) :
         /\ slot[1] = o /\ slot[2] = d /\ s = sessions[slot]
         /\ SessionOK(s, d, o) /\ Reached(s, d, o, i)
  BY <1>1
<1>3. /\ s.step = "link" /\ s.meta = << >>
      /\ sessions' = [sessions EXCEPT ![slot].step = "done"] /\ UNCHANGED catalog
  BY <1>2 DEF Linked
<1>4. /\ sources' = sources /\ files' = files /\ projects' = projects /\ links' = links
      /\ torn' = torn /\ unread' = unread
  BY <1>3 DEF catalog
<1>5. /\ sessions \in [Slots -> {NoSession} \cup Session]
      /\ links' \in [Components -> SUBSET (Tokens \X Ids)]
      /\ projects' \in [Components -> SUBSET [token : Tokens, named : BOOLEAN]]
  BY <1>4 DEF NetInv, TypeOK, CatalogTypeOK
<1>6. PICK t : t = [s EXCEPT !.step = "done"]
  OBVIOUS
<1>7. /\ t \in Session /\ t.step = "done" /\ t.meta = s.meta /\ t.ids = s.ids
      /\ t.added = s.added /\ t.added = sessions[slot].added
  BY <1>2, <1>6 DEF Session
<1>8. sessions' = [sessions EXCEPT ![slot] = t]
  BY <1>2, <1>3, <1>6
<1>9. SessionOK(t, d, o)
  <2>1. Rest(o, i) = << >>
    BY <1>2, <1>3 DEF Reached
  <2>2. i = Len(Data[o]) + 1
    BY <2>1, RestFacts
  <2>3. \A k \in 1..(i - 1) : Catalogued(d, o, Data[o][k])
    BY <1>2, <1>3 DEF Reached
  <2>4. 1 .. (i - 1) = DOMAIN Data[o]
    BY <2>2, DataSeq
  <2>5. AllCatalogued(d, o)
    BY <2>3, <2>4 DEF AllCatalogued
  <2>6. Reached(t, d, o, i)
    BY <1>2, <1>7 DEF Reached
  <2>7. s.added = {}
    BY <1>2, <1>3 DEF SessionOK
  <2>. QED  BY <1>2, <1>7, <2>5, <2>6, <2>7 DEF SessionOK
<1>10. SessionOK(t, d, o)'
  BY <1>4, <1>9, SessionGrows
<1>11. SessionOK(t, slot[2], slot[1])'
  BY <1>2, <1>10
<1>12. \A e \in Components :
          /\ TokensKnown(e) \subseteq TokensKnown(e)' /\ links[e] \subseteq links'[e]
          /\ \A link \in links'[e] \ links[e] :
                link[1] \in TokensKnown(e) /\ \E row \in sources[e] : row.id = link[2]
  BY <1>4 DEF TokensKnown
<1>. QED  BY <1>4, <1>5, <1>7, <1>8, <1>11, <1>12, LinkingStays

\* One step of a session.
LEMMA MetadataStays ==
    ASSUME NetInv, Stock, Fresh, SlotsOK, NEW slot \in Slots,
           Metadata(slot), UNCHANGED <<network, phase, process, joins, faults>>
    PROVE  SessionStays
<1>1. sessions[slot] # NoSession
  BY DEF Metadata
<1>2. \/ Save(slot) \/ Write(slot) \/ Load(slot) \/ Commit(slot) \/ LinkKnown(slot)
      \/ LinkUnknown(slot) \/ CreateUnnamed(slot) \/ Linked(slot)
  BY DEF Metadata
<1>. QED  BY <1>1, <1>2, SaveStays, WriteStays, LoadStays, CommitStays, LinkKnownStays,
             LinkUnknownStays, CreateUnnamedStays, LinkedStays

-----------------------------------------------------------------------------
(* The other steps, to the data sources and the sessions.                    *)

\* A session is about to write a file.
Writing(slot) == sessions[slot] # NoSession /\ sessions[slot].step = "write"

Stops(d) == phase[d] # "down" /\ phase'[d] = "down"

\* A session that is about to write will do so, unless its process stops.
WritersKept ==
    \A slot \in Slots : Writing(slot) =>
        Stops(slot[2]) \/ \E twin \in Slots : twin[2] = slot[2] /\ sessions'[twin] = sessions[slot]

\* No data source, file, link or project goes away, and no session changes its hands.
Steady ==
    /\ SessionsKept /\ WritersKept /\ sources' = sources /\ links' = links /\ files' = files
    /\ torn' = torn /\ unread' = unread
    /\ \A d \in Components : TokensKnown(d) \subseteq TokensKnown(d)'

\* A step that changes no database.
LEMMA SteadyHere ==
    ASSUME SessionsKept, WritersKept, UNCHANGED catalog
    PROVE  Steady
BY DEF Steady, catalog, TokensKnown

\* Nor any session.
LEMMA WritersSame ==
    ASSUME sessions' = sessions
    PROVE  WritersKept
BY DEF WritersKept

\* A step from one phase of a running process to another.
LEMMA SteadyPhase ==
    ASSUME NetInv, SlotsOK, NEW n \in Components, NEW p \in Phases \ {"down", "populate"},
           GoTo(n, p), sessions' = sessions
    PROVE  SessionsKept
<1>1. phase'[n] = p /\ \A m \in Components \ {n} : phase'[m] = phase[m]
  BY PhaseStep
<1>2. \A d \in Components : Populated(d) => phase'[d] \notin {"down", "populate"}
  BY <1>1 DEF Populated
<1>. QED  BY <1>2, KeptSame

\* A step that changes no phase.
LEMMA SteadySame ==
    ASSUME SlotsOK, phase' = phase, sessions' = sessions
    PROVE  SessionsKept
BY KeptSame DEF Populated

\* A process that starts serves no session before it is populated.
LEMMA StartSteady ==
    ASSUME NetInv, SlotsOK, NEW n \in Components, Start(n)
    PROVE  Steady
<1>1. phase[n] = "down" /\ GoTo(n, "populate") /\ sessions' = sessions /\ UNCHANGED catalog
  BY DEF Start
<1>2. phase'[n] = "populate" /\ \A m \in Components \ {n} : phase'[m] = phase[m]
  BY <1>1, PhaseStep DEF Phases
<1>3. \A d \in Components : Populated(d) => phase'[d] \notin {"down", "populate"}
  BY <1>1, <1>2 DEF Populated
<1>. QED  BY <1>1, <1>3, KeptSame, WritersSame, SteadyHere

\* Initial projects are only added.
LEMMA PopulateSteady ==
    ASSUME NetInv, SlotsOK, NEW n \in Components, Populate(n)
    PROVE  Steady
<1>1. /\ GoTo(n, "join") /\ sessions' = sessions /\ CreateInitialProjects(n)
      /\ sources' = sources /\ links' = links /\ files' = files
      /\ torn' = torn /\ unread' = unread
  BY DEF Populate
<1>2. SessionsKept
  BY <1>1, SteadyPhase DEF Phases
<1>3. \A d \in Components : projects[d] \subseteq projects'[d]
  BY <1>1 DEF CreateInitialProjects, NetInv, TypeOK, CatalogTypeOK
<1>. QED  BY <1>1, <1>2, <1>3, WritersSame DEF Steady, TokensKnown

\* The steps of a startup that neither start nor end a session.
LEMMA StartupSteady ==
    ASSUME NetInv, SlotsOK, NEW n \in Components,
           \/ NoJoin(n) \/ SendJoin(n) \/ JoinFails(n) \/ Record(n)
           \/ Unreachable(n) \/ Distributed(n) \/ StartHeartbeat(n) \/ Leave(n)
    PROVE  Steady
<1>1. sessions' = sessions /\ UNCHANGED catalog
  BY DEF NoJoin, SendJoin, JoinFails, Record, Unreachable, Distributed, StartHeartbeat, Leave
<1>2. phase' = phase \/ \E p \in Phases \ {"down", "populate"} : GoTo(n, p)
  BY DEF NoJoin, SendJoin, JoinFails, Record, Unreachable, Distributed, StartHeartbeat, Leave, Phases
<1>. QED  BY <1>1, <1>2, SteadySame, SteadyPhase, WritersSame, SteadyHere

\* The handler of a join.
LEMMA JoinSteady ==
    ASSUME NetInv, SlotsOK, NEW slot \in Components \X BOOLEAN,
           Connect(slot) \/ Joined(slot) \/ Refuse(slot)
    PROVE  Steady
<1>1. sessions' = sessions /\ UNCHANGED catalog
  BY DEF Connect, Joined, Refuse
<1>2. slot[1] \in Components
  OBVIOUS
<1>3. phase' = phase \/ \E p \in Phases \ {"down", "populate"} : GoTo(slot[1], p)
  BY DEF Connect, Joined, Refuse, Phases
<1>. QED  BY <1>1, <1>2, <1>3, SteadySame, SteadyPhase, WritersSame, SteadyHere

\* A session ends in one slot.
LEMMA SessionEnds ==
    ASSUME NetInv, SlotsOK, NEW slot \in Slots, Ended(slot),
           sessions' = [sessions EXCEPT ![slot] = NoSession],
           \A d \in Components : Populated(d) => phase'[d] \notin {"down", "populate"},
           UNCHANGED catalog
    PROVE  Steady
<1>1. sessions \in [Slots -> {NoSession} \cup Session]
  BY DEF NetInv, TypeOK, CatalogTypeOK
<1>2. \A other \in Slots : other[2] \in Components
  BY DEF Slots
<1>3. ASSUME NEW other \in Slots, sessions'[other] # NoSession
      PROVE  /\ sessions'[other] = NewSession(other[1]) \/ sessions'[other] = sessions[other]
             /\ phase'[other[2]] \notin {"down", "populate"}
  <2>1. other # slot /\ sessions'[other] = sessions[other]
    BY <1>1, <1>3
  <2>. QED  BY <1>2, <1>3, <2>1 DEF SlotsOK
<1>4. WritersKept
  BY <1>1 DEF WritersKept, Writing, Ended
<1>. QED  BY <1>3, <1>4, KeptInPlace, SteadyHere

\* A session starts in one slot.
LEMMA SessionStarts ==
    ASSUME NetInv, SlotsOK, NEW slot \in Slots, sessions[slot] = NoSession,
           sessions' = [sessions EXCEPT ![slot] = NewSession(slot[1])],
           phase'[slot[2]] \notin {"down", "populate"},
           \A d \in Components : Populated(d) => phase'[d] \notin {"down", "populate"},
           UNCHANGED catalog
    PROVE  Steady
<1>1. sessions \in [Slots -> {NoSession} \cup Session]
  BY DEF NetInv, TypeOK, CatalogTypeOK
<1>2. \A other \in Slots : other[2] \in Components
  BY DEF Slots
<1>3. ASSUME NEW other \in Slots, sessions'[other] # NoSession
      PROVE  /\ sessions'[other] = NewSession(other[1]) \/ sessions'[other] = sessions[other]
             /\ phase'[other[2]] \notin {"down", "populate"}
  <2>1. CASE other = slot
    BY <1>1, <1>3, <2>1
  <2>2. CASE other # slot
    BY <1>1, <1>2, <1>3, <2>2 DEF SlotsOK
  <2>. QED  BY <2>1, <2>2
<1>4. WritersKept
  BY <1>1 DEF WritersKept, Writing
<1>. QED  BY <1>3, <1>4, KeptInPlace, SteadyHere

\* The steps of a startup that start a session or end one.
LEMMA SessionSteady ==
    ASSUME NetInv, SlotsOK, Awaited, NEW n \in Components,
           AddMetadata(n) \/ Added(n) \/ SendMetadata(n) \/ Answered(n)
    PROVE  Steady
<1>1. UNCHANGED catalog /\ phase[n] \in {"metadata", "local", "distribute", "waiting"}
  BY DEF AddMetadata, Added, SendMetadata, Answered
<1>2. phase' = phase \/ \E p \in Phases \ {"down", "populate"} : GoTo(n, p)
  BY DEF AddMetadata, Added, SendMetadata, Answered, Phases
<1>3. \A d \in Components : Populated(d) => phase'[d] \notin {"down", "populate"}
  BY <1>1, <1>2, PhaseStep DEF Populated
<1>4. OwnSession(n) \in Slots /\ OwnSession(n)[1] = n /\ OwnSession(n)[2] = n
  BY SlotOf DEF OwnSession
<1>5. CASE AddMetadata(n)
  <2>1. phase'[n] \notin {"down", "populate"}
    BY <1>1, <1>3 DEF Populated
  <2>2. \/ sessions' = sessions
        \/ sessions' = [sessions EXCEPT ![OwnSession(n)] = NewSession(n)]
    BY <1>5 DEF AddMetadata
  <2>3. CASE sessions' = sessions
    BY <1>1, <1>3, <2>3, KeptSame, WritersSame, SteadyHere
  <2>4. CASE sessions' = [sessions EXCEPT ![OwnSession(n)] = NewSession(n)]
    <3>1. PICK slot \in Slots : slot = OwnSession(n)
      BY <1>4
    <3>2. slot[1] = n /\ slot[2] = n
      BY <1>4, <3>1
    <3>3. sessions[slot] = NoSession
      BY <1>5, <3>1, <3>2 DEF AddMetadata, Awaited, OwnSession
    <3>. QED  BY <1>1, <1>3, <2>1, <2>4, <3>1, <3>2, <3>3, SessionStarts
  <2>. QED  BY <2>2, <2>3, <2>4
<1>6. CASE Added(n)
  <2>1. sessions' = [sessions EXCEPT ![OwnSession(n)] = NoSession] /\ Ended(OwnSession(n))
    BY <1>6 DEF Added
  <2>2. PICK slot \in Slots : slot = OwnSession(n)
    BY <1>4
  <2>. QED  BY <1>1, <1>3, <2>1, <2>2, SessionEnds
<1>7. phase[n] \in {"distribute", "waiting"} /\ todo[n] # << >> => <<n, Head(todo[n]), TRUE>> \in Slots
  <2>1. SUFFICES ASSUME phase[n] \in {"distribute", "waiting"}, todo[n] # << >>
                 PROVE  <<n, Head(todo[n]), TRUE>> \in Slots
    OBVIOUS
  <2>2. ToSet(todo[n]) \subseteq NodeMode \ {n} /\ todo[n] \in Seq(Components)
    BY <2>1 DEF NetInv, NodeOK, ToldOK, TypeOK
  <2>3. Head(todo[n]) \in NodeMode \ {n}
    BY <2>1, <2>2, TailSet
  <2>. QED  BY <2>3, SlotOf
<1>8. CASE SendMetadata(n)
  <2>1. PICK m : m = Head(todo[n])
    OBVIOUS
  <2>2. <<n, m, TRUE>> \in Slots /\ phase[m] = "up"
    BY <1>7, <1>8, <2>1 DEF SendMetadata, Serves
  <2>3. m \in Components
    BY <2>2 DEF Slots
  <2>4. phase'[m] \notin {"down", "populate"}
    BY <1>3, <2>2, <2>3 DEF Populated
  <2>5. \/ sessions' = sessions
        \/ sessions' = [sessions EXCEPT ![<<n, m, TRUE>>] = NewSession(n)]
    BY <1>8, <2>1 DEF SendMetadata
  <2>6. CASE sessions' = sessions
    BY <1>1, <1>3, <2>6, KeptSame, WritersSame, SteadyHere
  <2>7. CASE sessions' = [sessions EXCEPT ![<<n, m, TRUE>>] = NewSession(n)]
    <3>1. PICK slot \in Slots : slot = <<n, m, TRUE>>
      BY <2>2
    <3>2. slot[1] = n /\ slot[2] = m /\ slot[3] = TRUE
      BY <3>1
    <3>3. sessions[slot] = NoSession
      BY <1>8, <3>2 DEF SendMetadata, Awaited
    <3>. QED  BY <1>1, <1>3, <2>4, <2>7, <3>1, <3>2, <3>3, SessionStarts
  <2>. QED  BY <2>5, <2>6, <2>7
<1>9. CASE Answered(n)
  <2>1. <<n, Head(todo[n]), TRUE>> \in Slots
    BY <1>7, <1>9 DEF Answered, NetInv, NodeOK, ToldOK
  <2>2. /\ sessions' = [sessions EXCEPT ![<<n, Head(todo[n]), TRUE>>] = NoSession]
        /\ Ended(<<n, Head(todo[n]), TRUE>>)
    BY <1>9 DEF Answered
  <2>3. PICK slot \in Slots : slot = <<n, Head(todo[n]), TRUE>>
    BY <2>1
  <2>. QED  BY <1>1, <1>3, <2>2, <2>3, SessionEnds
<1>. QED  BY <1>5, <1>6, <1>8, <1>9

\* A timeout or a crash: there is room for each session that is abandoned.
LEMMA FaultSteady ==
    ASSUME NetInv, SessionsKept, NEW n \in Components, TimesOut(n) \/ Crash(n)
    PROVE  Steady
<1>1. UNCHANGED catalog /\ CanAbandon(n)
  BY DEF TimesOut, Crash
<1>2. ASSUME NEW slot \in Slots, Writing(slot)
      PROVE  \/ Stops(slot[2])
             \/ \E twin \in Slots : twin[2] = slot[2] /\ sessions'[twin] = sessions[slot]
  <2>1. PICK o, d \in Components, b \in BOOLEAN : slot = <<o, d, b>>
    BY SlotParts
  <2>2. CASE o = n /\ d # n
    <3>1. d \in NodeMode \ {n}
      BY <2>1, <2>2 DEF Slots
    <3>2. b
      BY <1>1, <1>2, <2>1, <2>2, <3>1 DEF CanAbandon, Writing
    <3>3. PICK twin \in Slots : twin = <<n, d, FALSE>>
      BY <3>1, SlotOf
    <3>4. twin[1] = n /\ twin[2] = d /\ twin[3] = FALSE
      BY <3>3
    <3>5. sessions'[twin] = sessions[<<n, d, TRUE>>]
      BY <2>2, <3>4 DEF TimesOut, Crash, Abandon
    <3>6. slot = <<n, d, TRUE>> /\ slot[2] = d
      BY <2>1, <2>2, <3>2
    <3>. QED  BY <3>4, <3>5, <3>6
  <2>3. CASE ~ (o = n /\ d # n) /\ TimesOut(n)
    <3>1. slot[1] = o /\ slot[2] = d
      BY <2>1
    <3>2. sessions'[slot] = sessions[slot]
      BY <2>3, <3>1 DEF TimesOut, Abandon
    <3>. QED  BY <3>2
  <2>4. CASE ~ (o = n /\ d # n) /\ Crash(n)
    <3>1. slot[1] = o /\ slot[2] = d
      BY <2>1
    <3>2. CASE d = n
      <4>1. phase[n] # "down" /\ phase'[n] = "down"
        BY <2>4, PhaseStep DEF Crash, Phases
      <4>. QED  BY <3>1, <3>2, <4>1 DEF Stops
    <3>3. CASE d # n
      <4>1. sessions'[slot] = sessions[slot]
        BY <2>4, <3>1, <3>3 DEF Crash
      <4>. QED  BY <4>1
    <3>. QED  BY <3>2, <3>3
  <2>. QED  BY <2>2, <2>3, <2>4
<1>3. WritersKept
  BY <1>2 DEF WritersKept
<1>. QED  BY <1>1, <1>3, SteadyHere

\* The end of an abandoned session.
LEMMA DropSteady ==
    ASSUME NetInv, SlotsOK, NEW slot \in Slots, DropSession(slot)
    PROVE  Steady
<1>1. /\ sessions' = [sessions EXCEPT ![slot] = NoSession] /\ Ended(slot)
      /\ phase' = phase /\ UNCHANGED catalog
  BY DEF DropSession
<1>2. \A d \in Components : Populated(d) => phase'[d] \notin {"down", "populate"}
  BY <1>1 DEF Populated
<1>. QED  BY <1>1, <1>2, SessionEnds

\* The databases of a stopped node serve no session.
LEMMA ReinstallStays ==
    ASSUME NetInv, Stock, Fresh, SlotsOK, NEW n \in Components, Reinstall(n)
    PROVE  Stock' /\ Fresh' /\ SlotsOK'
<1>1. /\ phase[n] = "down" /\ sessions' = sessions /\ phase' = phase
      /\ \A m \in Components : /\ sources'[m] = IF m = n THEN {} ELSE sources[m]
                               /\ files'[m] = IF m = n THEN {} ELSE files[m]
                               /\ projects'[m] = IF m = n THEN {} ELSE projects[m]
                               /\ links'[m] = IF m = n THEN {} ELSE links[m]
                               /\ torn'[m] = IF m = n THEN {} ELSE torn[m]
      /\ unread' = unread
  BY DEF Reinstall, NetInv, TypeOK, CatalogTypeOK
<1>2. \A slot \in Slots : sessions[slot] # NoSession => slot[2] # n /\ slot[2] \in Components
  BY <1>1 DEF SlotsOK, Populated, Slots
<1>3. Stock'
  <2>1. IsFiniteSet({}) /\ {} = 1 .. Cardinality({})
    BY FS_EmptySet
  <2>2. \A d \in Components : IsFiniteSet(files'[d]) /\ files'[d] = 1 .. Cardinality(files'[d])
    BY <1>1, <2>1 DEF Stock
  <2>3. \A d \in Components \ {n} : TokensKnown(d)' = TokensKnown(d)
    BY <1>1 DEF TokensKnown
  <2>4. \A d \in Components : \A link \in links'[d] :
           link[1] \in TokensKnown(d)' /\ \E row \in sources'[d] : row.id = link[2]
    BY <1>1, <2>3 DEF Stock
  <2>5. \A d \in Components :
           /\ \A row \in sources'[d] : row.id \in files'[d]
           /\ \A row, other \in sources'[d] : row.id = other.id => row = other
    BY <1>1 DEF Stock
  <2>. QED  BY <2>2, <2>4, <2>5 DEF Stock
<1>4. \A slot \in Slots : Pending(slot)' = Pending(slot)
  BY <1>1 DEF Pending
<1>5. Fresh'
  <2>1. ASSUME NEW slot \in Slots, NEW row \in Pending(slot)'
        PROVE  row.id \in files'[slot[2]] /\ \A other \in sources'[slot[2]] : other.id # row.id
    <3>1. row \in Pending(slot)
      BY <1>4, <2>1
    <3>2. slot[2] # n /\ slot[2] \in Components
      BY <1>2, <3>1 DEF Pending
    <3>. QED  BY <1>1, <3>1, <3>2 DEF Fresh
  <2>2. \A slot, twin \in Slots : slot[2] = twin[2] =>
           \A row \in Pending(slot)', other \in Pending(twin)' :
              row.id = other.id => slot = twin /\ row = other
    BY <1>4 DEF Fresh
  <2>. QED  BY <2>1, <2>2 DEF Fresh
<1>6. SlotsOK'
  <2>1. ASSUME NEW slot \in Slots, sessions'[slot] # NoSession
        PROVE  Populated(slot[2])' /\ SessionOK(sessions[slot], slot[2], slot[1])'
    <3>1. PICK s : s = sessions[slot]
      OBVIOUS
    <3>2. /\ s # NoSession /\ Populated(slot[2]) /\ SessionOK(s, slot[2], slot[1])
          /\ slot[2] # n /\ slot[2] \in Components
      BY <1>1, <1>2, <2>1, <3>1 DEF SlotsOK
    <3>3. SessionOK(s, slot[2], slot[1])'
      BY <1>1, <3>2, SessionGrows
    <3>4. SessionOK(sessions[slot], slot[2], slot[1])'
      BY <1>1, <3>1, <3>3 DEF SessionOK, Reached, HasFirst, HasId
    <3>. QED  BY <1>1, <3>2, <3>4 DEF Populated
  <2>. QED  BY <2>1 DEF SlotsOK
<1>. QED  BY <1>3, <1>5, <1>6

-----------------------------------------------------------------------------
(* Who waits for which session.                                              *)

\* A step of n, which leaves the others where they are.
LEMMA AwaitedStays ==
    ASSUME Awaited, NEW n \in Components,
           \A m \in Components \ {n} : phase'[m] = phase[m] /\ todo'[m] = todo[m],
           \A slot \in Slots : slot[1] # n /\ slot[3] /\ sessions'[slot] # NoSession =>
              sessions[slot] # NoSession,
           \A slot \in Slots : slot[1] = n /\ slot[3] /\ sessions'[slot] # NoSession =>
              IF slot[2] = n THEN phase'[n] = "local"
              ELSE phase'[n] = "waiting" /\ slot[2] = Head(todo'[n])
    PROVE  Awaited'
<1>1. \A slot \in Slots : slot[1] \in Components
  BY SlotOf
<1>. QED  BY <1>1 DEF Awaited

\* Nobody else is waited for.
LEMMA AwaitedQuiet ==
    ASSUME Awaited, phase' = phase, todo' = todo,
           \A slot \in Slots : slot[3] /\ sessions'[slot] # NoSession => sessions[slot] # NoSession
    PROVE  Awaited'
BY DEF Awaited

\* A startup that waits for no session.
LEMMA AwaitedNone ==
    ASSUME Awaited, NEW n \in Components, sessions' = sessions,
           \A m \in Components \ {n} : phase'[m] = phase[m] /\ todo'[m] = todo[m],
           \A slot \in Slots : slot[1] = n /\ slot[3] => sessions[slot] = NoSession
    PROVE  Awaited'
BY AwaitedStays

\* The steps of a startup.
LEMMA StartupAwaited ==
    ASSUME NetInv, Awaited, NEW n \in Components, Start(n) \/ Startup(n)
    PROVE  Awaited'
<1>0. /\ phase \in [Components -> Phases] /\ todo \in [Components -> Seq(Components)]
      /\ sessions \in [Slots -> {NoSession} \cup Session]
  BY DEF NetInv, TypeOK, CatalogTypeOK
<1>1. CASE \/ Start(n) \/ Populate(n) \/ NoJoin(n) \/ SendJoin(n) \/ JoinFails(n) \/ Record(n)
           \/ Unreachable(n) \/ Distributed(n) \/ StartHeartbeat(n)
  <2>1. sessions' = sessions
    BY <1>1 DEF Start, Populate, NoJoin, SendJoin, JoinFails, Record, Unreachable, Distributed,
                StartHeartbeat
  <2>2. \A m \in Components \ {n} : phase'[m] = phase[m] /\ todo'[m] = todo[m]
    BY <1>0, <1>1 DEF Start, Populate, NoJoin, SendJoin, JoinFails, Record, Unreachable,
                      Distributed, StartHeartbeat, GoTo, process
  <2>3. ASSUME NEW slot \in Slots, slot[1] = n, slot[3]
        PROVE  sessions[slot] = NoSession
    <3>1. CASE phase[n] \notin {"local", "waiting"}
      BY <2>3, <3>1 DEF Awaited
    <3>2. CASE phase[n] \in {"local", "waiting"}
      <4>1. phase[n] = "waiting" /\ sessions[<<n, Head(todo[n]), TRUE>>] = NoSession
        BY <1>1, <3>2 DEF Start, Populate, NoJoin, SendJoin, JoinFails, MustJoin, Record,
                          Unreachable, Distributed, StartHeartbeat
      <4>2. slot = <<n, slot[2], TRUE>>
        BY <2>3, SlotOf
      <4>. QED  BY <2>3, <4>1, <4>2 DEF Awaited
    <3>. QED  BY <3>1, <3>2
  <2>. QED  BY <2>1, <2>2, <2>3, AwaitedNone
<1>2. CASE AddMetadata(n)
  <2>1. phase[n] = "metadata" /\ \A m \in Components \ {n} : phase'[m] = phase[m] /\ todo'[m] = todo[m]
    BY <1>0, <1>2 DEF AddMetadata, GoTo, process
  <2>2. \A slot \in Slots : slot[1] = n /\ slot[3] => sessions[slot] = NoSession
    BY <2>1 DEF Awaited
  <2>3. CASE sessions' = sessions
    BY <2>1, <2>2, <2>3, AwaitedNone
  <2>4. CASE GoTo(n, "local") /\ sessions' = [sessions EXCEPT ![OwnSession(n)] = NewSession(n)]
    <3>1. phase'[n] = "local" /\ OwnSession(n) \in Slots /\ OwnSession(n)[1] = n
          /\ OwnSession(n)[2] = n
      BY <1>0, <2>4, SlotOf DEF GoTo, OwnSession
    <3>2. \A slot \in Slots \ {OwnSession(n)} : sessions'[slot] = sessions[slot]
      BY <1>0, <2>4
    <3>. QED  BY <2>1, <2>2, <3>1, <3>2, AwaitedStays
  <2>. QED  BY <1>2, <2>3, <2>4 DEF AddMetadata
<1>3. CASE Added(n)
  <2>1. /\ phase[n] = "local"
        /\ \A m \in Components \ {n} : phase'[m] = phase[m] /\ todo'[m] = todo[m]
    BY <1>0, <1>3 DEF Added, GoTo
  <2>2. sessions' = [sessions EXCEPT ![OwnSession(n)] = NoSession]
    BY <1>3 DEF Added
  <2>3. \A slot \in Slots : slot[1] = n /\ slot[3] => sessions'[slot] = NoSession
    <3> TAKE slot \in Slots
    <3>1. CASE slot = OwnSession(n)
      BY <1>0, <2>2, <3>1
    <3>2. CASE slot # OwnSession(n)
      <4>1. sessions'[slot] = sessions[slot] /\ slot = <<slot[1], slot[2], slot[3]>>
        BY <1>0, <2>2, <3>2, SlotOf
      <4>2. slot[1] = n /\ slot[3] => slot[2] # n
        BY <3>2, <4>1, SlotOf DEF OwnSession
      <4>. QED  BY <2>1, <4>1, <4>2 DEF Awaited
    <3>. QED  BY <3>1, <3>2
  <2>4. \A slot \in Slots : sessions'[slot] # NoSession => sessions[slot] # NoSession
    BY <1>0, <2>2
  <2>. QED  BY <2>1, <2>3, <2>4, AwaitedStays
<1>4. CASE SendMetadata(n)
  <2>1. /\ phase[n] = "distribute"
        /\ \A m \in Components \ {n} : phase'[m] = phase[m] /\ todo'[m] = todo[m]
    BY <1>0, <1>4 DEF SendMetadata, GoTo
  <2>2. \A slot \in Slots : slot[1] = n /\ slot[3] => sessions[slot] = NoSession
    BY <2>1 DEF Awaited
  <2>3. PICK m : m = Head(todo[n])
    OBVIOUS
  <2>4. CASE sessions' = sessions
    BY <2>1, <2>2, <2>4, AwaitedNone
  <2>5. CASE /\ sessions' = [sessions EXCEPT ![<<n, m, TRUE>>] = NewSession(n)]
             /\ GoTo(n, "waiting") /\ todo' = todo
    <3>1. phase'[n] = "waiting"
      BY <1>0, <2>5 DEF GoTo
    <3>2. m # n
      <4>1. ToSet(todo[n]) \subseteq NodeMode \ {n} /\ todo[n] # << >>
        BY <1>4, <2>1 DEF SendMetadata, NetInv, NodeOK, ToldOK
      <4>. QED  BY <1>0, <2>3, <4>1, TailSet
    <3>3. ASSUME NEW slot \in Slots, slot # <<n, m, TRUE>>
          PROVE  sessions'[slot] = sessions[slot]
      BY <1>0, <2>5, <3>3
    <3>4. \A slot \in Slots : slot = <<n, m, TRUE>> => slot[1] = n /\ slot[2] = m
      OBVIOUS
    <3>5. \A slot \in Slots : slot[1] # n /\ slot[3] /\ sessions'[slot] # NoSession =>
             sessions[slot] # NoSession
      BY <3>3, <3>4
    <3>6. \A slot \in Slots : slot[1] = n /\ slot[3] /\ sessions'[slot] # NoSession =>
             IF slot[2] = n THEN phase'[n] = "local"
             ELSE phase'[n] = "waiting" /\ slot[2] = Head(todo'[n])
      <4> TAKE slot \in Slots
      <4>1. CASE slot = <<n, m, TRUE>>
        <5>1. slot[2] = Head(todo'[n])
          BY <2>3, <2>5, <3>4, <4>1
        <5>. QED  BY <3>1, <3>2, <3>4, <4>1, <5>1
      <4>2. CASE slot # <<n, m, TRUE>>
        BY <2>2, <3>3, <4>2
      <4>. QED  BY <4>1, <4>2
    <3>. QED  BY <2>1, <3>5, <3>6, AwaitedStays
  <2>. QED  BY <1>4, <2>3, <2>4, <2>5 DEF SendMetadata
<1>5. CASE Answered(n)
  <2>1. /\ phase[n] = "waiting"
        /\ \A m \in Components \ {n} : phase'[m] = phase[m] /\ todo'[m] = todo[m]
    BY <1>0, <1>5 DEF Answered, GoTo
  <2>2. PICK twin : twin = <<n, Head(todo[n]), TRUE>>
    OBVIOUS
  <2>3. sessions' = [sessions EXCEPT ![twin] = NoSession]
    BY <1>5, <2>2 DEF Answered
  <2>4. \A slot \in Slots : slot[1] = n /\ slot[3] => sessions'[slot] = NoSession
    <3> TAKE slot \in Slots
    <3>1. CASE slot = twin
      BY <1>0, <2>3, <3>1
    <3>2. CASE slot # twin
      <4>1. sessions'[slot] = sessions[slot] /\ slot = <<slot[1], slot[2], slot[3]>>
        BY <1>0, <2>3, <3>2, SlotOf
      <4>2. slot[1] = n /\ slot[3] => slot[2] # Head(todo[n])
        BY <2>2, <3>2, <4>1, SlotOf
      <4>. QED  BY <2>1, <4>1, <4>2 DEF Awaited
    <3>. QED  BY <3>1, <3>2
  <2>5. \A slot \in Slots : sessions'[slot] # NoSession => sessions[slot] # NoSession
    BY <1>0, <2>3
  <2>. QED  BY <2>1, <2>4, <2>5, AwaitedStays
<1>. QED  BY <1>1, <1>2, <1>3, <1>4, <1>5 DEF Startup

\* A timeout or a crash: the sender waits for nothing any more.
LEMMA FaultAwaited ==
    ASSUME NetInv, Awaited, NEW n \in Components, TimesOut(n) \/ Crash(n)
    PROVE  Awaited'
<1>0. phase \in [Components -> Phases] /\ todo \in [Components -> Seq(Components)]
  BY DEF NetInv, TypeOK
<1>1. \A m \in Components \ {n} : phase'[m] = phase[m] /\ todo'[m] = todo[m]
  BY <1>0 DEF TimesOut, Crash, GoTo
<1>2. ASSUME NEW slot \in Slots, slot[1] # n, sessions'[slot] # NoSession
      PROVE  sessions[slot] # NoSession
  BY <1>2 DEF TimesOut, Crash, Abandon
<1>3. ASSUME NEW slot \in Slots, slot[1] = n, slot[3]
      PROVE  sessions'[slot] = NoSession
  <2>1. CASE TimesOut(n)
    <3>1. phase[n] \in {"joining", "waiting"}
      BY <2>1 DEF TimesOut
    <3>2. CASE slot[2] = n
      BY <1>3, <2>1, <3>1, <3>2 DEF TimesOut, Abandon, Awaited
    <3>3. CASE slot[2] # n
      BY <1>3, <2>1, <3>3 DEF TimesOut, Abandon
    <3>. QED  BY <3>2, <3>3
  <2>2. CASE Crash(n)
    BY <1>3, <2>2 DEF Crash
  <2>. QED  BY <2>1, <2>2
<1>. QED  BY <1>1, <1>2, <1>3, AwaitedStays

\* A handler, and a heartbeat.
LEMMA HandlerAwaited ==
    ASSUME NetInv, Awaited,
           \/ \E n \in Components : Leave(n) \/ Reinstall(n)
           \/ \E slot \in Components \X BOOLEAN : JoinHandler(slot)
           \/ \E slot \in Slots : MetadataHandler(slot)
    PROVE  Awaited'
<1>0. /\ phase \in [Components -> Phases] /\ todo \in [Components -> Seq(Components)]
      /\ sessions \in [Slots -> {NoSession} \cup Session]
  BY DEF NetInv, TypeOK, CatalogTypeOK
<1>1. ASSUME NEW n \in Components, Leave(n) \/ Reinstall(n)
      PROVE  Awaited'
  <2>1. phase' = phase /\ todo' = todo /\ sessions' = sessions
    BY <1>1 DEF Leave, Reinstall, process
  <2>. QED  BY <2>1, AwaitedQuiet
<1>2. ASSUME NEW slot \in Components \X BOOLEAN, JoinHandler(slot)
      PROVE  Awaited'
  <2>1. PICK n \in Components, b \in BOOLEAN : slot = <<n, b>>
    OBVIOUS
  <2>2. sessions' = sessions
    BY <1>2 DEF JoinHandler, Connect, Joined, Refuse
  <2>3. CASE phase' = phase /\ todo' = todo
    BY <2>2, <2>3, AwaitedQuiet
  <2>4. CASE ~ (phase' = phase /\ todo' = todo)
    <3>1. b /\ joins[<<n, TRUE>>] # NoRequest
      BY <1>2, <2>1, <2>4 DEF JoinHandler, Connect, Joined, Refuse, process
    <3>2. phase[n] = "joining"
      BY <3>1 DEF NetInv, NodeOK, RequestOK
    <3>3. \A m \in Components \ {n} : phase'[m] = phase[m] /\ todo'[m] = todo[m]
      BY <1>0, <1>2, <2>1 DEF JoinHandler, Connect, Joined, Refuse, process, GoTo
    <3>4. \A other \in Slots : other[1] = n /\ other[3] => sessions[other] = NoSession
      BY <3>2 DEF Awaited
    <3>. QED  BY <2>2, <3>3, <3>4, AwaitedNone
  <2>. QED  BY <2>3, <2>4
<1>3. ASSUME NEW slot \in Slots, MetadataHandler(slot)
      PROVE  Awaited'
  <2>1. phase' = phase /\ todo' = todo
    BY <1>3 DEF MetadataHandler, DropSession, process
  <2>2. sessions[slot] # NoSession
    BY <1>3 DEF MetadataHandler, Metadata, DropSession, Ended
  <2>3. \A other \in Slots : other # slot => sessions'[other] = sessions[other]
    <3>1. CASE DropSession(slot)
      BY <1>0, <3>1 DEF DropSession
    <3>2. CASE Save(slot)
      BY <1>0, <3>2 DEF Save
    <3>3. CASE Write(slot) \/ Commit(slot)
      BY <1>0, <3>3 DEF Write, Commit
    <3>4. CASE Load(slot)
      BY <1>0, <3>4 DEF Load
    <3>5. CASE LinkKnown(slot)
      BY <1>0, <3>5 DEF LinkKnown
    <3>6. CASE LinkUnknown(slot)
      BY <1>0, <3>6 DEF LinkUnknown
    <3>7. CASE CreateUnnamed(slot) \/ Linked(slot)
      BY <1>0, <3>7 DEF CreateUnnamed, Linked
    <3>. QED  BY <1>3, <3>1, <3>2, <3>3, <3>4, <3>5, <3>6, <3>7 DEF MetadataHandler, Metadata
  <2>. QED  BY <2>1, <2>2, <2>3, AwaitedQuiet
<1>. QED  BY <1>1, <1>2, <1>3

-----------------------------------------------------------------------------
(* The files.                                                                *)

\* A file that is about to be written stays so.
LEMMA RewrittenKept ==
    ASSUME WritersKept, NEW d, ~ Stops(d), NEW id, Rewritten(d, id)
    PROVE  Rewritten(d, id)'
<1>1. PICK slot \in Slots : /\ slot[2] = d /\ Writing(slot)
                            /\ IdOf(sessions[slot], Head(sessions[slot].meta)) = id
  BY DEF Rewritten, Writing
<1>2. PICK twin \in Slots : twin[2] = d /\ sessions'[twin] = sessions[slot]
  BY <1>1 DEF WritersKept
<1>. QED  BY <1>1, <1>2 DEF Rewritten, Writing

\* Outside of the steps of a session.
LEMMA SteadyWhole ==
    ASSUME Whole, Steady
    PROVE  Whole' /\ \A d : Unreadable(d)' \subseteq Unreadable(d) \/ Stops(d)
<1>1. PICK org : Carries(org)
  BY DEF Steady, SessionsKept
<1>2. ASSUME NEW slot \in Slots, sessions'[slot] # NoSession, NEW pair \in sessions'[slot].ids,
             pair[2] \in torn'[slot[2]]
      PROVE  Rewritten(slot[2], pair[2])'
  <2>1. sessions'[slot] = sessions[org[slot]] /\ org[slot] \in Slots /\ org[slot][2] = slot[2]
    <3>1. sessions'[slot] # NewSession(slot[1])
      BY <1>2 DEF NewSession
    <3>. QED  BY <1>1, <1>2, <3>1 DEF Carries
  <2>2. Rewritten(slot[2], pair[2])
    BY <1>2, <2>1 DEF Whole, Steady
  <2>3. ~ Stops(slot[2])
    BY <1>1, <1>2 DEF Carries, Stops
  <2>. QED  BY <2>2, <2>3, RewrittenKept DEF Steady
<1>3. ASSUME NEW d, ~ Stops(d)
      PROVE  Unreadable(d)' \subseteq Unreadable(d)
  <2>1. torn' = torn /\ links' = links /\ \A id : Rewritten(d, id) => Rewritten(d, id)'
    BY <1>3, RewrittenKept DEF Steady
  <2>. QED  BY <2>1 DEF Unreadable
<1>. QED  BY <1>2, <1>3 DEF Whole

\* Nor does the step of a session that is not about to write change that.
LEMMA WritersElsewhere ==
    ASSUME NetInv, NEW slot \in Slots, ~ Writing(slot), NEW s,
           sessions' = [sessions EXCEPT ![slot] = s]
    PROVE  \A d, id : Rewritten(d, id) => Rewritten(d, id)'
<1>1. \A other \in Slots : other # slot => sessions'[other] = sessions[other]
  BY DEF NetInv, TypeOK, CatalogTypeOK
<1>2. ASSUME NEW d, NEW id, Rewritten(d, id)
      PROVE  Rewritten(d, id)'
  <2>1. PICK twin \in Slots : /\ twin[2] = d /\ Writing(twin)
                              /\ IdOf(sessions[twin], Head(sessions[twin].meta)) = id
    BY <1>2 DEF Rewritten, Writing
  <2>2. sessions'[twin] = sessions[twin]
    BY <1>1, <2>1
  <2>. QED  BY <2>1, <2>2 DEF Rewritten, Writing
<1>. QED  BY <1>2

\* What a step of the session of one slot has to keep to.
LEMMA StepWhole ==
    ASSUME NetInv, Whole, NEW slot \in Slots, sessions[slot] # NoSession, NEW s,
           sessions' = [sessions EXCEPT ![slot] = s],
           \A d \in Components : \A id \in torn'[d] :
              /\ id \in torn[d] \/ Rewritten(d, id)'
              /\ Rewritten(d, id) => Rewritten(d, id)',
           \A pair \in s.ids : pair \in sessions[slot].ids \/ Rewritten(slot[2], pair[2])',
           \A d \in Components : \A link \in links'[d] : link \in links[d] \/
              (d = slot[2] /\ \E pair \in sessions[slot].ids : pair[2] = link[2])
    PROVE  Whole' /\ \A d \in Components : Unreadable(d)' \subseteq Unreadable(d)
<1>1. /\ sessions'[slot] = s
      /\ \A other \in Slots : other # slot => sessions'[other] = sessions[other]
  BY DEF NetInv, TypeOK, CatalogTypeOK
<1>2. ASSUME NEW other \in Slots, sessions'[other] # NoSession, NEW pair \in sessions'[other].ids,
             pair[2] \in torn'[other[2]]
      PROVE  Rewritten(other[2], pair[2])'
  <2>0. other[2] \in Components
    BY SlotParts
  <2>1. CASE Rewritten(other[2], pair[2])'
    BY <2>1
  <2>2. CASE ~ Rewritten(other[2], pair[2])'
    <3>1. sessions[other] # NoSession /\ pair \in sessions[other].ids
      BY <1>1, <1>2, <2>2
    <3>2. pair[2] \in torn[other[2]]
      BY <1>2, <2>0, <2>2
    <3>. QED  BY <1>2, <2>0, <3>1, <3>2 DEF Whole
  <2>. QED  BY <2>1, <2>2
<1>3. ASSUME NEW d \in Components, NEW id \in Unreadable(d)'
      PROVE  id \in Unreadable(d)
  <2>1. PICK link \in links'[d] : id = link[2]
    BY <1>3 DEF Unreadable
  <2>2. id \in torn'[d] /\ ~ Rewritten(d, id)'
    BY <1>3 DEF Unreadable
  <2>3. id \in torn[d] /\ ~ Rewritten(d, id)
    BY <2>2
  <2>4. link \in links[d]
    BY <2>1, <2>3 DEF Whole
  <2>. QED  BY <2>1, <2>3, <2>4 DEF Unreadable
<1>. QED  BY <1>2, <1>3 DEF Whole

\* Save: what it truncates it will write.
LEMMA SaveWhole ==
    ASSUME NetInv, SlotsOK, Whole, NEW slot \in Slots, sessions[slot] # NoSession, Save(slot)
    PROVE  Whole' /\ \A d \in Components : Unreadable(d)' \subseteq Unreadable(d)
<1>1. PICK d, o \in Components : \E s \in Session : \E i \in 1..(Len(Data[o]) + 1) :
         /\ slot[1] = o /\ slot[2] = d /\ s = sessions[slot]
         /\ SessionOK(s, d, o) /\ Reached(s, d, o, i)
         /\ Initial[d] \subseteq TokensKnown(d)
  BY SessionFacts
<1>2. PICK s \in Session, i \in 1..(Len(Data[o]) + 1) :
         /\ slot[1] = o /\ slot[2] = d /\ s = sessions[slot]
         /\ SessionOK(s, d, o) /\ Reached(s, d, o, i)
  BY <1>1
<1>3. PICK h : h = Head(s.meta)
  OBVIOUS
<1>4. PICK id, added :
         \/ /\ sessions' = [sessions EXCEPT ![slot].step = "failed"]
            /\ torn' = torn
         \/ /\ torn' = [torn EXCEPT ![d] = @ \cup {id}]
            /\ sessions' = [sessions EXCEPT ![slot].step = "write",
                                            ![slot].ids = @ \cup {<<h, id>>},
                                            ![slot].added = added]
            /\ id \in Ids /\ added \in {s.added, s.added \cup {[owner |-> o, hash |-> h, id |-> id]}}
  BY <1>2, <1>3 DEF Save
<1>5. s.step = "save" /\ links' = links /\ s.meta # << >>
  BY <1>2 DEF Save
<1>6. /\ torn \in [Components -> SUBSET Ids]
      /\ sessions \in [Slots -> {NoSession} \cup Session]
  BY DEF NetInv, TypeOK, CatalogTypeOK
<1>7. i \in DOMAIN Data[o] /\ h = Data[o][i] /\ h \in Hashes /\ HasFirst(s, o, i - 1)
  <2>1. s.meta = Rest(o, i) /\ HasFirst(s, o, i - 1)
    BY <1>2, <1>5 DEF Reached
  <2>2. i # Len(Data[o]) + 1
    BY <1>5, <2>1, RestFacts
  <2>. QED  BY <1>3, <2>1, <2>2, RestFacts, DataSeq
<1>8. CASE /\ sessions' = [sessions EXCEPT ![slot].step = "failed"]
           /\ torn' = torn
  <2>1. PICK t : t = [s EXCEPT !.step = "failed"]
    OBVIOUS
  <2>2. sessions' = [sessions EXCEPT ![slot] = t] /\ t.ids = s.ids
    BY <1>2, <1>8, <2>1 DEF Session
  <2>3. \A e, x : Rewritten(e, x) => Rewritten(e, x)'
    BY <1>2, <1>5, <2>2, WritersElsewhere DEF Writing
  <2>. QED  BY <1>2, <1>5, <1>8, <2>2, <2>3, StepWhole
<1>9. CASE /\ torn' = [torn EXCEPT ![d] = @ \cup {id}]
           /\ sessions' = [sessions EXCEPT ![slot].step = "write",
                                           ![slot].ids = @ \cup {<<h, id>>},
                                           ![slot].added = added]
           /\ id \in Ids /\ added \in {s.added, s.added \cup {[owner |-> o, hash |-> h, id |-> id]}}
  <2>1. PICK t : t = [s EXCEPT !.step = "write", !.ids = s.ids \cup {<<h, id>>}, !.added = added]
    OBVIOUS
  <2>2. /\ sessions' = [sessions EXCEPT ![slot] = t]
        /\ t.step = "write" /\ t.meta = s.meta /\ t.ids = s.ids \cup {<<h, id>>}
    BY <1>2, <1>6, <1>9, <2>1 DEF Session
  <2>3. \A e, x : Rewritten(e, x) => Rewritten(e, x)'
    BY <1>2, <1>5, <2>2, WritersElsewhere DEF Writing
  <2>4. IdOf(t, h) = id
    <3>2. \A k \in 1..(i - 1) : k \in DOMAIN Data[o] /\ k # i
      BY <1>7, DataSeq
    <3>3. \A k \in 1..(i - 1) : Data[o][k] # h
      BY <1>7, <3>2, DataSeq DEF IsInjective
    <3>4. \A pair \in s.ids : pair[1] # h
      BY <1>7, <3>3 DEF HasFirst
    <3>5. PICK pair : pair = <<h, id>>
      OBVIOUS
    <3>6. pair \in t.ids /\ pair[1] = h /\ pair[2] = id
      BY <2>2, <3>5
    <3>7. \A other \in t.ids : other[1] = h => other = pair
      BY <2>2, <3>4, <3>5
    <3>8. (CHOOSE other \in t.ids : other[1] = h) = pair
      BY <3>6, <3>7
    <3>. QED  BY <3>6, <3>8 DEF IdOf
  <2>5. Rewritten(d, id)'
    <3>1. sessions'[slot] = t
      BY <1>6, <2>2
    <3>2. PICK r : r = [owner |-> o, hash |-> h, id |-> id]
      OBVIOUS
    <3>3. r \in SourceRow /\ <<h, id>> \in Hashes \X Ids
      BY <1>9, <1>7, <3>2 DEF SourceRow
    <3>4. s.ids \cup {<<h, id>>} \in SUBSET (Hashes \X Ids) /\ added \in SUBSET SourceRow
      BY <1>9, <3>2, <3>3 DEF Session
    <3>5. t \in Session
      BY <2>1, <3>4 DEF Session
    <3>6. t # NoSession
      BY <3>5, CatalogAssumption
    <3>. QED  BY <1>2, <1>3, <2>2, <2>4, <3>1, <3>6 DEF Rewritten
  <2>6. \A e \in Components : \A x \in torn'[e] : x \in torn[e] \/ (e = d /\ x = id)
    BY <1>6, <1>9
  <2>7. \A pair \in t.ids : pair \in s.ids \/ pair[2] = id
    BY <2>2
  <2>8. \A e \in Components : \A x \in torn'[e] :
           /\ x \in torn[e] \/ Rewritten(e, x)'
           /\ Rewritten(e, x) => Rewritten(e, x)'
    BY <2>3, <2>5, <2>6
  <2>9. \A pair \in t.ids : pair \in sessions[slot].ids \/ Rewritten(slot[2], pair[2])'
    BY <1>2, <2>5, <2>7
  <2>10. \A e \in Components : \A link \in links'[e] : link \in links[e] \/
            (e = slot[2] /\ \E pair \in sessions[slot].ids : pair[2] = link[2])
    BY <1>5
  <2>11. sessions' = [sessions EXCEPT ![slot] = t]
    BY <2>2
  <2>. QED  BY <2>8, <2>9, <2>10, <2>11, StepWhole
<1>. QED  BY <1>4, <1>8, <1>9

\* Write: the file of the one that is written can be read.
LEMMA WriteWhole ==
    ASSUME NetInv, SlotsOK, Whole, NEW slot \in Slots, sessions[slot] # NoSession, Write(slot)
    PROVE  Whole' /\ \A d \in Components : Unreadable(d)' \subseteq Unreadable(d)
<1>0. /\ torn \in [Components -> SUBSET Ids] /\ slot[2] \in Components
      /\ sessions \in [Slots -> {NoSession} \cup Session]
  BY SlotParts DEF NetInv, TypeOK, CatalogTypeOK
<1>1. PICK s, id : s = sessions[slot] /\ id = IdOf(s, Head(s.meta))
  OBVIOUS
<1>2. /\ s.step = "write" /\ torn' = [torn EXCEPT ![slot[2]] = @ \ {id}]
      /\ sessions' = [sessions EXCEPT ![slot].step = "load"] /\ links' = links
  BY <1>1 DEF Write
<1>3. PICK t : t = [s EXCEPT !.step = "load"]
  OBVIOUS
<1>4. sessions' = [sessions EXCEPT ![slot] = t] /\ t.ids = s.ids
  BY <1>0, <1>1, <1>2, <1>3 DEF Session
<1>5. \A e \in Components : \A x \in torn'[e] : x \in torn[e] /\ ~ (e = slot[2] /\ x = id)
  BY <1>0, <1>2
<1>6. ASSUME NEW e \in Components, NEW x \in torn'[e], Rewritten(e, x)
      PROVE  Rewritten(e, x)'
  <2>1. PICK twin \in Slots : /\ twin[2] = e /\ Writing(twin)
                              /\ IdOf(sessions[twin], Head(sessions[twin].meta)) = x
    BY <1>6 DEF Rewritten, Writing
  <2>2. twin # slot
    BY <1>1, <1>5, <1>6, <2>1
  <2>3. sessions'[twin] = sessions[twin]
    BY <1>0, <1>4, <2>2
  <2>. QED  BY <2>1, <2>3 DEF Rewritten, Writing
<1>. QED  BY <1>1, <1>2, <1>4, <1>5, <1>6, StepWhole

\* The steps that touch no file: only those are linked that the session has saved.
LEMMA OthersWhole ==
    ASSUME NetInv, SlotsOK, Whole, NEW slot \in Slots, sessions[slot] # NoSession,
           \/ Load(slot) \/ Commit(slot) \/ LinkKnown(slot) \/ LinkUnknown(slot)
           \/ CreateUnnamed(slot) \/ Linked(slot)
    PROVE  Whole' /\ \A d \in Components : Unreadable(d)' \subseteq Unreadable(d)
<1>1. PICK d, o \in Components : \E s \in Session : \E i \in 1..(Len(Data[o]) + 1) :
         /\ slot[1] = o /\ slot[2] = d /\ s = sessions[slot]
         /\ SessionOK(s, d, o) /\ Reached(s, d, o, i)
         /\ Initial[d] \subseteq TokensKnown(d)
  BY SessionFacts
<1>2. PICK s \in Session, i \in 1..(Len(Data[o]) + 1) :
         /\ slot[1] = o /\ slot[2] = d /\ s = sessions[slot]
         /\ SessionOK(s, d, o) /\ Reached(s, d, o, i)
  BY <1>1
<1>3. /\ links \in [Components -> SUBSET (Tokens \X Ids)]
      /\ sessions \in [Slots -> {NoSession} \cup Session]
  BY DEF NetInv, TypeOK, CatalogTypeOK
<1>4. torn' = torn /\ ~ Writing(slot)
  BY DEF Load, Commit, LinkKnown, LinkUnknown, CreateUnnamed, Linked, catalog, Writing
<1>5. PICK t : /\ sessions' = [sessions EXCEPT ![slot] = t]
               /\ t.ids = s.ids
  <2>1. \E t : /\ sessions' = [sessions EXCEPT ![slot] = t]
               /\ t.ids = s.ids
    <3>1. PICK step, meta, added, token :
             \/ sessions' = [sessions EXCEPT ![slot].step = step]
             \/ sessions' = [sessions EXCEPT ![slot].meta = meta]
             \/ sessions' = [sessions EXCEPT ![slot].step = step, ![slot].meta = meta]
             \/ sessions' = [sessions EXCEPT ![slot].step = step, ![slot].token = token]
             \/ sessions' = [sessions EXCEPT ![slot].step = step, ![slot].meta = meta,
                                             ![slot].added = added]
      <4>1. CASE Load(slot)
        BY <1>2, <4>1 DEF Load
      <4>2. CASE Commit(slot)
        BY <1>2, <4>2 DEF Commit
      <4>3. CASE LinkKnown(slot)
        BY <1>2, <4>3 DEF LinkKnown
      <4>4. CASE LinkUnknown(slot)
        BY <1>2, <4>4 DEF LinkUnknown
      <4>5. CASE CreateUnnamed(slot) \/ Linked(slot)
        BY <1>2, <4>5 DEF CreateUnnamed, Linked
      <4>. QED  BY <4>1, <4>2, <4>3, <4>4, <4>5
    <3>. QED  BY <1>2, <1>3, <3>1 DEF Session
  <2>. QED  BY <2>1
<1>6. \A e, x : Rewritten(e, x) => Rewritten(e, x)'
  BY <1>4, <1>5, WritersElsewhere
<1>7. \A e \in Components : \A link \in links'[e] : link \in links[e] \/
         (e = d /\ \E pair \in s.ids : pair[2] = link[2])
  <2>1. CASE ~ LinkKnown(slot)
    <3>1. links' = links
      BY <2>1 DEF Load, Commit, LinkUnknown, CreateUnnamed, Linked, catalog
    <3>. QED  BY <3>1
  <2>2. CASE LinkKnown(slot)
    <3>1. PICK h, id : h = Head(s.meta) /\ id = IdOf(s, h)
      OBVIOUS
    <3>2. s.step = "link" /\ s.meta # << >>
          /\ links' = [links EXCEPT ![d] = @ \cup {<<x, id>> : x \in ToSet(TokensOf[h])}]
      BY <1>2, <2>2, <3>1 DEF LinkKnown
    <3>3. HasId(s, o, i) /\ h = Data[o][i]
      BY <1>2, <3>1, <3>2, RestFacts DEF Reached
    <3>4. \E pair \in s.ids : pair[2] = id
      <4>1. \E pair \in s.ids : pair[1] = h
        BY <3>3 DEF HasId
      <4>2. PICK pair \in s.ids : pair[1] = h /\ id = pair[2]
        BY <3>1, <4>1 DEF IdOf
      <4>. QED  BY <4>2
    <3>. QED  BY <1>3, <3>2, <3>4
  <2>. QED  BY <2>1, <2>2
<1>. QED  BY <1>2, <1>4, <1>5, <1>6, <1>7, StepWhole

\* A stopped node has no session, and its files go with its links.
LEMMA ReinstallWhole ==
    ASSUME NetInv, SlotsOK, Whole, NEW n \in Components, Reinstall(n)
    PROVE  Whole' /\ \A d \in Components : Unreadable(d)' \subseteq Unreadable(d)
<1>1. /\ phase[n] = "down" /\ sessions' = sessions
      /\ \A m \in Components : /\ torn'[m] = IF m = n THEN {} ELSE torn[m]
                               /\ links'[m] = IF m = n THEN {} ELSE links[m]
  BY DEF Reinstall, NetInv, TypeOK, CatalogTypeOK
<1>2. \A d, id : Rewritten(d, id)' = Rewritten(d, id)
  BY <1>1 DEF Rewritten
<1>3. \A slot \in Slots : slot[2] \in Components
  BY SlotOf
<1>. QED  BY <1>1, <1>2, <1>3 DEF Whole, Unreadable

-----------------------------------------------------------------------------
(* The invariant.                                                            *)

\* It holds at first: no process runs and no database has a row.
LEMMA InitInv ==
    ASSUME Init
    PROVE  IInv
<1>0. First \in Components /\ MaxKeys \in Nat \ {0} /\ MaxFaults \in Nat
  BY MembershipAssumption, OnboardingAssumption
<1>1. /\ key = [n \in Components |-> 1]
      /\ table = [n \in Components |-> [c \in Components |-> NoRow]]
      /\ sources = [d \in Components |-> {}] /\ files = [d \in Components |-> {}]
      /\ torn = [d \in Components |-> {}] /\ unread = {}
      /\ projects = [d \in Components |-> {}] /\ links = [d \in Components |-> {}]
      /\ sessions = [slot \in Slots |-> NoSession]
      /\ phase = [n \in Components |-> "down"] /\ todo = [n \in Components |-> << >>]
      /\ remote = [n \in Components |-> FALSE] /\ leaving = [n \in Components |-> FALSE]
      /\ polling = [n \in Components |-> FALSE]
      /\ joins = [slot \in Components \X BOOLEAN |-> NoRequest] /\ faults = 0
  BY DEF Init, MembershipInit, CatalogInit
<1>2. TypeOK
  <2>1. MembershipTypeOK
    BY <1>0, <1>1 DEF MembershipTypeOK
  <2>2. CatalogTypeOK
    BY <1>1 DEF CatalogTypeOK
  <2>3. << >> \in Seq(Components)
    BY EmptySeq
  <2>. QED  BY <1>0, <1>1, <2>1, <2>2, <2>3 DEF TypeOK, Phases
<1>3. \A d \in Components : Known(d) = {} /\ JoinComponents(d) = {}
  BY <1>1 DEF Known, JoinComponents
<1>4. Named /\ Left
  BY <1>0, <1>3 DEF Named, Left
<1>5. ASSUME NEW n \in Components
      PROVE  NodeOK(n)
  <2>1. RequestOK(n)
    BY <1>1 DEF RequestOK
  <2>2. ProjectsOK(n)
    BY <1>1, <1>3 DEF ProjectsOK, Populated
  <2>3. StartupOK(n)
    BY <1>1, <1>3 DEF StartupOK
  <2>4. ToldOK(n)
    BY <1>1 DEF ToldOK
  <2>. QED  BY <2>1, <2>2, <2>3, <2>4 DEF NodeOK
<1>6. Stock
  BY <1>1, FS_EmptySet DEF Stock
<1>7. Fresh /\ SlotsOK
  BY <1>1 DEF Fresh, Pending, SlotsOK
<1>8. Awaited /\ Whole
  BY <1>1 DEF Awaited, Whole
<1>. QED  BY <1>2, <1>4, <1>5, <1>6, <1>7, <1>8 DEF IInv, NetInv

\* The steps outside a session change nothing that data sources and sessions rely upon.
LEMMA SteadyInv ==
    ASSUME IInv, NetInv', Awaited', Steady
    PROVE  IInv'
<1>1. Whole'
  BY SteadyWhole DEF IInv
<1>. QED  BY <1>1, SteadyStays DEF IInv, Steady

\* Nothing depends on a variable that did not change.
LEMMA StutterStays ==
    ASSUME IInv, UNCHANGED vars
    PROVE  IInv'
<1>1. /\ key' = key /\ table' = table /\ sources' = sources /\ files' = files
      /\ torn' = torn /\ unread' = unread
      /\ projects' = projects /\ links' = links /\ sessions' = sessions /\ phase' = phase
      /\ todo' = todo /\ remote' = remote /\ leaving' = leaving /\ polling' = polling
      /\ joins' = joins /\ faults' = faults
  BY DEF vars, catalog
<1>2. Quiet /\ UNCHANGED catalog
  BY <1>1 DEF Quiet, network, catalog
<1>3. TypeOK'
  BY <1>1 DEF IInv, NetInv, TypeOK, MembershipTypeOK, CatalogTypeOK
<1>4. \A m \in Components : Untouched(m)
  BY <1>1, <1>2, QuietFacts DEF Untouched, IInv
<1>5. NetInv'
  BY <1>2, <1>3, <1>4, QuietFacts, UntouchedStays DEF NetInv, IInv
<1>6. Steady
  BY <1>1, <1>2, SteadySame, WritersSame, SteadyHere DEF IInv
<1>7. Awaited'
  BY <1>1, AwaitedQuiet DEF IInv
<1>. QED  BY <1>5, <1>6, <1>7, SteadyInv

\* Every step of a startup.
LEMMA StartupNet ==
    ASSUME NetInv, SlotsOK, Awaited, NEW n \in Components, Startup(n)
    PROVE  NetInv' /\ Steady
<1>1. CASE Populate(n)
  BY <1>1, PopulateNet, PopulateSteady
<1>2. CASE NoJoin(n)
  BY <1>2, NoJoinNet, StartupSteady
<1>3. CASE SendJoin(n)
  BY <1>3, SendJoinNet, StartupSteady
<1>4. CASE JoinFails(n)
  BY <1>4, JoinFailsNet, StartupSteady
<1>5. CASE Record(n)
  BY <1>5, RecordNet, StartupSteady
<1>6. CASE AddMetadata(n)
  BY <1>6, AddMetadataNet, SessionSteady
<1>7. CASE Added(n)
  BY <1>7, AddedNet, SessionSteady
<1>8. CASE SendMetadata(n)
  BY <1>8, SendMetadataNet, SessionSteady
<1>9. CASE Answered(n)
  BY <1>9, AnsweredNet, SessionSteady
<1>10. CASE Unreachable(n)
  BY <1>10, UnreachableNet, StartupSteady
<1>11. CASE Distributed(n)
  BY <1>11, DistributedNet, StartupSteady
<1>12. CASE StartHeartbeat(n)
  BY <1>12, StartHeartbeatNet, StartupSteady
<1>. QED
  BY <1>1, <1>2, <1>3, <1>4, <1>5, <1>6, <1>7, <1>8, <1>9, <1>10, <1>11, <1>12 DEF Startup

\* The steps of a session and a reinstallation, to the files.
LEMMA FilesStay ==
    ASSUME IInv,
           \/ \E n \in Components : Reinstall(n)
           \/ \E slot \in Slots : Metadata(slot)
    PROVE  Whole' /\ \A d \in Components : Unreadable(d)' \subseteq Unreadable(d)
<1>1. ASSUME NEW n \in Components, Reinstall(n)
      PROVE  Whole' /\ \A d \in Components : Unreadable(d)' \subseteq Unreadable(d)
  BY <1>1, ReinstallWhole DEF IInv
<1>2. ASSUME NEW slot \in Slots, Metadata(slot)
      PROVE  Whole' /\ \A d \in Components : Unreadable(d)' \subseteq Unreadable(d)
  BY <1>2, SaveWhole, WriteWhole, OthersWhole DEF Metadata, IInv
<1>. QED  BY <1>1, <1>2

\* Every other step is steady.
LEMMA NextSteady ==
    ASSUME IInv, Next,
           ~ \E n \in Components : Reinstall(n),
           ~ \E slot \in Slots : MetadataHandler(slot) /\ Metadata(slot)
    PROVE  NetInv' /\ Awaited' /\ Steady
<1>0. NetInv /\ Stock /\ Fresh /\ SlotsOK /\ Awaited
  BY DEF IInv
<1>1. ASSUME NEW n \in Components, Start(n)
      PROVE  NetInv' /\ Awaited' /\ Steady
  BY <1>0, <1>1, StartNet, StartSteady, StartupAwaited
<1>2. ASSUME NEW n \in Components, Startup(n)
      PROVE  NetInv' /\ Awaited' /\ Steady
  BY <1>0, <1>2, StartupNet, StartupAwaited
<1>3. ASSUME NEW n \in Components, Leave(n)
      PROVE  NetInv' /\ Awaited' /\ Steady
  BY <1>0, <1>3, LeaveNet, StartupSteady, HandlerAwaited
<1>4. ASSUME NEW n \in Components, TimesOut(n)
      PROVE  NetInv' /\ Awaited' /\ Steady
  BY <1>0, <1>4, TimesOutNet, FaultSteady, FaultAwaited
<1>5. ASSUME NEW n \in Components, Crash(n)
      PROVE  NetInv' /\ Awaited' /\ Steady
  BY <1>0, <1>5, CrashNet, FaultSteady, FaultAwaited
<1>6. ASSUME NEW slot \in Components \X BOOLEAN, JoinHandler(slot)
      PROVE  NetInv' /\ Awaited' /\ Steady
  <2>1. Steady
    BY <1>0, <1>6, JoinSteady DEF JoinHandler
  <2>2. NetInv'
    BY <1>0, <1>6, ConnectNet, JoinedNet, RefuseNet DEF JoinHandler
  <2>3. Awaited'
    BY <1>0, <1>6, HandlerAwaited
  <2>. QED  BY <2>1, <2>2, <2>3
<1>7. ASSUME NEW slot \in Slots, DropSession(slot)
      PROVE  NetInv' /\ Awaited' /\ Steady
  <2>1. Awaited'
    BY <1>0, <1>7, HandlerAwaited DEF MetadataHandler
  <2>. QED  BY <1>0, <1>7, <2>1, DropSessionNet, DropSteady
<1>. QED  BY <1>1, <1>2, <1>3, <1>4, <1>5, <1>6, <1>7 DEF Next, MetadataHandler

\* Every step keeps it.
LEMMA NextInv ==
    ASSUME IInv, [Next]_vars
    PROVE  IInv'
<1>0. NetInv /\ Stock /\ Fresh /\ SlotsOK /\ Awaited
  BY DEF IInv
<1>1. CASE UNCHANGED vars
  BY <1>1, StutterStays
<1>2. ASSUME NEW n \in Components, Reinstall(n)
      PROVE  IInv'
  <2>1. NetInv' /\ Stock' /\ Fresh' /\ SlotsOK'
    BY <1>0, <1>2, ReinstallNet, ReinstallStays
  <2>2. Awaited'
    BY <1>0, <1>2, HandlerAwaited
  <2>3. Whole'
    BY <1>2, FilesStay
  <2>. QED  BY <2>1, <2>2, <2>3 DEF IInv
<1>3. ASSUME NEW slot \in Slots, MetadataHandler(slot), Metadata(slot)
      PROVE  IInv'
  <2>1. UNCHANGED <<network, phase, process, joins, faults>>
    <3>1. ~ DropSession(slot)
      BY <1>3 DEF Metadata, DropSession, Ended, Save, Write, Load, Commit, LinkKnown,
                  LinkUnknown, CreateUnnamed, Linked
    <3>. QED  BY <1>3, <3>1 DEF MetadataHandler
  <2>2. SessionStays
    BY <1>0, <1>3, <2>1, MetadataStays
  <2>3. Awaited'
    BY <1>0, <1>3, HandlerAwaited
  <2>4. Whole'
    BY <1>3, FilesStay
  <2>. QED  BY <2>2, <2>3, <2>4 DEF SessionStays, IInv
<1>4. CASE /\ Next
           /\ ~ \E n \in Components : Reinstall(n)
           /\ ~ \E slot \in Slots : MetadataHandler(slot) /\ Metadata(slot)
  BY <1>4, NextSteady, SteadyInv
<1>. QED  BY <1>1, <1>2, <1>3, <1>4

\* It holds in every reachable state.
LEMMA Invariance == Spec => []IInv
<1>1. Init => IInv
  BY InitInv
<1>2. IInv /\ [Next]_vars => IInv'
  BY NextInv
<1>. QED  BY <1>1, <1>2, PTL DEF Spec

-----------------------------------------------------------------------------
(* What it gives.                                                            *)

\* Every variable keeps its type.
THEOREM Typed == Spec => []TypeOK
<1>1. IInv => TypeOK
  BY DEF IInv, NetInv
<1>. QED  BY <1>1, Invariance, PTL

\* A node that has recorded its join node is known there by the key it has now.
THEOREM RecordedIsRegistered == Spec => []JoinRecorded
<1>1. IInv => JoinRecorded
  BY DEF IInv, NetInv, NodeOK, StartupOK, Registered, JoinRecorded
<1>. QED  BY <1>1, Invariance, PTL

\* Nothing but a stop leaves a file that is linked, truncated and not about to be written.
LEMMA StepReadable ==
    ASSUME IInv, [Next]_vars
    PROVE  \A d \in Components : Unreadable(d)' \subseteq Unreadable(d) \/ Stops(d)
<1>1. CASE UNCHANGED vars
  BY <1>1 DEF vars, catalog, Unreadable, Rewritten
<1>2. CASE \/ \E n \in Components : Reinstall(n)
           \/ \E slot \in Slots : MetadataHandler(slot) /\ Metadata(slot)
  BY <1>2, FilesStay
<1>3. CASE /\ Next
           /\ ~ \E n \in Components : Reinstall(n)
           /\ ~ \E slot \in Slots : MetadataHandler(slot) /\ Metadata(slot)
  BY <1>3, NextSteady, SteadyWhole DEF IInv
<1>. QED  BY <1>1, <1>2, <1>3

\* A project can be loaded: each link has its project, one data source and its file, and the
\* file can be read or is about to be written, unless the node stopped in between.
THEOREM ProjectsLoad == Spec => LinkedLoadable
<1> DEFINE Linked1 ==
             \A d \in Components :
                /\ \A link \in links[d] :
                     /\ link[1] \in TokensKnown(d)
                     /\ Cardinality({row \in sources[d] : row.id = link[2]}) = 1
                /\ \A row \in sources[d] : row.id \in files[d]
           Readable ==
             \A d \in Components :
                \/ Unreadable(d)' \subseteq Unreadable(d)
                \/ phase[d] # "down" /\ phase'[d] = "down"
<1>1. IInv => Linked1
  <2>1. ASSUME Stock, NEW d \in Components, NEW link \in links[d]
        PROVE  /\ link[1] \in TokensKnown(d)
               /\ Cardinality({row \in sources[d] : row.id = link[2]}) = 1
    <3>1. link[1] \in TokensKnown(d)
      BY <2>1 DEF Stock
    <3>2. PICK row \in sources[d] : row.id = link[2]
      BY <2>1 DEF Stock
    <3>3. {other \in sources[d] : other.id = link[2]} = {row}
      BY <2>1, <3>2 DEF Stock
    <3>. QED  BY <2>1, <3>1, <3>3, FS_Singleton
  <2>2. Stock => \A d \in Components : \A row \in sources[d] : row.id \in files[d]
    BY DEF Stock
  <2>. QED  BY <2>1, <2>2 DEF IInv
<1>2. IInv /\ [Next]_vars => Readable
  BY StepReadable DEF Stops
<1>3. Spec => [][Readable]_vars
  BY <1>2, Invariance, PTL DEF Spec
<1>4. Spec => []Linked1
  BY <1>1, Invariance, PTL
<1>. QED  BY <1>3, <1>4 DEF LinkedLoadable

\* The first node can give out jobs on the data of a client that polls.
THEOREM PollingCatalogued == Spec => []PollingIsCatalogued
<1>1. IInv => PollingIsCatalogued
  BY MembershipAssumption DEF IInv, NetInv, NodeOK, ToldOK, AllCatalogued, PollingIsCatalogued
<1>. QED  BY <1>1, Invariance, PTL

-----------------------------------------------------------------------------
(* Identities.                                                               *)

\* What a step may do to the row of c at d.
RowKept(d, c) ==
    /\ table'[d][c] # NoRow
    /\ table'[d][c].key = table[d][c].key
    /\ table'[d][c].active => table[d][c].active

\* A new row is made only where there is none.
LEMMA CreateKeeps ==
    ASSUME TypeOK, NEW d \in Components, NEW c \in Components \ Known(d), NEW k \in Keys,
           NEW j \in BOOLEAN, CreateComponent(d, c, k, j), key' = key
    PROVE  \A e \in Components : \A x \in Known(e) : RowKept(e, x)
<1>1. AddsRow(d, c, k, j)
  BY CreateAdds
<1>2. \A e \in Components : \A x \in Known(e) : x \in Components /\ table[e][x] # NoRow
  BY DEF Known
<1>3. \A e \in Components : \A x \in Known(e) : table'[e][x] = table[e][x]
  BY <1>1, <1>2 DEF AddsRow
<1>. QED  BY <1>2, <1>3 DEF RowKept

\* A step that changes no table.
LEMMA SameKeeps ==
    ASSUME table' = table
    PROVE  \A e \in Components : \A x \in Known(e) : RowKept(e, x)
BY DEF RowKept, Known

\* Neither a second join nor a reinstallation replaces a key, and nobody who left becomes
\* active again.
THEOREM IdentitiesKept == Spec => IdentityKept
<1> DEFINE Kept == \A d \in Components : key'[d] = key[d] => \A c \in Known(d) : RowKept(d, c)
<1>1. IInv /\ [Next]_vars => Kept
  <2>. SUFFICES ASSUME IInv, [Next]_vars
                PROVE  Kept
    OBVIOUS
  <2>0. TypeOK /\ First \in Components
    BY MembershipAssumption DEF IInv, NetInv
  <2>1. CASE UNCHANGED vars
    BY <2>1, SameKeeps DEF vars
  <2>2. ASSUME NEW n \in Components, Start(n)
        PROVE  Kept
    BY <2>2, SameKeeps DEF Start, network
  <2>3. ASSUME NEW n \in Components, Startup(n)
        PROVE  Kept
    <3>1. CASE Populate(n)
      <4>1. CASE n \in Known(n)
        BY <3>1, <4>1, SameKeeps DEF Populate
      <4>2. CASE n \notin Known(n)
        <5>1. PICK k \in Keys : k = PublicKey(n)
          BY <2>0, NetTypes
        <5>2. CreateComponent(n, n, k, FALSE) /\ key' = key
          BY <3>1, <4>2, <5>1 DEF Populate
        <5>. QED  BY <2>0, <4>2, <5>2, CreateKeeps
      <4>. QED  BY <4>1, <4>2
    <3>2. CASE Record(n)
      <4>1. CASE table' = table
        BY <4>1, SameKeeps
      <4>2. CASE table' # table
        <5>1. PICK c : c = Head(todo[n])
          OBVIOUS
        <5>2. /\ todo[n] # << >> /\ ~ AlreadyExists(n, c, table[First][c].key) /\ key' = key
              /\ CreateComponent(n, c, table[First][c].key, c = First)
          BY <3>2, <4>2, <5>1 DEF Record
        <5>3. phase[n] = "record"
          BY <3>2 DEF Record
        <5>4. ToSet(todo[n]) \subseteq Known(First) /\ todo[n] \in Seq(Components)
          BY <2>0, <5>3 DEF IInv, NetInv, NodeOK, StartupOK, TypeOK
        <5>5. c \in Known(First) /\ c \in Components
          BY <5>1, <5>2, <5>4, TailSet
        <5>6. PICK k \in Keys : k = table[First][c].key
          BY <2>0, <5>5, NetTypes
        <5>7. PICK j \in BOOLEAN : j = (c = First)
          OBVIOUS
        <5>8. CreateComponent(n, c, k, j) /\ c \notin Known(n)
          BY <5>2, <5>6, <5>7 DEF AlreadyExists
        <5>. QED  BY <2>0, <5>2, <5>5, <5>8, CreateKeeps
      <4>. QED  BY <4>1, <4>2
    <3>3. CASE ~ Populate(n) /\ ~ Record(n)
      <4>1. table' = table
        BY <2>3, <3>3 DEF Startup, NoJoin, SendJoin, JoinFails, AddMetadata, Added, SendMetadata,
                          Answered, Unreachable, Distributed, StartHeartbeat, network
      <4>. QED  BY <4>1, SameKeeps
    <3>. QED  BY <3>1, <3>2, <3>3
  <2>4. ASSUME NEW n \in Components, Leave(n)
        PROVE  Kept
    <3>1. CASE table' = table
      BY <3>1, SameKeeps
    <3>2. CASE table' = [table EXCEPT ![First][n].active = FALSE] /\ n \in Known(First)
      <4>1. table \in [Components -> [Components -> {NoRow} \cup Rows]]
        BY <2>0 DEF TypeOK, MembershipTypeOK
      <4>2. PICK r : r = table[First][n]
        OBVIOUS
      <4>3. r \in Rows
        BY <2>0, <3>2, <4>2, NetTypes
      <4>4. PICK q : q = [r EXCEPT !.active = FALSE]
        OBVIOUS
      <4>5. q \in Rows /\ q.key = r.key /\ ~ q.active
        BY <4>3, <4>4 DEF Rows
      <4>6. q # NoRow
        BY <4>5, MembershipAssumption
      <4>7. \A e, x \in Components : table'[e][x] = IF e = First /\ x = n THEN q ELSE table[e][x]
        BY <2>0, <3>2, <4>1, <4>2, <4>4
      <4>8. \A e \in Components : \A x \in Known(e) : x \in Components /\ table[e][x] # NoRow
        BY DEF Known
      <4>. QED  BY <4>2, <4>5, <4>6, <4>7, <4>8 DEF RowKept
    <3>. QED  BY <2>4, <3>1, <3>2 DEF Leave, ComponentLeave, CheckSignature
  <2>5. ASSUME NEW n \in Components, TimesOut(n) \/ Crash(n)
        PROVE  Kept
    BY <2>5, SameKeeps DEF TimesOut, Crash, network
  <2>6. ASSUME NEW n \in Components, Reinstall(n)
        PROVE  Kept
    <3>1. /\ key' = [key EXCEPT ![n] = @ + 1]
          /\ table' = [table EXCEPT ![n] = [c \in Components |-> NoRow]]
      BY <2>6 DEF Reinstall
    <3>2. key \in [Components -> 1..MaxKeys] /\ table \in [Components -> [Components -> {NoRow} \cup Rows]]
      BY <2>0 DEF TypeOK, MembershipTypeOK
    <3>3. key'[n] # key[n]
      BY <3>1, <3>2, MembershipAssumption
    <3>4. \A e \in Components \ {n} : table'[e] = table[e]
      BY <3>1, <3>2
    <3>5. \A e \in Components \ {n} : \A x \in Known(e) : RowKept(e, x)
      BY <3>4 DEF RowKept, Known
    <3>. QED  BY <3>3, <3>5
  <2>7. ASSUME NEW slot \in Components \X BOOLEAN, JoinHandler(slot)
        PROVE  Kept
    <3>1. CASE Connect(slot)
      <4>1. CASE table' = table
        BY <4>1, SameKeeps
      <4>2. CASE table' # table
        <5>1. PICK n \in Components, b \in BOOLEAN : slot = <<n, b>>
          BY <2>7
        <5>2. PICK k \in Keys : k = joins[slot].key
          BY <2>0, <3>1, <5>1, NetTypes DEF Connect
        <5>3. MayConnect(First, n, k) /\ CreateComponent(First, n, k, FALSE) /\ key' = key
          BY <3>1, <4>2, <5>1, <5>2 DEF Connect
        <5>4. n \notin Known(First)
          BY <5>3 DEF MayConnect, AlreadyExists
        <5>. QED  BY <2>0, <5>3, <5>4, CreateKeeps
      <4>. QED  BY <4>1, <4>2
    <3>2. CASE Joined(slot)
      <4>1. table' = table
        BY <2>0, <3>2, AnnouncesNobody DEF Joined
      <4>. QED  BY <4>1, SameKeeps
    <3>3. CASE Refuse(slot)
      BY <3>3, SameKeeps DEF Refuse, network
    <3>. QED  BY <2>7, <3>1, <3>2, <3>3 DEF JoinHandler
  <2>8. ASSUME NEW slot \in Slots, MetadataHandler(slot)
        PROVE  Kept
    BY <2>8, SameKeeps DEF MetadataHandler, DropSession, network
  <2>. QED
    BY <2>1, <2>2, <2>3, <2>4, <2>5, <2>6, <2>7, <2>8 DEF Next
<1>2. Kept <=> \A d \in Components : key'[d] = key[d] =>
                  \A c \in Known(d) :
                     /\ table'[d][c] # NoRow
                     /\ table'[d][c].key = table[d][c].key
                     /\ table'[d][c].active => table[d][c].active
  BY DEF RowKept
<1> HIDE DEF Kept
<1>. QED  BY <1>1, <1>2, Invariance, PTL DEF Spec, IdentityKept

=============================================================================
