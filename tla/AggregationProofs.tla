-------------------------- MODULE AggregationProofs --------------------------
(***************************************************************************)
(* Proofs about SecureAggregation, for every artifact, any number of workers, *)
(* all their data and all masks.                                            *)
(*                                                                         *)
(* Two arguments meet.  Along the chain of an estimator the product of the   *)
(* first k workers is the sum of what they know plus the mask, by the step   *)
(* from k - 1 to k.  Across the estimators, that race for the same file, the *)
(* file may lose a mask but never hold a wrong one: whatever is found under  *)
(* the name of an estimator's own local variable is what it has drawn.       *)
(***************************************************************************)
EXTENDS SecureAggregation, FiniteSums

Statistics == {"sum", "num"}

\* What worker w knows and what the first k workers know, of the kinds K and the data d:
\* Own and Sum, with the sums as Total.
GroupsOf(K, d, e, w) == IF K[e] \in {"GroupCount", "GroupMean"} THEN DOMAIN d[w] ELSE {"all"}
Alone(d, w, s) == Total([h \in DOMAIN d[w] |-> d[w][h][s]], DOMAIN d[w])
Knows(K, d, e, w, s) ==
    [g \in GroupsOf(K, d, e, w) |->
        IF K[e] \in {"GroupCount", "GroupMean"} THEN d[w][g][s] ELSE Alone(d, w, s)]
Parts(K, d, e, k, s, g) == [w \in 1 .. k |-> At(Knows(K, d, e, w, s), g)]
Together(K, d, e, k, s, g) == Total(Parts(K, d, e, k, s, g), 1 .. k)
GroupsUpTo(K, d, e, k) == UNION {GroupsOf(K, d, e, w) : w \in 1 .. k}

-----------------------------------------------------------------------------
(* The sums of the model. *)

\* The statistics of an estimator are among the two.
LEMMA StatsAre ==
    ASSUME NEW e
    PROVE  Stats(e) \subseteq Statistics
BY DEF Stats, Statistics

\* What an estimator that does not group takes of a worker is a sum of integers.
LEMMA AloneInt ==
    ASSUME NEW d \in DataSets, NEW w \in 1 .. N, NEW s \in Statistics
    PROVE  /\ Alone(d, w, s) \in Int
           /\ MapThenSumSet(LAMBDA h : d[w][h][s], DOMAIN d[w]) = Alone(d, w, s)
<1> DEFINE S == DOMAIN d[w]
           f == [h \in S |-> d[w][h][s]]
           k == CHOOSE it : it = [t \in SUBSET S |-> IF t = {} THEN 0
                     ELSE d[w][CHOOSE x \in t : TRUE][s] + it[t \ {CHOOSE x \in t : TRUE}]]
<1>1. IsFiniteSet(S) /\ \A h \in S : f[h] \in Int
  BY DataAssumption DEF Statistics
<1>2. MapThenSumSet(LAMBDA h : d[w][h][s], S) = k[S]
  BY Zenon DEF MapThenSumSet, MapThenFoldSet
<1>3. PICK h : SumsOf(h, f, S)
  BY <1>1, SumsExist
<1>4. h = [t \in SUBSET S |-> IF t = {} THEN 0
              ELSE d[w][CHOOSE x \in t : TRUE][s] + h[t \ {CHOOSE x \in t : TRUE}]]
  <2>1. \A t \in SUBSET S : t # {} => f[Pick(t)] = d[w][Pick(t)][s]
    BY PickOne
  <2>2. DOMAIN h = SUBSET S /\ h = [t \in SUBSET S |-> h[t]]
    BY <1>3 DEF SumsOf
  <2>3. \A t \in SUBSET S :
            h[t] = IF t = {} THEN 0 ELSE d[w][Pick(t)][s] + h[t \ {Pick(t)}]
    <3> HIDE DEF f, S
    <3>. QED  BY <1>3, <2>1 DEF SumsOf
  <2> HIDE DEF S
  <2>. QED  BY <2>2, <2>3 DEF Pick
<1>5. k = [t \in SUBSET S |-> IF t = {} THEN 0
              ELSE d[w][CHOOSE x \in t : TRUE][s] + k[t \ {CHOOSE x \in t : TRUE}]]
  BY <1>4, Zenon
<1>6. SumsOf(k, f, S)
  <2>1. \A t \in SUBSET S : t # {} => f[Pick(t)] = d[w][Pick(t)][s]
    BY PickOne
  <2> HIDE DEF k, f, S
  <2>2. DOMAIN k = SUBSET S /\ k = [t \in SUBSET S |-> k[t]]
    BY <1>5
  <2>3. \A t \in SUBSET S :
            k[t] = IF t = {} THEN 0 ELSE f[Pick(t)] + k[t \ {Pick(t)}]
    <3>1. \A t \in SUBSET S :
              k[t] = IF t = {} THEN 0 ELSE d[w][Pick(t)][s] + k[t \ {Pick(t)}]
      BY <1>5 DEF Pick
    <3>. QED  BY <2>1, <3>1
  <2>. QED  BY <2>2, <2>3 DEF SumsOf
<1> HIDE DEF k, f
<1>7. Total(f, S) = k[S] /\ Total(f, S) \in Int
  BY <1>1, <1>6, TotalIsSum, TotalStep
<1>. QED  BY <1>2, <1>7 DEF Alone, f

\* What a worker knows is a function from its groups to integers.
LEMMA KnowsInt ==
    ASSUME NEW K, NEW d \in DataSets, NEW e, NEW w \in 1 .. N, NEW s \in Statistics
    PROVE  /\ DOMAIN Knows(K, d, e, w, s) = GroupsOf(K, d, e, w)
           /\ \A g : At(Knows(K, d, e, w, s), g) \in Int
           /\ \A g : g \notin GroupsOf(K, d, e, w) => At(Knows(K, d, e, w, s), g) = 0
<1>1. Alone(d, w, s) \in Int
  BY AloneInt
<1>2. \A g \in DOMAIN d[w] : d[w][g][s] \in Int
  BY DataAssumption DEF Statistics
<1>. QED  BY <1>1, <1>2 DEF Knows, GroupsOf, At

\* Own is Knows.
LEMMA OwnIs ==
    ASSUME data \in DataSets, NEW e, NEW w \in 1 .. N, NEW s \in Statistics
    PROVE  Own(e, w, s) = Knows(kind, data, e, w, s)
<1>1. MapThenSumSet(LAMBDA h : data[w][h][s], DOMAIN data[w]) = Alone(data, w, s)
  BY AloneInt
<1>2. CASE Grouping(e)
  BY <1>2 DEF Own, Knows, GroupsOf, Grouping
<1>3. CASE ~ Grouping(e)
  <2>1. Own(e, w, s) = [g \in {"all"} |-> Alone(data, w, s)]
    BY <1>1, <1>3, Zenon DEF Own
  <2>. QED  BY <1>3, <2>1 DEF Knows, GroupsOf, Grouping
<1>. QED  BY <1>2, <1>3

\* Sum is Together.
LEMMA SumIs ==
    ASSUME data \in DataSets, NEW e, NEW k \in 0 .. N, NEW s \in Statistics, NEW g
    PROVE  Sum(e, k, s, g) = Together(kind, data, e, k, s, g)
<1> DEFINE S == 1 .. k
           f == Parts(kind, data, e, k, s, g)
           it == CHOOSE h : h = [t \in SUBSET S |-> IF t = {} THEN 0
                     ELSE At(Own(e, CHOOSE x \in t : TRUE, s), g)
                             + h[t \ {CHOOSE x \in t : TRUE}]]
<1>1. IsFiniteSet(S) /\ S \subseteq 1 .. N
  BY FS_Interval, NAssumption
<1>2. \A w \in S : f[w] = At(Own(e, w, s), g)
  BY <1>1, OwnIs DEF Parts
<1>3. Sum(e, k, s, g) = it[S]
  BY Zenon DEF Sum, MapThenSumSet, MapThenFoldSet
<1> HIDE DEF f, S
<1>4. \A t \in SUBSET S : t # {} => f[Pick(t)] = At(Own(e, Pick(t), s), g)
  BY <1>2, PickOne
<1>5. PICK h : SumsOf(h, f, S)
  BY <1>1, SumsExist
<1>6. h = [t \in SUBSET S |-> IF t = {} THEN 0
              ELSE At(Own(e, CHOOSE x \in t : TRUE, s), g)
                      + h[t \ {CHOOSE x \in t : TRUE}]]
  <2>1. DOMAIN h = SUBSET S /\ h = [t \in SUBSET S |-> h[t]]
    BY <1>5 DEF SumsOf
  <2>2. \A t \in SUBSET S :
            h[t] = IF t = {} THEN 0 ELSE At(Own(e, Pick(t), s), g) + h[t \ {Pick(t)}]
    BY <1>4, <1>5 DEF SumsOf
  <2>. QED  BY <2>1, <2>2 DEF Pick
<1>7. it = [t \in SUBSET S |-> IF t = {} THEN 0
               ELSE At(Own(e, CHOOSE x \in t : TRUE, s), g)
                       + it[t \ {CHOOSE x \in t : TRUE}]]
  BY <1>6, Zenon
<1> HIDE DEF it
<1>8. SumsOf(it, f, S)
  <2>1. DOMAIN it = SUBSET S /\ it = [t \in SUBSET S |-> it[t]]
    BY <1>7
  <2>2. \A t \in SUBSET S :
            it[t] = IF t = {} THEN 0 ELSE f[Pick(t)] + it[t \ {Pick(t)}]
    BY <1>4, <1>7 DEF Pick
  <2>. QED  BY <2>1, <2>2 DEF SumsOf
<1>. QED  BY <1>1, <1>3, <1>8, TotalIsSum DEF Together, f, S

\* What the workers up to k know is what those up to k - 1 know and what k knows.
LEMMA TogetherStep ==
    ASSUME NEW K, NEW d \in DataSets, NEW e, NEW k \in 1 .. N, NEW s \in Statistics, NEW g
    PROVE  /\ Together(K, d, e, k, s, g) \in Int
           /\ Together(K, d, e, k - 1, s, g) \in Int
           /\ Together(K, d, e, k, s, g)
                = Together(K, d, e, k - 1, s, g) + At(Knows(K, d, e, k, s), g)
<1> DEFINE f == Parts(K, d, e, k, s, g)
           g1 == Parts(K, d, e, k - 1, s, g)
<1>1. k \in Nat \ {0} /\ 1 .. k \subseteq 1 .. N
  BY NAssumption
<1>2. \A x \in 1 .. k : f[x] \in Int
  BY <1>1, KnowsInt DEF Parts
<1>3. f[k] = At(Knows(K, d, e, k, s), g)
  BY <1>1 DEF Parts
<1>4. \A x \in 1 .. (k - 1) : f[x] = g1[x]
  BY <1>1 DEF Parts
<1>5. IsFiniteSet(1 .. (k - 1))
  BY <1>1, FS_Interval
<1> HIDE DEF f, g1
<1>6. Total(f, 1 .. (k - 1)) = Total(g1, 1 .. (k - 1))
  BY <1>4, <1>5, TotalSame
<1>7. /\ Total(f, 1 .. k) \in Int
      /\ Total(f, 1 .. k) = Total(f, 1 .. (k - 1)) + f[k]
      /\ Total(f, 1 .. (k - 1)) \in Int
  BY <1>1, <1>2, TotalUpTo
<1>. QED  BY <1>3, <1>6, <1>7 DEF Together, f, g1

\* Nothing is known of a group that no worker has.
LEMMA TogetherNothing ==
    ASSUME NEW K, NEW d \in DataSets, NEW e, NEW k \in 0 .. N, NEW s \in Statistics,
           NEW g, g \notin GroupsUpTo(K, d, e, k)
    PROVE  Together(K, d, e, k, s, g) = 0
<1> DEFINE f == Parts(K, d, e, k, s, g)
<1>1. \A w \in 1 .. k : w \in 1 .. N /\ g \notin GroupsOf(K, d, e, w)
  BY NAssumption DEF GroupsUpTo
<1>2. \A w \in 1 .. k : f[w] = 0
  BY <1>1, KnowsInt DEF Parts
<1>3. IsFiniteSet(1 .. k)
  BY FS_Interval
<1> HIDE DEF f
<1>4. Total(f, 1 .. k) = 0
  BY <1>2, <1>3, TotalZero
<1>. QED  BY <1>4 DEF Together, f

-----------------------------------------------------------------------------
(* The inductive invariant. *)

PCs == {"waiting", "loaded", "ran", "storing", "done", "error"}
Reached(j) == exec[j].pc \in {"loaded", "ran", "storing", "done"}
Ran(j) == exec[j].pc \in {"ran", "storing", "done"}

Shape ==
    /\ data \in DataSets /\ size \in 1 .. N
    /\ DOMAIN exec = Jobs /\ DOMAIN product = Jobs
    /\ DOMAIN mask = Used /\ DOMAIN disk = 0 .. N
    /\ \A j \in Jobs : DOMAIN exec[j] = {"pc", "locals"} /\ exec[j].pc \in PCs
    /\ \A c \in 0 .. N : DOMAIN disk[c] = {"torn", "locals"} /\ disk[c].torn \in BOOLEAN

\* A job goes no further than its predecessor and the first of its chain have ended, and
\* stores nothing before it runs.
InOrder ==
    /\ \A j \in Jobs : j[2] > 0 /\ Reached(j) =>
          exec[<<j[1], j[2] - 1>>].pc = "done" /\ exec[<<j[1], 0>>].pc = "done"
    /\ \A j \in Jobs : ~ Ran(j) => product[j] = NoProduct

\* The masks that were drawn, and the products that carry them.
Drawn ==
    \A e \in Used : Ran(<<e, 0>>) =>
        \A s \in Stats(e) : mask[e][s] \in IF Grouping(e) THEN Noises ELSE Masks

Started(e) ==
    [vals |-> [s \in Stats(e) |-> IF Grouping(e) THEN << >> ELSE [g \in {"all"} |-> mask[e][s]]],
     noise |-> [s \in Noised(e) |-> mask[e][s]]]

Share(e, g, m) == IF Masked(e, g) THEN m ELSE 0

\* p is what the first k workers know, with the mask m carried once; the noise is spent,
\* and only the first worker says so, which leaves none to the third.
Carries(e, k, p, m) ==
    /\ Grouping(e) => k <= 2
    /\ DOMAIN p.noise = IF k = 1 THEN Noised(e) ELSE {}
    /\ DOMAIN p.vals = Stats(e)
    /\ \A s \in Stats(e) :
          /\ At(p.noise, s) = 0
          /\ DOMAIN p.vals[s] = GroupsUpTo(kind, data, e, k)
          /\ \A g \in GroupsUpTo(kind, data, e, k) :
                p.vals[s][g] = Together(kind, data, e, k, s, g) + Share(e, g, m[s])

Carried ==
    /\ \A e \in Used : Ran(<<e, 0>>) => product[<<e, 0>>] = Started(e)
    /\ \A e \in Used, k \in 1 .. size : Ran(<<e, k>>) => Carries(e, k, product[<<e, k>>], mask[e])

\* What is found under the name of an estimator's own local variables is its mask.
Faithful(e, L, pc, m) ==
    \A s \in Stats(e) : Secret(e, s) \in DOMAIN L =>
        pc \in {"ran", "storing", "done"} /\ L[Secret(e, s)] = m[s]

Kept ==
    \A e \in Used : Apart(e) =>
        /\ \A j \in Jobs : Faithful(e, exec[j].locals, exec[<<e, 0>>].pc, mask[e])
        /\ \A c \in 0 .. N : Faithful(e, disk[c].locals, exec[<<e, 0>>].pc, mask[e])

Cleaned ==
    \A e \in Used : Ran(Last(e)) =>
        LET p == product[Last(e)] IN
        /\ DOMAIN p.vals = Stats(e) /\ DOMAIN p.noise = {}
        /\ \A s \in Stats(e) :
              /\ DOMAIN p.vals[s] = GroupsUpTo(kind, data, e, size)
              /\ Apart(e) => \A g \in GroupsUpTo(kind, data, e, size) :
                    p.vals[s][g] = (Together(kind, data, e, size, s, g)
                                       + Share(e, g, mask[e][s])) - mask[e][s]

IInv == Shape /\ InOrder /\ Drawn /\ Carried /\ Kept /\ Cleaned

-----------------------------------------------------------------------------
(* What a step of a job changes. *)

\* A project has some of the workers.
LEMMA SizeIs == Shape => size \in Nat \ {0} /\ N \in Nat /\ size <= N
BY NAssumption DEF Shape

\* A job is a used estimator and a place in its chain.
LEMMA JobParts ==
    ASSUME NEW j \in Jobs
    PROVE  j[1] \in Used /\ j[2] \in 0 .. size + 1 /\ j = <<j[1], j[2]>>
BY DEF Jobs

\* A job by its estimator and its number.
LEMMA JobOf ==
    ASSUME NEW e \in Used, NEW k \in 0 .. size + 1
    PROVE  <<e, k>> \in Jobs /\ <<e, k>>[1] = e /\ <<e, k>>[2] = k
BY DEF Jobs

\* The kinds and the data stay, so do the other jobs and their products; a job that has
\* ended does not move, one that has run keeps its product.
LEMMA Moves ==
    ASSUME Shape, NEW j \in Jobs, JobStep(j)
    PROVE  /\ size' = size /\ kind' = kind /\ data' = data
           /\ DOMAIN exec' = Jobs /\ DOMAIN product' = Jobs
           /\ \A i \in Jobs \ {j} : exec'[i] = exec[i] /\ product'[i] = product[i]
           /\ DOMAIN exec'[j] = {"pc", "locals"} /\ exec'[j].pc \in PCs
           /\ exec[j].pc \notin {"done", "error"}
           /\ exec'[j].pc \in {"loaded", "ran", "storing", "done"} =>
                 Reached(j) \/ (j[2] > 0 => exec[<<j[1], j[2] - 1>>].pc = "done")
           /\ Ran(j) => /\ exec'[j].pc \in {"ran", "storing", "done"}
                        /\ product'[j] = product[j] /\ mask' = mask
           /\ ~ Ran(j) /\ exec'[j].pc \in {"ran", "storing", "done"} =>
                 exec[j].pc = "loaded" /\ (ExecInit(j) \/ ExecWork(j) \/ ExecClean(j))
           /\ exec'[j].pc \notin {"ran", "storing", "done"} => product'[j] = product[j]
<1> USE DEF Shape, PCs, Reached, Ran
<1>1. CASE Load(j)
  BY <1>1 DEF Load, Fails, NewExec
<1>2. CASE ExecInit(j)
  BY <1>2 DEF ExecInit
<1>3. CASE ExecWork(j)
  BY <1>3 DEF ExecWork, Fails, NewExec
<1>4. CASE ExecClean(j)
  BY <1>4 DEF ExecClean, Fails, NewExec
<1>5. CASE StoreOpen(j)
  BY <1>5 DEF StoreOpen
<1>6. CASE StoreEnd(j)
  BY <1>6 DEF StoreEnd
<1>. QED  BY <1>1, <1>2, <1>3, <1>4, <1>5, <1>6 DEF JobStep

\* A job that has begun to run is the one that moved.
LEMMA OnlyOneRuns ==
    ASSUME Shape, NEW j \in Jobs, JobStep(j), NEW i \in Jobs, ~ Ran(i),
           exec'[i].pc \in {"ran", "storing", "done"}
    PROVE  i = j
<1> SUFFICES ASSUME i # j PROVE FALSE
  OBVIOUS
<1>1. exec'[i] = exec[i]
  BY Moves
<1>. QED  BY <1>1 DEF Ran

\* A mask is drawn once, by the first job of the chain.
LEMMA MaskMoves ==
    ASSUME Shape, NEW j \in Jobs, JobStep(j)
    PROVE  /\ DOMAIN mask' = DOMAIN mask
           /\ \A e \in Used : j # <<e, 0>> => mask'[e] = mask[e]
           /\ ~ ExecInit(j) => mask' = mask
<1>1. CASE ExecInit(j)
  <2>1. PICK m : mask' = [mask EXCEPT ![j[1]] = m]
    BY <1>1 DEF ExecInit
  <2>2. j = <<j[1], 0>> /\ j[1] \in Used
    BY <1>1, JobParts DEF ExecInit
  <2>. QED  BY <1>1, <2>1, <2>2
<1>2. CASE ~ ExecInit(j)
  BY <1>2 DEF JobStep, Load, ExecWork, ExecClean, StoreOpen, StoreEnd
<1>. QED  BY <1>1, <1>2

\* The file of a component is opened and written, and by nothing else.
LEMMA DiskMoves ==
    ASSUME Shape, NEW j \in Jobs, JobStep(j)
    PROVE  /\ DOMAIN disk' = 0 .. N
           /\ \A c \in 0 .. N : DOMAIN disk'[c] = {"torn", "locals"} /\ disk'[c].torn \in BOOLEAN
           /\ \A c \in 0 .. N : disk'[c].locals \in {disk[c].locals, exec[j].locals}
<1>1. Component(j) \in 0 .. N
  BY JobParts, SizeIs DEF Component
<1>2. CASE StoreOpen(j)
  BY <1>1, <1>2 DEF StoreOpen, Shape
<1>3. CASE StoreEnd(j)
  BY <1>1, <1>3 DEF StoreEnd, Shape
<1>4. CASE ~ StoreOpen(j) /\ ~ StoreEnd(j)
  BY <1>4 DEF JobStep, Load, ExecInit, ExecWork, ExecClean, Shape
<1>. QED  BY <1>2, <1>3, <1>4

\* The kinds and the data stay, and with them what is defined from them alone.
LEMMA Fixed ==
    ASSUME size' = size, kind' = kind, data' = data
    PROVE  /\ Used' = Used /\ Jobs' = Jobs
           /\ \A e : Last(e)' = Last(e)
           /\ \A e : Stats(e)' = Stats(e) /\ Grouping(e)' = Grouping(e)
           /\ \A e : Noised(e)' = Noised(e)
           /\ \A e, s : Secret(e, s)' = Secret(e, s)
           /\ \A e : Apart(e)' = Apart(e)
           /\ \A e, g : Masked(e, g)' = Masked(e, g)
<1>1. Used' = Used /\ Jobs' = Jobs
  BY DEF Used, Jobs
<1>2. \A e : Stats(e)' = Stats(e)
  BY DEF Stats
<1>3. \A e : Grouping(e)' = Grouping(e)
  BY DEF Grouping
<1>4. \A e, s : Secret(e, s)' = Secret(e, s)
  BY DEF Secret
<1>5. \A e, g : Masked(e, g)' = Masked(e, g)
  BY <1>3 DEF Masked
<1>6. \A e : Secrets(e)' = Secrets(e)
  BY <1>2, <1>4 DEF Secrets
<1>7. \A e : Apart(e)' = Apart(e)
  BY <1>1, <1>6 DEF Apart
<1>8. \A e : Noised(e)' = Noised(e) /\ Last(e)' = Last(e)
  BY <1>2, <1>3 DEF Noised, Last
<1>. QED  BY <1>1, <1>2, <1>3, <1>4, <1>5, <1>7, <1>8

\* Every step of a job keeps the shape of the tables.
LEMMA ShapeKept ==
    ASSUME Shape, NEW j \in Jobs, JobStep(j)
    PROVE  Shape'
<1>1. size' = size /\ kind' = kind /\ data' = data /\ DOMAIN exec' = Jobs /\ DOMAIN product' = Jobs
  BY Moves
<1>2. Used' = Used /\ Jobs' = Jobs
  BY <1>1, Fixed
<1>3. ASSUME NEW i \in Jobs
      PROVE  DOMAIN exec'[i] = {"pc", "locals"} /\ exec'[i].pc \in PCs
  <2>1. CASE i = j
    BY <2>1, Moves
  <2>2. CASE i # j
    <3>1. exec'[i] = exec[i]
      BY <2>2, Moves
    <3>. QED  BY <3>1 DEF Shape
  <2>. QED  BY <2>1, <2>2
<1>4. DOMAIN mask' = Used
  BY MaskMoves DEF Shape
<1>. QED  BY <1>1, <1>2, <1>3, <1>4, DiskMoves DEF Shape

\* A job runs after the one before it.
LEMMA InOrderKept ==
    ASSUME Shape, InOrder, NEW j \in Jobs, JobStep(j)
    PROVE  InOrder'
<1>1. kind' = kind /\ Jobs' = Jobs
  BY Moves, Fixed
<1>2. ASSUME NEW i \in Jobs, i[2] > 0, exec'[i].pc \in {"loaded", "ran", "storing", "done"}
      PROVE  exec'[<<i[1], i[2] - 1>>].pc = "done" /\ exec'[<<i[1], 0>>].pc = "done"
  <2>1. exec[<<i[1], i[2] - 1>>].pc = "done"
    <3>1. Reached(i) => exec[<<i[1], i[2] - 1>>].pc = "done"
      BY <1>2 DEF InOrder
    <3>2. CASE i = j
      BY <1>2, <3>1, <3>2, Moves
    <3>3. CASE i # j
      <4>1. exec'[i] = exec[i]
        BY <3>3, Moves
      <4>. QED  BY <1>2, <3>1, <4>1 DEF Reached
    <3>. QED  BY <3>2, <3>3
  <2> DEFINE p == <<i[1], i[2] - 1>>
  <2>2. p \in Jobs /\ <<i[1], 0>> \in Jobs /\ p[1] = i[1] /\ p[2] = i[2] - 1
    BY <1>2, SizeIs DEF Jobs
  <2>3. exec[<<i[1], 0>>].pc = "done"
    <3>1. CASE i[2] = 1
      BY <2>1, <3>1
    <3>2. CASE i[2] # 1
      <4>1. p[2] > 0
        BY <1>2, <2>2, <3>2, JobParts
      <4>. QED  BY <2>1, <2>2, <4>1 DEF InOrder, Reached
    <3>. QED  BY <3>1, <3>2
  <2>. QED  BY <2>1, <2>2, <2>3, Moves
<1>3. ASSUME NEW i \in Jobs, exec'[i].pc \notin {"ran", "storing", "done"}
      PROVE  product'[i] = NoProduct
  <2>1. ~ Ran(i)
    BY <1>3, Moves DEF Ran
  <2>. QED  BY <1>3, <2>1, Moves DEF InOrder
<1>. QED  BY <1>1, <1>2, <1>3 DEF InOrder, Reached, Ran

-----------------------------------------------------------------------------
(* The masks. *)

\* A mask that was drawn stays, and with it the fact that it was.
LEMMA MaskStays ==
    ASSUME Shape, NEW j \in Jobs, JobStep(j), NEW e \in Used, Ran(<<e, 0>>)
    PROVE  mask'[e] = mask[e] /\ exec'[<<e, 0>>].pc \in {"ran", "storing", "done"}
<1>1. <<e, 0>> \in Jobs
  BY SizeIs, JobOf
<1>2. CASE j = <<e, 0>>
  BY <1>2, Moves
<1>3. CASE j # <<e, 0>>
  BY <1>1, <1>3, Moves, MaskMoves DEF Ran
<1>. QED  BY <1>2, <1>3

\* Only its own execution makes the first job of a chain run.
LEMMA FirstRuns ==
    ASSUME Shape, NEW j \in Jobs, JobStep(j), NEW e \in Used, ~ Ran(<<e, 0>>),
           exec'[<<e, 0>>].pc \in {"ran", "storing", "done"}
    PROVE  j = <<e, 0>> /\ ExecInit(j) /\ j[1] = e
<1>1. <<e, 0>> \in Jobs
  BY SizeIs, JobOf
<1>2. j = <<e, 0>>
  BY <1>1, OnlyOneRuns
<1>3. ExecInit(j) \/ ExecWork(j) \/ ExecClean(j)
  BY <1>2, Moves
<1>4. ~ ExecWork(j) /\ ~ ExecClean(j)
  BY <1>2, SizeIs DEF ExecWork, ExecClean
<1>. QED  BY <1>2, <1>3, <1>4

\* The initiator draws the mask from its set; that of a grouping estimator is not zero.
LEMMA DrawnKept ==
    ASSUME Shape, Drawn, NEW j \in Jobs, JobStep(j)
    PROVE  Drawn'
<1>1. size' = size /\ kind' = kind /\ data' = data
  BY Moves
<1>2. /\ Used' = Used
      /\ \A e : Stats(e)' = Stats(e) /\ Grouping(e)' = Grouping(e)
  BY <1>1, Fixed
<1>3. ASSUME NEW e \in Used, exec'[<<e, 0>>].pc \in {"ran", "storing", "done"}
      PROVE  \A s \in Stats(e) : mask'[e][s] \in IF Grouping(e) THEN Noises ELSE Masks
  <2>1. CASE Ran(<<e, 0>>)
    BY <2>1, MaskStays DEF Drawn
  <2>2. CASE ~ Ran(<<e, 0>>)
    <3>1. ExecInit(j) /\ j[1] = e
      BY <1>3, <2>2, FirstRuns
    <3>2. PICK m \in [Stats(e) -> IF Grouping(e) THEN Noises ELSE Masks] :
              mask' = [mask EXCEPT ![e] = m]
      BY <3>1 DEF ExecInit
    <3>3. mask'[e] = m
      BY <3>2 DEF Shape
    <3>. QED  BY <3>2, <3>3
  <2>. QED  BY <2>1, <2>2
<1>. QED  BY <1>2, <1>3 DEF Drawn, Ran

\* Masks are integers.
LEMMA MaskInt ==
    ASSUME Drawn, NEW e \in Used, Ran(<<e, 0>>), NEW s \in Stats(e)
    PROVE  mask[e][s] \in Int /\ (Grouping(e) => mask[e][s] # 0)
BY NoiseAssumption, MaskAssumption DEF Drawn

-----------------------------------------------------------------------------
(* The chain of an estimator. *)

\* The groups of the first k workers are those of the first k - 1 and of the k-th.
LEMMA GroupsStep ==
    ASSUME NEW K, NEW d, NEW e, NEW k \in 1 .. N
    PROVE  GroupsUpTo(K, d, e, k) = GroupsUpTo(K, d, e, k - 1) \cup GroupsOf(K, d, e, k)
<1>1. 1 .. k = 1 .. (k - 1) \cup {k}
  BY NAssumption
<1>. QED  BY <1>1 DEF GroupsUpTo

\* The first worker adds what it knows to the mask, in all of its groups.
LEMMA FirstWork ==
    ASSUME data \in DataSets, NEW e \in Used,
           \A s \in Stats(e) : mask[e][s] \in Int /\ (Grouping(e) => mask[e][s] # 0)
    PROVE  Carries(e, 1, Work(e, 1, Started(e)), mask[e])
<1> DEFINE p == Work(e, 1, Started(e))
<1>1. 1 \in 1 .. N
  BY NAssumption
<1>2. DOMAIN p.vals = Stats(e)
  BY DEF Work
<1>4. DOMAIN p.noise = Noised(e) /\ \A s \in Stats(e) : At(p.noise, s) = 0
  <2> DEFINE n == Started(e).noise
  <2>1. DOMAIN n = Noised(e) /\ \A s \in Noised(e) : n[s] = mask[e][s]
    BY DEF Started
  <2>2. {s \in DOMAIN n : n[s] # 0} = Noised(e)
    BY <2>1 DEF Noised
  <2>3. p.noise = [s \in {t \in DOMAIN n : n[t] # 0} |-> 0]
    BY DEF Work, Spent
  <2> HIDE DEF n, p
  <2>. QED  BY <2>2, <2>3 DEF At
<1>3. ASSUME NEW s \in Stats(e)
      PROVE  /\ DOMAIN p.vals[s] = GroupsUpTo(kind, data, e, 1)
             /\ \A g \in GroupsUpTo(kind, data, e, 1) :
                  p.vals[s][g] = Together(kind, data, e, 1, s, g) + Share(e, g, mask[e][s])
  <2> DEFINE y == Knows(kind, data, e, 1, s)
             x == IF Grouping(e) THEN << >> ELSE [g \in {"all"} |-> mask[e][s]]
             n == IF Grouping(e) THEN mask[e][s] ELSE 0
  <2>1. s \in Statistics /\ Own(e, 1, s) = y
    BY <1>1, StatsAre, OwnIs
  <2>2. Started(e).vals[s] = x /\ At(Started(e).noise, s) = n
    BY DEF Started, At, Noised
  <2>3. p.vals[s] = [g \in DOMAIN x \cup DOMAIN y |-> At(x, g) + At(y, g) + n]
    <3> HIDE DEF x, y, n
    <3>. QED  BY <2>1, <2>2 DEF Work, Plus
  <2>4. DOMAIN y = GroupsOf(kind, data, e, 1) /\ \A g : At(y, g) \in Int
    BY <1>1, <2>1, KnowsInt
  <2>5. GroupsUpTo(kind, data, e, 1) = GroupsOf(kind, data, e, 1)
    <3>1. 1 .. 1 = {1}
      OBVIOUS
    <3>. QED  BY <3>1 DEF GroupsUpTo
  <2>6. DOMAIN x \cup DOMAIN y = GroupsOf(kind, data, e, 1)
    BY <2>4 DEF GroupsOf, Grouping
  <2>7. ASSUME NEW g \in GroupsOf(kind, data, e, 1)
        PROVE  p.vals[s][g] = Together(kind, data, e, 1, s, g) + Share(e, g, mask[e][s])
    <3>1. Together(kind, data, e, 0, s, g) = 0
      <4>1. g \notin GroupsUpTo(kind, data, e, 0) /\ 0 \in 0 .. N
        BY NAssumption DEF GroupsUpTo
      <4>. QED  BY <2>1, <4>1, TogetherNothing
    <3>2. Together(kind, data, e, 1, s, g) = At(y, g)
      <4> HIDE DEF y
      <4>1. Together(kind, data, e, 1, s, g)
              = Together(kind, data, e, 1 - 1, s, g) + At(Knows(kind, data, e, 1, s), g)
        BY <1>1, <2>1, TogetherStep
      <4>. QED  BY <2>4, <3>1, <4>1 DEF y
    <3>3. Masked(e, g) /\ Share(e, g, mask[e][s]) = mask[e][s]
      BY <2>7 DEF GroupsOf, Grouping, Masked, Share
    <3>4. At(x, g) + n = mask[e][s] /\ At(x, g) \in Int /\ n \in Int
      <4>1. CASE Grouping(e)
        BY <4>1 DEF At
      <4>2. CASE ~ Grouping(e)
        BY <2>7, <4>2 DEF At, GroupsOf, Grouping
      <4>. QED  BY <4>1, <4>2
    <3>5. p.vals[s][g] = At(x, g) + At(y, g) + n
      <4> HIDE DEF p, x, y, n
      <4>. QED  BY <2>3, <2>6
    <3> HIDE DEF p, x, y, n
    <3>. QED  BY <2>4, <3>2, <3>3, <3>4, <3>5
  <2>. QED  BY <2>3, <2>5, <2>6, <2>7
<1> HIDE DEF p
<1>5. Carries(e, 1, p, mask[e])
  BY <1>2, <1>3, <1>4 DEF Carries
<1>. QED  BY <1>5 DEF p

\* Every later worker adds what it knows, and no mask.
LEMMA NextWork ==
    ASSUME data \in DataSets, NEW e \in Used, \A s \in Stats(e) : mask[e][s] \in Int,
           NEW k \in 2 .. N, NEW in, Carries(e, k - 1, in, mask[e]),
           Noised(e) \subseteq DOMAIN in.noise
    PROVE  Carries(e, k, Work(e, k, in), mask[e])
<1> DEFINE p == Work(e, k, in)
<1>1. k \in 1 .. N /\ k - 1 \in 1 .. N /\ k - 1 \in 0 .. N
  BY NAssumption
<1>2. DOMAIN p.vals = Stats(e)
  BY DEF Work
<1>4. DOMAIN p.noise = {} /\ \A s \in Stats(e) : At(p.noise, s) = 0
  <2> DEFINE n == in.noise
  <2>1. \A s \in DOMAIN n : n[s] = 0
    BY DEF Carries, Noised, At
  <2>2. p.noise = [s \in {t \in DOMAIN n : n[t] # 0} |-> 0]
    BY DEF Work, Spent
  <2> HIDE DEF n, p
  <2>. QED  BY <2>1, <2>2 DEF At
<1>5. Grouping(e) => k <= 2
  BY DEF Carries, Noised, Stats
<1>3. ASSUME NEW s \in Stats(e)
      PROVE  /\ DOMAIN p.vals[s] = GroupsUpTo(kind, data, e, k)
             /\ \A g \in GroupsUpTo(kind, data, e, k) :
                  p.vals[s][g] = Together(kind, data, e, k, s, g) + Share(e, g, mask[e][s])
  <2> DEFINE y == Knows(kind, data, e, k, s)
             x == in.vals[s]
  <2>1. s \in Statistics /\ Own(e, k, s) = y
    BY <1>1, StatsAre, OwnIs
  <2>2. At(in.noise, s) = 0 /\ DOMAIN x = GroupsUpTo(kind, data, e, k - 1)
    BY DEF Carries
  <2>3. p.vals[s] = [g \in DOMAIN x \cup DOMAIN y |-> At(x, g) + At(y, g) + 0]
    <3> HIDE DEF y
    <3>. QED  BY <2>1, <2>2 DEF Work, Plus
  <2>4. DOMAIN y = GroupsOf(kind, data, e, k) /\ \A g : At(y, g) \in Int
    BY <1>1, <2>1, KnowsInt
  <2>5. DOMAIN x \cup DOMAIN y = GroupsUpTo(kind, data, e, k)
    BY <1>1, <2>2, <2>4, GroupsStep
  <2>6. ASSUME NEW g \in GroupsUpTo(kind, data, e, k)
        PROVE  p.vals[s][g] = Together(kind, data, e, k, s, g) + Share(e, g, mask[e][s])
    <3>1. /\ Together(kind, data, e, k, s, g)
               = Together(kind, data, e, k - 1, s, g) + At(y, g)
          /\ Together(kind, data, e, k - 1, s, g) \in Int
      BY <1>1, <2>1, TogetherStep
    <3>2. p.vals[s][g] = At(x, g) + At(y, g) + 0
      <4> HIDE DEF p, x, y
      <4>. QED  BY <2>3, <2>5
    <3>3. Share(e, g, mask[e][s]) \in Int
      BY DEF Share
    <3>4. At(x, g) = Together(kind, data, e, k - 1, s, g) + Share(e, g, mask[e][s])
      <4>1. CASE g \in GroupsUpTo(kind, data, e, k - 1)
        BY <2>2, <4>1 DEF At, Carries
      <4>2. CASE g \notin GroupsUpTo(kind, data, e, k - 1)
        <5>1. Together(kind, data, e, k - 1, s, g) = 0
          BY <1>1, <2>1, <4>2, TogetherNothing
        <5>2. g \notin GroupsOf(kind, data, e, 1)
          BY <1>1, <4>2, NAssumption DEF GroupsUpTo
        <5>3. ~ Masked(e, g)
          <6>1. Grouping(e)
            BY <2>6, <5>2 DEF Grouping, GroupsOf, GroupsUpTo
          <6>. QED  BY <5>2, <6>1 DEF Masked, Grouping, GroupsOf
        <5>. QED  BY <2>2, <4>2, <5>1, <5>3 DEF At, Share
      <4>. QED  BY <4>1, <4>2
    <3> HIDE DEF p, x, y
    <3>. QED  BY <2>4, <3>1, <3>2, <3>3, <3>4
  <2>. QED  BY <2>3, <2>5, <2>6
<1> HIDE DEF p
<1>6. Carries(e, k, p, mask[e])
  BY <1>2, <1>3, <1>4, <1>5 DEF Carries
<1>. QED  BY <1>6 DEF p

\* What a worker passes on is what the ones before it know and what it adds.
LEMMA CarriedKept ==
    ASSUME Shape, InOrder, Drawn, Carried, NEW j \in Jobs, JobStep(j)
    PROVE  Carried'
<1>1. size' = size /\ kind' = kind /\ data' = data
  BY Moves
<1>2. /\ Used' = Used
      /\ \A e : Stats(e)' = Stats(e) /\ Grouping(e)' = Grouping(e) /\ Noised(e)' = Noised(e)
      /\ \A e, g : Masked(e, g)' = Masked(e, g)
  BY <1>1, Fixed
<1>3. Drawn'
  BY DrawnKept
<1>4. ASSUME NEW e \in Used, exec'[<<e, 0>>].pc \in {"ran", "storing", "done"}
      PROVE  product'[<<e, 0>>] = Started(e)'
  <2>1. <<e, 0>> \in Jobs
    BY SizeIs, JobOf
  <2>2. CASE Ran(<<e, 0>>)
    <3>1. product'[<<e, 0>>] = product[<<e, 0>>]
      BY <2>1, <2>2, Moves
    <3>2. mask'[e] = mask[e]
      BY <2>2, MaskStays
    <3>3. Started(e)' = Started(e)
      BY <1>2, <3>2 DEF Started
    <3>. QED  BY <2>2, <3>1, <3>3 DEF Carried
  <2>3. CASE ~ Ran(<<e, 0>>)
    <3>1. j = <<e, 0>> /\ ExecInit(j) /\ j[1] = e
      BY <1>4, <2>3, FirstRuns
    <3>2. product'[j] = InitProduct(e)
      BY <3>1 DEF ExecInit, Shape
    <3>3. InitProduct(e) = Started(e)'
      BY <1>2 DEF InitProduct, Started
    <3>. QED  BY <3>1, <3>2, <3>3
  <2>. QED  BY <2>2, <2>3
<1>5. ASSUME NEW e \in Used, NEW k \in 1 .. size, Carries(e, k, product'[<<e, k>>], mask'[e])
      PROVE  Carries(e, k, product[<<e, k>>], mask[e])'
  BY <1>1, <1>2, <1>5 DEF Carries, Share
<1>6. ASSUME NEW e \in Used, NEW k \in 1 .. size, exec'[<<e, k>>].pc \in {"ran", "storing", "done"}
      PROVE  Carries(e, k, product'[<<e, k>>], mask'[e])
  <2> DEFINE i == <<e, k>>
             q == <<e, k - 1>>
  <2>1. i \in Jobs /\ i[1] = e /\ i[2] = k /\ q \in Jobs /\ <<e, 0>> \in Jobs
    BY SizeIs DEF Jobs
  <2>2. CASE Ran(i)
    <3>1. product'[i] = product[i]
      BY <2>1, <2>2, Moves
    <3>2. Ran(<<e, 0>>)
      <4>1. Reached(i) /\ i[2] > 0
        BY <2>1, <2>2, SizeIs DEF Reached, Ran
      <4>. QED  BY <2>1, <4>1 DEF InOrder, Ran
    <3>3. Carries(e, k, product[i], mask[e])
      BY <2>2 DEF Carried
    <3>4. mask'[e] = mask[e]
      BY <3>2, MaskStays
    <3>. QED  BY <3>1, <3>3, <3>4
  <2>3. CASE ~ Ran(i)
    <3>1. i = j
      <4>1. exec'[i].pc \in {"ran", "storing", "done"} /\ ~ Ran(i) /\ i \in Jobs
        BY <1>6, <2>1, <2>3
      <4> HIDE DEF i
      <4>. QED  BY <4>1, OnlyOneRuns
    <3>2. exec[j].pc = "loaded" /\ (ExecInit(j) \/ ExecWork(j) \/ ExecClean(j))
      BY <1>6, <2>3, <3>1, Moves
    <3>3. ~ ExecInit(j) /\ ~ ExecClean(j)
      BY <2>1, <3>1, SizeIs DEF ExecInit, ExecClean
    <3>4. product'[j] = Work(e, k, product[q]) /\ Noised(e) \subseteq DOMAIN product[q].noise
      <4>1. ExecWork(j) /\ j[1] = e /\ j[2] = k /\ exec'[j].pc # "error"
        BY <1>6, <2>1, <3>1, <3>2, <3>3
      <4>2. <<j[1], j[2] - 1>> = q
        BY <4>1
      <4>3. ~ Fails(j)
        <5>1. Fails(j) => exec'[j] = [NewExec EXCEPT !.pc = "error"]
          BY DEF Fails, Shape
        <5>. QED  BY <4>1, <5>1 DEF NewExec
      <4> HIDE DEF q
      <4>. QED  BY <4>1, <4>2, <4>3 DEF ExecWork, Shape
    <3>5. exec[q].pc = "done" /\ exec[<<e, 0>>].pc = "done"
      BY <2>1, <3>1, <3>2, SizeIs DEF InOrder, Reached
    <3>6. Ran(q) /\ Ran(<<e, 0>>)
      BY <3>5 DEF Ran
    <3>7. /\ data \in DataSets
          /\ \A s \in Stats(e) : mask[e][s] \in Int /\ (Grouping(e) => mask[e][s] # 0)
      BY <3>6, MaskInt DEF Shape
    <3>8. Carries(e, k, product'[i], mask[e])
      <4>1. CASE k = 1
        BY <3>1, <3>4, <3>6, <3>7, <4>1, FirstWork DEF Carried
      <4>2. CASE k # 1
        <5>1. k \in 2 .. N /\ k - 1 \in 1 .. size
          BY <4>2, SizeIs
        <5>2. Carries(e, k - 1, product[q], mask[e])
          BY <3>6, <5>1 DEF Carried
        <5> HIDE DEF q, i
        <5>. QED  BY <3>1, <3>4, <3>7, <5>1, <5>2, NextWork
      <4>. QED  BY <4>1, <4>2
    <3>9. mask'[e] = mask[e]
      BY <3>6, MaskStays
    <3>. QED  BY <3>8, <3>9
  <2>. QED  BY <2>2, <2>3
<1>7. \A e \in Used : Ran(<<e, 0>>)' => product'[<<e, 0>>] = Started(e)'
  BY <1>4 DEF Ran
<1>8. \A e \in Used, k \in 1 .. size : Ran(<<e, k>>)' => Carries(e, k, product[<<e, k>>], mask[e])'
  BY <1>5, <1>6 DEF Ran
<1>. QED  BY <1>1, <1>2, <1>7, <1>8 DEF Carried

-----------------------------------------------------------------------------
(* The file that the executions of a component share. *)

\* The local variables of an estimator have different names.
LEMMA SecretOne ==
    ASSUME NEW e, NEW s \in Stats(e)
    PROVE  (CHOOSE t \in Stats(e) : Secret(e, t) = Secret(e, s)) = s
<1>1. \A t \in Stats(e) : Secret(e, t) = Secret(e, s) => t = s
  BY DEF Stats, Secret
<1>. QED  BY <1>1

\* The local variables that are found after a step other than ExecInit were there before.
LEMMA LocalsMove ==
    ASSUME Shape, NEW j \in Jobs, JobStep(j), ~ ExecInit(j), NEW i \in Jobs
    PROVE  exec'[i].locals \in {<< >>, exec[i].locals, disk[Component(i)].locals}
<1>1. CASE i # j
  BY <1>1, Moves
<1>2. CASE i = j
  BY <1>2 DEF Shape, JobStep, Load, ExecWork, ExecClean, StoreOpen, StoreEnd, Fails, NewExec
<1>. QED  BY <1>1, <1>2

\* What is kept under the name of a mask is that mask, when no estimator shares the name.
LEMMA KeptKept ==
    ASSUME Shape, Kept, NEW j \in Jobs, JobStep(j)
    PROVE  Kept'
<1>1. /\ kind' = kind /\ Used' = Used /\ Jobs' = Jobs
      /\ \A e : Stats(e)' = Stats(e) /\ Apart(e)' = Apart(e)
      /\ \A e, s : Secret(e, s)' = Secret(e, s)
  BY Moves, Fixed
<1>2. ASSUME NEW e \in Used, NEW L, Faithful(e, L, exec[<<e, 0>>].pc, mask[e])
      PROVE  Faithful(e, L, exec'[<<e, 0>>].pc, mask'[e])
  <2>1. CASE Ran(<<e, 0>>)
    BY <1>2, <2>1, MaskStays DEF Faithful
  <2>2. CASE ~ Ran(<<e, 0>>)
    BY <1>2, <2>2 DEF Faithful, Ran
  <2>. QED  BY <2>1, <2>2
<1>3. ASSUME NEW e \in Used, Apart(e)
      PROVE  /\ \A i \in Jobs : Faithful(e, exec'[i].locals, exec'[<<e, 0>>].pc, mask'[e])
             /\ \A c \in 0 .. N : Faithful(e, disk'[c].locals, exec'[<<e, 0>>].pc, mask'[e])
  <2>1. \A c \in 0 .. N : Faithful(e, disk'[c].locals, exec[<<e, 0>>].pc, mask[e])
    BY <1>3, DiskMoves DEF Kept
  <2>2. \A c \in 0 .. N : Faithful(e, disk'[c].locals, exec'[<<e, 0>>].pc, mask'[e])
    BY <1>2, <2>1
  <2>3. CASE ~ ExecInit(j)
    <3>1. ASSUME NEW i \in Jobs
          PROVE  Faithful(e, exec'[i].locals, exec[<<e, 0>>].pc, mask[e])
      <4>1. Faithful(e, << >>, exec[<<e, 0>>].pc, mask[e])
        BY DEF Faithful
      <4>2. Component(i) \in 0 .. N
        BY JobParts, SizeIs DEF Component
      <4>. QED  BY <1>3, <2>3, <4>1, <4>2, LocalsMove DEF Kept
    <3>. QED  BY <1>2, <2>2, <3>1
  <2>4. CASE ExecInit(j)
    <3>1. ASSUME NEW i \in Jobs \ {j}
          PROVE  Faithful(e, exec'[i].locals, exec'[<<e, 0>>].pc, mask'[e])
      <4>1. Faithful(e, exec'[i].locals, exec[<<e, 0>>].pc, mask[e])
        BY <1>3, Moves DEF Kept
      <4>. QED  BY <1>2, <4>1
    <3>2. Faithful(e, exec'[j].locals, exec'[<<e, 0>>].pc, mask'[e])
      <4> DEFINE f == j[1]
                 old == exec[j].locals
                 value(v) == mask'[f][CHOOSE s \in Stats(f) : Secret(f, s) = v]
                 new == [v \in DOMAIN old \cup Secrets(f) |->
                            IF v \in Secrets(f) THEN value(v) ELSE old[v]]
      <4>1. exec'[j] = [pc |-> "ran", locals |-> new]
        BY <2>4 DEF ExecInit, Shape
      <4>2. f \in Used /\ j = <<f, 0>> /\ j[2] = 0
        BY <2>4, JobParts DEF ExecInit
      <4>3. CASE e = f
        <5>1. ASSUME NEW s \in Stats(e)
              PROVE  new[Secret(e, s)] = mask'[e][s]
          <6>1. Secret(e, s) \in Secrets(f)
            BY <4>3 DEF Secrets
          <6>2. new[Secret(e, s)] = value(Secret(e, s))
            <7> HIDE DEF value, old
            <7>. QED  BY <6>1
          <6>3. (CHOOSE t \in Stats(f) : Secret(f, t) = Secret(e, s)) = s
            BY <4>3, SecretOne
          <6>. QED  BY <4>3, <6>2, <6>3
        <5>2. exec'[<<e, 0>>].pc = "ran"
          BY <4>1, <4>2, <4>3
        <5> HIDE DEF new
        <5>. QED  BY <1>1, <4>1, <5>1, <5>2 DEF Faithful, Ran
      <4>4. CASE e # f
        <5>1. Faithful(e, old, exec[<<e, 0>>].pc, mask[e])
          BY <1>3 DEF Kept
        <5>2. ASSUME NEW s \in Stats(e), Secret(e, s) \in DOMAIN new
              PROVE  Secret(e, s) \in DOMAIN old /\ new[Secret(e, s)] = old[Secret(e, s)]
          <6>1. Secret(e, s) \notin Secrets(f)
            BY <1>3, <4>2, <4>4 DEF Apart, Secrets
          <6> HIDE DEF value, old
          <6>. QED  BY <5>2, <6>1
        <5>3. Faithful(e, new, exec[<<e, 0>>].pc, mask[e])
          <6> HIDE DEF new, old
          <6>. QED  BY <5>1, <5>2 DEF Faithful
        <5>4. Faithful(e, exec'[j].locals, exec[<<e, 0>>].pc, mask[e])
          <6> HIDE DEF new
          <6>. QED  BY <4>1, <5>3
        <5>. QED  BY <1>2, <5>4
      <4>. QED  BY <4>3, <4>4
    <3>. QED  BY <2>2, <3>1, <3>2
  <2>. QED  BY <2>3, <2>4
<1>4. \A e \in Used : Apart(e) =>
         /\ \A i \in Jobs : Faithful(e, exec[i].locals, exec[<<e, 0>>].pc, mask[e])'
         /\ \A c \in 0 .. N : Faithful(e, disk[c].locals, exec[<<e, 0>>].pc, mask[e])'
  BY <1>1, <1>3 DEF Faithful
<1>. QED  BY <1>1, <1>4 DEF Kept

-----------------------------------------------------------------------------
(* The result. *)

\* The last job takes off what it has loaded.
LEMMA CleanedKept ==
    ASSUME Shape, InOrder, Drawn, Carried, Kept, Cleaned, NEW j \in Jobs, JobStep(j)
    PROVE  Cleaned'
<1>1. size' = size /\ kind' = kind /\ data' = data
  BY Moves
<1>2. /\ Used' = Used
      /\ \A e : Stats(e)' = Stats(e) /\ Grouping(e)' = Grouping(e) /\ Apart(e)' = Apart(e)
      /\ \A e, g : Masked(e, g)' = Masked(e, g)
      /\ \A e : Last(e)' = Last(e)
  BY <1>1, Fixed
<1>3. ASSUME NEW e \in Used, exec'[Last(e)].pc \in {"ran", "storing", "done"},
             NEW s \in Stats(e)
      PROVE  /\ mask'[e] = mask[e]
             /\ DOMAIN product'[Last(e)].vals = Stats(e)
             /\ DOMAIN product'[Last(e)].noise = {}
             /\ DOMAIN product'[Last(e)].vals[s] = GroupsUpTo(kind, data, e, size)
             /\ Apart(e) => \A g \in GroupsUpTo(kind, data, e, size) :
                  product'[Last(e)].vals[s][g]
                     = (Together(kind, data, e, size, s, g) + Share(e, g, mask[e][s])) - mask[e][s]
  <2> DEFINE i == Last(e)
             q == <<e, size>>
  <2>1. /\ i \in Jobs /\ i[1] = e /\ i[2] = size + 1 /\ i = <<e, size + 1>>
        /\ q \in Jobs /\ <<e, 0>> \in Jobs /\ size \in 1 .. size
    BY SizeIs DEF Jobs, Last
  <2>2. Reached(i) \/ (i = j /\ Reached(j))
    BY <1>3, <2>1, Moves DEF Reached, Ran
  <2>3. exec[q].pc = "done" /\ exec[<<e, 0>>].pc = "done"
    <3>1. size + 1 > 0 /\ <<e, (size + 1) - 1>> = q
      BY SizeIs
    <3>. QED  BY <2>1, <2>2, <3>1 DEF InOrder
  <2>4. Ran(q) /\ Ran(<<e, 0>>)
    BY <2>3 DEF Ran
  <2>5. mask'[e] = mask[e]
    BY <2>4, MaskStays
  <2>7. CASE Ran(i)
    <3>1. product'[i] = product[i]
      BY <2>1, <2>7, Moves
    <3>. QED  BY <2>5, <2>7, <3>1 DEF Cleaned
  <2>8. CASE ~ Ran(i)
    <3>0. Last(e) = i
      OBVIOUS
    <3>1. i = j
      <4>1. exec'[i].pc \in {"ran", "storing", "done"} /\ ~ Ran(i) /\ i \in Jobs
        BY <1>3, <2>1, <2>8
      <4> HIDE DEF i
      <4>. QED  BY <4>1, OnlyOneRuns
    <3>2. ExecInit(j) \/ ExecWork(j) \/ ExecClean(j)
      BY <1>3, <2>8, <3>1, Moves
    <3>3. ~ ExecInit(j) /\ ~ ExecWork(j)
      BY <2>1, <3>1, SizeIs DEF ExecInit, ExecWork
    <3>4. ExecClean(j)
      BY <3>2, <3>3
    <3> DEFINE in == product[q]
               L == exec[j].locals
    <3>5. Secrets(e) \subseteq DOMAIN L
      BY <1>3, <2>1, <3>1, <3>4 DEF ExecClean, Fails, Shape, NewExec
    <3>6. product'[j] = Clean(e, in, L)
      BY <2>1, <3>1, <3>4, <3>5 DEF ExecClean, Shape
    <3>7. Carries(e, size, in, mask[e])
      BY <2>1, <2>4 DEF Carried
    <3> HIDE DEF in, L
    <3>8. /\ DOMAIN product'[j].vals = Stats(e)
          /\ DOMAIN product'[j].noise = {}
          /\ product'[j].vals[s] = [g \in DOMAIN in.vals[s] |->
                                        in.vals[s][g] - L[Secret(e, s)]]
      BY <3>6 DEF Clean
    <3>9. DOMAIN in.vals[s] = GroupsUpTo(kind, data, e, size)
      BY <3>7 DEF Carries
    <3>10. Apart(e) => L[Secret(e, s)] = mask[e][s]
      <4>1. Secret(e, s) \in DOMAIN L
        BY <3>5 DEF Secrets
      <4>2. Apart(e) => Faithful(e, L, exec[<<e, 0>>].pc, mask[e])
        BY <2>1, <3>1 DEF Kept, L
      <4>. QED  BY <4>1, <4>2 DEF Faithful
    <3>11. \A g \in GroupsUpTo(kind, data, e, size) :
              in.vals[s][g] = Together(kind, data, e, size, s, g) + Share(e, g, mask[e][s])
      BY <3>7 DEF Carries
    <3> HIDE DEF i, q
    <3>12. product'[Last(e)] = product'[j]
      BY <3>0, <3>1
    <3>13. DOMAIN product'[j].vals[s] = GroupsUpTo(kind, data, e, size)
      BY <3>8, <3>9
    <3>14. ASSUME Apart(e), NEW g \in GroupsUpTo(kind, data, e, size)
           PROVE  product'[j].vals[s][g] = (Together(kind, data, e, size, s, g)
                                  + Share(e, g, mask[e][s])) - mask[e][s]
      <4>1. product'[j].vals[s][g] = in.vals[s][g] - L[Secret(e, s)]
        BY <3>8, <3>9, <3>14
      <4>2. in.vals[s][g] = Together(kind, data, e, size, s, g) + Share(e, g, mask[e][s])
        BY <3>11, <3>14
      <4>3. L[Secret(e, s)] = mask[e][s]
        BY <3>10, <3>14
      <4>. QED  BY <4>1, <4>2, <4>3
    <3>. QED  BY <2>5, <3>8, <3>12, <3>13, <3>14
  <2>. QED  BY <2>7, <2>8
<1>4. ASSUME NEW e \in Used, Ran(Last(e))'
      PROVE  /\ DOMAIN product'[Last(e)].vals = Stats(e)
             /\ DOMAIN product'[Last(e)].noise = {}
             /\ \A s \in Stats(e) :
                  /\ DOMAIN product'[Last(e)].vals[s] = GroupsUpTo(kind, data, e, size)
                  /\ Apart(e) => \A g \in GroupsUpTo(kind, data, e, size) :
                        product'[Last(e)].vals[s][g]
                           = (Together(kind, data, e, size, s, g)
                               + Share(e, g, mask'[e][s])) - mask'[e][s]
  <2>1. exec'[Last(e)].pc \in {"ran", "storing", "done"}
    BY <1>2, <1>4 DEF Ran
  <2>2. \E s : s \in Stats(e)
    BY DEF Stats
  <2>. QED  BY <1>3, <2>1, <2>2
<1>5. \A e, g, m : Share(e, g, m)' = Share(e, g, m)
  BY <1>2 DEF Share
<1>. QED  BY <1>1, <1>2, <1>4, <1>5 DEF Cleaned, Share

-----------------------------------------------------------------------------
(* The theorems. *)

\* Nothing has run at first.
LEMMA InitInvariant == Init => IInv
<1> SUFFICES ASSUME Init PROVE IInv
  OBVIOUS
<1>1. Shape
  <2>1. size \in 1 .. N /\ data \in DataSets /\ DOMAIN exec = Jobs /\ DOMAIN product = Jobs
        /\ DOMAIN mask = Used /\ DOMAIN disk = 0 .. N
    BY DEF Init
  <2>2. \A j \in Jobs : exec[j] = NewExec
    BY DEF Init
  <2>3. \A c \in 0 .. N : disk[c] = NoLocals
    BY DEF Init
  <2>4. DOMAIN NewExec = {"pc", "locals"} /\ NewExec.pc \in PCs
    BY DEF NewExec, PCs
  <2>5. DOMAIN NoLocals = {"torn", "locals"} /\ NoLocals.torn \in BOOLEAN
    BY DEF NoLocals
  <2>. QED  BY <2>1, <2>2, <2>3, <2>4, <2>5 DEF Shape
<1>2. \A j \in Jobs : exec[j].pc = "waiting" /\ exec[j].locals = << >> /\ product[j] = NoProduct
  <2>1. \A j \in Jobs : exec[j] = NewExec /\ product[j] = NoProduct
    BY DEF Init
  <2>. QED  BY <2>1 DEF NewExec
<1>3. ASSUME NEW e \in Used, NEW k \in 0 .. size + 1
      PROVE  ~ Ran(<<e, k>>)
  <2>1. exec[<<e, k>>].pc = "waiting"
    BY <1>2, JobOf
  <2>. QED  BY <2>1 DEF Ran
<1>4. InOrder
  BY <1>2 DEF InOrder, Reached, Ran
<1>5. Drawn /\ Carried
  BY <1>1, <1>3, SizeIs DEF Drawn, Carried
<1>6. Kept
  <2>1. \A c \in 0 .. N : disk[c].locals = << >>
    BY DEF Init, NoLocals
  <2>. QED  BY <1>2, <2>1 DEF Kept, Faithful
<1>7. Cleaned
  BY <1>1, <1>3, SizeIs DEF Cleaned, Last
<1>. QED  BY <1>1, <1>4, <1>5, <1>6, <1>7 DEF IInv

\* Every step keeps the invariant.
LEMMA NextInvariant == IInv /\ [Next]_vars => IInv'
<1> SUFFICES ASSUME IInv, [Next]_vars PROVE IInv'
  OBVIOUS
<1> USE DEF IInv
<1>1. ASSUME NEW j \in Jobs, JobStep(j)
      PROVE  IInv'
  BY <1>1, ShapeKept, InOrderKept, DrawnKept, CarriedKept, KeptKept, CleanedKept
<1>2. CASE UNCHANGED vars
  <2>1. size' = size /\ kind' = kind /\ data' = data /\ mask' = mask /\ disk' = disk /\ exec' = exec
        /\ product' = product
    BY <1>2 DEF vars
  <2>2. /\ Used' = Used /\ Jobs' = Jobs
        /\ \A e : Stats(e)' = Stats(e) /\ Grouping(e)' = Grouping(e) /\ Apart(e)' = Apart(e)
        /\ \A e : Noised(e)' = Noised(e) /\ Last(e)' = Last(e)
        /\ \A e, s : Secret(e, s)' = Secret(e, s)
        /\ \A e, g : Masked(e, g)' = Masked(e, g)
    BY <2>1, Fixed
  <2>3. Shape' /\ InOrder' /\ Drawn'
    BY <2>1, <2>2 DEF Shape, InOrder, Drawn, Reached, Ran
  <2>4. Carried'
    BY <2>1, <2>2 DEF Carried, Carries, Started, Share, Ran
  <2>5. Kept'
    BY <2>1, <2>2 DEF Kept, Faithful
  <2>6. Cleaned'
    BY <2>1, <2>2 DEF Cleaned, Share, Ran
  <2>. QED  BY <2>3, <2>4, <2>5, <2>6
<1>. QED  BY <1>1, <1>2 DEF Next

\* The inductive invariant holds in every execution.
LEMMA Invariant == Spec => []IInv
BY InitInvariant, NextInvariant, PTL DEF Spec

\* Every job is in a state of its own, and a product that is stored has the statistics
\* of its estimator (task.run, Environment.store).
THEOREM Typed == Spec => []TypeOK
<1>1. IInv => TypeOK
  <2> SUFFICES ASSUME IInv PROVE TypeOK
    OBVIOUS
  <2>1. ASSUME NEW j \in Jobs, product[j] # NoProduct
        PROVE  DOMAIN product[j].vals = Stats(j[1])
               /\ DOMAIN product[j].noise \subseteq Noised(j[1])
    <3>1. Ran(j) /\ j[1] \in Used /\ j = <<j[1], j[2]>>
      BY <2>1, JobParts DEF IInv, InOrder
    <3>2. CASE j[2] = 0
      <4>1. product[j] = Started(j[1])
        BY <3>1, <3>2 DEF IInv, Carried
      <4>. QED  BY <4>1 DEF Started
    <3>3. CASE j[2] \in 1 .. size
      <4>1. Carries(j[1], j[2], product[j], mask[j[1]])
        BY <3>1, <3>3 DEF IInv, Carried
      <4>2. DOMAIN product[j].noise = IF j[2] = 1 THEN Noised(j[1]) ELSE {}
        BY <4>1 DEF Carries
      <4>3. DOMAIN product[j].noise \subseteq Noised(j[1])
        BY <4>2
      <4>. QED  BY <4>1, <4>3 DEF Carries
    <3>4. CASE j[2] = size + 1
      BY <3>1, <3>4 DEF IInv, Cleaned, Last
    <3>. QED  BY <3>2, <3>3, <3>4, JobParts, SizeIs DEF IInv
  <2>. QED  BY <2>1 DEF IInv, Shape, TypeOK, PCs
<1>. QED  BY <1>1, Invariant, PTL

\* The mask is carried exactly once: whatever the data and the races for the file, what a
\* worker passes on, if it does not fail, is what the workers so far know, with the mask in
\* the groups that the first worker has seen and only there.  Of a grouping estimator these
\* are the first two workers: the third fails.
THEOREM CarriedOnce == Spec => []MaskCarriedOnce
<1>1. IInv => MaskCarriedOnce
  <2> SUFFICES ASSUME IInv, NEW e \in Used, NEW k \in 1 .. size, product[<<e, k>>] # NoProduct,
                      NEW s \in Stats(e), NEW g \in DOMAIN product[<<e, k>>].vals[s]
               PROVE  product[<<e, k>>].vals[s][g]
                         = Sum(e, k, s, g) + (IF Masked(e, g) THEN mask[e][s] ELSE 0)
    BY DEF MaskCarriedOnce
  <2>1. k \in 0 .. N /\ k \in 1 .. N /\ <<e, k>> \in Jobs
    BY SizeIs DEF IInv, Jobs
  <2>2. Ran(<<e, k>>)
    BY <2>1 DEF IInv, InOrder
  <2>3. Carries(e, k, product[<<e, k>>], mask[e])
    BY <2>2 DEF IInv, Carried
  <2>4. Sum(e, k, s, g) = Together(kind, data, e, k, s, g)
    BY <2>1, SumIs, StatsAre DEF IInv, Shape
  <2>. QED  BY <2>3, <2>4 DEF Carries, Share
<1>. QED  BY <1>1, Invariant, PTL

\* A grouping estimator has no result in a project of more than two workers.  And an
\* estimator whose local variables have names of their own gives the exact result, in
\* every group that was masked, or none at all, however the estimators that load and
\* store the same file interleave; a group that was not masked comes out wrong.
THEOREM ExactResults == Spec => []ExactOrNothing
<1>1. IInv => ExactOrNothing
  <2> SUFFICES ASSUME IInv, NEW e \in Used, exec[Last(e)].pc = "done"
               PROVE  /\ Grouping(e) => size <= 2
                      /\ Apart(e) => \A s \in Stats(e) : \A g \in DOMAIN product[Last(e)].vals[s] :
                            Masked(e, g) <=> product[Last(e)].vals[s][g] = Sum(e, size, s, g)
    BY DEF ExactOrNothing
  <2>1. size \in 0 .. N /\ size \in 1 .. size /\ size \in 1 .. N /\ <<e, size + 1>> \in Jobs
    BY SizeIs DEF IInv, Jobs
  <2>2. Ran(Last(e)) /\ Reached(<<e, size + 1>>)
    BY DEF Ran, Reached, Last
  <2>3. <<e, size>> \in Jobs /\ exec[<<e, size>>].pc = "done" /\ exec[<<e, 0>>].pc = "done"
    <3>1. /\ <<e, size + 1>>[1] = e /\ <<e, size + 1>>[2] > 0
          /\ <<e, (size + 1) - 1>> = <<e, size>> /\ <<e, size>> \in Jobs
      BY SizeIs DEF IInv, Jobs
    <3>. QED  BY <2>1, <2>2, <3>1 DEF IInv, InOrder
  <2>4. Ran(<<e, size>>) /\ Ran(<<e, 0>>)
    BY <2>3 DEF Ran
  <2>5. Grouping(e) => size <= 2
    <3>1. Carries(e, size, product[<<e, size>>], mask[e])
      BY <2>1, <2>4 DEF IInv, Carried
    <3>. QED  BY <3>1 DEF Carries
  <2>6. ASSUME Apart(e), NEW s \in Stats(e), NEW g \in DOMAIN product[Last(e)].vals[s]
        PROVE  Masked(e, g) <=> product[Last(e)].vals[s][g] = Sum(e, size, s, g)
    <3>1. g \in GroupsUpTo(kind, data, e, size)
          /\ product[Last(e)].vals[s][g]
               = (Together(kind, data, e, size, s, g) + Share(e, g, mask[e][s])) - mask[e][s]
      BY <2>2, <2>6 DEF IInv, Cleaned
    <3>2. Sum(e, size, s, g) = Together(kind, data, e, size, s, g)
      BY <2>1, SumIs, StatsAre DEF IInv, Shape
    <3>3. Together(kind, data, e, size, s, g) \in Int
      BY <2>1, TogetherStep, StatsAre DEF IInv, Shape
    <3>4. mask[e][s] \in Int /\ (Grouping(e) => mask[e][s] # 0)
      BY <2>4, MaskInt DEF IInv
    <3>5. ~ Masked(e, g) => Grouping(e)
      BY DEF Masked
    <3>. QED  BY <3>1, <3>2, <3>3, <3>4, <3>5 DEF Share
  <2>. QED  BY <2>5, <2>6
<1>. QED  BY <1>1, Invariant, PTL

\* Every group that some worker knows is in the result, when there is one.
THEOREM NoGroupLost == Spec => []AllGroups
<1>1. IInv => AllGroups
  <2> SUFFICES ASSUME IInv, NEW e \in Used, exec[Last(e)].pc = "done",
                      NEW s \in Stats(e), NEW w \in 1 .. size
               PROVE  DOMAIN Own(e, w, s) \subseteq DOMAIN product[Last(e)].vals[s]
    BY DEF AllGroups
  <2>1. Own(e, w, s) = Knows(kind, data, e, w, s)
    <3>1. w \in 1 .. N
      BY SizeIs DEF IInv
    <3>. QED  BY <3>1, OwnIs, StatsAre DEF IInv, Shape
  <2>2. DOMAIN Own(e, w, s) \subseteq GroupsUpTo(kind, data, e, size)
    BY <2>1 DEF Knows, GroupsUpTo
  <2>3. Ran(Last(e))
    BY DEF Ran
  <2>. QED  BY <2>2, <2>3 DEF IInv, Cleaned
<1>. QED  BY <1>1, Invariant, PTL
=============================================================================
