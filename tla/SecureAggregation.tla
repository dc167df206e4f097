-------------------------- MODULE SecureAggregation --------------------------
(***************************************************************************)
(* The estimators (core/estimators) as Sequential runs them: the initiator    *)
(* masks an empty result and keeps the mask, every worker in turn adds what   *)
(* it knows, the initiator takes the mask away.  The mask is kept in a local  *)
(* variable of the Environment (core/environment.py), in a file that all the  *)
(* executions of a component share in an iteration of an artifact; several    *)
(* estimators of an artifact are not ordered among each other.                *)
(*                                                                           *)
(* A statistic is a function from groups to integers; the estimators that do  *)
(* not group have the one group "all".  A mean is kept as its sum and count.  *)
(* A product has the keys that its execution has set: the noise is one of     *)
(* them, and whoever looks for it where it was not set again fails.           *)
(***************************************************************************)
EXTENDS Integers, FiniteSets, FiniteSetsExt

CONSTANTS
    Estimators,  \* the estimators of an artifact
    Artifacts,     \* which of them are used, and their kinds: functions to a kind
    N,           \* the workers are 1 .. N; those of a project are the first ones
    DataSets,    \* worker -> group -> statistic -> what its own data amounts to
    Masks,       \* the random values of Count and Mean
    Noises       \* the random values of GroupCount and GroupMean, below zero

ASSUME NAssumption == N \in Nat \ {0}
ASSUME NoiseAssumption == Noises \subseteq Int \ {0}
ASSUME MaskAssumption == Masks \subseteq Int
\* a data frame has finitely many groups
ASSUME DataAssumption ==
    \A d \in DataSets, w \in 1 .. N :
        /\ IsFiniteSet(DOMAIN d[w])
        /\ \A g \in DOMAIN d[w], s \in {"sum", "num"} : d[w][g][s] \in Int

VARIABLES
    size,     \* how many workers the project has
    kind,     \* estimator -> its kind, for those that are used
    data,
    mask,     \* estimator -> statistic -> the random value that was drawn
    disk,     \* component -> its local.pkl: the local variables, or torn
    exec,     \* job -> its execution
    product   \* job -> what its execution has stored

vars == <<size, kind, data, mask, disk, exec, product>>

Used == DOMAIN kind
Grouping(e) == kind[e] \in {"GroupCount", "GroupMean"}
Stats(e) == IF kind[e] \in {"Count", "GroupCount"} THEN {"num"} ELSE {"sum", "num"}

\* the name of the local variable that keeps the mask of a statistic
Secret(e, s) ==
    IF kind[e] \in {"Count", "GroupCount"} THEN ".init_value"
    ELSE IF s = "sum" THEN ".init_sum"
    ELSE IF kind[e] = "Mean" THEN ".init_count" ELSE ".init_num"
Secrets(e) == {Secret(e, s) : s \in Stats(e)}

\* Sequential: job 0 and the last job on the initiator (component 0), job k on worker k
Jobs == Used \X (0 .. size + 1)
Component(j) == IF j[2] = size + 1 THEN 0 ELSE j[2]
Last(e) == <<e, size + 1>>

-----------------------------------------------------------------------------
(* What the workers know                                                     *)

At(f, g) == IF g \in DOMAIN f THEN f[g] ELSE 0

Own(e, w, s) ==
    IF Grouping(e) THEN [g \in DOMAIN data[w] |-> data[w][g][s]]
    ELSE [g \in {"all"} |-> MapThenSumSet(LAMBDA h : data[w][h][s], DOMAIN data[w])]

\* what the first k workers know together
Sum(e, k, s, g) == MapThenSumSet(LAMBDA w : At(Own(e, w, s), g), 1 .. k)

-----------------------------------------------------------------------------
(* The operations of the estimators                                          *)

NoProduct == [vals |-> << >>, noise |-> << >>]

\* The statistics whose noise an operation reads: env[r]["noise"], or "noise_sum" and
\* "noise_num".
Noised(e) == IF Grouping(e) THEN Stats(e) ELSE {}

\* InitCounter, InitMean: the mask is the value everybody adds to; InitGroupCounter,
\* InitGroupMean: there are no groups yet, the mask travels as the noise.
InitProduct(e) ==
    [vals |-> [s \in Stats(e) |-> IF Grouping(e) THEN << >> ELSE [g \in {"all"} |-> mask'[e][s]]],
     noise |-> [s \in Noised(e) |-> mask'[e][s]]]

\* The noise goes to every group of the result.
Plus(x, y, noise) == [g \in DOMAIN x \cup DOMAIN y |-> At(x, g) + At(y, g) + noise]

\* A noise that is not 0 is set to 0; one that is 0 is not set again.
Spent(noise) == [s \in {t \in DOMAIN noise : noise[t] # 0} |-> 0]

\* Count, Mean, GroupCount, GroupMean.
\* Mutant: the noise is passed on as it came.
WorkNoiseAgain(e, w, in) ==
    [vals |-> [s \in Stats(e) |-> Plus(in.vals[s], Own(e, w, s), At(in.noise, s))],
     noise |-> in.noise]
\* Mutant: only the groups that came with the product are added up.
WorkIncoming(e, w, in) ==
    [vals |-> [s \in Stats(e) |->
        LET y == Own(e, w, s)
            known == IF At(in.noise, s) # 0 THEN DOMAIN y ELSE DOMAIN in.vals[s]
        IN  [g \in known |-> At(in.vals[s], g) + At(y, g) + At(in.noise, s)]],
     noise |-> Spent(in.noise)]
\* Mutant: the counts of a mean are not passed on.
WorkOneStat(e, w, in) ==
    [vals |-> [s \in {CHOOSE s \in Stats(e) : TRUE} |->
                  Plus(in.vals[s], Own(e, w, s), At(in.noise, s))],
     noise |-> Spent(in.noise)]
Work(e, w, in) ==
    [vals |-> [s \in Stats(e) |-> Plus(in.vals[s], Own(e, w, s), At(in.noise, s))],
     noise |-> Spent(in.noise)]

\* CleanCounter, CleanMean, CleanGroupCounter, CleanGroupMean: the mask is taken from
\* every group of the result.
\* Mutant: the count of a mean is cleaned with the mask of its sum.
CleanWithSum(e, in, locals) ==
    [vals |-> [s \in Stats(e) |-> [g \in DOMAIN in.vals[s] |->
                  in.vals[s][g] - locals[Secret(e, IF "sum" \in Stats(e) THEN "sum" ELSE s)]]],
     noise |-> << >>]
Clean(e, in, locals) ==
    [vals |-> [s \in Stats(e) |-> [g \in DOMAIN in.vals[s] |->
                  in.vals[s][g] - locals[Secret(e, s)]]],
     noise |-> << >>]

-----------------------------------------------------------------------------
(* Environment                                                               *)

NoLocals == [torn |-> FALSE, locals |-> << >>]

NewExec == [pc |-> "waiting", locals |-> << >>]

Fails(j) == exec' = [exec EXCEPT ![j] = [NewExec EXCEPT !.pc = "error"]]

\* __post_init__: what local.pkl holds, if it is there; a file that another execution has
\* just truncated does not load.
Load(j) ==
    /\ exec[j].pc = "waiting"
    /\ j[2] > 0 => exec[<<j[1], j[2] - 1>>].pc = "done"
    /\ IF disk[Component(j)].torn THEN Fails(j)
       ELSE exec' = [exec EXCEPT ![j] = [pc |-> "loaded", locals |-> disk[Component(j)].locals]]
    /\ UNCHANGED <<size, kind, data, mask, disk, product>>

\* task.run: the mask is drawn and set as a local variable, or taken from there.
ExecInit(j) ==
    /\ exec[j].pc = "loaded" /\ j[2] = 0
    /\ \E m \in [Stats(j[1]) -> IF Grouping(j[1]) THEN Noises ELSE Masks] :
          mask' = [mask EXCEPT ![j[1]] = m]
    /\ product' = [product EXCEPT ![j] = InitProduct(j[1])]
    /\ LET e == j[1]
           old == exec[j].locals
           value(v) == mask'[e][CHOOSE s \in Stats(e) : Secret(e, s) = v]
       IN  exec' = [exec EXCEPT ![j] =
              [pc |-> "ran",
               locals |-> [v \in DOMAIN old \cup Secrets(e) |->
                              IF v \in Secrets(e) THEN value(v) ELSE old[v]]]]
    /\ UNCHANGED <<size, kind, data, disk>>

\* A noise that is not in the product of the worker before is a KeyError.
ExecWork(j) ==
    /\ exec[j].pc = "loaded" /\ j[2] \in 1 .. size
    /\ LET in == product[<<j[1], j[2] - 1>>]
       IN  IF Noised(j[1]) \subseteq DOMAIN in.noise
           THEN /\ product' = [product EXCEPT ![j] = Work(j[1], j[2], in)]
                /\ exec' = [exec EXCEPT ![j].pc = "ran"]
           ELSE Fails(j) /\ UNCHANGED product
    /\ UNCHANGED <<size, kind, data, mask, disk>>

\* A mask that is not among the local variables is a KeyError.
ExecClean(j) ==
    /\ exec[j].pc = "loaded" /\ j[2] = size + 1
    /\ IF Secrets(j[1]) \subseteq DOMAIN exec[j].locals
       THEN /\ product' = [product EXCEPT ![j] =
                              Clean(j[1], product[<<j[1], size>>], exec[j].locals)]
            /\ exec' = [exec EXCEPT ![j].pc = "ran"]
       ELSE Fails(j) /\ UNCHANGED product
    /\ UNCHANGED <<size, kind, data, mask, disk>>

\* store: local.pkl is truncated, then written with everything that was loaded before.
StoreOpen(j) ==
    /\ exec[j].pc = "ran"
    /\ exec' = [exec EXCEPT ![j].pc = "storing"]
    /\ disk' = [disk EXCEPT ![Component(j)].torn = TRUE]
    /\ UNCHANGED <<size, kind, data, mask, product>>

\* Mutant: only the product is stored.
StoreNoLocals(j) ==
    /\ exec[j].pc = "storing"
    /\ exec' = [exec EXCEPT ![j] = [pc |-> "done", locals |-> << >>]]
    /\ disk' = [disk EXCEPT ![Component(j)] = NoLocals]
    /\ UNCHANGED <<size, kind, data, mask, product>>
StoreEnd(j) ==
    /\ exec[j].pc = "storing"
    /\ exec' = [exec EXCEPT ![j] = [pc |-> "done", locals |-> << >>]]
    /\ disk' = [disk EXCEPT ![Component(j)] = [torn |-> FALSE, locals |-> exec[j].locals]]
    /\ UNCHANGED <<size, kind, data, mask, product>>

-----------------------------------------------------------------------------
Init ==
    /\ size \in 1 .. N
    /\ kind \in Artifacts
    /\ data \in DataSets
    /\ mask = [e \in Used |-> << >>]
    /\ disk = [c \in 0 .. N |-> NoLocals]
    /\ exec = [j \in Jobs |-> NewExec]
    /\ product = [j \in Jobs |-> NoProduct]

JobStep(j) ==
    Load(j) \/ ExecInit(j) \/ ExecWork(j) \/ ExecClean(j) \/ StoreOpen(j) \/ StoreEnd(j)

Next == \E j \in Jobs : JobStep(j)

Spec == Init /\ [][Next]_vars /\ \A e \in Estimators, k \in 0 .. N + 1 :
                                    WF_vars(<<e, k>> \in Jobs /\ JobStep(<<e, k>>))

-----------------------------------------------------------------------------
TypeOK ==
    /\ size \in 1 .. N
    /\ \A j \in Jobs :
          /\ exec[j].pc \in {"waiting", "loaded", "ran", "storing", "done", "error"}
          /\ product[j] # NoProduct => /\ DOMAIN product[j].vals = Stats(j[1])
                                      /\ DOMAIN product[j].noise \subseteq Noised(j[1])
    /\ \A c \in 0 .. N : disk[c].torn \in BOOLEAN

\* The groups that the noise reaches are those the first worker has seen.
Masked(e, g) == ~Grouping(e) \/ g \in DOMAIN data[1]

\* The mask is carried exactly once: what a worker passes on is what the workers so far
\* know plus the mask, in every group the first worker has seen; a group that only a
\* later worker has seen travels without it.
MaskCarriedOnce ==
    \A e \in Used, k \in 1 .. size : product[<<e, k>>] # NoProduct =>
        \A s \in Stats(e) : \A g \in DOMAIN product[<<e, k>>].vals[s] :
            product[<<e, k>>].vals[s][g]
                = Sum(e, k, s, g) + (IF Masked(e, g) THEN mask[e][s] ELSE 0)

Apart(e) == \A f \in Used \ {e} : Secrets(e) \cap Secrets(f) = {}

\* A grouping estimator has a result only in a project of at most two workers: the second
\* one passes no noise on.  And an estimator whose local variables have names of their own
\* never gives a wrong result because of the others, although they all load and store the
\* same file: it gives the exact one, in every group that was masked, or no result at all;
\* the groups that were not masked are wrong, by the mask.
ExactOrNothing ==
    \A e \in Used : exec[Last(e)].pc = "done" =>
        /\ Grouping(e) => size <= 2
        /\ Apart(e) => \A s \in Stats(e) : \A g \in DOMAIN product[Last(e)].vals[s] :
              Masked(e, g) <=> product[Last(e)].vals[s][g] = Sum(e, size, s, g)

\* Nothing is left out: every group that a worker knows is in the result, if there is one.
AllGroups ==
    \A e \in Used : exec[Last(e)].pc = "done" =>
        \A s \in Stats(e), w \in 1 .. size :
            DOMAIN Own(e, w, s) \subseteq DOMAIN product[Last(e)].vals[s]

\* An estimator that is alone in its artifact ends with a result; one that groups, in a
\* project of more than two workers, with the error of the third.
AloneEnds ==
    <>(\/ Cardinality(Used) > 1
       \/ \A e \in Used : IF Grouping(e) /\ size > 2 THEN exec[<<e, 3>>].pc = "error"
                          ELSE exec[Last(e)].pc = "done")
=============================================================================
