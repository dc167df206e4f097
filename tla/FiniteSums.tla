----------------------------- MODULE FiniteSums -----------------------------
(***************************************************************************)
(* Sums over finite sets, as MapThenSumSet of the community modules computes *)
(* them, and the two induction principles that the facts about them need.   *)
(* The library's induction theorems take an operator; a least element of a  *)
(* set of counterexamples says the same without one.                        *)
(***************************************************************************)
EXTENDS Integers, FiniteSets, FiniteSetsExt, FiniteSetTheorems, TLAPS

\* The sum of f[x] for all x in S.
Total(f, S) == MapThenSumSet(LAMBDA x : f[x], S)

\* h is the function that MapThenSumSet computes on the way: the sums over all subsets.
Pick(s) == CHOOSE x \in s : TRUE
SumsOf(h, f, S) ==
    h = [s \in SUBSET S |-> IF s = {} THEN 0 ELSE f[Pick(s)] + h[s \ {Pick(s)}]]

-----------------------------------------------------------------------------
(* Induction. *)

\* Among subsets of a finite set there is one that contains no other.
LEMMA LeastSet ==
    ASSUME NEW S, IsFiniteSet(S), NEW T \in SUBSET (SUBSET S), T # {}
    PROVE  \E x \in T : \A y \in T : ~ (y \subseteq x /\ y # x)
<1>1. FiniteSubsetsOf(S) = SUBSET S
  BY FS_Subset DEF FiniteSubsetsOf
<1>2. IsWellFoundedOn(StrictSubsetOrdering(S), FiniteSubsetsOf(S))
  BY FS_StrictSubsetOrderingWellFounded
<1>3. PICK x \in T : \A y \in T : ~ (<<y, x>> \in StrictSubsetOrdering(S))
  BY <1>1, <1>2, WFMin
<1>. QED  BY <1>3 DEF StrictSubsetOrdering

\* A nonempty set of natural numbers has a least element.
LEMMA LeastNatural ==
    ASSUME NEW T \in SUBSET Nat, T # {}
    PROVE  \E m \in T : \A n \in T : m <= n
<1>1. PICK k \in T : TRUE
  OBVIOUS
<1> DEFINE Below == {0 .. n : n \in T \cap (0 .. k)}
<1>2. Below \in SUBSET (SUBSET (0 .. k)) /\ Below # {}
  BY <1>1
<1>3. IsFiniteSet(0 .. k)
  BY FS_Interval
<1>4. PICK x \in Below : \A y \in Below : ~ (y \subseteq x /\ y # x)
  <2> DEFINE K == 0 .. k
  <2>1. Below \in SUBSET (SUBSET K) /\ Below # {}
    BY <1>2
  <2>2. IsFiniteSet(K)
    BY <1>3
  <2> HIDE DEF Below, K
  <2>. QED  BY <2>1, <2>2, LeastSet
<1>5. PICK m \in T \cap (0 .. k) : x = 0 .. m
  BY <1>4
<1>6. ASSUME NEW n \in T, n < m
      PROVE  FALSE
  <2>1. 0 .. n \in Below
    BY <1>5, <1>6
  <2>2. 0 .. n \subseteq x /\ 0 .. n # x
    BY <1>5, <1>6
  <2>. QED  BY <2>1, <2>2, <1>4
<1>. QED  BY <1>5, <1>6

\* A nonempty set of natural numbers that has a bound has a greatest element.
LEMMA GreatestNatural ==
    ASSUME NEW T \in SUBSET Nat, T # {}, NEW k \in Nat, \A n \in T : n <= k
    PROVE  \E m \in T : \A n \in T : n <= m
<1> DEFINE Bounds == {b \in Nat : \A n \in T : n <= b}
<1>1. PICK b \in Bounds : \A c \in Bounds : b <= c
  <2>1. Bounds \in SUBSET Nat /\ Bounds # {}
    OBVIOUS
  <2> HIDE DEF Bounds
  <2>. QED  BY <2>1, LeastNatural
<1>2. b \in Nat /\ \A n \in T : n <= b
  BY <1>1
<1>3. b \in T
  <2>1. SUFFICES ASSUME b \notin T PROVE FALSE
    OBVIOUS
  <2>2. PICK n \in T : TRUE
    OBVIOUS
  <2>3. b - 1 \in Nat /\ \A m \in T : m <= b - 1
    BY <1>2, <2>1, <2>2
  <2>4. b - 1 \in Bounds
    BY <2>3
  <2>. QED  BY <1>1, <1>2, <2>4
<1>. QED  BY <1>2, <1>3

-----------------------------------------------------------------------------
(* The function that the recursion defines. *)

\* A nonempty set loses a member when the one that CHOOSE takes is removed.
LEMMA PickOne ==
    ASSUME NEW s, s # {}
    PROVE  /\ Pick(s) \in s
           /\ s \ {Pick(s)} \subseteq s
           /\ s \ {Pick(s)} # s
BY DEF Pick

\* Two such functions agree wherever both are defined.
LEMMA SumsAgree ==
    ASSUME NEW f, NEW S, NEW R, IsFiniteSet(S), R \subseteq S,
           NEW h, SumsOf(h, f, S), NEW k, SumsOf(k, f, R)
    PROVE  h[R] = k[R]
<1> DEFINE Differ == {s \in SUBSET R : h[s] # k[s]}
<1>1. SUFFICES ASSUME Differ # {} PROVE FALSE
  OBVIOUS
<1>2. IsFiniteSet(R)
  BY FS_Subset
<1>3. Differ \in SUBSET (SUBSET R)
  OBVIOUS
<1>4. PICK s \in Differ : \A t \in Differ : ~ (t \subseteq s /\ t # s)
  <2> HIDE DEF Differ
  <2>. QED  BY <1>1, <1>2, <1>3, LeastSet
<1>5. s \in SUBSET R /\ s \in SUBSET S /\ h[s] # k[s]
  OBVIOUS
<1>6. s # {}
  BY <1>5 DEF SumsOf
<1> DEFINE u == s \ {Pick(s)}
<1>7. u \in SUBSET R /\ u \notin Differ
  BY <1>4, <1>5, <1>6, PickOne
<1>8. h[u] = k[u]
  BY <1>7
<1>9. h[s] = f[Pick(s)] + h[u] /\ k[s] = f[Pick(s)] + k[u]
  BY <1>5, <1>6 DEF SumsOf
<1>. QED  BY <1>5, <1>8, <1>9

\* There is such a function.
LEMMA SumsExist ==
    ASSUME NEW f, NEW S, IsFiniteSet(S)
    PROVE  \E h : SumsOf(h, f, S)
<1> DEFINE H(u) == CHOOSE h : SumsOf(h, f, u)
           Undefined == {u \in SUBSET S : ~ \E h : SumsOf(h, f, u)}
<1>1. SUFFICES ASSUME Undefined # {} PROVE FALSE
  OBVIOUS
<1>2. Undefined \in SUBSET (SUBSET S)
  OBVIOUS
<1>3. PICK r \in Undefined : \A t \in Undefined : ~ (t \subseteq r /\ t # r)
  <2> HIDE DEF Undefined
  <2>. QED  BY <1>1, <1>2, LeastSet
<1>4. r \in SUBSET S /\ ~ \E h : SumsOf(h, f, r)
  BY <1>3
<1>5. ASSUME NEW u \in SUBSET r, u # r
      PROVE  SumsOf(H(u), f, u)
  <2>1. u \in SUBSET S /\ u \notin Undefined
    BY <1>3, <1>4, <1>5
  <2>2. \E h : SumsOf(h, f, u)
    BY <2>1
  <2>. QED  BY <2>2
<1> DEFINE g == [t \in SUBSET r |-> IF t = {} THEN 0
                     ELSE f[Pick(t)] + H(t \ {Pick(t)})[t \ {Pick(t)}]]
<1>6. ASSUME NEW u \in SUBSET r, u # r
      PROVE  g[u] = H(u)[u]
  <2>1. SumsOf(H(u), f, u)
    BY <1>5, <1>6
  <2>2. CASE u = {}
    <3>1. H(u)[u] = 0
      <4> HIDE DEF H
      <4>. QED  BY <2>1, <2>2 DEF SumsOf
    <3>. QED  BY <2>2, <3>1
  <2>3. CASE u # {}
    <3> DEFINE v == u \ {Pick(u)}
    <3>1. v \in SUBSET r /\ v # r /\ v \subseteq u
      BY <2>3, PickOne
    <3>2. SumsOf(H(v), f, v)
      BY <1>5, <3>1
    <3>3. IsFiniteSet(u)
      BY FS_Subset, <1>4, <1>6
    <3>4. H(u)[v] = H(v)[v]
      <4> HIDE DEF H, v
      <4>. QED  BY <2>1, <3>1, <3>2, <3>3, SumsAgree, SumsAgree
    <3>5. H(u)[u] = f[Pick(u)] + H(u)[v]
      <4> HIDE DEF H
      <4>. QED  BY <2>1, <2>3 DEF SumsOf
    <3>. QED  BY <3>4, <3>5, <2>3
  <2>. QED  BY <2>2, <2>3
<1>7. ASSUME NEW t \in SUBSET r, t # {}
      PROVE  H(t \ {Pick(t)})[t \ {Pick(t)}] = g[t \ {Pick(t)}]
  <2>1. t \ {Pick(t)} \in SUBSET r /\ t \ {Pick(t)} # r
    BY <1>7, PickOne
  <2> HIDE DEF g, H
  <2>. QED  BY <2>1, <1>6
<1>8. SumsOf(g, f, r)
  <2>1. g = [t \in SUBSET r |-> IF t = {} THEN 0 ELSE f[Pick(t)] + g[t \ {Pick(t)}]]
    <3>1. \A t \in SUBSET r : t # {} => g[t] = f[Pick(t)] + g[t \ {Pick(t)}]
      BY <1>7
    <3>2. g[{}] = 0 /\ DOMAIN g = SUBSET r /\ g = [t \in SUBSET r |-> g[t]]
      OBVIOUS
    <3> HIDE DEF g
    <3>. QED  BY <3>1, <3>2
  <2>. QED  BY <2>1 DEF SumsOf
<1>. QED  BY <1>4, <1>8

-----------------------------------------------------------------------------
(* Sums of integers. *)

\* A function of sums has integer values, and any member may be taken out first.
LEMMA SumsOfIntegers ==
    ASSUME NEW S, IsFiniteSet(S), NEW f, \A x \in S : f[x] \in Int,
           NEW h, SumsOf(h, f, S)
    PROVE  /\ \A s \in SUBSET S : h[s] \in Int
           /\ \A s \in SUBSET S : \A x \in s : h[s] = f[x] + h[s \ {x}]
<1>1. ASSUME NEW s \in SUBSET S, s # {}
      PROVE  h[s] = f[Pick(s)] + h[s \ {Pick(s)}]
  BY <1>1 DEF SumsOf
<1>2. h[{}] = 0
  BY DEF SumsOf
<1>3. \A s \in SUBSET S : h[s] \in Int
  <2> DEFINE Bad == {s \in SUBSET S : h[s] \notin Int}
  <2>1. SUFFICES ASSUME Bad # {} PROVE FALSE
    OBVIOUS
  <2>2. Bad \in SUBSET (SUBSET S)
    OBVIOUS
  <2>3. PICK s \in Bad : \A t \in Bad : ~ (t \subseteq s /\ t # s)
    <3> HIDE DEF Bad
    <3>. QED  BY <2>1, <2>2, LeastSet
  <2>4. s \in SUBSET S /\ h[s] \notin Int /\ s # {}
    BY <1>2
  <2>5. s \ {Pick(s)} \in SUBSET S /\ s \ {Pick(s)} \notin Bad /\ Pick(s) \in S
    BY <2>3, <2>4, PickOne
  <2>6. h[s \ {Pick(s)}] \in Int
    BY <2>5
  <2>7. f[Pick(s)] \in Int
    BY <2>5
  <2>8. h[s] = f[Pick(s)] + h[s \ {Pick(s)}]
    BY <1>1, <2>4
  <2>. QED  BY <2>4, <2>6, <2>7, <2>8
<1>4. \A s \in SUBSET S : \A x \in s : h[s] = f[x] + h[s \ {x}]
  <2> DEFINE Bad == {s \in SUBSET S : \E x \in s : h[s] # f[x] + h[s \ {x}]}
  <2>1. SUFFICES ASSUME Bad # {} PROVE FALSE
    OBVIOUS
  <2>2. Bad \in SUBSET (SUBSET S)
    OBVIOUS
  <2>3. PICK s \in Bad : \A t \in Bad : ~ (t \subseteq s /\ t # s)
    <3> HIDE DEF Bad
    <3>. QED  BY <2>1, <2>2, LeastSet
  <2>4. PICK x \in s : h[s] # f[x] + h[s \ {x}]
    OBVIOUS
  <2> DEFINE p == Pick(s)
  <2>5. s \in SUBSET S /\ s # {} /\ p \in s /\ h[s] = f[p] + h[s \ {p}] /\ x # p
    BY <1>1, <2>4, PickOne
  <2>6. s \ {p} \notin Bad /\ s \ {x} \notin Bad
    BY <2>3, <2>5
  <2>7. h[s \ {p}] = f[x] + h[(s \ {p}) \ {x}] /\ h[s \ {x}] = f[p] + h[(s \ {x}) \ {p}]
    BY <2>5, <2>6
  <2>8. (s \ {p}) \ {x} = (s \ {x}) \ {p} /\ (s \ {p}) \ {x} \in SUBSET S
    BY <2>5
  <2>9. f[x] \in Int /\ f[p] \in Int /\ h[(s \ {p}) \ {x}] \in Int
    BY <2>5, <2>8, <1>3
  <2>10. h[s] # f[x] + h[s \ {x}] /\ h[s] = f[p] + h[s \ {p}]
    BY <2>4, <2>5
  <2>11. h[(s \ {x}) \ {p}] = h[(s \ {p}) \ {x}]
    BY <2>8
  <2> HIDE DEF p
  <2>. QED  BY <2>7, <2>9, <2>10, <2>11
<1>. QED  BY <1>3, <1>4

\* Total is the value, at the whole set, of such a function.
LEMMA TotalIsSum ==
    ASSUME NEW f, NEW S, IsFiniteSet(S), NEW h, SumsOf(h, f, S)
    PROVE  Total(f, S) = h[S]
<1> DEFINE k == CHOOSE it : it = [s \in SUBSET S |-> IF s = {} THEN 0
                     ELSE f[CHOOSE x \in s : TRUE] + it[s \ {CHOOSE x \in s : TRUE}]]
<1>1. Total(f, S) = k[S]
  BY Zenon DEF Total, MapThenSumSet, MapThenFoldSet
<1>2. SumsOf(k, f, S)
  BY Zenon DEF SumsOf, Pick
<1> HIDE DEF k
<1>3. k[S] = h[S]
  BY <1>2, SumsAgree
<1>. QED  BY <1>1, <1>3

\* The sum over no members is 0.
LEMMA TotalEmpty ==
    ASSUME NEW f
    PROVE  Total(f, {}) = 0
<1>1. IsFiniteSet({})
  BY FS_EmptySet
<1>2. PICK h : SumsOf(h, f, {})
  BY <1>1, SumsExist
<1>3. h[{}] = 0
  BY <1>2 DEF SumsOf
<1>. QED  BY <1>1, <1>2, <1>3, TotalIsSum

\* A sum of integers is an integer, and it is any of them plus the sum of the others.
LEMMA TotalStep ==
    ASSUME NEW S, IsFiniteSet(S), NEW f, \A x \in S : f[x] \in Int
    PROVE  /\ Total(f, S) \in Int
           /\ \A x \in S : Total(f, S) = f[x] + Total(f, S \ {x})
<1>1. PICK h : SumsOf(h, f, S)
  BY SumsExist
<1>2. Total(f, S) = h[S]
  BY <1>1, TotalIsSum
<1>3. h[S] \in Int /\ \A x \in S : h[S] = f[x] + h[S \ {x}]
  BY <1>1, SumsOfIntegers
<1>4. ASSUME NEW x \in S
      PROVE  Total(f, S \ {x}) = h[S \ {x}]
  <2>1. IsFiniteSet(S \ {x}) /\ S \ {x} \subseteq S
    BY FS_RemoveElement
  <2>2. PICK k : SumsOf(k, f, S \ {x})
    BY <2>1, SumsExist
  <2>3. h[S \ {x}] = k[S \ {x}]
    BY <1>1, <2>1, <2>2, SumsAgree
  <2>. QED  BY <2>1, <2>2, <2>3, TotalIsSum
<1>. QED  BY <1>2, <1>3, <1>4

\* Only the values at the members count.
LEMMA TotalSame ==
    ASSUME NEW S, IsFiniteSet(S), NEW f, NEW g, \A x \in S : f[x] = g[x]
    PROVE  Total(f, S) = Total(g, S)
<1>1. PICK h : SumsOf(h, f, S)
  BY SumsExist
<1>2. SumsOf(h, g, S)
  <2>1. \A s \in SUBSET S : s # {} => f[Pick(s)] = g[Pick(s)]
    BY PickOne
  <2>2. DOMAIN h = SUBSET S /\ h = [s \in SUBSET S |-> h[s]]
    BY <1>1 DEF SumsOf
  <2>3. \A s \in SUBSET S :
            h[s] = IF s = {} THEN 0 ELSE g[Pick(s)] + h[s \ {Pick(s)}]
    BY <1>1, <2>1 DEF SumsOf
  <2>. QED  BY <2>2, <2>3 DEF SumsOf
<1>. QED  BY <1>1, <1>2, TotalIsSum

\* A sum over 1 .. k is the sum over 1 .. k - 1 and the last term.
LEMMA TotalUpTo ==
    ASSUME NEW k \in Nat \ {0}, NEW f, \A x \in 1 .. k : f[x] \in Int
    PROVE  /\ Total(f, 1 .. k) \in Int
           /\ Total(f, 1 .. k) = Total(f, 1 .. (k - 1)) + f[k]
           /\ Total(f, 1 .. (k - 1)) \in Int
<1>1. IsFiniteSet(1 .. k) /\ k \in 1 .. k
  BY FS_Interval
<1>2. IsFiniteSet(1 .. (k - 1))
  BY FS_Interval
<1>3. (1 .. k) \ {k} = 1 .. (k - 1)
  OBVIOUS
<1>4. Total(f, 1 .. k) \in Int /\ Total(f, 1 .. k) = f[k] + Total(f, 1 .. (k - 1))
  BY <1>1, <1>3, TotalStep
<1>5. Total(f, 1 .. (k - 1)) \in Int
  BY <1>2, TotalStep
<1>. QED  BY <1>1, <1>4, <1>5

\* A sum of zeros is zero.
LEMMA TotalZero ==
    ASSUME NEW S, IsFiniteSet(S), NEW f, \A x \in S : f[x] = 0
    PROVE  Total(f, S) = 0
<1> DEFINE Bad == {s \in SUBSET S : Total(f, s) # 0}
<1>1. SUFFICES ASSUME Bad # {} PROVE FALSE
  OBVIOUS
<1>2. Bad \in SUBSET (SUBSET S)
  OBVIOUS
<1>3. PICK s \in Bad : \A t \in Bad : ~ (t \subseteq s /\ t # s)
  <2> HIDE DEF Bad
  <2>. QED  BY <1>1, <1>2, LeastSet
<1>4. s \in SUBSET S /\ Total(f, s) # 0
  OBVIOUS
<1>5. s # {}
  BY <1>4, TotalEmpty
<1>6. PICK x \in s : TRUE
  BY <1>5
<1>7. Total(f, s \ {x}) = 0
  BY <1>3, <1>4, <1>6
<1>8. IsFiniteSet(s)
  BY <1>4, FS_Subset
<1>9. Total(f, s) = f[x] + Total(f, s \ {x})
  BY <1>4, <1>6, <1>8, TotalStep
<1>. QED  BY <1>4, <1>6, <1>7, <1>9

\* A sum of natural numbers is a natural number, and no less than any of them.
LEMMA TotalNatural ==
    ASSUME NEW S, IsFiniteSet(S), NEW f, \A x \in S : f[x] \in Nat
    PROVE  Total(f, S) \in Nat /\ \A x \in S : f[x] <= Total(f, S)
<1> DEFINE Bad == {s \in SUBSET S : Total(f, s) \notin Nat}
<1>1. Bad = {}
  <2>1. SUFFICES ASSUME Bad # {} PROVE FALSE
    OBVIOUS
  <2>2. Bad \in SUBSET (SUBSET S)
    OBVIOUS
  <2>3. PICK s \in Bad : \A t \in Bad : ~ (t \subseteq s /\ t # s)
    <3> HIDE DEF Bad
    <3>. QED  BY <2>1, <2>2, LeastSet
  <2>4. s \in SUBSET S /\ Total(f, s) \notin Nat
    OBVIOUS
  <2>5. s # {}
    BY <2>4, TotalEmpty
  <2>6. PICK x \in s : TRUE
    BY <2>5
  <2>7. Total(f, s \ {x}) \in Nat
    BY <2>3, <2>4, <2>6
  <2>8. IsFiniteSet(s) /\ \A y \in s : f[y] \in Nat
    BY <2>4, FS_Subset
  <2>9. Total(f, s) = f[x] + Total(f, s \ {x})
    BY <2>6, <2>8, TotalStep
  <2>. QED  BY <2>4, <2>6, <2>7, <2>8, <2>9
<1>2. \A s \in SUBSET S : Total(f, s) \in Nat
  BY <1>1
<1>3. ASSUME NEW x \in S
      PROVE  f[x] <= Total(f, S)
  <2>1. Total(f, S) = f[x] + Total(f, S \ {x})
    BY TotalStep
  <2>2. Total(f, S \ {x}) \in Nat
    BY <1>2
  <2>. QED  BY <2>1, <2>2
<1>. QED  BY <1>2, <1>3
=============================================================================
