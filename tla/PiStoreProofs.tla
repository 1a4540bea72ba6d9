---------------------------- MODULE PiStoreProofs ----------------------------
(* Proofs about PiStore, for any scopes, identities, keys and bounds: the     *)
(* journal of every scope only grows, and the numbers of its commits follow   *)
(* on from 1 to next_seq without a gap; it rebuilds the rows the scope        *)
(* serves; reading page by page gives every row once; and every branch reads  *)
(* down to its root, a fork's as that of its source.                          *)
(*                                                                            *)
(* The inductive invariant is Journalled /\ Stored /\ Forked. A replay is a   *)
(* fold, which is the end of a chain of steps (FoldChain); a read is an       *)
(* ordering by rank, which is the one listing of the rows in ascending order  *)
(* (InOrderUnique); a branch is the least set closed under parents, and so a  *)
(* line from a root (PathIsLine).                                             *)
EXTENDS PiStore, SequenceTheorems, FiniteSetTheorems, WellFoundedInduction, TLAPS

\* Induction over Nat, as a fact about sets.
LEMMA NatSets ==
    ASSUME NEW S \in SUBSET Nat, 0 \in S, \A n \in S : n + 1 \in S
    PROVE  S = Nat
  <1> DEFINE Less == {ss \in Nat \X Nat : ss[1] < ss[2]}
  <1>1. IsWellFoundedOn(Less, Nat)  BY NatLessThanWellFounded DEF OpToRel
  <1> SUFFICES ASSUME Nat \ S # {} PROVE FALSE  OBVIOUS
  <1>2. PICK n \in Nat \ S : \A m \in Nat \ S : ~(<<m, n>> \in Less)  BY <1>1, WFMin
  <1>3. n # 0 /\ n - 1 \in Nat /\ <<n - 1, n>> \in Less  OBVIOUS
  <1>4. n - 1 \in S /\ n - 1 + 1 = n  BY <1>2, <1>3
  <1> QED  BY <1>4

\* One step of a replay: a write applied to tables, or a whole commit.
Step(what, p, x) ==
    IF what = "write" THEN Apply(p, x)
    ELSE IF Whole(p, x) THEN ApplyAll(p, x.writes) ELSE Refused

\* The function on sets of indices that a fold of the community modules chooses.
Folds(what, g, p, w, n) ==
    g = [s \in SUBSET (1 .. n) |-> IF s = {} THEN p ELSE Step(what, g[s \ {Max(s)}], w[Max(s)])]

\* What a fold of the community modules is for a sequence of length n.
FoldOf(what, p, w, n) == (CHOOSE g : Folds(what, g, p, w, n))[1 .. n]

\* What the tables are before the first of n steps and after each of them.
Chain(what, f, p, w, n) ==
    /\ DOMAIN f = 0 .. n
    /\ f[0] = p
    /\ \A i \in 1 .. n : f[i] = Step(what, f[i - 1], w[i])

\* The greatest of a set of indices that has n + 1.
LEMMA MaxOfUpTo ==
    ASSUME NEW n \in Nat, NEW s, s \subseteq 1 .. n + 1, n + 1 \in s
    PROVE  Max(s) = n + 1
  <1>1. \A y \in s : n + 1 >= y  OBVIOUS
  <1>2. \A x \in s : (\A y \in s : x >= y) => x = n + 1  OBVIOUS
  <1> QED  BY <1>1, <1>2 DEF Max

\* There is such a function, so that the one chosen is one.
LEMMA FoldsExist ==
    ASSUME NEW what, NEW p, NEW w, NEW n \in Nat
    PROVE  \E g : Folds(what, g, p, w, n)
  <1> DEFINE S == {m \in Nat : \E g : Folds(what, g, p, w, m)}
  <1>1. 0 \in S
    <2> DEFINE g == [s \in SUBSET (1 .. 0) |-> p]
    <2>1. \A s \in SUBSET (1 .. 0) : s = {}  OBVIOUS
    <2>2. Folds(what, g, p, w, 0)  BY <2>1 DEF Folds
    <2> QED  BY <2>2
  <1>2. ASSUME NEW m \in S PROVE m + 1 \in S
    <2>1. m \in Nat  OBVIOUS
    <2>2. PICK g : Folds(what, g, p, w, m)  OBVIOUS
    <2> DEFINE h == [s \in SUBSET (1 .. m + 1) |->
                       IF m + 1 \in s THEN Step(what, g[s \ {m + 1}], w[m + 1]) ELSE g[s]]
    <2>3. ASSUME NEW s \in SUBSET (1 .. m + 1)
          PROVE  h[s] = IF s = {} THEN p ELSE Step(what, h[s \ {Max(s)}], w[Max(s)])
      <3>1. CASE m + 1 \in s
        <4>1. Max(s) = m + 1  BY <2>1, <3>1, MaxOfUpTo
        <4>2. s \ {m + 1} \in SUBSET (1 .. m + 1) /\ m + 1 \notin s \ {m + 1}  OBVIOUS
        <4>3. h[s \ {m + 1}] = g[s \ {m + 1}]  BY <4>2
        <4> QED  BY <3>1, <4>1, <4>3
      <3>2. CASE m + 1 \notin s
        <4>1. s \in SUBSET (1 .. m)  BY <2>1, <3>2
        <4>2. g[s] = IF s = {} THEN p ELSE Step(what, g[s \ {Max(s)}], w[Max(s)])
          BY <2>2, <4>1 DEF Folds
        <4>3. s \ {Max(s)} \in SUBSET (1 .. m + 1) /\ m + 1 \notin s \ {Max(s)}  BY <3>2
        <4>4. h[s \ {Max(s)}] = g[s \ {Max(s)}]  BY <4>3
        <4> QED  BY <3>2, <4>2, <4>4
      <3> QED  BY <3>1, <3>2
    <2>4. h = [s \in SUBSET (1 .. m + 1) |-> IF s = {} THEN p ELSE Step(what, h[s \ {Max(s)}], w[Max(s)])]
      <3>1. h = [s \in SUBSET (1 .. m + 1) |-> h[s]]  OBVIOUS
      <3> HIDE DEF h
      <3>2. [s \in SUBSET (1 .. m + 1) |-> h[s]]
            = [s \in SUBSET (1 .. m + 1) |-> IF s = {} THEN p ELSE Step(what, h[s \ {Max(s)}], w[Max(s)])]
        BY <2>3
      <3> QED  BY <3>1, <3>2
    <2>5. Folds(what, h, p, w, m + 1)  BY <2>4 DEF Folds
    <2> QED  BY <2>1, <2>5
  <1>3. S = Nat  BY <1>1, <1>2, NatSets
  <1> QED  BY <1>3

\* A fold is the end of a chain of steps from p.
LEMMA FoldChain ==
    ASSUME NEW what, NEW p, NEW w, NEW n \in Nat
    PROVE  \E f : Chain(what, f, p, w, n) /\ f[n] = FoldOf(what, p, w, n)
  <1> DEFINE g == CHOOSE g : Folds(what, g, p, w, n)
  <1>1. Folds(what, g, p, w, n)  BY FoldsExist
  <1> DEFINE f == [i \in 0 .. n |-> g[1 .. i]]
  <1>2. f[0] = p
    <2>1. {} \in SUBSET (1 .. n) /\ 1 .. 0 = {}  OBVIOUS
    <2>2. g[{}] = p  BY <1>1, <2>1 DEF Folds
    <2> HIDE DEF g
    <2> QED  BY <2>1, <2>2
  <1>3. ASSUME NEW i \in 1 .. n PROVE f[i] = Step(what, f[i - 1], w[i])
    <2> DEFINE s == 1 .. i
    <2>1. s \in SUBSET (1 .. n) /\ s # {}  OBVIOUS
    <2>2. Max(s) = i
      <3>1. i - 1 \in Nat /\ i - 1 + 1 = i /\ s \subseteq 1 .. i - 1 + 1 /\ i \in s  OBVIOUS
      <3> HIDE DEF s
      <3> QED  BY <3>1, MaxOfUpTo
    <2>3. s \ {i} = 1 .. i - 1  OBVIOUS
    <2>4. g[s] = Step(what, g[1 .. i - 1], w[i])
      <3> HIDE DEF g, s
      <3>1. g[s] = IF s = {} THEN p ELSE Step(what, g[s \ {Max(s)}], w[Max(s)])
        BY <1>1, <2>1 DEF Folds
      <3> QED  BY <3>1, <2>1, <2>2, <2>3
    <2> HIDE DEF g
    <2> QED  BY <2>4
  <1>4. DOMAIN f = 0 .. n /\ f[n] = g[1 .. n]  BY SMT
  <1> HIDE DEF f
  <1>5. Chain(what, f, p, w, n)  BY <1>2, <1>3, <1>4 DEF Chain
  <1>6. FoldOf(what, p, w, n) = g[1 .. n]  BY DEF FoldOf, g
  <1> QED  BY <1>4, <1>5, <1>6

\* What a chain holds follows from where it begins and its steps.
LEMMA ChainsAgree ==
    ASSUME NEW what, NEW p, NEW f, NEW h, NEW w, NEW v, NEW n \in Nat, NEW m \in Nat,
           Chain(what, f, p, w, n), Chain(what, h, p, v, m), n <= m,
           \A i \in 1 .. n : w[i] = v[i]
    PROVE  \A i \in 0 .. n : f[i] = h[i]
  <1> DEFINE S == {i \in Nat : i <= n => f[i] = h[i]}
  <1>1. 0 \in S  BY DEF Chain
  <1>2. ASSUME NEW i \in S PROVE i + 1 \in S
    <2> SUFFICES ASSUME i + 1 <= n PROVE f[i + 1] = h[i + 1]  OBVIOUS
    <2>1. i \in Nat /\ f[i] = h[i] /\ i + 1 \in 1 .. n /\ i + 1 \in 1 .. m /\ i + 1 - 1 = i  OBVIOUS
    <2> QED  BY <2>1 DEF Chain
  <1>3. S = Nat  BY <1>1, <1>2, NatSets
  <1> QED  BY <1>3

\* ApplyAll is such a fold over writes.
LEMMA ApplyAllIs ==
  ASSUME NEW p, NEW w, NEW n \in Nat, DOMAIN w = 1 .. n
  PROVE ApplyAll(p, w) = FoldOf("write", p, w, n)
  BY DEF FoldOf, ApplyAll, FoldLeft, MapThenFoldSet, Folds, Step

\* A function on 1 .. n is a sequence of length n.
LEMMA FunctionIsSeq ==
    ASSUME NEW n \in Nat, NEW S, NEW f \in [1 .. n -> S]
    PROVE  f \in Seq(S) /\ Len(f) = n /\ DOMAIN f = 1 .. n
  <1>1. f \in Seq(S)  OBVIOUS
  <1>2. Len(f) \in Nat /\ DOMAIN f = 1 .. Len(f)  BY <1>1, LenProperties
  <1>3. \A k : k \in 1 .. n <=> k \in 1 .. Len(f)  BY <1>2
  <1>4. Len(f) = n  BY <1>2, <1>3
  <1> QED  BY <1>1, <1>4

\* Every row has a number of 1 .. m in the column, and no two the same.
Sortable(T, by, m) ==
    /\ \A r \in T : r[by] \in 1 .. m
    /\ \A q, r \in T : q[by] = r[by] => q = r

\* The rows before one of them.
Below(T, by, r) == {q \in T : q[by] < r[by]}

\* Such a table has at most m rows.
LEMMA SortableIsFinite ==
    ASSUME NEW T, NEW by, NEW m \in Nat, Sortable(T, by, m)
    PROVE  IsFiniteSet(T) /\ Cardinality(T) \in Nat /\ Cardinality(T) <= m
  <1> DEFINE f == [r \in T |-> r[by]]
  <1>1. f \in Injection(T, 1 .. m)  BY DEF Sortable, Injection, IsInjective
  <1>2. IsFiniteSet(1 .. m) /\ Cardinality(1 .. m) = m
    <2>1. 1 \in Int /\ m \in Int /\ (IF 1 > m THEN 0 ELSE m - 1 + 1) = m  OBVIOUS
    <2> QED  BY <2>1, FS_Interval
  <1> HIDE DEF f
  <1>3. IsFiniteSet(T) /\ Cardinality(T) <= m  BY <1>1, <1>2, FS_Injection
  <1> QED  BY <1>3, FS_CardinalityType

\* A row has its own rank, and a greater number is a greater rank.
LEMMA BelowIsSmaller ==
    ASSUME NEW T, NEW by, NEW m \in Nat, Sortable(T, by, m), NEW q \in T, NEW r \in T
    PROVE  /\ Cardinality(Below(T, by, r)) \in 0 .. Cardinality(T) - 1
           /\ q[by] < r[by] <=> Cardinality(Below(T, by, q)) < Cardinality(Below(T, by, r))
  <1>1. IsFiniteSet(T)  BY SortableIsFinite
  <1>2. ASSUME NEW x \in T
        PROVE  /\ Below(T, by, x) \in SUBSET T /\ Below(T, by, x) # T /\ IsFiniteSet(Below(T, by, x))
               /\ Cardinality(Below(T, by, x)) \in Nat
    <2>1. Below(T, by, x) \in SUBSET T  BY DEF Below
    <2>2. x[by] \in Nat  BY DEF Sortable
    <2>3. x \notin Below(T, by, x)  BY <2>2 DEF Below
    <2>4. IsFiniteSet(Below(T, by, x))  BY <1>1, <2>1, FS_Subset
    <2> QED  BY <2>1, <2>3, <2>4, FS_CardinalityType
  <1>3. Cardinality(Below(T, by, r)) \in 0 .. Cardinality(T) - 1
    <2>1. Cardinality(T) \in Nat  BY <1>1, FS_CardinalityType
    <2>2. /\ Cardinality(Below(T, by, r)) <= Cardinality(T)
          /\ Cardinality(T) = Cardinality(Below(T, by, r)) => T = Below(T, by, r)
      BY <1>1, <1>2, FS_Subset
    <2>3. Cardinality(Below(T, by, r)) \in Nat /\ Below(T, by, r) # T  BY <1>2
    <2> QED  BY <2>1, <2>2, <2>3
  <1>4. ASSUME NEW x \in T, NEW y \in T, x[by] < y[by]
        PROVE  Cardinality(Below(T, by, x)) < Cardinality(Below(T, by, y))
    <2>1. x[by] \in Nat /\ y[by] \in Nat /\ \A z \in T : z[by] \in Nat  BY DEF Sortable
    <2>2. Below(T, by, x) \in SUBSET Below(T, by, y)  BY <2>1, <1>4 DEF Below
    <2>3. x \in Below(T, by, y) /\ x \notin Below(T, by, x)  BY <2>1, <1>4 DEF Below
    <2>4. IsFiniteSet(Below(T, by, y)) /\ Cardinality(Below(T, by, x)) \in Nat /\ Cardinality(Below(T, by, y)) \in Nat
      BY <1>2
    <2>5. /\ Cardinality(Below(T, by, x)) <= Cardinality(Below(T, by, y))
          /\ Cardinality(Below(T, by, y)) = Cardinality(Below(T, by, x)) => Below(T, by, y) = Below(T, by, x)
      BY <2>2, <2>4, FS_Subset
    <2> QED  BY <2>3, <2>4, <2>5
  <1>5. q[by] = r[by] => q = r  BY DEF Sortable
  <1>6. q[by] \in Nat /\ r[by] \in Nat  BY DEF Sortable
  <1>7. Cardinality(Below(T, by, q)) \in Nat /\ Cardinality(Below(T, by, r)) \in Nat  BY <1>2
  <1>8. /\ q[by] < r[by] => Cardinality(Below(T, by, q)) < Cardinality(Below(T, by, r))
        /\ r[by] < q[by] => Cardinality(Below(T, by, r)) < Cardinality(Below(T, by, q))
    BY <1>4
  <1> QED  BY <1>3, <1>5, <1>6, <1>7, <1>8

\* InOrder is the rows of a table, all of them, each once, by their numbers.
LEMMA InOrderSorts ==
    ASSUME NEW T, NEW by, NEW m \in Nat, Sortable(T, by, m)
    PROVE  /\ Cardinality(T) \in 0 .. m
           /\ InOrder(T, by) \in [1 .. Cardinality(T) -> T]
           /\ InOrder(T, by) \in Seq(T) /\ Len(InOrder(T, by)) = Cardinality(T)
           /\ \A i, j \in 1 .. Cardinality(T) : i < j <=> InOrder(T, by)[i][by] < InOrder(T, by)[j][by]
           /\ \A r \in T : \E i \in 1 .. Cardinality(T) : InOrder(T, by)[i] = r
           /\ \A i \in 1 .. Cardinality(T) : Cardinality(Below(T, by, InOrder(T, by)[i])) = i - 1
  <1> DEFINE n == Cardinality(T)
             g == InOrder(T, by)
             rank(r) == Cardinality(Below(T, by, r))
             f == [r \in T |-> rank(r)]
  <1>1. IsFiniteSet(T) /\ n \in Nat /\ n <= m  BY SortableIsFinite
  <1>2. \A r \in T : rank(r) \in 0 .. n - 1  BY BelowIsSmaller
  <1>3. \A q, r \in T : q[by] < r[by] <=> rank(q) < rank(r)  BY BelowIsSmaller
  <1>4. \A r \in T : r[by] \in Nat  BY DEF Sortable
  <1>5. \A q, r \in T : q[by] = r[by] => q = r  BY DEF Sortable
  <1>6. g = [i \in 1 .. n |-> CHOOSE r \in T : rank(r) = i - 1]  BY DEF InOrder, Below
  <1> HIDE DEF g, rank
  <1>7. \A q, r \in T : rank(q) = rank(r) => q = r
    <2> TAKE q \in T, r \in T
    <2>1. rank(q) \in 0 .. n - 1 /\ rank(r) \in 0 .. n - 1 /\ q[by] \in Nat /\ r[by] \in Nat  BY <1>2, <1>4
    <2>2. /\ q[by] < r[by] <=> rank(q) < rank(r)
          /\ r[by] < q[by] <=> rank(r) < rank(q)
      BY <1>3
    <2>3. q[by] = r[by] => q = r  BY <1>5
    <2> HIDE DEF n
    <2> QED  BY <2>1, <2>2, <2>3, <1>1
  <1>8. f \in Injection(T, 0 .. n - 1)  BY <1>2, <1>7 DEF Injection, IsInjective
  <1>9. IsFiniteSet(0 .. n - 1) /\ Cardinality(0 .. n - 1) = n
    <2> HIDE DEF n
    <2>1. 0 \in Int /\ n - 1 \in Int /\ (IF 0 > n - 1 THEN 0 ELSE n - 1 - 0 + 1) = n  BY <1>1
    <2> QED  BY <2>1, FS_Interval
  <1>10. f \in Surjection(T, 0 .. n - 1)
    <2> HIDE DEF f
    <2> QED  BY <1>8, <1>9, FS_Injection
  <1>11. ASSUME NEW i \in 1 .. n PROVE g[i] \in T /\ rank(g[i]) = i - 1
    <2>1. i - 1 \in 0 .. n - 1  BY <1>1
    <2>2. \E r \in T : f[r] = i - 1  BY <1>10, <2>1 DEF Surjection
    <2>3. \E r \in T : rank(r) = i - 1  BY <2>2
    <2> QED  BY <1>6, <2>3
  <1>12. g \in [1 .. n -> T]
    <2>1. g = [i \in 1 .. n |-> g[i]]  BY <1>6
    <2> QED  BY <2>1, <1>11
  <1>13. \A i, j \in 1 .. n : i < j <=> g[i][by] < g[j][by]
    <2> TAKE i \in 1 .. n, j \in 1 .. n
    <2>1. rank(g[i]) = i - 1 /\ rank(g[j]) = j - 1 /\ g[i] \in T /\ g[j] \in T  BY <1>11
    <2>2. g[i][by] < g[j][by] <=> i - 1 < j - 1  BY <2>1, <1>3
    <2> HIDE DEF n
    <2> QED  BY <2>2
  <1>14. \A r \in T : \E i \in 1 .. n : g[i] = r
    <2> TAKE r \in T
    <2>1. PICK c \in 0 .. n - 1 : c = rank(r)  BY <1>2
    <2>2. PICK k \in 1 .. n : k - 1 = c
      <3> HIDE DEF n
      <3>1. c + 1 \in 1 .. n /\ c + 1 - 1 = c  BY <1>1
      <3> QED  BY <3>1
    <2>3. g[k] \in T /\ rank(g[k]) = rank(r)  BY <2>1, <2>2, <1>11
    <2> QED  BY <2>3, <1>7
  <1>15. g \in Seq(T) /\ Len(g) = n
    <2> HIDE DEF n
    <2> QED  BY <1>1, <1>12, FunctionIsSeq
  <1>16. n \in 0 .. m  BY <1>1
  <1> HIDE DEF n, f
  <1> QED  BY <1>11, <1>12, <1>13, <1>14, <1>15, <1>16 DEF g, rank, n

\* What lists the rows in ascending order is InOrder.
Lists(h, n, T, by) ==
    /\ h \in [1 .. n -> T]
    /\ \A i, j \in 1 .. n : i < j => h[i][by] < h[j][by]
    /\ \A r \in T : \E i \in 1 .. n : h[i] = r
LEMMA InOrderUnique ==
    ASSUME NEW T, NEW by, NEW m \in Nat, Sortable(T, by, m),
           NEW n \in Nat, NEW h, Lists(h, n, T, by)
    PROVE  Cardinality(T) = n /\ h = InOrder(T, by)
  <1>0. /\ h \in [1 .. n -> T]
        /\ \A i, j \in 1 .. n : i < j => h[i][by] < h[j][by]
        /\ \A r \in T : \E i \in 1 .. n : h[i] = r
    BY DEF Lists
  <1> USE <1>0
  <1>1. \A r \in T : r[by] \in Nat  BY DEF Sortable
  <1>2. ASSUME NEW k \in 0 .. n
        PROVE  LET U == {h[j] : j \in 1 .. k} IN IsFiniteSet(U) /\ Cardinality(U) = k
    <2> DEFINE U == {h[j] : j \in 1 .. k}
               f == [j \in 1 .. k |-> h[j]]
    <2>1. k \in Nat  OBVIOUS
    <2>2. \A i, j \in 1 .. k : h[i] = h[j] => i = j
      <3> TAKE i \in 1 .. k, j \in 1 .. k
      <3>1. i \in 1 .. n /\ j \in 1 .. n  OBVIOUS
      <3>2. h[i][by] \in Nat /\ h[j][by] \in Nat  BY <1>1, <3>1
      <3> QED  BY <3>1, <3>2
    <2>3. f \in Injection(1 .. k, U)  BY <2>2 DEF Injection, IsInjective
    <2>4. f \in Surjection(1 .. k, U)  BY DEF Surjection
    <2>5. ExistsBijection(1 .. k, U)  BY <2>3, <2>4 DEF ExistsBijection, Bijection
    <2>6. Cardinality(U) = k  BY <2>1, <2>5, FS_CountingElements
    <2>7. IsFiniteSet(U)  BY <2>1, <2>5, FS_NatBijection
    <2> QED  BY <2>6, <2>7
  <1>3. Cardinality(T) = n
    <2>1. T = {h[j] : j \in 1 .. n}  OBVIOUS
    <2>2. n \in 0 .. n  OBVIOUS
    <2> QED  BY <1>2, <2>1, <2>2
  <1>4. ASSUME NEW i \in 1 .. n PROVE Cardinality(Below(T, by, h[i])) = i - 1
    <2>1. Below(T, by, h[i]) = {h[j] : j \in 1 .. i - 1}
      <3>1. ASSUME NEW r \in Below(T, by, h[i]) PROVE r \in {h[j] : j \in 1 .. i - 1}
        <4>1. r \in T /\ r[by] < h[i][by]  BY DEF Below
        <4>2. PICK j \in 1 .. n : h[j] = r  BY <4>1
        <4>3. h[i][by] \in Nat /\ r[by] \in Nat  BY <1>1, <4>1
        <4>4. j < i
          <5>1. i < j => h[i][by] < h[j][by]  OBVIOUS
          <5>2. i # j /\ ~(i < j)  BY <4>1, <4>2, <4>3, <5>1
          <5> QED  BY <5>2
        <4> QED  BY <4>2, <4>4
      <3>2. ASSUME NEW j \in 1 .. i - 1 PROVE h[j] \in Below(T, by, h[i])
        <4>1. j \in 1 .. n /\ j < i  OBVIOUS
        <4> QED  BY <4>1 DEF Below
      <3> QED  BY <3>1, <3>2
    <2>2. i - 1 \in 0 .. n  OBVIOUS
    <2> QED  BY <1>2, <2>1, <2>2
  <1> DEFINE g == InOrder(T, by)
  <1>5. g \in [1 .. n -> T] /\ \A i \in 1 .. n : Cardinality(Below(T, by, g[i])) = i - 1
    BY <1>3, InOrderSorts
  <1> HIDE DEF g
  <1>6. ASSUME NEW i \in 1 .. n PROVE h[i] = g[i]
    <2>1. h[i] \in T /\ g[i] \in T  BY <1>5
    <2>2. Cardinality(Below(T, by, g[i])) = i - 1 /\ Cardinality(Below(T, by, h[i])) = i - 1  BY <1>4, <1>5
    <2>3. /\ h[i][by] < g[i][by] => i - 1 < i - 1
          /\ g[i][by] < h[i][by] => i - 1 < i - 1
      BY <2>1, <2>2, BelowIsSmaller
    <2>4. h[i][by] = g[i][by]  BY <2>1, <2>3, <1>1
    <2> QED  BY <2>1, <2>4 DEF Sortable
  <1>7. h = g  BY <1>5, <1>6
  <1> QED  BY <1>3, <1>7 DEF g

\* The rows and tables of a scope.
Entry  == [id : Ids, parent : Ids \cup {Null}, type : Types, seq : Nat]
Usage  == [id : Ids, seq : Nat]
Cell   == [key : Keys, seq : Nat]
Tables == [next : Nat \ {0}, messages : Nat, entries : SUBSET Entry, usage : SUBSET Usage,
           values : SUBSET Cell, lists : SUBSET Cell]

\* The tables of a scope as its commits leave them: numbered once each, below next, and every
\* entry after the one it names as its parent. (No number is both an entry's and a value's: a
\* fork copies the two in the order of their numbers.)
Sound(p) ==
    /\ p \in Tables
    /\ Sortable(p.entries, "seq", p.next - 1)
    /\ Sortable(p.usage, "seq", p.next - 1)
    /\ Sortable(p.values, "seq", p.next - 1)
    /\ Sortable(p.lists, "seq", p.next - 1)
    /\ \A e \in p.entries, v \in p.values : e.seq # v.seq
    /\ \A d, e \in p.entries : d.id = e.id => d = e
    /\ \A e \in p.entries : e.parent # Null => \E d \in p.entries : d.id = e.parent /\ d.seq < e.seq

\* The writes of a commit, numbered.
Committed ==
    [kind : {"entry"}, id : Ids, parent : Ids \cup {Null}, type : Types, seq : Nat]
    \cup [kind : {"usage"}, id : Ids, seq : Nat]
    \cup [kind : {"set", "delete", "append", "clear"}, key : Keys, seq : Nat]

\* The row an entry's write becomes.
EntryOf(w) == [id |-> w.id, parent |-> w.parent, type |-> w.type, seq |-> w.seq]

\* A row with the next number keeps a table sortable, whatever else is removed.
LEMMA SortableGrows ==
    ASSUME NEW T, NEW m \in Nat, Sortable(T, "seq", m), NEW row, row.seq = m + 1,
           NEW U \in SUBSET (T \cup {row})
    PROVE  Sortable(U, "seq", m + 1)
  <1>1. \A r \in T : r.seq \in 1 .. m  BY DEF Sortable
  <1>2. \A q, r \in T : q.seq = r.seq => q = r  BY DEF Sortable
  <1>3. \A r \in U : r.seq \in 1 .. m + 1  BY <1>1
  <1>4. \A q, r \in U : q.seq = r.seq => q = r
    <2> TAKE q \in U, r \in U
    <2>1. (q \in T \/ q = row) /\ (r \in T \/ r = row)  OBVIOUS
    <2>2. m + 1 \notin 1 .. m  OBVIOUS
    <2> QED  BY <2>1, <2>2, <1>1, <1>2
  <1> QED  BY <1>3, <1>4 DEF Sortable

\* The fields of tables that were changed.
LEMMA TablesUpdated ==
    ASSUME NEW p \in Tables, NEW q, NEW m \in Nat, NEW e \in SUBSET Entry, NEW u \in SUBSET Usage,
           NEW v \in SUBSET Cell, NEW l \in SUBSET Cell,
           q = [next |-> p.next + 1, messages |-> m, entries |-> e, usage |-> u, values |-> v, lists |-> l]
    PROVE  /\ q \in Tables /\ q.next = p.next + 1 /\ q.entries = e /\ q.usage = u
           /\ q.values = v /\ q.lists = l
  <1>1. p.next + 1 \in Nat \ {0}  BY DEF Tables
  <1> QED  BY <1>1 DEF Tables

\* What a write that is taken does to each table.
LEMMA ApplyFields ==
    ASSUME NEW p \in Tables, NEW w \in Committed, Apply(p, w) # Refused
    PROVE  /\ Valid(p, w) /\ w.seq = p.next
           /\ Apply(p, w) \in Tables /\ Apply(p, w).next = p.next + 1
           /\ Apply(p, w).entries = p.entries \cup IF w.kind = "entry" THEN {EntryOf(w)} ELSE {}
           /\ \E r : r.seq = p.next /\ Apply(p, w).usage \subseteq p.usage \cup {r}
           /\ w.kind = "entry" => Apply(p, w).values = p.values
           /\ \E r : r.seq = p.next /\ Apply(p, w).values \subseteq p.values \cup {r}
           /\ \E r : r.seq = p.next /\ Apply(p, w).lists \subseteq p.lists \cup {r}
  <1>1. Valid(p, w) /\ Apply(p, w) = [Project(p, w) EXCEPT !.next = @ + 1]  BY DEF Apply
  <1>2. w.seq = p.next  BY <1>1 DEF Valid
  <1>3. \E r : r.seq = p.next
    <2>1. [seq |-> p.next].seq = p.next  OBVIOUS
    <2> QED  BY <2>1
  <1>8. /\ p.messages \in Nat /\ p.entries \in SUBSET Entry /\ p.usage \in SUBSET Usage
        /\ p.values \in SUBSET Cell /\ p.lists \in SUBSET Cell
    BY DEF Tables
  <1> DEFINE q == Apply(p, w)
  <1>4. CASE w.kind = "entry"
    <2>1. w \in [kind : {"entry"}, id : Ids, parent : Ids \cup {Null}, type : Types, seq : Nat]
      BY <1>4 DEF Committed
    <2>2. EntryOf(w) \in Entry  BY <2>1 DEF EntryOf, Entry
    <2>3. q = [[p EXCEPT !.entries = @ \cup {EntryOf(w)},
                         !.messages = @ + IF w.type = "message" THEN 1 ELSE 0] EXCEPT !.next = @ + 1]
      BY <1>1, <1>4 DEF Project, EntryOf
    <2> HIDE DEF q
    <2> DEFINE m == p.messages + IF w.type = "message" THEN 1 ELSE 0
               e == p.entries \cup {EntryOf(w)}
    <2>5. m \in Nat /\ e \in SUBSET Entry  BY <2>2, <1>8
    <2> HIDE DEF m, e
    <2> DEFINE a == [p EXCEPT !.entries = e]
    <2>8. a = [next |-> p.next, messages |-> p.messages, entries |-> e, usage |-> p.usage,
               values |-> p.values, lists |-> p.lists]
      BY DEF Tables
    <2>9. [p EXCEPT !.entries = e, !.messages = m] = [a EXCEPT !.messages = m]
      OBVIOUS
    <2> HIDE DEF a
    <2>10. a \in Tables /\ a.next = p.next /\ a.entries = e /\ a.usage = p.usage /\ a.values = p.values
           /\ a.lists = p.lists
      BY <2>5, <2>8 DEF Tables
    <2>11. [a EXCEPT !.messages = m]
           = [next |-> a.next, messages |-> m, entries |-> a.entries, usage |-> a.usage,
              values |-> a.values, lists |-> a.lists]
      BY <2>10 DEF Tables
    <2>6. [p EXCEPT !.entries = e, !.messages = m]
          = [next |-> p.next, messages |-> m, entries |-> e, usage |-> p.usage, values |-> p.values,
             lists |-> p.lists]
      BY <2>9, <2>10, <2>11
    <2>7. q = [next |-> p.next + 1, messages |-> m, entries |-> e, usage |-> p.usage,
               values |-> p.values, lists |-> p.lists]
      BY <2>3, <2>6 DEF e, m
    <2>4. /\ q \in Tables /\ q.next = p.next + 1 /\ q.entries = p.entries \cup {EntryOf(w)}
          /\ q.usage = p.usage /\ q.values = p.values /\ q.lists = p.lists
      BY <1>8, <2>5, <2>7, TablesUpdated DEF e
    <2> QED  BY <1>1, <1>2, <1>3, <1>4, <2>4 DEF q
  <1>5. CASE w.kind = "usage"
    <2>1. w \in [kind : {"usage"}, id : Ids, seq : Nat]  BY <1>5 DEF Committed
    <2> DEFINE r == [id |-> w.id, seq |-> w.seq]
    <2>2. r \in Usage /\ r.seq = p.next  BY <2>1, <1>2 DEF Usage
    <2>3. q = [[p EXCEPT !.usage = @ \cup {r}] EXCEPT !.next = @ + 1]
      BY <1>1, <1>5 DEF Project
    <2> HIDE DEF q, r
    <2> DEFINE u == p.usage \cup {r}
    <2>5. u \in SUBSET Usage  BY <2>2, <1>8
    <2> HIDE DEF u
    <2>6. [p EXCEPT !.usage = u]
          = [next |-> p.next, messages |-> p.messages, entries |-> p.entries, usage |-> u,
             values |-> p.values, lists |-> p.lists]
      BY DEF Tables
    <2>7. q = [next |-> p.next + 1, messages |-> p.messages, entries |-> p.entries, usage |-> u,
               values |-> p.values, lists |-> p.lists]
      BY <2>3, <2>6 DEF u
    <2>4. /\ q \in Tables /\ q.next = p.next + 1 /\ q.entries = p.entries
          /\ q.usage = p.usage \cup {r} /\ q.values = p.values /\ q.lists = p.lists
      BY <1>8, <2>5, <2>7, TablesUpdated DEF u
    <2> QED  BY <1>1, <1>2, <1>3, <1>5, <2>2, <2>4 DEF q
  <1>6. CASE w.kind \in {"set", "delete", "append", "clear"}
    <2>1. w \in [kind : {"set", "delete", "append", "clear"}, key : Keys, seq : Nat]
      BY <1>6 DEF Committed
    <2> DEFINE r == [key |-> w.key, seq |-> w.seq]
    <2>2. r \in Cell /\ r.seq = p.next  BY <2>1, <1>2 DEF Cell
    <2>3. \E v, l \in SUBSET Cell :
             /\ q = [[p EXCEPT !.values = v, !.lists = l] EXCEPT !.next = @ + 1]
             /\ v \subseteq p.values \cup {r} /\ l \subseteq p.lists \cup {r}
      <3>1. p = [p EXCEPT !.values = p.values] /\ p = [p EXCEPT !.lists = p.lists]  BY DEF Tables
      <3>2. p.values \in SUBSET Cell /\ p.lists \in SUBSET Cell  BY DEF Tables
      <3>3. CASE w.kind = "set"
        <4> DEFINE v == (p.values \ At(p.values, w.key)) \cup {r}
        <4>1. q = [[p EXCEPT !.values = v] EXCEPT !.next = @ + 1]  BY <1>1, <3>3 DEF Project
        <4>2. v \in SUBSET Cell /\ v \subseteq p.values \cup {r}  BY <3>2, <2>2
        <4> HIDE DEF v, q
        <4>3. [p EXCEPT !.values = v] = [p EXCEPT !.values = v, !.lists = p.lists]  BY DEF Tables
        <4> QED  BY <4>1, <4>2, <4>3, <3>2
      <3>4. CASE w.kind = "delete"
        <4> DEFINE v == p.values \ At(p.values, w.key)
        <4>1. q = [[p EXCEPT !.values = v] EXCEPT !.next = @ + 1]  BY <1>1, <3>4 DEF Project
        <4>2. v \in SUBSET Cell /\ v \subseteq p.values \cup {r}  BY <3>2
        <4> HIDE DEF v, q
        <4>3. [p EXCEPT !.values = v] = [p EXCEPT !.values = v, !.lists = p.lists]  BY DEF Tables
        <4> QED  BY <4>1, <4>2, <4>3, <3>2
      <3>5. CASE w.kind = "append"
        <4> DEFINE l == p.lists \cup {r}
        <4>1. q = [[p EXCEPT !.lists = l] EXCEPT !.next = @ + 1]  BY <1>1, <3>5 DEF Project
        <4>2. l \in SUBSET Cell /\ l \subseteq p.lists \cup {r}  BY <3>2, <2>2
        <4> HIDE DEF l, q
        <4>3. [p EXCEPT !.lists = l] = [p EXCEPT !.values = p.values, !.lists = l]  BY DEF Tables
        <4> QED  BY <4>1, <4>2, <4>3, <3>2
      <3>6. CASE w.kind = "clear"
        <4> DEFINE l == p.lists \ At(p.lists, w.key)
        <4>1. q = [[p EXCEPT !.lists = l] EXCEPT !.next = @ + 1]  BY <1>1, <3>6 DEF Project
        <4>2. l \in SUBSET Cell /\ l \subseteq p.lists \cup {r}  BY <3>2
        <4> HIDE DEF l, q
        <4>3. [p EXCEPT !.lists = l] = [p EXCEPT !.values = p.values, !.lists = l]  BY DEF Tables
        <4> QED  BY <4>1, <4>2, <4>3, <3>2
      <3> QED  BY <1>6, <3>3, <3>4, <3>5, <3>6
    <2> HIDE DEF q, r
    <2>4. PICK v \in SUBSET Cell, l \in SUBSET Cell :
             /\ q = [[p EXCEPT !.values = v, !.lists = l] EXCEPT !.next = @ + 1]
             /\ v \subseteq p.values \cup {r} /\ l \subseteq p.lists \cup {r}
      BY <2>3
    <2> DEFINE a == [p EXCEPT !.values = v]
    <2>8. a = [next |-> p.next, messages |-> p.messages, entries |-> p.entries, usage |-> p.usage,
               values |-> v, lists |-> p.lists]
      BY DEF Tables
    <2>9. [p EXCEPT !.values = v, !.lists = l] = [a EXCEPT !.lists = l]
      OBVIOUS
    <2> HIDE DEF a
    <2>10. a \in Tables /\ a.next = p.next /\ a.messages = p.messages /\ a.entries = p.entries
           /\ a.usage = p.usage /\ a.values = v
      BY <2>8 DEF Tables
    <2>11. [a EXCEPT !.lists = l]
           = [next |-> a.next, messages |-> a.messages, entries |-> a.entries, usage |-> a.usage,
              values |-> a.values, lists |-> l]
      BY <2>10 DEF Tables
    <2>6. [p EXCEPT !.values = v, !.lists = l]
          = [next |-> p.next, messages |-> p.messages, entries |-> p.entries, usage |-> p.usage,
             values |-> v, lists |-> l]
      BY <2>9, <2>10, <2>11
    <2>7. q = [next |-> p.next + 1, messages |-> p.messages, entries |-> p.entries, usage |-> p.usage,
               values |-> v, lists |-> l]
      BY <2>4, <2>6
    <2>5. /\ q \in Tables /\ q.next = p.next + 1 /\ q.entries = p.entries
          /\ q.usage = p.usage /\ q.values = v /\ q.lists = l
      BY <1>8, <2>7, TablesUpdated
    <2> QED  BY <1>1, <1>2, <1>3, <1>6, <2>2, <2>4, <2>5 DEF q
  <1>7. w.kind = "entry" \/ w.kind = "usage" \/ w.kind \in {"set", "delete", "append", "clear"}
    BY DEF Committed
  <1> QED  BY <1>4, <1>5, <1>6, <1>7

\* A write that is taken keeps the tables sound.
LEMMA ApplySound ==
    ASSUME NEW p, Sound(p), NEW w \in Committed, Apply(p, w) # Refused
    PROVE  Sound(Apply(p, w))
  <1> DEFINE q == Apply(p, w)
             m == p.next - 1
  <1>1. p \in Tables /\ p.next \in Nat \ {0} /\ m \in Nat /\ m + 1 = p.next  BY DEF Sound, Tables
  <1>2. /\ Valid(p, w) /\ w.seq = p.next
        /\ q \in Tables /\ q.next = p.next + 1
        /\ q.entries = p.entries \cup IF w.kind = "entry" THEN {EntryOf(w)} ELSE {}
        /\ \E r : r.seq = p.next /\ q.usage \subseteq p.usage \cup {r}
        /\ w.kind = "entry" => q.values = p.values
        /\ \E r : r.seq = p.next /\ q.values \subseteq p.values \cup {r}
        /\ \E r : r.seq = p.next /\ q.lists \subseteq p.lists \cup {r}
    BY <1>1, ApplyFields
  <1>3. EntryOf(w).seq = p.next /\ EntryOf(w).id = w.id /\ EntryOf(w).parent = w.parent
    BY <1>2 DEF EntryOf
  <1>4. q.next - 1 = m + 1  BY <1>1, <1>2
  <1>5. \E r : r.seq = p.next /\ q.entries \subseteq p.entries \cup {r}  BY <1>2, <1>3
  <1> HIDE DEF q, m
  <1>6. ASSUME NEW T, NEW U, Sortable(T, "seq", m), \E r : r.seq = p.next /\ U \subseteq T \cup {r}
        PROVE  Sortable(U, "seq", q.next - 1)
    <2>1. PICK r : r.seq = m + 1 /\ U \subseteq T \cup {r}  BY <1>6, <1>1
    <2> QED  BY <2>1, <1>1, <1>4, <1>6, SortableGrows
  <1>7. /\ Sortable(p.entries, "seq", m) /\ Sortable(p.usage, "seq", m)
        /\ Sortable(p.values, "seq", m) /\ Sortable(p.lists, "seq", m)
    BY DEF Sound, m
  <1>8. /\ Sortable(q.entries, "seq", q.next - 1) /\ Sortable(q.usage, "seq", q.next - 1)
        /\ Sortable(q.values, "seq", q.next - 1) /\ Sortable(q.lists, "seq", q.next - 1)
    BY <1>2, <1>5, <1>6, <1>7
  <1>9. \A e \in p.entries : e.seq \in 1 .. m  BY <1>7 DEF Sortable
  <1>10. \A v \in p.values : v.seq \in 1 .. m  BY <1>7 DEF Sortable
  <1>11. p.next \notin 1 .. m  BY <1>1
  <1>12. \A e \in q.entries, v \in q.values : e.seq # v.seq
    <2>1. \A e \in p.entries, v \in p.values : e.seq # v.seq  BY DEF Sound
    <2>2. CASE w.kind = "entry"
      <3>1. q.values = p.values /\ q.entries = p.entries \cup {EntryOf(w)}  BY <1>2, <2>2
      <3> QED  BY <3>1, <2>1, <1>3, <1>10, <1>11
    <2>3. CASE w.kind # "entry"
      <3>1. q.entries = p.entries  BY <1>2, <2>3
      <3>2. PICK r : r.seq = p.next /\ q.values \subseteq p.values \cup {r}  BY <1>2
      <3> QED  BY <3>1, <3>2, <2>1, <1>9, <1>11
    <2> QED  BY <2>2, <2>3
  <1>13. \A d, e \in q.entries : d.id = e.id => d = e
    <2>1. \A d, e \in p.entries : d.id = e.id => d = e  BY DEF Sound
    <2>2. CASE w.kind = "entry"
      <3>1. \A e \in p.entries : e.id # w.id  BY <1>2, <2>2 DEF Valid, EntryIds
      <3>2. q.entries = p.entries \cup {EntryOf(w)}  BY <1>2, <2>2
      <3> QED  BY <3>1, <3>2, <2>1, <1>3
    <2>3. CASE w.kind # "entry"
      BY <1>2, <2>1, <2>3
    <2> QED  BY <2>2, <2>3
  <1>14. \A e \in q.entries : e.parent # Null => \E d \in q.entries : d.id = e.parent /\ d.seq < e.seq
    <2>1. \A e \in p.entries : e.parent # Null => \E d \in p.entries : d.id = e.parent /\ d.seq < e.seq
      BY DEF Sound
    <2>2. CASE w.kind = "entry"
      <3>1. w.parent # Null => \E d \in p.entries : d.id = w.parent  BY <1>2, <2>2 DEF Valid, EntryIds
      <3>2. q.entries = p.entries \cup {EntryOf(w)}  BY <1>2, <2>2
      <3>3. \A d \in p.entries : d.seq < p.next  BY <1>1, <1>9
      <3>4. w.parent # Null => \E d \in q.entries : d.id = EntryOf(w).parent /\ d.seq < EntryOf(w).seq
        BY <3>1, <3>2, <3>3, <1>3
      <3> QED  BY <3>2, <3>4, <2>1, <1>3
    <2>3. CASE w.kind # "entry"
      BY <1>2, <2>1, <2>3
    <2> QED  BY <2>2, <2>3
  <1> QED  BY <1>2, <1>8, <1>12, <1>13, <1>14 DEF Sound, q

\* A batch is a chain of writes, each applied to what the one before it left.
LEMMA ApplyAllChain ==
    ASSUME NEW p, NEW w, NEW n \in Nat, DOMAIN w = 1 .. n
    PROVE  \E f : Chain("write", f, p, w, n) /\ f[n] = ApplyAll(p, w)
  <1>1. PICK f : Chain("write", f, p, w, n) /\ f[n] = FoldOf("write", p, w, n)
    BY FoldChain
  <1> QED  BY <1>1, ApplyAllIs

\* The tables that a journal rebuilds.
ReplayOf(j) == FoldLeft(LAMBDA p, c : IF Whole(p, c) THEN ApplyAll(p, c.writes) ELSE Refused, Empty, j)

\* ReplayOf is a fold over commits.
LEMMA ReplayOfIs ==
    ASSUME NEW j, NEW n \in Nat, DOMAIN j = 1 .. n
    PROVE  ReplayOf(j) = FoldOf("commit", Empty, j, n)
  BY DEF FoldOf, ReplayOf, FoldLeft, MapThenFoldSet, Folds, Step

\* Replay is ReplayOf the scope's journal.
LEMMA ReplayIsOf ==
    ASSUME NEW s
    PROVE  Replay(s) = ReplayOf(journal[s])
  BY DEF Replay, ReplayOf

\* No commits rebuild empty tables.
LEMMA ReplayOfNothing == ReplayOf(<<>>) = Empty
  <1>1. DOMAIN <<>> = 1 .. 0 /\ 0 \in Nat  OBVIOUS
  <1>2. PICK f : Chain("commit", f, Empty, <<>>, 0) /\ f[0] = FoldOf("commit", Empty, <<>>, 0)
    BY <1>1, FoldChain
  <1>3. ReplayOf(<<>>) = FoldOf("commit", Empty, <<>>, 0)  BY <1>1, ReplayOfIs
  <1>4. f[0] = Empty  BY <1>2 DEF Chain
  <1> QED  BY <1>2, <1>3, <1>4

\* One more commit is replayed upon what the ones before it rebuild.
LEMMA ReplayOfAppend ==
    ASSUME NEW j, NEW a, NEW c, NEW n \in Nat, DOMAIN j = 1 .. n, DOMAIN a = 1 .. n + 1,
           \A i \in 1 .. n : a[i] = j[i], a[n + 1] = c
    PROVE  ReplayOf(a) = IF Whole(ReplayOf(j), c) THEN ApplyAll(ReplayOf(j), c.writes) ELSE Refused
  <1>1. PICK f : Chain("commit", f, Empty, j, n) /\ f[n] = FoldOf("commit", Empty, j, n)
    BY FoldChain
  <1>2. n + 1 \in Nat /\ n <= n + 1 /\ n + 1 - 1 = n /\ n + 1 \in 1 .. n + 1 /\ n \in 0 .. n  OBVIOUS
  <1>3. PICK h : Chain("commit", h, Empty, a, n + 1)
                 /\ h[n + 1] = FoldOf("commit", Empty, a, n + 1)
    BY <1>2, FoldChain
  <1>4. \A i \in 1 .. n : j[i] = a[i]  OBVIOUS
  <1>5. f[n] = h[n]  BY <1>1, <1>2, <1>3, <1>4, ChainsAgree
  <1>6. ReplayOf(j) = f[n] /\ ReplayOf(a) = h[n + 1]  BY <1>1, <1>2, <1>3, ReplayOfIs
  <1>7. h[n + 1] = Step("commit", h[n], c)  BY <1>2, <1>3 DEF Chain
  <1> QED  BY <1>5, <1>6, <1>7 DEF Step

\* Nothing follows upon a write that was refused.
LEMMA ChainNotRefused ==
    ASSUME NEW p, NEW w, NEW n \in Nat, NEW f, Chain("write", f, p, w, n), f[n] # Refused
    PROVE  \A i \in 0 .. n : f[i] # Refused
  <1> DEFINE S == {k \in Nat : k <= n => f[n - k] # Refused}
  <1>1. 0 \in S
    <2>1. n - 0 = n  OBVIOUS
    <2> QED  BY <2>1
  <1>2. ASSUME NEW k \in S PROVE k + 1 \in S
    <2> SUFFICES ASSUME k + 1 <= n PROVE f[n - (k + 1)] # Refused  OBVIOUS
    <2>1. PICK i \in 1 .. n : i = n - k  OBVIOUS
    <2>2. n - (k + 1) = i - 1  BY <2>1
    <2>3. f[i] # Refused  BY <2>1
    <2>4. f[i] = Apply(f[i - 1], w[i])  BY DEF Chain, Step
    <2>5. f[i - 1] # Refused  BY <2>3, <2>4 DEF Apply
    <2> QED  BY <2>2, <2>5
  <1>3. S = Nat  BY <1>1, <1>2, NatSets
  <1> TAKE i \in 0 .. n
  <1>4. n - i \in Nat /\ n - i <= n /\ n - (n - i) = i  OBVIOUS
  <1>5. n - i \in S  BY <1>3, <1>4
  <1> QED  BY <1>4, <1>5

\* A batch of n writes that is taken, as a chain.
Taken(f, p, w, n) ==
    (\A i \in 1 .. n : w[i] \in Committed) /\ Chain("write", f, p, w, n) /\ f[n] # Refused

\* Along a batch that is taken, the tables stay sound and every write has the next number.
LEMMA ChainSound ==
    ASSUME NEW p, Sound(p), NEW w, NEW n \in Nat, NEW f, Taken(f, p, w, n)
    PROVE  /\ \A i \in 0 .. n : Sound(f[i]) /\ f[i].next = p.next + i
           /\ \A i \in 1 .. n : f[i] = Apply(f[i - 1], w[i]) /\ f[i] # Refused
  <1> (\A i \in 1 .. n : w[i] \in Committed) /\ Chain("write", f, p, w, n) /\ f[n] # Refused
    BY DEF Taken
  <1> DEFINE S == {i \in Nat : i <= n => Sound(f[i]) /\ f[i].next = p.next + i}
  <1>1. p.next \in Nat  BY DEF Sound, Tables
  <1>2. 0 \in S
    <2>1. f[0] = p /\ p.next + 0 = p.next  BY <1>1 DEF Chain
    <2> QED  BY <2>1
  <1>3. \A i \in 1 .. n : f[i] = Apply(f[i - 1], w[i]) /\ f[i] # Refused
    <2>1. \A i \in 0 .. n : f[i] # Refused  BY ChainNotRefused
    <2>2. \A i \in 1 .. n : f[i] = Apply(f[i - 1], w[i])  BY DEF Chain, Step
    <2> QED  BY <2>1, <2>2
  <1>4. ASSUME NEW i \in S PROVE i + 1 \in S
    <2> SUFFICES ASSUME i + 1 <= n PROVE Sound(f[i + 1]) /\ f[i + 1].next = p.next + (i + 1)  OBVIOUS
    <2>1. i \in Nat /\ i + 1 \in 1 .. n /\ i + 1 - 1 = i /\ Sound(f[i]) /\ f[i].next = p.next + i  OBVIOUS
    <2>2. f[i + 1] = Apply(f[i], w[i + 1]) /\ f[i + 1] # Refused /\ w[i + 1] \in Committed
      BY <2>1, <1>3
    <2>3. Sound(f[i + 1])  BY <2>1, <2>2, ApplySound
    <2>4. f[i] \in Tables  BY <2>1 DEF Sound
    <2>5. f[i + 1].next = f[i].next + 1  BY <2>2, <2>4, ApplyFields
    <2> QED  BY <2>1, <2>3, <2>5, <1>1
  <1>5. S = Nat  BY <1>2, <1>4, NatSets
  <1> QED  BY <1>3, <1>5

\* A batch that is taken keeps the tables sound and takes a number for each write.
LEMMA BatchSound ==
    ASSUME NEW p, Sound(p), NEW w, w \in Seq(Committed), ApplyAll(p, w) # Refused
    PROVE  Sound(ApplyAll(p, w)) /\ ApplyAll(p, w).next = p.next + Len(w)
  <1> DEFINE n == Len(w)
  <1>1. n \in Nat /\ DOMAIN w = 1 .. n /\ \A i \in 1 .. n : w[i] \in Committed  BY LenProperties
  <1> HIDE DEF n
  <1>2. PICK f : Chain("write", f, p, w, n) /\ f[n] = ApplyAll(p, w)  BY <1>1, ApplyAllChain
  <1>3. n \in 0 .. n  BY <1>1
  <1>4. Taken(f, p, w, n)  BY <1>1, <1>2 DEF Taken
  <1>5. \A i \in 0 .. n : Sound(f[i]) /\ f[i].next = p.next + i  BY <1>1, <1>4, ChainSound
  <1> QED  BY <1>2, <1>3, <1>5 DEF n

\* Numbering a batch gives its writes the numbers from next_seq on.
LEMMA NumberedCommitted ==
    ASSUME NEW s, nextSeq[s] \in Nat, NEW writes, writes \in Seq(Committed)
    PROVE  /\ Numbered(s, writes) \in Seq(Committed) /\ Len(Numbered(s, writes)) = Len(writes)
           /\ \A i \in 1 .. Len(writes) : Numbered(s, writes)[i] = [writes[i] EXCEPT !.seq = nextSeq[s] + i - 1]
  <1> DEFINE n == Len(writes)
             h == [i \in 1 .. n |-> [writes[i] EXCEPT !.seq = nextSeq[s] + i - 1]]
  <1>1. n \in Nat /\ \A i \in 1 .. n : writes[i] \in Committed  BY LenProperties
  <1>2. ASSUME NEW w \in Committed, NEW k \in Nat PROVE [w EXCEPT !.seq = k] \in Committed
    <2>1. CASE w \in [kind : {"entry"}, id : Ids, parent : Ids \cup {Null}, type : Types, seq : Nat]
      <3>1. [w EXCEPT !.seq = k] \in [kind : {"entry"}, id : Ids, parent : Ids \cup {Null}, type : Types, seq : Nat]
        BY <2>1
      <3> QED  BY <3>1 DEF Committed
    <2>2. CASE w \in [kind : {"usage"}, id : Ids, seq : Nat]
      <3>1. [w EXCEPT !.seq = k] \in [kind : {"usage"}, id : Ids, seq : Nat]  BY <2>2
      <3> QED  BY <3>1 DEF Committed
    <2>3. CASE w \in [kind : {"set", "delete", "append", "clear"}, key : Keys, seq : Nat]
      <3>1. [w EXCEPT !.seq = k] \in [kind : {"set", "delete", "append", "clear"}, key : Keys, seq : Nat]
        BY <2>3
      <3> QED  BY <3>1 DEF Committed
    <2> QED  BY <2>1, <2>2, <2>3 DEF Committed
  <1> HIDE DEF n
  <1>3. \A i \in 1 .. n : nextSeq[s] + i - 1 \in Nat  BY <1>1
  <1>4. h \in [1 .. n -> Committed]  BY <1>1, <1>2, <1>3
  <1>5. h \in Seq(Committed) /\ Len(h) = n  BY <1>1, <1>4, FunctionIsSeq
  <1>6. Numbered(s, writes) = h  BY DEF Numbered, n
  <1>7. \A i \in 1 .. n : h[i] = [writes[i] EXCEPT !.seq = nextSeq[s] + i - 1]  OBVIOUS
  <1> QED  BY <1>5, <1>6, <1>7 DEF n

\* Every scope's tables are sound, have the journal's next number and are what it rebuilds.
Stored ==
    /\ rows \in [Scopes -> Tables]
    /\ \A s \in Scopes : /\ Sound(rows[s]) /\ rows[s].next = nextSeq[s]
                         /\ ReplayOf(journal[s]) = rows[s]

\* Every commit has at least one number, the first begins with 1, each follows on from the
\* one before it and next_seq on from the last.
GapFree(j, next) ==
    /\ \A i \in DOMAIN j : /\ j[i].first \in Nat \ {0} /\ j[i].last \in Nat
                           /\ j[i].first <= j[i].last
                           /\ j[i].first = IF i = 1 THEN 1 ELSE j[i - 1].last + 1
    /\ next = IF j = <<>> THEN 1 ELSE j[Len(j)].last + 1

\* A journal is a sequence.
IsJournal(j) == \E S : j \in Seq(S)

\* Every scope has a journal without a gap.
Journalled ==
    /\ nextSeq \in [Scopes -> Nat \ {0}]
    /\ DOMAIN journal = Scopes
    /\ \A s \in Scopes : IsJournal(journal[s]) /\ GapFree(journal[s], nextSeq[s])

\* A journal stays one when a commit is appended to it, and keeps what it had.
LEMMA AppendToJournal ==
    ASSUME NEW j, IsJournal(j), NEW c
    PROVE  /\ IsJournal(Append(j, c))
           /\ Len(Append(j, c)) = Len(j) + 1 /\ Len(j) \in Nat
           /\ DOMAIN j = 1 .. Len(j) /\ DOMAIN Append(j, c) = 1 .. Len(j) + 1
           /\ \A i \in DOMAIN j : Append(j, c)[i] = j[i]
           /\ Append(j, c)[Len(j) + 1] = c
           /\ Append(j, c) # <<>>
  <1>1. PICK S : j \in Seq(S)  BY DEF IsJournal
  <1>2. j \in Seq(S \cup {c})
    <2>1. Len(j) \in Nat /\ DOMAIN j = 1 .. Len(j) /\ j \in [1 .. Len(j) -> S]
      BY <1>1, LenProperties
    <2>2. j \in [1 .. Len(j) -> S \cup {c}]  BY <2>1
    <2> QED  BY <2>1, <2>2
  <1>3. Append(j, c) \in Seq(S \cup {c})  BY <1>2, AppendProperties
  <1>4. Len(Append(j, c)) = Len(j) + 1 /\ Append(j, c)[Len(j) + 1] = c
        /\ \A i \in 1 .. Len(j) : Append(j, c)[i] = j[i]
    BY <1>2, AppendProperties
  <1>5. Len(j) \in Nat /\ DOMAIN j = 1 .. Len(j)  BY <1>1, LenProperties
  <1>6. DOMAIN Append(j, c) = 1 .. Len(j) + 1  BY <1>3, <1>4, LenProperties
  <1>7. Append(j, c) # <<>>  BY <1>4, <1>5
  <1> QED  BY <1>3, <1>4, <1>5, <1>6, <1>7 DEF IsJournal

\* An interval from 1 has one length.
LEMMA SameInterval ==
    ASSUME NEW m \in Nat, NEW n \in Nat, 1 .. m = 1 .. n
    PROVE  m = n
  <1>1. \A k \in Nat : 1 <= k /\ k <= m <=> 1 <= k /\ k <= n
    <2>1. \A k : k \in 1 .. m <=> k \in 1 .. n  OBVIOUS
    <2> QED  BY <2>1
  <1>2. (m >= 1 => m <= n) /\ (n >= 1 => n <= m)  BY <1>1
  <1> QED  BY <1>2

\* Numbering a batch keeps its length.
LEMMA NumberedLength ==
    ASSUME NEW s, NEW writes, Len(writes) \in Nat
    PROVE  Len(Numbered(s, writes)) = Len(writes) /\ (Numbered(s, writes) = <<>> <=> Len(writes) = 0)
  <1> DEFINE n == Len(writes)
             f == Numbered(s, writes)
             X == {f[i] : i \in 1 .. n}
  <1>1. f = [i \in 1 .. n |-> f[i]]  BY DEF Numbered
  <1>2. n \in Nat  OBVIOUS
  <1> HIDE DEF n, f
  <1>3. f \in [1 .. n -> X]  BY <1>1
  <1>4. f \in Seq(X)  BY <1>2, <1>3
  <1> HIDE DEF X
  <1>5. Len(f) \in Nat /\ DOMAIN f = 1 .. Len(f)  BY <1>4, LenProperties
  <1>6. DOMAIN f = 1 .. n  BY <1>3
  <1>7. Len(f) = n  BY <1>2, <1>5, <1>6, SameInterval
  <1>8. f = <<>> <=> n = 0  BY <1>4, <1>7, EmptySeq
  <1> QED  BY <1>7, <1>8 DEF f, n

\* A commit that takes its numbers from next on keeps the journal free of gaps.
LEMMA GapFreeAppend ==
    ASSUME NEW j, NEW a, NEW c, NEW next, NEW n \in Nat,
           GapFree(j, next), next \in Nat \ {0},
           DOMAIN j = 1 .. n, n = Len(j), j = <<>> <=> n = 0,
           DOMAIN a = 1 .. n + 1, n + 1 = Len(a), a # <<>>,
           \A i \in 1 .. n : a[i] = j[i], a[n + 1] = c,
           c.first = next, c.last \in Nat, c.first <= c.last
    PROVE  GapFree(a, c.last + 1)
  <1>1. next = IF n = 0 THEN 1 ELSE j[n].last + 1  BY DEF GapFree
  <1>2. ASSUME NEW i \in 1 .. n
        PROVE  /\ a[i].first \in Nat \ {0} /\ a[i].last \in Nat
               /\ a[i].first <= a[i].last
               /\ a[i].first = IF i = 1 THEN 1 ELSE a[i - 1].last + 1
    <2>1. i \in DOMAIN j /\ a[i] = j[i]  OBVIOUS
    <2>2. /\ j[i].first \in Nat \ {0} /\ j[i].last \in Nat
          /\ j[i].first <= j[i].last
          /\ j[i].first = IF i = 1 THEN 1 ELSE j[i - 1].last + 1
      BY <2>1 DEF GapFree
    <2>3. i # 1 => i - 1 \in 1 .. n  BY SMT
    <2>4. i # 1 => a[i - 1] = j[i - 1]  BY <2>3
    <2> QED  BY <2>1, <2>2, <2>4
  <1>3. n # 0 => a[n] = j[n]  OBVIOUS
  <1>4. /\ a[n + 1].first \in Nat \ {0} /\ a[n + 1].last \in Nat
        /\ a[n + 1].first <= a[n + 1].last
        /\ a[n + 1].first = IF n = 0 THEN 1 ELSE a[n].last + 1
    BY <1>1, <1>3
  <1>5. n + 1 - 1 = n /\ (n + 1 = 1 <=> n = 0)  OBVIOUS
  <1>6. ASSUME NEW i \in 1 .. n + 1
        PROVE  /\ a[i].first \in Nat \ {0} /\ a[i].last \in Nat
               /\ a[i].first <= a[i].last
               /\ a[i].first = IF i = 1 THEN 1 ELSE a[i - 1].last + 1
    <2>1. i \in 1 .. n \/ i = n + 1  OBVIOUS
    <2> QED  BY <2>1, <1>2, <1>4, <1>5
  <1>7. c.last + 1 = IF a = <<>> THEN 1 ELSE a[Len(a)].last + 1  OBVIOUS
  <1> QED  BY <1>6, <1>7 DEF GapFree

\* What applying a batch does to a scope's journal, and to no other.
LEMMA CommitKeeps ==
    ASSUME Journalled, NEW s \in Scopes, NEW writes, Len(writes) \in Nat,
           ApplyCommitted(s, Numbered(s, writes))
    PROVE  /\ Journalled'
           /\ \A u \in Scopes : journal'[u] = journal[u] \/ \E c : journal'[u] = Append(journal[u], c)
  <1> DEFINE w == Numbered(s, writes)
             c == Record(s, w)
  <1>1. Len(w) = Len(writes) /\ (w = <<>> <=> Len(writes) = 0)  BY NumberedLength
  <1>2. nextSeq' = [nextSeq EXCEPT ![s] = @ + Len(w)]  BY DEF ApplyCommitted
  <1>3. journal' = [journal EXCEPT ![s] = IF w = <<>> THEN @ ELSE Append(@, c)]  BY DEF ApplyCommitted
  <1> HIDE DEF w
  <1>4. nextSeq' \in [Scopes -> Nat \ {0}] /\ DOMAIN journal' = Scopes
    BY <1>1, <1>2, <1>3 DEF Journalled
  <1>5. \A u \in Scopes \ {s} : journal'[u] = journal[u] /\ nextSeq'[u] = nextSeq[u]
    BY <1>2, <1>3 DEF Journalled
  <1>6. CASE w = <<>>
    <2>1. nextSeq'[s] = nextSeq[s] /\ journal'[s] = journal[s]  BY <1>1, <1>2, <1>3, <1>6 DEF Journalled
    <2>2. \A u \in Scopes : nextSeq'[u] = nextSeq[u] /\ journal'[u] = journal[u]  BY <2>1, <1>5
    <2> QED  BY <2>2, <1>4 DEF Journalled
  <1>7. CASE w # <<>>
    <2> DEFINE j == journal[s]
    <2>1. journal'[s] = Append(j, c)  BY <1>3, <1>7 DEF Journalled
    <2>2. nextSeq[s] \in Nat \ {0} /\ Len(w) \in Nat \ {0}  BY <1>1, <1>7 DEF Journalled
    <2>3. nextSeq'[s] = nextSeq[s] + Len(w)  BY <1>2 DEF Journalled
    <2>4. c.first = nextSeq[s] /\ c.last = nextSeq[s] + Len(w) - 1  BY DEF Record
    <2> HIDE DEF c
    <2>5. IsJournal(j) /\ GapFree(j, nextSeq[s])  BY DEF Journalled
    <2>6. /\ IsJournal(Append(j, c))
          /\ Len(Append(j, c)) = Len(j) + 1 /\ Len(j) \in Nat
          /\ DOMAIN j = 1 .. Len(j) /\ DOMAIN Append(j, c) = 1 .. Len(j) + 1
          /\ \A i \in DOMAIN j : Append(j, c)[i] = j[i]
          /\ Append(j, c)[Len(j) + 1] = c
          /\ Append(j, c) # <<>>
      BY <2>5, AppendToJournal
    <2>7. j = <<>> <=> Len(j) = 0  BY <2>5, EmptySeq DEF IsJournal
    <2>8. c.last \in Nat /\ c.first <= c.last /\ nextSeq'[s] = c.last + 1  BY <2>2, <2>3, <2>4
    <2> DEFINE a == Append(j, c)
    <2>9. GapFree(a, c.last + 1)
      <3> HIDE DEF a, j
      <3> QED  BY <2>2, <2>4, <2>5, <2>6, <2>7, <2>8, GapFreeAppend DEF a
    <2>10. GapFree(journal'[s], nextSeq'[s]) /\ IsJournal(journal'[s])
      BY <2>1, <2>6, <2>8, <2>9
    <2> QED  BY <2>1, <2>10, <1>4, <1>5 DEF Journalled
  <1> QED  BY <1>6, <1>7

\* A batch of no writes changes nothing.
LEMMA ApplyNothing ==
    ASSUME NEW p
    PROVE  ApplyAll(p, <<>>) = p
  <1>1. DOMAIN <<>> = 1 .. 0 /\ 0 \in Nat  OBVIOUS
  <1>2. PICK f : Chain("write", f, p, <<>>, 0) /\ f[0] = ApplyAll(p, <<>>)  BY <1>1, ApplyAllChain
  <1> QED  BY <1>2 DEF Chain

\* What commits and forks have in common leaves the tables sound and the journal able to
\* rebuild them.
LEMMA CommitStores ==
    ASSUME Journalled, Stored, NEW s \in Scopes, NEW w, w \in Seq(Committed), ApplyCommitted(s, w)
    PROVE  /\ Stored'
           /\ rows'[s] = ApplyAll(rows[s], w) /\ ApplyAll(rows[s], w) # Refused
           /\ nextSeq'[s] = nextSeq[s] + Len(w)
           /\ \A u \in Scopes \ {s} : rows'[u] = rows[u] /\ nextSeq'[u] = nextSeq[u] /\ journal'[u] = journal[u]
  <1> DEFINE q == ApplyAll(rows[s], w)
             c == Record(s, w)
  <1>1. /\ q # Refused /\ rows' = [rows EXCEPT ![s] = q]
        /\ nextSeq' = [nextSeq EXCEPT ![s] = @ + Len(w)]
        /\ journal' = [journal EXCEPT ![s] = IF w = <<>> THEN @ ELSE Append(@, c)]
    BY DEF ApplyCommitted
  <1>2. Sound(rows[s]) /\ rows[s].next = nextSeq[s] /\ ReplayOf(journal[s]) = rows[s]  BY DEF Stored
  <1>3. Sound(q) /\ q.next = nextSeq[s] + Len(w)  BY <1>1, <1>2, BatchSound
  <1>11. q \in Tables  BY <1>3 DEF Sound
  <1>4. w = <<>> => q = rows[s]  BY ApplyNothing
  <1>5. c.first = nextSeq[s] /\ c.last = nextSeq[s] + Len(w) - 1 /\ c.writes = w  BY DEF Record
  <1> HIDE DEF q, c
  <1>6. rows' \in [Scopes -> Tables] /\ rows'[s] = q /\ nextSeq'[s] = nextSeq[s] + Len(w)
    BY <1>1, <1>11 DEF Stored, Journalled
  <1>7. \A u \in Scopes \ {s} : rows'[u] = rows[u] /\ nextSeq'[u] = nextSeq[u] /\ journal'[u] = journal[u]
    BY <1>1 DEF Stored, Journalled
  <1>8. ReplayOf(journal'[s]) = q
    <2>1. CASE w = <<>>
      <3>1. journal'[s] = journal[s]  BY <1>1, <2>1 DEF Journalled
      <3> QED  BY <3>1, <2>1, <1>2, <1>4
    <2>2. CASE w # <<>>
      <3>1. journal'[s] = Append(journal[s], c)  BY <1>1, <2>2 DEF Journalled
      <3>2. IsJournal(journal[s])  BY DEF Journalled
      <3>3. /\ Len(journal[s]) \in Nat
            /\ DOMAIN journal[s] = 1 .. Len(journal[s])
            /\ DOMAIN journal'[s] = 1 .. Len(journal[s]) + 1
            /\ \A i \in 1 .. Len(journal[s]) : journal'[s][i] = journal[s][i]
            /\ journal'[s][Len(journal[s]) + 1] = c
        BY <3>1, <3>2, AppendToJournal
      <3>4. ReplayOf(journal'[s])
            = IF Whole(ReplayOf(journal[s]), c) THEN ApplyAll(ReplayOf(journal[s]), c.writes) ELSE Refused
        <4> DEFINE j == journal[s]
                   a == journal'[s]
                   n == Len(j)
        <4>1. /\ n \in Nat /\ DOMAIN j = 1 .. n /\ DOMAIN a = 1 .. n + 1
              /\ \A i \in 1 .. n : a[i] = j[i]
              /\ a[n + 1] = c
          BY <3>3
        <4> HIDE DEF j, a, n
        <4>2. ReplayOf(a) = IF Whole(ReplayOf(j), c) THEN ApplyAll(ReplayOf(j), c.writes) ELSE Refused
          BY <4>1, ReplayOfAppend
        <4> QED  BY <4>2 DEF j, a
      <3>5. Whole(rows[s], c)  BY <1>2, <1>5 DEF Whole
      <3> QED  BY <3>4, <3>5, <1>2, <1>5 DEF q
    <2> QED  BY <2>1, <2>2
  <1>9. \A u \in Scopes : /\ Sound(rows'[u]) /\ rows'[u].next = nextSeq'[u]
                         /\ ReplayOf(journal'[u]) = rows'[u]
    <2> TAKE u \in Scopes
    <2>1. CASE u = s  BY <2>1, <1>3, <1>6, <1>8
    <2>2. CASE u # s  BY <2>2, <1>7 DEF Stored
    <2> QED  BY <2>1, <2>2
  <1>10. Stored'  BY <1>6, <1>9 DEF Stored
  <1> QED  BY <1>1, <1>6, <1>7, <1>10 DEF q

\* What a commit is given are writes, their numbers still 0.
LEMMA WriteCommitted == Write \subseteq Committed
  BY DEF Write, Committed

\* The path of an entry is a part of the entries.
LEMMA SnapshotCommitted ==
    ASSUME NEW p, Sound(p), NEW tip, NEW keys
    PROVE  /\ Snapshot(p, tip, keys) \subseteq Committed
           /\ Sortable(Snapshot(p, tip, keys), "seq", p.next - 1)
  <1> DEFINE T == Snapshot(p, tip, keys)
             E(e) == [kind |-> "entry", id |-> e.id, parent |-> e.parent, type |-> e.type, seq |-> e.seq]
             V(v) == [kind |-> "set", key |-> v.key, seq |-> v.seq]
  <1>1. p.entries \in SUBSET Entry /\ p.values \in SUBSET Cell  BY DEF Sound, Tables
  <1>2. Path(p, tip) \subseteq p.entries  BY DEF Path
  <1>3. \A e \in p.entries : E(e) \in Committed  BY <1>1 DEF Entry, Committed
  <1>4. \A v \in p.values : V(v) \in Committed  BY <1>1 DEF Cell, Committed
  <1>5. \A e : E(e).seq = e.seq  OBVIOUS
  <1>6. \A v : V(v).seq = v.seq  OBVIOUS
  <1>7. \A w \in T : (\E e \in p.entries : w = E(e)) \/ (\E v \in p.values : w = V(v))
    BY <1>2 DEF Snapshot
  <1> HIDE DEF T, E, V
  <1>8. T \subseteq Committed  BY <1>3, <1>4, <1>7
  <1>9. /\ \A e \in p.entries : e.seq \in 1 .. p.next - 1
        /\ \A v \in p.values : v.seq \in 1 .. p.next - 1
        /\ \A d, e \in p.entries : d.seq = e.seq => d = e
        /\ \A u, v \in p.values : u.seq = v.seq => u = v
        /\ \A e \in p.entries, v \in p.values : e.seq # v.seq
    BY DEF Sound, Sortable
  <1>10. \A w \in T : w.seq \in 1 .. p.next - 1  BY <1>5, <1>6, <1>7, <1>9
  <1>11. \A w, x \in T : w.seq = x.seq => w = x
    <2> TAKE w \in T, x \in T
    <2>1. ASSUME NEW d \in p.entries, NEW e \in p.entries, w = E(d), x = E(e), w.seq = x.seq PROVE w = x
      BY <2>1, <1>5, <1>9
    <2>2. ASSUME NEW u \in p.values, NEW v \in p.values, w = V(u), x = V(v), w.seq = x.seq PROVE w = x
      BY <2>2, <1>6, <1>9
    <2>3. ASSUME NEW e \in p.entries, NEW v \in p.values, w = E(e), x = V(v) PROVE w.seq # x.seq
      BY <2>3, <1>5, <1>6, <1>9
    <2>4. ASSUME NEW e \in p.entries, NEW v \in p.values, w = V(v), x = E(e) PROVE w.seq # x.seq
      BY <2>4, <1>5, <1>6, <1>9
    <2> QED  BY <2>1, <2>2, <2>3, <2>4, <1>7
  <1> QED  BY <1>8, <1>10, <1>11 DEF Sortable, T

\* What a fork copies are writes too.
LEMMA CopiedCommitted ==
    ASSUME NEW p, Sound(p), NEW tip, NEW keys
    PROVE  InOrder(Snapshot(p, tip, keys), "seq") \in Seq(Committed)
  <1> DEFINE T == Snapshot(p, tip, keys)
             g == InOrder(T, "seq")
  <1>1. T \subseteq Committed /\ Sortable(T, "seq", p.next - 1)  BY SnapshotCommitted
  <1>2. p.next - 1 \in Nat  BY DEF Sound, Tables
  <1> HIDE DEF T
  <1>3. Cardinality(T) \in 0 .. p.next - 1 /\ g \in [1 .. Cardinality(T) -> T]  BY <1>1, <1>2, InOrderSorts
  <1> HIDE DEF g
  <1>4. Cardinality(T) \in Nat  BY <1>3
  <1>5. g \in [1 .. Cardinality(T) -> Committed]  BY <1>1, <1>3
  <1> QED  BY <1>4, <1>5, FunctionIsSeq DEF g, T

\* A step appends to journals or leaves them.
OnlyAppends == \A u \in Scopes : journal'[u] = journal[u] \/ \E c : journal'[u] = Append(journal[u], c)

\* Empty scopes are stored.
LEMMA InitStored == Init => Journalled /\ Stored
  <1> SUFFICES ASSUME Init PROVE Journalled /\ Stored  OBVIOUS
  <1>1. <<>> \in Seq({})  OBVIOUS
  <1>2. IsJournal(<<>>)  BY <1>1 DEF IsJournal
  <1>3. GapFree(<<>>, 1)  BY DEF GapFree
  <1>4. Journalled  BY <1>2, <1>3 DEF Init, Journalled
  <1>5. Empty \in Tables /\ Empty.next = 1
    <2>1. 1 \in Nat \ {0} /\ 0 \in Nat  OBVIOUS
    <2> QED  BY <2>1 DEF Empty, Tables
  <1>6. Sortable({}, "seq", Empty.next - 1)  BY DEF Sortable
  <1>7. Sound(Empty)
    <2>1. Empty.entries = {} /\ Empty.usage = {} /\ Empty.values = {} /\ Empty.lists = {}  BY DEF Empty
    <2> HIDE DEF Empty
    <2> QED  BY <2>1, <1>5, <1>6 DEF Sound
  <1>8. Stored  BY <1>5, <1>7, ReplayOfNothing DEF Init, Stored
  <1> QED  BY <1>4, <1>8

\* A commit of any writes keeps the journal and what it rebuilds.
LEMMA CommitStep ==
    ASSUME Journalled, Stored, NEW s \in Scopes, NEW writes, writes \in Seq(Committed),
           ApplyCommitted(s, Numbered(s, writes))
    PROVE  Journalled' /\ Stored' /\ OnlyAppends
  <1>1. nextSeq[s] \in Nat  BY DEF Journalled
  <1>2. Numbered(s, writes) \in Seq(Committed)  BY <1>1, NumberedCommitted
  <1>3. Len(writes) \in Nat  BY LenProperties
  <1>4. Journalled' /\ OnlyAppends  BY <1>3, CommitKeeps DEF OnlyAppends
  <1> QED  BY <1>2, <1>4, CommitStores

\* So does every step.
LEMMA NextStored ==
    ASSUME Journalled, Stored, [Next]_vars
    PROVE  Journalled' /\ Stored' /\ OnlyAppends
  <1>1. ASSUME NEW s \in Scopes, NEW writes, Commit(s, writes)
        PROVE  Journalled' /\ Stored' /\ OnlyAppends
    <2>1. writes \in Seq(Write) /\ ApplyCommitted(s, Numbered(s, writes))  BY <1>1 DEF Commit
    <2>2. writes \in Seq(Committed)
      <3>1. Len(writes) \in Nat /\ writes \in [1 .. Len(writes) -> Write]  BY <2>1, LenProperties
      <3>2. writes \in [1 .. Len(writes) -> Committed]  BY <3>1, WriteCommitted
      <3> QED  BY <3>1, <3>2, FunctionIsSeq
    <2> QED  BY <2>1, <2>2, CommitStep
  <1>2. ASSUME rows' = rows, nextSeq' = nextSeq, journal' = journal
        PROVE  Journalled' /\ Stored' /\ OnlyAppends
    BY <1>2 DEF Journalled, Stored, OnlyAppends
  <1>3. ASSUME NEW s \in Scopes, Rebuild(s)
        PROVE  Journalled' /\ Stored' /\ OnlyAppends
    <2>1. rows' = [rows EXCEPT ![s] = Replay(s)] /\ nextSeq' = nextSeq /\ journal' = journal
      BY <1>3 DEF Rebuild
    <2>2. Replay(s) = rows[s] /\ rows \in [Scopes -> Tables]  BY ReplayIsOf DEF Stored
    <2>3. rows' = rows  BY <2>1, <2>2
    <2> QED  BY <2>1, <2>3, <1>2
  <1>4. ASSUME NEW source \in Scopes, NEW s \in Scopes, NEW tip, NEW keys, ImportFork(source, s, tip, keys)
        PROVE  Journalled' /\ Stored' /\ OnlyAppends
    <2> DEFINE copied == InOrder(Snapshot(rows[source], tip, keys), "seq")
    <2>1. ApplyCommitted(s, Numbered(s, copied))  BY <1>4 DEF ImportFork
    <2>2. Sound(rows[source])  BY DEF Stored
    <2>3. copied \in Seq(Committed)  BY <2>2, CopiedCommitted
    <2> HIDE DEF copied
    <2> QED  BY <2>1, <2>3, CommitStep
  <1>5. CASE UNCHANGED vars
    BY <1>5, <1>2 DEF vars
  <1>6. CASE Next
    BY <1>6, <1>1, <1>3, <1>4 DEF Next
  <1> QED  BY <1>5, <1>6

\* The numbers of a scope's journal have no gap: what readCommits pages through and what
\* rebuildProjections refuses to be without.
THEOREM JournalHasNoGap == Spec => [](\A s \in Scopes : GapFree(journal[s], nextSeq[s]))
  <1>1. Journalled /\ Stored /\ [Next]_vars => Journalled' /\ Stored'  BY NextStored
  <1>2. Journalled => \A s \in Scopes : GapFree(journal[s], nextSeq[s])  BY DEF Journalled
  <1> QED  BY <1>1, <1>2, InitStored, PTL DEF Spec

\* Commits are immutable: no step, a rebuild or a fork included, changes or removes one.
THEOREM JournalOnlyGrows == Spec => [][OnlyAppends]_vars
  <1>1. Journalled /\ Stored /\ [Next]_vars => Journalled' /\ Stored'  BY NextStored
  <1>2. Journalled /\ Stored /\ [Next]_vars => [OnlyAppends]_vars  BY NextStored DEF OnlyAppends
  <1> QED  BY <1>1, <1>2, InitStored, PTL DEF Spec

\* The rows a scope serves are at all times what its journal rebuilds, of any length and with
\* any batches: a rebuild changes nothing, and neither it nor a fork is ever refused.
THEOREM JournalRebuilds == Spec => []Rebuildable
  <1>1. Journalled /\ Stored /\ [Next]_vars => Journalled' /\ Stored'  BY NextStored
  <1>2. Stored => Rebuildable
    <2> SUFFICES ASSUME Stored, NEW s \in Scopes PROVE Replay(s) = rows[s] /\ Replay(s).next = nextSeq[s]
      BY DEF Rebuildable
    <2> QED  BY ReplayIsOf DEF Stored
  <1> QED  BY <1>1, <1>2, InitStored, PTL DEF Spec

\* A part of a sortable table is sortable.
LEMMA SortableSubset ==
    ASSUME NEW T, NEW by, NEW m, Sortable(T, by, m), NEW U \in SUBSET T
    PROVE  Sortable(U, by, m)
  BY DEF Sortable

\* The first row of a listing is the one with the least number, the last the one with the
\* greatest.
LEMMA EndsOfOrder ==
    ASSUME NEW T, NEW by, NEW m \in Nat, Sortable(T, by, m), NEW r \in T
    PROVE  /\ Cardinality(T) \in Nat \ {0}
           /\ (\A q \in T : r[by] <= q[by]) => InOrder(T, by)[1] = r
           /\ (\A q \in T : q[by] <= r[by]) => InOrder(T, by)[Cardinality(T)] = r
  <1> DEFINE n == Cardinality(T)
             g == InOrder(T, by)
  <1>1. /\ n \in Nat /\ g \in [1 .. n -> T]
        /\ \A i, j \in 1 .. n : i < j <=> g[i][by] < g[j][by]
        /\ \E i \in 1 .. n : g[i] = r
    BY InOrderSorts
  <1>2. \A q \in T : q[by] \in Nat  BY DEF Sortable
  <1> HIDE DEF n, g
  <1>3. PICK i \in 1 .. n : g[i] = r  BY <1>1
  <1>4. n # 0 /\ 1 \in 1 .. n /\ n \in 1 .. n  BY <1>1, <1>3
  <1>5. g[1] \in T /\ g[n] \in T /\ g[1][by] \in Nat /\ g[n][by] \in Nat /\ r[by] \in Nat  BY <1>1, <1>2, <1>4
  <1>6. ASSUME \A q \in T : r[by] <= q[by] PROVE g[1] = r
    <2>1. ~(g[1][by] < g[i][by])  BY <1>3, <1>5, <1>6
    <2>2. ~(1 < i)  BY <1>1, <1>4, <2>1
    <2> QED  BY <1>1, <1>3, <2>2
  <1>7. ASSUME \A q \in T : q[by] <= r[by] PROVE g[n] = r
    <2>1. ~(g[i][by] < g[n][by])  BY <1>3, <1>5, <1>7
    <2>2. ~(i < n)  BY <1>1, <1>4, <2>1
    <2> QED  BY <1>1, <1>3, <2>2
  <1> QED  BY <1>1, <1>4, <1>6, <1>7 DEF n, g

\* A page of one row is a tuple.
LEMMA OneElement ==
    ASSUME NEW x
    PROVE  [i \in 1 .. 1 |-> x] = <<x>>
  OBVIOUS

\* A page of all the rows, and one of a single row.
LEMMA PageOf ==
    ASSUME NEW S, NEW found, found \in Seq(S), NEW limit \in Nat
    PROVE  /\ Len(found) <= limit => Page(limit, found) = found
           /\ Page(1, found) = IF Len(found) = 0 THEN <<>> ELSE <<found[1]>>
  <1> DEFINE n == Len(found)
  <1>1. n \in Nat /\ found \in [1 .. n -> S] /\ DOMAIN found = 1 .. n  BY LenProperties
  <1>2. ASSUME n <= limit PROVE Page(limit, found) = found
    <2>1. Page(limit, found) = SubSeq(found, 1, n)
      <3> HIDE DEF n
      <3>1. (IF n < limit THEN n ELSE limit) = n  BY <1>1, <1>2
      <3> QED  BY <3>1 DEF Page, n
    <2>2. \A i \in 1 .. n : found[i] \in S  BY <1>1
    <2>3. SubSeq(found, 1, n) = [i \in 1 .. n |-> found[i]]
      BY <1>1, SMT
    <2> QED  BY <2>1, <2>3, <1>1
  <1>3. CASE n = 0
    <2>1. Page(1, found) = SubSeq(found, 1, 0)  BY <1>3 DEF Page
    <2>2. SubSeq(found, 1, 0) = <<>>  OBVIOUS
    <2> QED  BY <2>1, <2>2, <1>2, <1>3
  <1>4. CASE n # 0
    <2>1. Page(1, found) = SubSeq(found, 1, 1)  BY <1>1, <1>4 DEF Page
    <2>2. SubSeq(found, 1, 1) = <<found[1]>>
      <3>1. SubSeq(found, 1, 1) = [i \in 1 .. 1 |-> found[i]]
        <4>1. 1 \in 1 .. n + 1 /\ 1 <= n  BY <1>1, <1>4
        <4> QED  BY <4>1, <1>1, SMT
      <3>2. [i \in 1 .. 1 |-> found[i]] = [i \in 1 .. 1 |-> found[1]]  OBVIOUS
      <3> QED  BY <3>1, <3>2, OneElement
    <2> QED  BY <2>1, <2>2, <1>2, <1>4
  <1> QED  BY <1>2, <1>3, <1>4

\* A read of the newest first is the ascending one turned round.
LEMMA DirectedOf ==
    ASSUME NEW S, NEW found, found \in Seq(S), NEW order
    PROVE  /\ Directed(order, found) \in Seq(S) /\ Len(Directed(order, found)) = Len(found)
           /\ order = "oldestFirst" => Directed(order, found) = found
           /\ order # "oldestFirst" =>
                \A i \in 1 .. Len(found) : Directed(order, found)[i] = found[Len(found) - i + 1]
  <1> DEFINE n == Len(found)
             h == [i \in 1 .. n |-> found[n - i + 1]]
  <1>1. n \in Nat /\ found \in [1 .. n -> S]  BY LenProperties
  <1>2. CASE order # "oldestFirst"
    <2>1. Directed(order, found) = h  BY <1>2 DEF Directed, Reverse
    <2> HIDE DEF n
    <2>2. \A i \in 1 .. n : n - i + 1 \in 1 .. n  BY <1>1
    <2>3. h \in [1 .. n -> S]  BY <1>1, <2>2
    <2>4. h \in Seq(S) /\ Len(h) = n  BY <1>1, <2>3, FunctionIsSeq
    <2>5. \A i \in 1 .. n : h[i] = found[n - i + 1]  OBVIOUS
    <2> QED  BY <1>2, <2>1, <2>4, <2>5 DEF n
  <1>3. CASE order = "oldestFirst"
    BY <1>3 DEF Directed
  <1> QED  BY <1>2, <1>3

\* The rows that come after one in a direction, and the listing of a table.
Rest(T, order, r) == {q \in T : IF order = "oldestFirst" THEN q.seq > r.seq ELSE q.seq < r.seq}
Listing(T, order) == Directed(order, InOrder(T, "seq"))

\* The page after a row of a listing begins with the row that follows it there.
LEMMA NextPage ==
    ASSUME NEW T, NEW m \in Nat, Sortable(T, "seq", m), NEW order, NEW limit \in Nat, m <= limit,
           NEW i \in DOMAIN Page(limit, Listing(T, order))
    PROVE  LET all == Page(limit, Listing(T, order)) IN
           Page(1, Listing(Rest(T, order, all[i]), order)) = IF i = Len(all) THEN <<>> ELSE <<all[i + 1]>>
  <1> DEFINE n == Cardinality(T)
             g == InOrder(T, "seq")
             all == Listing(T, order)
             r == all[i]
             U == Rest(T, order, r)
             u == Cardinality(U)
             h == InOrder(U, "seq")
             rest == Listing(U, order)
  <1>1. /\ n \in 0 .. m /\ g \in [1 .. n -> T] /\ g \in Seq(T) /\ Len(g) = n
        /\ \A j, k \in 1 .. n : j < k <=> g[j].seq < g[k].seq
        /\ \A q \in T : \E j \in 1 .. n : g[j] = q
    BY InOrderSorts
  <1>2. all \in Seq(T) /\ Len(all) = n /\ (order = "oldestFirst" => all = g)
        /\ (order # "oldestFirst" => \A j \in 1 .. n : all[j] = g[n - j + 1])
    <2>1. g \in Seq(T) /\ Len(g) = n  BY <1>1
    <2> HIDE DEF g, n
    <2>2. /\ Directed(order, g) \in Seq(T) /\ Len(Directed(order, g)) = Len(g)
          /\ order = "oldestFirst" => Directed(order, g) = g
          /\ order # "oldestFirst" =>
                \A j \in 1 .. Len(g) : Directed(order, g)[j] = g[Len(g) - j + 1]
      BY <2>1, DirectedOf
    <2> QED  BY <2>1, <2>2 DEF Listing, g
  <1>3. Page(limit, Listing(T, order)) = all
    <2> HIDE DEF n, g
    <2>1. n <= limit  BY <1>1
    <2> HIDE DEF all
    <2>2. Page(limit, all) = all  BY <1>2, <2>1, PageOf
    <2> QED  BY <2>2 DEF all
  <1>4. i \in 1 .. n
    <2>1. i \in DOMAIN all  BY <1>3
    <2> HIDE DEF all, n
    <2> QED  BY <2>1, <1>2, LenProperties
  <1>5. U \in SUBSET T /\ Sortable(U, "seq", m)  BY SortableSubset DEF Rest
  <1>6. /\ u \in 0 .. m /\ h \in [1 .. u -> U] /\ h \in Seq(U) /\ Len(h) = u
    BY <1>5, InOrderSorts
  <1>7. rest \in Seq(U) /\ Len(rest) = u /\ (order = "oldestFirst" => rest = h)
        /\ (order # "oldestFirst" => \A j \in 1 .. u : rest[j] = h[u - j + 1])
    BY <1>6, DirectedOf DEF Listing
  <1>8. Page(1, rest) = IF u = 0 THEN <<>> ELSE <<rest[1]>>
    <2> HIDE DEF rest, u, h, U
    <2> QED  BY <1>7, PageOf
  <1>9. \A q \in T : q.seq \in Nat  BY DEF Sortable
  <1>10. CASE order = "oldestFirst"
    <2>1. r = g[i] /\ U = {q \in T : q.seq > r.seq}  BY <1>2, <1>10 DEF Rest
    <2> HIDE DEF U, r, u, h, rest, n, all, g
    <2>2. \A j \in 1 .. n : g[j] \in U <=> i < j  BY <1>1, <1>4, <1>9, <2>1
    <2>3. CASE i = n
      <3>1. U = {}  BY <1>1, <1>5, <2>2, <2>3
      <3>2. u = 0  BY <3>1, FS_EmptySet DEF u
      <3> QED  BY <1>2, <1>3, <1>8, <2>3, <3>2 DEF all, rest, U, r
    <2>4. CASE i # n
      <3> DEFINE x == g[i + 1]
      <3>1. i + 1 \in 1 .. n /\ i < i + 1  BY <1>1, <1>4, <2>4
      <3>2. x \in U  BY <2>2, <3>1
      <3>3. \A q \in U : x.seq <= q.seq
        <4> TAKE q \in U
        <4>1. PICK j \in 1 .. n : g[j] = q  BY <1>1, <1>5
        <4>2. i < j  BY <2>2, <4>1
        <4>3. ~(j < i + 1)  BY <1>4, <4>2
        <4>4. ~(g[j].seq < g[i + 1].seq)  BY <1>1, <3>1, <4>3
        <4>5. g[j].seq \in Nat /\ g[i + 1].seq \in Nat  BY <1>1, <1>9, <3>1
        <4> QED  BY <4>1, <4>4, <4>5
      <3> HIDE DEF x
      <3>4. u \in Nat \ {0} /\ h[1] = x  BY <1>5, <3>2, <3>3, EndsOfOrder DEF u, h
      <3>5. rest[1] = x  BY <1>7, <1>10, <3>4
      <3>6. all[i + 1] = x  BY <1>2, <1>10 DEF x
      <3>7. Page(1, rest) = <<all[i + 1]>>  BY <1>8, <3>4, <3>5, <3>6
      <3> QED  BY <1>2, <1>3, <2>4, <3>7 DEF all, rest, U, r
    <2> QED  BY <2>3, <2>4
  <1>11. CASE order # "oldestFirst"
    <2> DEFINE k == n - i + 1
    <2>1. r = g[k] /\ U = {q \in T : q.seq < r.seq}  BY <1>2, <1>4, <1>11 DEF Rest
    <2>2. k \in 1 .. n /\ (i = n <=> k = 1)
      <3> HIDE DEF n
      <3> QED  BY <1>1, <1>4
    <2> HIDE DEF U, r, u, h, rest, n, all, g
    <2>3. k - 1 = n - (i + 1) + 1  BY <1>1, <1>4
    <2> HIDE DEF k
    <2>4. \A j \in 1 .. n : g[j] \in U <=> j < k  BY <1>1, <1>9, <2>1, <2>2
    <2>5. CASE i = n
      <3>1. U = {}  BY <1>1, <1>5, <2>2, <2>4, <2>5
      <3>2. u = 0  BY <3>1, FS_EmptySet DEF u
      <3> QED  BY <1>2, <1>3, <1>8, <2>5, <3>2 DEF all, rest, U, r
    <2>6. CASE i # n
      <3> DEFINE x == g[k - 1]
      <3>1. k - 1 \in 1 .. n /\ k - 1 < k  BY <1>1, <2>2, <2>6
      <3>2. x \in U  BY <2>4, <3>1
      <3>3. \A q \in U : q.seq <= x.seq
        <4> TAKE q \in U
        <4>1. PICK j \in 1 .. n : g[j] = q  BY <1>1, <1>5
        <4>2. j < k  BY <2>4, <4>1
        <4>3. ~(k - 1 < j)  BY <2>2, <4>2
        <4>4. ~(g[k - 1].seq < g[j].seq)  BY <1>1, <3>1, <4>3
        <4>5. g[j].seq \in Nat /\ g[k - 1].seq \in Nat  BY <1>1, <1>9, <3>1
        <4> QED  BY <4>1, <4>4, <4>5
      <3> HIDE DEF x
      <3>4. u \in Nat \ {0} /\ h[u] = x  BY <1>5, <3>2, <3>3, EndsOfOrder DEF u, h
      <3>5. 1 \in 1 .. u /\ u - 1 + 1 = u  BY <3>4
      <3>6. rest[1] = x  BY <1>7, <1>11, <3>4, <3>5
      <3>7. i + 1 \in 1 .. n  BY <1>1, <1>4, <2>6
      <3>8. all[i + 1] = x  BY <1>2, <1>11, <2>3, <3>7 DEF x
      <3>9. Page(1, rest) = <<all[i + 1]>>  BY <1>8, <3>4, <3>6, <3>8
      <3> QED  BY <1>2, <1>3, <2>6, <3>9 DEF all, rest, U, r
    <2> QED  BY <2>5, <2>6
  <1> QED  BY <1>10, <1>11

\* The page after a row of a listing has the row that follows it there, or none after the last.
LEMMA PagesFollow ==
    ASSUME NEW T, NEW m \in Nat, Sortable(T, "seq", m), NEW order, NEW limit \in Nat, m <= limit,
           NEW i \in DOMAIN Page(limit, Listing(T, order))
    PROVE  LET all == Page(limit, Listing(T, order)) IN
           /\ all[i] \in T
           /\ Page(1, Listing(Rest(T, order, all[i]), order)) = IF i = Len(all) THEN <<>> ELSE <<all[i + 1]>>
  <1> DEFINE g == InOrder(T, "seq")
             d == Listing(T, order)
  <1>1. g \in Seq(T) /\ Len(g) \in 0 .. m  BY InOrderSorts
  <1> HIDE DEF g
  <1>2. d \in Seq(T) /\ Len(d) = Len(g)  BY <1>1, DirectedOf DEF Listing, g
  <1> HIDE DEF d
  <1>3. Len(d) <= limit  BY <1>1, <1>2
  <1>4. Page(limit, d) = d  BY <1>2, <1>3, PageOf
  <1>5. i \in 1 .. Len(d)  BY <1>2, <1>4, LenProperties DEF d
  <1>6. d[i] \in T  BY <1>2, <1>5, ElementOfSeq
  <1>7. Page(limit, Listing(T, order))[i] \in T  BY <1>4, <1>6 DEF d
  <1> QED  BY <1>7, NextPage

\* A branch is read page by page,
BranchPages(p, id, order, stopAt, types) ==
    FollowsOn(LAMBDA c, n : BranchRows(p, id, order, stopAt, types, c, n),
              IF order = "oldestFirst" THEN 0 ELSE p.next, p.next)
\* to any stop and of any types,
LEMMA BranchFollowsOn ==
    ASSUME NEW p, Sound(p), NEW start, NEW order \in {"oldestFirst", "newestFirst"}, NEW stopAt, NEW types
    PROVE  BranchPages(p, start, order, stopAt, types)
  <1> DEFINE path         == Path(p, start)
             Before(a, b) == IF order = "oldestFirst" THEN a < b ELSE b < a
             upTo         == {e \in path : ~\E d \in path : d.id = stopAt /\ Before(d.seq, e.seq)}
             T == {e \in upTo : e.type \in types}
             m == p.next - 1
             begin == IF order = "oldestFirst" THEN 0 ELSE p.next
  <1>1. p.next \in Nat /\ m \in Nat /\ m <= p.next  BY DEF Sound, Tables
  <1>2. T \subseteq p.entries  BY DEF Path
  <1>3. Sortable(p.entries, "seq", m)  BY DEF Sound
  <1>4. Sortable(T, "seq", m)
    <2> HIDE DEF T, m
    <2> QED  BY <1>2, <1>3, SortableSubset
  <1>5. \A e \in T : e.seq \in 1 .. m  BY <1>4 DEF Sortable
  <1>6. BranchRows(p, start, order, stopAt, types, begin, p.next) = Page(p.next, Listing(T, order))
    <2> DEFINE U == {e \in upTo : e.type \in types /\ Before(begin, e.seq)}
    <2>1. BranchRows(p, start, order, stopAt, types, begin, p.next) = Page(p.next, Listing(U, order))
      BY DEF BranchRows, Listing
    <2>2. U = T
      <3>1. \A e \in T : Before(begin, e.seq)  BY <1>1, <1>5
      <3> QED  BY <3>1
    <2> QED  BY <2>1, <2>2
  <1>7. ASSUME NEW r
        PROVE  BranchRows(p, start, order, stopAt, types, r.seq, 1) = Page(1, Listing(Rest(T, order, r), order))
    <2> DEFINE U == {e \in upTo : e.type \in types /\ Before(r.seq, e.seq)}
    <2>1. BranchRows(p, start, order, stopAt, types, r.seq, 1) = Page(1, Listing(U, order))
      BY DEF BranchRows, Listing
    <2>2. U = Rest(T, order, r)  BY DEF Rest
    <2> QED  BY <2>1, <2>2
  <1> HIDE DEF T, m
  <1>8. \A i \in DOMAIN Page(p.next, Listing(T, order)) :
          LET all == Page(p.next, Listing(T, order)) IN
          Page(1, Listing(Rest(T, order, all[i]), order)) = IF i = Len(all) THEN <<>> ELSE <<all[i + 1]>>
    BY <1>1, <1>4, PagesFollow
  <1> DEFINE all == BranchRows(p, start, order, stopAt, types, begin, p.next)
  <1>9. \A i \in DOMAIN all : BranchRows(p, start, order, stopAt, types, all[i].seq, 1)
                              = IF i = Len(all) THEN <<>> ELSE <<all[i + 1]>>
    BY <1>6, <1>7, <1>8
  <1> HIDE DEF path, Before, upTo
  <1> QED  BY <1>9 DEF BranchPages, FollowsOn

\* a list,
LEMMA ListFollowsOn ==
    ASSUME NEW p, Sound(p), NEW key, NEW order \in {"oldestFirst", "newestFirst"}
    PROVE  FollowsOn(LAMBDA c, n : ReadList(p, key, order, c, n),
                     IF order = "oldestFirst" THEN 0 ELSE p.next, p.next)
  <1> DEFINE T == At(p.lists, key)
             m == p.next - 1
             begin == IF order = "oldestFirst" THEN 0 ELSE p.next
  <1>1. p.next \in Nat /\ m \in Nat /\ m <= p.next  BY DEF Sound, Tables
  <1>2. T \subseteq p.lists  BY DEF At
  <1>3. Sortable(p.lists, "seq", m)  BY DEF Sound
  <1> HIDE DEF T, m
  <1>4. Sortable(T, "seq", m)  BY <1>2, <1>3, SortableSubset
  <1>5. \A e \in T : e.seq \in 1 .. m  BY <1>4 DEF Sortable
  <1>6. ReadList(p, key, order, begin, p.next) = Page(p.next, Listing(T, order))
    <2> DEFINE U == {r \in T : IF order = "oldestFirst" THEN r.seq > begin ELSE r.seq < begin}
    <2>1. ReadList(p, key, order, begin, p.next) = Page(p.next, Listing(U, order))
      BY DEF ReadList, Listing, T
    <2>2. U = T  BY <1>1, <1>5 DEF m
    <2> QED  BY <2>1, <2>2
  <1>7. ASSUME NEW r
        PROVE  ReadList(p, key, order, r.seq, 1) = Page(1, Listing(Rest(T, order, r), order))
    BY DEF ReadList, Listing, Rest, T
  <1>8. \A i \in DOMAIN Page(p.next, Listing(T, order)) :
          LET all == Page(p.next, Listing(T, order)) IN
          Page(1, Listing(Rest(T, order, all[i]), order)) = IF i = Len(all) THEN <<>> ELSE <<all[i + 1]>>
    BY <1>1, <1>4, PagesFollow
  <1> DEFINE all == ReadList(p, key, order, begin, p.next)
  <1>9. \A i \in DOMAIN all : ReadList(p, key, order, all[i].seq, 1)
                              = IF i = Len(all) THEN <<>> ELSE <<all[i + 1]>>
    BY <1>6, <1>7, <1>8
  <1> QED  BY <1>9 DEF FollowsOn

\* and a table.
LEMMA ScanFollowsOn ==
    ASSUME NEW T, NEW next \in Nat \ {0}, Sortable(T, "seq", next - 1),
           NEW order \in {"oldestFirst", "newestFirst"}
    PROVE  FollowsOn(LAMBDA c, n : ScanFrom(T, order, next, c, n),
                     IF order = "oldestFirst" THEN 0 ELSE next, next)
  <1> DEFINE m == next - 1
             begin == IF order = "oldestFirst" THEN 0 ELSE next
  <1>1. next \in Nat /\ m \in Nat /\ m <= next  OBVIOUS
  <1>2. \A e \in T : e.seq \in 1 .. m  BY DEF Sortable
  <1>3. ASSUME NEW c \in Nat, NEW n
        PROVE  ScanFrom(T, order, next, c, n)
               = Page(n, Listing({r \in T : IF order = "oldestFirst" THEN r.seq > c ELSE r.seq < c}, order))
    <2> DEFINE U == {r \in T : IF order = "oldestFirst" THEN r.seq > c ELSE r.seq < c}
    <2>1. CASE order = "oldestFirst"
      <3>1. {r \in T : c + 1 <= r.seq /\ r.seq <= next} = U  BY <1>1, <1>2, <2>1
      <3> HIDE DEF U
      <3>2. ScanFrom(T, order, next, c, n) = Page(n, Listing(U, order))
        BY <2>1, <3>1 DEF ScanFrom, Scan, Listing
      <3> QED  BY <3>2 DEF U
    <2>2. CASE order # "oldestFirst"
      <3>1. {r \in T : 1 <= r.seq /\ r.seq <= c - 1} = U  BY <1>1, <1>2, <2>2
      <3> HIDE DEF U
      <3>2. ScanFrom(T, order, next, c, n) = Page(n, Listing(U, order))
        BY <2>2, <3>1 DEF ScanFrom, Scan, Listing
      <3> QED  BY <3>2 DEF U
    <2> QED  BY <2>1, <2>2
  <1>4. ScanFrom(T, order, next, begin, next) = Page(next, Listing(T, order))
    <2>1. {r \in T : IF order = "oldestFirst" THEN r.seq > begin ELSE r.seq < begin} = T  BY <1>1, <1>2
    <2>2. begin \in Nat  OBVIOUS
    <2> QED  BY <1>3, <2>1, <2>2
  <1>5. ASSUME NEW r \in T
        PROVE  ScanFrom(T, order, next, r.seq, 1) = Page(1, Listing(Rest(T, order, r), order))
    BY <1>2, <1>3 DEF Rest
  <1>6. \A i \in DOMAIN Page(next, Listing(T, order)) :
          LET all == Page(next, Listing(T, order)) IN
          /\ all[i] \in T
          /\ Page(1, Listing(Rest(T, order, all[i]), order)) = IF i = Len(all) THEN <<>> ELSE <<all[i + 1]>>
    <2> HIDE DEF m
    <2>1. Sortable(T, "seq", m)  BY DEF m
    <2> QED  BY <1>1, <2>1, PagesFollow
  <1> DEFINE all == ScanFrom(T, order, next, begin, next)
  <1>7. \A i \in DOMAIN all : ScanFrom(T, order, next, all[i].seq, 1)
                              = IF i = Len(all) THEN <<>> ELSE <<all[i + 1]>>
    BY <1>4, <1>5, <1>6
  <1> QED  BY <1>7 DEF FollowsOn

\* The numbers of the commits rise.
LEMMA JournalRises ==
    ASSUME NEW j, IsJournal(j), NEW next, GapFree(j, next)
    PROVE  /\ \A i, k \in DOMAIN j : i < k => j[i].last < j[k].first
           /\ next \in Nat \ {0} /\ \A i \in DOMAIN j : j[i].last < next
  <1> DEFINE n == Len(j)
  <1>1. n \in Nat /\ DOMAIN j = 1 .. n /\ (j = <<>> <=> n = 0)  BY LenProperties, EmptySeq DEF IsJournal
  <1> HIDE DEF n
  <1>2. \A i \in 1 .. n : /\ j[i].first \in Nat \ {0} /\ j[i].last \in Nat
                          /\ j[i].first <= j[i].last
                          /\ j[i].first = IF i = 1 THEN 1 ELSE j[i - 1].last + 1
    BY <1>1 DEF GapFree
  <1> DEFINE S == {k \in Nat : k \in 1 .. n => \A i \in 1 .. k - 1 : j[i].last < j[k].first}
  <1>3. 0 \in S  OBVIOUS
  <1>4. ASSUME NEW k \in S PROVE k + 1 \in S
    <2> SUFFICES ASSUME k + 1 \in 1 .. n, NEW i \in 1 .. k + 1 - 1 PROVE j[i].last < j[k + 1].first
      OBVIOUS
    <2>1. k \in 1 .. n /\ k + 1 # 1 /\ k + 1 - 1 = k /\ i \in 1 .. n  BY <1>1
    <2>2. j[k + 1].first = j[k].last + 1  BY <1>2, <2>1
    <2>3. j[k].last \in Nat /\ j[k].first \in Nat /\ j[i].last \in Nat /\ j[k].first <= j[k].last  BY <1>2, <2>1
    <2>4. i = k \/ i \in 1 .. k - 1  OBVIOUS
    <2>5. i \in 1 .. k - 1 => j[i].last < j[k].first  BY <2>1
    <2> QED  BY <2>2, <2>3, <2>4, <2>5
  <1>5. S = Nat  BY <1>3, <1>4, NatSets
  <1>6. ASSUME NEW i \in 1 .. n, NEW k \in 1 .. n, i < k PROVE j[i].last < j[k].first
    <2>1. k \in S /\ i \in 1 .. k - 1  BY <1>5, <1>6
    <2> QED  BY <2>1
  <1>7. next = IF n = 0 THEN 1 ELSE j[n].last + 1  BY <1>1 DEF GapFree, n
  <1>8. ASSUME NEW i \in 1 .. n PROVE j[i].last < next
    <2>1. n \in 1 .. n /\ next = j[n].last + 1  BY <1>1, <1>7
    <2>2. j[n].last \in Nat /\ j[i].last \in Nat /\ j[n].first \in Nat /\ j[n].first <= j[n].last  BY <1>2, <2>1
    <2>3. i = n \/ i < n  BY <1>1
    <2>4. i < n => j[i].last < j[n].first  BY <1>6, <2>1
    <2> QED  BY <2>1, <2>2, <2>3, <2>4
  <1>9. next \in Nat \ {0}
    <2>1. n # 0 => n \in 1 .. n  BY <1>1
    <2> QED  BY <1>2, <1>7, <2>1
  <1> QED  BY <1>1, <1>6, <1>8, <1>9

\* After n, a page of one commit has the commit of number n + 1, or none when there is none.
LEMMA CommitsFollowOn ==
    ASSUME Journalled, NEW s \in Scopes, NEW n \in 0 .. nextSeq[s] - 1
    PROVE  LET page == ReadCommits(s, n, 1) IN
           IF n = nextSeq[s] - 1 THEN page = <<>>
           ELSE page # <<>> /\ page[1].first <= n + 1 /\ n + 1 <= page[1].last
  <1> DEFINE j == journal[s]
             next == nextSeq[s]
             k == Len(j)
             T == {c \in Commits(s) : c.last > n}
             g == InOrder(T, "first")
  <1>1. IsJournal(j) /\ GapFree(j, next) /\ next \in Nat \ {0}  BY DEF Journalled
  <1>2. k \in Nat /\ DOMAIN j = 1 .. k /\ (j = <<>> <=> k = 0)
    BY <1>1, LenProperties, EmptySeq DEF IsJournal
  <1>3. Commits(s) = {j[i] : i \in 1 .. k}  BY <1>2 DEF Commits
  <1> HIDE DEF j, next, k
  <1>4. /\ \A i, l \in 1 .. k : i < l => j[i].last < j[l].first
        /\ \A i \in 1 .. k : j[i].last < next
    BY <1>1, <1>2, JournalRises
  <1>5. \A i \in 1 .. k : /\ j[i].first \in Nat \ {0} /\ j[i].last \in Nat
                          /\ j[i].first <= j[i].last
                          /\ j[i].first = IF i = 1 THEN 1 ELSE j[i - 1].last + 1
    BY <1>1, <1>2 DEF GapFree
  <1>6. ReadCommits(s, n, 1) = Page(1, g)  BY DEF ReadCommits
  <1>7. Sortable(T, "first", next)
    <2>1. \A c \in T : \E i \in 1 .. k : c = j[i]  BY <1>3
    <2> HIDE DEF T
    <2>2. \A c \in T : c.first \in 1 .. next
      <3> TAKE c \in T
      <3>1. PICK i \in 1 .. k : c = j[i]  BY <2>1
      <3> QED  BY <3>1, <1>1, <1>4, <1>5
    <2>3. \A c, d \in T : c.first = d.first => c = d
      <3> SUFFICES ASSUME NEW c \in T, NEW d \in T, c.first = d.first PROVE c = d  OBVIOUS
      <3>1. PICK i \in 1 .. k : c = j[i]  BY <2>1
      <3>2. PICK l \in 1 .. k : d = j[l]  BY <2>1
      <3>3. /\ j[i].first \in Nat /\ j[i].last \in Nat /\ j[i].first <= j[i].last
            /\ j[l].first \in Nat /\ j[l].last \in Nat /\ j[l].first <= j[l].last
            /\ j[i].first = j[l].first
        BY <1>5, <3>1, <3>2
      <3>4. (i < l => j[i].last < j[l].first) /\ (l < i => j[l].last < j[i].first)  BY <1>4
      <3>5. i = l  BY <3>3, <3>4
      <3> QED  BY <3>1, <3>2, <3>5
    <2> QED  BY <2>2, <2>3 DEF Sortable
  <1>8. n \in Nat  BY <1>1 DEF next
  <1>9. g \in Seq(T) /\ Len(g) = Cardinality(T) /\ (T = {} => Len(g) = 0)
    <2> HIDE DEF T
    <2>1. g \in Seq(T) /\ Len(g) = Cardinality(T)  BY <1>1, <1>7, InOrderSorts
    <2> QED  BY <2>1, FS_EmptySet
  <1>10. Page(1, g) = IF Len(g) = 0 THEN <<>> ELSE <<g[1]>>
    <2> HIDE DEF g, T
    <2> QED  BY <1>9, PageOf
  <1>11. CASE n = next - 1
    <2>1. T = {}  BY <1>1, <1>3, <1>4, <1>5, <1>11
    <2> QED  BY <1>6, <1>9, <1>10, <1>11, <2>1 DEF next
  <1>12. CASE n # next - 1
    <2>1. n + 1 < next  BY <1>1, <1>12 DEF next
    <2>2. k # 0 /\ next = j[k].last + 1
      BY <1>1, <1>2, <1>8, <2>1 DEF GapFree, k
    <2>3. k \in 1 .. k /\ j[k].last > n  BY <1>2, <1>5, <1>8, <2>1, <2>2
    <2> DEFINE S == {i \in Nat : i \in 1 .. k => ~(j[i].last > n)}
    <2>4. PICK i \in 1 .. k : j[i].last > n /\ (i # 1 => ~(j[i - 1].last > n))
      <3> SUFFICES ASSUME \A i \in 1 .. k : j[i].last > n => i # 1 /\ j[i - 1].last > n PROVE FALSE
        OBVIOUS
      <3>1. 0 \in S  OBVIOUS
      <3>2. ASSUME NEW i \in S PROVE i + 1 \in S
        <4> SUFFICES ASSUME i + 1 \in 1 .. k, j[i + 1].last > n PROVE FALSE  OBVIOUS
        <4>1. i + 1 # 1 /\ j[i + 1 - 1].last > n  OBVIOUS
        <4>2. i \in 1 .. k /\ i + 1 - 1 = i  BY <4>1, <1>2
        <4> QED  BY <4>1, <4>2
      <3>3. S = Nat  BY <3>1, <3>2, NatSets
      <3> QED  BY <1>2, <2>3, <3>3
    <2> DEFINE c == j[i]
    <2>5. c.first <= n + 1 /\ n + 1 <= c.last
      <3>1. c.first = IF i = 1 THEN 1 ELSE j[i - 1].last + 1  BY <1>5
      <3>2. i # 1 => i - 1 \in 1 .. k  BY <1>2
      <3>3. c.last \in Nat /\ (i # 1 => j[i - 1].last \in Nat)  BY <1>5, <3>2
      <3> HIDE DEF c
      <3> QED  BY <1>8, <2>4, <3>1, <3>3 DEF c
    <2>6. c \in T  BY <1>3, <2>4
    <2>7. \A d \in T : c.first <= d.first
      <3> TAKE d \in T
      <3>1. PICK l \in 1 .. k : d = j[l]  BY <1>3
      <3>2. ~(l < i)
        <4> SUFFICES ASSUME l < i PROVE FALSE  OBVIOUS
        <4>1. i # 1 /\ i - 1 \in 1 .. k /\ (l = i - 1 \/ l < i - 1)  BY <1>2
        <4>2. j[l].last > n /\ ~(j[i - 1].last > n)  BY <2>4, <3>1, <4>1
        <4>3. /\ j[l].last \in Nat /\ j[i - 1].last \in Nat /\ j[i - 1].first \in Nat
              /\ j[i - 1].first <= j[i - 1].last
          BY <1>5, <4>1
        <4>4. l < i - 1 => j[l].last < j[i - 1].first  BY <1>4, <4>1
        <4> QED  BY <1>8, <4>1, <4>2, <4>3, <4>4
      <3>3. /\ j[i].first \in Nat /\ j[i].last \in Nat /\ j[i].first <= j[i].last
            /\ j[l].first \in Nat
        BY <1>5
      <3>4. i < l => j[i].last < j[l].first  BY <1>4
      <3> QED  BY <3>1, <3>2, <3>3, <3>4
    <2>8. Cardinality(T) \in Nat \ {0} /\ g[1] = c
      <3> HIDE DEF T, c
      <3> QED  BY <1>1, <1>7, <2>6, <2>7, EndsOfOrder
    <2>9. Page(1, g) = <<c>>  BY <1>9, <1>10, <2>8
    <2>10. <<c>> # <<>> /\ <<c>>[1] = c  OBVIOUS
    <2> HIDE DEF g, c
    <2> QED  BY <1>6, <1>12, <2>5, <2>9, <2>10 DEF next
  <1> QED  BY <1>11, <1>12

\* A reader that turns pages from the last row it was given sees every row once, in the order
\* it asked for, of a branch, a list, a table and the journal, in every state.
THEOREM ReadersTurnPages == Spec => []PagesFollowOn
  <1>1. Journalled /\ Stored /\ [Next]_vars => Journalled' /\ Stored'  BY NextStored
  <1>2. Journalled /\ Stored => PagesFollowOn
    <2> SUFFICES ASSUME Journalled, Stored PROVE PagesFollowOn  OBVIOUS
    <2> SUFFICES ASSUME NEW s \in Scopes
                 PROVE  LET p == rows[s] IN
      /\ \A order \in {"oldestFirst", "newestFirst"} :
          LET start == IF order = "oldestFirst" THEN 0 ELSE p.next IN
          /\ \A e \in p.entries, stopAt \in EntryIds(p) \cup {Null}, types \in {Types, {"message"}} :
                FollowsOn(LAMBDA c, n : BranchRows(p, e.id, order, stopAt, types, c, n), start, p.next)
          /\ \A key \in Keys : FollowsOn(LAMBDA c, n : ReadList(p, key, order, c, n), start, p.next)
          /\ \A table \in {p.entries, p.usage} :
                FollowsOn(LAMBDA c, n : ScanFrom(table, order, p.next, c, n), start, p.next)
      /\ \A n \in 0 .. nextSeq[s] - 1 :
            LET page == ReadCommits(s, n, 1) IN
            IF n = nextSeq[s] - 1 THEN page = <<>>
            ELSE page # <<>> /\ page[1].first <= n + 1 /\ n + 1 <= page[1].last
      BY DEF PagesFollowOn
    <2> DEFINE p == rows[s]
    <2>1. Sound(p)  BY DEF Stored
    <2>2. p.next \in Nat \ {0} /\ Sortable(p.entries, "seq", p.next - 1) /\ Sortable(p.usage, "seq", p.next - 1)
      BY <2>1 DEF Sound, Tables
    <2> HIDE DEF p
    <2>3. ASSUME NEW order \in {"oldestFirst", "newestFirst"}
          PROVE LET start == IF order = "oldestFirst" THEN 0 ELSE p.next IN
          /\ \A e \in p.entries, stopAt \in EntryIds(p) \cup {Null}, types \in {Types, {"message"}} :
                FollowsOn(LAMBDA c, n : BranchRows(p, e.id, order, stopAt, types, c, n), start, p.next)
          /\ \A key \in Keys : FollowsOn(LAMBDA c, n : ReadList(p, key, order, c, n), start, p.next)
          /\ \A table \in {p.entries, p.usage} :
                FollowsOn(LAMBDA c, n : ScanFrom(table, order, p.next, c, n), start, p.next)
      <3> DEFINE start == IF order = "oldestFirst" THEN 0 ELSE p.next
      <3>1. ASSUME NEW e \in p.entries, NEW stopAt \in EntryIds(p) \cup {Null}, NEW types \in {Types, {"message"}}
            PROVE  FollowsOn(LAMBDA c, n : BranchRows(p, e.id, order, stopAt, types, c, n), start, p.next)
        <4>1. BranchPages(p, e.id, order, stopAt, types)  BY <2>1, BranchFollowsOn
        <4> QED  BY <4>1 DEF BranchPages
      <3>2. ASSUME NEW key \in Keys
            PROVE  FollowsOn(LAMBDA c, n : ReadList(p, key, order, c, n), start, p.next)
        BY <2>1, ListFollowsOn DEF FollowsOn
      <3>3. ASSUME NEW table \in {p.entries, p.usage}
            PROVE  FollowsOn(LAMBDA c, n : ScanFrom(table, order, p.next, c, n), start, p.next)
        <4>1. Sortable(table, "seq", p.next - 1)  BY <2>2
        <4> QED  BY <2>2, <4>1, ScanFollowsOn DEF FollowsOn
      <3> QED  BY <3>1, <3>2, <3>3
    <2> QED  BY <2>3, CommitsFollowOn DEF p
  <1> QED  BY <1>1, <1>2, InitStored, PTL DEF Spec

\* The entry a path starts from and the parents of what it has are in it.
Closed(p, start, S) == \A e \in p.entries : e.id = start \/ (\E d \in S : d.parent = e.id) => e \in S

\* A path is the least such set.
LEMMA PathIsLeast ==
    ASSUME NEW p, NEW start
    PROVE  /\ Path(p, start) \subseteq p.entries
           /\ Closed(p, start, Path(p, start))
           /\ \A S \in SUBSET p.entries : Closed(p, start, S) => Path(p, start) \subseteq S
  <1> DEFINE P == Path(p, start)
  <1>1. P = {e \in p.entries : \A S \in SUBSET p.entries : Closed(p, start, S) => e \in S}
    BY DEF Path, Closed
  <1> HIDE DEF P
  <1>2. ASSUME NEW e \in p.entries, e.id = start \/ (\E d \in P : d.parent = e.id), NEW S \in SUBSET p.entries,
               Closed(p, start, S)
        PROVE  e \in S
    BY <1>1, <1>2 DEF Closed
  <1>3. Closed(p, start, P)  BY <1>1, <1>2 DEF Closed
  <1> QED  BY <1>1, <1>3 DEF P

\* The row an entry names as its parent is there, once, and before it.
LEMMA ParentIs ==
    ASSUME NEW p, Sound(p), NEW d \in p.entries, NEW e \in p.entries
    PROVE  /\ e.id # Null /\ e.seq \in Nat
           /\ d.id = e.id => d = e
           /\ e.parent = d.id => d.seq < e.seq
           /\ e.parent # Null => \E c \in p.entries : c.id = e.parent /\ c.seq < e.seq
  <1>1. e \in Entry /\ d \in Entry  BY DEF Sound, Tables
  <1>2. e.id # Null /\ d.id # Null /\ e.seq \in Nat  BY <1>1, PiStoreAssumption DEF Entry, Null
  <1> QED  BY <1>2 DEF Sound

\* A path begins with the entry it was asked for and has nothing after it.
LEMMA PathUpTo ==
    ASSUME NEW p, Sound(p), NEW e \in p.entries
    PROVE  e \in Path(p, e.id) /\ \A x \in Path(p, e.id) : x.seq <= e.seq
  <1> DEFINE S == {x \in p.entries : x.seq <= e.seq}
  <1>1. \A x \in p.entries : x.seq \in Nat  BY ParentIs
  <1>2. Closed(p, e.id, S)
    <2> SUFFICES ASSUME NEW x \in p.entries, x.id = e.id \/ (\E d \in S : d.parent = x.id) PROVE x.seq <= e.seq
      BY DEF Closed
    <2>1. CASE x.id = e.id  BY <2>1, <1>1, ParentIs
    <2>2. ASSUME NEW d \in S, d.parent = x.id PROVE x.seq <= e.seq
      <3>1. x.seq < d.seq  BY <2>2, ParentIs
      <3> QED  BY <3>1, <1>1
    <2> QED  BY <2>1, <2>2
  <1>3. Path(p, e.id) \subseteq S  BY <1>2, PathIsLeast
  <1>4. e \in Path(p, e.id)  BY PathIsLeast DEF Closed
  <1> QED  BY <1>3, <1>4

\* A root is its own path.
LEMMA PathOfRoot ==
    ASSUME NEW p, Sound(p), NEW e \in p.entries, e.parent = Null
    PROVE  Path(p, e.id) = {e}
  <1>1. Closed(p, e.id, {e})
    <2> SUFFICES ASSUME NEW x \in p.entries, x.id = e.id \/ e.parent = x.id PROVE x = e  BY DEF Closed
    <2> QED  BY ParentIs
  <1>2. Path(p, e.id) \subseteq {e}
    <2>1. {e} \in SUBSET p.entries  OBVIOUS
    <2> QED  BY <1>1, <2>1, PathIsLeast
  <1> QED  BY <1>2, PathUpTo

\* The path of a child is its own row and the path of its parent.
LEMMA PathOfChild ==
    ASSUME NEW p, Sound(p), NEW d \in p.entries, NEW e \in p.entries, e.parent = d.id
    PROVE  Path(p, e.id) = {e} \cup Path(p, d.id)
  <1> DEFINE S == {e} \cup Path(p, d.id)
  <1>1. Path(p, d.id) \subseteq p.entries /\ Closed(p, d.id, Path(p, d.id))  BY PathIsLeast
  <1>2. Closed(p, e.id, S)
    <2> SUFFICES ASSUME NEW x \in p.entries, x.id = e.id \/ (\E c \in S : c.parent = x.id) PROVE x \in S
      BY DEF Closed
    <2>1. CASE x.id = e.id  BY <2>1, ParentIs
    <2>2. ASSUME e.parent = x.id PROVE x \in S
      BY <2>2, <1>1 DEF Closed
    <2>3. ASSUME NEW c \in Path(p, d.id), c.parent = x.id PROVE x \in S
      BY <2>3, <1>1 DEF Closed
    <2> QED  BY <2>1, <2>2, <2>3
  <1>3. Path(p, e.id) \subseteq S
    <2>1. S \in SUBSET p.entries  BY <1>1
    <2> HIDE DEF S
    <2> QED  BY <1>2, <2>1, PathIsLeast
  <1>4. e \in Path(p, e.id) /\ Closed(p, e.id, Path(p, e.id)) /\ Path(p, e.id) \subseteq p.entries
    BY PathIsLeast, PathUpTo
  <1>5. d \in Path(p, e.id)  BY <1>4 DEF Closed
  <1>6. Closed(p, d.id, Path(p, e.id))
    <2> SUFFICES ASSUME NEW x \in p.entries, x.id = d.id \/ (\E c \in Path(p, e.id) : c.parent = x.id)
                 PROVE  x \in Path(p, e.id)
      BY DEF Closed
    <2>1. CASE x.id = d.id  BY <2>1, <1>5, ParentIs
    <2>2. ASSUME NEW c \in Path(p, e.id), c.parent = x.id PROVE x \in Path(p, e.id)
      BY <2>2, <1>4 DEF Closed
    <2> QED  BY <2>1, <2>2
  <1>7. Path(p, d.id) \subseteq Path(p, e.id)  BY <1>4, <1>6, PathIsLeast
  <1> QED  BY <1>3, <1>4, <1>7

\* On a path, each row is the parent of the row that follows it, and the first has none.
LEMMA PathIsLine ==
    ASSUME NEW p, Sound(p), NEW e \in p.entries, NEW x \in Path(p, e.id), NEW y \in Path(p, e.id),
           x.seq < y.seq, \A z \in Path(p, e.id) : ~(x.seq < z.seq /\ z.seq < y.seq)
    PROVE  y.parent = x.id
  <1> DEFINE Line(a) == \A u, v \in Path(p, a.id) :
                          u.seq < v.seq /\ (\A z \in Path(p, a.id) : ~(u.seq < z.seq /\ z.seq < v.seq)) => v.parent = u.id
             S == {n \in Nat : \A a \in p.entries : a.seq <= n => Line(a)}
  <1>1. \A a \in p.entries : a.seq \in Nat \ {0}
    BY DEF Sound, Sortable
  <1>2. 0 \in S  BY <1>1
  <1>3. ASSUME NEW n \in S PROVE n + 1 \in S
    <2> SUFFICES ASSUME NEW a \in p.entries, a.seq <= n + 1 PROVE Line(a)  OBVIOUS
    <2>1. Path(p, a.id) \subseteq p.entries  BY PathIsLeast
    <2>2. CASE a.parent = Null
      <3>1. Path(p, a.id) = {a}  BY <2>2, PathOfRoot
      <3> QED  BY <3>1, <1>1
    <2>3. CASE a.parent # Null
      <3>1. PICK d \in p.entries : d.id = a.parent /\ d.seq < a.seq  BY <2>3, ParentIs
      <3>2. Path(p, a.id) = {a} \cup Path(p, d.id)  BY <3>1, PathOfChild
      <3>3. d \in Path(p, d.id) /\ \A z \in Path(p, d.id) : z.seq <= d.seq  BY PathUpTo
      <3>4. Path(p, d.id) \subseteq p.entries  BY PathIsLeast
      <3>5. d.seq <= n  BY <1>1, <3>1
      <3>6. Line(d)  BY <3>5
      <3> SUFFICES ASSUME NEW u \in Path(p, a.id), NEW v \in Path(p, a.id), u.seq < v.seq,
                          \A z \in Path(p, a.id) : ~(u.seq < z.seq /\ z.seq < v.seq)
                   PROVE  v.parent = u.id
        OBVIOUS
      <3>7. CASE v = a
        <4>1. u \in Path(p, d.id)  BY <3>2, <3>7, <1>1
        <4>2. u.seq <= d.seq /\ ~(u.seq < d.seq)  BY <3>1, <3>2, <3>3, <3>7, <4>1
        <4>3. u \in p.entries /\ u.seq \in Nat /\ d.seq \in Nat  BY <3>4, <4>1, <1>1
        <4>4. u.seq = d.seq  BY <4>2, <4>3
        <4>5. u = d  BY <4>3, <4>4 DEF Sound, Sortable
        <4> QED  BY <3>1, <3>7, <4>5
      <3>8. CASE v # a
        <4>1. v \in Path(p, d.id)  BY <3>2, <3>8
        <4>2. u # a
          <5>1. v.seq \in Nat /\ d.seq \in Nat /\ a.seq \in Nat /\ v.seq <= d.seq  BY <3>3, <3>4, <4>1, <1>1
          <5> QED  BY <5>1, <3>1
        <4>3. u \in Path(p, d.id)  BY <3>2, <4>2
        <4> QED  BY <3>2, <3>6, <4>1, <4>3
      <3> QED  BY <3>7, <3>8
    <2> QED  BY <2>2, <2>3
  <1>4. S = Nat  BY <1>2, <1>3, NatSets
  <1>5. e.seq \in Nat /\ e.seq <= e.seq  BY <1>1
  <1>6. Line(e)  BY <1>4, <1>5
  <1> QED  BY <1>6

\* The first row of a path has no parent.
LEMMA PathBegins ==
    ASSUME NEW p, Sound(p), NEW e \in p.entries, NEW x \in Path(p, e.id),
           \A z \in Path(p, e.id) : x.seq <= z.seq
    PROVE  x.parent = Null
  <1>1. x \in p.entries /\ Closed(p, e.id, Path(p, e.id))  BY PathIsLeast
  <1> SUFFICES ASSUME x.parent # Null PROVE FALSE  OBVIOUS
  <1>2. PICK d \in p.entries : d.id = x.parent /\ d.seq < x.seq  BY <1>1, ParentIs
  <1>3. d \in Path(p, e.id)  BY <1>1, <1>2 DEF Closed
  <1>4. d.seq \in Nat /\ x.seq \in Nat  BY <1>1, ParentIs
  <1> QED  BY <1>2, <1>3, <1>4

\* What is added later changes no path.
LEMMA PathKept ==
    ASSUME NEW p, Sound(p), NEW q, Sound(q), p.entries \subseteq q.entries, NEW e \in p.entries
    PROVE  Path(q, e.id) = Path(p, e.id)
  <1>1. Path(p, e.id) \subseteq p.entries /\ Closed(p, e.id, Path(p, e.id))  BY PathIsLeast
  <1>2. Path(q, e.id) \subseteq q.entries /\ Closed(q, e.id, Path(q, e.id))  BY PathIsLeast
  <1>3. Closed(q, e.id, Path(p, e.id))
    <2> SUFFICES ASSUME NEW x \in q.entries, x.id = e.id \/ (\E d \in Path(p, e.id) : d.parent = x.id)
                 PROVE  x \in Path(p, e.id)
      BY DEF Closed
    <2>1. CASE x.id = e.id
      <3>1. e \in q.entries  OBVIOUS
      <3>2. x = e  BY <2>1, <3>1, ParentIs
      <3> QED  BY <3>2, PathUpTo
    <2>2. ASSUME NEW d \in Path(p, e.id), d.parent = x.id PROVE x \in Path(p, e.id)
      <3>1. d \in p.entries /\ x.id # Null  BY <1>1, ParentIs
      <3>2. PICK c \in p.entries : c.id = d.parent  BY <2>2, <3>1, ParentIs
      <3>3. c \in q.entries /\ c.id = x.id  BY <2>2, <3>2
      <3>4. c = x  BY <3>3, ParentIs
      <3> QED  BY <1>1, <2>2, <3>2, <3>4 DEF Closed
    <2> QED  BY <2>1, <2>2
  <1>4. Path(q, e.id) \subseteq Path(p, e.id)  BY <1>1, <1>3, PathIsLeast
  <1> DEFINE S == Path(q, e.id) \cap p.entries
  <1>5. Closed(p, e.id, S)  BY <1>2 DEF Closed
  <1>6. Path(p, e.id) \subseteq S  BY <1>5, PathIsLeast
  <1> QED  BY <1>4, <1>6

\* A branch is the path, oldest first.
LEMMA BranchIs ==
    ASSUME NEW p, Sound(p), NEW id
    PROVE  /\ Branch(p, id) = InOrder(Path(p, id), "seq")
           /\ Sortable(Path(p, id), "seq", p.next - 1) /\ p.next - 1 \in Nat
  <1> DEFINE P == Path(p, id)
             g == InOrder(P, "seq")
             m == p.next - 1
  <1>1. p.next \in Nat \ {0} /\ m \in Nat /\ m <= p.next  BY DEF Sound, Tables
  <1>2. P \subseteq p.entries  BY PathIsLeast
  <1>3. Sortable(P, "seq", m)
    <2>1. Sortable(p.entries, "seq", m)  BY DEF Sound
    <2> HIDE DEF P, m
    <2> QED  BY <1>2, <2>1, SortableSubset
  <1>4. \A e \in P : e.id # Null /\ e.type \in Types /\ 0 < e.seq
    <2> TAKE e \in P
    <2>1. e.id # Null  BY <1>2, ParentIs
    <2>2. e \in Entry  BY <1>2 DEF Sound, Tables
    <2>3. e.seq \in 1 .. m  BY <1>3 DEF Sortable
    <2> QED  BY <2>1, <2>2, <2>3 DEF Entry
  <1>5. Branch(p, id) = Page(p.next, g)
    <2> DEFINE upTo == {e \in P : ~\E d \in P : d.id = Null /\ d.seq < e.seq}
               U    == {e \in upTo : e.type \in Types /\ 0 < e.seq}
    <2>1. U = P  BY <1>4
    <2>2. Branch(p, id) = Page(p.next, InOrder(U, "seq"))
      BY DEF Branch, BranchRows, Directed
    <2> QED  BY <2>1, <2>2
  <1>6. g \in Seq(P) /\ Len(g) \in 0 .. m
    <2> HIDE DEF P, m
    <2> QED  BY <1>1, <1>3, InOrderSorts
  <1>7. Page(p.next, g) = g
    <2> HIDE DEF g, P
    <2>1. Len(g) <= p.next  BY <1>1, <1>6
    <2> QED  BY <1>1, <1>6, <2>1, PageOf
  <1> QED  BY <1>1, <1>3, <1>5, <1>7

\* So read a branch, it begins without a parent, goes from parent to child and ends with
\* the entry it was asked for.
LEMMA BranchReads ==
    ASSUME NEW p, Sound(p), NEW e \in p.entries
    PROVE  LET read == Branch(p, e.id) IN
           /\ ~Corrupt(p, e.id)
           /\ Last(read).id = e.id
           /\ \A i \in 2 .. Len(read) : read[i].parent = read[i - 1].id
  <1> DEFINE P == Path(p, e.id)
             g == InOrder(P, "seq")
             m == p.next - 1
             n == Cardinality(P)
  <1>1. Branch(p, e.id) = g /\ Sortable(P, "seq", m) /\ m \in Nat  BY BranchIs
  <1>2. e \in P /\ \A x \in P : x.seq <= e.seq  BY PathUpTo
  <1>3. P \subseteq p.entries /\ \A x \in P : x.seq \in Nat  BY PathIsLeast, ParentIs
  <1>4. ASSUME NEW x \in P, \A z \in P : x.seq <= z.seq PROVE x.parent = Null  BY <1>4, PathBegins
  <1>5. ASSUME NEW x \in P, NEW y \in P, x.seq < y.seq, \A z \in P : ~(x.seq < z.seq /\ z.seq < y.seq)
        PROVE  y.parent = x.id
    BY <1>5, PathIsLine
  <1>6. Corrupt(p, e.id) <=> Head(g).parent # Null  BY DEF Corrupt
  <1> HIDE DEF P, m
  <1>7. /\ n \in 0 .. m /\ g \in [1 .. n -> P] /\ g \in Seq(P) /\ Len(g) = n
        /\ \A i, j \in 1 .. n : i < j <=> g[i].seq < g[j].seq
        /\ \A r \in P : \E i \in 1 .. n : g[i] = r
    <2>1. n \in 0 .. m /\ g \in [1 .. n -> P] /\ g \in Seq(P) /\ Len(g) = n  BY <1>1, InOrderSorts
    <2>2. \A i, j \in 1 .. n : i < j <=> g[i].seq < g[j].seq  BY <1>1, InOrderSorts
    <2>3. \A r \in P : \E i \in 1 .. n : g[i] = r  BY <1>1, InOrderSorts
    <2> QED  BY <2>1, <2>2, <2>3
  <1>8. n \in Nat \ {0} /\ g[n] = e  BY <1>1, <1>2, EndsOfOrder
  <1> HIDE DEF g, n
  <1>9. Last(g) = e  BY <1>7, <1>8 DEF Last
  <1>10. Head(g).parent = Null
    <2>1. Head(g) = g[1]
      <3>1. Len(g) # 0  BY <1>7, <1>8
      <3> QED  BY <1>7, <3>1
    <2>2. 1 \in 1 .. n  BY <1>8
    <2>3. \A z \in P : g[1].seq <= z.seq
      <3> TAKE z \in P
      <3>1. PICK i \in 1 .. n : g[i] = z  BY <1>7
      <3>2. g[1] \in P /\ g[1].seq \in Nat /\ z.seq \in Nat  BY <1>3, <1>7, <2>2
      <3>3. 1 = i \/ g[1].seq < g[i].seq  BY <1>7, <2>2
      <3> QED  BY <3>1, <3>2, <3>3
    <2> QED  BY <1>4, <1>7, <2>1, <2>2, <2>3
  <1>11. ASSUME NEW i \in 2 .. n PROVE g[i].parent = g[i - 1].id
    <2>1. i \in 1 .. n /\ i - 1 \in 1 .. n /\ i - 1 < i  BY <1>8
    <2>2. g[i] \in P /\ g[i - 1] \in P /\ g[i - 1].seq < g[i].seq  BY <1>7, <2>1
    <2>3. \A z \in P : ~(g[i - 1].seq < z.seq /\ z.seq < g[i].seq)
      <3> TAKE z \in P
      <3>1. PICK k \in 1 .. n : g[k] = z  BY <1>7
      <3>2. /\ i - 1 < k <=> g[i - 1].seq < g[k].seq
            /\ k < i <=> g[k].seq < g[i].seq
        BY <1>7, <2>1
      <3>3. ~(i - 1 < k /\ k < i)  OBVIOUS
      <3> QED  BY <3>1, <3>2, <3>3
    <2> QED  BY <1>5, <2>2, <2>3
  <1> QED  BY <1>1, <1>6, <1>7, <1>9, <1>10, <1>11

\* The rows of the entries among the first n writes.
Added(w, n) == {EntryOf(w[i]) : i \in {i \in 1 .. n : w[i].kind = "entry"}}

\* The entries that a batch adds, and the numbers it has.
LEMMA BatchEntries ==
    ASSUME NEW p, Sound(p), NEW w, w \in Seq(Committed), ApplyAll(p, w) # Refused
    PROVE  ApplyAll(p, w).entries = p.entries \cup Added(w, Len(w))
  <1> DEFINE n == Len(w)
  <1>1. n \in Nat /\ DOMAIN w = 1 .. n /\ \A i \in 1 .. n : w[i] \in Committed  BY LenProperties
  <1> HIDE DEF n
  <1>2. PICK f : Chain("write", f, p, w, n) /\ f[n] = ApplyAll(p, w)  BY <1>1, ApplyAllChain
  <1>3. Taken(f, p, w, n)  BY <1>1, <1>2 DEF Taken
  <1>4a. n \in Nat  BY <1>1
  <1>4b. \A i \in 0 .. n : Sound(f[i]) /\ f[i].next = p.next + i  BY <1>4a, <1>3, ChainSound
  <1>4c. \A i \in 1 .. n : f[i] = Apply(f[i - 1], w[i]) /\ f[i] # Refused  BY <1>4a, <1>3, ChainSound
  <1> DEFINE S == {k \in Nat : k <= n => f[k].entries = p.entries \cup Added(w, k)}
  <1>5. 0 \in S
    <2>1. Added(w, 0) = {}  BY DEF Added
    <2>2. f[0] = p  BY <1>2 DEF Chain
    <2> QED  BY <2>1, <2>2
  <1>6. ASSUME NEW k \in S PROVE k + 1 \in S
    <2> SUFFICES ASSUME k + 1 <= n PROVE f[k + 1].entries = p.entries \cup Added(w, k + 1)  OBVIOUS
    <2>1. k \in Nat /\ k \in 0 .. n /\ k + 1 \in 1 .. n /\ k + 1 - 1 = k  BY <1>1
    <2>2. f[k].entries = p.entries \cup Added(w, k)  BY <2>1
    <2>3. f[k] \in Tables  BY <1>4b, <1>4c, <2>1 DEF Sound
    <2>4. f[k + 1] = Apply(f[k], w[k + 1]) /\ f[k + 1] # Refused /\ w[k + 1] \in Committed  BY <1>1, <1>4b, <1>4c, <2>1
    <2>5. f[k + 1].entries = f[k].entries \cup IF w[k + 1].kind = "entry" THEN {EntryOf(w[k + 1])} ELSE {}
      BY <2>3, <2>4, ApplyFields
    <2>6. Added(w, k + 1) = Added(w, k) \cup IF w[k + 1].kind = "entry" THEN {EntryOf(w[k + 1])} ELSE {}
      <3>1. \A i : i \in 1 .. k + 1 <=> i \in 1 .. k \/ i = k + 1  BY <2>1
      <3> USE DEF Added
      <3>2. CASE w[k + 1].kind = "entry"
        <4>1. {i \in 1 .. k + 1 : w[i].kind = "entry"} = {i \in 1 .. k : w[i].kind = "entry"} \cup {k + 1}
          BY <3>1, <3>2
        <4> QED  BY <3>2, <4>1
      <3>3. CASE w[k + 1].kind # "entry"
        <4>1. {i \in 1 .. k + 1 : w[i].kind = "entry"} = {i \in 1 .. k : w[i].kind = "entry"}
          BY <3>1, <3>3
        <4> QED  BY <3>3, <4>1
      <3> QED  BY <3>2, <3>3
    <2> QED  BY <2>2, <2>5, <2>6
  <1>7. S = Nat  BY <1>5, <1>6, NatSets
  <1>8. f[n].entries = p.entries \cup Added(w, n)
    <2>1. n \in S /\ n <= n  BY <1>1, <1>7
    <2> QED  BY <2>1
  <1> QED  BY <1>2, <1>8 DEF n

\* A copy of a path in which every row keeps its identity and its parent, and whose numbers
\* rise as those of the path do, reads as the path does.
LEMMA CopyReads ==
    ASSUME NEW p, Sound(p), NEW q, Sound(q), NEW tip, NEW F,
           F \in [Path(p, tip) -> q.entries],
           \A r \in q.entries : \E x \in Path(p, tip) : F[x] = r,
           \A x \in Path(p, tip) : F[x].id = x.id /\ F[x].parent = x.parent,
           \A x, y \in Path(p, tip) : x.seq < y.seq => F[x].seq < F[y].seq
    PROVE  IdsOf(Branch(q, tip)) = IdsOf(Branch(p, tip))
  <1> DEFINE P == Path(p, tip)
             Q == Path(q, tip)
             g == InOrder(P, "seq")
             n == Cardinality(P)
             h == [i \in 1 .. n |-> F[g[i]]]
             a == p.next - 1
             b == q.next - 1
  <1>1. P \subseteq p.entries /\ Closed(p, tip, P)  BY PathIsLeast
  <1>2. Q \subseteq q.entries /\ Closed(q, tip, Q)  BY PathIsLeast
  <1>3. Q = q.entries
    <2> DEFINE S == {x \in P : F[x] \in Q}
    <2>1. Closed(p, tip, S)
      <3> SUFFICES ASSUME NEW x \in p.entries, x.id = tip \/ (\E d \in S : d.parent = x.id) PROVE x \in S
        BY DEF Closed
      <3>1. CASE x.id = tip
        <4>1. x \in P  BY <1>1, <3>1 DEF Closed
        <4>2. F[x] \in q.entries /\ F[x].id = tip  BY <3>1, <4>1
        <4> QED  BY <1>2, <4>1, <4>2 DEF Closed
      <3>2. ASSUME NEW d \in S, d.parent = x.id PROVE x \in S
        <4>1. d \in P /\ F[d] \in Q  OBVIOUS
        <4>2. x \in P  BY <1>1, <3>2, <4>1 DEF Closed
        <4>3. F[d].parent = d.parent /\ F[x].id = x.id /\ F[x] \in q.entries  BY <4>1, <4>2
        <4>4. F[d].parent = F[x].id  BY <3>2, <4>3
        <4>5. F[x] \in Q  BY <1>2, <4>1, <4>3, <4>4 DEF Closed
        <4> QED  BY <4>2, <4>5
      <3> QED  BY <3>1, <3>2
    <2>2. P \subseteq S
      <3>1. S \in SUBSET p.entries  BY <1>1
      <3> HIDE DEF S
      <3> QED  BY <2>1, <3>1, PathIsLeast
    <2> QED  BY <1>2, <2>2
  <1>4. /\ Branch(p, tip) = g /\ Sortable(P, "seq", a) /\ a \in Nat
        /\ Branch(q, tip) = InOrder(Q, "seq") /\ Sortable(Q, "seq", b) /\ b \in Nat
    BY BranchIs
  <1> HIDE DEF P, Q, a, b
  <1>5. /\ n \in Nat /\ g \in [1 .. n -> P]
        /\ \A i, j \in 1 .. n : i < j <=> g[i].seq < g[j].seq
        /\ \A r \in P : \E i \in 1 .. n : g[i] = r
    <2>1. n \in 0 .. a /\ g \in [1 .. n -> P]  BY <1>4, InOrderSorts
    <2>2. \A i, j \in 1 .. n : i < j <=> g[i].seq < g[j].seq  BY <1>4, InOrderSorts
    <2>3. \A r \in P : \E i \in 1 .. n : g[i] = r  BY <1>4, InOrderSorts
    <2> HIDE DEF n, g
    <2>4. n \in Nat  BY <2>1, <1>4
    <2> QED  BY <2>1, <2>2, <2>3, <2>4
  <1> HIDE DEF n, g
  <1>6. h \in [1 .. n -> Q]  BY <1>3, <1>5 DEF P
  <1>7. \A i, j \in 1 .. n : i < j => h[i].seq < h[j].seq  BY <1>5 DEF P
  <1>8. \A r \in Q : \E i \in 1 .. n : h[i] = r
    <2> TAKE r \in Q
    <2>1. PICK x \in P : F[x] = r  BY <1>3 DEF P
    <2>2. PICK i \in 1 .. n : g[i] = x  BY <1>5
    <2> QED  BY <2>1, <2>2
  <1>9. \A i \in 1 .. n : h[i].id = g[i].id  BY <1>5 DEF P
  <1>10. DOMAIN h = 1 .. n /\ DOMAIN g = 1 .. n  BY <1>5
  <1> HIDE DEF h
  <1>11. h = InOrder(Q, "seq")
    <2>1. n \in Nat /\ b \in Nat /\ Sortable(Q, "seq", b)  BY <1>4, <1>5
    <2>2. \A i, j \in 1 .. n : i < j => h[i]["seq"] < h[j]["seq"]  BY <1>7
    <2>3. Lists(h, n, Q, "seq")  BY <1>6, <1>8, <2>2 DEF Lists
    <2> QED  BY <2>1, <2>3, InOrderUnique
  <1>12. IdsOf(h) = IdsOf(g)  BY <1>9, <1>10 DEF IdsOf
  <1> QED  BY <1>4, <1>11, <1>12

\* The fork of a path into a scope without a commit.
LEMMA ForkReads ==
    ASSUME Journalled, Stored, NEW source \in Scopes, NEW s \in Scopes, NEW tip, NEW keys,
           nextSeq[s] = 1,
           NEW q, q = ApplyAll(rows[s], Numbered(s, InOrder(Snapshot(rows[source], tip, keys), "seq"))),
           q # Refused
    PROVE  /\ IdsOf(Branch(q, tip)) = IdsOf(Branch(rows[source], tip))
           /\ \A x \in Path(rows[source], tip) : \E r \in q.entries : r.id = x.id
  <1> DEFINE p == rows[source]
             P == Path(p, tip)
             T == Snapshot(p, tip, keys)
             E(e) == [kind |-> "entry", id |-> e.id, parent |-> e.parent, type |-> e.type, seq |-> e.seq]
             V(v) == [kind |-> "set", key |-> v.key, seq |-> v.seq]
             m == p.next - 1
             copied == InOrder(T, "seq")
             n == Cardinality(T)
             w == Numbered(s, copied)
  <1>1. Sound(p) /\ Sound(rows[s]) /\ rows[s].next = 1  BY DEF Stored
  <1>2. rows[s].entries = {}
    <2>1. \A e \in rows[s].entries : e.seq \in 1 .. 1 - 1  BY <1>1 DEF Sound, Sortable
    <2> QED  BY <2>1
  <1>3. T \subseteq Committed /\ Sortable(T, "seq", m) /\ m \in Nat  BY <1>1, SnapshotCommitted DEF Sound, Tables
  <1>4. copied \in Seq(Committed)  BY <1>1, CopiedCommitted
  <1>5. \A x \in P : E(x) \in T /\ E(x).kind = "entry"  BY DEF Snapshot
  <1>6. \A c \in T : c.kind = "entry" => \E x \in P : c = E(x)
    <2>1. \A c \in T : (\E x \in P : c = E(x)) \/ (\E v \in p.values : c = V(v))  BY DEF Snapshot
    <2>2. \A v : V(v).kind # "entry"  OBVIOUS
    <2> QED  BY <2>1, <2>2
  <1> HIDE DEF T
  <1>7. /\ n \in Nat /\ copied \in [1 .. n -> T] /\ Len(copied) = n
        /\ \A i, j \in 1 .. n : i < j <=> copied[i].seq < copied[j].seq
        /\ \A c \in T : \E i \in 1 .. n : copied[i] = c
    <2> HIDE DEF m
    <2>1. n \in 0 .. m /\ copied \in [1 .. n -> T] /\ Len(copied) = n  BY <1>3, InOrderSorts
    <2>2. \A i, j \in 1 .. n : i < j <=> copied[i].seq < copied[j].seq  BY <1>3, InOrderSorts
    <2>3. \A c \in T : \E i \in 1 .. n : copied[i] = c  BY <1>3, InOrderSorts
    <2> HIDE DEF n, copied
    <2>4. n \in Nat  BY <2>1, <1>3
    <2> QED  BY <2>1, <2>2, <2>3, <2>4
  <1>8. q = ApplyAll(rows[s], w)  BY DEF T
  <1> HIDE DEF copied
  <1>9. /\ w \in Seq(Committed) /\ Len(w) = Len(copied)
        /\ \A i \in 1 .. Len(copied) : w[i] = [copied[i] EXCEPT !.seq = nextSeq[s] + i - 1]
    <2>1. nextSeq[s] \in Nat  BY DEF Journalled
    <2> QED  BY <1>4, <2>1, NumberedCommitted
  <1> HIDE DEF w, n
  <1>10. Len(w) = n /\ \A i \in 1 .. n : w[i] = [copied[i] EXCEPT !.seq = i]
    <2>1. \A i \in 1 .. n : nextSeq[s] + i - 1 = i  OBVIOUS
    <2> QED  BY <1>7, <1>9, <2>1
  <1>11. q.entries = {EntryOf(w[i]) : i \in {i \in 1 .. n : w[i].kind = "entry"}}
    BY <1>1, <1>2, <1>8, <1>9, <1>10, BatchEntries DEF Added
  <1>12. Sound(q)  BY <1>1, <1>8, <1>9, BatchSound
  <1> DEFINE pos(x) == CHOOSE i \in 1 .. n : copied[i] = E(x)
             R(x)   == [id |-> x.id, parent |-> x.parent, type |-> x.type, seq |-> pos(x)]
  <1>13. \A x \in P : pos(x) \in 1 .. n /\ copied[pos(x)] = E(x)
    <2> HIDE DEF P, E
    <2> TAKE x \in P
    <2>1. \E i \in 1 .. n : copied[i] = E(x)  BY <1>5, <1>7
    <2> QED  BY <2>1
  <1>14. ASSUME NEW x \in P, NEW i \in 1 .. n, copied[i] = E(x)
         PROVE  w[i].kind = "entry" /\ EntryOf(w[i]) = [id |-> x.id, parent |-> x.parent, type |-> x.type, seq |-> i]
    <2>1. w[i] = [kind |-> "entry", id |-> x.id, parent |-> x.parent, type |-> x.type, seq |-> i]
      BY <1>10, <1>14
    <2> QED  BY <2>1 DEF EntryOf
  <1>15. \A i \in 1 .. n : copied[i] \in T /\ w[i].kind = copied[i].kind
    <2> TAKE i \in 1 .. n
    <2>1. copied[i] \in T /\ copied[i] \in Committed  BY <1>3, <1>7
    <2>2. w[i] = [copied[i] EXCEPT !.seq = i]  BY <1>10
    <2> QED  BY <2>1, <2>2 DEF Committed
  <1>16. \A x \in P : E(x).seq = x.seq  OBVIOUS
  <1> HIDE DEF P, E, V, pos
  <1>17. \A x \in P : R(x) \in q.entries /\ R(x).id = x.id /\ R(x).parent = x.parent /\ R(x).seq = pos(x)
    <2> TAKE x \in P
    <2>1. w[pos(x)].kind = "entry" /\ EntryOf(w[pos(x)]) = R(x)  BY <1>13, <1>14
    <2>2. R(x) \in q.entries  BY <1>11, <1>13, <2>1
    <2> QED  BY <2>2
  <1>18. \A i \in 1 .. n, x \in P : copied[i] = E(x) => i = pos(x)
    <2> TAKE i \in 1 .. n, x \in P
    <2> SUFFICES ASSUME copied[i] = E(x) PROVE i = pos(x)  OBVIOUS
    <2>1. pos(x) \in 1 .. n /\ copied[pos(x)] = copied[i]  BY <1>13
    <2>2. E(x).seq \in Nat  BY <1>3, <1>5 DEF Sortable
    <2>3. ~(copied[i].seq < copied[pos(x)].seq) /\ ~(copied[pos(x)].seq < copied[i].seq)  BY <2>1, <2>2
    <2>4. ~(i < pos(x)) /\ ~(pos(x) < i)  BY <1>7, <2>1, <2>3
    <2> QED  BY <2>1, <2>4
  <1>19. \A r \in q.entries : \E x \in P : R(x) = r
    <2> TAKE r \in q.entries
    <2>1. PICK i \in 1 .. n : w[i].kind = "entry" /\ r = EntryOf(w[i])  BY <1>11
    <2>2. PICK x \in P : copied[i] = E(x)  BY <1>6, <1>15, <2>1
    <2>3. i = pos(x)  BY <1>18, <2>2
    <2>4. EntryOf(w[i]) = R(x)  BY <1>14, <2>2, <2>3
    <2> QED  BY <2>1, <2>4
  <1>20. \A x, y \in P : x.seq < y.seq => pos(x) < pos(y)
    <2> TAKE x \in P, y \in P
    <2>1. copied[pos(x)].seq = x.seq /\ copied[pos(y)].seq = y.seq /\ pos(x) \in 1 .. n /\ pos(y) \in 1 .. n
      BY <1>13, <1>16
    <2> QED  BY <1>7, <2>1
  <1> DEFINE F == [x \in P |-> R(x)]
  <1>21. /\ F \in [P -> q.entries]
         /\ \A r \in q.entries : \E x \in P : F[x] = r
         /\ \A x \in P : F[x].id = x.id /\ F[x].parent = x.parent
         /\ \A x, y \in P : x.seq < y.seq => F[x].seq < F[y].seq
    <2> HIDE DEF R
    <2> QED  BY <1>17, <1>19, <1>20
  <1> HIDE DEF F, R, p
  <1>22. IdsOf(Branch(q, tip)) = IdsOf(Branch(p, tip))
    BY <1>1, <1>12, <1>21, CopyReads DEF P
  <1>23. \A x \in P : \E r \in q.entries : r.id = x.id  BY <1>17
  <1> QED  BY <1>22, <1>23 DEF p, P

\* Where a fork and its source have the entry it was taken at, they read alike.
ReadsAs(s) ==
    LET from == origin[s].from
        tip  == origin[s].tip IN
    /\ from \in Scopes /\ tip \in Ids
    /\ \E d \in rows[s].entries : d.id = tip
    /\ \E e \in rows[from].entries : e.id = tip
    /\ IdsOf(Branch(rows[s], tip)) = IdsOf(Branch(rows[from], tip))

\* A fork reads as its source did: to where it was taken.
Forked ==
    /\ origin \in [Scopes -> [from : Scopes \cup {Null}, tip : Ids \cup {Null}]]
    /\ \A s \in Scopes : origin[s] # NoFork => ReadsAs(s)

\* No step takes an entry away.
LEMMA EntriesKept ==
    ASSUME Journalled, Stored, [Next]_vars, NEW u \in Scopes
    PROVE  rows[u].entries \subseteq rows'[u].entries
  <1>1. ASSUME NEW s \in Scopes, NEW writes, writes \in Seq(Committed), ApplyCommitted(s, Numbered(s, writes))
        PROVE  rows[u].entries \subseteq rows'[u].entries
    <2> DEFINE w == Numbered(s, writes)
    <2>1. nextSeq[s] \in Nat /\ Sound(rows[s])  BY DEF Journalled, Stored
    <2>2. w \in Seq(Committed)  BY <1>1, <2>1, NumberedCommitted
    <2> HIDE DEF w
    <2>3. /\ rows'[s] = ApplyAll(rows[s], w) /\ ApplyAll(rows[s], w) # Refused
          /\ \A v \in Scopes \ {s} : rows'[v] = rows[v]
      BY <1>1, <2>2, CommitStores DEF w
    <2>4. rows[s].entries \subseteq rows'[s].entries  BY <2>1, <2>2, <2>3, BatchEntries
    <2> QED  BY <2>3, <2>4
  <1>2. ASSUME NEW s \in Scopes, NEW writes, Commit(s, writes)
        PROVE  rows[u].entries \subseteq rows'[u].entries
    <2>1. writes \in Seq(Write) /\ ApplyCommitted(s, Numbered(s, writes))  BY <1>2 DEF Commit
    <2>2. writes \in Seq(Committed)  BY <2>1, WriteCommitted, SeqMonotonic
    <2> QED  BY <1>1, <2>1, <2>2
  <1>3. ASSUME NEW s \in Scopes, Rebuild(s)
        PROVE  rows[u].entries \subseteq rows'[u].entries
    <2>1. rows' = [rows EXCEPT ![s] = Replay(s)]  BY <1>3 DEF Rebuild
    <2>2. Replay(s) = rows[s] /\ rows \in [Scopes -> Tables]  BY ReplayIsOf DEF Stored
    <2> QED  BY <2>1, <2>2
  <1>4. ASSUME NEW source \in Scopes, NEW s \in Scopes, NEW tip, NEW keys, ImportFork(source, s, tip, keys)
        PROVE  rows[u].entries \subseteq rows'[u].entries
    <2> DEFINE copied == InOrder(Snapshot(rows[source], tip, keys), "seq")
    <2>1. ApplyCommitted(s, Numbered(s, copied))  BY <1>4 DEF ImportFork
    <2>2. Sound(rows[source])  BY DEF Stored
    <2>3. copied \in Seq(Committed)  BY <2>2, CopiedCommitted
    <2> HIDE DEF copied
    <2> QED  BY <1>1, <2>1, <2>3
  <1>5. CASE UNCHANGED vars
    BY <1>5 DEF vars
  <1>6. CASE Next
    BY <1>6, <1>2, <1>3, <1>4 DEF Next
  <1> QED  BY <1>5, <1>6

\* A branch reads on as it did, whatever is added.
LEMMA BranchKept ==
    ASSUME NEW p, Sound(p), NEW q, Sound(q), p.entries \subseteq q.entries, NEW tip,
           \E e \in p.entries : e.id = tip
    PROVE  Branch(q, tip) = Branch(p, tip) /\ \E e \in q.entries : e.id = tip
  <1>1. PICK e \in p.entries : e.id = tip  OBVIOUS
  <1>2. Path(q, tip) = Path(p, tip)  BY <1>1, PathKept
  <1> QED  BY <1>1, <1>2, BranchIs

\* So a fork and its source go on reading alike.
LEMMA ReadsAsKept ==
    ASSUME Journalled, Stored, [Next]_vars, NEW s \in Scopes, ReadsAs(s), origin'[s] = origin[s]
    PROVE  ReadsAs(s)'
  <1> DEFINE from == origin[s].from
             tip  == origin[s].tip
  <1>1. /\ from \in Scopes /\ tip \in Ids
        /\ \E d \in rows[s].entries : d.id = tip
        /\ \E e \in rows[from].entries : e.id = tip
        /\ IdsOf(Branch(rows[s], tip)) = IdsOf(Branch(rows[from], tip))
    BY DEF ReadsAs
  <1>2. origin'[s].from = from /\ origin'[s].tip = tip  OBVIOUS
  <1> HIDE DEF from, tip
  <1>3. \A u \in Scopes : rows[u].entries \subseteq rows'[u].entries  BY EntriesKept
  <1>4. Stored'  BY NextStored
  <1>5. \A u \in Scopes : Sound(rows[u]) /\ Sound(rows'[u])  BY <1>4 DEF Stored
  <1>6. Branch(rows'[s], tip) = Branch(rows[s], tip) /\ \E d \in rows'[s].entries : d.id = tip
    BY <1>1, <1>3, <1>5, BranchKept
  <1>7. Branch(rows'[from], tip) = Branch(rows[from], tip) /\ \E e \in rows'[from].entries : e.id = tip
    BY <1>1, <1>3, <1>5, BranchKept
  <1> QED  BY <1>1, <1>2, <1>6, <1>7 DEF ReadsAs

\* A fork reads as its source from the step that makes it.
LEMMA ForkStep ==
    ASSUME Journalled, Stored, NEW source \in Scopes, NEW s \in Scopes, NEW tip \in Ids, NEW keys,
           ImportFork(source, s, tip, keys), DOMAIN origin = Scopes
    PROVE  ReadsAs(s)'
  <1> DEFINE copied == InOrder(Snapshot(rows[source], tip, keys), "seq")
             w == Numbered(s, copied)
             q == rows'[s]
  <1>1. /\ source # s /\ nextSeq[s] = 1 /\ tip \in EntryIds(rows[source])
        /\ ApplyCommitted(s, w) /\ origin' = [origin EXCEPT ![s] = [from |-> source, tip |-> tip]]
    BY DEF ImportFork
  <1>2. Sound(rows[source]) /\ nextSeq[s] \in Nat  BY DEF Stored, Journalled
  <1>3. copied \in Seq(Committed)  BY <1>2, CopiedCommitted
  <1>4. w \in Seq(Committed)
    <2> HIDE DEF copied
    <2> QED  BY <1>2, <1>3, NumberedCommitted
  <1>5. /\ q = ApplyAll(rows[s], w) /\ ApplyAll(rows[s], w) # Refused
        /\ rows'[source] = rows[source]
    <2> HIDE DEF w
    <2> QED  BY <1>1, <1>4, CommitStores
  <1>6. /\ IdsOf(Branch(q, tip)) = IdsOf(Branch(rows[source], tip))
        /\ \A x \in Path(rows[source], tip) : \E r \in q.entries : r.id = x.id
    <2> HIDE DEF q
    <2>1. q = ApplyAll(rows[s], Numbered(s, InOrder(Snapshot(rows[source], tip, keys), "seq"))) /\ q # Refused
      BY <1>5
    <2> QED  BY <1>1, <2>1, ForkReads
  <1>7. PICK e \in rows[source].entries : e.id = tip  BY <1>1 DEF EntryIds
  <1>8. e \in Path(rows[source], tip)  BY <1>2, <1>7, PathUpTo
  <1>9. \E r \in q.entries : r.id = tip  BY <1>6, <1>7, <1>8
  <1>10. origin'[s] = [from |-> source, tip |-> tip]  BY <1>1
  <1> HIDE DEF q
  <1> QED  BY <1>5, <1>6, <1>7, <1>9, <1>10 DEF ReadsAs, q

\* Every step keeps that.
LEMMA NextForked ==
    ASSUME Journalled, Stored, Forked, [Next]_vars
    PROVE  Forked'
  <1>1. ASSUME origin' = origin PROVE Forked'
    <2>1. \A s \in Scopes : origin[s] # NoFork => ReadsAs(s)'  BY <1>1, ReadsAsKept DEF Forked
    <2> QED  BY <1>1, <2>1 DEF Forked
  <1>2. ASSUME NEW source \in Scopes, NEW s \in Scopes, NEW tip \in Ids, NEW keys, ImportFork(source, s, tip, keys)
        PROVE  Forked'
    <2>1. origin' = [origin EXCEPT ![s] = [from |-> source, tip |-> tip]]  BY <1>2 DEF ImportFork
    <2>2. origin \in [Scopes -> [from : Scopes \cup {Null}, tip : Ids \cup {Null}]]  BY DEF Forked
    <2>3. origin' \in [Scopes -> [from : Scopes \cup {Null}, tip : Ids \cup {Null}]]  BY <2>1, <2>2
    <2>4. ReadsAs(s)'  BY <1>2, <2>2, ForkStep
    <2>5. \A u \in Scopes \ {s} : origin'[u] = origin[u]  BY <2>1, <2>2
    <2>6. \A u \in Scopes \ {s} : origin[u] # NoFork => ReadsAs(u)'  BY <2>5, ReadsAsKept DEF Forked
    <2> QED  BY <2>3, <2>4, <2>5, <2>6 DEF Forked
  <1>3. CASE UNCHANGED vars
    BY <1>1, <1>3 DEF vars
  <1>4. CASE Next
    BY <1>1, <1>2, <1>4 DEF Next, Commit, Rebuild
  <1> QED  BY <1>3, <1>4

\* No scope begins as a fork.
LEMMA InitForked == Init => Forked
  <1> SUFFICES ASSUME Init PROVE Forked  OBVIOUS
  <1>1. origin = [s \in Scopes |-> NoFork]  BY DEF Init
  <1>2. NoFork \in [from : Scopes \cup {Null}, tip : Ids \cup {Null}]  BY DEF NoFork
  <1> HIDE DEF NoFork
  <1> QED  BY <1>1, <1>2 DEF Forked

\* Every branch reads down to its root, and a fork as its source did where it was taken.
THEOREM BranchesStayWhole == Spec => []BranchesReadWhole
  <1> DEFINE I == Journalled /\ Stored /\ Forked
  <1>1. Init => I  BY InitStored, InitForked
  <1>2. I /\ [Next]_vars => I'  BY NextStored, NextForked
  <1>3. I => BranchesReadWhole
    <2> SUFFICES ASSUME Stored, Forked, NEW s \in Scopes
                 PROVE  /\ origin[s] # NoFork => origin[s].tip \in EntryIds(rows[s])
                        /\ \A e \in rows[s].entries :
                             LET read == Branch(rows[s], e.id) IN
                             /\ ~Corrupt(rows[s], e.id)
                             /\ Last(read).id = e.id
                             /\ \A i \in 2 .. Len(read) : read[i].parent = read[i - 1].id
                             /\ origin[s].tip = e.id =>
                                  IdsOf(read) = IdsOf(Branch(rows[origin[s].from], e.id))
      BY DEF BranchesReadWhole
    <2>1. Sound(rows[s])  BY DEF Stored
    <2>2. origin[s] # NoFork => origin[s].tip \in EntryIds(rows[s])  BY DEF Forked, ReadsAs, EntryIds
    <2>3. ASSUME NEW e \in rows[s].entries
          PROVE  LET read == Branch(rows[s], e.id) IN
                 /\ ~Corrupt(rows[s], e.id)
                 /\ Last(read).id = e.id
                 /\ \A i \in 2 .. Len(read) : read[i].parent = read[i - 1].id
      BY <2>1, BranchReads
    <2>4. ASSUME NEW e \in rows[s].entries, origin[s].tip = e.id
          PROVE  IdsOf(Branch(rows[s], e.id)) = IdsOf(Branch(rows[origin[s].from], e.id))
      <3>1. e.id # Null  BY <2>1, ParentIs
      <3>2. origin[s] # NoFork  BY <2>4, <3>1 DEF NoFork
      <3> QED  BY <2>4, <3>2 DEF Forked, ReadsAs
    <2> QED  BY <2>2, <2>3, <2>4
  <1> QED  BY <1>1, <1>2, <1>3, PTL DEF Spec
=============================================================================
