-------------------------- MODULE MockBrokerProofs -------------------------
(***************************************************************************)
(* Proofs about MockBroker for any publishers, subscribers, concurrent     *)
(* write calls, history depths, queue capacities and policies.             *)
(*                                                                         *)
(* Induction is over the elements of a set, which the provers can          *)
(* instantiate, and not over a predicate; the operator that is folded is a *)
(* function for the same reason.                                           *)
(***************************************************************************)
EXTENDS MockBroker, SequenceTheorems, FiniteSetTheorems, WellFoundedInduction, TLAPS

-----------------------------------------------------------------------------
(* Numbers                                                                 *)

\* A set of numbers that is not empty has a least one.
LEMMA LeastNumber ==
    ASSUME NEW T, T \subseteq Nat, T # {}
    PROVE  \E n \in T : \A k \in T : n <= k
  <1> DEFINE R == OpToRel(<, Nat)
  <1>1. R = {ss \in Nat \X Nat : ss[1] < ss[2]}
    BY Zenon DEF OpToRel
  <1>2. PICK n \in T : \A k \in T : ~(<<k, n>> \in R)
    BY WFMin, NatLessThanWellFounded
  <1>3. ASSUME NEW k \in T PROVE n <= k
    <2> HIDE DEF R
    <2>1. <<k, n>> \notin {ss \in Nat \X Nat : ss[1] < ss[2]}
      BY <1>1, <1>2
    <2> QED BY <2>1
  <1> QED BY <1>3

\* Min chooses it.
LEMMA MinLeast ==
    ASSUME NEW T, T \subseteq Nat, T # {}
    PROVE  Min(T) \in T /\ \A k \in T : Min(T) <= k
  <1>1. \E x \in T : \A y \in T : x <= y
    BY LeastNumber
  <1> QED BY <1>1, Zenon DEF Min

\* A set with 0 that goes on from each number below n to the next reaches n.
LEMMA CountUp ==
    ASSUME NEW n \in Nat, NEW T, 0 \in T,
           \A k \in 0..n : k < n /\ k \in T => k + 1 \in T
    PROVE  \A k \in 0..n : k \in T
  <1>1. SUFFICES ASSUME {k \in 0..n : k \notin T} # {} PROVE FALSE
    OBVIOUS
  <1>2. PICK m \in {k \in 0..n : k \notin T} : \A j \in {k \in 0..n : k \notin T} : m <= j
    <2>1. {k \in 0..n : k \notin T} \subseteq Nat
      OBVIOUS
    <2> HIDE <1>1
    <2> QED BY <1>1, <2>1, LeastNumber
  <1>3. m # 0 /\ m - 1 \in 0..n /\ m - 1 < n
    BY <1>2
  <1>4. m - 1 \in T
    BY <1>2, <1>3
  <1>5. (m - 1) + 1 = m
    BY <1>2
  <1> QED BY <1>2, <1>3, <1>4, <1>5

\* Max of some numbers up to n is one of them, and no other is larger.
LEMMA MaxGreatest ==
    ASSUME NEW n \in Nat, NEW S \in SUBSET (1..n), S # {}
    PROVE  Max(S) \in S /\ \A y \in S : y <= Max(S)
  <1> DEFINE U == {u \in Nat : \A y \in S : y <= u}
  <1>1. n \in U /\ U \subseteq Nat
    OBVIOUS
  <1>2. PICK m \in U : \A u \in U : m <= u
    BY <1>1, LeastNumber
  <1>3. m \in Nat /\ \A y \in S : y <= m
    BY <1>2
  <1>4. ASSUME m \notin S PROVE FALSE
    <2>1. m # 0
      <3>1. PICK y \in S : TRUE
        OBVIOUS
      <3>2. y \in 1..n /\ y <= m
        BY <1>3
      <3> QED BY <3>2
    <2>2. m - 1 \in Nat /\ \A y \in S : y <= m - 1
      BY <1>3, <1>4, <2>1
    <2>3. m - 1 \in U
      BY <2>2
    <2>4. m <= m - 1
      BY <1>2, <2>3
    <2> QED BY <1>3, <2>4
  <1>5. \E x \in S : \A y \in S : x >= y
    BY <1>3, <1>4
  <1>6. Max(S) \in S /\ \A y \in S : Max(S) >= y
    BY <1>5, Zenon DEF Max
  <1> QED BY <1>6

-----------------------------------------------------------------------------
(* FoldLeft                                                                *)

\* The numbers up to k, which the fold goes down.
LEMMA MaxInterval ==
    ASSUME NEW k \in Nat \ {0}
    PROVE  Max(1..k) = k /\ (1..k) \ {k} = 1..(k - 1)
  <1>1. Max(1..k) \in 1..k /\ k <= Max(1..k)
    <2>1. (1..k) # {} /\ 1..k \in SUBSET (1..k) /\ k \in 1..k
      OBVIOUS
    <2> QED BY <2>1, MaxGreatest
  <1> QED BY <1>1

\* The recursive function that FoldLeft is defined by, for sequence s.
IsFold(f, s, base, op) ==
    f = [S \in SUBSET DOMAIN s |-> IF S = {} THEN base ELSE op[s[Max(S)]][f[S \ {Max(S)}]]]

\* It exists.
LEMMA FoldExists ==
    ASSUME NEW A, NEW B, NEW s \in Seq(A), NEW base \in B, NEW op \in [A -> [B -> B]]
    PROVE  \E f \in [SUBSET DOMAIN s -> B] : IsFold(f, s, base, op)
  <1> DEFINE Has(n, f) == f \in [SUBSET (1..n) -> B] /\ f = [S \in SUBSET (1..n) |->
                            IF S = {} THEN base ELSE op[s[Max(S)]][f[S \ {Max(S)}]]]
             T == {n \in 0..Len(s) : \E f \in [SUBSET (1..n) -> B] : Has(n, f)}
  <1>1. Len(s) \in Nat /\ DOMAIN s = 1..Len(s) /\ \A i \in 1..Len(s) : s[i] \in A
    BY LenProperties, ElementOfSeq
  <1>2. 0 \in T
    <2> DEFINE f == [S \in SUBSET (1..0) |-> base]
    <2>1. 1..0 = {} /\ SUBSET (1..0) = {{}}
      OBVIOUS
    <2>2. f \in [SUBSET (1..0) -> B]
      OBVIOUS
    <2>3. f = [S \in SUBSET (1..0) |-> IF S = {} THEN base ELSE op[s[Max(S)]][f[S \ {Max(S)}]]]
      BY <2>1
    <2> QED BY <1>1, <2>2, <2>3
  <1>3. ASSUME NEW n \in 0..Len(s), n < Len(s), n \in T PROVE n + 1 \in T
    <2>1. PICK f \in [SUBSET (1..n) -> B] : Has(n, f)
      BY <1>3
    <2> DEFINE g == [S \in SUBSET (1..(n + 1)) |->
                        IF n + 1 \in S THEN op[s[n + 1]][f[S \ {n + 1}]] ELSE f[S]]
    <2>2. ASSUME NEW S \in SUBSET (1..(n + 1))
          PROVE  g[S] \in B /\
                 g[S] = IF S = {} THEN base ELSE op[s[Max(S)]][g[S \ {Max(S)}]]
      <3>1. CASE n + 1 \in S
        <4>1. Max(S) = n + 1
          <5>1. n + 1 \in Nat /\ S # {}
            BY <1>1, <3>1
          <5>2. Max(S) \in S /\ n + 1 <= Max(S)
            BY <3>1, <5>1, MaxGreatest
          <5>3. Max(S) \in 1..(n + 1)
            BY <5>2
          <5> HIDE DEF g, Has, T
          <5> QED BY <5>1, <5>2, <5>3
        <4>2. S \ {n + 1} \in SUBSET (1..n)
          BY <1>1
        <4>3. S \ {n + 1} \in SUBSET (1..(n + 1)) /\ n + 1 \notin S \ {n + 1}
          OBVIOUS
        <4>4. g[S \ {n + 1}] = f[S \ {n + 1}]
          BY <4>3
        <4>5. g[S] = op[s[n + 1]][f[S \ {n + 1}]]
          BY <3>1
        <4>6. n + 1 \in 1..Len(s) /\ s[n + 1] \in A
          BY <1>1, <1>3
        <4>7. g[S] \in B
          BY <4>2, <4>5, <4>6
        <4> HIDE DEF g
        <4> QED BY <3>1, <4>1, <4>4, <4>5, <4>7
      <3>2. CASE n + 1 \notin S
        <4>1. S \in SUBSET (1..n) /\ g[S] = f[S]
          BY <1>1, <3>2
        <4>2. f[S] = IF S = {} THEN base ELSE op[s[Max(S)]][f[S \ {Max(S)}]]
          BY <2>1, <4>1
        <4>3. g[S \ {Max(S)}] = f[S \ {Max(S)}]
          BY <3>2, <4>1
        <4>4. f[S] \in B
          BY <4>1
        <4> HIDE DEF g
        <4> QED BY <4>1, <4>2, <4>3, <4>4
      <3> QED BY <3>1, <3>2
    <2>3. g \in [SUBSET (1..(n + 1)) -> B]
      BY <2>2
    <2>4. g = [S \in SUBSET (1..(n + 1)) |->
                  IF S = {} THEN base ELSE op[s[Max(S)]][g[S \ {Max(S)}]]]
      <3>1. g = [S \in SUBSET (1..(n + 1)) |-> g[S]]
        BY <2>3
      <3> HIDE DEF g
      <3> QED BY <2>2, <3>1
    <2>5. Has(n + 1, g)
      BY <2>3, <2>4
    <2>6. n + 1 \in 0..Len(s)
      BY <1>1, <1>3
    <2> HIDE DEF g, Has
    <2> QED BY <2>3, <2>5, <2>6
  <1>4. Len(s) \in T
    <2> HIDE DEF T
    <2>1. \A k \in 0..Len(s) : k \in T
      BY <1>1, <1>2, <1>3, CountUp
    <2> QED BY <1>1, <2>1
  <1> QED BY <1>1, <1>4 DEF IsFold

\* A loop that goes through s: g[k] is what it has after k elements.
Runs(g, s, base, op) ==
    g[0] = base /\ \A k \in 1..Len(s) : g[k] = op[s[k]][g[k - 1]]

\* The fold is such a loop.
LEMMA FoldRuns ==
    ASSUME NEW A, NEW B, NEW s \in Seq(A), NEW base, NEW op,
           NEW f \in [SUBSET DOMAIN s -> B], IsFold(f, s, base, op)
    PROVE  \E g \in [0..Len(s) -> B] : Runs(g, s, base, op)
  <1>g. PICK g : g = [k \in 0..Len(s) |-> f[1..k]]
    OBVIOUS
  <1>1. Len(s) \in Nat /\ DOMAIN s = 1..Len(s)
    BY LenProperties
  <1>2. \A k \in 0..Len(s) : 1..k \in SUBSET DOMAIN s /\ g[k] = f[1..k]
    BY <1>1, <1>g
  <1>3. g \in [0..Len(s) -> B]
    BY <1>2, <1>g
  <1>4. g[0] = base
    <2>1. 1..0 = {} /\ {} \in SUBSET DOMAIN s /\ 0 \in 0..Len(s)
      BY <1>1
    <2>2. f[{}] = base
      BY <2>1 DEF IsFold
    <2> QED BY <1>1, <1>2, <2>1, <2>2
  <1>5. ASSUME NEW k \in 1..Len(s) PROVE g[k] = op[s[k]][g[k - 1]]
    <2>1. k \in Nat \ {0} /\ k \in 0..Len(s) /\ k - 1 \in 0..Len(s)
      BY <1>1
    <2>2. Max(1..k) = k /\ (1..k) \ {k} = 1..(k - 1) /\ (1..k) # {}
      BY <2>1, MaxInterval
    <2>3. f[1..k] = op[s[Max(1..k)]][f[(1..k) \ {Max(1..k)}]]
      BY <1>2, <2>1, <2>2 DEF IsFold
    <2> QED BY <1>2, <2>1, <2>2, <2>3
  <1> QED BY <1>3, <1>4, <1>5 DEF Runs

-----------------------------------------------------------------------------
(* Sums over finite sets                                                   *)

\* A set of sets with {} that goes on from each set to one with an element more
\* reaches every finite set.
LEMMA FiniteUp ==
    ASSUME NEW S, IsFiniteSet(S), NEW C, {} \in C,
           \A T \in SUBSET S : T \in C => \A x \in S \ T : T \cup {x} \in C
    PROVE  S \in C
  <1>1. PICK n \in Nat : ExistsBijection(1..n, S)
    BY FS_NatBijection
  <1>2. PICK b \in [1..n -> S] :
            /\ \A i, j \in 1..n : b[i] = b[j] => i = j
            /\ \A x \in S : \E i \in 1..n : b[i] = x
    BY <1>1, Zenon DEF ExistsBijection, Bijection, Injection, IsInjective, Surjection
  <1> DEFINE K == {k \in 0..n : {b[i] : i \in 1..k} \in C}
  <1>3. 0 \in K
    <2>1. 1..0 = {} /\ 0 \in 0..n
      OBVIOUS
    <2>2. {b[i] : i \in 1..0} = {}
      BY <2>1
    <2> QED BY <2>1, <2>2
  <1>4. ASSUME NEW k \in 0..n, k < n, k \in K PROVE k + 1 \in K
    <2>1. k + 1 \in 1..n /\ k + 1 \in 0..n /\ 1..(k + 1) = (1..k) \cup {k + 1}
      BY <1>4
    <2>2. 1..k \subseteq 1..n /\ k + 1 \notin 1..k
      BY <1>4
    <2>3. PICK T \in SUBSET S : T = {b[i] : i \in 1..k} /\ T \in C
      <3>1. {b[i] : i \in 1..k} \in SUBSET S
        BY <2>2
      <3> QED BY <1>4, <3>1
    <2>4. b[k + 1] \in S \ T
      BY <1>2, <2>1, <2>2, <2>3
    <2>5. {b[i] : i \in 1..(k + 1)} = T \cup {b[k + 1]}
      BY <2>1, <2>3
    <2>6. T \cup {b[k + 1]} \in C
      BY <2>3, <2>4
    <2> QED BY <2>1, <2>5, <2>6
  <1>5. n \in K
    <2> HIDE DEF K
    <2>1. \A k \in 0..n : k \in K
      BY <1>3, <1>4, CountUp
    <2> QED BY <2>1
  <1>6. {b[i] : i \in 1..n} = S
    BY <1>2
  <1> QED BY <1>5, <1>6

\* f[x] units for each x of T, and how many there are.
Units(f, T) == {u \in T \X Nat : u[2] \in 1..f[u[1]]}
Total(f, T) == Cardinality(Units(f, T))

LEMMA UnitsOfOne ==
    ASSUME NEW x, NEW n \in Nat
    PROVE  IsFiniteSet({x} \X (1..n)) /\ Cardinality({x} \X (1..n)) = n
  <1> DEFINE b == [i \in 1..n |-> <<x, i>>]
  <1>1. b \in [1..n -> {x} \X (1..n)]
    OBVIOUS
  <1>2. \A i, j \in 1..n : b[i] = b[j] => i = j
    OBVIOUS
  <1>3. \A u \in {x} \X (1..n) : \E i \in 1..n : b[i] = u
    <2> TAKE u \in {x} \X (1..n)
    <2>1. u[2] \in 1..n /\ u = <<x, u[2]>>
      OBVIOUS
    <2> QED BY <2>1
  <1> HIDE DEF b
  <1>4. ExistsBijection(1..n, {x} \X (1..n))
    <2>1. b \in Injection(1..n, {x} \X (1..n))
      BY <1>1, <1>2 DEF Injection, IsInjective
    <2>2. b \in Surjection(1..n, {x} \X (1..n))
      BY <1>1, <1>3 DEF Surjection
    <2> QED BY <2>1, <2>2, Zenon DEF ExistsBijection, Bijection
  <1> QED BY <1>4, FS_NatBijection, FS_CountingElements

LEMMA UnitsFinite ==
    ASSUME NEW S, IsFiniteSet(S), NEW f \in [S -> Nat], NEW T \in SUBSET S
    PROVE  IsFiniteSet(Units(f, T)) /\ Total(f, T) \in Nat
  <1>1. IsFiniteSet(T)
    BY FS_Subset
  <1> DEFINE C == {U \in SUBSET T : IsFiniteSet(Units(f, U))}
  <1>2. {} \in C
    <2>1. Units(f, {}) = {}
      BY DEF Units
    <2> QED BY <2>1, FS_EmptySet
  <1>3. ASSUME NEW U \in SUBSET T, U \in C, NEW x \in T \ U PROVE U \cup {x} \in C
    <2>1. f[x] \in Nat /\ U \cup {x} \in SUBSET T
      BY <1>3
    <2>2. Units(f, U \cup {x}) = Units(f, U) \cup ({x} \X (1..f[x]))
      BY <2>1 DEF Units
    <2>3. IsFiniteSet({x} \X (1..f[x]))
      BY <2>1, UnitsOfOne
    <2>4. IsFiniteSet(Units(f, U))
      BY <1>3
    <2>5. IsFiniteSet(Units(f, U) \cup ({x} \X (1..f[x])))
      BY <2>3, <2>4, FS_Union
    <2> QED BY <2>1, <2>2, <2>5
  <1>4. T \in C
    <2> HIDE DEF C
    <2> QED BY <1>1, <1>2, <1>3, FiniteUp
  <1> QED BY <1>4, FS_CardinalityType DEF Total

\* A sum in any order: take away one element.
LEMMA TotalSplit ==
    ASSUME NEW S, IsFiniteSet(S), NEW f \in [S -> Nat], NEW T \in SUBSET S, NEW x \in T
    PROVE  /\ Total(f, T) = f[x] + Total(f, T \ {x})
           /\ Total(f, T) \in Nat /\ Total(f, T \ {x}) \in Nat /\ f[x] \in Nat
  <1> DEFINE A == {x} \X (1..f[x])
             B == Units(f, T \ {x})
  <1>1. f[x] \in Nat /\ T \ {x} \in SUBSET S
    OBVIOUS
  <1>2. IsFiniteSet(A) /\ Cardinality(A) = f[x]
    BY <1>1, UnitsOfOne
  <1>3. IsFiniteSet(B) /\ Total(f, T \ {x}) \in Nat /\ Total(f, T) \in Nat
    BY <1>1, UnitsFinite
  <1>4. Units(f, T) = A \cup B
    BY <1>1 DEF Units
  <1>5. A \cap B = {}
    BY DEF Units
  <1>6. Cardinality(B) = Total(f, T \ {x})
    BY DEF Total
  <1> HIDE DEF A, B
  <1>7. Cardinality(A \cup B) = Cardinality(A) + Cardinality(B) - Cardinality({})
    BY <1>2, <1>3, <1>5, FS_Union
  <1>8. Total(f, T) = Cardinality(A) + Cardinality(B)
    BY <1>1, <1>2, <1>3, <1>4, <1>6, <1>7, FS_EmptySet DEF Total
  <1> QED BY <1>1, <1>2, <1>3, <1>6, <1>8

\* One value changes.
LEMMA TotalChange ==
    ASSUME NEW S, IsFiniteSet(S), NEW f \in [S -> Nat], NEW g \in [S -> Nat], NEW x \in S,
           \A y \in S : y # x => g[y] = f[y]
    PROVE  Total(g, S) + f[x] = Total(f, S) + g[x]
  <1>1. Units(g, S \ {x}) = Units(f, S \ {x})
    BY DEF Units
  <1>2. Total(g, S \ {x}) = Total(f, S \ {x})
    BY <1>1 DEF Total
  <1>3. /\ Total(f, S) = f[x] + Total(f, S \ {x}) /\ Total(g, S) = g[x] + Total(g, S \ {x})
        /\ Total(f, S \ {x}) \in Nat /\ f[x] \in Nat /\ g[x] \in Nat
    <2>1. S \in SUBSET S
      OBVIOUS
    <2> QED BY <2>1, TotalSplit
  <1> QED BY <1>2, <1>3

\* The recursive function that MapThenSumSet is defined by.
IsSum(F, f, S) ==
    F = [T \in SUBSET S |-> IF T = {} THEN 0
                            ELSE f[CHOOSE x \in T : TRUE] + F[T \ {CHOOSE x \in T : TRUE}]]

LEMMA SumExists ==
    ASSUME NEW S, IsFiniteSet(S), NEW f \in [S -> Nat]
    PROVE  IsSum([T \in SUBSET S |-> Total(f, T)], f, S)
  <1> DEFINE F == [T \in SUBSET S |-> Total(f, T)]
  <1>1. ASSUME NEW T \in SUBSET S, T = {} PROVE Total(f, T) = 0
    <2>1. Units(f, T) = {}
      BY <1>1 DEF Units
    <2> QED BY <2>1, FS_EmptySet DEF Total
  <1>2. ASSUME NEW T \in SUBSET S, T # {}
        PROVE  Total(f, T) = f[CHOOSE x \in T : TRUE] + F[T \ {CHOOSE x \in T : TRUE}]
    <2>1. PICK c : c = CHOOSE x \in T : TRUE
      OBVIOUS
    <2>2. c \in T /\ T \ {c} \in SUBSET S
      BY <1>2, <2>1
    <2>3. Total(f, T) = f[c] + Total(f, T \ {c})
      BY <2>2, TotalSplit
    <2> QED BY <2>1, <2>2, <2>3
  <1> QED BY <1>1, <1>2 DEF IsSum

\* It is the only one.
LEMMA SumIsTotal ==
    ASSUME NEW S, IsFiniteSet(S), NEW f \in [S -> Nat], NEW F, IsSum(F, f, S)
    PROVE  F[S] = Total(f, S)
  <1>1. PICK n \in Nat : n = Cardinality(S)
    BY FS_CardinalityType
  <1> DEFINE K == {k \in 0..n : \A T \in SUBSET S : Cardinality(T) = k => F[T] = Total(f, T)}
  <1>2. 0 \in K
    <2>1. ASSUME NEW T \in SUBSET S, Cardinality(T) = 0 PROVE F[T] = Total(f, T)
      <3>1. T = {}
        BY <2>1, FS_Subset, FS_EmptySet
      <3>2. F[T] = 0
        BY <3>1 DEF IsSum
      <3>3. Units(f, T) = {}
        BY <3>1 DEF Units
      <3> QED BY <3>2, <3>3, FS_EmptySet DEF Total
    <2> QED BY <2>1
  <1>3. ASSUME NEW k \in 0..n, k < n, k \in K PROVE k + 1 \in K
    <2>1. ASSUME NEW T \in SUBSET S, Cardinality(T) = k + 1 PROVE F[T] = Total(f, T)
      <3>1. IsFiniteSet(T) /\ T # {}
        <4>1. IsFiniteSet(T)
          BY FS_Subset
        <4>2. k + 1 # 0
          OBVIOUS
        <4> QED BY <2>1, <4>1, <4>2, FS_EmptySet
      <3>2. PICK c \in T : c = CHOOSE x \in T : TRUE
        BY <3>1
      <3>3. T \ {c} \in SUBSET S /\ Cardinality(T \ {c}) = k
        <4>1. Cardinality(T \ {c}) = Cardinality(T) - 1
          BY <3>1, FS_RemoveElement
        <4> QED BY <2>1, <4>1
      <3>4. F[T \ {c}] = Total(f, T \ {c})
        BY <1>3, <3>3
      <3>5. F[T] = f[c] + F[T \ {c}]
        BY <3>1, <3>2 DEF IsSum
      <3>6. Total(f, T) = f[c] + Total(f, T \ {c})
        BY TotalSplit
      <3> QED BY <3>4, <3>5, <3>6
    <2>2. k + 1 \in 0..n
      BY <1>3
    <2> QED BY <2>1, <2>2
  <1>4. n \in K
    <2> HIDE DEF K
    <2>1. \A k \in 0..n : k \in K
      BY <1>2, <1>3, CountUp
    <2> QED BY <2>1
  <1> QED BY <1>1, <1>4

-----------------------------------------------------------------------------
(* The broker                                                              *)

AnySample == Publishers \X Nat

-----------------------------------------------------------------------------
(* Elements of sequences                                                   *)

LEMMA Elements ==
    ASSUME NEW A, NEW q \in Seq(A)
    PROVE  /\ ToSet(q) = {q[i] : i \in 1..Len(q)} /\ ToSet(q) \subseteq A
           /\ Len(q) \in Nat /\ (Len(q) = 0 <=> q = <<>>)
  BY LenProperties, ElementOfSeq, EmptySeq DEF ToSet

LEMMA AppendElements ==
    ASSUME NEW A, NEW q \in Seq(A), NEW x \in A
    PROVE  /\ Append(q, x) \in Seq(A) /\ Len(Append(q, x)) = Len(q) + 1
           /\ ToSet(Append(q, x)) = ToSet(q) \cup {x}
           /\ \A i \in 1..(Len(q) + 1) :
                 Append(q, x)[i] = IF i = Len(q) + 1 THEN x ELSE q[i]
  <1>1. /\ Append(q, x) \in Seq(A) /\ Len(Append(q, x)) = Len(q) + 1 /\ Len(q) \in Nat
        /\ \A i \in 1..Len(q) : Append(q, x)[i] = q[i]
        /\ Append(q, x)[Len(q) + 1] = x
    BY AppendProperties, LenProperties
  <1>2. \A i \in 1..(Len(q) + 1) : Append(q, x)[i] = IF i = Len(q) + 1 THEN x ELSE q[i]
    BY <1>1
  <1>3. /\ ToSet(Append(q, x)) = {Append(q, x)[i] : i \in 1..(Len(q) + 1)}
        /\ ToSet(q) = {q[i] : i \in 1..Len(q)}
    BY <1>1, Elements
  <1>4. ToSet(Append(q, x)) = ToSet(q) \cup {x}
    BY <1>1, <1>2, <1>3
  <1> QED BY <1>1, <1>2, <1>4

LEMMA TailElements ==
    ASSUME NEW A, NEW q \in Seq(A), q # <<>>
    PROVE  /\ Head(q) = q[1] /\ Head(q) \in A
           /\ Tail(q) \in Seq(A) /\ Len(Tail(q)) = Len(q) - 1 /\ Len(q) \in Nat \ {0}
           /\ \A i \in 1..(Len(q) - 1) : Tail(q)[i] = q[i + 1]
           /\ ToSet(q) = {Head(q)} \cup ToSet(Tail(q))
  <1>1. /\ Head(q) = q[1] /\ Head(q) \in A /\ Len(q) \in Nat \ {0}
        /\ Tail(q) \in Seq(A) /\ Len(Tail(q)) = Len(q) - 1
        /\ \A i \in 1..(Len(q) - 1) : Tail(q)[i] = q[i + 1]
    BY HeadTailProperties, ElementOfSeq, Elements
  <1>2. /\ ToSet(q) = {q[i] : i \in 1..Len(q)}
        /\ ToSet(Tail(q)) = {Tail(q)[i] : i \in 1..(Len(q) - 1)}
    BY <1>1, Elements
  <1>3. ASSUME NEW i \in 1..Len(q) PROVE q[i] \in {q[1]} \cup ToSet(Tail(q))
    <2>1. CASE i = 1
      BY <2>1
    <2>2. CASE i # 1
      <3>1. i - 1 \in 1..(Len(q) - 1) /\ (i - 1) + 1 = i
        BY <1>1, <2>2
      <3>2. Tail(q)[i - 1] = q[i]
        BY <1>1, <3>1
      <3> QED BY <1>2, <3>1, <3>2
    <2> QED BY <2>1, <2>2
  <1>4. \A i \in 1..(Len(q) - 1) : Tail(q)[i] \in ToSet(q)
    BY <1>1, <1>2
  <1>5. q[1] \in ToSet(q)
    BY <1>1, <1>2
  <1>6. ToSet(q) = {Head(q)} \cup ToSet(Tail(q))
    BY <1>1, <1>2, <1>3, <1>4, <1>5
  <1> QED BY <1>1, <1>6

\* No element occurs twice.
Distinct(q) == \A i, j \in 1..Len(q) : q[i] = q[j] => i = j

LEMMA DistinctAppend ==
    ASSUME NEW A, NEW q \in Seq(A), NEW x \in A, Distinct(q), x \notin ToSet(q)
    PROVE  Distinct(Append(q, x))
  <1>1. ToSet(q) = {q[i] : i \in 1..Len(q)} /\ Len(q) \in Nat
    BY Elements
  <1> QED BY <1>1, AppendElements DEF Distinct

LEMMA DistinctTail ==
    ASSUME NEW A, NEW q \in Seq(A), q # <<>>, Distinct(q)
    PROVE  Distinct(Tail(q)) /\ Head(q) \notin ToSet(Tail(q))
  <1>1. /\ Head(q) = q[1] /\ Len(q) \in Nat \ {0} /\ Tail(q) \in Seq(A)
        /\ Len(Tail(q)) = Len(q) - 1 /\ \A i \in 1..(Len(q) - 1) : Tail(q)[i] = q[i + 1]
    BY TailElements
  <1>2. ToSet(Tail(q)) = {Tail(q)[i] : i \in 1..(Len(q) - 1)}
    BY <1>1, Elements
  <1>3. Head(q) \notin ToSet(Tail(q))
    BY <1>1, <1>2 DEF Distinct
  <1>4. ASSUME NEW i \in 1..(Len(q) - 1), NEW j \in 1..(Len(q) - 1), Tail(q)[i] = Tail(q)[j]
        PROVE  i = j
    <2>1. i + 1 \in 1..Len(q) /\ j + 1 \in 1..Len(q) /\ q[i + 1] = q[j + 1]
      BY <1>1, <1>4
    <2>2. i + 1 = j + 1
      BY <2>1 DEF Distinct
    <2> QED BY <2>2
  <1> QED BY <1>1, <1>3, <1>4 DEF Distinct

-----------------------------------------------------------------------------
(* retain, and the replay of the cache                                     *)

\* The loop that Only stands for: g[k] is what it has kept of the first k elements.
OnlyRuns(g, q, S) ==
    /\ g[0] = <<>> /\ Only(q, S) = g[Len(q)]
    /\ \A k \in 1..Len(q) :
          g[k] = IF q[k] \in S THEN Append(g[k - 1], q[k]) ELSE g[k - 1]

LEMMA OnlyRun ==
    ASSUME NEW A, NEW q \in Seq(A), NEW S
    PROVE  \E g \in [0..Len(q) -> Seq(A)] : OnlyRuns(g, q, S)
  <1> DEFINE op == [x \in A |-> [kept \in Seq(A) |-> IF x \in S THEN Append(kept, x) ELSE kept]]
  <1>1. op \in [A -> [Seq(A) -> Seq(A)]] /\ <<>> \in Seq(A)
    BY AppendProperties, EmptySeq
  <1>2. DOMAIN q = 1..Len(q) /\ Len(q) \in Nat /\ \A i \in 1..Len(q) : q[i] \in A
    BY LenProperties, ElementOfSeq
  <1>3. PICK f \in [SUBSET DOMAIN q -> Seq(A)] : IsFold(f, q, <<>>, op)
    <2> HIDE DEF op
    <2> QED BY <1>1, FoldExists
  <1>4. PICK g \in [0..Len(q) -> Seq(A)] : Runs(g, q, <<>>, op)
    <2> HIDE DEF op
    <2> QED BY <1>3, FoldRuns
  <1>5. ASSUME NEW k \in 1..Len(q)
        PROVE  g[k] = IF q[k] \in S THEN Append(g[k - 1], q[k]) ELSE g[k - 1]
    <2>1. g[k - 1] \in Seq(A) /\ q[k] \in A /\ g[k] = op[q[k]][g[k - 1]]
      <3> HIDE DEF op
      <3> QED BY <1>2, <1>4 DEF Runs
    <2> QED BY <2>1
  <1> DEFINE F == CHOOSE F : F = [T \in SUBSET DOMAIN q |-> IF T = {} THEN <<>> ELSE
                      IF q[Max(T)] \in S THEN Append(F[T \ {Max(T)}], q[Max(T)])
                                         ELSE F[T \ {Max(T)}]]
  <1>6. Only(q, S) = F[DOMAIN q]
    BY Zenon DEF Only, FoldLeft, MapThenFoldSet
  <1>7. F = [T \in SUBSET DOMAIN q |-> IF T = {} THEN <<>> ELSE
                      IF q[Max(T)] \in S THEN Append(F[T \ {Max(T)}], q[Max(T)])
                                         ELSE F[T \ {Max(T)}]]
    <2>1. f = [T \in SUBSET DOMAIN q |-> IF T = {} THEN <<>> ELSE
                      IF q[Max(T)] \in S THEN Append(f[T \ {Max(T)}], q[Max(T)])
                                         ELSE f[T \ {Max(T)}]]
      <3>1. ASSUME NEW T \in SUBSET DOMAIN q, T # {}
            PROVE  op[q[Max(T)]][f[T \ {Max(T)}]]
                     = IF q[Max(T)] \in S THEN Append(f[T \ {Max(T)}], q[Max(T)])
                                          ELSE f[T \ {Max(T)}]
        <4>1. Max(T) \in T
          BY <1>2, <3>1, MaxGreatest
        <4>2. q[Max(T)] \in A /\ f[T \ {Max(T)}] \in Seq(A)
          BY <1>2, <4>1
        <4> QED BY <4>2
      <3> HIDE DEF op
      <3> QED BY <1>3, <3>1 DEF IsFold
    <2> QED BY <2>1
  <1> HIDE DEF F
  <1>8. \A k \in 0..Len(q) : k \in {j \in 0..Len(q) : F[1..j] = g[j]}
    <2> DEFINE T == {j \in 0..Len(q) : F[1..j] = g[j]}
    <2>1. 0 \in T
      <3>1. 1..0 = {} /\ {} \in SUBSET DOMAIN q /\ 0 \in 0..Len(q)
        BY <1>2
      <3>2. F[{}] = <<>>
        BY <1>7, <3>1
      <3> QED BY <1>4, <3>1, <3>2 DEF Runs
    <2>2. ASSUME NEW j \in 0..Len(q), j < Len(q), j \in T PROVE j + 1 \in T
      <3>1. j + 1 \in 1..Len(q) /\ j + 1 \in 0..Len(q) /\ (j + 1) - 1 = j /\ j + 1 \in Nat \ {0}
        BY <1>2, <2>2
      <3>2. Max(1..(j + 1)) = j + 1 /\ (1..(j + 1)) \ {j + 1} = 1..j /\ 1..(j + 1) # {}
        BY <3>1, MaxInterval
      <3>3. 1..(j + 1) \in SUBSET DOMAIN q
        BY <1>2, <3>1
      <3>4. F[1..(j + 1)] = IF q[j + 1] \in S THEN Append(F[1..j], q[j + 1]) ELSE F[1..j]
        BY <1>7, <3>2, <3>3
      <3>5. F[1..j] = g[j]
        BY <2>2
      <3>6. g[j + 1] = IF q[j + 1] \in S THEN Append(g[j], q[j + 1]) ELSE g[j]
        BY <1>5, <3>1
      <3> QED BY <3>1, <3>4, <3>5, <3>6
    <2> HIDE DEF T
    <2>3. \A k \in 0..Len(q) : k \in T
      BY <1>2, <2>1, <2>2, CountUp
    <2> QED BY <2>3 DEF T
  <1>9. Only(q, S) = g[Len(q)]
    <2>1. Len(q) \in 0..Len(q)
      BY <1>2
    <2> QED BY <1>2, <1>6, <1>8, <2>1
  <1> QED BY <1>4, <1>5, <1>9 DEF Runs, OnlyRuns

LEMMA OnlyEmpty == ASSUME NEW S PROVE Only(<<>>, S) = <<>>
  <1>1. <<>> \in Seq({}) /\ Len(<<>>) = 0
    BY EmptySeq
  <1>2. PICK g \in [0..Len(<<>>) -> Seq({})] : OnlyRuns(g, <<>>, S)
    BY <1>1, OnlyRun
  <1> QED BY <1>1, <1>2 DEF OnlyRuns

\* Only keeps the elements that are in S, each as often as it was there.
LEMMA OnlyElements ==
    ASSUME NEW A, NEW q \in Seq(A), NEW S
    PROVE  /\ Only(q, S) \in Seq(A) /\ ToSet(Only(q, S)) = ToSet(q) \cap S
           /\ Distinct(q) => Distinct(Only(q, S))
  <1>1. PICK g \in [0..Len(q) -> Seq(A)] : OnlyRuns(g, q, S)
    BY OnlyRun
  <1>2. /\ Len(q) \in Nat /\ ToSet(q) = {q[i] : i \in 1..Len(q)}
        /\ \A i \in 1..Len(q) : q[i] \in A
    BY Elements, ElementOfSeq
  <1> DEFINE T == {k \in 0..Len(q) : /\ ToSet(g[k]) = {q[i] : i \in 1..k} \cap S
                                     /\ Distinct(q) => Distinct(g[k])}
  <1>3. 0 \in T
    <2>1. 1..0 = {} /\ 0 \in 0..Len(q) /\ ToSet(<<>>) = {} /\ Distinct(<<>>)
      BY <1>2 DEF ToSet, Distinct
    <2> QED BY <1>1, <2>1 DEF OnlyRuns
  <1>4. ASSUME NEW k \in 0..Len(q), k < Len(q), k \in T PROVE k + 1 \in T
    <2>1. k + 1 \in 1..Len(q) /\ k + 1 \in 0..Len(q) /\ (k + 1) - 1 = k /\ q[k + 1] \in A
      BY <1>2, <1>4
    <2>2. 1..(k + 1) = (1..k) \cup {k + 1} /\ k + 1 \notin 1..k /\ 1..k \subseteq 1..Len(q)
      BY <1>2, <1>4
    <2>3. {q[i] : i \in 1..(k + 1)} = {q[i] : i \in 1..k} \cup {q[k + 1]}
      BY <2>2
    <2>4. g[k] \in Seq(A) /\ g[k + 1] = IF q[k + 1] \in S THEN Append(g[k], q[k + 1]) ELSE g[k]
      BY <1>1, <2>1 DEF OnlyRuns
    <2>5. ToSet(g[k]) = {q[i] : i \in 1..k} \cap S /\ (Distinct(q) => Distinct(g[k]))
      BY <1>4
    <2>6. ToSet(g[k + 1]) = {q[i] : i \in 1..(k + 1)} \cap S
      <3>1. CASE q[k + 1] \in S
        <4>1. ToSet(g[k + 1]) = ToSet(g[k]) \cup {q[k + 1]}
          BY <2>1, <2>4, <3>1, AppendElements
        <4> QED BY <2>3, <2>5, <3>1, <4>1
      <3>2. CASE q[k + 1] \notin S
        BY <2>3, <2>4, <2>5, <3>2
      <3> QED BY <3>1, <3>2
    <2>7. ASSUME Distinct(q) PROVE Distinct(g[k + 1])
      <3>1. q[k + 1] \notin {q[i] : i \in 1..k}
        BY <2>1, <2>2, <2>7 DEF Distinct
      <3>2. q[k + 1] \notin ToSet(g[k])
        BY <2>5, <3>1
      <3> QED BY <2>1, <2>4, <2>5, <2>7, <3>2, DistinctAppend
    <2> QED BY <2>1, <2>6, <2>7
  <1>5. Len(q) \in T
    <2> HIDE DEF T
    <2>1. \A k \in 0..Len(q) : k \in T
      BY <1>2, <1>3, <1>4, CountUp
    <2> QED BY <1>2, <2>1
  <1>6. Len(q) \in 0..Len(q)
    BY <1>2
  <1> QED BY <1>1, <1>2, <1>5, <1>6 DEF OnlyRuns

LEMMA OnlyAppend ==
    ASSUME NEW A, NEW q \in Seq(A), NEW x \in A, NEW S
    PROVE  Only(Append(q, x), S) = IF x \in S THEN Append(Only(q, S), x) ELSE Only(q, S)
  <1> DEFINE r == Append(q, x)
  <1>1. PICK g \in [0..Len(q) -> Seq(A)] : OnlyRuns(g, q, S)
    BY OnlyRun
  <1>2. /\ r \in Seq(A) /\ Len(r) = Len(q) + 1 /\ Len(q) \in Nat
        /\ r[Len(q) + 1] = x /\ \A i \in 1..Len(q) : r[i] = q[i]
    BY AppendElements, Elements
  <1> HIDE DEF r
  <1>3. PICK h \in [0..Len(r) -> Seq(A)] : OnlyRuns(h, r, S)
    BY <1>2, OnlyRun
  <1> DEFINE T == {k \in 0..Len(q) : h[k] = g[k]}
  <1>4. 0 \in T
    BY <1>1, <1>2, <1>3 DEF OnlyRuns
  <1>5. ASSUME NEW k \in 0..Len(q), k < Len(q), k \in T PROVE k + 1 \in T
    <2>1. /\ k + 1 \in 1..Len(q) /\ k + 1 \in 1..Len(r) /\ k + 1 \in 0..Len(q)
          /\ (k + 1) - 1 = k /\ r[k + 1] = q[k + 1] /\ h[k] = g[k]
      BY <1>2, <1>5
    <2>2. h[k + 1] = g[k + 1]
      BY <1>1, <1>3, <2>1 DEF OnlyRuns
    <2> QED BY <2>1, <2>2
  <1>6. h[Len(q)] = g[Len(q)]
    <2>1. Len(q) \in 0..Len(q)
      BY <1>2
    <2> HIDE DEF T
    <2>2. \A k \in 0..Len(q) : k \in T
      BY <1>2, <1>4, <1>5, CountUp
    <2> QED BY <2>1, <2>2 DEF T
  <1>7. Len(r) \in 1..Len(r) /\ Len(r) - 1 = Len(q)
    BY <1>2
  <1>8. h[Len(r)] = IF x \in S THEN Append(h[Len(q)], x) ELSE h[Len(q)]
    BY <1>2, <1>3, <1>7 DEF OnlyRuns
  <1> QED BY <1>1, <1>3, <1>6, <1>8 DEF r, OnlyRuns

\* SubInner::push adds the sample at the end, and may drop the oldest.
LEMMA PushedElements ==
    ASSUME NEW A, NEW q \in Seq(A), NEW x \in A
    PROVE  /\ Pushed(q, x) \in Seq(A)
           /\ ToSet(Pushed(q, x)) \subseteq ToSet(q) \cup {x}
  <1>1. CASE Len(q) < Capacity
    BY <1>1, AppendElements DEF Pushed
  <1>2. CASE ~(Len(q) < Capacity)
    <2>1. q # <<>>
      BY <1>2, Elements, CapacityAssumption
    <2>2. PICK t \in Seq(A) : t = Tail(q) /\ ToSet(t) \subseteq ToSet(q)
      BY <2>1, TailElements
    <2>3. Append(t, x) \in Seq(A) /\ ToSet(Append(t, x)) = ToSet(t) \cup {x}
      BY AppendElements
    <2> QED BY <1>2, <2>2, <2>3 DEF Pushed
  <1> QED BY <1>1, <1>2

\* The loop of the replay: g[k] is the queue after the first k cached samples.
PushRuns(g, q) ==
    /\ g[0] = <<>> /\ FoldLeft(Pushed, <<>>, q) = g[Len(q)]
    /\ \A k \in 1..Len(q) : g[k] = Pushed(g[k - 1], q[k])

LEMMA ReplayRun ==
    ASSUME NEW A, NEW q \in Seq(A)
    PROVE  \E g \in [0..Len(q) -> Seq(A)] : PushRuns(g, q)
  <1> DEFINE op == [x \in A |-> [given \in Seq(A) |-> Pushed(given, x)]]
  <1>1. op \in [A -> [Seq(A) -> Seq(A)]] /\ <<>> \in Seq(A)
    BY PushedElements, EmptySeq
  <1>2. DOMAIN q = 1..Len(q) /\ Len(q) \in Nat /\ \A i \in 1..Len(q) : q[i] \in A
    BY LenProperties, ElementOfSeq
  <1>3. PICK f \in [SUBSET DOMAIN q -> Seq(A)] : IsFold(f, q, <<>>, op)
    <2> HIDE DEF op
    <2> QED BY <1>1, FoldExists
  <1>4. PICK g \in [0..Len(q) -> Seq(A)] : Runs(g, q, <<>>, op)
    <2> HIDE DEF op
    <2> QED BY <1>3, FoldRuns
  <1>5. ASSUME NEW k \in 1..Len(q)
        PROVE  g[k] = Pushed(g[k - 1], q[k])
    <2>1. g[k - 1] \in Seq(A) /\ q[k] \in A /\ g[k] = op[q[k]][g[k - 1]]
      <3> HIDE DEF op
      <3> QED BY <1>2, <1>4 DEF Runs
    <2> QED BY <2>1
  <1> DEFINE F == CHOOSE F : F = [T \in SUBSET DOMAIN q |->
                      IF T = {} THEN <<>> ELSE Pushed(F[T \ {Max(T)}], q[Max(T)])]
  <1>6. FoldLeft(Pushed, <<>>, q) = F[DOMAIN q]
    BY Zenon DEF FoldLeft, MapThenFoldSet
  <1>7. F = [T \in SUBSET DOMAIN q |->
                      IF T = {} THEN <<>> ELSE Pushed(F[T \ {Max(T)}], q[Max(T)])]
    <2>1. f = [T \in SUBSET DOMAIN q |->
                      IF T = {} THEN <<>> ELSE Pushed(f[T \ {Max(T)}], q[Max(T)])]
      <3>1. ASSUME NEW T \in SUBSET DOMAIN q, T # {}
            PROVE  op[q[Max(T)]][f[T \ {Max(T)}]] = Pushed(f[T \ {Max(T)}], q[Max(T)])
        <4>1. Max(T) \in T
          BY <1>2, <3>1, MaxGreatest
        <4>2. q[Max(T)] \in A /\ f[T \ {Max(T)}] \in Seq(A)
          BY <1>2, <4>1
        <4> QED BY <4>2
      <3> HIDE DEF op
      <3> QED BY <1>3, <3>1 DEF IsFold
    <2> QED BY <2>1
  <1> HIDE DEF F
  <1>8. \A k \in 0..Len(q) : k \in {j \in 0..Len(q) : F[1..j] = g[j]}
    <2> DEFINE T == {j \in 0..Len(q) : F[1..j] = g[j]}
    <2>1. 0 \in T
      <3>1. 1..0 = {} /\ {} \in SUBSET DOMAIN q /\ 0 \in 0..Len(q)
        BY <1>2
      <3>2. F[{}] = <<>>
        BY <1>7, <3>1
      <3> QED BY <1>4, <3>1, <3>2 DEF Runs
    <2>2. ASSUME NEW j \in 0..Len(q), j < Len(q), j \in T PROVE j + 1 \in T
      <3>1. j + 1 \in 1..Len(q) /\ j + 1 \in 0..Len(q) /\ (j + 1) - 1 = j /\ j + 1 \in Nat \ {0}
        BY <1>2, <2>2
      <3>2. Max(1..(j + 1)) = j + 1 /\ (1..(j + 1)) \ {j + 1} = 1..j /\ 1..(j + 1) # {}
        BY <3>1, MaxInterval
      <3>3. 1..(j + 1) \in SUBSET DOMAIN q
        BY <1>2, <3>1
      <3>4. F[1..(j + 1)] = Pushed(F[1..j], q[j + 1])
        BY <1>7, <3>2, <3>3
      <3>5. F[1..j] = g[j]
        BY <2>2
      <3>6. g[j + 1] = Pushed(g[j], q[j + 1])
        BY <1>5, <3>1
      <3> QED BY <3>1, <3>4, <3>5, <3>6
    <2> HIDE DEF T
    <2>3. \A k \in 0..Len(q) : k \in T
      BY <1>2, <2>1, <2>2, CountUp
    <2> QED BY <2>3 DEF T
  <1>9. FoldLeft(Pushed, <<>>, q) = g[Len(q)]
    <2>1. Len(q) \in 0..Len(q)
      BY <1>2
    <2> QED BY <1>2, <1>6, <1>8, <2>1
  <1> QED BY <1>4, <1>5, <1>9 DEF Runs, PushRuns

-----------------------------------------------------------------------------
(* The order of the log                                                    *)

\* x was published before y, if l is the log.
Earlier(x, y, l) == \E i, j \in 1..Len(l) : i < j /\ l[i] = x /\ l[j] = y

\* The samples of q are in the log, and in its order.
Sorted(q, l) ==
    /\ ToSet(q) \subseteq ToSet(l)
    /\ \A i, j \in 1..Len(q) : i < j => Earlier(q[i], q[j], l)

LEMMA EarlierKept ==
    ASSUME NEW l \in Seq(AnySample), NEW z \in AnySample, NEW x, NEW y, Earlier(x, y, l)
    PROVE  Earlier(x, y, Append(l, z))
  <1>1. /\ Len(l) \in Nat /\ Len(Append(l, z)) = Len(l) + 1
        /\ \A i \in 1..(Len(l) + 1) : Append(l, z)[i] = IF i = Len(l) + 1 THEN z ELSE l[i]
    BY Elements, AppendElements
  <1>2. PICK i \in 1..Len(l), j \in 1..Len(l) : i < j /\ l[i] = x /\ l[j] = y
    BY DEF Earlier
  <1>3. /\ i \in 1..(Len(l) + 1) /\ j \in 1..(Len(l) + 1)
        /\ i # Len(l) + 1 /\ j # Len(l) + 1
    BY <1>1
  <1>4. Append(l, z)[i] = x /\ Append(l, z)[j] = y
    BY <1>1, <1>2, <1>3
  <1> QED BY <1>1, <1>2, <1>3, <1>4 DEF Earlier

LEMMA SortedKept ==
    ASSUME NEW l \in Seq(AnySample), NEW z \in AnySample, NEW q, Sorted(q, l)
    PROVE  Sorted(q, Append(l, z))
  <1>1. ToSet(Append(l, z)) = ToSet(l) \cup {z}
    BY AppendElements
  <1> QED BY <1>1, EarlierKept DEF Sorted

\* Everything else in the log is earlier than its last sample.
LEMMA LastIsLatest ==
    ASSUME NEW l \in Seq(AnySample), l # <<>>, NEW y \in ToSet(l), y # l[Len(l)]
    PROVE  Earlier(y, l[Len(l)], l)
  <1>1. Len(l) \in Nat /\ Len(l) # 0 /\ ToSet(l) = {l[i] : i \in 1..Len(l)}
    BY Elements
  <1>2. PICK i \in 1..Len(l) : l[i] = y
    BY <1>1
  <1>3. i < Len(l) /\ Len(l) \in 1..Len(l)
    BY <1>1, <1>2
  <1> QED BY <1>2, <1>3 DEF Earlier

LEMMA SortedAppend ==
    ASSUME NEW l, NEW q \in Seq(AnySample), NEW x \in AnySample, Sorted(q, l),
           x \in ToSet(l), \A y \in ToSet(q) : Earlier(y, x, l)
    PROVE  Sorted(Append(q, x), l)
  <1>1. /\ Len(q) \in Nat /\ Len(Append(q, x)) = Len(q) + 1
        /\ ToSet(Append(q, x)) = ToSet(q) \cup {x} /\ ToSet(q) = {q[i] : i \in 1..Len(q)}
        /\ \A i \in 1..(Len(q) + 1) : Append(q, x)[i] = IF i = Len(q) + 1 THEN x ELSE q[i]
    BY Elements, AppendElements
  <1>2. ASSUME NEW i \in 1..(Len(q) + 1), NEW j \in 1..(Len(q) + 1), i < j
        PROVE  Earlier(Append(q, x)[i], Append(q, x)[j], l)
    <2>1. i \in 1..Len(q) /\ Append(q, x)[i] = q[i] /\ q[i] \in ToSet(q)
      BY <1>1, <1>2
    <2>2. CASE j = Len(q) + 1
      BY <1>1, <2>1, <2>2
    <2>3. CASE j # Len(q) + 1
      <3>1. j \in 1..Len(q) /\ Append(q, x)[j] = q[j]
        BY <1>1, <2>3
      <3> QED BY <1>2, <2>1, <3>1 DEF Sorted
    <2> QED BY <2>2, <2>3
  <1>3. ToSet(Append(q, x)) \subseteq ToSet(l)
    BY <1>1 DEF Sorted
  <1> QED BY <1>1, <1>2, <1>3 DEF Sorted

LEMMA SortedTail ==
    ASSUME NEW l, NEW q \in Seq(AnySample), q # <<>>, Sorted(q, l)
    PROVE  /\ Sorted(Tail(q), l) /\ Tail(q) \in Seq(AnySample)
           /\ \A y \in ToSet(Tail(q)) : Earlier(Head(q), y, l)
  <1>1. PICK t \in Seq(AnySample) :
            /\ t = Tail(q) /\ Head(q) = q[1] /\ Len(t) = Len(q) - 1 /\ Len(q) \in Nat \ {0}
            /\ \A i \in 1..(Len(q) - 1) : t[i] = q[i + 1]
            /\ ToSet(q) = {q[1]} \cup ToSet(t)
    BY TailElements
  <1>2. ToSet(t) = {t[i] : i \in 1..(Len(q) - 1)}
    <2>1. ToSet(t) = {t[i] : i \in 1..Len(t)}
      BY Elements
    <2> QED BY <1>1, <2>1
  <1>3. \A i \in 1..(Len(q) - 1) : i + 1 \in 1..Len(q) /\ 1 \in 1..Len(q) /\ 1 < i + 1
    BY <1>1
  <1>4. \A y \in ToSet(t) : Earlier(q[1], y, l)
    BY <1>1, <1>2, <1>3 DEF Sorted
  <1>5. ASSUME NEW i \in 1..Len(t), NEW j \in 1..Len(t), i < j PROVE Earlier(t[i], t[j], l)
    <2>1. i + 1 < j + 1 /\ t[i] = q[i + 1] /\ t[j] = q[j + 1]
      BY <1>1, <1>5
    <2> QED BY <1>1, <1>3, <2>1 DEF Sorted
  <1>6. Sorted(t, l)
    BY <1>1, <1>5 DEF Sorted
  <1> QED BY <1>1, <1>4, <1>6

\* push keeps the order if the sample is later than all that is queued.
LEMMA SortedPushed ==
    ASSUME NEW l, NEW q \in Seq(AnySample), NEW x \in AnySample, Sorted(q, l),
           x \in ToSet(l), \A y \in ToSet(q) : Earlier(y, x, l)
    PROVE  Sorted(Pushed(q, x), l)
  <1>1. CASE Len(q) < Capacity
    BY <1>1, SortedAppend DEF Pushed
  <1>2. CASE ~(Len(q) < Capacity)
    <2>1. q # <<>>
      BY <1>2, Elements, CapacityAssumption
    <2>2. PICK t \in Seq(AnySample) : t = Tail(q) /\ Sorted(t, l) /\ ToSet(t) \subseteq ToSet(q)
      BY <2>1, SortedTail, TailElements
    <2>3. \A y \in ToSet(t) : Earlier(y, x, l)
      BY <2>2
    <2>4. Sorted(t, l)
      BY <2>2
    <2>5. Sorted(Append(t, x), l)
      BY <2>3, <2>4, SortedAppend
    <2> QED BY <1>2, <2>2, <2>5 DEF Pushed
  <1> QED BY <1>1, <1>2

LEMMA EmptySorted == ASSUME NEW l PROVE Sorted(<<>>, l) /\ ToSet(<<>>) = {}
  BY DEF Sorted, ToSet

\* What a new subscriber finds in its queue is in the order of the log.
LEMMA ReplaySorted ==
    ASSUME NEW l, NEW q \in Seq(AnySample), Sorted(q, l)
    PROVE  /\ FoldLeft(Pushed, <<>>, q) \in Seq(AnySample)
           /\ Sorted(FoldLeft(Pushed, <<>>, q), l)
  <1>1. PICK g \in [0..Len(q) -> Seq(AnySample)] : PushRuns(g, q)
    BY ReplayRun
  <1>2. /\ Len(q) \in Nat /\ ToSet(q) = {q[i] : i \in 1..Len(q)}
        /\ \A i \in 1..Len(q) : q[i] \in AnySample
    BY Elements, ElementOfSeq
  <1> DEFINE T == {k \in 0..Len(q) : Sorted(g[k], l) /\ ToSet(g[k]) \subseteq {q[i] : i \in 1..k}}
  <1>3. 0 \in T
    BY <1>1, <1>2, EmptySorted DEF PushRuns
  <1>4. ASSUME NEW k \in 0..Len(q), k < Len(q), k \in T PROVE k + 1 \in T
    <2>1. k + 1 \in 1..Len(q) /\ k + 1 \in 0..Len(q) /\ (k + 1) - 1 = k /\ q[k + 1] \in AnySample
      BY <1>2, <1>4
    <2>2. \A i \in 1..k : i \in 1..Len(q) /\ i < k + 1 /\ i \in 1..(k + 1)
      BY <1>2, <1>4
    <2>3. g[k] \in Seq(AnySample) /\ g[k + 1] = Pushed(g[k], q[k + 1])
      BY <1>1, <2>1 DEF PushRuns
    <2>4. Sorted(g[k], l) /\ ToSet(g[k]) \subseteq {q[i] : i \in 1..k}
      BY <1>4
    <2>5. \A y \in ToSet(g[k]) : Earlier(y, q[k + 1], l)
      BY <2>1, <2>2, <2>4 DEF Sorted
    <2>6. q[k + 1] \in ToSet(l)
      BY <1>2, <2>1 DEF Sorted
    <2>7. Sorted(g[k + 1], l)
      BY <2>1, <2>3, <2>4, <2>5, <2>6, SortedPushed
    <2>8. ToSet(g[k + 1]) \subseteq ToSet(g[k]) \cup {q[k + 1]}
      <3>1. \A r \in Seq(AnySample), x \in AnySample : ToSet(Pushed(r, x)) \subseteq ToSet(r) \cup {x}
        BY PushedElements
      <3> HIDE DEF T
      <3> QED BY <2>1, <2>3, <3>1
    <2>9. k + 1 \in 1..(k + 1)
      BY <2>1
    <2>10. ToSet(g[k + 1]) \subseteq {q[i] : i \in 1..(k + 1)}
      BY <2>2, <2>4, <2>8, <2>9
    <2> QED BY <2>1, <2>7, <2>10
  <1>5. Len(q) \in T /\ Len(q) \in 0..Len(q)
    <2> HIDE DEF T
    <2>1. \A k \in 0..Len(q) : k \in T
      BY <1>2, <1>3, <1>4, CountUp
    <2> QED BY <1>2, <2>1
  <1> QED BY <1>1, <1>5 DEF PushRuns

\* Position is the place in the log, in which no sample occurs twice.
LEMMA PositionInLog ==
    ASSUME NEW A, log \in Seq(A), Distinct(log), NEW i \in 1..Len(log)
    PROVE  Position(log[i]) = i
  <1>1. Len(log) \in Nat
    BY Elements
  <1> DEFINE I == {k \in 1..Len(log) : log[k] = log[i]}
  <1>2. I = {i}
    BY DEF Distinct
  <1>3. Min({i}) = i
    BY DEF Min
  <1>4. Position(log[i]) = IF I # {} THEN Min(I) ELSE 0
    BY DEF Position, SelectInSeq
  <1> HIDE DEF I
  <1> QED BY <1>2, <1>3, <1>4

LEMMA EarlierPosition ==
    ASSUME NEW A, log \in Seq(A), Distinct(log), NEW x, NEW y, Earlier(x, y, log)
    PROVE  Position(x) < Position(y)
  <1>1. PICK i \in 1..Len(log), j \in 1..Len(log) : i < j /\ log[i] = x /\ log[j] = y
    BY DEF Earlier
  <1>2. Position(log[i]) = i /\ Position(log[j]) = j
    BY PositionInLog
  <1> QED BY <1>1, <1>2

-----------------------------------------------------------------------------
(* Type correctness                                                        *)

WritePcs == {"idle", "claim", "lock", "push"}
SubPcs   == {"none", "joining", "open"}

TypeInv ==
    /\ pubSeq \in [Publishers -> Nat] /\ wpc \in [Calls -> WritePcs]
    /\ sample \in [Calls -> AnySample \cup {NoSample}]
    /\ \A c \in Calls : wpc[c] \in {"lock", "push"} => sample[c] \in AnySample
    /\ log \in Seq(AnySample) /\ cache \in Seq(AnySample)
    /\ registered \in Seq(Subscribers) /\ todo \in [Calls -> Seq(Subscribers)]
    /\ spc \in [Subscribers -> SubPcs] /\ subClosed \in [Subscribers -> BOOLEAN]
    /\ queue \in [Subscribers -> Seq(AnySample)] /\ taken \in [Subscribers -> Seq(AnySample)]
    /\ joined \in [Subscribers -> Nat] /\ depth \in Nat /\ drops \in Nat

\* The mutex of the topic table, and the samples of the calls: one that waits
\* for the mutex has a sample that nobody else has and that is not in the log,
\* the one that holds it has the last sample of the log.
WriteInv ==
    /\ holder \in Calls \cup {Free}
    /\ \A c \in Calls : wpc[c] = "push" <=> holder = c
    /\ Distinct(log)
    /\ \A x \in ToSet(log) : x[2] <= pubSeq[x[1]]
    /\ \A c \in Calls : wpc[c] = "lock" =>
          sample[c] \notin ToSet(log) /\ sample[c][1] = Owner[c] /\ sample[c][2] <= pubSeq[Owner[c]]
    /\ \A c, d \in Calls :
          wpc[c] = "lock" /\ wpc[d] = "lock" /\ sample[c] = sample[d] => c = d
    /\ \A c \in Calls : wpc[c] = "push" => log # <<>> /\ sample[c] = log[Len(log)]

Opened == {s \in Subscribers : spc[s] = "open"}

\* A subscriber is in the table once, from the end of subscribe until it has been
\* closed; a call pushes to each subscriber once.
TableInv ==
    /\ Distinct(registered) /\ ToSet(registered) \subseteq Opened
    /\ \A s \in Opened : ~subClosed[s] => s \in ToSet(registered)
    /\ \A c \in Calls : wpc[c] = "push" => Distinct(todo[c]) /\ ToSet(todo[c]) \subseteq Opened
    /\ \A s \in Subscribers : spc[s] # "open" => taken[s] = <<>> /\ queue[s] = <<>>

OrderOf(s) ==
    /\ Sorted(taken[s], log) /\ Sorted(queue[s], log)
    /\ \A x \in ToSet(taken[s]), y \in ToSet(queue[s]) : Earlier(x, y, log)

\* The cache and all that subscribers have been given are in the order of the
\* log; what a call has still to push, its subscriber has not got.
OrderInv ==
    /\ Sorted(cache, log)
    /\ \A s \in Subscribers : OrderOf(s)
    /\ \A c \in Calls : wpc[c] = "push" =>
          \A s \in ToSet(todo[c]) : sample[c] \notin ToSet(taken[s]) \cup ToSet(queue[s])

BrokerVars == <<pubSeq, holder, log, cache, drops, wpc, sample, todo>>

-----------------------------------------------------------------------------
(* The invariants hold at first                                            *)

LEMMA Nowhere ==
    ASSUME NEW A PROVE <<>> \in Seq(A) /\ ToSet(<<>>) = {} /\ Distinct(<<>>) /\ Len(<<>>) = 0
  BY EmptySeq DEF ToSet, Distinct

LEMMA TypeInit == ASSUME Init PROVE TypeInv
  <1>1. <<>> \in Seq(AnySample) /\ <<>> \in Seq(Subscribers)
    BY Nowhere
  <1> QED BY <1>1 DEF Init, TypeInv, WritePcs, SubPcs

LEMMA OrderInit == ASSUME Init PROVE WriteInv /\ TableInv /\ OrderInv
  <1>1. WriteInv
    BY Nowhere, CallsAssumption DEF Init, WriteInv, Free
  <1>2. TableInv
    BY Nowhere DEF Init, TableInv, Opened
  <1>3. OrderInv
    BY EmptySorted, Nowhere DEF Init, OrderInv, OrderOf
  <1> QED BY <1>1, <1>2, <1>3

-----------------------------------------------------------------------------
(* Steps that give nobody a sample                                         *)

\* A depth of 0 counts as 1.
LEMMA TopicDepthType ==
    ASSUME depth \in Nat, NEW e \in Endpoints
    PROVE  TopicDepth(e) \in Nat \ {0} /\ (depth # 0 => TopicDepth(e) = depth)
  <1> DEFINE D == {QosDepth[e], 1}
  <1>1. QosDepth[e] \in Nat
    BY QosDepthAssumption
  <1>2. \E x \in D : \A y \in D : x >= y
    BY <1>1
  <1>3. Max(D) \in D /\ \A y \in D : Max(D) >= y
    <2> HIDE DEF D
    <2> QED BY <1>2, Zenon DEF Max
  <1>4. Max({QosDepth[e], 1}) \in Nat \ {0}
    BY <1>1, <1>3
  <1> QED BY <1>4 DEF TopicDepth

LEMMA CachedType ==
    ASSUME cache \in Seq(AnySample), NEW d \in Nat \ {0}, NEW x \in AnySample
    PROVE  Cached(d, x) \in Seq(AnySample)
  <1>1. CASE Len(cache) >= d
    <2>1. cache # <<>>
      BY <1>1, Elements
    <2>2. PICK t \in Seq(AnySample) : t = Tail(cache)
      BY <2>1, TailElements
    <2>3. Append(t, x) \in Seq(AnySample)
      BY AppendElements
    <2> QED BY <1>1, <2>2, <2>3 DEF Cached
  <1>2. CASE ~(Len(cache) >= d)
    BY <1>2, AppendElements DEF Cached
  <1> QED BY <1>1, <1>2

\* The list of the subscribers that publish pushes to.
LEMMA StillOpenType ==
    ASSUME TypeInv
    PROVE  /\ StillOpen \in Seq(Subscribers)
           /\ ToSet(StillOpen) = {s \in ToSet(registered) : ~subClosed[s]}
           /\ Distinct(registered) => Distinct(StillOpen)
  <1>1. /\ StillOpen \in Seq(Subscribers)
        /\ ToSet(StillOpen) = ToSet(registered) \cap {s \in Subscribers : ~subClosed[s]}
        /\ Distinct(registered) => Distinct(StillOpen)
    BY OnlyElements DEF StillOpen, TypeInv
  <1>2. ToSet(registered) \subseteq Subscribers
    BY Elements DEF TypeInv
  <1> QED BY <1>1, <1>2

LEMMA ReplayType ==
    ASSUME TypeInv, OrderInv, NEW s \in Subscribers
    PROVE  Replay(s) \in Seq(AnySample) /\ Sorted(Replay(s), log)
  BY ReplaySorted, EmptySorted, Nowhere DEF Replay, OrderInv, TypeInv

\* One turn of publish's loop: to s goes the sample, t is the rest of the list.
PushTurn(c, s, t) ==
    /\ wpc[c] = "push" /\ todo[c] # <<>> /\ s = Head(todo[c]) /\ t = Tail(todo[c])
    /\ ToSet(todo[c]) = {s} \cup ToSet(t)
    /\ todo' = [todo EXCEPT ![c] = t]
    /\ \/ /\ queue' = [queue EXCEPT ![s] = Pushed(queue[s], sample[c])]
          /\ drops' = drops /\ delivers' = delivers + 1 /\ ~subClosed[s] /\ Accepts(queue[s])
       \/ queue' = queue /\ drops' = drops + 1 /\ delivers' = delivers
    /\ UNCHANGED <<pubSeq, holder, TopicVars, wpc, sample, spc, subClosed, taken, joined>>

LEMMA PushStep ==
    ASSUME TypeInv, NEW c \in Calls, PublishPush(c)
    PROVE  \E s \in Subscribers, t \in Seq(Subscribers) : PushTurn(c, s, t)
  <1>1. todo[c] \in Seq(Subscribers) /\ todo[c] # <<>>
    BY DEF PublishPush, TypeInv
  <1>2. PICK s \in Subscribers : s = Head(todo[c])
    BY <1>1, TailElements
  <1>3. PICK t \in Seq(Subscribers) : t = Tail(todo[c]) /\ ToSet(todo[c]) = {s} \cup ToSet(t)
    BY <1>1, <1>2, TailElements
  <1>4. /\ wpc[c] = "push" /\ todo' = [todo EXCEPT ![c] = t]
        /\ \/ /\ queue' = [queue EXCEPT ![s] = Pushed(queue[s], sample[c])]
              /\ drops' = drops /\ delivers' = delivers + 1 /\ ~subClosed[s] /\ Accepts(queue[s])
           \/ queue' = queue /\ drops' = drops + 1 /\ delivers' = delivers
        /\ UNCHANGED <<pubSeq, holder, TopicVars, wpc, sample, spc, subClosed, taken, joined>>
    BY <1>2, <1>3 DEF PublishPush, PubVars
  <1> QED BY <1>1, <1>2, <1>3, <1>4 DEF PushTurn

LEMMA TypeStep == ASSUME TypeInv, OrderInv, [Next]_vars PROVE TypeInv'
  <1> USE DEF TypeInv, PubVars, TopicVars, MetricVars, CallVars, SubVars
  <1>1. ASSUME NEW c \in Calls, Write(c) PROVE TypeInv'
    <2>1. Owner[c] \in Publishers /\ Owner[c] \in Endpoints
      BY OwnerAssumption DEF Endpoints
    <2>2. CASE WriteCheck(c)
      BY <2>2 DEF WriteCheck, WritePcs
    <2>3. CASE WriteClaim(c)
      <3>1. PICK x \in AnySample : x = <<Owner[c], pubSeq[Owner[c]] + 1>>
        <4>1. pubSeq[Owner[c]] + 1 \in Nat
          BY <2>1
        <4> QED BY <2>1, <4>1 DEF AnySample
      <3>2. /\ pubSeq' = [pubSeq EXCEPT ![Owner[c]] = @ + 1] /\ sample' = [sample EXCEPT ![c] = x]
            /\ wpc' = [wpc EXCEPT ![c] = "lock"]
        BY <2>3, <3>1 DEF WriteClaim
      <3>3. /\ pubSeq' \in [Publishers -> Nat] /\ wpc' \in [Calls -> WritePcs]
            /\ sample' \in [Calls -> AnySample \cup {NoSample}]
            /\ \A d \in Calls : wpc'[d] \in {"lock", "push"} => sample'[d] \in AnySample
        BY <2>1, <3>2 DEF WritePcs
      <3> QED BY <2>3, <3>3 DEF WriteClaim
    <2>4. CASE PublishLock(c)
      <3>1. sample[c] \in AnySample
        BY <2>4 DEF PublishLock
      <3>2. depth' \in Nat /\ cache' \in Seq(AnySample)
        BY <2>1, <2>4, <3>1, TopicDepthType, CachedType DEF PublishLock
      <3>3. log' \in Seq(AnySample)
        BY <2>4, <3>1, AppendElements DEF PublishLock
      <3>4. registered' \in Seq(Subscribers) /\ todo' \in [Calls -> Seq(Subscribers)]
        BY <2>4, StillOpenType DEF PublishLock
      <3> QED BY <2>4, <3>1, <3>2, <3>3, <3>4 DEF PublishLock, WritePcs
    <2>5. CASE PublishPush(c)
      <3>1. PICK s \in Subscribers, t \in Seq(Subscribers) : PushTurn(c, s, t)
        BY <2>5, PushStep
      <3>2. sample[c] \in AnySample
        BY <3>1 DEF PushTurn
      <3>3. PICK r \in Seq(AnySample) : r = Pushed(queue[s], sample[c])
        BY <3>2, PushedElements
      <3>4. queue' \in [Subscribers -> Seq(AnySample)] /\ drops' \in Nat
        <4>1. /\ queue' = [queue EXCEPT ![s] = r] \/ queue' = queue
              /\ drops' = drops \/ drops' = drops + 1
          BY <3>1, <3>3 DEF PushTurn
        <4>2. queue \in [Subscribers -> Seq(AnySample)] /\ drops \in Nat
          OBVIOUS
        <4> HIDE DEF TypeInv
        <4>3. queue' \in [Subscribers -> Seq(AnySample)]
          BY <4>1, <4>2
        <4>4. drops' \in Nat
          BY <4>1, <4>2
        <4> QED BY <4>3, <4>4
      <3>5. todo' \in [Calls -> Seq(Subscribers)]
        BY <3>1 DEF PushTurn
      <3> QED BY <3>1, <3>4, <3>5 DEF PushTurn
    <2>6. CASE PublishUnlock(c)
      BY <2>6 DEF PublishUnlock, WritePcs
    <2> QED BY <1>1, <2>2, <2>3, <2>4, <2>5, <2>6 DEF Write
  <1>2. ASSUME NEW s \in Subscribers, NewSubscriber(s) PROVE TypeInv'
    BY <1>2 DEF NewSubscriber, SubPcs
  <1>3. ASSUME NEW s \in Subscribers, Subscribe(s) PROVE TypeInv'
    <2>1. depth' \in Nat
      BY <1>3, TopicDepthType DEF Subscribe, Endpoints
    <2>2. queue' \in [Subscribers -> Seq(AnySample)]
      BY <1>3, ReplayType DEF Subscribe
    <2>3. registered' \in Seq(Subscribers)
      BY <1>3, AppendElements DEF Subscribe
    <2>4. joined' \in [Subscribers -> Nat]
      BY <1>3, Elements DEF Subscribe
    <2> QED BY <1>3, <2>1, <2>2, <2>3, <2>4 DEF Subscribe, SubPcs
  <1>4. ASSUME NEW s \in Subscribers, Receive(s) PROVE TypeInv'
    <2>1. PICK x \in AnySample : x = Head(queue[s])
      BY <1>4, TailElements DEF Receive
    <2>2. Tail(queue[s]) \in Seq(AnySample)
      BY <1>4, TailElements DEF Receive
    <2>3. Append(taken[s], x) \in Seq(AnySample)
      BY AppendElements
    <2> QED BY <1>4, <2>1, <2>2, <2>3 DEF Receive
  <1>5. ASSUME NEW s \in Subscribers, CloseSubscriber(s) PROVE TypeInv'
    BY <1>5 DEF CloseSubscriber
  <1>6. CASE CloseSweep
    BY <1>6 DEF CloseSweep
  <1>7. ASSUME \/ \E p \in Publishers : NewPublisher(p) \/ ClosePublisher(p)
               \/ CloseParticipant \/ UNCHANGED vars
        PROVE  TypeInv'
    BY <1>7 DEF NewPublisher, ClosePublisher, CloseParticipant, vars
  <1> QED BY <1>1, <1>2, <1>3, <1>4, <1>5, <1>6, <1>7 DEF Next

-----------------------------------------------------------------------------
(* The mutex and the samples of the calls                                  *)

\* Subscribers change nothing of the calls and of what has been published.
LEMMA SubscriberSteps ==
    ASSUME [Next]_vars
    PROVE  (\E c \in Calls : Write(c)) \/ UNCHANGED BrokerVars
  BY DEF Next, NewPublisher, ClosePublisher, NewSubscriber, Subscribe, Receive, CloseSubscriber,
         CloseParticipant, CloseSweep, vars, BrokerVars, PubVars, TopicVars, MetricVars, CallVars

LEMMA WriteStep ==
    ASSUME TypeInv, WriteInv, [Next]_vars PROVE WriteInv'
  <1>1. CASE UNCHANGED BrokerVars
    BY <1>1 DEF BrokerVars, WriteInv
  <1>2. ASSUME NEW c \in Calls, WriteCheck(c) PROVE WriteInv'
    BY <1>2 DEF WriteCheck, WriteInv, TypeInv, PubVars, TopicVars
  <1>3. ASSUME NEW c \in Calls, WriteClaim(c) PROVE WriteInv'
    <2> DEFINE p == Owner[c]
    <2>1. p \in Publishers /\ pubSeq[p] \in Nat
      BY OwnerAssumption DEF TypeInv
    <2>2. PICK x : x = <<p, pubSeq[p] + 1>>
      OBVIOUS
    <2>3. x[1] = p /\ x[2] = pubSeq[p] + 1
      BY <2>2
    <2>4. /\ wpc[c] = "claim" /\ wpc' = [wpc EXCEPT ![c] = "lock"]
          /\ sample' = [sample EXCEPT ![c] = x] /\ pubSeq' = [pubSeq EXCEPT ![p] = @ + 1]
          /\ UNCHANGED <<log, holder>>
      BY <1>3, <2>2 DEF WriteClaim, TopicVars
    <2>5. /\ \A d \in Calls : wpc'[d] = IF d = c THEN "lock" ELSE wpc[d]
          /\ \A d \in Calls : sample'[d] = IF d = c THEN x ELSE sample[d]
          /\ pubSeq'[p] = pubSeq[p] + 1 /\ \A q \in Publishers : q # p => pubSeq'[q] = pubSeq[q]
      BY <2>1, <2>4 DEF TypeInv
    <2>6. x \notin ToSet(log)
      BY <2>1, <2>3 DEF WriteInv
    <2>7. \A d \in Calls : wpc[d] = "lock" => sample[d] # x
      <3>1. ASSUME NEW d \in Calls, wpc[d] = "lock", sample[d] = x PROVE FALSE
        <4>1. sample[d][1] = Owner[d] /\ sample[d][2] <= pubSeq[Owner[d]]
          BY <3>1 DEF WriteInv
        <4>2. pubSeq[p] + 1 <= pubSeq[p]
          BY <2>3, <3>1, <4>1
        <4> QED BY <2>1, <4>2
      <3> QED BY <3>1
    <2>8. \A y \in ToSet(log) : y[1] \in Publishers /\ y[2] \in Nat
      BY Elements DEF TypeInv, AnySample
    <2>9. \A q \in Publishers, n \in Nat : n <= pubSeq[q] => n <= pubSeq'[q]
      <3>1. \A q \in Publishers : pubSeq[q] \in Nat
        BY DEF TypeInv
      <3> QED BY <2>1, <2>5, <3>1
    <2>10. \A y \in ToSet(log) : y[2] <= pubSeq'[y[1]]
      BY <2>8, <2>9 DEF WriteInv
    <2>11. ASSUME NEW d \in Calls, wpc'[d] = "lock"
           PROVE  /\ sample'[d] \notin ToSet(log) /\ sample'[d][1] = Owner[d]
                  /\ sample'[d][2] <= pubSeq'[Owner[d]]
      <3>1. CASE d = c
        BY <2>1, <2>3, <2>5, <2>6, <3>1
      <3>2. CASE d # c
        <4>1. /\ sample'[d] = sample[d] /\ wpc[d] = "lock" /\ sample[d] \in AnySample
              /\ Owner[d] \in Publishers
          BY <2>5, <2>11, <3>2, OwnerAssumption DEF TypeInv
        <4>2. /\ sample[d] \notin ToSet(log) /\ sample[d][1] = Owner[d] /\ sample[d][2] \in Nat
              /\ sample[d][2] <= pubSeq[Owner[d]]
          BY <4>1 DEF WriteInv, AnySample
        <4> QED BY <2>9, <4>1, <4>2
      <3> QED BY <3>1, <3>2
    <2>12. \A d, e \in Calls :
              wpc'[d] = "lock" /\ wpc'[e] = "lock" /\ sample'[d] = sample'[e] => d = e
      BY <2>5, <2>7 DEF WriteInv
    <2>13. \A d \in Calls : wpc'[d] = "push" => log # <<>> /\ sample'[d] = log[Len(log)]
      BY <2>5 DEF WriteInv
    <2>14. \A d \in Calls : wpc'[d] = "push" <=> holder = d
      BY <2>4, <2>5 DEF WriteInv
    <2> HIDE DEF p
    <2> QED BY <2>4, <2>10, <2>11, <2>12, <2>13, <2>14 DEF WriteInv
  <1>4. ASSUME NEW c \in Calls, PublishLock(c) PROVE WriteInv'
    <2> DEFINE x == sample[c]
    <2>1. /\ wpc[c] = "lock" /\ holder = Free /\ holder' = c /\ log' = Append(log, x)
          /\ wpc' = [wpc EXCEPT ![c] = "push"] /\ UNCHANGED <<pubSeq, sample>>
      BY <1>4 DEF PublishLock, PubVars
    <2>2. x \in AnySample /\ log \in Seq(AnySample)
      BY <2>1 DEF TypeInv
    <2>3. /\ x \notin ToSet(log) /\ x[1] = Owner[c] /\ x[2] <= pubSeq[x[1]] /\ Distinct(log)
          /\ \A d \in Calls : wpc[d] = "lock" /\ sample[d] = x => d = c
      BY <2>1 DEF WriteInv
    <2>4. \A d \in Calls : wpc'[d] = IF d = c THEN "push" ELSE wpc[d]
      BY <2>1 DEF TypeInv
    <2>5. \A d \in Calls : wpc[d] # "push"
      BY <2>1, CallsAssumption DEF WriteInv, Free
    <2> HIDE DEF x
    <2>6. /\ Distinct(log') /\ ToSet(log') = ToSet(log) \cup {x} /\ Len(log') = Len(log) + 1
          /\ log'[Len(log')] = x /\ log' # <<>>
      <3>1. /\ Len(log) \in Nat /\ Len(Append(log, x)) = Len(log) + 1
            /\ ToSet(Append(log, x)) = ToSet(log) \cup {x}
            /\ Append(log, x)[Len(log) + 1] = x
        BY <2>2, Elements, AppendElements
      <3>2. Distinct(Append(log, x))
        BY <2>2, <2>3, DistinctAppend
      <3> QED BY <2>1, <3>1, <3>2
    <2>7. \A d \in Calls : wpc'[d] = "push" <=> holder' = d
      BY <2>1, <2>4, <2>5
    <2>8. \A d \in Calls : wpc'[d] = "push" => log' # <<>> /\ sample'[d] = log'[Len(log')]
      BY <2>1, <2>4, <2>5, <2>6 DEF x
    <2>9. \A y \in ToSet(log') : y[2] <= pubSeq'[y[1]]
      BY <2>1, <2>3, <2>6 DEF WriteInv
    <2>10. \A d \in Calls : wpc'[d] = "lock" =>
              /\ sample'[d] \notin ToSet(log') /\ sample'[d][1] = Owner[d]
              /\ sample'[d][2] <= pubSeq'[Owner[d]]
      BY <2>1, <2>3, <2>4, <2>6 DEF WriteInv
    <2>11. \A d, e \in Calls :
              wpc'[d] = "lock" /\ wpc'[e] = "lock" /\ sample'[d] = sample'[e] => d = e
      BY <2>1, <2>4 DEF WriteInv
    <2> QED BY <2>1, <2>6, <2>7, <2>8, <2>9, <2>10, <2>11 DEF WriteInv
  <1>5. ASSUME NEW c \in Calls, PublishPush(c) PROVE WriteInv'
    BY <1>5 DEF PublishPush, WriteInv, PubVars, TopicVars
  <1>6. ASSUME NEW c \in Calls, PublishUnlock(c) PROVE WriteInv'
    <2>1. /\ wpc[c] = "push" /\ holder' = Free /\ UNCHANGED <<log, pubSeq, sample>>
          /\ \A d \in Calls : wpc'[d] = IF d = c THEN "idle" ELSE wpc[d]
      BY <1>6 DEF PublishUnlock, TypeInv, PubVars, TopicVars
    <2> QED BY <2>1, CallsAssumption DEF WriteInv, Free
  <1> QED BY <1>1, <1>2, <1>3, <1>4, <1>5, <1>6, SubscriberSteps DEF Write

-----------------------------------------------------------------------------
(* The table of the subscribers                                            *)

\* Steps that leave the table, the queues and the lists of the calls alone.
LEMMA IdleSteps ==
    ASSUME TypeInv,
           \/ \E c \in Calls : WriteCheck(c) \/ WriteClaim(c) \/ PublishUnlock(c)
           \/ \E p \in Publishers : NewPublisher(p) \/ ClosePublisher(p)
           \/ \E s \in Subscribers : NewSubscriber(s) \/ CloseSubscriber(s)
           \/ CloseParticipant \/ CloseSweep \/ UNCHANGED vars
    PROVE  /\ UNCHANGED <<depth, cache, registered, log, drops, todo, queue, taken, joined>>
           /\ \A c \in Calls : wpc'[c] = "push" => wpc[c] = "push" /\ sample'[c] = sample[c]
           /\ \A s \in Subscribers : subClosed[s] => subClosed'[s]
           /\ \A s \in Subscribers : spc'[s] = "open" <=> spc[s] = "open"
  <1> USE DEF PubVars, TopicVars, MetricVars, CallVars, SubVars
  <1>1. ASSUME NEW c \in Calls, WriteCheck(c) \/ WriteClaim(c) \/ PublishUnlock(c)
        PROVE  /\ UNCHANGED <<depth, cache, registered, log, drops, todo, queue, taken, joined>>
               /\ UNCHANGED <<subClosed, spc>>
               /\ \A d \in Calls : wpc'[d] = "push" => wpc[d] = "push" /\ sample'[d] = sample[d]
    BY <1>1 DEF WriteCheck, WriteClaim, PublishUnlock, TypeInv
  <1>2. ASSUME NEW s \in Subscribers, NewSubscriber(s) \/ CloseSubscriber(s)
        PROVE  /\ UNCHANGED <<depth, cache, registered, log, drops, todo, queue, taken, joined>>
               /\ UNCHANGED <<wpc, sample>>
               /\ \A q \in Subscribers : subClosed[q] => subClosed'[q]
               /\ \A q \in Subscribers : spc'[q] = "open" <=> spc[q] = "open"
    BY <1>2 DEF NewSubscriber, CloseSubscriber, TypeInv
  <1>3. ASSUME \/ \E p \in Publishers : NewPublisher(p) \/ ClosePublisher(p)
               \/ CloseParticipant \/ CloseSweep \/ UNCHANGED vars
        PROVE  /\ UNCHANGED <<depth, cache, registered, log, drops, todo, queue, taken, joined>>
               /\ UNCHANGED <<wpc, sample, spc>>
               /\ \A q \in Subscribers : subClosed[q] => subClosed'[q]
    BY <1>3 DEF NewPublisher, ClosePublisher, CloseParticipant, CloseSweep, vars
  <1> QED BY <1>1, <1>2, <1>3

LEMMA TableStep ==
    ASSUME TypeInv, WriteInv, TableInv, [Next]_vars PROVE TableInv'
  <1>1. ASSUME \/ \E c \in Calls : WriteCheck(c) \/ WriteClaim(c) \/ PublishUnlock(c)
               \/ \E p \in Publishers : NewPublisher(p) \/ ClosePublisher(p)
               \/ \E s \in Subscribers : NewSubscriber(s) \/ CloseSubscriber(s)
               \/ CloseParticipant \/ CloseSweep \/ UNCHANGED vars
        PROVE  TableInv'
    <2>1. /\ UNCHANGED <<registered, todo, queue, taken>>
          /\ \A c \in Calls : wpc'[c] = "push" => wpc[c] = "push"
          /\ \A s \in Subscribers : subClosed[s] => subClosed'[s]
          /\ \A s \in Subscribers : spc'[s] = "open" <=> spc[s] = "open"
      BY <1>1, IdleSteps
    <2> QED BY <2>1 DEF TableInv, Opened
  <1>2. ASSUME NEW c \in Calls, PublishLock(c) PROVE TableInv'
    <2>1. /\ registered' = StillOpen /\ todo' = [todo EXCEPT ![c] = StillOpen]
          /\ holder = Free /\ wpc' = [wpc EXCEPT ![c] = "push"]
          /\ UNCHANGED <<spc, queue, taken, subClosed>>
      BY <1>2 DEF PublishLock, SubVars
    <2>2. /\ Distinct(StillOpen) /\ ToSet(StillOpen) \subseteq Opened
          /\ \A s \in Opened : ~subClosed[s] => s \in ToSet(StillOpen)
      BY StillOpenType DEF TableInv, Opened
    <2>3. \A d \in Calls : wpc'[d] = "push" => todo'[d] = StillOpen
      BY <2>1, CallsAssumption DEF WriteInv, Free, TypeInv
    <2>4. Opened' = Opened
      BY <2>1 DEF Opened
    <2> QED BY <2>1, <2>2, <2>3, <2>4 DEF TableInv
  <1>3. ASSUME NEW c \in Calls, PublishPush(c) PROVE TableInv'
    <2>1. PICK s \in Subscribers, t \in Seq(Subscribers) : PushTurn(c, s, t)
      BY <1>3, PushStep
    <2>2. /\ wpc[c] = "push" /\ todo[c] # <<>> /\ t = Tail(todo[c]) /\ ToSet(todo[c]) = {s} \cup ToSet(t)
          /\ todo' = [todo EXCEPT ![c] = t] /\ UNCHANGED <<registered, wpc, spc, subClosed, taken>>
          /\ todo[c] \in Seq(Subscribers)
      BY <2>1 DEF PushTurn, TopicVars, TypeInv
    <2>3. s \in Opened /\ ToSet(t) \subseteq Opened /\ Distinct(t)
      BY <2>2, DistinctTail DEF TableInv
    <2>4. \A q \in Subscribers : q # s => queue'[q] = queue[q]
      BY <2>1 DEF PushTurn, TypeInv
    <2>5. \A d \in Calls : todo'[d] = IF d = c THEN t ELSE todo[d]
      BY <2>2 DEF TypeInv
    <2>6. Opened' = Opened
      BY <2>2 DEF Opened
    <2>7. \A d \in Calls : wpc[d] = "push" => Distinct(todo'[d]) /\ ToSet(todo'[d]) \subseteq Opened
      BY <2>3, <2>5 DEF TableInv
    <2>8. \A q \in Subscribers : spc[q] # "open" => taken[q] = <<>> /\ queue'[q] = <<>>
      BY <2>3, <2>4 DEF TableInv, Opened
    <2> QED BY <2>2, <2>6, <2>7, <2>8 DEF TableInv
  <1>4. ASSUME NEW s \in Subscribers, Subscribe(s) PROVE TableInv'
    <2>1. /\ spc[s] = "joining" /\ registered' = Append(registered, s)
          /\ spc' = [spc EXCEPT ![s] = "open"] /\ UNCHANGED <<subClosed, taken, wpc, todo>>
          /\ queue' = [queue EXCEPT ![s] = Replay(s)]
      BY <1>4 DEF Subscribe, CallVars
    <2>2. Opened' = Opened \cup {s} /\ s \notin Opened
      BY <2>1 DEF Opened, TypeInv
    <2>3. /\ ToSet(Append(registered, s)) = ToSet(registered) \cup {s}
          /\ Distinct(Append(registered, s))
      BY <2>2, AppendElements, DistinctAppend DEF TableInv, TypeInv
    <2>4. \A q \in Subscribers : q # s => queue'[q] = queue[q] /\ spc'[q] = spc[q]
      BY <2>1 DEF TypeInv
    <2>5. spc'[s] = "open"
      BY <2>1 DEF TypeInv
    <2> QED BY <2>1, <2>2, <2>3, <2>4, <2>5 DEF TableInv
  <1>5. ASSUME NEW s \in Subscribers, Receive(s) PROVE TableInv'
    <2>1. /\ queue[s] # <<>> /\ UNCHANGED <<registered, spc, subClosed, wpc, todo>>
          /\ \A q \in Subscribers : q # s => queue'[q] = queue[q] /\ taken'[q] = taken[q]
      BY <1>5 DEF Receive, TopicVars, CallVars, TypeInv
    <2>2. spc[s] = "open"
      BY <2>1 DEF TableInv
    <2>3. Opened' = Opened
      BY <2>1 DEF Opened
    <2> QED BY <2>1, <2>2, <2>3 DEF TableInv
  <1> QED BY <1>1, <1>2, <1>3, <1>4, <1>5 DEF Next, Write

-----------------------------------------------------------------------------
(* The order of deliveries                                                 *)

LEMMA OrderLock ==
    ASSUME TypeInv, WriteInv, OrderInv, NEW c \in Calls, PublishLock(c) PROVE OrderInv'
  <1> DEFINE x == sample[c]  d == TopicDepth(Owner[c])
  <1>1. /\ wpc[c] = "lock" /\ holder = Free /\ log' = Append(log, x)
        /\ cache' = IF Owner[c] \in Durable THEN Cached(d, x) ELSE cache
        /\ wpc' = [wpc EXCEPT ![c] = "push"] /\ UNCHANGED <<sample, queue, taken>>
    BY DEF PublishLock, SubVars
  <1>2. x \in AnySample /\ log \in Seq(AnySample) /\ cache \in Seq(AnySample) /\ x \notin ToSet(log)
    BY <1>1 DEF TypeInv, WriteInv
  <1>3. d \in Nat \ {0}
    BY TopicDepthType, OwnerAssumption DEF TypeInv, Endpoints
  <1>4. \A e \in Calls : wpc'[e] = "push" => e = c
    BY <1>1, CallsAssumption DEF WriteInv, Free, TypeInv
  <1>5. ASSUME NEW s \in Subscribers
        PROVE  /\ OrderOf(s)'
               /\ x \notin ToSet(taken[s]) \cup ToSet(queue[s])
    <2>1. /\ Sorted(taken[s], log) /\ Sorted(queue[s], log)
          /\ \A y \in ToSet(taken[s]), z \in ToSet(queue[s]) : Earlier(y, z, log)
      BY DEF OrderInv, OrderOf
    <2> HIDE DEF x
    <2>2. /\ Sorted(taken[s], log') /\ Sorted(queue[s], log')
          /\ \A y \in ToSet(taken[s]), z \in ToSet(queue[s]) : Earlier(y, z, log')
      BY <1>1, <1>2, <2>1, SortedKept, EarlierKept
    <2>3. x \notin ToSet(taken[s]) \cup ToSet(queue[s])
      BY <1>2, <2>1 DEF Sorted
    <2> QED BY <1>1, <2>2, <2>3 DEF OrderOf
  <1>6. Sorted(cache', log')
    <2> HIDE DEF x, d
    <2>1. Sorted(cache, log') /\ Sorted(cache, log)
      BY <1>1, <1>2, SortedKept DEF OrderInv
    <2>2. /\ log' \in Seq(AnySample) /\ log' # <<>> /\ log'[Len(log')] = x /\ x \in ToSet(log')
          /\ ToSet(log') = ToSet(log) \cup {x}
      <3>1. /\ Append(log, x) \in Seq(AnySample) /\ Len(Append(log, x)) = Len(log) + 1
            /\ ToSet(Append(log, x)) = ToSet(log) \cup {x} /\ Len(log) \in Nat
            /\ Append(log, x)[Len(log) + 1] = x
        BY <1>2, AppendElements, Elements
      <3> QED BY <1>1, <3>1
    <2>3. \A y \in ToSet(log) : Earlier(y, x, log')
      BY <1>2, <2>2, LastIsLatest
    <2>4. ASSUME NEW q \in Seq(AnySample), Sorted(q, log'), ToSet(q) \subseteq ToSet(cache)
          PROVE  Sorted(Append(q, x), log')
      <3>1. \A y \in ToSet(q) : Earlier(y, x, log')
        BY <2>1, <2>3, <2>4 DEF Sorted
      <3> QED BY <1>2, <2>2, <2>4, <3>1, SortedAppend
    <2>5. CASE Len(cache) >= d
      <3>1. cache # <<>>
        BY <1>2, <1>3, <2>5, Elements
      <3>2. PICK t \in Seq(AnySample) :
                t = Tail(cache) /\ Sorted(t, log') /\ ToSet(t) \subseteq ToSet(cache)
        BY <1>2, <2>1, <3>1, SortedTail, TailElements
      <3>3. Sorted(Append(t, x), log')
        BY <2>4, <3>2
      <3> QED BY <1>1, <2>1, <2>5, <3>2, <3>3 DEF Cached
    <2>6. CASE ~(Len(cache) >= d)
      <3>1. Sorted(Append(cache, x), log')
        BY <1>2, <2>1, <2>4
      <3> QED BY <1>1, <2>1, <2>6, <3>1 DEF Cached
    <2> QED BY <2>5, <2>6
  <1>7. todo'[c] = StillOpen /\ ToSet(StillOpen) \subseteq Subscribers
    BY StillOpenType, Elements DEF PublishLock, TypeInv
  <1> QED BY <1>1, <1>4, <1>5, <1>6, <1>7 DEF OrderInv

LEMMA OrderPush ==
    ASSUME TypeInv, WriteInv, TableInv, OrderInv, NEW c \in Calls, PublishPush(c)
    PROVE  OrderInv'
  <1>1. PICK s \in Subscribers, t \in Seq(Subscribers) : PushTurn(c, s, t)
    BY PushStep
  <1>2. /\ wpc[c] = "push" /\ todo[c] # <<>> /\ s = Head(todo[c]) /\ t = Tail(todo[c])
        /\ ToSet(todo[c]) = {s} \cup ToSet(t) /\ todo' = [todo EXCEPT ![c] = t]
        /\ UNCHANGED <<log, cache, wpc, sample, taken>> /\ todo[c] \in Seq(Subscribers)
    BY <1>1 DEF PushTurn, TopicVars, TypeInv
  <1>3. PICK x \in AnySample : x = sample[c]
    BY <1>2 DEF TypeInv
  <1>4. /\ log \in Seq(AnySample) /\ log # <<>> /\ x = log[Len(log)] /\ x \in ToSet(log)
    <2>1. log \in Seq(AnySample) /\ log # <<>> /\ x = log[Len(log)]
      BY <1>2, <1>3 DEF TypeInv, WriteInv
    <2>2. ToSet(log) = {log[i] : i \in 1..Len(log)} /\ Len(log) \in Nat /\ Len(log) # 0
      BY <2>1, Elements
    <2> QED BY <2>1, <2>2
  <1>5. PICK q \in Seq(AnySample) : q = queue[s]
    BY DEF TypeInv
  <1>6. /\ Sorted(q, log) /\ Sorted(taken[s], log)
        /\ \A y \in ToSet(taken[s]), z \in ToSet(q) : Earlier(y, z, log)
        /\ x \notin ToSet(taken[s]) \cup ToSet(q)
    BY <1>2, <1>3, <1>5 DEF OrderInv, OrderOf
  <1>7. \A y \in ToSet(taken[s]) \cup ToSet(q) : Earlier(y, x, log)
    BY <1>4, <1>6, LastIsLatest DEF Sorted
  <1>8. /\ Sorted(Pushed(q, x), log) /\ ToSet(Pushed(q, x)) \subseteq ToSet(q) \cup {x}
    BY <1>4, <1>6, <1>7, SortedPushed, PushedElements
  <1>9. /\ queue'[s] = q \/ queue'[s] = Pushed(q, x)
        /\ \A r \in Subscribers : r # s => queue'[r] = queue[r]
    BY <1>1, <1>3, <1>5 DEF PushTurn, TypeInv
  <1>10. ASSUME NEW r \in Subscribers PROVE OrderOf(r)'
    <2>1. CASE r = s
      BY <1>2, <1>6, <1>7, <1>8, <1>9, <2>1 DEF OrderOf
    <2>2. CASE r # s
      BY <1>2, <1>9, <2>2 DEF OrderInv, OrderOf
    <2> QED BY <2>1, <2>2
  <1>11. ASSUME NEW d \in Calls, wpc[d] = "push", NEW r \in ToSet(todo'[d])
         PROVE  sample[d] \notin ToSet(taken[r]) \cup ToSet(queue'[r])
    <2>1. d = c /\ todo'[d] = t
      BY <1>2, <1>11 DEF WriteInv, TypeInv
    <2>2. s \notin ToSet(t) /\ r \in ToSet(todo[c])
      BY <1>2, <1>11, <2>1, DistinctTail DEF TableInv
    <2>3. r # s /\ r \in Subscribers
      BY <1>2, <1>11, <2>1, <2>2, Elements
    <2> QED BY <1>2, <1>9, <2>1, <2>2, <2>3 DEF OrderInv
  <1> QED BY <1>2, <1>10, <1>11 DEF OrderInv

LEMMA OrderReceive ==
    ASSUME TypeInv, TableInv, OrderInv, NEW s \in Subscribers, Receive(s) PROVE OrderInv'
  <1>1. PICK q \in Seq(AnySample) : q = queue[s] /\ q # <<>>
    BY DEF Receive, TypeInv
  <1>2. PICK x \in AnySample, t \in Seq(AnySample) :
            /\ x = Head(q) /\ t = Tail(q) /\ ToSet(q) = {x} \cup ToSet(t)
    <2>1. /\ Head(q) \in AnySample /\ Tail(q) \in Seq(AnySample)
          /\ ToSet(q) = {Head(q)} \cup ToSet(Tail(q))
      <3>1. q # <<>>
        BY <1>1
      <3> QED BY <3>1, TailElements
    <2> QED BY <2>1, Zenon
  <1>3. /\ queue' = [queue EXCEPT ![s] = t] /\ taken' = [taken EXCEPT ![s] = Append(taken[s], x)]
        /\ UNCHANGED <<log, cache, wpc, sample, todo>>
    BY <1>1, <1>2 DEF Receive, TopicVars, CallVars
  <1>4. /\ queue'[s] = t /\ taken'[s] = Append(taken[s], x) /\ taken[s] \in Seq(AnySample)
        /\ \A r \in Subscribers : r # s => queue'[r] = queue[r] /\ taken'[r] = taken[r]
    BY <1>3 DEF TypeInv
  <1>5. ToSet(taken'[s]) = ToSet(taken[s]) \cup {x}
    BY <1>4, AppendElements
  <1>6. /\ Sorted(q, log) /\ Sorted(taken[s], log)
        /\ \A y \in ToSet(taken[s]), z \in ToSet(q) : Earlier(y, z, log)
    BY <1>1 DEF OrderInv, OrderOf
  <1>7. Sorted(t, log) /\ \A z \in ToSet(t) : Earlier(x, z, log)
    BY <1>1, <1>2, <1>6, SortedTail
  <1>8. Sorted(taken'[s], log)
    <2>1. x \in ToSet(log) /\ \A y \in ToSet(taken[s]) : Earlier(y, x, log)
      BY <1>2, <1>6 DEF Sorted
    <2> QED BY <1>4, <1>6, <2>1, SortedAppend
  <1>9. ASSUME NEW r \in Subscribers PROVE OrderOf(r)'
    <2>1. CASE r = s
      BY <1>2, <1>3, <1>4, <1>5, <1>6, <1>7, <1>8, <2>1 DEF OrderOf
    <2>2. CASE r # s
      BY <1>3, <1>4, <2>2 DEF OrderInv, OrderOf
    <2> QED BY <2>1, <2>2
  <1>10. \A r \in Subscribers :
             ToSet(taken'[r]) \cup ToSet(queue'[r]) = ToSet(taken[r]) \cup ToSet(queue[r])
    BY <1>1, <1>2, <1>4, <1>5
  <1>11. \A d \in Calls : ToSet(todo[d]) \subseteq Subscribers
    BY Elements DEF TypeInv
  <1> QED BY <1>3, <1>9, <1>10, <1>11 DEF OrderInv

LEMMA OrderStep ==
    ASSUME TypeInv, WriteInv, TableInv, OrderInv, [Next]_vars PROVE OrderInv'
  <1>1. ASSUME \/ \E c \in Calls : WriteCheck(c) \/ WriteClaim(c) \/ PublishUnlock(c)
               \/ \E p \in Publishers : NewPublisher(p) \/ ClosePublisher(p)
               \/ \E s \in Subscribers : NewSubscriber(s) \/ CloseSubscriber(s)
               \/ CloseParticipant \/ CloseSweep \/ UNCHANGED vars
        PROVE  OrderInv'
    <2>1. /\ UNCHANGED <<log, cache, todo, queue, taken>>
          /\ \A c \in Calls : wpc'[c] = "push" => wpc[c] = "push" /\ sample'[c] = sample[c]
      BY <1>1, IdleSteps
    <2> QED BY <2>1 DEF OrderInv, OrderOf
  <1>2. ASSUME NEW s \in Subscribers, Subscribe(s) PROVE OrderInv'
    <2>1. /\ spc[s] # "open" /\ holder = Free /\ UNCHANGED <<log, cache, wpc, sample, todo, taken>>
          /\ queue' = [queue EXCEPT ![s] = Replay(s)]
      BY <1>2 DEF Subscribe, CallVars
    <2>2. /\ queue'[s] = Replay(s) /\ \A q \in Subscribers : q # s => queue'[q] = queue[q]
      BY <2>1 DEF TypeInv
    <2>3. ToSet(taken[s]) = {} /\ Sorted(Replay(s), log)
      BY <2>1, Nowhere, ReplayType DEF TableInv
    <2>4. \A d \in Calls : wpc[d] # "push"
      BY <2>1, CallsAssumption DEF WriteInv, Free
    <2>5. ASSUME NEW q \in Subscribers PROVE OrderOf(q)'
      <3>1. CASE q = s
        BY <2>1, <2>2, <2>3, <3>1 DEF OrderInv, OrderOf
      <3>2. CASE q # s
        BY <2>1, <2>2, <3>2 DEF OrderInv, OrderOf
      <3> QED BY <3>1, <3>2
    <2> QED BY <2>1, <2>4, <2>5 DEF OrderInv
  <1> QED BY <1>1, <1>2, OrderLock, OrderPush, OrderReceive DEF Next, Write

BrokerInv == TypeInv /\ WriteInv /\ TableInv /\ OrderInv

LEMMA BrokerAlways == Spec => []BrokerInv
  <1>1. Init => BrokerInv
    BY TypeInit, OrderInit DEF BrokerInv
  <1>2. BrokerInv /\ [Next]_vars => BrokerInv'
    BY TypeStep, WriteStep, TableStep, OrderStep DEF BrokerInv
  <1> QED BY <1>1, <1>2, PTL DEF Spec

\* What a subscriber received and what it has queued, end to end.
LEMMA StreamSorted ==
    ASSUME BrokerInv, NEW s \in Subscribers, NEW i \in 1..Len(Stream(s)),
           NEW j \in 1..Len(Stream(s)), i < j
    PROVE  Earlier(Stream(s)[i], Stream(s)[j], log)
  <1>1. PICK a \in Seq(AnySample), b \in Seq(AnySample) : a = taken[s] /\ b = queue[s]
    BY DEF BrokerInv, TypeInv
  <1>2. /\ Len(a) \in Nat /\ Len(b) \in Nat /\ ToSet(a) = {a[k] : k \in 1..Len(a)}
        /\ ToSet(b) = {b[k] : k \in 1..Len(b)}
    BY Elements
  <1>3. /\ Len(a \o b) = Len(a) + Len(b)
        /\ \A k \in 1..(Len(a) + Len(b)) :
              (a \o b)[k] = IF k <= Len(a) THEN a[k] ELSE b[k - Len(a)]
    BY ConcatProperties
  <1>4. /\ Sorted(a, log) /\ Sorted(b, log)
        /\ \A x \in ToSet(a), y \in ToSet(b) : Earlier(x, y, log)
    BY <1>1 DEF BrokerInv, OrderInv, OrderOf
  <1>5. Stream(s) = a \o b /\ i \in 1..(Len(a) + Len(b)) /\ j \in 1..(Len(a) + Len(b))
    BY <1>1, <1>3 DEF Stream
  <1>6. CASE j <= Len(a)
    <2>1. i \in 1..Len(a) /\ j \in 1..Len(a) /\ (a \o b)[i] = a[i] /\ (a \o b)[j] = a[j]
      BY <1>2, <1>3, <1>5, <1>6
    <2>2. Earlier(a[i], a[j], log)
      BY <1>4, <2>1 DEF Sorted
    <2> QED BY <1>5, <2>1, <2>2
  <1>7. CASE i <= Len(a) /\ ~(j <= Len(a))
    <2>1. /\ i \in 1..Len(a) /\ j - Len(a) \in 1..Len(b)
          /\ (a \o b)[i] = a[i] /\ (a \o b)[j] = b[j - Len(a)]
      BY <1>2, <1>3, <1>5, <1>7
    <2>2. Earlier(a[i], b[j - Len(a)], log)
      BY <1>2, <1>4, <2>1
    <2> QED BY <1>5, <2>1, <2>2
  <1>8. CASE ~(i <= Len(a))
    <2>1. /\ i - Len(a) \in 1..Len(b) /\ j - Len(a) \in 1..Len(b) /\ i - Len(a) < j - Len(a)
          /\ (a \o b)[i] = b[i - Len(a)] /\ (a \o b)[j] = b[j - Len(a)]
      BY <1>2, <1>3, <1>5, <1>8
    <2>2. Earlier(b[i - Len(a)], b[j - Len(a)], log)
      BY <1>4, <2>1 DEF Sorted
    <2> QED BY <1>5, <2>1, <2>2
  <1> QED BY <1>6, <1>7, <1>8

\* All subscribers see the samples of a topic in one order, that in which the
\* writes took the broker's mutex, and none twice: with any number of concurrent
\* writes, of subscribers that join, receive and close while a publish goes
\* through its list, under every policy and with the replay of the cache.
THEOREM DeliveriesInOneOrder == Spec => []OneOrder
  <1>1. ASSUME BrokerInv PROVE OneOrder
    <2>1. log \in Seq(AnySample) /\ Distinct(log)
      BY <1>1 DEF BrokerInv, TypeInv, WriteInv
    <2> QED BY <1>1, <2>1, StreamSorted, EarlierPosition DEF OneOrder
  <1> QED BY <1>1, BrokerAlways, PTL

-----------------------------------------------------------------------------
(* The end of a sequence                                                   *)

LEMMA PartOfAppend ==
    ASSUME NEW A, NEW l \in Seq(A), NEW x \in A
    PROVE  /\ \A m \in 1..(Len(l) + 1) :
                 /\ SubSeq(l, m, Len(l)) \in Seq(A)
                 /\ SubSeq(Append(l, x), m, Len(l) + 1) = Append(SubSeq(l, m, Len(l)), x)
           /\ \A j \in 0..Len(l) :
                 SubSeq(l, 1, j) \in Seq(A) /\ SubSeq(Append(l, x), 1, j) = SubSeq(l, 1, j)
  <1>1. PICK r \in Seq(A) : /\ r = Append(l, x) /\ r = l \o <<x>> /\ Len(r) = Len(l) + 1
                            /\ Len(l) \in Nat /\ r[Len(l) + 1] = x /\ <<x>> \in Seq(A)
    <2>1. <<x>> \in Seq(A)
      OBVIOUS
    <2>2. /\ Append(l, x) \in Seq(A) /\ Append(l, x) = l \o <<x>> /\ Len(l) \in Nat
          /\ Len(Append(l, x)) = Len(l) + 1 /\ Append(l, x)[Len(l) + 1] = x
      BY AppendProperties, LenProperties, AppendIsConcat
    <2> QED BY <2>1, <2>2, Zenon
  <1>2. \A m \in 1..(Len(l) + 1), n \in 0..Len(l) :
            SubSeq(l, m, n) \in Seq(A) /\ SubSeq(r, m, n) = SubSeq(l, m, n)
    <2> TAKE m \in 1..(Len(l) + 1), n \in 0..Len(l)
    <2>1. m \in Int /\ n \in Int /\ Len(l) \in Nat
      BY <1>1
    <2>2. CASE n < m
      <3>1. SubSeq(r, m, n) = <<>> /\ SubSeq(l, m, n) = <<>> /\ <<>> \in Seq(A)
        BY <2>1, <2>2, SubSeqEmpty, EmptySeq
      <3> QED BY <3>1
    <2>3. CASE ~(n < m)
      <3>1. m \in 1..Len(l) /\ n \in 1..Len(l) /\ m..n \subseteq 1..Len(l)
        BY <2>1, <2>3
      <3>2. \A i \in m..n : l[i] \in A
        BY <3>1, ElementOfSeq
      <3>3. SubSeq(l, m, n) \in Seq(A)
        BY <2>1, <3>2, SubSeqProperties
      <3>4. SubSeq(l \o <<x>>, m, n) = SubSeq(l, m, n)
        BY <1>1, <3>1, SubSeqOfConcat1
      <3> QED BY <1>1, <3>3, <3>4
    <2> QED BY <2>2, <2>3
  <1>3. ASSUME NEW m \in 1..(Len(l) + 1)
        PROVE  SubSeq(r, m, Len(l) + 1) = Append(SubSeq(l, m, Len(l)), x)
    <2>1. m \in 1..Len(r) /\ Len(l) + 1 \in m..Len(r) /\ (Len(l) + 1) - 1 = Len(l) /\ Len(l) \in 0..Len(l)
      BY <1>1
    <2>2. SubSeq(r, m, Len(l) + 1) = SubSeq(r, m, (Len(l) + 1) - 1) \o <<r[Len(l) + 1]>>
      BY <2>1, SubSeqRecursiveSecond
    <2>3. SubSeq(r, m, Len(l)) = SubSeq(l, m, Len(l)) /\ SubSeq(l, m, Len(l)) \in Seq(A)
      BY <1>2, <2>1
    <2>4. Append(SubSeq(l, m, Len(l)), x) = SubSeq(l, m, Len(l)) \o <<x>>
      BY <2>3, AppendIsConcat
    <2> QED BY <1>1, <2>1, <2>2, <2>3, <2>4
  <1>4. 1 \in 1..(Len(l) + 1) /\ Len(l) \in 0..Len(l)
    BY <1>1
  <1> QED BY <1>1, <1>2, <1>3, <1>4

LEMMA ConcatAppend ==
    ASSUME NEW A, NEW a \in Seq(A), NEW b \in Seq(A), NEW x \in A
    PROVE  a \o Append(b, x) = Append(a \o b, x)
  <1>1. <<x>> \in Seq(A) /\ a \o b \in Seq(A)
    BY ConcatProperties
  <1>2. Append(b, x) = b \o <<x>> /\ Append(a \o b, x) = (a \o b) \o <<x>>
    BY <1>1, AppendIsConcat
  <1> QED BY <1>1, <1>2, ConcatAssociative

\* What the application takes from the queue stays in the stream.
LEMMA TakeFromQueue ==
    ASSUME NEW A, NEW a \in Seq(A), NEW q \in Seq(A), q # <<>>
    PROVE  Append(a, Head(q)) \o Tail(q) = a \o q
  <1>1. PICK x \in A, t \in Seq(A) : x = Head(q) /\ t = Tail(q) /\ Len(q) \in Nat \ {0}
    <2>1. Head(q) \in A /\ Tail(q) \in Seq(A) /\ Len(q) \in Nat \ {0}
      BY TailElements
    <2> QED BY <2>1, Zenon
  <1>2. q = <<x>> \o t
    <2>1. 1 \in 1..Len(q) /\ Len(q) \in 1..Len(q) /\ 1 + 1 = 2
      BY <1>1
    <2>2. SubSeq(q, 1, Len(q)) = <<q[1]>> \o SubSeq(q, 1 + 1, Len(q))
      BY <2>1, SubSeqRecursiveFirst
    <2>3. SubSeq(q, 1, Len(q)) = q /\ t = SubSeq(q, 2, Len(q)) /\ x = q[1]
      BY <1>1, SubSeqFull, TailIsSubSeq, TailElements
    <2> QED BY <2>1, <2>2, <2>3
  <1>3. Append(a, x) = a \o <<x>> /\ <<x>> \in Seq(A)
    BY AppendIsConcat
  <1> QED BY <1>1, <1>2, <1>3, ConcatAssociative

LEMMA LastOfEnd ==
    ASSUME NEW A, NEW q \in Seq(A), NEW n \in Nat
    PROVE  /\ LastOf(q, n) \in Seq(A) /\ Len(LastOf(q, n)) <= n /\ Len(LastOf(q, n)) \in Nat
           /\ Len(q) <= n => LastOf(q, n) = q
           /\ Len(q) >= n => /\ LastOf(q, n) = SubSeq(q, Len(q) - n + 1, Len(q))
                             /\ Len(LastOf(q, n)) = n
  <1>1. PICK k \in Nat : k = Len(q)
    BY Elements
  <1> DEFINE D == {1, k - n + 1}
  <1>2. \E x \in D : \A y \in D : x >= y
    <2>1. 1 >= k - n + 1 \/ k - n + 1 >= 1
      OBVIOUS
    <2> QED BY <2>1
  <1>3. PICK m : m = Max(D) /\ m \in D /\ \A y \in D : m >= y
    <2> HIDE DEF D
    <2> QED BY <1>2, Zenon DEF Max
  <1>4. m \in Int /\ m >= 1 /\ m >= k - n + 1 /\ (m = 1 \/ m = k - n + 1)
    BY <1>3
  <1>5. LastOf(q, n) = SubSeq(q, m, k)
    BY <1>1, <1>3 DEF LastOf
  <1>6. \A i \in m..k : q[i] \in A
    <2>1. m..k \subseteq 1..k
      BY <1>4
    <2> QED BY <1>1, <2>1, ElementOfSeq
  <1> HIDE DEF D
  <1>7. /\ SubSeq(q, m, k) \in Seq(A)
        /\ Len(SubSeq(q, m, k)) = IF m <= k THEN k - m + 1 ELSE 0
    BY <1>4, <1>6, SubSeqProperties
  <1>8. Len(SubSeq(q, m, k)) <= n /\ Len(SubSeq(q, m, k)) \in Nat
    BY <1>4, <1>7
  <1>9. ASSUME k <= n PROVE SubSeq(q, m, k) = q
    <2>1. m = 1
      BY <1>4, <1>9
    <2> QED BY <1>1, <2>1, SubSeqFull
  <1>10. ASSUME k >= n PROVE m = k - n + 1 /\ Len(SubSeq(q, m, k)) = n
    <2>1. m = k - n + 1
      BY <1>4, <1>10
    <2> QED BY <1>4, <1>7, <2>1
  <1> QED BY <1>1, <1>5, <1>7, <1>8, <1>9, <1>10

\* push_to_cache keeps the last d samples.
LEMMA CachedLast ==
    ASSUME NEW A, NEW q \in Seq(A), NEW x \in A, NEW d \in Nat \ {0}, cache = LastOf(q, d)
    PROVE  Cached(d, x) = LastOf(Append(q, x), d)
  <1>1. PICK k \in Nat, r \in Seq(A) :
            k = Len(q) /\ r = Append(q, x) /\ Len(r) = k + 1
    <2>1. Len(q) \in Nat /\ Append(q, x) \in Seq(A) /\ Len(Append(q, x)) = Len(q) + 1
      BY AppendElements, Elements
    <2> QED BY <2>1, Zenon
  <1> DEFINE End(p) == /\ Len(p) <= d => LastOf(p, d) = p
                       /\ Len(p) >= d => /\ LastOf(p, d) = SubSeq(p, Len(p) - d + 1, Len(p))
                                         /\ Len(LastOf(p, d)) = d
  <1>e. End(q) /\ End(r)
    <2>1. d \in Nat
      OBVIOUS
    <2> QED BY <2>1, LastOfEnd
  <1>2. CASE k < d
    <2>1. LastOf(q, d) = q
      BY <1>1, <1>2, <1>e
    <2>2. LastOf(r, d) = r
      BY <1>1, <1>2, <1>e
    <2> QED BY <1>1, <1>2, <2>1, <2>2 DEF Cached
  <1>3. CASE ~(k < d)
    <2>1. LastOf(q, d) = SubSeq(q, k - d + 1, k) /\ Len(LastOf(q, d)) = d
      BY <1>1, <1>3, <1>e
    <2>2. PICK m \in Int : m = (k - d + 1) + 1
      BY <1>1
    <2>3. /\ k - d + 1 \in 1..k /\ k \in (k - d + 1)..k /\ k + 1 >= d
          /\ (k + 1) - d + 1 = m /\ m \in 1..(k + 1)
      BY <1>1, <1>3, <2>2
    <2>4. LastOf(r, d) = SubSeq(r, Len(r) - d + 1, Len(r))
      <3>1. Len(r) >= d
        BY <1>1, <2>3
      <3> QED BY <1>e, <3>1, Zenon
    <2>5. Tail(SubSeq(q, k - d + 1, k)) = SubSeq(q, (k - d + 1) + 1, k)
      BY <1>1, <2>3, HeadTailOfSubSeq
    <2>6. SubSeq(Append(q, x), m, Len(q) + 1) = Append(SubSeq(q, m, Len(q)), x)
      <3>1. m \in 1..(Len(q) + 1)
        BY <1>1, <2>3
      <3>2. \A i \in 1..(Len(q) + 1) :
                SubSeq(Append(q, x), i, Len(q) + 1) = Append(SubSeq(q, i, Len(q)), x)
        BY PartOfAppend
      <3> HIDE DEF End
      <3> QED BY <3>1, <3>2
    <2>7. Cached(d, x) = Append(Tail(cache), x)
      <3>1. Len(cache) >= d
        BY <2>1
      <3> QED BY <3>1, Zenon DEF Cached
    <2>8. LastOf(r, d) = Append(SubSeq(q, m, k), x)
      BY <1>1, <2>3, <2>4, <2>6
    <2> QED BY <1>1, <2>1, <2>2, <2>5, <2>7, <2>8
  <1> QED BY <1>2, <1>3

\* A cache that fits into the queue is replayed whole.
LEMMA ReplayWhole ==
    ASSUME NEW A, NEW q \in Seq(A), Len(q) <= Capacity
    PROVE  FoldLeft(Pushed, <<>>, q) = q
  <1>1. PICK g \in [0..Len(q) -> Seq(A)] : PushRuns(g, q)
    BY ReplayRun
  <1>2. Len(q) \in Nat /\ \A i \in 1..Len(q) : q[i] \in A
    BY Elements, ElementOfSeq
  <1> DEFINE T == {k \in 0..Len(q) : Len(g[k]) = k /\ \A i \in 1..k : g[k][i] = q[i]}
  <1>3. 0 \in T
    BY <1>1, <1>2, EmptySeq DEF PushRuns
  <1>4. ASSUME NEW k \in 0..Len(q), k < Len(q), k \in T PROVE k + 1 \in T
    <2>1. k + 1 \in 1..Len(q) /\ k + 1 \in 0..Len(q) /\ (k + 1) - 1 = k /\ q[k + 1] \in A
      BY <1>2, <1>4
    <2>2. PICK a \in Seq(A), x \in A : a = g[k] /\ x = q[k + 1] /\ g[k + 1] = Pushed(a, x)
      <3>1. g[k] \in Seq(A) /\ g[k + 1] = Pushed(g[k], q[k + 1])
        BY <1>1, <2>1 DEF PushRuns
      <3> QED BY <2>1, <3>1, Zenon
    <2>3. Len(a) = k /\ \A i \in 1..k : a[i] = q[i]
      BY <1>4, <2>2
    <2>4. g[k + 1] = Append(a, x)
      <3>1. k < Capacity
        BY <1>2, <1>4, CapacityAssumption
      <3> QED BY <2>2, <2>3, <3>1 DEF Pushed
    <2>5. /\ Len(Append(a, x)) = Len(a) + 1
          /\ \A i \in 1..(Len(a) + 1) : Append(a, x)[i] = IF i = Len(a) + 1 THEN x ELSE a[i]
      BY AppendElements
    <2>6. \A i \in 1..(k + 1) : g[k + 1][i] = q[i]
      BY <1>2, <2>2, <2>3, <2>4, <2>5
    <2> QED BY <2>1, <2>3, <2>4, <2>5, <2>6
  <1>5. Len(q) \in T /\ Len(q) \in 0..Len(q)
    <2> HIDE DEF T
    <2>1. \A k \in 0..Len(q) : k \in T
      BY <1>2, <1>3, <1>4, CountUp
    <2> QED BY <1>2, <2>1
  <1>6. PICK f \in Seq(A) : f = g[Len(q)] /\ Len(f) = Len(q) /\ \A i \in 1..Len(q) : f[i] = q[i]
    <2>1. g[Len(q)] \in Seq(A)
      BY <1>5
    <2> QED BY <1>5, <2>1
  <1>7. f = q
    BY <1>6, SeqEqual
  <1> QED BY <1>1, <1>6, <1>7 DEF PushRuns

-----------------------------------------------------------------------------
(* Joining a topic that is being written to                                *)

\* No sample has been refused, and no queue gives one up for another.
Lossless == drops = 0 /\ depth <= Capacity /\ Policy # "DropOldest"

\* Call c has not come to subscriber s yet.
Pending(c, s) == wpc[c] = "push" /\ s \in ToSet(todo[c])

\* A subscriber has all it should have, but for the sample that is being pushed.
GivenAll(s) ==
    /\ \A c \in Calls : Pending(c, s) => Expected(s) = Append(Stream(s), sample[c])
    /\ (\A c \in Calls : ~Pending(c, s)) => Expected(s) = Stream(s)

\* The cache is the end of what TransientLocal publishers have written.
GapInv ==
    /\ depth = 0 => log = <<>> /\ cache = <<>> /\ Opened = {}
    /\ depth # 0 => cache = LastOf(Only(log, DurableSamples), depth)
    /\ \A s \in Opened : joined[s] <= Len(log)
    /\ Lossless => \A s \in Opened : ~subClosed[s] => GivenAll(s)

LEMMA GapInit == ASSUME Init PROVE GapInv
  BY DEF Init, GapInv, Opened

\* That is so for the depth that the next endpoint finds, too.
LEMMA CacheIsEnd ==
    ASSUME TypeInv, GapInv, NEW e \in Endpoints
    PROVE  /\ Only(log, DurableSamples) \in Seq(AnySample)
           /\ cache = LastOf(Only(log, DurableSamples), TopicDepth(e))
  <1>1. PICK q \in Seq(AnySample) : q = Only(log, DurableSamples)
    BY OnlyElements DEF TypeInv
  <1>2. PICK d \in Nat \ {0} : d = TopicDepth(e) /\ (depth # 0 => d = depth)
    BY TopicDepthType DEF TypeInv
  <1>3. CASE depth # 0
    BY <1>1, <1>2, <1>3 DEF GapInv
  <1>4. CASE depth = 0
    <2>1. q = <<>> /\ cache = <<>>
      BY <1>1, <1>4, OnlyEmpty DEF GapInv
    <2>2. Len(q) <= d /\ d \in Nat
      BY <2>1
    <2>3. LastOf(q, d) = q
      BY <2>2, LastOfEnd
    <2> QED BY <1>1, <1>2, <2>1, <2>3
  <1> QED BY <1>3, <1>4

LEMMA ExpectedType ==
    ASSUME TypeInv, NEW s \in Subscribers, joined[s] <= Len(log)
    PROVE  Expected(s) \in Seq(AnySample) /\ Stream(s) \in Seq(AnySample)
  <1>1. /\ log \in Seq(AnySample) /\ Len(log) \in Nat /\ joined[s] \in 0..Len(log) /\ depth \in Nat
        /\ joined[s] + 1 \in 1..(Len(log) + 1)
    BY Elements DEF TypeInv
  <1>2. Stream(s) \in Seq(AnySample)
    BY ConcatProperties DEF TypeInv, Stream
  <1>3. /\ SubSeq(log, 1, joined[s]) \in Seq(AnySample)
        /\ SubSeq(log, joined[s] + 1, Len(log)) \in Seq(AnySample)
    <2>1. \A i \in 1..Len(log) : log[i] \in AnySample
      BY <1>1, ElementOfSeq
    <2>2. \A i \in 1..joined[s] : log[i] \in AnySample
      BY <1>1, <2>1
    <2>3. \A i \in (joined[s] + 1)..Len(log) : log[i] \in AnySample
      BY <1>1, <2>1
    <2>4. 1 \in Int /\ joined[s] \in Int /\ joined[s] + 1 \in Int /\ Len(log) \in Int
      BY <1>1
    <2> QED BY <2>2, <2>3, <2>4, SubSeqProperties
  <1>4. PICK b \in Seq(AnySample), a \in Seq(AnySample) :
            /\ b = LastOf(Only(SubSeq(log, 1, joined[s]), DurableSamples), depth)
            /\ a = SubSeq(log, joined[s] + 1, Len(log))
    <2>1. Only(SubSeq(log, 1, joined[s]), DurableSamples) \in Seq(AnySample)
      BY <1>3, OnlyElements
    <2>2. LastOf(Only(SubSeq(log, 1, joined[s]), DurableSamples), depth) \in Seq(AnySample)
      BY <1>1, <2>1, LastOfEnd
    <2> QED BY <1>3, <2>2, Zenon
  <1>5. b \o a \in Seq(AnySample)
    BY ConcatProperties
  <1> QED BY <1>2, <1>4, <1>5 DEF Expected

\* A sample that is published is one more that a subscriber should get.
LEMMA ExpectedGrows ==
    ASSUME TypeInv, NEW s \in Subscribers, joined[s] <= Len(log), NEW x \in AnySample,
           log' = Append(log, x), depth' = depth, joined' = joined
    PROVE  Expected(s)' = Append(Expected(s), x)
  <1>1. /\ log \in Seq(AnySample) /\ Len(log) \in Nat /\ joined[s] \in 0..Len(log) /\ depth \in Nat
        /\ joined[s] + 1 \in 1..(Len(log) + 1)
    BY Elements DEF TypeInv
  <1>2. PICK a \in Seq(AnySample), r \in Seq(AnySample) :
            /\ a = SubSeq(log, joined[s] + 1, Len(log)) /\ r = SubSeq(log, 1, joined[s])
            /\ SubSeq(Append(log, x), 1, joined[s]) = r
            /\ SubSeq(Append(log, x), joined[s] + 1, Len(log) + 1) = Append(a, x)
    <2>1. /\ SubSeq(log, joined[s] + 1, Len(log)) \in Seq(AnySample)
          /\ SubSeq(log, 1, joined[s]) \in Seq(AnySample)
          /\ SubSeq(Append(log, x), 1, joined[s]) = SubSeq(log, 1, joined[s])
          /\ SubSeq(Append(log, x), joined[s] + 1, Len(log) + 1)
                = Append(SubSeq(log, joined[s] + 1, Len(log)), x)
      BY <1>1, PartOfAppend, Zenon
    <2> QED BY <2>1, Zenon
  <1>3. PICK b \in Seq(AnySample) : b = LastOf(Only(r, DurableSamples), depth)
    <2>1. Only(r, DurableSamples) \in Seq(AnySample)
      BY OnlyElements
    <2> QED BY <1>1, <2>1, LastOfEnd
  <1>4. Expected(s) = IF s \in Durable THEN b \o a ELSE a
    BY <1>2, <1>3, Zenon DEF Expected
  <1>5. Len(Append(log, x)) = Len(log) + 1
    BY <1>1, AppendElements
  <1>6. Expected(s)' = IF s \in Durable THEN b \o Append(a, x) ELSE Append(a, x)
    BY <1>2, <1>3, <1>5, Zenon DEF Expected
  <1>7. b \o Append(a, x) = Append(b \o a, x)
    BY ConcatAppend
  <1> QED BY <1>4, <1>6, <1>7

\* When it joins, a subscriber should have what the cache holds.
LEMMA ExpectedAtJoin ==
    ASSUME TypeInv, NEW s \in Subscribers, NEW d \in Nat,
           log' = log, depth' = d, joined'[s] = Len(log), cache = LastOf(Only(log, DurableSamples), d)
    PROVE  Expected(s)' = IF s \in Durable THEN cache ELSE <<>>
  <1>1. log \in Seq(AnySample) /\ Len(log) \in Nat /\ cache \in Seq(AnySample)
    BY Elements DEF TypeInv
  <1>2. SubSeq(log, 1, Len(log)) = log
    BY <1>1, SubSeqFull
  <1>3. SubSeq(log, Len(log) + 1, Len(log)) = <<>>
    BY <1>1, SubSeqEmpty
  <1>4. cache \o <<>> = cache
    BY <1>1, ConcatEmptySeq
  <1> QED BY <1>2, <1>3, <1>4, Zenon DEF Expected

LEMMA GapLock ==
    ASSUME TypeInv, WriteInv, TableInv, GapInv, NEW c \in Calls, PublishLock(c) PROVE GapInv'
  <1>1. /\ wpc[c] = "lock" /\ holder = Free /\ wpc' = [wpc EXCEPT ![c] = "push"]
        /\ depth' = TopicDepth(Owner[c])
        /\ cache' = IF Owner[c] \in Durable THEN Cached(TopicDepth(Owner[c]), sample[c]) ELSE cache
        /\ todo' = [todo EXCEPT ![c] = StillOpen] /\ log' = Append(log, sample[c])
        /\ UNCHANGED <<drops, sample, spc, queue, subClosed, taken, joined>>
    BY DEF PublishLock, MetricVars, SubVars
  <1>2. PICK x \in AnySample : x = sample[c] /\ x[1] = Owner[c]
    BY <1>1 DEF TypeInv, WriteInv
  <1>3. Owner[c] \in Publishers /\ Owner[c] \in Endpoints
    BY OwnerAssumption DEF Endpoints
  <1>4. PICK d \in Nat \ {0} : d = TopicDepth(Owner[c]) /\ (depth # 0 => d = depth)
    BY <1>3, TopicDepthType DEF TypeInv
  <1>5. PICK q \in Seq(AnySample) : q = Only(log, DurableSamples) /\ cache = LastOf(q, d)
    BY <1>3, <1>4, CacheIsEnd
  <1>6. x \in DurableSamples <=> Owner[c] \in Durable
    BY <1>2, <1>3 DEF DurableSamples, AnySample
  <1>7. Only(Append(log, x), DurableSamples) = IF x \in DurableSamples THEN Append(q, x) ELSE q
    BY <1>5, OnlyAppend DEF TypeInv
  <1>8. cache' = LastOf(Only(log', DurableSamples), depth')
    <2>1. Cached(d, x) = LastOf(Append(q, x), d)
      BY <1>5, CachedLast
    <2> QED BY <1>1, <1>2, <1>4, <1>5, <1>6, <1>7, <2>1
  <1>9. Opened' = Opened /\ depth' # 0
    BY <1>1, <1>4 DEF Opened
  <1>10. \A s \in Opened : joined'[s] <= Len(log')
    <2>1. Len(log') = Len(log) + 1 /\ Len(log) \in Nat
      BY <1>1, <1>2, AppendElements, Elements DEF TypeInv
    <2>2. \A s \in Opened : joined[s] \in Nat /\ joined[s] <= Len(log)
      BY DEF GapInv, TypeInv, Opened
    <2> QED BY <1>1, <2>1, <2>2
  <1>11. ASSUME Lossless', NEW s \in Opened, ~subClosed[s] PROVE GivenAll(s)'
    <2>1. depth' = depth /\ s \in Subscribers
      BY <1>1, <1>4, <1>11 DEF GapInv, Opened
    <2>2. Lossless
      BY <1>1, <1>11, <2>1 DEF Lossless
    <2>3. \A b \in Calls : wpc[b] # "push"
      BY <1>1, CallsAssumption DEF WriteInv, Free
    <2>4. Expected(s) = Stream(s)
      BY <1>11, <2>2, <2>3 DEF GapInv, GivenAll, Pending
    <2>5. Expected(s)' = Append(Expected(s), x)
      BY <1>1, <1>2, <2>1, ExpectedGrows DEF GapInv
    <2>6. Stream(s)' = Stream(s)
      BY <1>1 DEF Stream
    <2>7. \A b \in Calls : Pending(b, s)' => b = c
      BY <1>1, <2>3 DEF Pending, TypeInv
    <2>8. Pending(c, s)'
      <3>1. s \in ToSet(StillOpen)
        BY <1>11, <2>1, StillOpenType DEF TableInv
      <3>2. wpc'[c] = "push" /\ todo'[c] = StillOpen
        BY <1>1 DEF TypeInv
      <3> QED BY <3>1, <3>2 DEF Pending
    <2> QED BY <1>1, <1>2, <2>4, <2>5, <2>6, <2>7, <2>8 DEF GivenAll
  <1> QED BY <1>1, <1>8, <1>9, <1>10, <1>11 DEF GapInv

LEMMA GapPush ==
    ASSUME TypeInv, WriteInv, TableInv, GapInv, NEW c \in Calls, PublishPush(c) PROVE GapInv'
  <1>1. PICK s \in Subscribers, t \in Seq(Subscribers) : PushTurn(c, s, t)
    BY PushStep
  <1>2. /\ wpc[c] = "push" /\ todo[c] # <<>> /\ s = Head(todo[c]) /\ t = Tail(todo[c])
        /\ ToSet(todo[c]) = {s} \cup ToSet(t) /\ todo' = [todo EXCEPT ![c] = t]
        /\ UNCHANGED <<log, cache, depth, wpc, sample, spc, subClosed, taken, joined>>
    BY <1>1 DEF PushTurn, TopicVars
  <1>3. PICK q \in Seq(AnySample), x \in AnySample : q = queue[s] /\ x = sample[c]
    BY <1>2 DEF TypeInv
  <1>4. s \notin ToSet(t) /\ \A b \in Calls : todo'[b] = IF b = c THEN t ELSE todo[b]
    <2>1. todo[c] \in Seq(Subscribers) /\ Distinct(todo[c])
      BY <1>2 DEF TypeInv, TableInv
    <2>2. s \notin ToSet(t)
      BY <1>2, <2>1, DistinctTail
    <2> QED BY <1>2, <2>2 DEF TypeInv
  <1>5. \A b \in Calls : wpc[b] = "push" => b = c
    BY <1>2 DEF WriteInv
  <1>6. Opened' = Opened /\ \A r \in Subscribers : Expected(r)' = Expected(r)
    BY <1>2 DEF Opened, Expected
  <1>7. ASSUME Lossless', NEW r \in Opened, ~subClosed[r] PROVE GivenAll(r)'
    <2>1. /\ drops' = drops /\ Lossless /\ Accepts(q)
          /\ queue' = [queue EXCEPT ![s] = Pushed(q, x)]
      <3>1. drops' = 0 /\ drops \in Nat /\ depth' <= Capacity /\ Policy # "DropOldest"
        BY <1>7 DEF Lossless, TypeInv
      <3>2. drops' # drops + 1
        BY <3>1
      <3> QED BY <1>1, <1>2, <1>3, <3>1, <3>2 DEF PushTurn, Lossless
    <2>2. GivenAll(r) /\ r \in Subscribers
      BY <1>7, <2>1 DEF GapInv, Opened
    <2>3. CASE r = s
      <3>1. Pushed(q, x) = Append(q, x)
        BY <2>1 DEF Accepts, Pushed, Lossless
      <3>2. queue'[s] = Append(q, x)
        BY <2>1, <3>1 DEF TypeInv
      <3>3. taken[s] \in Seq(AnySample) /\ taken[s] \o Append(q, x) = Append(taken[s] \o q, x)
        BY ConcatAppend DEF TypeInv
      <3>4. Stream(s)' = Append(Stream(s), x)
        BY <1>2, <1>3, <3>2, <3>3 DEF Stream
      <3>5. Pending(c, s) /\ \A b \in Calls : ~Pending(b, s)'
        BY <1>2, <1>4, <1>5 DEF Pending
      <3> QED BY <1>3, <1>6, <2>2, <2>3, <3>4, <3>5 DEF GivenAll
    <2>4. CASE r # s
      <3>1. queue'[r] = queue[r]
        BY <2>1, <2>2, <2>4 DEF TypeInv
      <3>2. Stream(r)' = Stream(r)
        BY <1>2, <3>1 DEF Stream
      <3>3. \A b \in Calls : Pending(b, r)' <=> Pending(b, r)
        BY <1>2, <1>4, <2>4 DEF Pending
      <3> QED BY <1>2, <1>6, <2>2, <3>2, <3>3 DEF GivenAll
    <2> QED BY <2>3, <2>4
  <1> QED BY <1>2, <1>6, <1>7 DEF GapInv

LEMMA GapSubscribe ==
    ASSUME TypeInv, WriteInv, TableInv, GapInv, NEW s \in Subscribers, Subscribe(s) PROVE GapInv'
  <1>1. /\ spc[s] = "joining" /\ holder = Free /\ depth' = TopicDepth(s)
        /\ queue' = [queue EXCEPT ![s] = Replay(s)] /\ spc' = [spc EXCEPT ![s] = "open"]
        /\ joined' = [joined EXCEPT ![s] = Len(log)]
        /\ UNCHANGED <<cache, log, drops, wpc, sample, todo, subClosed, taken>>
    BY DEF Subscribe, MetricVars, CallVars
  <1>2. s \in Endpoints
    BY DEF Endpoints
  <1>3. PICK d \in Nat \ {0} : d = TopicDepth(s) /\ (depth # 0 => d = depth)
    BY <1>2, TopicDepthType DEF TypeInv
  <1>4. PICK q \in Seq(AnySample) : q = Only(log, DurableSamples) /\ cache = LastOf(q, d)
    BY <1>2, <1>3, CacheIsEnd
  <1>5. Len(cache) <= d /\ Len(cache) \in Nat
    <2>1. d \in Nat
      OBVIOUS
    <2> QED BY <1>4, <2>1, LastOfEnd
  <1>6. Opened' = Opened \cup {s} /\ s \notin Opened
    BY <1>1 DEF Opened, TypeInv
  <1>7. /\ joined'[s] = Len(log) /\ queue'[s] = Replay(s)
        /\ \A r \in Subscribers : r # s => joined'[r] = joined[r] /\ queue'[r] = queue[r]
    BY <1>1 DEF TypeInv
  <1>8. \A r \in Opened' : joined'[r] <= Len(log')
    <2>1. Len(log) \in Nat
      BY Elements DEF TypeInv
    <2>2. \A r \in Opened : joined'[r] <= Len(log)
      BY <1>6, <1>7 DEF GapInv, Opened
    <2>3. joined'[s] <= Len(log)
      BY <1>7, <2>1
    <2> QED BY <1>1, <1>6, <2>2, <2>3
  <1>9. \A b \in Calls, r \in Subscribers : ~Pending(b, r) /\ ~Pending(b, r)'
    BY <1>1, CallsAssumption DEF WriteInv, Free, Pending
  <1>10. ASSUME Lossless', NEW r \in Opened, ~subClosed[r] PROVE GivenAll(r)'
    <2>1. depth' = depth /\ r \in Subscribers /\ r # s
      BY <1>1, <1>3, <1>6, <1>10 DEF GapInv, Opened
    <2>2. Lossless
      BY <1>1, <1>10, <2>1 DEF Lossless
    <2>3. Expected(r) = Stream(r)
      BY <1>9, <1>10, <2>1, <2>2 DEF GapInv, GivenAll
    <2>4. Expected(r)' = Expected(r)
      BY <1>1, <1>7, <2>1 DEF Expected
    <2>5. Stream(r)' = Stream(r)
      BY <1>1, <1>7, <2>1 DEF Stream
    <2> QED BY <1>9, <2>1, <2>3, <2>4, <2>5 DEF GivenAll
  <1>11. ASSUME Lossless' PROVE GivenAll(s)'
    <2>1. Len(cache) <= Capacity
      <3>1. depth' = d /\ depth' <= Capacity
        BY <1>1, <1>3, <1>11 DEF Lossless
      <3> QED BY <1>5, <3>1, CapacityAssumption
    <2>2. Replay(s) = IF s \in Durable THEN cache ELSE <<>>
      BY <2>1, ReplayWhole DEF Replay, TypeInv
    <2>3. taken[s] = <<>>
      BY <1>1 DEF TableInv
    <2>4. Replay(s) \in Seq(AnySample)
      BY <2>2, EmptySeq DEF TypeInv
    <2>5. Stream(s)' = Replay(s)
      <3>1. <<>> \o Replay(s) = Replay(s)
        BY <2>4, ConcatEmptySeq
      <3> QED BY <1>1, <1>7, <2>3, <3>1 DEF Stream
    <2>6. Expected(s)' = IF s \in Durable THEN cache ELSE <<>>
      BY <1>1, <1>3, <1>4, <1>7, ExpectedAtJoin
    <2> QED BY <1>9, <2>2, <2>5, <2>6 DEF GivenAll
  <1>12. cache' = LastOf(Only(log', DurableSamples), depth') /\ depth' # 0
    BY <1>1, <1>3, <1>4
  <1> QED BY <1>1, <1>6, <1>8, <1>10, <1>11, <1>12 DEF GapInv

LEMMA GapReceive ==
    ASSUME TypeInv, GapInv, NEW s \in Subscribers, Receive(s) PROVE GapInv'
  <1>1. /\ queue[s] # <<>> /\ queue' = [queue EXCEPT ![s] = Tail(queue[s])]
        /\ taken' = [taken EXCEPT ![s] = Append(taken[s], Head(queue[s]))]
        /\ UNCHANGED <<log, cache, depth, drops, wpc, sample, todo, spc, subClosed, joined>>
    BY DEF Receive, TopicVars, MetricVars, CallVars
  <1>2. Append(taken[s], Head(queue[s])) \o Tail(queue[s]) = taken[s] \o queue[s]
    BY <1>1, TakeFromQueue DEF TypeInv
  <1>3. \A r \in Subscribers : Stream(r)' = Stream(r)
    <2>1. /\ queue'[s] = Tail(queue[s]) /\ taken'[s] = Append(taken[s], Head(queue[s]))
          /\ \A r \in Subscribers : r # s => queue'[r] = queue[r] /\ taken'[r] = taken[r]
      BY <1>1 DEF TypeInv
    <2> QED BY <1>2, <2>1 DEF Stream
  <1>4. \A r \in Subscribers : GivenAll(r)' <=> GivenAll(r)
    BY <1>1, <1>3 DEF GivenAll, Pending, Expected
  <1> QED BY <1>1, <1>4 DEF GapInv, Opened, Lossless

LEMMA GapStep ==
    ASSUME TypeInv, WriteInv, TableInv, GapInv, [Next]_vars PROVE GapInv'
  <1>1. ASSUME \/ \E c \in Calls : WriteCheck(c) \/ WriteClaim(c) \/ PublishUnlock(c)
               \/ \E p \in Publishers : NewPublisher(p) \/ ClosePublisher(p)
               \/ \E s \in Subscribers : NewSubscriber(s) \/ CloseSubscriber(s)
               \/ CloseParticipant \/ CloseSweep \/ UNCHANGED vars
        PROVE  GapInv'
    <2>1. /\ UNCHANGED <<depth, cache, log, drops, todo, queue, taken, joined>>
          /\ \A c \in Calls : wpc'[c] = "push" => wpc[c] = "push" /\ sample'[c] = sample[c]
          /\ \A s \in Subscribers : subClosed[s] => subClosed'[s]
          /\ \A s \in Subscribers : spc'[s] = "open" <=> spc[s] = "open"
      BY <1>1, IdleSteps
    <2>2. \A c \in Calls : wpc[c] = "push" => wpc'[c] = "push" \/ todo[c] = <<>>
      BY <1>1 DEF WriteCheck, WriteClaim, PublishUnlock, NewPublisher, ClosePublisher, NewSubscriber,
                  CloseSubscriber, CloseParticipant, CloseSweep, vars, CallVars, TypeInv
    <2>3. \A c \in Calls, s \in Subscribers : Pending(c, s)' <=> Pending(c, s)
      <3>1. ToSet(<<>>) = {}
        BY Nowhere
      <3> QED BY <2>1, <2>2, <3>1 DEF Pending
    <2>4. \A s \in Subscribers : Expected(s)' = Expected(s) /\ Stream(s)' = Stream(s)
      BY <2>1 DEF Expected, Stream
    <2>5. \A s \in Subscribers : GivenAll(s) => GivenAll(s)'
      BY <2>1, <2>3, <2>4 DEF GivenAll, Pending
    <2> QED BY <2>1, <2>5 DEF GapInv, Opened, Lossless
  <1> QED BY <1>1, GapLock, GapPush, GapSubscribe, GapReceive DEF Next, Write

\* Between the replay of the cache and the first live sample nothing is missing
\* and nothing repeated, wherever in the concurrent writes the subscriber joins,
\* as long as the queues take everything that is pushed.
THEOREM JoinersMissNothing == Spec => []NoGapOnJoin
  <1>1. BrokerInv /\ GapInv => NoGapOnJoin
    <2>1. ASSUME BrokerInv, GapInv, holder = Free, Lossless, NEW s \in Opened, ~subClosed[s]
          PROVE  Stream(s) = Expected(s)
      <3>1. \A c \in Calls : ~Pending(c, s)
        BY <2>1, CallsAssumption DEF BrokerInv, WriteInv, Free, Pending
      <3> QED BY <2>1, <3>1 DEF GapInv, GivenAll
    <2> QED BY <2>1 DEF NoGapOnJoin, Lossless, Opened
  <1>2. Init => GapInv
    BY GapInit
  <1>3. BrokerInv /\ GapInv /\ [Next]_vars => GapInv'
    BY GapStep DEF BrokerInv
  <1> QED BY <1>1, <1>2, <1>3, BrokerAlways, PTL DEF Spec

-----------------------------------------------------------------------------
(* What deliver_count counts                                               *)

ReplayCounts == [s \in Subscribers |-> IF spc[s] = "open" THEN Replayed(s) ELSE 0]
StreamCounts == [s \in Subscribers |-> Len(Stream(s))]

\* Every sample a subscriber was given came with its replay or has been counted.
CountInv ==
    /\ delivers \in Nat
    /\ delivers + Total(ReplayCounts, Subscribers) = Total(StreamCounts, Subscribers)

LEMMA ReplayedType ==
    ASSUME TypeInv, GapInv, NEW s \in Opened
    PROVE  Replayed(s) \in Nat
  <1>1. s \in Subscribers /\ joined[s] \in 0..Len(log) /\ log \in Seq(AnySample) /\ depth \in Nat
    BY Elements DEF TypeInv, GapInv, Opened
  <1>2. SubSeq(log, 1, joined[s]) \in Seq(AnySample)
    <2>1. \A i \in 1..joined[s] : log[i] \in AnySample
      BY <1>1, Elements, ElementOfSeq
    <2>2. 1 \in Int /\ joined[s] \in Int
      BY <1>1, Elements
    <2> QED BY <2>1, <2>2, SubSeqProperties
  <1>3. Only(SubSeq(log, 1, joined[s]), DurableSamples) \in Seq(AnySample)
    BY <1>2, OnlyElements
  <1>4. PICK n \in Nat : n = Len(Only(SubSeq(log, 1, joined[s]), DurableSamples))
    BY <1>3, Elements
  <1>5. Min({Capacity, depth, n}) \in Nat
    <2>1. {Capacity, depth, n} \subseteq Nat /\ {Capacity, depth, n} # {}
      BY <1>1, CapacityAssumption
    <2> QED BY <2>1, MinLeast
  <1> QED BY <1>4, <1>5 DEF Replayed

LEMMA CountTypes ==
    ASSUME TypeInv, GapInv
    PROVE  ReplayCounts \in [Subscribers -> Nat] /\ StreamCounts \in [Subscribers -> Nat]
  <1>1. \A s \in Subscribers : spc[s] = "open" => Replayed(s) \in Nat
    BY ReplayedType DEF Opened
  <1>2. \A s \in Subscribers : Len(Stream(s)) \in Nat
    <2> TAKE s \in Subscribers
    <2>1. Stream(s) \in Seq(AnySample)
      BY ConcatProperties DEF TypeInv, Stream
    <2> QED BY <2>1, Elements
  <1> QED BY <1>1, <1>2 DEF ReplayCounts, StreamCounts

\* The two sums of DeliveriesCounted.
LEMMA CountsAreSums ==
    ASSUME IsFiniteSet(Subscribers), TypeInv, GapInv
    PROVE  /\ MapThenSumSet(Replayed, Opened) = Total(ReplayCounts, Subscribers)
           /\ MapThenSumSet(LAMBDA s : Len(Stream(s)), Subscribers)
                 = Total(StreamCounts, Subscribers)
  <1>1. IsFiniteSet(Opened)
    BY FS_Subset DEF Opened
  <1>2. MapThenSumSet(Replayed, Opened) = Total(ReplayCounts, Subscribers)
    <2>1. PICK f \in [Opened -> Nat] : f = [s \in Opened |-> Replayed(s)]
      BY ReplayedType
    <2>2. PICK G : G = [T \in SUBSET Opened |-> Total(f, T)] /\ IsSum(G, f, Opened)
      BY <1>1, SumExists
    <2> DEFINE F == CHOOSE F : F = [T \in SUBSET Opened |-> IF T = {} THEN 0
                       ELSE Replayed(CHOOSE x \in T : TRUE) + F[T \ {CHOOSE x \in T : TRUE}]]
    <2>3. MapThenSumSet(Replayed, Opened) = F[Opened]
      BY Zenon DEF MapThenSumSet, MapThenFoldSet
    <2>4. \A T \in SUBSET Opened : T # {} =>
              f[CHOOSE x \in T : TRUE] = Replayed(CHOOSE x \in T : TRUE)
      <3> TAKE T \in SUBSET Opened
      <3> HAVE T # {}
      <3>1. (CHOOSE x \in T : TRUE) \in T
        OBVIOUS
      <3> QED BY <2>1, <3>1
    <2>5. F = [T \in SUBSET Opened |-> IF T = {} THEN 0
                  ELSE Replayed(CHOOSE x \in T : TRUE) + F[T \ {CHOOSE x \in T : TRUE}]]
      <3>1. G = [T \in SUBSET Opened |-> IF T = {} THEN 0
                  ELSE Replayed(CHOOSE x \in T : TRUE) + G[T \ {CHOOSE x \in T : TRUE}]]
        BY <2>2, <2>4 DEF IsSum
      <3> QED BY <3>1, Zenon
    <2> HIDE DEF F
    <2>6. IsSum(F, f, Opened)
      BY <2>4, <2>5 DEF IsSum
    <2>7. F[Opened] = Total(f, Opened)
      BY <1>1, <2>6, SumIsTotal
    <2>8. Units(f, Opened) = Units(ReplayCounts, Subscribers)
      BY <2>1 DEF Units, ReplayCounts, Opened
    <2> QED BY <2>3, <2>7, <2>8 DEF Total
  <1>3. MapThenSumSet(LAMBDA s : Len(Stream(s)), Subscribers) = Total(StreamCounts, Subscribers)
    <2>1. PICK f \in [Subscribers -> Nat] :
              f = StreamCounts /\ \A s \in Subscribers : f[s] = Len(Stream(s))
      BY CountTypes DEF StreamCounts
    <2>2. PICK G : G = [T \in SUBSET Subscribers |-> Total(f, T)] /\ IsSum(G, f, Subscribers)
      BY SumExists
    <2> DEFINE F == CHOOSE F : F = [T \in SUBSET Subscribers |-> IF T = {} THEN 0
                       ELSE Len(Stream(CHOOSE x \in T : TRUE)) + F[T \ {CHOOSE x \in T : TRUE}]]
    <2>3. MapThenSumSet(LAMBDA s : Len(Stream(s)), Subscribers) = F[Subscribers]
      BY Zenon DEF MapThenSumSet, MapThenFoldSet
    <2>4. \A T \in SUBSET Subscribers : T # {} =>
              f[CHOOSE x \in T : TRUE] = Len(Stream(CHOOSE x \in T : TRUE))
      <3> TAKE T \in SUBSET Subscribers
      <3> HAVE T # {}
      <3>1. (CHOOSE x \in T : TRUE) \in T
        OBVIOUS
      <3> QED BY <2>1, <3>1
    <2>5. F = [T \in SUBSET Subscribers |-> IF T = {} THEN 0
                  ELSE Len(Stream(CHOOSE x \in T : TRUE)) + F[T \ {CHOOSE x \in T : TRUE}]]
      <3>1. G = [T \in SUBSET Subscribers |-> IF T = {} THEN 0
                  ELSE Len(Stream(CHOOSE x \in T : TRUE)) + G[T \ {CHOOSE x \in T : TRUE}]]
        BY <2>2, <2>4 DEF IsSum
      <3> QED BY <3>1, Zenon
    <2> HIDE DEF F
    <2>6. IsSum(F, f, Subscribers)
      BY <2>4, <2>5 DEF IsSum
    <2>7. F[Subscribers] = Total(f, Subscribers)
      BY <2>6, SumIsTotal
    <2> QED BY <2>1, <2>3, <2>7
  <1> QED BY <1>2, <1>3

\* In the next state, too.
LEMMA CountTypesNext ==
    (TypeInv /\ GapInv => ReplayCounts \in [Subscribers -> Nat] /\ StreamCounts \in [Subscribers -> Nat])'
  <1>1. TypeInv /\ GapInv
          => ReplayCounts \in [Subscribers -> Nat] /\ StreamCounts \in [Subscribers -> Nat]
    BY CountTypes
  <1> QED BY <1>1, PTL

LEMMA CountInit == ASSUME IsFiniteSet(Subscribers), Init PROVE CountInv
  <1>1. Units(ReplayCounts, Subscribers) = {} /\ Units(StreamCounts, Subscribers) = {}
    <2>1. <<>> \o <<>> = <<>> /\ Len(<<>>) = 0
      BY Nowhere, ConcatEmptySeq
    <2>2. \A s \in Subscribers : ReplayCounts[s] = 0 /\ StreamCounts[s] = 0
      BY <2>1 DEF Init, ReplayCounts, StreamCounts, Stream
    <2>3. 1..0 = {}
      OBVIOUS
    <2> QED BY <2>2, <2>3 DEF Units
  <1> QED BY <1>1, FS_EmptySet DEF Init, CountInv, Total

\* The replay of a queue that drops the newest is the beginning of the cache.
LEMMA ReplayLength ==
    ASSUME Policy # "DropOldest", NEW A, NEW q \in Seq(A)
    PROVE  /\ FoldLeft(Pushed, <<>>, q) \in Seq(A)
           /\ Len(FoldLeft(Pushed, <<>>, q)) = IF Len(q) <= Capacity THEN Len(q) ELSE Capacity
  <1>1. PICK g \in [0..Len(q) -> Seq(A)] : PushRuns(g, q)
    BY ReplayRun
  <1>2. Len(q) \in Nat /\ (\A i \in 1..Len(q) : q[i] \in A) /\ Capacity \in Nat
    BY Elements, ElementOfSeq, CapacityAssumption
  <1> DEFINE T == {k \in 0..Len(q) : Len(g[k]) = IF k <= Capacity THEN k ELSE Capacity}
  <1>3. 0 \in T
    BY <1>1, <1>2, EmptySeq DEF PushRuns
  <1>4. ASSUME NEW k \in 0..Len(q), k < Len(q), k \in T PROVE k + 1 \in T
    <2>1. k + 1 \in 1..Len(q) /\ k + 1 \in 0..Len(q) /\ (k + 1) - 1 = k /\ q[k + 1] \in A
      BY <1>2, <1>4
    <2>2. PICK a \in Seq(A), x \in A : a = g[k] /\ x = q[k + 1] /\ g[k + 1] = Pushed(a, x)
      <3>1. g[k] \in Seq(A) /\ g[k + 1] = Pushed(g[k], q[k + 1])
        BY <1>1, <2>1 DEF PushRuns
      <3> QED BY <2>1, <3>1, Zenon
    <2>3. Len(a) = IF k <= Capacity THEN k ELSE Capacity
      BY <1>4, <2>2
    <2>4. Len(Append(a, x)) = Len(a) + 1
      BY AppendElements
    <2>5. Len(Pushed(a, x)) = IF Len(a) < Capacity THEN Len(a) + 1 ELSE Len(a)
      BY <2>4 DEF Pushed
    <2>6. Len(g[k + 1]) = IF k + 1 <= Capacity THEN k + 1 ELSE Capacity
      <3> HIDE DEF T
      <3> QED BY <1>2, <2>2, <2>3, <2>5
    <2> QED BY <2>1, <2>6
  <1>5. Len(q) \in T /\ Len(q) \in 0..Len(q)
    <2> HIDE DEF T
    <2>1. \A k \in 0..Len(q) : k \in T
      BY <1>2, <1>3, <1>4, CountUp
    <2> QED BY <1>2, <2>1
  <1> QED BY <1>1, <1>5 DEF PushRuns

\* One subscriber's part of the sum over all of them.
LEMMA SubscribersTotal ==
    ASSUME IsFiniteSet(Subscribers), NEW s \in Subscribers,
           NEW f \in [Subscribers -> Nat], NEW g \in [Subscribers -> Nat],
           \A r \in Subscribers : r # s => g[r] = f[r]
    PROVE  Total(g, Subscribers) + f[s] = Total(f, Subscribers) + g[s]
  BY TotalChange

LEMMA CountPush ==
    ASSUME IsFiniteSet(Subscribers), Policy # "DropOldest", TypeInv, TypeInv', GapInv, GapInv',
           CountInv, NEW c \in Calls, PublishPush(c)
    PROVE  CountInv'
  <1>1. PICK s \in Subscribers, t \in Seq(Subscribers) : PushTurn(c, s, t)
    BY PushStep
  <1>2. /\ wpc[c] = "push" /\ UNCHANGED <<log, depth, spc, taken, joined>>
        /\ \/ /\ queue' = [queue EXCEPT ![s] = Pushed(queue[s], sample[c])]
              /\ delivers' = delivers + 1 /\ Accepts(queue[s])
           \/ queue' = queue /\ delivers' = delivers
    BY <1>1 DEF PushTurn, TopicVars
  <1>3. ReplayCounts' = ReplayCounts
    BY <1>2 DEF ReplayCounts, Replayed
  <1>4. CASE queue' = queue /\ delivers' = delivers
    <2>1. StreamCounts' = StreamCounts
      BY <1>2, <1>4 DEF StreamCounts, Stream
    <2> QED BY <1>3, <1>4, <2>1 DEF CountInv
  <1>5. CASE /\ queue' = [queue EXCEPT ![s] = Pushed(queue[s], sample[c])]
             /\ delivers' = delivers + 1 /\ Accepts(queue[s])
    <2>1. PICK q \in Seq(AnySample), a \in Seq(AnySample), y \in AnySample :
              q = queue[s] /\ a = taken[s] /\ y = sample[c]
      BY <1>2 DEF TypeInv
    <2>2. Pushed(q, y) = Append(q, y)
      BY <1>5, <2>1 DEF Accepts, Pushed
    <2>3. Stream(s) = a \o q /\ Stream(s)' = a \o Append(q, y)
      BY <1>2, <1>5, <2>1, <2>2 DEF Stream, TypeInv
    <2>4. Len(a \o Append(q, y)) = Len(a \o q) + 1 /\ Len(a \o q) \in Nat
      BY ConcatProperties, AppendElements, Elements
    <2>5. \A r \in Subscribers : r # s => Stream(r)' = Stream(r)
      BY <1>2, <1>5 DEF Stream, TypeInv
    <2>6. PICK f \in [Subscribers -> Nat], g \in [Subscribers -> Nat] :
              /\ f = StreamCounts /\ g = StreamCounts' /\ g[s] = f[s] + 1
              /\ \A r \in Subscribers : r # s => g[r] = f[r]
      <3>1. StreamCounts \in [Subscribers -> Nat] /\ StreamCounts' \in [Subscribers -> Nat]
        BY CountTypes, CountTypesNext
      <3>2. StreamCounts'[s] = StreamCounts[s] + 1
        BY <2>3, <2>4 DEF StreamCounts
      <3>3. \A r \in Subscribers : r # s => StreamCounts'[r] = StreamCounts[r]
        BY <2>5 DEF StreamCounts
      <3> QED BY <3>1, <3>2, <3>3
    <2>7. Total(g, Subscribers) + f[s] = Total(f, Subscribers) + g[s]
      BY <2>6, SubscribersTotal
    <2>8. PICK m \in Nat, n \in Nat, k \in Nat :
              /\ m = Total(f, Subscribers) /\ n = Total(g, Subscribers)
              /\ k = Total(ReplayCounts, Subscribers)
      <3>1. ReplayCounts \in [Subscribers -> Nat] /\ Subscribers \in SUBSET Subscribers
        BY CountTypes
      <3> QED BY <3>1, UnitsFinite
    <2>9. n + f[s] = m + (f[s] + 1) /\ f[s] \in Nat
      BY <2>6, <2>7, <2>8
    <2>10. delivers \in Nat /\ delivers + k = m
      BY <2>6, <2>8 DEF CountInv
    <2>11. delivers' \in Nat /\ delivers' + k = n
      BY <1>5, <2>9, <2>10
    <2> QED BY <1>3, <2>6, <2>8, <2>11 DEF CountInv
  <1> QED BY <1>2, <1>4, <1>5

\* Joining gives a subscriber what Replayed says.
LEMMA JoinCounted ==
    ASSUME Policy # "DropOldest", TypeInv, WriteInv, TableInv, GapInv, NEW s \in Subscribers,
           Subscribe(s)
    PROVE  Len(Stream(s)') = Replayed(s)'
  <1>1. /\ spc[s] = "joining" /\ depth' = TopicDepth(s) /\ UNCHANGED <<log, cache, taken>>
        /\ queue'[s] = Replay(s) /\ joined'[s] = Len(log) /\ s \in Endpoints /\ taken[s] = <<>>
    BY DEF Subscribe, TypeInv, TableInv, Endpoints
  <1>2. PICK d \in Nat : d = TopicDepth(s)
    BY <1>1, TopicDepthType DEF TypeInv
  <1>3. PICK q \in Seq(AnySample) : q = Only(log, DurableSamples) /\ cache = LastOf(q, d)
    BY <1>1, <1>2, CacheIsEnd
  <1>4. PICK n \in Nat : n = Len(q)
    BY Elements
  <1>5. Len(cache) = IF n <= d THEN n ELSE d
    <2>1. /\ Len(q) <= d => LastOf(q, d) = q
          /\ Len(q) >= d => Len(LastOf(q, d)) = d
      BY LastOfEnd
    <2> QED BY <1>3, <1>4, <2>1
  <1>6. SubSeq(log, 1, Len(log)) = log
    BY SubSeqFull DEF TypeInv
  <1>7. Replayed(s)' = IF s \notin Durable THEN 0 ELSE Min({Capacity, d, n})
    BY <1>1, <1>2, <1>3, <1>4, <1>6, Zenon DEF Replayed
  <1>8. PICK m \in Nat : /\ m = Min({Capacity, d, n}) /\ m \in {Capacity, d, n}
                         /\ m <= Capacity /\ m <= d /\ m <= n
    <2>1. {Capacity, d, n} \subseteq Nat /\ {Capacity, d, n} # {}
      BY CapacityAssumption
    <2> QED BY <2>1, MinLeast
  <1>9. /\ Replay(s) \in Seq(AnySample)
        /\ Len(Replay(s)) = IF s \notin Durable THEN 0 ELSE m
    <2>1. CASE s \notin Durable
      BY <2>1, Nowhere DEF Replay
    <2>2. CASE s \in Durable
      <3>1. Replay(s) = FoldLeft(Pushed, <<>>, cache)
        BY <2>2 DEF Replay
      <3>2. /\ FoldLeft(Pushed, <<>>, cache) \in Seq(AnySample)
            /\ Len(FoldLeft(Pushed, <<>>, cache))
                  = IF Len(cache) <= Capacity THEN Len(cache) ELSE Capacity
        BY ReplayLength DEF TypeInv
      <3>3. (IF Len(cache) <= Capacity THEN Len(cache) ELSE Capacity) = m
        BY <1>5, <1>8, CapacityAssumption
      <3> QED BY <2>2, <3>1, <3>2, <3>3
    <2> QED BY <2>1, <2>2
  <1>10. Stream(s)' = Replay(s)
    <2>1. <<>> \o Replay(s) = Replay(s)
      BY <1>9, ConcatEmptySeq
    <2> QED BY <1>1, <2>1 DEF Stream
  <1> QED BY <1>7, <1>8, <1>9, <1>10

LEMMA CountSubscribe ==
    ASSUME IsFiniteSet(Subscribers), Policy # "DropOldest", TypeInv, TypeInv', WriteInv, TableInv,
           GapInv, GapInv', CountInv, NEW s \in Subscribers, Subscribe(s)
    PROVE  CountInv'
  <1>1. /\ spc[s] = "joining" /\ depth' = TopicDepth(s) /\ spc' = [spc EXCEPT ![s] = "open"]
        /\ queue' = [queue EXCEPT ![s] = Replay(s)] /\ joined' = [joined EXCEPT ![s] = Len(log)]
        /\ UNCHANGED <<log, delivers, taken>>
    BY DEF Subscribe, MetricVars
  <1>2. /\ spc'[s] = "open" /\ \A r \in Subscribers : r # s =>
              /\ spc'[r] = spc[r] /\ Stream(r)' = Stream(r)
              /\ spc[r] = "open" => Replayed(r)' = Replayed(r)
    <2>1. /\ spc'[s] = "open" /\ \A r \in Subscribers : r # s =>
                spc'[r] = spc[r] /\ queue'[r] = queue[r] /\ joined'[r] = joined[r]
      BY <1>1 DEF TypeInv
    <2>2. \A r \in Subscribers : spc[r] = "open" => depth' = depth
      BY <1>1, TopicDepthType DEF GapInv, Opened, TypeInv, Endpoints
    <2>3. ASSUME NEW r \in Subscribers, r # s
          PROVE  Stream(r)' = Stream(r) /\ (spc[r] = "open" => Replayed(r)' = Replayed(r))
      <3>1. queue'[r] = queue[r] /\ joined'[r] = joined[r] /\ taken' = taken /\ log' = log
        BY <1>1, <2>1, <2>3
      <3>2. Stream(r)' = Stream(r)
        BY <3>1 DEF Stream
      <3>3. ASSUME spc[r] = "open" PROVE Replayed(r)' = Replayed(r)
        BY <2>2, <3>1, <3>3 DEF Replayed
      <3> QED BY <3>2, <3>3
    <2> QED BY <2>1, <2>3
  <1>3. PICK f \in [Subscribers -> Nat], g \in [Subscribers -> Nat],
             h \in [Subscribers -> Nat], k \in [Subscribers -> Nat] :
            f = StreamCounts /\ g = StreamCounts' /\ h = ReplayCounts /\ k = ReplayCounts'
    BY CountTypes, CountTypesNext
  <1>4. /\ \A r \in Subscribers : r # s => g[r] = f[r] /\ k[r] = h[r]
        /\ f[s] = 0 /\ h[s] = 0 /\ g[s] = k[s]
    <2>1. \A r \in Subscribers : r # s => g[r] = f[r] /\ k[r] = h[r]
      BY <1>2, <1>3 DEF StreamCounts, ReplayCounts
    <2>2. h[s] = 0
      BY <1>1, <1>3 DEF ReplayCounts
    <2>3. f[s] = 0
      <3>1. <<>> \o <<>> = <<>> /\ Len(<<>>) = 0
        BY Nowhere, ConcatEmptySeq
      <3> QED BY <1>1, <1>3, <3>1 DEF StreamCounts, Stream, TableInv
    <2>4. g[s] = k[s]
      BY <1>2, <1>3, JoinCounted DEF StreamCounts, ReplayCounts
    <2> QED BY <2>1, <2>2, <2>3, <2>4
  <1>5. /\ Total(g, Subscribers) + f[s] = Total(f, Subscribers) + g[s]
        /\ Total(k, Subscribers) + h[s] = Total(h, Subscribers) + k[s]
    <2>1. \A r \in Subscribers : r # s => g[r] = f[r]
      BY <1>4
    <2>2. \A r \in Subscribers : r # s => k[r] = h[r]
      BY <1>4
    <2>3. Total(g, Subscribers) + f[s] = Total(f, Subscribers) + g[s]
      BY <2>1, TotalChange
    <2>4. Total(k, Subscribers) + h[s] = Total(h, Subscribers) + k[s]
      BY <2>2, TotalChange
    <2> QED BY <2>3, <2>4
  <1>6. PICK m1 \in Nat, m2 \in Nat, m3 \in Nat, m4 \in Nat :
            /\ m1 = Total(f, Subscribers) /\ m2 = Total(g, Subscribers)
            /\ m3 = Total(h, Subscribers) /\ m4 = Total(k, Subscribers)
    <2>1. Subscribers \in SUBSET Subscribers
      OBVIOUS
    <2> QED BY <2>1, UnitsFinite
  <1>7. m2 = m1 + g[s] /\ m4 = m3 + g[s] /\ g[s] \in Nat
    BY <1>4, <1>5, <1>6
  <1>8. delivers \in Nat /\ delivers + m3 = m1
    BY <1>3, <1>6 DEF CountInv
  <1>9. delivers + m4 = m2
    BY <1>7, <1>8
  <1> QED BY <1>1, <1>3, <1>6, <1>8, <1>9 DEF CountInv

LEMMA CountStep ==
    ASSUME IsFiniteSet(Subscribers), Policy # "DropOldest", TypeInv, TypeInv', WriteInv, TableInv,
           GapInv, GapInv', CountInv, [Next]_vars
    PROVE  CountInv'
  <1>1. ASSUME delivers' = delivers, \A s \in Subscribers :
                  /\ spc'[s] = "open" <=> spc[s] = "open"
                  /\ Stream(s)' = Stream(s) /\ (s \in Opened => Replayed(s)' = Replayed(s))
        PROVE  CountInv'
    <2>1. ReplayCounts' = ReplayCounts /\ StreamCounts' = StreamCounts
      BY <1>1 DEF ReplayCounts, StreamCounts, Opened
    <2> QED BY <1>1, <2>1 DEF CountInv
  <1>2. ASSUME \/ \E c \in Calls : WriteCheck(c) \/ WriteClaim(c) \/ PublishUnlock(c)
               \/ \E p \in Publishers : NewPublisher(p) \/ ClosePublisher(p)
               \/ \E s \in Subscribers : NewSubscriber(s) \/ CloseSubscriber(s)
               \/ CloseParticipant \/ CloseSweep \/ UNCHANGED vars
        PROVE  CountInv'
    <2>1. /\ UNCHANGED <<depth, log, queue, taken, joined>>
          /\ \A s \in Subscribers : spc'[s] = "open" <=> spc[s] = "open"
      BY <1>2, IdleSteps
    <2>2. delivers' = delivers
      BY <1>2 DEF WriteCheck, WriteClaim, PublishUnlock, NewPublisher, ClosePublisher,
                  NewSubscriber, CloseSubscriber, CloseParticipant, CloseSweep, vars, MetricVars
    <2>3. \A s \in Subscribers : Stream(s)' = Stream(s) /\ Replayed(s)' = Replayed(s)
      BY <2>1 DEF Stream, Replayed
    <2> QED BY <1>1, <2>1, <2>2, <2>3
  <1>3. ASSUME NEW c \in Calls, PublishLock(c) PROVE CountInv'
    <2>1. /\ wpc[c] = "lock" /\ depth' = TopicDepth(Owner[c]) /\ log' = Append(log, sample[c])
          /\ UNCHANGED <<delivers, spc, queue, taken, joined>>
      BY <1>3 DEF PublishLock, MetricVars, SubVars
    <2>2. Owner[c] \in Endpoints /\ sample[c] \in AnySample /\ log \in Seq(AnySample)
      BY <2>1, OwnerAssumption DEF Endpoints, TypeInv
    <2>3. ASSUME NEW s \in Opened PROVE Replayed(s)' = Replayed(s)
      <3>1. depth' = depth /\ s \in Subscribers
        BY <2>1, <2>2, <2>3, TopicDepthType DEF GapInv, Opened, TypeInv
      <3>2. joined[s] \in 0..Len(log)
        BY <2>3, <3>1, Elements DEF GapInv, TypeInv
      <3>3. SubSeq(Append(log, sample[c]), 1, joined[s]) = SubSeq(log, 1, joined[s])
        BY <2>2, <3>2, PartOfAppend
      <3> QED BY <2>1, <3>1, <3>3 DEF Replayed
    <2>4. \A s \in Subscribers : Stream(s)' = Stream(s)
      BY <2>1 DEF Stream
    <2> QED BY <1>1, <2>1, <2>3, <2>4
  <1>4. ASSUME NEW s \in Subscribers, Receive(s) PROVE CountInv'
    <2>1. /\ queue[s] # <<>> /\ queue' = [queue EXCEPT ![s] = Tail(queue[s])]
          /\ taken' = [taken EXCEPT ![s] = Append(taken[s], Head(queue[s]))]
          /\ UNCHANGED <<log, depth, delivers, spc, joined>>
      BY <1>4 DEF Receive, TopicVars, MetricVars
    <2>2. Append(taken[s], Head(queue[s])) \o Tail(queue[s]) = taken[s] \o queue[s]
      <3>1. taken[s] \in Seq(AnySample) /\ queue[s] \in Seq(AnySample) /\ queue[s] # <<>>
        BY <2>1 DEF TypeInv
      <3> QED BY <3>1, TakeFromQueue, Zenon
    <2>3. /\ queue'[s] = Tail(queue[s]) /\ taken'[s] = Append(taken[s], Head(queue[s]))
          /\ \A r \in Subscribers : r # s => queue'[r] = queue[r] /\ taken'[r] = taken[r]
      BY <2>1 DEF TypeInv
    <2>4. \A r \in Subscribers : Stream(r)' = Stream(r) /\ Replayed(r)' = Replayed(r)
      BY <2>1, <2>2, <2>3 DEF Stream, Replayed
    <2> QED BY <1>1, <2>1, <2>4
  <1> QED BY <1>2, <1>3, <1>4, CountPush, CountSubscribe DEF Next, Write

\* Unless a queue drops its oldest sample, which takes back one that has been
\* counted, deliver_count is the number of samples that subscribers received or
\* have queued without the replayed ones, at every moment in which it is read and
\* with every interleaving of pushes, receives, joins and closes.
THEOREM DeliveriesAreCounted ==
    ASSUME IsFiniteSet(Subscribers), Policy # "DropOldest"
    PROVE  Spec => []DeliveriesCounted
  <1>1. Init => GapInv /\ CountInv
    BY GapInit, CountInit
  <1>2. BrokerInv /\ BrokerInv' /\ GapInv /\ CountInv /\ [Next]_vars => GapInv' /\ CountInv'
    BY GapStep, CountStep DEF BrokerInv
  <1>3. BrokerInv /\ GapInv /\ CountInv => DeliveriesCounted
    <2> SUFFICES ASSUME BrokerInv, GapInv, CountInv PROVE DeliveriesCounted
      OBVIOUS
    <2>1. /\ MapThenSumSet(Replayed, {s \in Subscribers : spc[s] = "open"})
                = Total(ReplayCounts, Subscribers)
          /\ MapThenSumSet(LAMBDA s : Len(Stream(s)), Subscribers)
                = Total(StreamCounts, Subscribers)
      BY CountsAreSums DEF BrokerInv, Opened
    <2>2. \A m \in topic_metrics : m.deliver_count = delivers
      BY DEF topic_metrics, snapshot
    <2>3. delivers + Total(ReplayCounts, Subscribers) = Total(StreamCounts, Subscribers)
      BY DEF CountInv
    <2> QED BY <2>1, <2>2, <2>3, Zenon DEF DeliveriesCounted
  <1> QED BY <1>1, <1>2, <1>3, BrokerAlways, PTL DEF Spec
=============================================================================
