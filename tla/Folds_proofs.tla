----------------------------- MODULE Folds_proofs -----------------------------
(***************************************************************************)
(* What proofs about several components need of numbers, finite sets and   *)
(* folds: least and greatest numbers, smallest subsets, what the folds and *)
(* sums of the community modules yield, and the first so many of an order. *)
(*                                                                         *)
(* A fold is a recursive function, so that what it yields is an induction  *)
(* over sets.  The induction is made of least numbers: a counterexample of *)
(* smallest cardinality is none.                                           *)
(***************************************************************************)
EXTENDS Integers, SequencesExt, FiniteSetTheorems, SequenceTheorems, WellFoundedInduction, TLAPS

\* A set of numbers that is not empty has a least one.
LEMMA LeastNumber ==
  ASSUME NEW S \in SUBSET Nat, S # {}
  PROVE  \E m \in S : \A n \in S : m <= n
<1>1. PICK m \in S : \A n \in S : <<n, m>> \notin OpToRel(<, Nat)
  BY NatLessThanWellFounded, WFMin
<1>2. ASSUME NEW n \in S, n < m PROVE FALSE
  <2>1. <<n, m>> \in OpToRel(<, Nat)
    BY <1>2 DEF OpToRel
  <2> QED
    BY <1>1, <2>1
<1> QED
  BY <1>2

\* Min is that number.
LEMMA MinIs ==
  ASSUME NEW S \in SUBSET Nat, S # {}
  PROVE  Min(S) \in S /\ \A n \in S : Min(S) <= n
BY LeastNumber DEF Min

\* A finite set of numbers that is not empty has a greatest one, and Max is it.
LEMMA MaxIs ==
  ASSUME NEW n \in Nat, NEW S \in SUBSET (0..n), S # {}
  PROVE  Max(S) \in S /\ \A k \in S : k <= Max(S)
<1> DEFINE T == {i \in 0..n : n - i \in S}
<1>1. PICK m \in T : \A k \in T : m <= k
  <2>1. T # {}
    <3>1. PICK k \in S : k \in 0..n
      OBVIOUS
    <3>2. n - k \in 0..n /\ n - (n - k) = k
      BY <3>1
    <3>3. n - k \in T
      BY <3>2
    <3> HIDE DEF T
    <3> QED
      BY <3>3
  <2>2. T \in SUBSET Nat
    OBVIOUS
  <2> HIDE DEF T
  <2> QED
    BY <2>1, <2>2, LeastNumber
<1>2. n - m \in S /\ \A k \in S : k <= n - m
  <2>1. ASSUME NEW k \in S PROVE k <= n - m
    <3>1. n - k \in T
      OBVIOUS
    <3> HIDE DEF T
    <3>2. m <= n - k
      BY <1>1, <3>1
    <3>3. m \in 0..n
      BY <1>1 DEF T
    <3> QED
      BY <3>2, <3>3
  <2> QED
    BY <1>1, <2>1
<1>3. \E k \in S : \A j \in S : k >= j
  <2> DEFINE k == n - m
  <2>1. k \in S /\ \A j \in S : k >= j
    BY <1>1, <1>2
  <2> HIDE DEF k
  <2> QED
    BY <2>1
<1> QED
  BY <1>3 DEF Max

\* What is wrong for some subset of a finite set is wrong for a smallest one.
LEMMA Smallest ==
  ASSUME NEW S, IsFiniteSet(S), NEW B \in SUBSET SUBSET S, B # {}
  PROVE  \E s \in B : \A t \in B : t \subseteq s => t = s
<1> DEFINE Sizes == {Cardinality(s) : s \in B}
<1>1. ASSUME NEW s \in B PROVE IsFiniteSet(s) /\ Cardinality(s) \in Nat
  BY FS_Subset, FS_CardinalityType
<1>2. PICK m \in Sizes : \A k \in Sizes : m <= k
  <2>1. Sizes \in SUBSET Nat /\ Sizes # {}
    BY <1>1
  <2> HIDE DEF Sizes
  <2> QED
    BY <2>1, LeastNumber
<1>3. PICK s \in B : Cardinality(s) = m
  OBVIOUS
<1>4. ASSUME NEW t \in B, t \subseteq s PROVE t = s
  <2>1. Cardinality(s) <= Cardinality(t)
    BY <1>2, <1>3
  <2>2. t # s => Cardinality(t) < Cardinality(s)
    BY <1>1, <1>4, FS_Subset
  <2> QED
    BY <1>1, <2>1, <2>2
<1> QED
  BY <1>4

\* One step of a fold over the subsets of a set: pick chooses the element, op takes it in.
Taking(base, op, pick, it, s) == IF s = {} THEN base ELSE op[pick[s]][it[s \ {pick[s]}]]

\* What is folded stays in R.
Foldable(S, R, base, op, pick) ==
  /\ IsFiniteSet(S) /\ base \in R
  /\ \A s \in SUBSET S : s # {} => pick[s] \in s
  /\ \A x \in S, r \in R : op[x][r] \in R

\* The one function that solves the recursion of a fold.
Solves(S, R, base, op, pick, it) ==
  /\ it \in [SUBSET S -> R]
  /\ \A s \in SUBSET S : it[s] = Taking(base, op, pick, it, s)
  /\ \A f : (\A s \in SUBSET S :
                s = {} \/ f[s \ {pick[s]}] \in R => f[s] = Taking(base, op, pick, f, s))
              => \A s \in SUBSET S : f[s] = it[s]

LEMMA FoldDefines ==
  ASSUME NEW S, NEW R, NEW base, NEW op, NEW pick, Foldable(S, R, base, op, pick)
  PROVE  \E it : Solves(S, R, base, op, pick, it)
<1> USE DEF Foldable
<1> DEFINE card(s) == Cardinality(s)
           Upto(n) == {s \in SUBSET S : card(s) <= n}
           Partial(it, n) == it \in [Upto(n) -> R] /\ \A s \in Upto(n) : it[s] = Taking(base, op, pick, it, s)
<1>1. ASSUME NEW s \in SUBSET S
      PROVE  /\ Cardinality(s) \in Nat /\ Cardinality(s) <= Cardinality(S)
             /\ s # {} => /\ pick[s] \in S /\ s \ {pick[s]} \in SUBSET S
                          /\ Cardinality(s) # 0 /\ Cardinality(s \ {pick[s]}) = Cardinality(s) - 1
  <2>1. IsFiniteSet(s) /\ Cardinality(s) \in Nat /\ Cardinality(s) <= Cardinality(S)
    BY FS_Subset, FS_CardinalityType
  <2>2. s # {} => Cardinality(s) # 0
    BY <2>1, FS_EmptySet
  <2>3. s # {} => Cardinality(s \ {pick[s]}) = Cardinality(s) - 1
    BY <2>1, FS_RemoveElement
  <2> QED
    BY <2>1, <2>2, <2>3
<1>0. \A s \in SUBSET S : card(s) \in Nat
  BY <1>1
<1> HIDE DEF card
<1>2. ASSUME NEW n \in Nat, NEW g, Partial(g, n) PROVE \E it : Partial(it, n + 1)
  <2> DEFINE it == [s \in Upto(n + 1) |-> Taking(base, op, pick, g, s)]
  <2>1. ASSUME NEW s \in Upto(n + 1), s # {} PROVE s \ {pick[s]} \in Upto(n) /\ s \ {pick[s]} \in Upto(n + 1)
    BY <1>1, <2>1 DEF card
  <2>2. ASSUME NEW s \in Upto(n) PROVE it[s] = g[s]
    <3>1. s \in Upto(n + 1)
      BY <1>0
    <3> QED
      BY <1>2, <3>1
  <2>3. ASSUME NEW s \in Upto(n + 1) PROVE it[s] \in R
    <3>1. CASE s = {}
      BY <3>1 DEF Taking
    <3>2. CASE s # {}
      <4>1. g[s \ {pick[s]}] \in R /\ pick[s] \in S
        BY <1>1, <1>2, <2>1, <3>2
      <4> QED
        BY <3>2, <4>1 DEF Taking
    <3> QED
      BY <3>1, <3>2
  <2>4. ASSUME NEW s \in Upto(n + 1) PROVE it[s] = Taking(base, op, pick, it, s)
    <3>1. CASE s = {}
      BY <3>1 DEF Taking
    <3>2. CASE s # {}
      <4>1. it[s \ {pick[s]}] = g[s \ {pick[s]}]
        BY <2>1, <2>2, <3>2
      <4>2. it[s] = Taking(base, op, pick, g, s)
        OBVIOUS
      <4> HIDE DEF it
      <4> QED
        BY <4>1, <4>2 DEF Taking
    <3> QED
      BY <3>1, <3>2
  <2>5. it \in [Upto(n + 1) -> R]
    <3> HIDE DEF Upto
    <3>1. it = [s \in Upto(n + 1) |-> it[s]]
      OBVIOUS
    <3> HIDE DEF it
    <3> QED
      BY <2>3, <3>1
  <2> HIDE DEF it
  <2> QED
    BY <2>4, <2>5
<1>3. ASSUME NEW n \in Nat PROVE \E it : Partial(it, n)
  <2> DEFINE Bad == {k \in Nat : ~\E it : Partial(it, k)}
  <2> SUFFICES ASSUME Bad # {} PROVE FALSE
    OBVIOUS
  <2>1. PICK m \in Bad : \A k \in Bad : m <= k
    <3>1. Bad \in SUBSET Nat
      OBVIOUS
    <3> HIDE DEF Bad
    <3> QED
      BY <3>1, LeastNumber
  <2>2. CASE m = 0
    <3> DEFINE it == [s \in Upto(0) |-> base]
    <3>1. ASSUME NEW s \in Upto(0) PROVE s = {}
      <4>1. s \in SUBSET S /\ card(s) = 0
        BY <1>0, <3>1
      <4> QED
        BY <1>1, <4>1 DEF card
    <3>2. Partial(it, 0)
      BY <3>1 DEF Taking
    <3> QED
      BY <2>2, <3>2
  <2>3. CASE m # 0
    <3>0. m \in Nat
      OBVIOUS
    <3>1. m - 1 \in Nat /\ m - 1 \notin Bad /\ (m - 1) + 1 = m
      <4> HIDE DEF Bad
      <4> QED
        BY <2>1, <2>3, <3>0
    <3>2. PICK g : Partial(g, m - 1)
      BY <3>1
    <3> HIDE DEF Partial
    <3>3. \E it : Partial(it, (m - 1) + 1)
      BY <1>2, <3>1, <3>2
    <3> QED
      BY <3>1, <3>3
  <2> QED
    BY <2>2, <2>3
<1>4. Cardinality(S) \in Nat /\ Upto(Cardinality(S)) = SUBSET S
  BY <1>1 DEF card
<1>5. PICK it : Partial(it, Cardinality(S))
  <2> HIDE DEF Partial
  <2> QED
    BY <1>3, <1>4
<1>6. it \in [SUBSET S -> R] /\ \A s \in SUBSET S : it[s] = Taking(base, op, pick, it, s)
  BY <1>4, <1>5
<1>7. ASSUME NEW f,
             \A s \in SUBSET S : s = {} \/ f[s \ {pick[s]}] \in R => f[s] = Taking(base, op, pick, f, s)
      PROVE  \A s \in SUBSET S : f[s] = it[s]
  <2> DEFINE Bad == {card(s) : s \in {s \in SUBSET S : f[s] # it[s]}}
  <2> SUFFICES ASSUME Bad # {} PROVE FALSE
    OBVIOUS
  <2>1. PICK m \in Bad : \A k \in Bad : m <= k
    <3>1. Bad \in SUBSET Nat
      BY <1>0
    <3> HIDE DEF Bad
    <3> QED
      BY <3>1, LeastNumber
  <2>2. PICK s \in SUBSET S : f[s] # it[s] /\ card(s) = m
    OBVIOUS
  <2>3. CASE s = {}
    BY <1>6, <1>7, <2>2, <2>3 DEF Taking
  <2>4. CASE s # {}
    <3> DEFINE t == s \ {pick[s]}
    <3>1. t \in SUBSET S /\ card(t) = m - 1 /\ m \in Nat
      BY <1>1, <2>2, <2>4 DEF card
    <3>2. f[t] = it[t]
      <4> SUFFICES ASSUME f[t] # it[t] PROVE FALSE
        OBVIOUS
      <4>1. m - 1 \in Bad
        BY <3>1
      <4> HIDE DEF Bad
      <4> QED
        BY <2>1, <3>1, <4>1
    <3> QED
      BY <1>6, <1>7, <2>2, <2>4, <3>2 DEF Taking
  <2> QED
    BY <2>3, <2>4
<1> QED
  BY <1>6, <1>7 DEF Solves

\* A sum over a finite set is the sum over the set without one of its elements, and that.
LEMMA SumFolds ==
  ASSUME NEW S, IsFiniteSet(S), NEW f, \A x \in S : f[x] \in Int
  PROVE  /\ SumFunctionOnSet(f, {}) = 0
         /\ SumFunctionOnSet(f, S) \in Int
         /\ S # {} => \E x \in S : SumFunctionOnSet(f, S) = f[x] + SumFunctionOnSet(f, S \ {x})
<1> DEFINE Pick(s) == CHOOSE x \in s : TRUE
           Step(it, s) == IF s = {} THEN 0 ELSE f[Pick(s)] + it[s \ {Pick(s)}]
           Works(g, T) == \A s \in SUBSET T : g[s] = Step(g, s)
           Solution(T) == CHOOSE it : it = [s \in SUBSET T |-> Step(it, s)]
           op == [x \in S |-> [r \in Int |-> f[x] + r]]
           pick == [s \in SUBSET S |-> Pick(s)]
<1>1. ASSUME NEW T PROVE SumFunctionOnSet(f, T) = Solution(T)[T]
  BY DEF SumFunctionOnSet, FoldFunctionOnSet, MapThenFoldSet
<1>2. \A s \in SUBSET S : pick[s] = Pick(s) /\ (s # {} => Pick(s) \in s)
  OBVIOUS
<1>3. \A x \in S, r \in Int : op[x][r] = f[x] + r /\ op[x][r] \in Int
  OBVIOUS
<1> HIDE DEF op, pick, Pick
<1>4. ASSUME NEW T \in SUBSET S
      PROVE  /\ Solution(T) \in [SUBSET T -> Int]
             /\ \A s \in SUBSET T : Solution(T)[s] = Step(Solution(T), s)
             /\ \A g : Works(g, T) => \A s \in SUBSET T : g[s] = Solution(T)[s]
  <2>1. IsFiniteSet(T)
    BY FS_Subset
  <2>2. PICK it : Solves(T, Int, 0, op, pick, it)
    <3>1. Foldable(T, Int, 0, op, pick)
      BY <1>2, <1>3, <2>1 DEF Foldable
    <3> QED
      BY <3>1, FoldDefines
  <2>3. ASSUME NEW g, NEW s \in SUBSET T, s = {} \/ g[s \ {pick[s]}] \in Int
        PROVE  Step(g, s) = Taking(0, op, pick, g, s)
    <3>1. s # {} => Pick(s) = pick[s] /\ pick[s] \in S
      BY <1>2
    <3> QED
      BY <1>3, <2>3, <3>1 DEF Taking
  <2>4. ASSUME NEW g, \A s \in SUBSET T : g[s] = Step(g, s)
        PROVE  \A s \in SUBSET T : g[s] = it[s]
    <3> HIDE DEF Step
    <3>1. \A s \in SUBSET T : s = {} \/ g[s \ {pick[s]}] \in Int => g[s] = Taking(0, op, pick, g, s)
      BY <2>3, <2>4
    <3> QED
      BY <2>2, <3>1 DEF Solves
  <2>5. ASSUME NEW s \in SUBSET T PROVE it[s] = Step(it, s)
    <3>1. s = {} \/ it[s \ {pick[s]}] \in Int
      BY <2>2 DEF Solves
    <3> HIDE DEF Step
    <3> QED
      BY <2>2, <2>3, <3>1 DEF Solves
  <2> HIDE DEF Step
  <2>6. it = [s \in SUBSET T |-> Step(it, s)]
    BY <2>2, <2>5 DEF Solves
  <2>7. Solution(T) = [s \in SUBSET T |-> Step(Solution(T), s)]
    BY <2>6
  <2> HIDE DEF Solution
  <2>8. \A s \in SUBSET T : Solution(T)[s] = Step(Solution(T), s)
    BY <2>7
  <2>9. \A s \in SUBSET T : Solution(T)[s] = it[s]
    BY <2>4, <2>8
  <2>10. Solution(T) \in [SUBSET T -> Int]
    BY <2>2, <2>7, <2>9 DEF Solves
  <2> QED
    BY <2>4, <2>8, <2>9, <2>10
<1>5. SumFunctionOnSet(f, {}) = 0 /\ SumFunctionOnSet(f, S) \in Int
  <2> HIDE DEF Solution
  <2>1. Solution({})[{}] = Step(Solution({}), {}) /\ Solution(S)[S] \in Int
    <3> HIDE DEF Step
    <3> QED
      BY <1>4
  <2> QED
    BY <1>1, <2>1
<1>6. ASSUME S # {} PROVE \E x \in S : SumFunctionOnSet(f, S) = f[x] + SumFunctionOnSet(f, S \ {x})
  <2> DEFINE x == Pick(S)
             T == S \ {x}
  <2>1. x \in S /\ T \in SUBSET S
    BY <1>2, <1>6
  <2> HIDE DEF Solution
  <2>2. Solution(S)[S] = f[x] + Solution(S)[T]
    BY <1>4, <1>6
  <2>3. Solution(S)[T] = Solution(T)[T]
    <3>1. Works(Solution(S), T)
      BY <1>4
    <3> HIDE DEF Works, T, x, Step, Solution
    <3>2. \A g : Works(g, T) => \A s \in SUBSET T : g[s] = Solution(T)[s]
      BY <1>4, <2>1
    <3>3. \A s \in SUBSET T : Solution(S)[s] = Solution(T)[s]
      BY <3>1, <3>2
    <3> QED
      BY <3>3
  <2> QED
    BY <1>1, <2>1, <2>2, <2>3
<1> QED
  BY <1>5, <1>6

\* Whichever element is taken out of it.
LEMMA SumAdds ==
  ASSUME NEW S, IsFiniteSet(S), NEW f, \A x \in S : f[x] \in Int, NEW x \in S
  PROVE  SumFunctionOnSet(f, S) = f[x] + SumFunctionOnSet(f, S \ {x})
<1> DEFINE Sum(s) == SumFunctionOnSet(f, s)
           B == {s \in SUBSET S : \E y \in s : Sum(s) # f[y] + Sum(s \ {y})}
<1>1. ASSUME NEW s \in SUBSET S
      PROVE  Sum(s) \in Int /\ (s # {} => \E y \in s : Sum(s) = f[y] + Sum(s \ {y}))
  <2>1. IsFiniteSet(s)
    BY FS_Subset
  <2> QED
    BY <2>1, SumFolds
<1> HIDE DEF Sum
<1> SUFFICES ASSUME B # {} PROVE FALSE
  BY DEF Sum
<1>2. PICK s \in B : \A t \in B : t \subseteq s => t = s
  <2>1. B \in SUBSET SUBSET S
    OBVIOUS
  <2> HIDE DEF B
  <2> QED
    BY <2>1, Smallest
<1>3. PICK y \in s : Sum(s) # f[y] + Sum(s \ {y})
  OBVIOUS
<1>4. PICK z \in s : Sum(s) = f[z] + Sum(s \ {z})
  BY <1>1, <1>3
<1>5. ASSUME NEW t \in SUBSET s, t # s, NEW u \in t PROVE Sum(t) = f[u] + Sum(t \ {u})
  BY <1>2, <1>5
<1>6. /\ Sum(s \ {z}) = f[y] + Sum((s \ {z}) \ {y})
      /\ Sum(s \ {y}) = f[z] + Sum((s \ {y}) \ {z})
  <2>1. y # z /\ s \ {z} # s /\ s \ {y} # s
    BY <1>3, <1>4
  <2> QED
    BY <1>5, <2>1
<1>7. (s \ {z}) \ {y} = (s \ {y}) \ {z} /\ (s \ {z}) \ {y} \in SUBSET S
  OBVIOUS
<1>8. Sum((s \ {z}) \ {y}) \in Int /\ f[y] \in Int /\ f[z] \in Int
  BY <1>1, <1>7
<1> DEFINE both == Sum((s \ {z}) \ {y})
           a == Sum(s \ {z})
           b == Sum(s \ {y})
<1>9. /\ Sum(s) # f[y] + b /\ Sum(s) = f[z] + a /\ a = f[y] + both /\ b = f[z] + both
      /\ both \in Int /\ f[y] \in Int /\ f[z] \in Int
  BY <1>3, <1>4, <1>6, <1>7, <1>8
<1> HIDE DEF a, b, both
<1> QED
  BY <1>9

\* A sum of natural numbers over a larger set is larger.
LEMMA SumGrows ==
  ASSUME NEW S, IsFiniteSet(S), NEW f, \A x \in S : f[x] \in Nat, NEW T \in SUBSET S
  PROVE  /\ SumFunctionOnSet(f, T) \in Nat /\ SumFunctionOnSet(f, S) \in Nat
         /\ SumFunctionOnSet(f, T) <= SumFunctionOnSet(f, S)
         /\ T # S /\ (\A x \in S \ T : f[x] # 0) => SumFunctionOnSet(f, T) < SumFunctionOnSet(f, S)
<1> DEFINE Sum(s) == SumFunctionOnSet(f, s)
<1>1. ASSUME NEW s \in SUBSET S
      PROVE  Sum({}) = 0 /\ Sum(s) \in Int /\ \A x \in s : Sum(s) = f[x] + Sum(s \ {x})
  <2>1. IsFiniteSet(s) /\ \A x \in s : f[x] \in Int
    BY FS_Subset
  <2> QED
    BY <2>1, SumFolds, SumAdds
<1> HIDE DEF Sum
<1>2. ASSUME NEW U \in SUBSET S, Sum(U) \in Nat,
             NEW V \in SUBSET S, U \subseteq V
      PROVE  Sum(V) \in Nat /\ Sum(U) <= Sum(V) /\ (U # V /\ (\A x \in V \ U : f[x] # 0) => Sum(U) < Sum(V))
  <2> DEFINE Good(s) == /\ Sum(s) \in Nat /\ Sum(U) <= Sum(s)
                        /\ U # s /\ (\A x \in V \ U : f[x] # 0) => Sum(U) < Sum(s)
             B == {s \in SUBSET V : U \subseteq s /\ ~Good(s)}
  <2> SUFFICES ASSUME B # {} PROVE FALSE
    BY <1>2
  <2>1. PICK s \in B : \A t \in B : t \subseteq s => t = s
    <3>1. B \in SUBSET SUBSET S
      OBVIOUS
    <3> HIDE DEF B
    <3> QED
      BY <3>1, Smallest
  <2>2. PICK x \in s : x \notin U
    <3>1. Good(U)
      BY <1>2
    <3> QED
      BY <3>1
  <2>3. Sum(s) = f[x] + Sum(s \ {x}) /\ f[x] \in Nat
    BY <1>1
  <2>4. Good(s \ {x})
    <3>1. s \ {x} \in SUBSET V /\ U \subseteq s \ {x} /\ s \ {x} # s
      BY <2>2
    <3> HIDE DEF Good
    <3> QED
      BY <2>1, <3>1
  <2>5. Good(s)
    <3> DEFINE rest == Sum(s \ {x})
    <3>1. rest \in Nat /\ Sum(U) <= rest /\ Sum(s) = f[x] + rest /\ f[x] \in Nat
      BY <2>3, <2>4
    <3> HIDE DEF rest
    <3>2. Sum(s) \in Nat /\ Sum(U) <= Sum(s) /\ (f[x] # 0 => Sum(U) < Sum(s))
      BY <1>2, <3>1
    <3>3. x \in V \ U
      BY <2>2
    <3> QED
      BY <3>2, <3>3
  <2> QED
    BY <2>5
<1>3. Sum({}) \in Nat
  BY <1>1
<1> QED
  BY <1>2, <1>3 DEF Sum

\* The largest of finitely many numbers.
Numbers(f, S) == IsFiniteSet(S) /\ S # {} /\ \A x \in S : f[x] \in Nat

LEMMA MaxOf ==
  ASSUME NEW S, NEW f, Numbers(f, S)
  PROVE  /\ \E x \in S : Max({f[y] : y \in S}) = f[x]
         /\ \A x \in S : f[x] <= Max({f[y] : y \in S})
<1> USE DEF Numbers
<1> DEFINE n == SumFunctionOnSet(f, S)
           V == {f[y] : y \in S}
<1>1. ASSUME NEW x \in S PROVE n \in Nat /\ f[x] \in Nat /\ f[x] <= n
  <2>1. n \in Nat /\ SumFunctionOnSet(f, S \ {x}) \in Nat
    BY SumGrows
  <2>2. n = f[x] + SumFunctionOnSet(f, S \ {x})
    BY SumAdds
  <2> HIDE DEF n
  <2> QED
    BY <2>1, <2>2
<1> HIDE DEF n
<1>2. n \in Nat /\ V \in SUBSET (0..n) /\ V # {}
  BY <1>1
<1> HIDE DEF V
<1>3. Max(V) \in V /\ \A k \in V : k <= Max(V)
  BY <1>2, MaxIs
<1> QED
  BY <1>3 DEF V

\* Numbers that are paired with others, of which nine are at most ten of theirs, sum up to so much.
Paired(f, S, g, T, b) ==
  /\ IsFiniteSet(S) /\ IsFiniteSet(T)
  /\ \A x \in S : f[x] \in Nat /\ b[x] \in T /\ 9 * f[x] <= 10 * g[b[x]]
  /\ \A x, y \in S : b[x] = b[y] => x = y
  /\ \A y \in T : g[y] \in Nat

LEMMA SumsOfPairs ==
  ASSUME NEW f, NEW S, NEW g, NEW T, NEW b, Paired(f, S, g, T, b)
  PROVE  9 * SumFunctionOnSet(f, S) <= 10 * SumFunctionOnSet(g, T)
<1> USE DEF Paired
<1> DEFINE F(s) == SumFunctionOnSet(f, s)
           G(u) == SumFunctionOnSet(g, u)
           of(s) == {b[x] : x \in s}
           B == {s \in SUBSET S : ~(9 * F(s) <= 10 * G(of(s)))}
<1>1. ASSUME NEW s \in SUBSET S
      PROVE  F({}) = 0 /\ F(s) \in Nat /\ \A x \in s : F(s) = f[x] + F(s \ {x})
  <2>1. IsFiniteSet(s) /\ (\A x \in s : f[x] \in Nat) /\ (\A x \in s : f[x] \in Int)
    BY FS_Subset
  <2> QED
    BY <2>1, SumFolds, SumAdds, SumGrows
<1>2. ASSUME NEW u \in SUBSET T
      PROVE  G({}) = 0 /\ G(u) \in Nat /\ G(u) <= G(T) /\ \A y \in u : G(u) = g[y] + G(u \ {y})
  <2>1. IsFiniteSet(u) /\ (\A y \in u : g[y] \in Nat) /\ (\A y \in u : g[y] \in Int)
    BY FS_Subset
  <2> QED
    BY <2>1, SumFolds, SumAdds, SumGrows
<1>3. \A s \in SUBSET S : of(s) \in SUBSET T
  OBVIOUS
<1> HIDE DEF F, G
<1>4. B = {}
  <2> SUFFICES ASSUME B # {} PROVE FALSE
    OBVIOUS
  <2>1. PICK s \in B : \A t \in B : t \subseteq s => t = s
    <3>1. B \in SUBSET SUBSET S
      OBVIOUS
    <3> HIDE DEF B
    <3> QED
      BY <3>1, Smallest
  <2>2. PICK x \in s : TRUE
    <3>1. of({}) = {}
      OBVIOUS
    <3>2. F({}) = 0 /\ G({}) = 0 /\ 9 * 0 <= 10 * 0
      BY <1>1, <1>2
    <3>3. s # {}
      BY <3>1, <3>2
    <3> HIDE DEF B
    <3> QED
      BY <3>3
  <2>3. of(s \ {x}) = of(s) \ {b[x]} /\ b[x] \in of(s)
    OBVIOUS
  <2> DEFINE t == s \ {x}
  <2>4. t \in SUBSET S /\ t \subseteq s /\ t # s
    BY <2>2
  <2>5. 9 * F(t) <= 10 * G(of(t))
    <3> HIDE DEF t, of
    <3> QED
      BY <2>1, <2>4
  <2>6. F(s) = f[x] + F(t) /\ G(of(s)) = g[b[x]] + G(of(t))
    <3>1. F(s) = f[x] + F(t)
      BY <1>1
    <3>2. G(of(s)) = g[b[x]] + G(of(s) \ {b[x]})
      <4> HIDE DEF of
      <4> QED
        BY <1>2, <1>3, <2>3
    <3> QED
      BY <2>3, <3>1, <3>2
  <2>7. /\ f[x] \in Nat /\ g[b[x]] \in Nat /\ F(t) \in Nat /\ G(of(t)) \in Nat
        /\ 9 * f[x] <= 10 * g[b[x]] /\ ~(9 * F(s) <= 10 * G(of(s)))
    <3>1. F(t) \in Nat
      BY <1>1, <2>4
    <3>2. G(of(t)) \in Nat
      <4> HIDE DEF of
      <4> QED
        BY <1>2, <1>3, <2>4
    <3> QED
      BY <3>1, <3>2
  <2> DEFINE k == f[x]
             l == g[b[x]]
             m == F(t)
             n == G(of(t))
  <2>8. /\ k \in Nat /\ l \in Nat /\ m \in Nat /\ n \in Nat /\ 9 * k <= 10 * l /\ 9 * m <= 10 * n
        /\ ~(9 * (k + m) <= 10 * (l + n))
    BY <2>5, <2>6, <2>7
  <2> HIDE DEF k, l, m, n
  <2> QED
    BY <2>8
<1>5. 9 * F(S) <= 10 * G(of(S))
  BY <1>4
<1>6. G(of(S)) <= G(T) /\ G(of(S)) \in Nat /\ G(T) \in Nat /\ F(S) \in Nat
  <2>1. of(S) \in SUBSET T
    OBVIOUS
  <2> HIDE DEF of
  <2> QED
    BY <1>1, <1>2, <2>1
<1> DEFINE i == F(S)
           j == G(of(S))
           l == G(T)
<1>7. i \in Nat /\ j \in Nat /\ l \in Nat /\ 9 * i <= 10 * j /\ j <= l
  BY <1>5, <1>6
<1> HIDE DEF i, j, l
<1>8. 9 * i <= 10 * l
  BY <1>7
<1> QED
  BY <1>8 DEF i, l, F, G

\* The image of a finite set under a function.
LEMMA ImageFinite ==
  ASSUME NEW S, IsFiniteSet(S), NEW f
  PROVE  IsFiniteSet({f[x] : x \in S})
<1> DEFINE g == [x \in S |-> f[x]]
<1>1. g \in Surjection(S, {f[x] : x \in S})
  BY DEF Surjection
<1> QED BY <1>1, FS_Surjection

\* The first so many of a finite set, by a strict order.
Ordered(before, S) ==
  /\ \A x, y \in S : x = y \/ <<x, y>> \in before \/ <<y, x>> \in before
  /\ \A x \in S : <<x, x>> \notin before
  /\ \A x, y, z \in S : <<x, y>> \in before /\ <<y, z>> \in before => <<x, z>> \in before

Top(before, S, limit) == {x \in S : Cardinality({y \in S : <<y, x>> \in before}) < limit}

LEMMA TopIs ==
  ASSUME NEW S, IsFiniteSet(S), NEW before, Ordered(before, S), NEW limit \in Nat \ {0},
         NEW x \in S \ Top(before, S, limit)
  PROVE  /\ Cardinality(Top(before, S, limit)) = limit
         /\ \A y \in Top(before, S, limit) : <<y, x>> \in before
<1> DEFINE Ahead(y) == {z \in S : <<z, y>> \in before}
           rank == [y \in S |-> Cardinality(Ahead(y))]
           top == Top(before, S, limit)
<1>1. ASSUME NEW y \in S PROVE rank[y] \in Nat /\ IsFiniteSet(Ahead(y)) /\ rank[y] = Cardinality(Ahead(y))
  BY FS_Subset, FS_CardinalityType
<1>2. ASSUME NEW y \in S, NEW z \in S, <<y, z>> \in before PROVE rank[y] < rank[z]
  <2>1. Ahead(y) \subseteq Ahead(z) /\ y \in Ahead(z) /\ y \notin Ahead(y)
    BY <1>2 DEF Ordered
  <2> HIDE DEF Ahead, rank
  <2> QED
    BY <1>1, <2>1, FS_Subset
<1>3. top = {y \in S : rank[y] < limit}
  BY DEF Top
<1> HIDE DEF rank, Ahead, top
<1>4. ASSUME NEW y \in S, NEW z \in S, y # z, rank[y] <= rank[z] PROVE <<y, z>> \in before
  <2>1. <<z, y>> \notin before
    BY <1>1, <1>2, <1>4
  <2> QED
    BY <1>4, <2>1 DEF Ordered
<1>5. ASSUME NEW y \in top, NEW z \in S \ top PROVE <<y, z>> \in before
  <2>1. rank[y] < limit /\ limit <= rank[z] /\ y # z /\ y \in S
    BY <1>1, <1>3
  <2> QED
    BY <1>1, <1>4, <2>1
<1>6. IsFiniteSet(top) /\ Cardinality(top) \in Nat /\ top \in SUBSET S
  BY <1>3, FS_Subset, FS_CardinalityType
<1>7. limit <= Cardinality(top)
  <2> DEFINE ranks == {rank[y] : y \in S \ top}
  <2>1. PICK r \in ranks : \A q \in ranks : r <= q
    <3>1. ranks \in SUBSET Nat
      BY <1>1
    <3>2. ranks # {}
      BY DEF top
    <3> HIDE DEF ranks
    <3> QED
      BY <3>1, <3>2, LeastNumber
  <2>2. PICK z \in S \ top : r = rank[z]
    OBVIOUS
  <2>3. ASSUME NEW y \in Ahead(z) PROVE y \in top
    <3>1. y \in S /\ rank[y] < rank[z]
      BY <1>2 DEF Ahead
    <3>2. y \notin top => rank[z] <= rank[y]
      BY <2>1, <2>2, <3>1
    <3> QED
      BY <1>1, <3>1, <3>2
  <2>4. Ahead(z) \subseteq top
    BY <2>3
  <2>5. Cardinality(Ahead(z)) <= Cardinality(top)
    BY <1>6, <2>4, FS_Subset
  <2>6. limit <= rank[z] /\ rank[z] = Cardinality(Ahead(z)) /\ rank[z] \in Nat
    BY <1>1, <1>3
  <2> QED
    BY <1>6, <2>5, <2>6
<1>8. Cardinality(top) <= limit
  <2>1. top # {}
    BY <1>7, FS_EmptySet
  <2>2. PICK z \in top : \A y \in top : rank[y] <= rank[z]
    <3>1. Numbers(rank, top)
      BY <1>1, <1>6, <2>1 DEF Numbers
    <3>2. /\ \E z \in top : Max({rank[y] : y \in top}) = rank[z]
          /\ \A y \in top : rank[y] <= Max({rank[y2] : y2 \in top})
      BY <3>1, MaxOf
    <3> QED
      BY <3>2
  <2>3. top \subseteq Ahead(z) \cup {z}
    BY <1>4, <1>6, <2>2 DEF Ahead
  <2>4. z \in S /\ z \notin Ahead(z) /\ IsFiniteSet(Ahead(z)) /\ rank[z] < limit /\ rank[z] = Cardinality(Ahead(z))
        /\ rank[z] \in Nat
    BY <1>1, <1>3, <2>2 DEF Ordered, Ahead
  <2>5. IsFiniteSet(Ahead(z) \cup {z}) /\ Cardinality(Ahead(z) \cup {z}) = rank[z] + 1
    BY <2>4, FS_AddElement
  <2>6. Cardinality(top) <= rank[z] + 1
    BY <2>3, <2>5, FS_Subset
  <2> QED
    BY <1>6, <2>4, <2>6
<1>9. Cardinality(top) = limit
  BY <1>6, <1>7, <1>8
<1> QED
  BY <1>5, <1>9 DEF top

-----------------------------------------------------------------------------
(* Folds of sequences                                                       *)

\* A fold from the left takes in the elements of a sequence by their positions.
LEMMA LeftFoldable ==
  ASSUME NEW n \in Nat, NEW R, NEW base \in R, NEW op, \A k \in 1..n, r \in R : op[k][r] \in R
  PROVE  Foldable(1..n, R, base, op, [s \in SUBSET (1..n) |-> Max(s)])
<1>1. ASSUME NEW s \in SUBSET (1..n), s # {} PROVE Max(s) \in s
  <2>1. s \in SUBSET (0..n)
    OBVIOUS
  <2> QED
    BY <1>1, <2>1, MaxIs
<1>2. IsFiniteSet(1..n)
  BY FS_Interval
<1> QED
  BY <1>1, <1>2 DEF Foldable

\* What holds of the base, and of each step if it held of the one before, holds of the fold.
KeptBy(n, base, op, good) ==
  base \in good[0] /\ \A k \in 1..n : \A r \in good[k - 1] : op[k][r] \in good[k]

LEMMA LeftFoldKeeps ==
  ASSUME NEW n \in Nat, NEW R, NEW base, NEW op, NEW it, NEW good,
         Solves(1..n, R, base, op, [s \in SUBSET (1..n) |-> Max(s)], it), KeptBy(n, base, op, good)
  PROVE  it[1..n] \in good[n]
<1> DEFINE pick == [s \in SUBSET (1..n) |-> Max(s)]
           Bad == {k \in 0..n : it[1..k] \notin good[k]}
<1> SUFFICES ASSUME Bad # {} PROVE FALSE
  OBVIOUS
<1>1. PICK m \in Bad : \A k \in Bad : m <= k
  <2>1. Bad \in SUBSET Nat
    OBVIOUS
  <2> HIDE DEF Bad
  <2> QED
    BY <2>1, LeastNumber
<1>2. CASE m = 0
  <2>1. 1..0 = {} /\ {} \in SUBSET (1..n)
    OBVIOUS
  <2>2. it[{}] = base
    BY <2>1 DEF Solves, Taking
  <2> QED
    BY <1>1, <1>2, <2>1, <2>2 DEF KeptBy
<1>3. CASE m # 0
  <2>1. m \in 1..n /\ m - 1 \in 0..n
    BY <1>3
  <2>2. it[1..(m - 1)] \in good[m - 1]
    BY <1>1, <2>1
  <2>3. Max(1..m) = m
    <3>1. 1..m \in SUBSET (0..n) /\ m \in 1..m
      BY <2>1
    <3>2. Max(1..m) \in 1..m /\ \A k \in 1..m : k <= Max(1..m)
      BY <3>1, MaxIs
    <3> QED
      BY <2>1, <3>1, <3>2
  <2>4. 1..m \in SUBSET (1..n) /\ 1..m # {} /\ (1..m) \ {m} = 1..(m - 1)
    <3>1. m \in Nat /\ m >= 1 /\ m <= n
      BY <2>1
    <3>2. 1..m \in SUBSET (1..n)
      BY <3>1
    <3>3. m \in 1..m
      BY <3>1
    <3>4. ASSUME NEW x PROVE x \in (1..m) \ {m} <=> x \in 1..(m - 1)
      BY <3>1
    <3>5. (1..m) \ {m} = 1..(m - 1)
      BY <3>4
    <3> QED
      BY <3>2, <3>3, <3>5
  <2>5. it[1..m] = op[m][it[1..(m - 1)]]
    <3>1. pick[1..m] = m
      BY <2>3, <2>4
    <3>2. it[1..m] = Taking(base, op, pick, it, 1..m)
      BY <2>4 DEF Solves
    <3> HIDE DEF pick
    <3> QED
      BY <2>4, <3>1, <3>2 DEF Taking
  <2>6. it[1..m] \in good[m]
    BY <2>1, <2>2, <2>5 DEF KeptBy
  <2> QED
    BY <2>6
<1> QED
  BY <1>2, <1>3
=============================================================================
