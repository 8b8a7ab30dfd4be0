---------------------------- MODULE SumTheorems ----------------------------
(***************************************************************************)
(* What SumFunctionOnSet of the module Functions computes, as the proofs    *)
(* about sums of trades need it: the sum over no element, over one element  *)
(* more, of another function with the same values, over renamed elements.   *)
(*                                                                         *)
(* The sum is a recursion over the subsets of a finite set. In place of     *)
(* induction the proofs take a smallest counterexample, which exists as the *)
(* subsets of a finite set are well-founded: a smaller subset than the      *)
(* counterexample obeys the statement, and so does the counterexample.      *)
(***************************************************************************)
EXTENDS Integers, FiniteSets, Functions, FiniteSetTheorems, TLAPS

(* One step of the recursion of SumFunctionOnSet.                          *)
Step(f, it, s) == IF s = {} THEN 0 ELSE LET x == CHOOSE x \in s : TRUE IN f[x] + it[s \ {x}]

(* The functions that obey the recursion on the sets of D.                 *)
Sums(f, D) == {it \in [D -> Int] : \A s \in D : it[s] = Step(f, it, s)}

(* A nonempty set of natural numbers has a least element.                  *)
LEMMA LeastNatural ==
    ASSUME NEW T \in SUBSET Nat, T # {}
    PROVE  \E n \in T : \A m \in T : n <= m
<1> DEFINE R == OpToRel(<, Nat)
<1>1. IsWellFoundedOn(R, Nat)
  BY NatLessThanWellFounded
<1> HIDE DEF R
<1>2. PICK n \in T : \A m \in T : ~ (<<m, n>> \in R)
  BY <1>1, WFMin
<1>3. \A m \in T : m < n => <<m, n>> \in R
  BY DEF R, OpToRel
<1>4. \A m \in T : ~ (m < n)
  BY <1>2, <1>3, Zenon
<1> QED BY <1>4

(* A nonempty set of subsets of a finite set has a minimal element.        *)
LEMMA MinimalSubset ==
    ASSUME NEW S, IsFiniteSet(S), NEW T \in SUBSET SUBSET S, T # {}
    PROVE  \E U \in T : \A V \in T : V \subseteq U => V = U
<1> DEFINE R == StrictSubsetOrdering(S)
<1>1. IsWellFoundedOn(R, SUBSET S)
  BY FS_StrictSubsetOrderingWellFounded, FS_FiniteSubsetsOfFinite
<1> HIDE DEF R
<1>2. PICK U \in T : \A V \in T : ~ (<<V, U>> \in R)
  BY <1>1, WFMin
<1>3. \A V \in T : V \subseteq U /\ V # U => <<V, U>> \in R
  BY DEF R, StrictSubsetOrdering
<1>4. ASSUME NEW V \in T, V \subseteq U
      PROVE  V = U
  BY <1>2, <1>3, <1>4
<1> QED BY <1>4

(* On the subsets of a finite set some function obeys the recursion:       *)
(* built by the cardinality of the subsets, as no least cardinality can    *)
(* be without one.                                                         *)
LEMMA SumsExist ==
    ASSUME NEW S, IsFiniteSet(S), NEW f, \A x \in S : f[x] \in Int
    PROVE  Sums(f, SUBSET S) # {}
<1> DEFINE Small(n) == {s \in SUBSET S : Cardinality(s) <= n}
           Bad == {n \in Nat : Sums(f, Small(n)) = {}}
<1>0. \A s \in SUBSET S : IsFiniteSet(s) /\ Cardinality(s) \in Nat /\ Cardinality(s) <= Cardinality(S)
  BY FS_Subset, FS_CardinalityType
<1>1. Bad = {}
  <2> SUFFICES ASSUME Bad # {} PROVE FALSE
    OBVIOUS
  <2>1. PICK n \in Bad : \A m \in Bad : n <= m
    <3> HIDE DEF Bad
    <3>1. Bad \in SUBSET Nat
      BY DEF Bad
    <3> QED BY <3>1, LeastNatural
  <2>2. n # 0
    <3>1. SUFFICES ASSUME n = 0 PROVE FALSE
      OBVIOUS
    <3>2. Small(0) = {{}}
      BY <1>0, FS_EmptySet
    <3>3. [s \in {{}} |-> 0] \in Sums(f, {{}})
      BY DEF Sums, Step
    <3> QED BY <2>1, <3>1, <3>2, <3>3
  <2>3. n - 1 \in Nat /\ n - 1 \notin Bad
    BY <2>1, <2>2
  <2>4. PICK it : it \in Sums(f, Small(n - 1))
    BY <2>3
  <2> DEFINE next == [s \in Small(n) |-> Step(f, it, s)]
  <2>5. ASSUME NEW s \in Small(n), s # {}
        PROVE  LET x == CHOOSE x \in s : TRUE IN
               /\ x \in s
               /\ f[x] \in Int
               /\ s \ {x} \in Small(n - 1)
               /\ s \ {x} \in Small(n)
    <3> DEFINE x == CHOOSE x \in s : TRUE
    <3>1. x \in s
      BY <2>5
    <3> HIDE DEF x
    <3>2. Cardinality(s \ {x}) = Cardinality(s) - 1
      BY <3>1, <1>0, FS_RemoveElement
    <3>3. s \ {x} \in SUBSET S
      OBVIOUS
    <3>4. Cardinality(s) \in Nat /\ Cardinality(s) <= n
      BY <1>0
    <3>5. x \in S
      BY <3>1
    <3> QED BY <3>1, <3>2, <3>3, <3>4, <3>5, <2>1 DEF x
  <2>6. \A s \in Small(n - 1) : next[s] = it[s]
    BY <2>1, <2>4, <1>0 DEF Sums
  <2>7. next \in [Small(n) -> Int]
    BY <2>4, <2>5 DEF Sums, Step
  <2>8. ASSUME NEW s \in Small(n)
        PROVE  next[s] = Step(f, next, s)
    <3>1. CASE s = {}
      BY <3>1 DEF Step
    <3>2. CASE s # {}
      <4> DEFINE x == CHOOSE x \in s : TRUE
      <4>1. s \ {x} \in Small(n - 1)
        BY <3>2, <2>5
      <4>2. next[s \ {x}] = it[s \ {x}]
        <5> HIDE DEF x, next
        <5> QED BY <4>1, <2>6
      <4>3. next[s] = f[x] + it[s \ {x}]
        BY <3>2 DEF Step
      <4> HIDE DEF next
      <4> QED BY <4>2, <4>3, <3>2 DEF Step
    <3> QED BY <3>1, <3>2
  <2>9. next \in Sums(f, Small(n))
    BY <2>7, <2>8 DEF Sums
  <2> QED BY <2>1, <2>9
<1>2. SUBSET S = Small(Cardinality(S))
  BY <1>0
<1>3. Cardinality(S) \in Nat
  BY <1>0
<1> QED BY <1>1, <1>2, <1>3

(* What the sum is: the value at the set of a function that obeys the      *)
(* recursion.                                                              *)
LEMMA SumIsSums ==
    ASSUME NEW S, IsFiniteSet(S), NEW f, \A x \in S : f[x] \in Int
    PROVE  \E it \in Sums(f, SUBSET S) : SumFunctionOnSet(f, S) = it[S]
<1> DEFINE body(it) == [s \in SUBSET S |-> Step(f, it, s)]
           iter == CHOOSE it : it = body(it)
<1>1. PICK it : it \in Sums(f, SUBSET S)
  BY SumsExist
<1>2. it = body(it)
  BY <1>1 DEF Sums
<1>3. iter = body(iter)
  BY <1>2
<1>4. SumFunctionOnSet(f, S) = iter[S]
  BY DEF SumFunctionOnSet, FoldFunctionOnSet, MapThenFoldSet, Step
<1> HIDE DEF iter
<1>5. \A s \in SUBSET S : iter[s] \in Int
  <2> DEFINE T == {s \in SUBSET S : iter[s] \notin Int}
  <2> SUFFICES ASSUME T # {} PROVE FALSE
    OBVIOUS
  <2>1. PICK s \in T : \A t \in T : t \subseteq s => t = s
    <3> HIDE DEF T
    <3>1. T \in SUBSET SUBSET S
      BY DEF T
    <3> QED BY <3>1, MinimalSubset
  <2>2. iter[s] = Step(f, iter, s)
    BY <1>3
  <2>3. s # {}
    BY <2>2 DEF Step
  <2> DEFINE x == CHOOSE x \in s : TRUE
  <2>4. x \in s
    BY <2>3
  <2>5. iter[s \ {x}] \in Int
    <3> HIDE DEF x
    <3> QED BY <2>1, <2>4
  <2> QED BY <2>2, <2>3, <2>4, <2>5 DEF Step
<1>6. iter \in Sums(f, SUBSET S)
  BY <1>3, <1>5 DEF Sums
<1> QED BY <1>4, <1>6

(* The recursion chooses the element it takes away; the sum does not       *)
(* depend on the choice.                                                   *)
LEMMA SumPicks ==
    ASSUME NEW S, IsFiniteSet(S), NEW f, \A x \in S : f[x] \in Int,
           NEW it \in Sums(f, SUBSET S), NEW s \in SUBSET S, NEW x \in s
    PROVE  it[s] = f[x] + it[s \ {x}]
<1> DEFINE T == {u \in SUBSET S : \E y \in u : it[u] # f[y] + it[u \ {y}]}
<1> SUFFICES ASSUME T # {} PROVE FALSE
  OBVIOUS
<1>1. PICK u \in T : \A v \in T : v \subseteq u => v = u
  <2> HIDE DEF T
  <2>1. T \in SUBSET SUBSET S
    BY DEF T
  <2> QED BY <2>1, MinimalSubset
<1>2. PICK y \in u : it[u] # f[y] + it[u \ {y}]
  OBVIOUS
<1> DEFINE z == CHOOSE z \in u : TRUE
<1>3. z \in u /\ it[u] = f[z] + it[u \ {z}]
  BY <1>2 DEF Sums, Step
<1> HIDE DEF z
<1>4. y # z
  BY <1>2, <1>3
<1>5. it[u \ {z}] = f[y] + it[(u \ {z}) \ {y}]
  <2>1. u \ {z} \notin T
    <3> HIDE DEF T
    <3> QED BY <1>1, <1>3
  <2> QED BY <2>1, <1>2, <1>4
<1>6. it[u \ {y}] = f[z] + it[(u \ {y}) \ {z}]
  <2>1. u \ {y} \notin T
    <3> HIDE DEF T
    <3> QED BY <1>1, <1>2
  <2> QED BY <2>1, <1>3, <1>4
<1>7. (u \ {z}) \ {y} = (u \ {y}) \ {z}
  OBVIOUS
<1> DEFINE rest == it[(u \ {y}) \ {z}]
<1>8. rest \in Int /\ f[y] \in Int /\ f[z] \in Int
  BY <1>2, <1>3 DEF Sums
<1>9. it[u] = f[z] + (f[y] + rest) /\ it[u \ {y}] = f[z] + rest
  BY <1>3, <1>5, <1>6, <1>7
<1> HIDE DEF rest, T
<1>10. f[z] + (f[y] + rest) = f[y] + (f[z] + rest)
  BY <1>8
<1> QED BY <1>2, <1>9, <1>10

(* Two functions that obey the recursion agree where what they add         *)
(* agrees.                                                                 *)
LEMMA SumsAgree ==
    ASSUME NEW S, IsFiniteSet(S), NEW f, NEW g,
           \A x \in S : f[x] \in Int /\ g[x] = f[x],
           NEW it \in Sums(f, SUBSET S),
           NEW D, SUBSET S \subseteq D, NEW jt \in Sums(g, D)
    PROVE  it[S] = jt[S]
<1> DEFINE T == {u \in SUBSET S : it[u] # jt[u]}
<1> SUFFICES ASSUME T # {} PROVE FALSE
  OBVIOUS
<1>1. PICK u \in T : \A v \in T : v \subseteq u => v = u
  <2> HIDE DEF T
  <2>1. T \in SUBSET SUBSET S
    BY DEF T
  <2> QED BY <2>1, MinimalSubset
<1>2. it[u] = Step(f, it, u) /\ jt[u] = Step(g, jt, u)
  BY DEF Sums
<1>3. u # {}
  BY <1>2 DEF Step
<1> DEFINE x == CHOOSE x \in u : TRUE
<1>4. x \in u
  BY <1>3
<1>5. it[u] = f[x] + it[u \ {x}] /\ jt[u] = g[x] + jt[u \ {x}]
  BY <1>2, <1>3 DEF Step
<1> HIDE DEF x
<1>6. it[u \ {x}] = jt[u \ {x}]
  <2>1. u \ {x} \notin T
    <3> HIDE DEF T
    <3> QED BY <1>1, <1>4
  <2> QED BY <2>1
<1>7. f[x] = g[x]
  BY <1>4
<1> QED BY <1>5, <1>6, <1>7

(* The sum over no element is zero.                                        *)
LEMMA SumOfNothing == ASSUME NEW f PROVE SumFunctionOnSet(f, {}) = 0
<1>1. PICK it \in Sums(f, SUBSET {}) : SumFunctionOnSet(f, {}) = it[{}]
  BY SumIsSums, FS_EmptySet
<1> QED BY <1>1 DEF Sums, Step

(* The sum of integers over a finite set is an integer.                    *)
LEMMA SumType ==
    ASSUME NEW S, IsFiniteSet(S), NEW f, \A x \in S : f[x] \in Int
    PROVE  SumFunctionOnSet(f, S) \in Int
<1>1. PICK it \in Sums(f, SUBSET S) : SumFunctionOnSet(f, S) = it[S]
  BY SumIsSums
<1> QED BY <1>1 DEF Sums

(* The sum depends only on the values at the elements of the set.          *)
LEMMA SumSame ==
    ASSUME NEW S, IsFiniteSet(S), NEW f, NEW g, \A x \in S : f[x] \in Int /\ g[x] = f[x]
    PROVE  SumFunctionOnSet(g, S) = SumFunctionOnSet(f, S)
<1>1. PICK it \in Sums(f, SUBSET S) : SumFunctionOnSet(f, S) = it[S]
  BY SumIsSums
<1>2. PICK jt \in Sums(g, SUBSET S) : SumFunctionOnSet(g, S) = jt[S]
  BY SumIsSums
<1> QED BY <1>1, <1>2, SumsAgree

(* One element more adds its value.                                        *)
LEMMA SumAdds ==
    ASSUME NEW S, IsFiniteSet(S), NEW x, x \notin S,
           NEW f, \A y \in S \union {x} : f[y] \in Int
    PROVE  SumFunctionOnSet(f, S \union {x}) = SumFunctionOnSet(f, S) + f[x]
<1> DEFINE R == S \union {x}
<1>1. IsFiniteSet(R)
  BY FS_AddElement
<1>2. PICK it \in Sums(f, SUBSET S) : SumFunctionOnSet(f, S) = it[S]
  BY SumIsSums
<1>3. PICK jt \in Sums(f, SUBSET R) : SumFunctionOnSet(f, R) = jt[R]
  BY <1>1, SumIsSums
<1>4. jt[R] = f[x] + jt[R \ {x}]
  <2>1. R \in SUBSET R /\ x \in R
    OBVIOUS
  <2> HIDE DEF R
  <2>2. \A y \in R : f[y] \in Int
    BY DEF R
  <2> QED BY <1>1, <2>1, <2>2, SumPicks
<1>5. R \ {x} = S
  OBVIOUS
<1>6. jt[S] = it[S]
  <2>1. SUBSET S \subseteq SUBSET R
    OBVIOUS
  <2> QED BY <2>1, SumsAgree
<1>7. it[S] \in Int /\ f[x] \in Int
  BY DEF Sums
<1>8. SumFunctionOnSet(f, R) = f[x] + SumFunctionOnSet(f, S)
  BY <1>2, <1>3, <1>4, <1>5, <1>6
<1> QED BY <1>2, <1>7, <1>8

(* The sum over renamed elements is the sum.                               *)
LEMMA SumRenames ==
    ASSUME NEW S, IsFiniteSet(S), NEW T, NEW r \in Bijection(S, T),
           NEW f, NEW g, \A x \in S : g[x] \in Int /\ f[r[x]] = g[x]
    PROVE  SumFunctionOnSet(f, T) = SumFunctionOnSet(g, S)
<1> DEFINE Image(u) == {r[x] : x \in u}
<1>0. /\ \A x \in S : r[x] \in T
      /\ \A x, y \in S : r[x] = r[y] => x = y
      /\ \A z \in T : \E x \in S : r[x] = z
  BY DEF Bijection, Injection, Surjection, IsInjective
<1>1. IsFiniteSet(T)
  BY FS_Bijection DEF ExistsBijection
<1>2. \A z \in T : f[z] \in Int
  BY <1>0
<1>3. PICK it \in Sums(g, SUBSET S) : SumFunctionOnSet(g, S) = it[S]
  BY SumIsSums
<1>4. PICK jt \in Sums(f, SUBSET T) : SumFunctionOnSet(f, T) = jt[T]
  BY <1>1, <1>2, SumIsSums
<1>4a. ASSUME NEW v \in SUBSET T, NEW z \in v
       PROVE  jt[v] = f[z] + jt[v \ {z}]
  BY <1>1, <1>2, SumPicks
<1>5. Image(S) = T
  BY <1>0
<1>6. it[S] = jt[Image(S)]
  <2> DEFINE B == {u \in SUBSET S : it[u] # jt[Image(u)]}
  <2> SUFFICES ASSUME B # {} PROVE FALSE
    OBVIOUS
  <2>1. PICK u \in B : \A v \in B : v \subseteq u => v = u
    <3> HIDE DEF B
    <3>1. B \in SUBSET SUBSET S
      BY DEF B
    <3> QED BY <3>1, MinimalSubset
  <2>2. Image(u) \in SUBSET T
    BY <1>0
  <2>3. u # {}
    <3> SUFFICES ASSUME u = {} PROVE FALSE
      OBVIOUS
    <3>1. Image(u) = {}
      OBVIOUS
    <3>2. it[{}] = 0 /\ jt[{}] = 0
      BY DEF Sums, Step
    <3> QED BY <3>1, <3>2
  <2>4. PICK x \in u : TRUE
    BY <2>3
  <2>5. it[u] = g[x] + it[u \ {x}]
    BY SumPicks
  <2>6. jt[Image(u)] = f[r[x]] + jt[Image(u) \ {r[x]}]
    <3>1. r[x] \in Image(u)
      OBVIOUS
    <3> HIDE DEF Image, B
    <3> QED BY <3>1, <1>4a, <2>2
  <2>7. Image(u) \ {r[x]} = Image(u \ {x})
    BY <1>0
  <2>8. it[u \ {x}] = jt[Image(u \ {x})]
    <3>1. u \ {x} \notin B
      <4> HIDE DEF B
      <4> QED BY <2>1, <2>4
    <3> QED BY <3>1
  <2> QED BY <2>5, <2>6, <2>7, <2>8
<1> QED BY <1>3, <1>4, <1>5, <1>6

(* One value of a sum is replaced.                                          *)
LEMMA SumChanges ==
    ASSUME NEW D, IsFiniteSet(D), NEW x \in D, NEW f, NEW g,
           \A y \in D : f[y] \in Int /\ g[y] \in Int, \A y \in D \ {x} : g[y] = f[y]
    PROVE  SumFunctionOnSet(g, D) = SumFunctionOnSet(f, D) - f[x] + g[x]
<1> DEFINE E == D \ {x}
<1>1. IsFiniteSet(E) /\ x \notin E /\ D = E \union {x}
  BY FS_Subset
<1>2. \A y \in E : f[y] \in Int /\ g[y] = f[y]
  OBVIOUS
<1>3. \A y \in E \union {x} : f[y] \in Int /\ g[y] \in Int
  OBVIOUS
<1> HIDE DEF E
<1>4. SumFunctionOnSet(f, E \union {x}) = SumFunctionOnSet(f, E) + f[x]
  BY <1>1, <1>3, SumAdds
<1>5. SumFunctionOnSet(g, E \union {x}) = SumFunctionOnSet(g, E) + g[x]
  BY <1>1, <1>3, SumAdds
<1>6. SumFunctionOnSet(g, E) = SumFunctionOnSet(f, E) /\ SumFunctionOnSet(f, E) \in Int
  BY <1>1, <1>2, SumSame, SumType
<1>7. f[x] \in Int /\ g[x] \in Int
  OBVIOUS
<1> QED
  BY <1>1, <1>4, <1>5, <1>6, <1>7

(* A sum of zeros is zero.                                                  *)
LEMMA SumOfZeros ==
    ASSUME NEW D, IsFiniteSet(D), NEW f, \A y \in D : f[y] = 0
    PROVE  SumFunctionOnSet(f, D) = 0
<1> DEFINE Bad == {E \in SUBSET D : SumFunctionOnSet(f, E) # 0}
<1> SUFFICES ASSUME Bad # {}
             PROVE  FALSE
  OBVIOUS
<1>1. PICK E \in Bad : \A H1 \in Bad : H1 \subseteq E => H1 = E
  <2>1. Bad \in SUBSET SUBSET D
    OBVIOUS
  <2> HIDE DEF Bad
  <2> QED
    BY <2>1, MinimalSubset
<1>2. E \subseteq D /\ SumFunctionOnSet(f, E) # 0
  BY <1>1
<1>3. PICK x \in E : TRUE
  BY <1>2, SumOfNothing
<1>4. SumFunctionOnSet(f, E \ {x}) = 0
  BY <1>1, <1>2, <1>3
<1> DEFINE F1 == E \ {x}
<1>5. IsFiniteSet(F1) /\ x \notin F1 /\ E = F1 \union {x}
  BY <1>2, <1>3, FS_Subset
<1>6. \A y \in F1 \union {x} : f[y] \in Int
  BY <1>2, <1>3
<1>7. SumFunctionOnSet(f, F1) = 0
  BY <1>4
<1>8. f[x] = 0
  BY <1>2, <1>3
<1> HIDE DEF F1
<1>9. SumFunctionOnSet(f, F1 \union {x}) = 0
  BY <1>5, <1>6, <1>7, <1>8, SumAdds
<1> QED
  BY <1>2, <1>5, <1>9

(* Elements whose value is zero add nothing to a sum.                       *)
LEMMA SumIgnoresZeros ==
    ASSUME NEW D, IsFiniteSet(D), NEW E \in SUBSET D, NEW f,
           \A y \in D : f[y] \in Int, \A y \in D \ E : f[y] = 0
    PROVE  SumFunctionOnSet(f, E) = SumFunctionOnSet(f, D)
<1> DEFINE Bad == {V \in SUBSET (D \ E) : SumFunctionOnSet(f, E \union V) # SumFunctionOnSet(f, E)}
<1>0. IsFiniteSet(D \ E) /\ IsFiniteSet(E)
  BY FS_Subset
<1>1. Bad = {}
  <2> SUFFICES ASSUME Bad # {}
               PROVE  FALSE
    OBVIOUS
  <2>1. PICK V \in Bad : \A H1 \in Bad : H1 \subseteq V => H1 = V
    <3>1. Bad \in SUBSET SUBSET (D \ E)
      OBVIOUS
    <3> HIDE DEF Bad
    <3> QED
      BY <1>0, <3>1, MinimalSubset
  <2>2. V \subseteq D \ E /\ SumFunctionOnSet(f, E \union V) # SumFunctionOnSet(f, E)
    BY <2>1
  <2>3. PICK x \in V : TRUE
    <3>1. V = {} => E \union V = E
      OBVIOUS
    <3> QED
      BY <2>2, <3>1
  <2>4. V \ {x} \notin Bad
    BY <2>1, <2>3
  <2>5. SumFunctionOnSet(f, E \union (V \ {x})) = SumFunctionOnSet(f, E)
    BY <2>2, <2>4
  <2> DEFINE W1 == E \union (V \ {x})
  <2>6. W1 \subseteq D /\ x \in D /\ x \notin W1 /\ E \union V = W1 \union {x} /\ f[x] = 0
    BY <2>2, <2>3
  <2>7. IsFiniteSet(W1) /\ SumFunctionOnSet(f, W1) = SumFunctionOnSet(f, E)
    BY <2>5, <2>6, FS_Subset
  <2> HIDE DEF W1
  <2>8. SumFunctionOnSet(f, W1 \union {x}) = SumFunctionOnSet(f, W1) + f[x]
    BY <2>6, <2>7, SumAdds
  <2>9. SumFunctionOnSet(f, W1) \in Int
    BY <2>6, <2>7, SumType
  <2> QED
    <3>1. SumFunctionOnSet(f, W1 \union {x}) = SumFunctionOnSet(f, E)
      BY <2>6, <2>7, <2>8, <2>9
    <3> QED
      BY <2>2, <2>6, <3>1
<1>2. D \ E \notin Bad
  BY <1>1
<1>3. SumFunctionOnSet(f, E \union (D \ E)) = SumFunctionOnSet(f, E)
  BY <1>2
<1>4. E \union (D \ E) = D
  OBVIOUS
<1> QED
  BY <1>3, <1>4

(* The sum over two disjoint sets is that over one and that over the other. *)
LEMMA SumSplits ==
    ASSUME NEW S, IsFiniteSet(S), NEW T \in SUBSET S, NEW f, \A x \in S : f[x] \in Int
    PROVE  SumFunctionOnSet(f, S) = SumFunctionOnSet(f, T) + SumFunctionOnSet(f, S \ T)
<1> DEFINE R == S \ T
           Bad == {U \in SUBSET R : SumFunctionOnSet(f, T \union U)
                                      # SumFunctionOnSet(f, T) + SumFunctionOnSet(f, U)}
<1>0. IsFiniteSet(R) /\ IsFiniteSet(T) /\ T \union R = S
  BY FS_Subset
<1>1. SumFunctionOnSet(f, T) \in Int
  BY <1>0, SumType
<1> SUFFICES ASSUME Bad # {} PROVE FALSE
  <2>1. R \in SUBSET R /\ T \union R = S
    OBVIOUS
  <2> HIDE DEF R
  <2> QED
    BY <2>1 DEF R
<1>2. PICK U \in Bad : \A V \in Bad : V \subseteq U => V = U
  <2>1. Bad \in SUBSET SUBSET R
    OBVIOUS
  <2> HIDE DEF Bad, R
  <2> QED
    BY <1>0, <2>1, MinimalSubset
<1>3. U # {}
  <2>1. T \union {} = T
    OBVIOUS
  <2> QED
    BY <1>1, <2>1, SumOfNothing
<1>4. PICK x \in U : TRUE
  BY <1>3
<1> DEFINE V == U \ {x}
<1>5. V \in SUBSET R /\ x \notin V /\ U = V \union {x} /\ V # U
  OBVIOUS
<1>6. SumFunctionOnSet(f, T \union V) = SumFunctionOnSet(f, T) + SumFunctionOnSet(f, V)
  BY <1>2, <1>5
<1>7. SumFunctionOnSet(f, U) = SumFunctionOnSet(f, V) + f[x]
  <2>1. IsFiniteSet(V) /\ \A y \in V \union {x} : f[y] \in Int
    BY <1>0, <1>5, FS_Subset
  <2> HIDE DEF V
  <2> QED
    BY <1>5, <2>1, SumAdds
<1>8. SumFunctionOnSet(f, T \union U) = SumFunctionOnSet(f, T \union V) + f[x]
  <2> DEFINE W == T \union V
  <2>1. IsFiniteSet(W) /\ x \notin W /\ T \union U = W \union {x}
    <3>1. W \in SUBSET S
      BY <1>5
    <3>2. x \in R
      BY <1>5
    <3> QED
      BY <1>5, <3>1, <3>2, FS_Subset
  <2>2. \A y \in W \union {x} : f[y] \in Int
    BY <1>5
  <2> HIDE DEF W
  <2>3. SumFunctionOnSet(f, W \union {x}) = SumFunctionOnSet(f, W) + f[x]
    BY <2>1, <2>2, SumAdds
  <2> QED
    BY <2>1, <2>3 DEF W
<1>9. SumFunctionOnSet(f, V) \in Int /\ f[x] \in Int
  <2>1. IsFiniteSet(V) /\ \A y \in V : f[y] \in Int
    BY <1>0, <1>5, FS_Subset
  <2> HIDE DEF V
  <2> QED
    BY <2>1, SumType
<1> HIDE DEF V
<1>10. SumFunctionOnSet(f, T \union U) = SumFunctionOnSet(f, T) + SumFunctionOnSet(f, U)
  BY <1>1, <1>6, <1>7, <1>8, <1>9
<1> QED
  BY <1>2, <1>10

(* A property of the empty set and, with a set, of one element more holds    *)
(* of every finite set: it is told here by the sets that have it.           *)
LEMMA AllSubsets ==
    ASSUME NEW S, IsFiniteSet(S), NEW K, {} \in K,
           \A U \in SUBSET S : U \in K => \A x \in S \ U : U \union {x} \in K
    PROVE  S \in K
<1> DEFINE Bad == {U \in SUBSET S : U \notin K}
<1> SUFFICES ASSUME Bad # {} PROVE FALSE
  OBVIOUS
<1>1. PICK U \in Bad : \A V \in Bad : V \subseteq U => V = U
  <2>1. Bad \in SUBSET SUBSET S
    OBVIOUS
  <2> HIDE DEF Bad
  <2> QED
    BY <2>1, MinimalSubset
<1>2. PICK x \in U : TRUE
  BY <1>1
<1>3. /\ U \ {x} \in SUBSET S /\ U \ {x} # U /\ x \in S \ (U \ {x})
      /\ (U \ {x}) \union {x} = U
  OBVIOUS
<1>4. U \ {x} \in K
  BY <1>1, <1>3
<1> QED
  BY <1>1, <1>3, <1>4

(* Sums of nothing negative are not negative.                               *)
LEMMA SumOfNaturals ==
    ASSUME NEW S, IsFiniteSet(S), NEW f, \A x \in S : f[x] \in Nat
    PROVE  SumFunctionOnSet(f, S) \in Nat
<1> DEFINE K == {U \in SUBSET S : SumFunctionOnSet(f, U) \in Nat}
<1>1. {} \in K
  BY SumOfNothing
<1>2. ASSUME NEW U \in SUBSET S, U \in K, NEW x \in S \ U
      PROVE  U \union {x} \in K
  <2>1. IsFiniteSet(U) /\ \A y \in U \union {x} : f[y] \in Int
    BY FS_Subset
  <2>2. SumFunctionOnSet(f, U \union {x}) = SumFunctionOnSet(f, U) + f[x]
    BY <2>1, SumAdds
  <2>3. SumFunctionOnSet(f, U) \in Nat /\ f[x] \in Nat
    BY <1>2
  <2> QED
    BY <2>2, <2>3
<1>3. S \in K
  <2> HIDE DEF K
  <2> QED
    BY <1>1, <1>2, AllSubsets
<1> QED
  BY <1>3

(* The sum of the opposites is the opposite of the sum.                     *)
LEMMA SumOfOpposites ==
    ASSUME NEW S, IsFiniteSet(S), NEW f, NEW g,
           \A x \in S : f[x] \in Int /\ g[x] = -f[x]
    PROVE  SumFunctionOnSet(g, S) = -SumFunctionOnSet(f, S)
<1> DEFINE K == {U \in SUBSET S : SumFunctionOnSet(g, U) = -SumFunctionOnSet(f, U)}
<1>1. {} \in K
  BY SumOfNothing
<1>2. ASSUME NEW U \in SUBSET S, U \in K, NEW x \in S \ U
      PROVE  U \union {x} \in K
  <2>1. IsFiniteSet(U) /\ \A y \in U \union {x} : f[y] \in Int /\ g[y] \in Int
    BY FS_Subset
  <2>2. /\ SumFunctionOnSet(f, U \union {x}) = SumFunctionOnSet(f, U) + f[x]
        /\ SumFunctionOnSet(g, U \union {x}) = SumFunctionOnSet(g, U) + g[x]
    BY <2>1, SumAdds
  <2>3. SumFunctionOnSet(f, U) \in Int /\ f[x] \in Int /\ g[x] = -f[x]
    BY <2>1, SumType
  <2>4. SumFunctionOnSet(g, U) = -SumFunctionOnSet(f, U)
    BY <1>2
  <2> QED
    BY <2>2, <2>3, <2>4
<1>3. S \in K
  <2> HIDE DEF K
  <2> QED
    BY <1>1, <1>2, AllSubsets
<1> QED
  BY <1>3

(* The sums over the classes of a set.                                      *)
AreClassSums(sums, M, f, S, class) ==
    /\ \A x \in S : class[x] \in M
    /\ \A m \in M : sums[m] = SumFunctionOnSet(f, {x \in S : class[x] = m})

(* They add up to the sum over the set.                                     *)
LEMMA SumByClass ==
    ASSUME NEW S, IsFiniteSet(S), NEW M, IsFiniteSet(M),
           NEW f, \A x \in S : f[x] \in Int,
           NEW class, NEW sums, AreClassSums(sums, M, f, S, class)
    PROVE  SumFunctionOnSet(sums, M) = SumFunctionOnSet(f, S)
<1> DEFINE In(V) == {x \in S : class[x] \in V}
           Of(m) == {x \in S : class[x] = m}
           K == {V \in SUBSET M : SumFunctionOnSet(sums, V) = SumFunctionOnSet(f, In(V))}
<1>0. \A m \in M : sums[m] = SumFunctionOnSet(f, Of(m)) /\ sums[m] \in Int
  <2> SUFFICES ASSUME NEW m \in M
               PROVE  sums[m] = SumFunctionOnSet(f, Of(m)) /\ sums[m] \in Int
    OBVIOUS
  <2>1. sums[m] = SumFunctionOnSet(f, Of(m))
    BY DEF AreClassSums
  <2>2. Of(m) \in SUBSET S
    OBVIOUS
  <2> HIDE DEF Of
  <2>3. IsFiniteSet(Of(m)) /\ \A x \in Of(m) : f[x] \in Int
    BY <2>2, FS_Subset
  <2> QED
    BY <2>1, <2>3, SumType
<1>1. {} \in K
  <2>1. In({}) = {}
    OBVIOUS
  <2> HIDE DEF In
  <2> QED
    BY <2>1, SumOfNothing
<1>2. ASSUME NEW V \in SUBSET M, V \in K, NEW m \in M \ V
      PROVE  V \union {m} \in K
  <2>1. SumFunctionOnSet(sums, V \union {m}) = SumFunctionOnSet(sums, V) + sums[m]
    <3>1. IsFiniteSet(V) /\ \A k \in V \union {m} : sums[k] \in Int
      BY <1>0, FS_Subset
    <3> QED
      BY <3>1, SumAdds
  <2>2. /\ In(V \union {m}) \in SUBSET S /\ In(V) \in SUBSET In(V \union {m})
        /\ In(V \union {m}) \ In(V) = Of(m)
    OBVIOUS
  <2>3. SumFunctionOnSet(sums, V) = SumFunctionOnSet(f, In(V))
    BY <1>2
  <2> HIDE DEF In, Of
  <2>4. SumFunctionOnSet(f, In(V \union {m}))
          = SumFunctionOnSet(f, In(V)) + SumFunctionOnSet(f, Of(m))
    <3> DEFINE W == In(V \union {m})
    <3>1. IsFiniteSet(W) /\ \A x \in W : f[x] \in Int
      BY <2>2, FS_Subset
    <3>2. In(V) \in SUBSET W /\ W \ In(V) = Of(m)
      BY <2>2
    <3> HIDE DEF W
    <3>3. SumFunctionOnSet(f, W) = SumFunctionOnSet(f, In(V)) + SumFunctionOnSet(f, W \ In(V))
      BY <3>1, <3>2, SumSplits
    <3> QED
      BY <3>2, <3>3 DEF W
  <2>5. V \union {m} \in SUBSET M
    OBVIOUS
  <2> QED
    BY <1>0, <2>1, <2>3, <2>4, <2>5
<1>3. M \in K
  <2> HIDE DEF K
  <2> QED
    BY <1>1, <1>2, AllSubsets
<1>4. In(M) = S
  BY DEF AreClassSums
<1> HIDE DEF In
<1> QED
  BY <1>3, <1>4

=============================================================================
