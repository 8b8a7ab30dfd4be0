---------------------------- MODULE ReportsProofs ----------------------------
(***************************************************************************)
(* Proofs about the lists and sums the server reads from its rows, for any  *)
(* users, markets, payments and any number of trades.                       *)
(*                                                                         *)
(* Lists and their pages are computed by recursions over a sequence. What   *)
(* the theorems say of them is shown by induction over the sets of those    *)
(* numbers, or sequences, of which it holds.                                *)
(***************************************************************************)
EXTENDS Reports, SumTheorems, SequenceTheorems

(***************************************************************************)
(* Inductions.                                                             *)
(***************************************************************************)

(* A set of numbers with 0 and with the next of each is that of all.        *)
LEMMA AllNaturals ==
    ASSUME NEW T \in SUBSET Nat, 0 \in T, \A n \in T : n + 1 \in T
    PROVE  \A n \in Nat : n \in T
<1> SUFFICES ASSUME Nat \ T # {} PROVE FALSE
  OBVIOUS
<1>1. PICK n \in Nat \ T : \A m \in Nat \ T : n <= m
  BY LeastNatural
<1>2. n # 0 /\ n - 1 \in Nat /\ n = (n - 1) + 1
  BY <1>1
<1>3. n - 1 \in T
  BY <1>1, <1>2
<1> QED
  BY <1>1, <1>2, <1>3

(* A set of sequences with the empty one and with one more element on each  *)
(* is that of all.                                                          *)
LEMMA AllSequences ==
    ASSUME NEW S, NEW T, <<>> \in T,
           \A s \in Seq(S) : s \in T => \A e \in S : Append(s, e) \in T
    PROVE  \A s \in Seq(S) : s \in T
<1> DEFINE N == {n \in Nat : \A s \in Seq(S) : Len(s) = n => s \in T}
<1>1. 0 \in N
  BY EmptySeq
<1>2. \A n \in N : n + 1 \in N
  <2> SUFFICES ASSUME NEW n \in N, NEW s \in Seq(S), Len(s) = n + 1
               PROVE  s \in T
    OBVIOUS
  <2>1. s # <<>>
    BY EmptySeq
  <2>2. PICK r \in Seq(S), e \in S : s = Append(r, e)
    BY <2>1, SequenceEmptyOrAppend
  <2>3. Len(r) \in Nat /\ Len(s) = Len(r) + 1
    BY <2>2, AppendProperties, LenProperties
  <2>4. r \in T
    BY <2>3
  <2> QED
    BY <2>2, <2>4
<1>3. \A n \in Nat : n \in N
  <2> HIDE DEF N
  <2>1. N \in SUBSET Nat
    BY DEF N
  <2> QED
    BY <1>1, <1>2, <2>1, AllNaturals
<1> QED
  BY <1>3, LenProperties

(* A finite set of integers has a highest.                                  *)
LEMMA FiniteSetHasHighest ==
    ASSUME NEW S, IsFiniteSet(S), S # {}, \A x \in S : x \in Int
    PROVE  \E p \in S : \A q \in S : q <= p
<1> DEFINE Above(p) == {q \in S : p < q}
           T == {Above(p) : p \in S}
<1>1. T \in SUBSET SUBSET S /\ T # {}
  OBVIOUS
<1>2. ASSUME NEW p \in S, NEW q \in S, p < q
      PROVE  Above(q) \subseteq Above(p) /\ q \in Above(p) /\ q \notin Above(q)
  <2>1. p \in Int /\ q \in Int /\ \A x \in S : x \in Int
    OBVIOUS
  <2>2. \A x \in S : q < x => p < x
    BY <1>2, <2>1
  <2>3. ~(q < q)
    BY <2>1
  <2> QED
    BY <1>2, <2>2, <2>3
<1>3. PICK U \in T : \A V \in T : V \subseteq U => V = U
  <2> HIDE DEF T
  <2> QED
    BY <1>1, MinimalSubset
<1>4. PICK p \in S : U = Above(p)
  OBVIOUS
<1>5. \A q \in S : Above(q) \in T
  OBVIOUS
<1> HIDE DEF Above, T
<1>6. \A q \in S : ~(p < q)
  BY <1>2, <1>3, <1>4, <1>5
<1> QED
  BY <1>6

(* A recursion over the numbers to n has a solution.                        *)
Rules(n, X) == [1 .. n -> [X -> X]]
Chains(n, X, a, g) ==
    {f \in [0 .. n -> X] : f[0] = a /\ \A i \in 1 .. n : f[i] = g[i][f[i - 1]]}

LEMMA ChainExists ==
    ASSUME NEW n \in Nat, NEW X, NEW a \in X, NEW g \in Rules(n, X)
    PROVE  \E f : f \in Chains(n, X, a, g)
<1> DEFINE Chain(f, m) == f[0] = a /\ \A i \in 1 .. m : f[i] = g[i][f[i - 1]]
           Solved(m) == \E f \in [0 .. m -> X] : Chain(f, m)
           T == {m \in Nat : m <= n => Solved(m)}
<1>1. 0 \in T
  <2>1. [i \in 0 .. 0 |-> a] \in [0 .. 0 -> X] /\ Chain([i \in 0 .. 0 |-> a], 0)
    OBVIOUS
  <2> QED
    BY <2>1
<1>2. ASSUME NEW m \in Nat, m + 1 <= n, Solved(m)
      PROVE  Solved(m + 1)
  <2>1. PICK f \in [0 .. m -> X] : Chain(f, m)
    BY <1>2
  <2>0. g \in [1 .. n -> [X -> X]]
    BY DEF Rules
  <2> DEFINE h == [i \in 0 .. m + 1 |-> IF i = m + 1 THEN g[m + 1][f[m]] ELSE f[i]]
  <2>2. m \in Nat /\ f[m] \in X /\ g[m + 1] \in [X -> X]
    BY <1>2, <2>0, <2>1
  <2>3. h \in [0 .. m + 1 -> X]
    BY <2>2
  <2>4. h[0] = a /\ h[m + 1] = g[m + 1][h[m]]
    BY <2>1, <2>2
  <2>5. \A i \in 1 .. m : h[i] = f[i] /\ h[i - 1] = f[i - 1]
    BY <2>2
  <2>6. \A i \in 1 .. m + 1 : h[i] = g[i][h[i - 1]]
    <3> SUFFICES ASSUME NEW i \in 1 .. m + 1 PROVE h[i] = g[i][h[i - 1]]
      OBVIOUS
    <3>1. CASE i = m + 1
      <4>1. i - 1 = m
        BY <3>1, <2>2
      <4> HIDE DEF h
      <4> QED
        BY <3>1, <4>1, <2>4
    <3>2. CASE i # m + 1
      <4>1. i \in 1 .. m
        BY <3>2, <2>2
      <4> HIDE DEF h
      <4> QED
        BY <4>1, <2>5, <2>1
    <3> QED
      BY <3>1, <3>2
  <2> HIDE DEF h
  <2> QED
    BY <2>3, <2>4, <2>6
<1>3. n \in T
  <2> HIDE DEF Solved
  <2>1. T \in SUBSET Nat /\ \A m \in T : m + 1 \in T
    BY <1>2
  <2> HIDE DEF T
  <2> QED
    BY <1>1, <2>1, AllNaturals
<1> QED
  BY <1>3 DEF Chains

(***************************************************************************)
(* Lists that are filtered.                                                *)
(***************************************************************************)

(* What is kept of one row.                                                 *)
Kept(row, rows) == IF row \in rows THEN <<row>> ELSE <<>>

LEMMA KeptType ==
    ASSUME NEW S, NEW e \in S, NEW rows
    PROVE  Kept(e, rows) \in Seq(S) /\ Len(Kept(e, rows)) \in 0 .. 1
  BY DEF Kept

(* A list is filtered row by row.                                           *)
LEMMA FilterSteps ==
    ASSUME NEW S, NEW list \in Seq(S), NEW rows
    PROVE  \E f \in [0 .. Len(list) -> Seq(S)] :
             /\ f[0] = <<>>
             /\ \A i \in 1 .. Len(list) : f[i] = f[i - 1] \o Kept(list[i], rows)
             /\ Filter(list, rows) = f[Len(list)]
<1> DEFINE n == Len(list)
           body(f) == [i \in 0 .. Len(list) |->
                         IF i = 0 THEN <<>>
                         ELSE f[i - 1] \o (IF list[i] \in rows THEN <<list[i]>> ELSE <<>>)]
           it == CHOOSE f : f = body(f)
           g == [i \in 1 .. n |-> [x \in Seq(S) |-> x \o Kept(list[i], rows)]]
<1>1. n \in Nat /\ \A i \in 1 .. n : list[i] \in S
  BY LenProperties, ElementOfSeq
<1>2. g \in [1 .. n -> [Seq(S) -> Seq(S)]]
  BY <1>1, KeptType, ConcatProperties
<1>3. PICK f \in [0 .. n -> Seq(S)] : f[0] = <<>> /\ \A i \in 1 .. n : f[i] = g[i][f[i - 1]]
  <2>1. PICK a \in Seq(S) : a = <<>>
    BY EmptySeq
  <2>2. g \in Rules(n, Seq(S))
    BY <1>2 DEF Rules
  <2> HIDE DEF g, n
  <2>3. \E f : f \in Chains(n, Seq(S), a, g)
    BY <1>1, <2>2, ChainExists
  <2> QED
    BY <2>1, <2>3 DEF Chains
<1>4. \A i \in 1 .. n : f[i] = f[i - 1] \o Kept(list[i], rows)
  <2> SUFFICES ASSUME NEW i \in 1 .. n PROVE f[i] = f[i - 1] \o Kept(list[i], rows)
    OBVIOUS
  <2>1. i - 1 \in 0 .. n /\ f[i - 1] \in Seq(S)
    BY <1>1, <1>3
  <2>2. g[i] = [x \in Seq(S) |-> x \o Kept(list[i], rows)]
    OBVIOUS
  <2>3. f[i] = g[i][f[i - 1]]
    BY <1>3
  <2> HIDE DEF g
  <2> QED
    BY <2>1, <2>2, <2>3
<1>0. ASSUME NEW h
      PROVE  /\ body(h)[0] = <<>>
             /\ \A i \in 1 .. n : body(h)[i] = h[i - 1] \o Kept(list[i], rows)
  <2>1. body(h)[0] = <<>>
    BY <1>1
  <2>2. ASSUME NEW i \in 1 .. n
        PROVE  body(h)[i] = h[i - 1] \o (IF list[i] \in rows THEN <<list[i]>> ELSE <<>>)
    <3>1. i \in 0 .. n /\ i # 0
      BY <1>1
    <3> QED
      BY <3>1
  <2> HIDE DEF body
  <2> QED
    BY <2>1, <2>2 DEF Kept
<1>5. f = body(f)
  <2>1. \A i \in 0 .. n : f[i] = body(f)[i]
    <3>1. \A i \in 0 .. n : i = 0 \/ i \in 1 .. n
      BY <1>1
    <3> HIDE DEF body
    <3> QED
      BY <1>0, <1>3, <1>4, <3>1
  <2>2. f = [i \in 0 .. n |-> f[i]]
    BY <1>3
  <2>3. body(f) = [i \in 0 .. n |-> body(f)[i]]
    OBVIOUS
  <2> HIDE DEF body
  <2> QED
    BY <2>1, <2>2, <2>3
<1>6. it = body(it)
  BY <1>5
<1>7. Filter(list, rows) = it[n]
  BY DEF Filter
<1> HIDE DEF it
<1>8. it[0] = <<>> /\ \A i \in 1 .. n : it[i] = it[i - 1] \o Kept(list[i], rows)
  <2> HIDE DEF body
  <2> QED
    BY <1>0, <1>6
<1>9. it \in [0 .. n -> Seq(S)]
  <2> DEFINE T == {i \in Nat : i <= n => it[i] = f[i]}
  <2>1. 0 \in T
    BY <1>3, <1>8
  <2>2. \A i \in T : i + 1 \in T
    <3> SUFFICES ASSUME NEW i \in T, i + 1 <= n PROVE it[i + 1] = f[i + 1]
      OBVIOUS
    <3>1. i + 1 \in 1 .. n /\ (i + 1) - 1 = i /\ it[i] = f[i]
      BY <1>1
    <3> HIDE DEF T
    <3>2. it[i + 1] = it[i] \o Kept(list[i + 1], rows)
      BY <3>1, <1>8
    <3>3. f[i + 1] = f[i] \o Kept(list[i + 1], rows)
      BY <3>1, <1>4
    <3> QED
      BY <3>1, <3>2, <3>3
  <2>3. \A i \in Nat : i \in T
    <3> HIDE DEF T
    <3>1. T \in SUBSET Nat
      BY DEF T
    <3> QED
      BY <2>1, <2>2, <3>1, AllNaturals
  <2>4. \A i \in 0 .. n : it[i] = f[i]
    BY <2>3, <1>1
  <2> QED
    BY <2>4, <1>3, <1>6
<1> QED
  BY <1>7, <1>8, <1>9

LEMMA FilterOfNothing == ASSUME NEW rows PROVE Filter(<<>>, rows) = <<>>
<1>1. ASSUME NEW S, NEW none \in Seq(S), none = <<>>, Len(none) = 0
      PROVE  Filter(none, rows) = <<>>
  <2>1. \E f \in [0 .. Len(none) -> Seq(S)] :
             /\ f[0] = <<>>
             /\ \A i \in 1 .. Len(none) : f[i] = f[i - 1] \o Kept(none[i], rows)
             /\ Filter(none, rows) = f[Len(none)]
    BY FilterSteps, Zenon
  <2> QED
    BY <1>1, <2>1
<1>2. \E none \in Seq({}) : none = <<>> /\ Len(none) = 0
  BY EmptySeq
<1> QED
  BY <1>1, <1>2

(* One row more adds what is kept of it.                                    *)
LEMMA FilterOfAppend ==
    ASSUME NEW S, NEW list \in Seq(S), NEW e \in S, NEW rows
    PROVE  Filter(Append(list, e), rows) = Filter(list, rows) \o Kept(e, rows)
<1> DEFINE n == Len(list)
           more == Append(list, e)
<1>1. /\ n \in Nat /\ more \in Seq(S) /\ Len(more) = n + 1
      /\ more[n + 1] = e /\ \A i \in 1 .. n : more[i] = list[i]
  BY AppendProperties, LenProperties
<1>2. PICK f \in [0 .. n -> Seq(S)] :
             /\ f[0] = <<>>
             /\ \A i \in 1 .. n : f[i] = f[i - 1] \o Kept(list[i], rows)
             /\ Filter(list, rows) = f[n]
  <2>1. \E f \in [0 .. Len(list) -> Seq(S)] :
             /\ f[0] = <<>>
             /\ \A i \in 1 .. Len(list) : f[i] = f[i - 1] \o Kept(list[i], rows)
             /\ Filter(list, rows) = f[Len(list)]
    BY FilterSteps, Zenon
  <2> QED BY <2>1
<1> HIDE DEF n, more
<1>3. PICK h \in [0 .. n + 1 -> Seq(S)] :
             /\ h[0] = <<>>
             /\ \A i \in 1 .. n + 1 : h[i] = h[i - 1] \o Kept(more[i], rows)
             /\ Filter(more, rows) = h[n + 1]
  BY <1>1, FilterSteps
<1>4. h[n] = f[n]
  <2> DEFINE T == {i \in Nat : i <= n => h[i] = f[i]}
  <2>1. 0 \in T
    BY <1>2, <1>3
  <2>2. \A i \in T : i + 1 \in T
    <3> SUFFICES ASSUME NEW i \in T, i + 1 <= n PROVE h[i + 1] = f[i + 1]
      OBVIOUS
    <3>1. i + 1 \in 1 .. n /\ i + 1 \in 1 .. n + 1 /\ (i + 1) - 1 = i /\ h[i] = f[i]
      BY <1>1
    <3> HIDE DEF T
    <3>2. h[i + 1] = h[i] \o Kept(more[i + 1], rows)
      BY <3>1, <1>3
    <3>3. f[i + 1] = f[i] \o Kept(list[i + 1], rows)
      BY <3>1, <1>2
    <3> QED
      BY <3>1, <3>2, <3>3, <1>1
  <2>3. n \in T
    <3> HIDE DEF T
    <3>1. T \in SUBSET Nat
      BY DEF T
    <3> QED
      BY <1>1, <2>1, <2>2, <3>1, AllNaturals
  <2> QED
    BY <2>3
<1>5. h[n + 1] = h[n] \o Kept(more[n + 1], rows)
  <2>1. n + 1 \in 1 .. n + 1 /\ (n + 1) - 1 = n
    BY <1>1
  <2> QED
    BY <2>1, <1>3
<1> QED
  BY <1>1, <1>2, <1>3, <1>4, <1>5 DEF more

(* Rows are dropped, never made.                                            *)
LEMMA FilterType ==
    ASSUME NEW S, NEW rows
    PROVE  \A list \in Seq(S) : Filter(list, rows) \in Seq(S) /\ Len(Filter(list, rows)) <= Len(list)
<1> DEFINE T == {list \in Seq(S) : Filter(list, rows) \in Seq(S)
                                    /\ Len(Filter(list, rows)) <= Len(list)}
<1>1. <<>> \in T
  <2>1. <<>> \in Seq(S) /\ Len(<<>>) <= Len(<<>>)
    BY EmptySeq
  <2> QED
    BY <2>1, FilterOfNothing
<1>2. ASSUME NEW s \in Seq(S), s \in T, NEW e \in S
      PROVE  Append(s, e) \in T
  <2> DEFINE old == Filter(s, rows)
             kept == Kept(e, rows)
  <2>1. old \in Seq(S) /\ Len(old) <= Len(s) /\ Len(s) \in Nat /\ Len(old) \in Nat
    BY <1>2, LenProperties
  <2>2. kept \in Seq(S) /\ Len(kept) \in 0 .. 1
    BY KeptType
  <2>3. Filter(Append(s, e), rows) = old \o kept
    BY FilterOfAppend
  <2>4. Append(s, e) \in Seq(S) /\ Len(Append(s, e)) = Len(s) + 1
    BY AppendProperties
  <2> HIDE DEF old, kept
  <2>5. old \o kept \in Seq(S) /\ Len(old \o kept) = Len(old) + Len(kept)
    BY <2>1, <2>2, ConcatProperties
  <2>6. /\ Filter(Append(s, e), rows) \in Seq(S)
        /\ Len(Filter(Append(s, e), rows)) <= Len(Append(s, e))
    BY <2>1, <2>2, <2>3, <2>4, <2>5
  <2> QED
    BY <2>4, <2>6
<1> HIDE DEF T
<1>3. \A s \in Seq(S) : s \in T
  BY <1>1, <1>2, AllSequences
<1> QED
  BY <1>3 DEF T

(* The parts of a list may be filtered one by one.                          *)
LEMMA FilterOfConcat ==
    ASSUME NEW S, NEW a \in Seq(S), NEW rows
    PROVE  \A b \in Seq(S) : Filter(a \o b, rows) = Filter(a, rows) \o Filter(b, rows)
<1> DEFINE T == {b \in Seq(S) : Filter(a \o b, rows) = Filter(a, rows) \o Filter(b, rows)}
<1>0. \A s \in Seq(S) : Filter(s, rows) \in Seq(S)
  BY FilterType
<1>1. <<>> \in T
  BY <1>0, FilterOfNothing, EmptySeq, ConcatEmptySeq
<1>2. ASSUME NEW s \in Seq(S), s \in T, NEW e \in S
      PROVE  Append(s, e) \in T
  <2>1. a \o s \in Seq(S) /\ Append(s, e) \in Seq(S)
    BY ConcatProperties, AppendProperties
  <2>2. a \o Append(s, e) = Append(a \o s, e)
    <3>1. <<e>> \in Seq(S)
      OBVIOUS
    <3> QED
      BY <2>1, <3>1, AppendIsConcat, ConcatAssociative
  <2>3. Filter(Append(a \o s, e), rows) = Filter(a \o s, rows) \o Kept(e, rows)
    BY <2>1, FilterOfAppend
  <2>4. Filter(a \o s, rows) = Filter(a, rows) \o Filter(s, rows)
    BY <1>2
  <2>5. Filter(Append(s, e), rows) = Filter(s, rows) \o Kept(e, rows)
    BY FilterOfAppend
  <2>6. (Filter(a, rows) \o Filter(s, rows)) \o Kept(e, rows)
          = Filter(a, rows) \o (Filter(s, rows) \o Kept(e, rows))
    BY <1>0, KeptType, ConcatAssociative
  <2> QED
    BY <2>1, <2>2, <2>3, <2>4, <2>5, <2>6
<1> HIDE DEF T
<1>3. \A s \in Seq(S) : s \in T
  BY <1>1, <1>2, AllSequences
<1> QED
  BY <1>3 DEF T

(* To filter twice is to filter by both.                                    *)
LEMMA FilterTwice ==
    ASSUME NEW S, NEW A, NEW B
    PROVE  \A list \in Seq(S) : Filter(Filter(list, A), B) = Filter(list, A \intersect B)
<1> DEFINE T == {list \in Seq(S) : Filter(Filter(list, A), B) = Filter(list, A \intersect B)}
<1>1. <<>> \in T
  BY FilterOfNothing, EmptySeq
<1>2. ASSUME NEW s \in Seq(S), s \in T, NEW e \in S
      PROVE  Append(s, e) \in T
  <2>1. Filter(s, A) \in Seq(S) /\ Filter(Filter(s, A), B) \in Seq(S)
    BY FilterType
  <2>2. Filter(Append(s, e), A) = Filter(s, A) \o Kept(e, A)
    BY FilterOfAppend
  <2>3. Filter(Append(s, e), A \intersect B) = Filter(s, A \intersect B) \o Kept(e, A \intersect B)
    BY FilterOfAppend
  <2>4. Append(s, e) \in Seq(S) /\ Filter(Filter(s, A), B) = Filter(s, A \intersect B)
    BY <1>2, AppendProperties
  <2>5. CASE e \in A
    <3>1. Kept(e, A) = <<e>> /\ Kept(e, A \intersect B) = Kept(e, B)
      BY <2>5 DEF Kept
    <3>2. Filter(s, A) \o <<e>> = Append(Filter(s, A), e)
      BY <2>1, AppendIsConcat
    <3>3. Filter(Append(Filter(s, A), e), B) = Filter(Filter(s, A), B) \o Kept(e, B)
      BY <2>1, FilterOfAppend
    <3> QED
      BY <2>2, <2>3, <2>4, <3>1, <3>2, <3>3
  <2>6. CASE e \notin A
    <3>1. Kept(e, A) = <<>> /\ Kept(e, A \intersect B) = <<>>
      BY <2>6 DEF Kept
    <3>2. Filter(s, A) \o <<>> = Filter(s, A) /\ Filter(Filter(s, A), B) \o <<>> = Filter(Filter(s, A), B)
      BY <2>1, ConcatEmptySeq
    <3> QED
      BY <2>2, <2>3, <2>4, <3>1, <3>2
  <2> QED
    BY <2>5, <2>6
<1> HIDE DEF T
<1>3. \A s \in Seq(S) : s \in T
  BY <1>1, <1>2, AllSequences
<1> QED
  BY <1>3 DEF T

(***************************************************************************)
(* Lists that are put one behind the other, and the pages of a list.       *)
(***************************************************************************)

LEMMA FlattenOfNothing == FlattenSeq(<<>>) = <<>>
<1>1. Len(<<>>) = 0
  BY EmptySeq
<1> QED
  BY <1>1 DEF FlattenSeq

(* Lists are put together one by one.                                       *)
LEMMA FlattenSteps ==
    ASSUME NEW S, NEW seqs \in Seq(Seq(S))
    PROVE  \E f \in [0 .. Len(seqs) -> Seq(S)] :
             /\ f[0] = <<>>
             /\ \A i \in 1 .. Len(seqs) : f[i] = f[i - 1] \o seqs[i]
             /\ FlattenSeq(seqs) = f[Len(seqs)]
<1> DEFINE n == Len(seqs)
           body(f) == [i \in 1 .. Len(seqs) |->
                         IF i = 1 THEN seqs[i] ELSE f[i - 1] \o seqs[i]]
           it == CHOOSE f : f = body(f)
           g == [i \in 1 .. n |-> [x \in Seq(S) |-> x \o seqs[i]]]
<1>1. n \in Nat /\ \A i \in 1 .. n : seqs[i] \in Seq(S)
  BY LenProperties, ElementOfSeq
<1>2. g \in [1 .. n -> [Seq(S) -> Seq(S)]]
  BY <1>1, ConcatProperties
<1>3. PICK f \in [0 .. n -> Seq(S)] : f[0] = <<>> /\ \A i \in 1 .. n : f[i] = g[i][f[i - 1]]
  <2>1. PICK a \in Seq(S) : a = <<>>
    BY EmptySeq
  <2>2. g \in Rules(n, Seq(S))
    BY <1>2 DEF Rules
  <2> HIDE DEF g, n
  <2>3. \E f : f \in Chains(n, Seq(S), a, g)
    BY <1>1, <2>2, ChainExists
  <2> QED
    BY <2>1, <2>3 DEF Chains
<1>4. \A i \in 1 .. n : f[i] = f[i - 1] \o seqs[i]
  <2> SUFFICES ASSUME NEW i \in 1 .. n PROVE f[i] = f[i - 1] \o seqs[i]
    OBVIOUS
  <2>1. i - 1 \in 0 .. n
    BY <1>1
  <2>2. g[i] = [x \in Seq(S) |-> x \o seqs[i]]
    OBVIOUS
  <2>3. f[i] = g[i][f[i - 1]]
    BY <1>3
  <2> HIDE DEF g
  <2> QED
    BY <2>1, <2>2, <2>3
<1>5. CASE n = 0
  <2>1. seqs = <<>>
    BY <1>5, EmptySeq
  <2> QED
    BY <1>3, <1>4, <1>5, <2>1, FlattenOfNothing
<1>6. CASE n # 0
  <2> DEFINE h == [i \in 1 .. n |-> f[i]]
  <2>0. ASSUME NEW k
        PROVE  /\ body(k)[1] = seqs[1]
               /\ \A i \in 2 .. n : body(k)[i] = k[i - 1] \o seqs[i]
    <3>1. 1 \in 1 .. n
      BY <1>1, <1>6
    <3>2. body(k)[1] = seqs[1]
      BY <3>1
    <3>3. ASSUME NEW i \in 2 .. n
          PROVE  body(k)[i] = k[i - 1] \o seqs[i]
      <4>1. i \in 1 .. n /\ i # 1
        BY <1>1
      <4> QED
        BY <4>1
    <3> HIDE DEF body
    <3> QED
      BY <3>2, <3>3
  <2>1. f[1] = seqs[1]
    <3>1. 1 \in 1 .. n /\ 1 - 1 = 0 /\ seqs[1] \in Seq(S)
      BY <1>1, <1>6
    <3>2. f[1] = <<>> \o seqs[1]
      BY <3>1, <1>3, <1>4
    <3> QED
      BY <3>1, <3>2, ConcatEmptySeq
  <2>2. h[1] = seqs[1] /\ \A i \in 2 .. n : h[i] = h[i - 1] \o seqs[i]
    <3>1. 1 \in 1 .. n /\ \A i \in 2 .. n : i \in 1 .. n /\ i - 1 \in 1 .. n
      BY <1>1, <1>6
    <3>2. \A i \in 1 .. n : h[i] = f[i]
      OBVIOUS
    <3> HIDE DEF h
    <3> QED
      BY <1>4, <2>1, <3>1, <3>2
  <2>3. h = body(h)
    <3>1. \A i \in 1 .. n : i = 1 \/ i \in 2 .. n
      BY <1>1
    <3>2. h = [i \in 1 .. n |-> h[i]]
      OBVIOUS
    <3>3. body(h) = [i \in 1 .. n |-> body(h)[i]]
      OBVIOUS
    <3> HIDE DEF body, h
    <3>4. \A i \in 1 .. n : h[i] = body(h)[i]
      BY <2>0, <2>2, <3>1
    <3> QED
      BY <3>2, <3>3, <3>4
  <2>4. it = body(it)
    <3> HIDE DEF h
    <3> QED
      BY <2>3
  <2>5. FlattenSeq(seqs) = it[n]
    BY <1>6 DEF FlattenSeq
  <2> HIDE DEF it, h
  <2>6. it[1] = seqs[1] /\ \A i \in 2 .. n : it[i] = it[i - 1] \o seqs[i]
    <3> HIDE DEF body
    <3>1. \A i \in 2 .. n : body(it)[i] = it[i - 1] \o seqs[i]
      BY <2>0
    <3>2. body(it)[1] = seqs[1]
      BY <2>0
    <3> QED
      BY <2>4, <3>1, <3>2
  <2>7. it[n] = f[n]
    <3> DEFINE T == {i \in Nat : i + 1 <= n => it[i + 1] = f[i + 1]}
    <3>1. 0 \in T
      BY <2>1, <2>6
    <3>2. \A i \in T : i + 1 \in T
      <4> SUFFICES ASSUME NEW i \in T, (i + 1) + 1 <= n PROVE it[(i + 1) + 1] = f[(i + 1) + 1]
        OBVIOUS
      <4>1. /\ (i + 1) + 1 \in 1 .. n /\ (i + 1) + 1 \in 2 .. n
            /\ ((i + 1) + 1) - 1 = i + 1 /\ it[i + 1] = f[i + 1]
        BY <1>1
      <4> HIDE DEF T
      <4>2. it[(i + 1) + 1] = it[i + 1] \o seqs[(i + 1) + 1]
        BY <4>1, <2>6
      <4>3. f[(i + 1) + 1] = f[i + 1] \o seqs[(i + 1) + 1]
        BY <4>1, <1>4
      <4> QED
        BY <4>1, <4>2, <4>3
    <3>3. n - 1 \in Nat /\ (n - 1) + 1 = n
      BY <1>1, <1>6
    <3>4. n - 1 \in T
      <4> HIDE DEF T
      <4>1. T \in SUBSET Nat
        BY DEF T
      <4> QED
        BY <3>1, <3>2, <3>3, <4>1, AllNaturals
    <3> QED
      BY <3>3, <3>4
  <2> QED
    BY <1>3, <1>4, <2>5, <2>7
<1> QED
  BY <1>5, <1>6

LEMMA FlattenType ==
    ASSUME NEW S, NEW seqs \in Seq(Seq(S))
    PROVE  FlattenSeq(seqs) \in Seq(S)
<1>1. PICK f \in [0 .. Len(seqs) -> Seq(S)] :
             /\ f[0] = <<>>
             /\ \A i \in 1 .. Len(seqs) : f[i] = f[i - 1] \o seqs[i]
             /\ FlattenSeq(seqs) = f[Len(seqs)]
  BY FlattenSteps
<1>2. Len(seqs) \in 0 .. Len(seqs)
  BY LenProperties
<1> QED
  BY <1>1, <1>2

(* One list more comes behind the others.                                   *)
LEMMA FlattenOfAppend ==
    ASSUME NEW S, NEW seqs \in Seq(Seq(S)), NEW s \in Seq(S)
    PROVE  FlattenSeq(Append(seqs, s)) = FlattenSeq(seqs) \o s
<1> DEFINE n == Len(seqs)
           more == Append(seqs, s)
<1>1. /\ n \in Nat /\ more \in Seq(Seq(S)) /\ Len(more) = n + 1
      /\ more[n + 1] = s /\ \A i \in 1 .. n : more[i] = seqs[i]
  BY AppendProperties, LenProperties
<1>2. PICK f \in [0 .. n -> Seq(S)] :
             /\ f[0] = <<>>
             /\ \A i \in 1 .. n : f[i] = f[i - 1] \o seqs[i]
             /\ FlattenSeq(seqs) = f[n]
  BY FlattenSteps
<1>0. n \in Nat /\ more \in Seq(Seq(S)) /\ Len(more) = n + 1
  BY <1>1
<1> HIDE DEF n, more
<1>3. PICK h \in [0 .. n + 1 -> Seq(S)] :
             /\ h[0] = <<>>
             /\ \A i \in 1 .. n + 1 : h[i] = h[i - 1] \o more[i]
             /\ FlattenSeq(more) = h[n + 1]
  <2>1. \E h \in [0 .. Len(more) -> Seq(S)] :
             /\ h[0] = <<>>
             /\ \A i \in 1 .. Len(more) : h[i] = h[i - 1] \o more[i]
             /\ FlattenSeq(more) = h[Len(more)]
    BY <1>0, FlattenSteps
  <2> QED
    BY <1>0, <2>1
<1>4. h[n] = f[n]
  <2> DEFINE T == {i \in Nat : i <= n => h[i] = f[i]}
  <2>1. 0 \in T
    BY <1>2, <1>3
  <2>2. \A i \in T : i + 1 \in T
    <3> SUFFICES ASSUME NEW i \in T, i + 1 <= n PROVE h[i + 1] = f[i + 1]
      OBVIOUS
    <3>1. i + 1 \in 1 .. n /\ i + 1 \in 1 .. n + 1 /\ (i + 1) - 1 = i /\ h[i] = f[i]
      BY <1>1
    <3> HIDE DEF T
    <3>2. h[i + 1] = h[i] \o more[i + 1]
      BY <3>1, <1>3
    <3>3. f[i + 1] = f[i] \o seqs[i + 1]
      BY <3>1, <1>2
    <3> QED
      BY <3>1, <3>2, <3>3, <1>1
  <2>3. n \in T
    <3> HIDE DEF T
    <3>1. T \in SUBSET Nat
      BY DEF T
    <3> QED
      BY <1>1, <2>1, <2>2, <3>1, AllNaturals
  <2> QED
    BY <2>3
<1>5. h[n + 1] = h[n] \o more[n + 1]
  <2>1. n + 1 \in 1 .. n + 1 /\ (n + 1) - 1 = n
    BY <1>0
  <2> QED
    BY <2>1, <1>3
<1> QED
  BY <1>1, <1>2, <1>3, <1>4, <1>5 DEF more

(* The first n pages of a list are what it has up to their end.             *)
PagesOf(list, n, take) == [i \in 1 .. n |-> Page(list, (i - 1) * take, take)]

LEMMA PagesType ==
    ASSUME NEW S, NEW list \in Seq(S), NEW take \in Nat, NEW n \in Nat
    PROVE  /\ \A i \in 1 .. n + 1 : Page(list, (i - 1) * take, take) \in Seq(S)
           /\ PagesOf(list, n, take) \in Seq(Seq(S))
           /\ PagesOf(list, n + 1, take)
                = Append(PagesOf(list, n, take), Page(list, n * take, take))
<1>1. ASSUME NEW i \in 1 .. n + 1
      PROVE  Page(list, (i - 1) * take, take) \in Seq(S)
  <2>1. PICK from \in Nat : from = (i - 1) * take
    <3>1. i - 1 \in Nat
      OBVIOUS
    <3> QED
      BY <3>1
  <2>2. Len(list) \in Nat /\ \A j \in 1 .. Len(list) : list[j] \in S
    BY LenProperties, ElementOfSeq
  <2>3. PICK to \in Int : to = Lesser(from + take, Len(list)) /\ to <= Len(list)
    BY <2>2 DEF Lesser
  <2>4. SubSeq(list, from + 1, to) \in Seq(S)
    BY <2>2, <2>3, SubSeqProperties
  <2> QED
    BY <2>1, <2>3, <2>4 DEF Page
<1> DEFINE P(i) == Page(list, (i - 1) * take, take)
<1>2. (n + 1) - 1 = n
  OBVIOUS
<1>3. P(n + 1) = Page(list, n * take, take)
  BY <1>2
<1>4. \A i \in 1 .. n + 1 : P(i) \in Seq(S)
  BY <1>1
<1>5. /\ PagesOf(list, n, take) = [i \in 1 .. n |-> P(i)]
      /\ PagesOf(list, n + 1, take) = [i \in 1 .. n + 1 |-> P(i)]
  BY DEF PagesOf
<1> HIDE DEF P
<1>6. [i \in 1 .. n |-> P(i)] \in Seq(Seq(S)) /\ [i \in 1 .. n + 1 |-> P(i)] \in Seq(Seq(S))
  <2>1. /\ [i \in 1 .. n |-> P(i)] \in [1 .. n -> Seq(S)]
        /\ [i \in 1 .. n + 1 |-> P(i)] \in [1 .. n + 1 -> Seq(S)]
        /\ n + 1 \in Nat
    BY <1>4
  <2> QED
    BY <2>1, SeqDef
<1>7. [i \in 1 .. n + 1 |-> P(i)] = Append([i \in 1 .. n |-> P(i)], P(n + 1))
  <2>1. Len([i \in 1 .. n |-> P(i)]) = n
    BY <1>6, LenProperties
  <2> QED
    BY <1>4, <1>6, <2>1
<1> QED
  BY <1>1, <1>3, <1>5, <1>6, <1>7

LEMMA PagesOfList ==
    ASSUME NEW S, NEW list \in Seq(S), NEW take \in Nat, take > 0
    PROVE  \A n \in Nat :
              FlattenSeq(PagesOf(list, n, take)) = SubSeq(list, 1, Lesser(n * take, Len(list)))
<1> DEFINE len == Len(list)
           T == {n \in Nat :
                   FlattenSeq(PagesOf(list, n, take)) = SubSeq(list, 1, Lesser(n * take, len))}
<1>0. len \in Nat
  BY LenProperties
<1>1. 0 \in T
  <2>1. PagesOf(list, 0, take) = <<>>
    BY DEF PagesOf
  <2>2. Lesser(0 * take, len) = 0
    BY <1>0 DEF Lesser
  <2>3. SubSeq(list, 1, 0) = <<>>
    BY SubSeqEmpty
  <2> QED
    BY <2>1, <2>2, <2>3, FlattenOfNothing
<1>2. ASSUME NEW n \in Nat, n \in T
      PROVE  n + 1 \in T
  <2>1. PICK from \in Nat : from = n * take
    OBVIOUS
  <2>2. (n + 1) * take = from + take
    BY <2>1
  <2>3. PagesOf(list, n, take) \in Seq(Seq(S)) /\ Page(list, from, take) \in Seq(S)
    <3>1. n + 1 \in 1 .. n + 1 /\ (n + 1) - 1 = n
      OBVIOUS
    <3> QED
      BY <2>1, <3>1, PagesType
  <2>4. FlattenSeq(PagesOf(list, n + 1, take))
          = FlattenSeq(PagesOf(list, n, take)) \o Page(list, from, take)
    <3>1. PagesOf(list, n + 1, take) = Append(PagesOf(list, n, take), Page(list, from, take))
      BY <2>1, PagesType
    <3> QED
      BY <2>3, <3>1, FlattenOfAppend
  <2>5. FlattenSeq(PagesOf(list, n, take)) = SubSeq(list, 1, Lesser(from, len))
    BY <1>2, <2>1
  <2>7. len \in Nat /\ len = Len(list)
    BY <1>0
  <2> HIDE DEF len
  <2>6. SubSeq(list, 1, Lesser(from, len)) \o Page(list, from, take)
          = SubSeq(list, 1, Lesser(from + take, len))
    <3>1. CASE from <= len
      <4>1. PICK to \in from .. len : to = Lesser(from + take, len)
        BY <1>0, <3>1 DEF Lesser
      <4>2. Lesser(from, len) = from
        BY <1>0, <3>1 DEF Lesser
      <4>3. /\ 1 \in 1 .. Len(list) + 1 /\ from \in 1 - 1 .. Len(list)
            /\ to \in from .. Len(list)
        BY <1>0, <3>1 DEF len
      <4>4. SubSeq(list, 1, from) \o SubSeq(list, from + 1, to) = SubSeq(list, 1, to)
        BY <4>3, ConcatAdjacentSubSeq
      <4> QED
        BY <4>1, <4>2, <4>4 DEF Page, len
    <3>2. CASE len < from
      <4>1. Lesser(from, len) = len /\ Lesser(from + take, len) = len
        BY <1>0, <3>2 DEF Lesser
      <4>2. Page(list, from, take) = <<>>
        <5>1. SubSeq(list, from + 1, len) = <<>>
          BY <1>0, <3>2, SubSeqEmpty
        <5> QED
          BY <4>1, <5>1 DEF Page, len
      <4>3. SubSeq(list, 1, len) \in Seq(S)
        BY SubSeqFull DEF len
      <4> QED
        BY <4>1, <4>2, <4>3, ConcatEmptySeq
    <3>3. from <= len \/ len < from
      BY <1>0, <2>7
    <3> QED
      BY <3>1, <3>2, <3>3
  <2>8. FlattenSeq(PagesOf(list, n + 1, take)) = SubSeq(list, 1, Lesser((n + 1) * take, len))
    BY <2>2, <2>4, <2>5, <2>6
  <2>9. n + 1 \in Nat
    OBVIOUS
  <2> QED
    BY <2>8, <2>9, Zenon
<1>3. \A n \in Nat : n \in T
  <2> HIDE DEF T
  <2>1. T \in SUBSET Nat
    BY DEF T
  <2> QED
    BY <1>1, <1>2, <2>1, AllNaturals
<1> QED
  BY <1>3

(* Enough pages are the whole list.                                         *)
LEMMA PagesAreTheList ==
    ASSUME NEW S, NEW list \in Seq(S), NEW take \in Nat, take > 0, NEW n \in Nat, Len(list) <= n
    PROVE  FlattenSeq(PagesOf(list, n, take)) = list
<1>1. Len(list) \in Nat /\ n * take \in Nat /\ n * take >= n
  <2>1. PICK k \in Nat : take = k + 1
    <3>1. take - 1 \in Nat /\ take = (take - 1) + 1
      OBVIOUS
    <3> QED
      BY <3>1
  <2>2. n * (k + 1) = n * k + n /\ n * k \in Nat
    OBVIOUS
  <2> QED
    BY <2>1, <2>2, LenProperties
<1>2. Lesser(n * take, Len(list)) = Len(list)
  BY <1>1 DEF Lesser
<1> QED
  BY <1>2, PagesOfList, SubSeqFull

(* Lists may be filtered before or after they are put together.             *)
LEMMA FlattenOfFiltered ==
    ASSUME NEW S, NEW rows
    PROVE  \A seqs \in Seq(Seq(S)) :
              FlattenSeq([i \in DOMAIN seqs |-> Filter(seqs[i], rows)])
                = Filter(FlattenSeq(seqs), rows)
<1> DEFINE each(seqs) == [i \in DOMAIN seqs |-> Filter(seqs[i], rows)]
           T == {seqs \in Seq(Seq(S)) : FlattenSeq(each(seqs)) = Filter(FlattenSeq(seqs), rows)}
<1>1. <<>> \in T
  <2>1. <<>> \in Seq(Seq(S)) /\ each(<<>>) = <<>>
    BY EmptySeq
  <2> HIDE DEF each
  <2> QED
    BY <2>1, FlattenOfNothing, FilterOfNothing
<1>2. ASSUME NEW r \in Seq(Seq(S)), r \in T, NEW s \in Seq(S)
      PROVE  Append(r, s) \in T
  <2>1. /\ Append(r, s) \in Seq(Seq(S)) /\ DOMAIN Append(r, s) = 1 .. Len(r) + 1
        /\ Append(r, s)[Len(r) + 1] = s /\ \A i \in 1 .. Len(r) : Append(r, s)[i] = r[i]
        /\ DOMAIN r = 1 .. Len(r) /\ Len(r) \in Nat
        /\ \A i \in 1 .. Len(r) : r[i] \in Seq(S)
    BY AppendProperties, LenProperties, ElementOfSeq
  <2>2. each(r) \in Seq(Seq(S)) /\ Len(each(r)) = Len(r) /\ Filter(s, rows) \in Seq(S)
    <3>1. each(r) \in [1 .. Len(r) -> Seq(S)]
      BY <2>1, FilterType
    <3> HIDE DEF each
    <3>2. each(r) \in Seq(Seq(S))
      <4>1. \A n \in Nat : \A f \in [1 .. n -> Seq(S)] : f \in Seq(Seq(S))
        BY SeqDef
      <4> QED
        BY <2>1, <3>1, <4>1
    <3>3. DOMAIN each(r) = 1 .. Len(r)
      BY <3>1
    <3>4. Len(each(r)) = Len(r)
      BY <3>2, <3>3, <2>1, LenProperties
    <3> QED
      BY <3>2, <3>4, FilterType
  <2>3. each(Append(r, s)) = Append(each(r), Filter(s, rows))
    <3>1. each(Append(r, s)) = [i \in 1 .. Len(r) + 1 |-> Filter(Append(r, s)[i], rows)]
      BY <2>1
    <3>2. \A i \in 1 .. Len(r) : each(r)[i] = Filter(r[i], rows)
      BY <2>1
    <3> DEFINE e == each(r)
    <3> HIDE DEF each
    <3>3. e \in Seq(Seq(S)) /\ Len(e) = Len(r) /\ \A i \in 1 .. Len(r) : e[i] = Filter(r[i], rows)
      BY <2>2, <3>2
    <3> HIDE DEF e
    <3>4. Append(e, Filter(s, rows)) \in [1 .. Len(r) + 1 -> Seq(S)]
      <4>1. /\ Append(e, Filter(s, rows)) \in Seq(Seq(S))
            /\ Len(Append(e, Filter(s, rows))) = Len(r) + 1
        BY <3>3, <2>2, AppendProperties
      <4> QED
        BY <4>1, LenProperties
    <3>5. \A i \in 1 .. Len(r) + 1 :
            Append(e, Filter(s, rows))[i] = Filter(Append(r, s)[i], rows)
      <4>1. Append(e, Filter(s, rows))[Len(r) + 1] = Filter(s, rows)
        BY <3>3, <2>2, AppendProperties
      <4>2. \A i \in 1 .. Len(r) : Append(e, Filter(s, rows))[i] = Filter(r[i], rows)
        BY <3>3, <2>2, AppendProperties
      <4>3. \A i \in 1 .. Len(r) + 1 : i = Len(r) + 1 \/ i \in 1 .. Len(r)
        BY <2>1
      <4> QED
        BY <4>1, <4>2, <4>3, <2>1
    <3>6. Append(e, Filter(s, rows))
            = [i \in 1 .. Len(r) + 1 |-> Append(e, Filter(s, rows))[i]]
      BY <3>4
    <3> QED
      BY <3>1, <3>5, <3>6 DEF e
  <2>4. FlattenSeq(each(r)) = Filter(FlattenSeq(r), rows)
    BY <1>2
  <2> HIDE DEF each
  <2>5. FlattenSeq(each(Append(r, s))) = FlattenSeq(each(r)) \o Filter(s, rows)
    BY <2>2, <2>3, FlattenOfAppend
  <2>6. Filter(FlattenSeq(Append(r, s)), rows) = Filter(FlattenSeq(r), rows) \o Filter(s, rows)
    <3>1. FlattenSeq(Append(r, s)) = FlattenSeq(r) \o s /\ FlattenSeq(r) \in Seq(S)
      BY FlattenOfAppend, FlattenType
    <3> QED
      BY <3>1, FilterOfConcat
  <2> QED
    BY <2>1, <2>4, <2>5, <2>6
<1> HIDE DEF T
<1>3. \A seqs \in Seq(Seq(S)) : seqs \in T
  BY <1>1, <1>2, AllSequences
<1> QED
  BY <1>3 DEF T

(***************************************************************************)
(* The rows.                                                               *)
(***************************************************************************)

(* What the constants are: a finite table of two markets or more, as Pin     *)
(* asks for the highest priority of the others.                             *)
ConstantsOK ==
    /\ IsFiniteSet(Markets) /\ Markets \subseteq Int
    /\ \E a, b \in Markets : a # b
    /\ IsFiniteSet(Users) /\ Nobody \notin Users
    /\ Amounts \subseteq Nat /\ MaxTrades \in Nat

TradeRows == [user : Users \union {Nobody}, market : Markets, mode : {"buy", "sell"},
              payment : Amounts]

TypeInv ==
    /\ trades \in Seq(TradeRows) /\ Len(trades) <= MaxTrades
    /\ closed \subseteq Markets /\ resolved \subseteq closed
    /\ priority \in [Markets -> Int]

LEMMA TypeInvStart == ConstantsOK /\ Init => TypeInv
<1> SUFFICES ASSUME ConstantsOK, Init PROVE TypeInv
  OBVIOUS
<1>1. trades \in Seq(TradeRows) /\ Len(trades) <= MaxTrades
  <2>1. <<>> \in Seq(TradeRows) /\ Len(<<>>) = 0
    BY EmptySeq
  <2> QED
    BY <2>1 DEF ConstantsOK, Init
<1> QED
  BY <1>1 DEF Init, TypeInv

LEMMA TypeInvStep == ConstantsOK /\ TypeInv /\ [Next]_vars => TypeInv'
<1> SUFFICES ASSUME ConstantsOK, TypeInv, [Next]_vars PROVE TypeInv'
  OBVIOUS
<1>0. CASE UNCHANGED vars
  BY <1>0 DEF vars, TypeInv
<1>1. ASSUME NEW m \in Markets, Trade(m) PROVE TypeInv'
  <2>1. PICK user \in Users \union {Nobody}, mode \in {"buy", "sell"}, payment \in Amounts :
          trades' = Append(trades, [user |-> user, market |-> m, mode |-> mode,
                                    payment |-> payment])
    BY <1>1 DEF Trade
  <2>2. [user |-> user, market |-> m, mode |-> mode, payment |-> payment] \in TradeRows
    BY DEF TradeRows
  <2>3. trades' \in Seq(TradeRows) /\ Len(trades') = Len(trades) + 1 /\ Len(trades) \in Nat
    BY <2>1, <2>2, AppendProperties, LenProperties DEF TypeInv
  <2>4. Len(trades) < MaxTrades /\ UNCHANGED <<closed, resolved, priority>>
    BY <1>1 DEF Trade
  <2> QED
    BY <2>3, <2>4 DEF TypeInv, ConstantsOK
<1>2. ASSUME NEW m \in Markets, Close(m) \/ Resolve(m) \/ RemoveMarket(m) \/ SaveStale(m)
      PROVE  TypeInv'
  BY <1>2 DEF Close, Resolve, RemoveMarket, SaveStale, TypeInv
<1>3. ASSUME NEW m \in Markets, Pin(m) PROVE TypeInv'
  <2> DEFINE others == {priority[n] : n \in Markets \ {m}}
             top == CHOOSE p \in others : \A q \in others : q <= p
  <2>1. IsFiniteSet(others) /\ others \subseteq Int /\ others # {}
    <3>1. IsFiniteSet(Markets \ {m})
      BY FS_RemoveElement DEF ConstantsOK
    <3>2. \E r \in Surjection(Markets \ {m}, others) : TRUE
      <4>1. [n \in Markets \ {m} |-> priority[n]] \in Surjection(Markets \ {m}, others)
        BY DEF Surjection
      <4> QED
        BY <4>1
    <3>3. IsFiniteSet(others)
      <4> HIDE DEF others
      <4> QED
        BY <3>1, <3>2, FS_Surjection
    <3> QED
      BY <3>3 DEF TypeInv, ConstantsOK
  <2>2. top \in others
    <3> HIDE DEF others
    <3>1. \E p \in others : \A q \in others : q <= p
      BY <2>1, FiniteSetHasHighest
    <3> QED
      BY <3>1
  <2>3. priority' = [priority EXCEPT ![m] = 1 + top]
    BY <1>3 DEF Pin
  <2>4. top \in Int
    BY <2>1, <2>2
  <2> HIDE DEF top
  <2> QED
    BY <1>3, <2>3, <2>4 DEF Pin, TypeInv
<1>4. ASSUME NEW m \in Markets, SetPriority(m) PROVE TypeInv'
  BY <1>4 DEF SetPriority, TypeInv
<1> QED
  BY <1>0, <1>1, <1>2, <1>3, <1>4 DEF Next

(***************************************************************************)
(* Pages.                                                                  *)
(***************************************************************************)

(* A function on 1 .. n is a sequence.                                      *)
LEMMA AnySequence ==
    ASSUME NEW n \in Nat, NEW f, DOMAIN f = 1 .. n, f = [i \in 1 .. n |-> f[i]]
    PROVE  f \in Seq({f[i] : i \in 1 .. n}) /\ Len(f) = n
<1> DEFINE S == {f[i] : i \in 1 .. n}
<1>1. f \in [1 .. n -> S]
  OBVIOUS
<1> HIDE DEF S
<1>2. f \in Seq(S)
  <2>1. \A k \in Nat : \A h \in [1 .. k -> S] : h \in Seq(S)
    BY SeqDef
  <2> QED
    BY <1>1, <2>1
<1>3. Len(f) = n
  <2>1. Len(f) \in Nat /\ DOMAIN f = 1 .. Len(f)
    BY <1>2, LenProperties
  <2> QED
    BY <2>1
<1> QED
  BY <1>2, <1>3 DEF S

LEMMA SortedType ==
    ASSUME ConstantsOK, NEW status, NEW prioritized
    PROVE  /\ WithStatus(status) \subseteq Markets /\ IsFiniteSet(WithStatus(status))
           /\ Cardinality(WithStatus(status)) \in Nat
           /\ Cardinality(WithStatus(status)) <= Cardinality(Markets)
           /\ DOMAIN Sorted(status, prioritized) = 1 .. Cardinality(WithStatus(status))
           /\ \E S : Sorted(status, prioritized) \in Seq(S)
           /\ Len(Sorted(status, prioritized)) = Cardinality(WithStatus(status))
<1> DEFINE n == Cardinality(WithStatus(status))
           list == Sorted(status, prioritized)
<1>1. /\ WithStatus(status) \subseteq Markets /\ IsFiniteSet(WithStatus(status))
      /\ n \in Nat /\ n <= Cardinality(Markets)
  BY FS_Subset, FS_CardinalityType DEF WithStatus, ConstantsOK
<1>2. DOMAIN list = 1 .. n /\ list = [i \in 1 .. n |-> list[i]]
  BY DEF Sorted
<1> HIDE DEF list, n
<1>3. list \in Seq({list[i] : i \in 1 .. n}) /\ Len(list) = n
  BY <1>1, <1>2, AnySequence
<1> QED
  BY <1>1, <1>2, <1>3 DEF list, n

(***************************************************************************)
(* The order of a list.                                                    *)
(***************************************************************************)

(* Where earlier[m] is who comes before m, and no two are without an order, *)
(* the number of those before is a place of its own for each.               *)
LEMMA Places ==
    ASSUME NEW W, IsFiniteSet(W), NEW earlier,
           \A a \in W : earlier[a] \subseteq W /\ a \notin earlier[a],
           \A a, b, c \in W : a \in earlier[b] /\ b \in earlier[c] => a \in earlier[c],
           \A a, b \in W : a # b => a \in earlier[b] \/ b \in earlier[a],
           NEW place, place = [m \in W |-> 1 + Cardinality(earlier[m])]
    PROVE  /\ place \in Bijection(W, 1 .. Cardinality(W))
           /\ \A a, b \in W : place[a] < place[b] => a \in earlier[b]
<1>1. \A a \in W : /\ IsFiniteSet(earlier[a]) /\ Cardinality(earlier[a]) \in Nat
                   /\ Cardinality(earlier[a]) < Cardinality(W)
  <2> SUFFICES ASSUME NEW a \in W
               PROVE  /\ IsFiniteSet(earlier[a]) /\ Cardinality(earlier[a]) \in Nat
                      /\ Cardinality(earlier[a]) < Cardinality(W)
    OBVIOUS
  <2>1. earlier[a] \in SUBSET W /\ earlier[a] # W
    OBVIOUS
  <2>2. /\ IsFiniteSet(earlier[a]) /\ Cardinality(earlier[a]) <= Cardinality(W)
        /\ Cardinality(earlier[a]) # Cardinality(W)
    BY <2>1, FS_Subset
  <2>3. Cardinality(earlier[a]) \in Nat /\ Cardinality(W) \in Nat
    BY <2>2, FS_CardinalityType
  <2> QED
    BY <2>2, <2>3
<1>2. Cardinality(W) \in Nat
  BY FS_CardinalityType
<1>3. ASSUME NEW a \in W, NEW b \in W, a \in earlier[b]
      PROVE  place[a] < place[b]
  <2>1. earlier[a] \in SUBSET earlier[b] /\ earlier[a] # earlier[b]
    BY <1>3
  <2>2. /\ Cardinality(earlier[a]) <= Cardinality(earlier[b])
        /\ Cardinality(earlier[a]) # Cardinality(earlier[b])
    BY <1>1, <2>1, FS_Subset
  <2> QED
    BY <1>1, <2>2
<1>4. \A a \in W : place[a] \in 1 .. Cardinality(W)
  BY <1>1, <1>2
<1>5. \A a, b \in W : place[a] < place[b] => a \in earlier[b]
  <2> SUFFICES ASSUME NEW a \in W, NEW b \in W, place[a] < place[b], a \notin earlier[b]
               PROVE  FALSE
    OBVIOUS
  <2>1. place[a] \in Int /\ place[b] \in Int
    BY <1>4
  <2>2. a # b
    BY <2>1
  <2>3. b \in earlier[a]
    BY <2>2
  <2> QED
    BY <1>3, <2>1, <2>3
<1>6. place \in Injection(W, 1 .. Cardinality(W))
  <2>1. place \in [W -> 1 .. Cardinality(W)]
    BY <1>4
  <2>2. \A a, b \in W : place[a] = place[b] => a = b
    <3> SUFFICES ASSUME NEW a \in W, NEW b \in W, place[a] = place[b], a # b
                 PROVE  FALSE
      OBVIOUS
    <3>1. place[a] \in Int /\ place[b] \in Int /\ (a \in earlier[b] \/ b \in earlier[a])
      BY <1>4
    <3> QED
      BY <1>3, <3>1
  <2> QED
    BY <2>1, <2>2 DEF Injection, IsInjective
<1>7. place \in Surjection(W, 1 .. Cardinality(W))
  <2> DEFINE T == 1 .. Cardinality(W)
  <2>1. IsFiniteSet(T) /\ Cardinality(T) = Cardinality(W)
    <3>1. /\ IsFiniteSet(1 .. Cardinality(W))
          /\ Cardinality(1 .. Cardinality(W))
               = IF 1 > Cardinality(W) THEN 0 ELSE Cardinality(W) - 1 + 1
      BY <1>2, FS_Interval
    <3> QED
      BY <1>2, <3>1
  <2>2. place \in Injection(W, T)
    BY <1>6
  <2> HIDE DEF T
  <2>3. place \in Surjection(W, T)
    BY <2>1, <2>2, FS_Injection
  <2> QED
    BY <2>3 DEF T
<1> QED
  BY <1>5, <1>6, <1>7 DEF Bijection

(* The comparisons are strict orders, and compare any two markets.          *)
LEMMA BeforeOrders ==
    ASSUME ConstantsOK, TypeInv, NEW prioritized
    PROVE  /\ \A a \in Markets : ~Before(prioritized, a, a)
           /\ \A a, b, c \in Markets :
                 Before(prioritized, a, b) /\ Before(prioritized, b, c)
                   => Before(prioritized, a, c)
           /\ \A a, b \in Markets :
                 a # b => Before(prioritized, a, b) \/ Before(prioritized, b, a)
<1>1. \A a \in Markets : a \in Int /\ priority[a] \in Int
  BY DEF ConstantsOK, TypeInv
<1>2. CASE prioritized
  <2>1. \A a, b \in Markets :
           Before(prioritized, a, b)
             <=> \/ priority[a] > priority[b]
                 \/ priority[a] = priority[b] /\ a < b
    BY <1>1, <1>2 DEF Before
  <2> QED
    BY <1>1, <2>1
<1>3. CASE ~prioritized
  <2>1. \A a, b \in Markets : Before(prioritized, a, b) <=> a < b
    BY <1>3 DEF Before
  <2> QED
    BY <1>1, <2>1
<1> QED
  BY <1>2, <1>3

(* A list has every market of its status.                                   *)
LEMMA ListsAreComplete ==
    ASSUME ConstantsOK, TypeInv, NEW status, NEW prioritized
    PROVE  Range(Sorted(status, prioritized)) = WithStatus(status)
<1> DEFINE list == Sorted(status, prioritized)
           W == WithStatus(status)
           n == Cardinality(W)
           earlier == [m \in W |-> {k \in W : Before(prioritized, k, m)}]
           place == [m \in W |-> 1 + Cardinality(earlier[m])]
<1>1. W \subseteq Markets /\ IsFiniteSet(W) /\ n \in Nat /\ DOMAIN list = 1 .. n
  BY SortedType
<1>2. \A m \in W : earlier[m] \subseteq W
                   /\ \A k \in W : k \in earlier[m] <=> Before(prioritized, k, m)
  OBVIOUS
<1>3. \A m \in W : place[m] = Rank(status, prioritized, m)
  BY DEF Rank
<1>4. \A i \in 1 .. n : list[i] = CHOOSE m \in W : Rank(status, prioritized, m) = i
  BY DEF Sorted
<1>5. /\ place \in Bijection(W, 1 .. n)
      /\ \A a, b \in W : place[a] < place[b] => a \in earlier[b]
  <2> HIDE DEF W, earlier
  <2>1. \A a \in W : earlier[a] \subseteq W /\ a \notin earlier[a]
    BY <1>1, <1>2, BeforeOrders
  <2>2. \A a, b, c \in W : a \in earlier[b] /\ b \in earlier[c] => a \in earlier[c]
    BY <1>1, <1>2, BeforeOrders
  <2>3. \A a, b \in W : a # b => a \in earlier[b] \/ b \in earlier[a]
    BY <1>1, <1>2, BeforeOrders
  <2>4. place = [m \in W |-> 1 + Cardinality(earlier[m])]
    OBVIOUS
  <2> HIDE DEF place
  <2> QED
    BY <1>1, <2>1, <2>2, <2>3, <2>4, Places
<1> HIDE DEF W, n, earlier, place, list
<1>6. \A i \in 1 .. n : list[i] \in W /\ place[list[i]] = i
  <2> SUFFICES ASSUME NEW i \in 1 .. n PROVE list[i] \in W /\ place[list[i]] = i
    OBVIOUS
  <2>1. \E m \in W : place[m] = i
    BY <1>5 DEF Bijection, Surjection
  <2>2. \E m \in W : Rank(status, prioritized, m) = i
    BY <1>3, <2>1
  <2>3. list[i] \in W /\ Rank(status, prioritized, list[i]) = i
    BY <1>4, <2>2
  <2> QED
    BY <1>3, <2>3
<1>7. \A m \in W : place[m] \in 1 .. n /\ list[place[m]] = m
  <2>1. \A m \in W : place[m] \in 1 .. n
    BY <1>5 DEF Bijection, Injection
  <2>2. \A a, b \in W : place[a] = place[b] => a = b
    BY <1>5 DEF Bijection, Injection, IsInjective
  <2> QED
    BY <1>6, <2>1, <2>2
<1>8. Range(list) = W
  BY <1>1, <1>6, <1>7 DEF Range
<1> QED
  BY <1>8 DEF list, W

(* The pages of a list make it up: each market of a status is on one of     *)
(* them, and each trade of a user.                                          *)
THEOREM PagesMakeUp == ConstantsOK /\ TypeInv => PagesMakeUpLists
<1> SUFFICES ASSUME ConstantsOK, TypeInv PROVE PagesMakeUpLists
  OBVIOUS
<1>1. ASSUME NEW status \in Statuses, NEW take \in 1 .. 2, NEW prioritized \in BOOLEAN
      PROVE  Pages(LAMBDA s, t : FindMarkets(status, prioritized, s, t),
                   Cardinality(Markets), take) = Sorted(status, prioritized)
  <2> DEFINE list == Sorted(status, prioritized)
             n == Cardinality(Markets)
  <2>1. Pages(LAMBDA s, t : FindMarkets(status, prioritized, s, t), n, take)
          = FlattenSeq(PagesOf(list, n, take))
    BY DEF Pages, PagesOf, FindMarkets
  <2>2. \E S : list \in Seq(S)
    BY SortedType
  <2>3. n \in Nat /\ Len(list) <= n /\ take \in Nat /\ take > 0
    <3>1. n \in Nat
      BY FS_CardinalityType DEF ConstantsOK
    <3>2. Len(list) <= n
      BY SortedType
    <3> QED
      BY <3>1, <3>2
  <2> HIDE DEF list, n
  <2>4. FlattenSeq(PagesOf(list, n, take)) = list
    BY <2>2, <2>3, PagesAreTheList
  <2> QED
    BY <2>1, <2>4 DEF list, n
<1>2. ASSUME NEW user \in Users, NEW result \in {"any", "won", "lost"}, NEW take \in 1 .. 2
      PROVE  Pages(LAMBDA s, t : FindTrades(user, result, s, t), MaxTrades, take)
               = Filter(trades, TradesOf(user) \intersect TradesWith(result))
  <2> DEFINE mine == Filter(trades, TradesOf(user))
             pages == PagesOf(mine, MaxTrades, take)
             rows == TradesWith(result)
  <2>1. DOMAIN pages = 1 .. MaxTrades
    BY DEF PagesOf
  <2>2. Pages(LAMBDA s, t : FindTrades(user, result, s, t), MaxTrades, take)
          = FlattenSeq([i \in DOMAIN pages |-> Filter(pages[i], rows)])
    BY DEF Pages, PagesOf, FindTrades
  <2>3. /\ MaxTrades \in Nat /\ take \in Nat /\ take > 0 /\ trades \in Seq(TradeRows)
        /\ mine \in Seq(TradeRows) /\ Len(mine) <= MaxTrades
    <3>1. mine \in Seq(TradeRows) /\ Len(mine) <= Len(trades) /\ Len(trades) <= MaxTrades
      BY FilterType DEF TypeInv
    <3>2. Len(mine) \in Nat /\ Len(trades) \in Nat
      BY <3>1, LenProperties DEF TypeInv
    <3> QED
      BY <3>1, <3>2 DEF ConstantsOK, TypeInv
  <2>4. Filter(mine, rows) = Filter(trades, TradesOf(user) \intersect rows)
    BY <2>3, FilterTwice
  <2> HIDE DEF mine, rows
  <2>5. pages \in Seq(Seq(TradeRows)) /\ FlattenSeq(pages) = mine
    BY <2>3, PagesType, PagesAreTheList
  <2> HIDE DEF pages
  <2>6. FlattenSeq([i \in DOMAIN pages |-> Filter(pages[i], rows)]) = Filter(mine, rows)
    BY <2>5, FlattenOfFiltered
  <2> QED
    BY <2>2, <2>4, <2>6 DEF rows
<1>3. ASSUME NEW status, NEW prioritized
      PROVE  Range(Sorted(status, prioritized)) = WithStatus(status)
  BY ListsAreComplete
<1> QED
  BY <1>1, <1>2, <1>3 DEF PagesMakeUpLists

(***************************************************************************)
(* Sums.                                                                   *)
(***************************************************************************)

(* The rows by their numbers, what was paid for each and what it added.      *)
Rows == DOMAIN trades
Paid == [i \in Rows |-> trades[i].payment]
Added == [i \in Rows |-> Signed(trades[i])]
Bought == {i \in Rows : trades[i].mode = "buy"}
RowsOf(m) == {i \in Rows : trades[i].market = m}
Mine(u) == {i \in Rows : trades[i].user = u}
Total(f, rows) == SumFunctionOnSet(f, rows)

LEMMA RowsType ==
    ASSUME ConstantsOK, TypeInv
    PROVE  /\ IsFiniteSet(Rows)
           /\ \A i \in Rows : /\ trades[i] \in TradeRows
                              /\ trades[i].market \in Markets
                              /\ trades[i].user \in Users \union {Nobody}
                              /\ trades[i].mode \in {"buy", "sell"}
                              /\ Paid[i] = trades[i].payment /\ Paid[i] \in Nat
                              /\ Added[i] = (IF i \in Bought THEN Paid[i] ELSE -Paid[i])
                              /\ Added[i] \in Int
<1>1. /\ DOMAIN trades = 1 .. Len(trades) /\ Len(trades) \in Nat
      /\ \A i \in DOMAIN trades : trades[i] \in TradeRows
  BY LenProperties, ElementOfSeq DEF TypeInv
<1>2. IsFiniteSet(Rows)
  BY <1>1, FS_Interval DEF Rows
<1>3. ASSUME NEW i \in Rows
      PROVE  /\ trades[i] \in TradeRows
             /\ trades[i].market \in Markets
             /\ trades[i].user \in Users \union {Nobody}
             /\ trades[i].mode \in {"buy", "sell"}
             /\ Paid[i] = trades[i].payment /\ Paid[i] \in Nat
             /\ Added[i] = (IF i \in Bought THEN Paid[i] ELSE -Paid[i])
             /\ Added[i] \in Int
  <2>1. /\ trades[i] \in TradeRows /\ trades[i].market \in Markets
        /\ trades[i].user \in Users \union {Nobody}
        /\ trades[i].mode \in {"buy", "sell"} /\ trades[i].payment \in Amounts
    BY <1>1 DEF Rows, TradeRows
  <2>2. Paid[i] = trades[i].payment /\ Paid[i] \in Nat
    BY <2>1 DEF Paid, ConstantsOK
  <2>3. Added[i] = IF i \in Bought THEN Paid[i] ELSE -Paid[i]
    BY <2>2 DEF Added, Signed, Bought
  <2> QED
    BY <2>1, <2>2, <2>3
<1> QED
  BY <1>2, <1>3

LEMMA TotalType ==
    ASSUME ConstantsOK, TypeInv, NEW rows \in SUBSET Rows
    PROVE  /\ IsFiniteSet(rows)
           /\ \A i \in rows : Paid[i] \in Nat /\ Paid[i] \in Int /\ Added[i] \in Int
           /\ Total(Paid, rows) \in Nat /\ Total(Added, rows) \in Int
<1>1. /\ IsFiniteSet(rows)
      /\ \A i \in rows : Paid[i] \in Nat /\ Paid[i] \in Int /\ Added[i] \in Int
  BY RowsType, FS_Subset
<1> QED
  BY <1>1, SumOfNaturals, SumType DEF Total

(* The sums of the model, over any rows.                                    *)
LEMMA SumsOfRows ==
    ASSUME ConstantsOK, TypeInv, NEW rows \in SUBSET Rows
    PROVE  /\ SumOf(rows, Payment) = Total(Paid, rows)
           /\ SumOf(rows, Signed) = Total(Added, rows)
<1> DEFINE paid == [i \in rows |-> Payment(trades[i])]
           added == [i \in rows |-> Signed(trades[i])]
<1>1. SumOf(rows, Payment) = SumFunctionOnSet(paid, rows)
  <2>1. DOMAIN paid = rows
    OBVIOUS
  <2> QED
    BY <2>1 DEF SumOf, SumFunction
<1>2. SumOf(rows, Signed) = SumFunctionOnSet(added, rows)
  <2>1. DOMAIN added = rows
    OBVIOUS
  <2> QED
    BY <2>1 DEF SumOf, SumFunction
<1>3. /\ IsFiniteSet(rows)
      /\ \A i \in rows : Paid[i] \in Int /\ Added[i] \in Int
  BY TotalType
<1>4. \A i \in rows : paid[i] = Paid[i] /\ added[i] = Added[i]
  BY DEF Paid, Added, Payment
<1> HIDE DEF paid, added
<1>5. /\ SumFunctionOnSet(paid, rows) = SumFunctionOnSet(Paid, rows)
      /\ SumFunctionOnSet(added, rows) = SumFunctionOnSet(Added, rows)
  BY <1>3, <1>4, SumSame
<1> QED
  BY <1>1, <1>2, <1>5 DEF Total

(* The sum of a function of the model.                                      *)
LEMMA SumOfFunction ==
    ASSUME NEW S, NEW f, DOMAIN f = S
    PROVE  SumFunction(f) = Total(f, S)
  BY DEF SumFunction, Total

(* What rows add is what was bought less what was sold.                     *)
LEMMA AddedIsBoughtLessSold ==
    ASSUME ConstantsOK, TypeInv, NEW rows \in SUBSET Rows
    PROVE  Total(Added, rows) = Total(Paid, rows \intersect Bought) - Total(Paid, rows \ Bought)
<1> DEFINE B == rows \intersect Bought
           C == rows \ Bought
<1>1. /\ B \in SUBSET rows /\ rows \ B = C
      /\ B \in SUBSET Rows /\ C \in SUBSET Rows
  OBVIOUS
<1>2. /\ \A i \in B : Paid[i] \in Int /\ Added[i] = Paid[i]
      /\ \A i \in C : Paid[i] \in Int /\ Added[i] = -Paid[i]
  BY RowsType
<1> HIDE DEF B, C
<1>3. Total(Added, rows) = Total(Added, B) + Total(Added, C)
  BY <1>1, TotalType, SumSplits DEF Total
<1>4. IsFiniteSet(B) /\ IsFiniteSet(C)
  BY <1>1, TotalType
<1>5. Total(Added, B) = Total(Paid, B)
  BY <1>2, <1>4, SumSame DEF Total
<1>6. Total(Added, C) = -Total(Paid, C)
  BY <1>2, <1>4, SumOfOpposites DEF Total
<1>7. Total(Paid, B) \in Int /\ Total(Paid, C) \in Int
  BY <1>1, TotalType
<1> QED
  BY <1>3, <1>5, <1>6, <1>7 DEF B, C

(* Fewer rows were not paid more for.                                       *)
LEMMA PaidGrows ==
    ASSUME ConstantsOK, TypeInv, NEW rows \in SUBSET Rows, NEW some \in SUBSET rows
    PROVE  Total(Paid, some) <= Total(Paid, rows)
<1>1. Total(Paid, rows) = Total(Paid, some) + Total(Paid, rows \ some)
  BY TotalType, SumSplits DEF Total
<1>2. some \in SUBSET Rows /\ rows \ some \in SUBSET Rows
  OBVIOUS
<1>3. Total(Paid, some) \in Nat /\ Total(Paid, rows \ some) \in Nat
  BY <1>2, TotalType
<1> QED
  BY <1>1, <1>3

(* The pools of the markets make up the pool of the platform.               *)
LEMMA PoolsOfMarkets ==
    ASSUME ConstantsOK, TypeInv
    PROVE  /\ SumFunction([m \in Markets |-> TotalCollateralPool(m)])
                = GeneralStatistics.pool
           /\ \A m \in Markets : TotalCollateralPool(m) <= CumulativeCollateralPool(m)
<1>1. \A m \in Markets : TotalCollateralPool(m) = Total(Added, RowsOf(m))
  <2> SUFFICES ASSUME NEW m \in Markets PROVE TotalCollateralPool(m) = Total(Added, RowsOf(m))
    OBVIOUS
  <2>1. RowsOf(m) \in SUBSET Rows
    BY DEF RowsOf
  <2>2. TotalCollateralPool(m) = SumOf(RowsOf(m), Signed)
    BY DEF TotalCollateralPool, Chosen, RowsOf, Rows
  <2> QED
    BY <2>1, <2>2, SumsOfRows
<1>2. \A m \in Markets : CumulativeCollateralPool(m) = Total(Paid, RowsOf(m) \intersect Bought)
  <2> SUFFICES ASSUME NEW m \in Markets
               PROVE  CumulativeCollateralPool(m) = Total(Paid, RowsOf(m) \intersect Bought)
    OBVIOUS
  <2> DEFINE rows == {i \in DOMAIN trades : trades[i].market = m /\ trades[i].mode = "buy"}
  <2>1. rows \in SUBSET Rows /\ rows = RowsOf(m) \intersect Bought
    BY DEF RowsOf, Rows, Bought
  <2>2. CumulativeCollateralPool(m) = SumOf(rows, Payment)
    BY DEF CumulativeCollateralPool, Chosen
  <2> HIDE DEF rows
  <2> QED
    BY <2>1, <2>2, SumsOfRows
<1>3. GeneralStatistics.pool = Total(Paid, Bought) - Total(Paid, Rows \ Bought)
  <2>1. Bought \in SUBSET Rows /\ Rows \ Bought \in SUBSET Rows
    BY DEF Bought
  <2>2. GeneralStatistics.pool = SumOf(Bought, Payment) - SumOf(Rows \ Bought, Payment)
    BY DEF GeneralStatistics, Chosen, Bought, Rows
  <2> QED
    BY <2>1, <2>2, SumsOfRows
<1>4. SumFunction([m \in Markets |-> TotalCollateralPool(m)]) = Total(Added, Rows)
  <2> DEFINE sums == [m \in Markets |-> TotalCollateralPool(m)]
             class == [i \in Rows |-> trades[i].market]
  <2>1. SumFunction(sums) = Total(sums, Markets)
    <3>1. DOMAIN sums = Markets
      OBVIOUS
    <3> HIDE DEF sums
    <3> QED
      BY <3>1, SumOfFunction
  <2>2. \A i \in Rows : Added[i] \in Int
    BY RowsType
  <2>6. \A i \in Rows : class[i] \in Markets
    BY RowsType
  <2>3. \A m \in Markets : sums[m] = SumFunctionOnSet(Added, {i \in Rows : class[i] = m})
    <3> SUFFICES ASSUME NEW m \in Markets
                 PROVE  sums[m] = SumFunctionOnSet(Added, {i \in Rows : class[i] = m})
      OBVIOUS
    <3>1. {i \in Rows : class[i] = m} = RowsOf(m)
      BY DEF RowsOf
    <3> QED
      BY <3>1, <1>1 DEF Total
  <2>4. IsFiniteSet(Rows) /\ IsFiniteSet(Markets)
    BY RowsType DEF ConstantsOK
  <2>7. AreClassSums(sums, Markets, Added, Rows, class)
    <3> HIDE DEF sums, class
    <3> QED
      BY <2>3, <2>6 DEF AreClassSums
  <2> HIDE DEF sums, class
  <2>5. SumFunctionOnSet(sums, Markets) = SumFunctionOnSet(Added, Rows)
    BY <2>2, <2>4, <2>7, SumByClass
  <2> QED
    BY <2>1, <2>5 DEF Total, sums
<1>5. Total(Added, Rows) = Total(Paid, Bought) - Total(Paid, Rows \ Bought)
  <2>1. Rows \intersect Bought = Bought
    BY DEF Bought
  <2> QED
    BY <2>1, AddedIsBoughtLessSold
<1>6. ASSUME NEW m \in Markets
      PROVE  TotalCollateralPool(m) <= CumulativeCollateralPool(m)
  <2> DEFINE rows == RowsOf(m)
  <2>1. /\ rows \in SUBSET Rows /\ rows \intersect Bought \in SUBSET Rows
        /\ rows \ Bought \in SUBSET Rows
    BY DEF RowsOf
  <2> HIDE DEF rows
  <2>2. Total(Added, rows) = Total(Paid, rows \intersect Bought) - Total(Paid, rows \ Bought)
    BY <2>1, AddedIsBoughtLessSold
  <2>3. Total(Paid, rows \intersect Bought) \in Nat /\ Total(Paid, rows \ Bought) \in Nat
    BY <2>1, TotalType
  <2>4. Total(Added, rows) <= Total(Paid, rows \intersect Bought)
    BY <2>2, <2>3
  <2> QED
    BY <1>1, <1>2, <2>4 DEF rows
<1> QED
  BY <1>3, <1>4, <1>5, <1>6

(* Rows are told apart by their markets: a market without any adds nothing.  *)
MarketsOf(rows) == {m \in Markets : rows \intersect RowsOf(m) # {}}

LEMMA TotalsByMarket ==
    ASSUME ConstantsOK, TypeInv, NEW rows \in SUBSET Rows, NEW f, \A i \in rows : f[i] \in Int
    PROVE  SumFunction([m \in MarketsOf(rows) |-> Total(f, rows \intersect RowsOf(m))])
             = Total(f, rows)
<1> DEFINE D == MarketsOf(rows)
           sums == [m \in D |-> Total(f, rows \intersect RowsOf(m))]
           class == [i \in rows |-> trades[i].market]
<1>1. DOMAIN sums = D
  OBVIOUS
<1>2. IsFiniteSet(D) /\ IsFiniteSet(rows)
  <2>1. D \in SUBSET Markets
    BY DEF MarketsOf
  <2> QED
    BY <2>1, FS_Subset, TotalType DEF ConstantsOK
<1>3. \A i \in rows : class[i] \in D
  BY RowsType DEF MarketsOf, RowsOf
<1>4. \A m \in D : sums[m] = SumFunctionOnSet(f, {i \in rows : class[i] = m})
  <2> SUFFICES ASSUME NEW m \in D
               PROVE  sums[m] = SumFunctionOnSet(f, {i \in rows : class[i] = m})
    OBVIOUS
  <2>1. {i \in rows : class[i] = m} = rows \intersect RowsOf(m)
    BY DEF RowsOf
  <2> QED
    BY <2>1 DEF Total
<1> HIDE DEF D, sums, class
<1>5. SumFunction(sums) = Total(sums, D)
  BY <1>1, SumOfFunction
<1>6. AreClassSums(sums, D, f, rows, class)
  BY <1>3, <1>4 DEF AreClassSums
<1>7. SumFunctionOnSet(sums, D) = SumFunctionOnSet(f, rows)
  BY <1>2, <1>6, SumByClass
<1> QED
  BY <1>5, <1>7 DEF Total, D, sums

(* What the users were paid for some rows is no more than what was paid for  *)
(* all of them.                                                             *)
LEMMA TotalsByUser ==
    ASSUME ConstantsOK, TypeInv, NEW rows \in SUBSET Rows
    PROVE  SumFunction([u \in Users |-> Total(Paid, rows \intersect Mine(u))])
             <= Total(Paid, rows)
<1> DEFINE sums == [u \in Users |-> Total(Paid, rows \intersect Mine(u))]
           class == [i \in rows |-> trades[i].user]
           theirs == {i \in rows : trades[i].user \in Users}
<1>1. DOMAIN sums = Users
  OBVIOUS
<1>2. theirs \in SUBSET rows /\ theirs \in SUBSET Rows
  OBVIOUS
<1>3. \A i \in theirs : class[i] \in Users
  OBVIOUS
<1>4. \A u \in Users : sums[u] = SumFunctionOnSet(Paid, {i \in theirs : class[i] = u})
  <2> SUFFICES ASSUME NEW u \in Users
               PROVE  sums[u] = SumFunctionOnSet(Paid, {i \in theirs : class[i] = u})
    OBVIOUS
  <2>1. {i \in theirs : class[i] = u} = rows \intersect Mine(u)
    BY DEF Mine
  <2> QED
    BY <2>1 DEF Total
<1> HIDE DEF sums, class, theirs
<1>5. IsFiniteSet(theirs) /\ IsFiniteSet(Users) /\ \A i \in theirs : Paid[i] \in Int
  BY <1>2, TotalType DEF ConstantsOK
<1>6. SumFunction(sums) = Total(sums, Users)
  BY <1>1, SumOfFunction
<1>7. AreClassSums(sums, Users, Paid, theirs, class)
  BY <1>3, <1>4 DEF AreClassSums
<1>8. SumFunctionOnSet(sums, Users) = SumFunctionOnSet(Paid, theirs)
  BY <1>5, <1>7, SumByClass
<1>9. Total(Paid, theirs) <= Total(Paid, rows)
  BY <1>2, PaidGrows
<1> QED
  BY <1>6, <1>8, <1>9 DEF Total, sums

(* The statistics of a user, in terms of rows.                              *)
LEMMA StatisticsOfUser ==
    ASSUME ConstantsOK, TypeInv, NEW u
    PROVE  /\ UserStatistics(u).payments = Total(Paid, Bought \intersect Mine(u))
           /\ UserStatistics(u).payouts = Total(Paid, (Rows \ Bought) \intersect Mine(u))
           /\ UserStatistics(u).participated = Cardinality({trades[i].market : i \in Mine(u)})
<1> DEFINE mine == {i \in DOMAIN trades : trades[i].user = u}
           bought == {i \in mine : trades[i].mode = "buy"}
<1>1. /\ mine = Mine(u) /\ bought = Bought \intersect Mine(u)
      /\ mine \ bought = (Rows \ Bought) \intersect Mine(u)
      /\ bought \in SUBSET Rows /\ mine \ bought \in SUBSET Rows
  BY DEF Mine, Bought, Rows
<1>2. /\ UserStatistics(u).payments = SumOf(bought, Payment)
      /\ UserStatistics(u).payouts = SumOf(mine \ bought, Payment)
      /\ UserStatistics(u).participated = Cardinality({trades[i].market : i \in mine})
  BY DEF UserStatistics, Chosen
<1> HIDE DEF mine, bought
<1> QED
  BY <1>1, <1>2, SumsOfRows

(* A user's rows whose outcome is there, and those whose is removed.         *)
Shown(u) == {i \in Mine(u) : trades[i].market \notin dropped}
Hidden(u) == {i \in Mine(u) : trades[i].market \in dropped}

LEMMA TotalsOfUser ==
    ASSUME ConstantsOK, TypeInv, NEW u
    PROVE  /\ SumFunction(UserTotals(u, "all")) = Total(Added, Shown(u))
           /\ SumFunction(UserTotals(u, "sell")) = Total(Paid, Shown(u) \ Bought)
<1> DEFINE shown == Shown(u)
           sold == Shown(u) \ Bought
           of(m) == {i \in DOMAIN trades : trades[i].user = u /\ trades[i].market = m
                                            /\ "all" \in {"all", trades[i].mode}}
           ofSold(m) == {i \in DOMAIN trades : trades[i].user = u /\ trades[i].market = m
                                                /\ "sell" \in {"all", trades[i].mode}}
<1>1. /\ shown \in SUBSET Rows /\ sold \in SUBSET Rows
      /\ \A i \in shown : Added[i] \in Int
      /\ \A i \in sold : Paid[i] \in Int
  BY TotalType DEF Shown, Mine
<1>2. ASSUME NEW m, m \notin dropped
      PROVE  of(m) = shown \intersect RowsOf(m) /\ of(m) \in SUBSET Rows
  BY <1>2 DEF Shown, Mine, RowsOf, Rows
<1>3. ASSUME NEW m, m \notin dropped
      PROVE  ofSold(m) = sold \intersect RowsOf(m) /\ ofSold(m) \in SUBSET Rows
  <2>1. \A i \in Rows : trades[i].mode \in {"buy", "sell"}
    BY RowsType
  <2>2. \A i \in Rows : "sell" \in {"all", trades[i].mode} <=> i \notin Bought
    BY <2>1 DEF Bought
  <2> QED
    BY <1>3, <2>2 DEF Shown, Mine, RowsOf, Rows
<1>4. UserTotals(u, "all") = [m \in {n \in Markets \ dropped : of(n) # {}} |-> SumOf(of(m), Signed)]
  BY DEF UserTotals, Chosen
<1>5. UserTotals(u, "sell")
        = [m \in {n \in Markets \ dropped : ofSold(n) # {}} |-> SumOf(ofSold(m), Payment)]
  BY DEF UserTotals, Chosen
<1> HIDE DEF of, ofSold
<1>9. \A m \in dropped : shown \intersect RowsOf(m) = {} /\ sold \intersect RowsOf(m) = {}
  BY DEF Shown, RowsOf
<1> HIDE DEF shown, sold
<1>6. UserTotals(u, "all")
        = [m \in MarketsOf(shown) |-> Total(Added, shown \intersect RowsOf(m))]
  <2>1. {n \in Markets \ dropped : of(n) # {}} = MarketsOf(shown)
    BY <1>2, <1>9 DEF MarketsOf
  <2>2. \A m \in MarketsOf(shown) : SumOf(of(m), Signed) = Total(Added, shown \intersect RowsOf(m))
    BY <1>2, <1>9, SumsOfRows DEF MarketsOf
  <2> QED
    BY <1>4, <2>1, <2>2
<1>7. UserTotals(u, "sell")
        = [m \in MarketsOf(sold) |-> Total(Paid, sold \intersect RowsOf(m))]
  <2>1. {n \in Markets \ dropped : ofSold(n) # {}} = MarketsOf(sold)
    BY <1>3, <1>9 DEF MarketsOf
  <2>2. \A m \in MarketsOf(sold) : SumOf(ofSold(m), Payment) = Total(Paid, sold \intersect RowsOf(m))
    BY <1>3, <1>9, SumsOfRows DEF MarketsOf
  <2> QED
    BY <1>5, <2>1, <2>2
<1> QED
  BY <1>1, <1>6, <1>7, TotalsByMarket DEF shown, sold

(* What the totals leave out.                                               *)
LEMMA WhatIsMissing ==
    ASSUME ConstantsOK, TypeInv, NEW u
    PROVE  /\ SumOf(Missing(u), Signed) = Total(Added, Hidden(u))
           /\ SumOf(MissingSales(u), Payment) = Total(Paid, Hidden(u) \ Bought)
<1>1. Missing(u) = Hidden(u) /\ Hidden(u) \in SUBSET Rows
  BY DEF Missing, Chosen, Hidden, Mine, Rows
<1>2. MissingSales(u) = Hidden(u) \ Bought
  <2>1. \A i \in Rows : trades[i].mode = "sell" <=> i \notin Bought
    BY RowsType DEF Bought
  <2> QED
    BY <1>1, <2>1 DEF MissingSales
<1>3. Hidden(u) \ Bought \in SUBSET Rows
  BY <1>1
<1> QED
  BY <1>1, <1>2, <1>3, SumsOfRows

(* Who participates is counted as it is listed.                             *)
LEMMA ParticipantsAreListed ==
    ASSUME ConstantsOK, TypeInv
    PROVE  /\ \A u \in Users : UserStatistics(u).participated
                                 = Cardinality({m \in Markets : u \in FindParticipants(m)})
           /\ \A m \in Markets : Participants(m) = Cardinality(FindParticipants(m))
<1>1. ASSUME NEW u \in Users
      PROVE  {trades[i].market : i \in Mine(u)} = {m \in Markets : u \in FindParticipants(m)}
  <2>1. \A i \in Rows : trades[i].market \in Markets
    BY RowsType
  <2> QED
    BY <2>1 DEF Mine, Rows, FindParticipants
<1>2. ASSUME NEW m \in Markets
      PROVE  {trades[i].user : i \in {j \in DOMAIN trades : trades[j].market = m}} \ {Nobody}
               = FindParticipants(m)
  <2>1. \A i \in Rows : trades[i].user \in Users \union {Nobody}
    BY RowsType
  <2> QED
    BY <2>1 DEF Rows, FindParticipants, ConstantsOK
<1> QED
  BY <1>1, <1>2, StatisticsOfUser DEF Participants

(* The sums of markets, of users and of the platform agree, but for what is *)
(* removed.                                                                 *)
THEOREM PoolsAgree == ConstantsOK /\ TypeInv => PoolsAddUp
<1> SUFFICES ASSUME ConstantsOK, TypeInv PROVE PoolsAddUp
  OBVIOUS
<1>1. /\ SumFunction([m \in Markets |-> TotalCollateralPool(m)]) = GeneralStatistics.pool
      /\ \A m \in Markets : TotalCollateralPool(m) <= CumulativeCollateralPool(m)
  BY PoolsOfMarkets
<1>2. Bought \in SUBSET Rows /\ Rows \ Bought \in SUBSET Rows
  BY DEF Bought
<1>3. /\ GeneralStatistics.payments = Total(Paid, Bought)
      /\ GeneralStatistics.payouts = Total(Paid, Rows \ Bought)
  <2>1. /\ GeneralStatistics.payments = SumOf(Bought, Payment)
        /\ GeneralStatistics.payouts = SumOf(Rows \ Bought, Payment)
    BY DEF GeneralStatistics, Chosen, Bought, Rows
  <2> QED
    BY <1>2, <2>1, SumsOfRows
<1>4. /\ [u \in Users |-> UserStatistics(u).payments]
           = [u \in Users |-> Total(Paid, Bought \intersect Mine(u))]
      /\ [u \in Users |-> UserStatistics(u).payouts]
           = [u \in Users |-> Total(Paid, (Rows \ Bought) \intersect Mine(u))]
  BY StatisticsOfUser
<1>5. SumFunction([u \in Users |-> UserStatistics(u).payments])
        <= GeneralStatistics.payments
  BY <1>2, <1>3, <1>4, TotalsByUser
<1>6. SumFunction([u \in Users |-> UserStatistics(u).payouts])
        <= GeneralStatistics.payouts
  BY <1>2, <1>3, <1>4, TotalsByUser
<1>7. ASSUME NEW u \in Users
      PROVE  /\ UserStatistics(u).payments - UserStatistics(u).payouts
                  = SumFunction(UserTotals(u, "all")) + SumOf(Missing(u), Signed)
             /\ UserStatistics(u).payouts
                  = SumFunction(UserTotals(u, "sell")) + SumOf(MissingSales(u), Payment)
  <2> DEFINE mine == Mine(u)
             sold == Mine(u) \ Bought
  <2>1. /\ mine \in SUBSET Rows /\ sold \in SUBSET Rows
        /\ mine \intersect Bought = Bought \intersect Mine(u)
        /\ sold = (Rows \ Bought) \intersect Mine(u)
        /\ Shown(u) \in SUBSET mine /\ mine \ Shown(u) = Hidden(u)
        /\ Shown(u) \ Bought \in SUBSET sold
        /\ sold \ (Shown(u) \ Bought) = Hidden(u) \ Bought
    BY DEF Mine, Shown, Hidden
  <2>2. Total(Added, mine) = Total(Paid, mine \intersect Bought) - Total(Paid, sold)
    BY <2>1, AddedIsBoughtLessSold
  <2>3. UserStatistics(u).payments = Total(Paid, mine \intersect Bought)
        /\ UserStatistics(u).payouts = Total(Paid, sold)
    BY <2>1, StatisticsOfUser
  <2> HIDE DEF mine, sold
  <2>4. Total(Added, mine) = Total(Added, Shown(u)) + Total(Added, Hidden(u))
    BY <2>1, TotalType, SumSplits DEF Total
  <2>5. Total(Paid, sold) = Total(Paid, Shown(u) \ Bought) + Total(Paid, Hidden(u) \ Bought)
    BY <2>1, TotalType, SumSplits DEF Total
  <2> QED
    BY <2>2, <2>3, <2>4, <2>5, TotalsOfUser, WhatIsMissing
<1>8. PoolsAddUp
  BY <1>1, <1>5, <1>6, <1>7, ParticipantsAreListed DEF PoolsAddUp
<1> QED
  BY <1>8

(***************************************************************************)
(* The specification.                                                      *)
(***************************************************************************)

(* Whatever is traded, closed, resolved, removed and pinned, the rows keep    *)
(* their types.                                                                *)
THEOREM RowsKeepTheirTypes == ConstantsOK /\ Spec => []TypeInv
<1> SUFFICES ASSUME ConstantsOK PROVE Spec => []TypeInv
  OBVIOUS
<1>1. Init => TypeInv
  BY TypeInvStart
<1>2. TypeInv /\ [Next]_vars => TypeInv'
  BY TypeInvStep
<1> QED
  BY <1>1, <1>2, PTL DEF Spec

(* The pages of the lists make them up, and the sums of markets, users and   *)
(* the platform agree but for what is removed.                              *)
THEOREM ListsAndSumsAgree == ConstantsOK /\ Spec => [](PagesMakeUpLists /\ PoolsAddUp)
<1> SUFFICES ASSUME ConstantsOK
             PROVE  Spec => [](PagesMakeUpLists /\ PoolsAddUp)
  OBVIOUS
<1>1. TypeInv => PagesMakeUpLists /\ PoolsAddUp
  BY PagesMakeUp, PoolsAgree
<1>2. Spec => []TypeInv
  BY RowsKeepTheirTypes
<1> QED
  BY <1>1, <1>2, PTL

=============================================================================
