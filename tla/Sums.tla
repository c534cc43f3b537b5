-------------------------------- MODULE Sums --------------------------------
(* Sums over finite sets, as the books of the wallets need them.           *)
EXTENDS Integers, Functions, FiniteSetTheorems, WellFoundedInduction, TLAPS

(* A set of numbers that is not empty has a least one.                     *)
LEMMA HasLeast == ASSUME NEW T \in SUBSET Nat, T # {}
                  PROVE  \E n \in T : \A m \in T : n <= m
<1> DEFINE Under == {ss \in Nat \X Nat : ss[1] < ss[2]}
<1>1. IsWellFoundedOn(Under, Nat)
  <2>1. Under = OpToRel(<, Nat)
    BY DEF OpToRel
  <2> QED BY <2>1, NatLessThanWellFounded
<1>2. PICK n \in T : \A m \in T : ~(<<m, n>> \in Under)
  <2> HIDE DEF Under
  <2> QED BY <1>1, WFMin
<1>3. \A m \in T : ~(m < n)
  BY <1>2
<1> QED BY <1>3

(* ... and a set of subsets of a finite set one that contains no other.    *)
LEMMA HasSmallest == ASSUME NEW S, IsFiniteSet(S), NEW B \in SUBSET SUBSET S, B # {}
                     PROVE  \E s \in B : \A t \in B : t \subseteq s => t = s
<1> DEFINE Sizes == {Cardinality(s) : s \in B}
<1>1. \A s \in SUBSET S : IsFiniteSet(s) /\ Cardinality(s) \in Nat
  BY FS_Subset, FS_CardinalityType
<1>2. Sizes \in SUBSET Nat /\ Sizes # {}
  BY <1>1
<1>3. PICK n \in Sizes : \A m \in Sizes : n <= m
  <2> HIDE DEF Sizes
  <2> QED BY <1>2, HasLeast
<1>4. PICK s \in B : n = Cardinality(s)
  OBVIOUS
<1>5. ASSUME NEW t \in B, t \subseteq s PROVE t = s
  <2>1. Cardinality(s) <= Cardinality(t)
    BY <1>3, <1>4
  <2>2. Cardinality(t) <= Cardinality(s) /\ (Cardinality(t) = Cardinality(s) => t = s)
    BY <1>1, <1>5, FS_Subset
  <2> QED BY <1>1, <2>1, <2>2
<1> QED BY <1>5

-----------------------------------------------------------------------------
(* A fold takes some element of what is left first.                        *)
FirstOf(s) == CHOOSE x \in s : TRUE
Adds(w, D, f) == f = [s \in D |-> IF s = {} THEN 0 ELSE w[FirstOf(s)] + f[s \ {FirstOf(s)}]]

(* The first element is one of the set's. *)
LEMMA FirstIn == ASSUME NEW s, s # {} PROVE FirstOf(s) \in s
BY DEF FirstOf

(* There is a function that adds up every subset of a finite set, ... *)
LEMMA SumsExist == ASSUME NEW w, NEW S, IsFiniteSet(S) PROVE \E f : Adds(w, SUBSET S, f)
<1> DEFINE D(n) == {s \in SUBSET S : Cardinality(s) <= n}
           Bad == {n \in Nat : ~\E f : Adds(w, D(n), f)}
<1>1. \A s \in SUBSET S : IsFiniteSet(s) /\ Cardinality(s) \in Nat /\ Cardinality(s) <= Cardinality(S)
  BY FS_Subset, FS_CardinalityType
<1>2. Bad = {}
  <2> SUFFICES ASSUME Bad # {} PROVE FALSE
    OBVIOUS
  <2>1. PICK n \in Bad : \A m \in Bad : n <= m
    <3>1. Bad \in SUBSET Nat
      OBVIOUS
    <3> HIDE DEF Bad
    <3> QED BY <3>1, HasLeast
  <2>2. n \in Nat /\ ~\E f : Adds(w, D(n), f)
    BY <2>1
  <2>3. CASE n = 0
    <3>1. \A s \in D(n) : s = {}
      BY <1>1, <2>3, FS_EmptySet
    <3>2. Adds(w, D(n), [s \in D(n) |-> 0])
      BY <3>1 DEF Adds
    <3> QED BY <2>2, <3>2
  <2>4. CASE n # 0
    <3>1. n - 1 \in Nat /\ ~(n <= n - 1)
      BY <2>2, <2>4
    <3>2. n - 1 \notin Bad
      <4> HIDE DEF Bad
      <4> QED BY <2>1, <3>1
    <3>8. PICK f : Adds(w, D(n - 1), f)
      BY <3>1, <3>2
    <3> DEFINE g == [s \in D(n) |-> IF s = {} THEN 0 ELSE w[FirstOf(s)] + f[s \ {FirstOf(s)}]]
    <3>3. ASSUME NEW s \in D(n), s # {} PROVE s \ {FirstOf(s)} \in D(n - 1) /\ s \ {FirstOf(s)} \in D(n)
      <4>1. /\ Cardinality(s \ {FirstOf(s)}) = Cardinality(s) - 1 /\ Cardinality(s) \in Nat
            /\ s \ {FirstOf(s)} \in SUBSET S /\ Cardinality(s) <= n
        BY <1>1, <3>3, FirstIn, FS_RemoveElement
      <4>2. Cardinality(s \ {FirstOf(s)}) <= n - 1 /\ Cardinality(s \ {FirstOf(s)}) <= n
        BY <2>2, <4>1
      <4> QED BY <4>1, <4>2
    <3>4. ASSUME NEW s \in D(n - 1) PROVE s \in D(n) /\ g[s] = f[s]
      <4>1. s \in D(n)
        BY <1>1, <2>2, <3>4
      <4>2. f[s] = IF s = {} THEN 0 ELSE w[FirstOf(s)] + f[s \ {FirstOf(s)}]
        BY <3>8, <3>4 DEF Adds
      <4> QED BY <4>1, <4>2
    <3>5. \A s \in D(n) : s # {} => f[s \ {FirstOf(s)}] = g[s \ {FirstOf(s)}]
      BY <3>3, <3>4
    <3>6. g = [s \in D(n) |-> IF s = {} THEN 0 ELSE w[FirstOf(s)] + g[s \ {FirstOf(s)}]]
      BY <3>5
    <3>7. Adds(w, D(n), g)
      BY <3>6 DEF Adds
    <3> QED BY <2>2, <3>7
  <2> QED BY <2>3, <2>4
<1>3. Cardinality(S) \notin Bad /\ Cardinality(S) \in Nat
  BY <1>1, <1>2
<1>4. D(Cardinality(S)) = SUBSET S
  BY <1>1
<1> QED BY <1>3, <1>4

(* The community modules' sum is such a function's value, ...              *)
LEMMA Unfold == ASSUME NEW w, NEW S, IsFiniteSet(S)
                PROVE  \E f : Adds(w, SUBSET S, f) /\ SumFunctionOnSet(w, S) = f[S]
<1> DEFINE iter == CHOOSE f : Adds(w, SUBSET S, f)
<1>1. SumFunctionOnSet(w, S) = iter[S]
  BY DEF SumFunctionOnSet, FoldFunctionOnSet, MapThenFoldSet, Adds, FirstOf
<1>2. Adds(w, SUBSET S, iter)
  BY SumsExist
<1> QED BY <1>1, <1>2

(* ... which depends on nothing but the weights of what it sums, ...       *)
Agree(w, v, T) == \A x \in T : w[x] = v[x]
LEMMA SameSums ==
  ASSUME NEW w, NEW v, NEW S, NEW T, NEW f, NEW g,
         IsFiniteSet(S), T \subseteq S, Agree(w, v, T), Adds(w, SUBSET S, f), Adds(v, SUBSET T, g)
  PROVE  \A s \in SUBSET T : f[s] = g[s]
<1> DEFINE Bad == {s \in SUBSET T : f[s] # g[s]}
<1> SUFFICES ASSUME Bad # {} PROVE FALSE
  OBVIOUS
<1>1. PICK s \in Bad : \A t \in Bad : t \subseteq s => t = s
  <2>1. Bad \in SUBSET SUBSET S
    OBVIOUS
  <2> HIDE DEF Bad
  <2> QED BY <2>1, HasSmallest
<1>2. /\ f[s] = IF s = {} THEN 0 ELSE w[FirstOf(s)] + f[s \ {FirstOf(s)}]
      /\ g[s] = IF s = {} THEN 0 ELSE v[FirstOf(s)] + g[s \ {FirstOf(s)}]
  BY <1>1 DEF Adds
<1>3. s # {} => f[s \ {FirstOf(s)}] = g[s \ {FirstOf(s)}] /\ w[FirstOf(s)] = v[FirstOf(s)]
  BY <1>1, FirstIn DEF Agree
<1> QED BY <1>1, <1>2, <1>3

(* ... and in whose order nothing depends.                                 *)
LEMMA AnyFirst ==
  ASSUME NEW w, NEW S, IsFiniteSet(S), \A x \in S : w[x] \in Int, NEW f, Adds(w, SUBSET S, f)
  PROVE  \A s \in SUBSET S : f[s] \in Int /\ \A x \in s : f[s] = w[x] + f[s \ {x}]
<1> DEFINE Good(s) == f[s] \in Int /\ \A x \in s : f[s] = w[x] + f[s \ {x}]
           Bad == {s \in SUBSET S : ~Good(s)}
<1> SUFFICES ASSUME Bad # {} PROVE FALSE
  OBVIOUS
<1>1. PICK s \in Bad : \A t \in Bad : t \subseteq s => t = s
  <2>1. Bad \in SUBSET SUBSET S
    OBVIOUS
  <2> HIDE DEF Bad
  <2> QED BY <2>1, HasSmallest
<1>2. f[s] = IF s = {} THEN 0 ELSE w[FirstOf(s)] + f[s \ {FirstOf(s)}]
  BY <1>1 DEF Adds
<1>3. \A x \in s : Good(s \ {x})
  BY <1>1
<1>4. CASE s = {}
  BY <1>1, <1>2, <1>4
<1>5. CASE s # {}
  <2>1. FirstOf(s) \in s /\ s \subseteq S
    BY <1>1, <1>5, FirstIn
  <2>2. f[s] = w[FirstOf(s)] + f[s \ {FirstOf(s)}] /\ f[s \ {FirstOf(s)}] \in Int /\ w[FirstOf(s)] \in Int
    BY <1>2, <1>3, <1>5, <2>1
  <2>3. ASSUME NEW x \in s PROVE f[s] = w[x] + f[s \ {x}]
    <3>1. CASE x = FirstOf(s)
      BY <2>2, <3>1
    <3>2. CASE x # FirstOf(s)
      <4>1. f[s \ {FirstOf(s)}] = w[x] + f[(s \ {FirstOf(s)}) \ {x}]
        BY <1>3, <2>1, <3>2
      <4>2. f[s \ {x}] = w[FirstOf(s)] + f[(s \ {x}) \ {FirstOf(s)}] /\ f[s \ {x}] \in Int
        BY <1>3, <2>1, <3>2
      <4>3. (s \ {FirstOf(s)}) \ {x} = (s \ {x}) \ {FirstOf(s)} /\ w[x] \in Int
        BY <2>1
      <4>4. f[(s \ {x}) \ {FirstOf(s)}] \in Int
        <5>1. (s \ {x}) \ {FirstOf(s)} \in SUBSET S /\ (s \ {x}) \ {FirstOf(s)} \subseteq s /\ x \notin (s \ {x}) \ {FirstOf(s)}
          BY <2>1
        <5>2. (s \ {x}) \ {FirstOf(s)} \notin Bad
          <6> HIDE DEF Bad
          <6> QED BY <1>1, <5>1
        <5>3. Good((s \ {x}) \ {FirstOf(s)})
          <6> HIDE DEF Good
          <6> QED BY <5>1, <5>2
        <5> QED BY <5>3
      <4>5. f[s \ {FirstOf(s)}] = w[x] + f[(s \ {x}) \ {FirstOf(s)}]
        BY <4>1, <4>3
      <4> QED BY <2>2, <4>2, <4>3, <4>4, <4>5
    <3> QED BY <3>1, <3>2
  <2>5. f[s] \in Int
    BY <2>2
  <2>4. Good(s)
    BY <2>3, <2>5
  <2> QED BY <1>1, <2>4
<1> QED BY <1>4, <1>5

-----------------------------------------------------------------------------
(* What the proofs about money use.                                        *)
LEMMA SumEmpty == ASSUME NEW w PROVE SumFunctionOnSet(w, {}) = 0
<1>1. PICK f : Adds(w, SUBSET {}, f) /\ SumFunctionOnSet(w, {}) = f[{}]
  BY Unfold, FS_EmptySet
<1> QED BY <1>1 DEF Adds

(* Equal weights give equal sums. *)
LEMMA SumSame == ASSUME NEW w, NEW v, NEW S, IsFiniteSet(S), \A x \in S : w[x] = v[x]
                 PROVE  SumFunctionOnSet(w, S) = SumFunctionOnSet(v, S)
<1>1. PICK f : Adds(w, SUBSET S, f) /\ SumFunctionOnSet(w, S) = f[S]
  BY Unfold
<1>2. PICK g : Adds(v, SUBSET S, g) /\ SumFunctionOnSet(v, S) = g[S]
  BY Unfold
<1>3. Agree(w, v, S) /\ S \subseteq S
  BY DEF Agree
<1>4. \A s \in SUBSET S : f[s] = g[s]
  BY <1>1, <1>2, <1>3, SameSums
<1> QED BY <1>1, <1>2, <1>4

(* Any element can be taken out of a sum. *)
LEMMA SumWithout ==
  ASSUME NEW w, NEW S, IsFiniteSet(S), \A x \in S : w[x] \in Int
  PROVE  /\ SumFunctionOnSet(w, S) \in Int
         /\ \A x \in S : SumFunctionOnSet(w, S) = w[x] + SumFunctionOnSet(w, S \ {x})
<1>1. PICK f : Adds(w, SUBSET S, f) /\ SumFunctionOnSet(w, S) = f[S]
  BY Unfold
<1>2. f[S] \in Int /\ \A x \in S : f[S] = w[x] + f[S \ {x}]
  <2>1. \A s \in SUBSET S : f[s] \in Int /\ \A x \in s : f[s] = w[x] + f[s \ {x}]
    BY <1>1, AnyFirst
  <2> QED BY <2>1
<1>3. ASSUME NEW x \in S PROVE SumFunctionOnSet(w, S \ {x}) = f[S \ {x}]
  <2> DEFINE T == S \ {x}
  <2>1. IsFiniteSet(T) /\ T \subseteq S
    BY FS_Subset
  <2>2. Agree(w, w, T)
    BY DEF Agree
  <2> HIDE DEF T
  <2>3. PICK g : Adds(w, SUBSET T, g) /\ SumFunctionOnSet(w, T) = g[T]
    BY <2>1, Unfold
  <2>4. \A s \in SUBSET T : f[s] = g[s]
    BY <1>1, <2>1, <2>2, <2>3, SameSums
  <2>5. SumFunctionOnSet(w, T) = f[T]
    BY <2>3, <2>4
  <2> QED BY <2>5 DEF T
<1> QED BY <1>1, <1>2, <1>3

(* One more summand, ...                                                   *)
LEMMA SumInsert ==
  ASSUME NEW w, NEW v, NEW S, NEW T, NEW x \in T, IsFiniteSet(S), S = T \ {x},
         \A y \in S : w[y] = v[y] /\ v[y] \in Int, w[x] \in Int
  PROVE  SumFunctionOnSet(w, T) = SumFunctionOnSet(v, S) + w[x]
<1>1. IsFiniteSet(T) /\ \A y \in T : w[y] \in Int
  <2>1. T = S \cup {x}
    OBVIOUS
  <2> QED BY <2>1, FS_AddElement
<1>3. SumFunctionOnSet(w, T) = w[x] + SumFunctionOnSet(w, S)
  BY <1>1, SumWithout
<1>4. SumFunctionOnSet(w, S) = SumFunctionOnSet(v, S)
  BY SumSame
<1>5. SumFunctionOnSet(v, S) \in Int
  BY SumWithout
<1> QED BY <1>3, <1>4, <1>5

(* ... and none of them exceeds the sum when none is negative.             *)
LEMMA SumBounds ==
  ASSUME NEW w, NEW S, IsFiniteSet(S), \A x \in S : w[x] \in Nat
  PROVE  /\ SumFunctionOnSet(w, S) \in Nat
         /\ \A x \in S : w[x] <= SumFunctionOnSet(w, S)
<1>1. \A T \in SUBSET S : IsFiniteSet(T) /\ \A x \in T : w[x] \in Int
  BY FS_Subset
<1>2. \A T \in SUBSET S : SumFunctionOnSet(w, T) \in Int
  BY <1>1, SumWithout
<1>3. \A T \in SUBSET S : SumFunctionOnSet(w, T) \in Nat
  <2> DEFINE Bad == {T \in SUBSET S : SumFunctionOnSet(w, T) \notin Nat}
  <2> SUFFICES ASSUME Bad # {} PROVE FALSE
    OBVIOUS
  <2>1. PICK T \in Bad : \A U \in Bad : U \subseteq T => U = T
    <3>1. Bad \in SUBSET SUBSET S
      OBVIOUS
    <3> HIDE DEF Bad
    <3> QED BY <3>1, HasSmallest
  <2>2. T # {}
    <3>1. SumFunctionOnSet(w, {}) \in Nat
      <4>1. SumFunctionOnSet(w, {}) = 0
        BY SumEmpty
      <4> QED BY <4>1
    <3>2. SumFunctionOnSet(w, T) \notin Nat
      BY <2>1
    <3> QED BY <3>1, <3>2
  <2>3. PICK x \in T : TRUE
    BY <2>2
  <2>4. SumFunctionOnSet(w, T \ {x}) \in Nat
    <3>1. T \ {x} \in SUBSET S /\ T \ {x} \subseteq T /\ T \ {x} # T
      OBVIOUS
    <3>2. T \ {x} \notin Bad
      <4> HIDE DEF Bad
      <4> QED BY <2>1, <3>1
    <3> QED BY <3>1, <3>2
  <2>5. SumFunctionOnSet(w, T) = w[x] + SumFunctionOnSet(w, T \ {x})
    BY <1>1, SumWithout
  <2> QED BY <2>4, <2>5
<1>4. ASSUME NEW x \in S PROVE w[x] <= SumFunctionOnSet(w, S)
  <2>1. SumFunctionOnSet(w, S) = w[x] + SumFunctionOnSet(w, S \ {x})
    BY <1>1, SumWithout
  <2>2. SumFunctionOnSet(w, S \ {x}) \in Nat
    BY <1>3
  <2> QED BY <2>1, <2>2
<1> QED BY <1>3, <1>4
=============================================================================
