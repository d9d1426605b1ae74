----------------------------- MODULE SumTheorems -----------------------------
(***************************************************************************)
(* Sums over finite sets (SumFunctionOnSet of the community modules).  The *)
(* facts are by induction over finite sets, in the form the provers take:  *)
(* a non-empty set of finite sets has a minimal member, and a minimal      *)
(* counterexample is refuted by taking one element out of it.              *)
(***************************************************************************)
EXTENDS Functions, FiniteSetTheorems, TLAPS

(* The function whose value at S is the sum: the fold's own definition. *)

SumIter(f, S) ==
    CHOOSE h : h = [T \in SUBSET S |->
        IF T = {} THEN 0 ELSE f[CHOOSE x \in T : TRUE] + h[T \ {CHOOSE x \in T : TRUE}]]

LEMMA SumUnfold == ASSUME NEW f, NEW S PROVE SumFunctionOnSet(f, S) = SumIter(f, S)[S]
BY DEF SumFunctionOnSet, FoldFunctionOnSet, MapThenFoldSet, SumIter

(* The induction principle: a family of finite sets has a minimal member. *)
LEMMA MinimalSubset ==
    ASSUME NEW S, IsFiniteSet(S), NEW C \in SUBSET (SUBSET S), C # {}
    PROVE  \E T \in C : \A U \in C : U \subseteq T => U = T
<1>1. IsWellFoundedOn(StrictSubsetOrdering(S), FiniteSubsetsOf(S))
  BY FS_StrictSubsetOrderingWellFounded
<1>2. FiniteSubsetsOf(S) = SUBSET S
  BY FS_FiniteSubsetsOfFinite
<1>3. \E T \in C : \A U \in C : ~ (<<U, T>> \in StrictSubsetOrdering(S))
  BY <1>1, <1>2, WFMin
<1>. QED BY <1>3 DEF StrictSubsetOrdering

(* A finite index set has an element where a natural measure is greatest. *)
LEMMA GreatestMeasure ==
    ASSUME NEW S, IsFiniteSet(S), S # {}, NEW f, \A x \in S : f[x] \in Nat
    PROVE  \E x \in S : \A y \in S : f[y] <= f[x]
<1>. DEFINE Above(x) == {y \in S : f[y] >= f[x]}
            C == {Above(x) : x \in S}
<1>1. C \in SUBSET (SUBSET S) /\ C # {}
  OBVIOUS
<1>. HIDE DEF C
<1>2. PICK T \in C : \A U \in C : U \subseteq T => U = T
  BY <1>1, MinimalSubset
<1>3. PICK x \in S : T = Above(x)
  BY DEF C
<1>4. \A y \in S : f[y] <= f[x]
  <2>. SUFFICES ASSUME NEW y \in S, f[y] > f[x] PROVE FALSE
    OBVIOUS
  <2>1. Above(y) \subseteq Above(x)
    OBVIOUS
  <2>2. Above(y) \in C
    BY DEF C
  <2>3. Above(y) = Above(x)
    BY <1>2, <1>3, <2>1, <2>2
  <2>4. x \in Above(x) /\ x \notin Above(y)
    OBVIOUS
  <2>. QED BY <2>3, <2>4
<1>. QED BY <1>4

(* A non-empty set of naturals has a least member. *)
LEMMA LeastNatural ==
    ASSUME NEW C \in SUBSET Nat, C # {}
    PROVE  \E n \in C : \A m \in C : n <= m
<1>1. PICK k \in C : TRUE
  OBVIOUS
<1>. DEFINE I == {0..m : m \in C \cap (0..k)}
<1>2. IsFiniteSet(0..k)
  BY FS_Interval
<1>3. I \in SUBSET (SUBSET (0..k)) /\ I # {}
  <2>1. k \in C \cap (0..k)
    OBVIOUS
  <2>2. \A m \in C \cap (0..k) : 0..m \subseteq 0..k
    OBVIOUS
  <2>3. I \in SUBSET (SUBSET (0..k))
    BY Zenon, <2>2
  <2>4. 0..k \in I
    BY Zenon, <2>1
  <2>. QED BY <2>3, <2>4
<1>. HIDE DEF I
<1>4. PICK T \in I : \A U \in I : U \subseteq T => U = T
  <2>. DEFINE R == 0..k
  <2>1. IsFiniteSet(R) /\ I \in SUBSET (SUBSET R) /\ I # {}
    BY <1>2, <1>3
  <2>. HIDE DEF R
  <2>. QED BY <2>1, MinimalSubset
<1>5. PICK n \in C \cap (0..k) : T = 0..n
  BY <1>4 DEF I
<1>6. ASSUME NEW m \in C, m < n
      PROVE  FALSE
  <2>1. 0..m \in I /\ 0..m \subseteq T
    BY <1>5, <1>6 DEF I
  <2>2. 0..m = T
    BY <1>4, <2>1
  <2>3. n \in 0..m
    BY <1>5, <2>2
  <2>. QED BY <1>6, <2>3
<1>. QED BY <1>5, <1>6

-----------------------------------------------------------------------------
Chosen(T) == CHOOSE x \in T : TRUE

(* h maps each member of D to the sum of f over it, D being closed under   *)
(* taking the chosen element out.                                          *)
Sums(h, f, D) ==
    h = [T \in D |-> IF T = {} THEN 0 ELSE f[Chosen(T)] + h[T \ {Chosen(T)}]]

UpTo(S, n) == {T \in SUBSET S : Cardinality(T) <= n}

LEMMA TakeOut ==
    ASSUME NEW S, IsFiniteSet(S), NEW T \in SUBSET S, T # {}
    PROVE  /\ Chosen(T) \in T /\ T \ {Chosen(T)} \in SUBSET S /\ T \ {Chosen(T)} # T
           /\ Cardinality(T) \in Nat /\ Cardinality(T \ {Chosen(T)}) = Cardinality(T) - 1
<1>1. Chosen(T) \in T
  BY DEF Chosen
<1>2. IsFiniteSet(T)
  BY FS_Subset
<1>3. Cardinality(T \ {Chosen(T)}) = Cardinality(T) - 1
  BY <1>1, <1>2, FS_RemoveElement
<1>. QED BY <1>1, <1>2, <1>3, FS_CardinalityType

(* The recursion has a solution on the subsets of any size. *)
LEMMA PartialSums ==
    ASSUME NEW f, NEW S, IsFiniteSet(S)
    PROVE  \A n \in Nat : \E h : Sums(h, f, UpTo(S, n))
<1>. DEFINE C == {n \in Nat : ~ \E h : Sums(h, f, UpTo(S, n))}
<1>. SUFFICES ASSUME C # {} PROVE FALSE
  OBVIOUS
<1>1. PICK n \in C : \A m \in C : n <= m
  <2>1. C \in SUBSET Nat
    OBVIOUS
  <2>. HIDE DEF C
  <2>. QED BY <2>1, LeastNatural
<1>2. CASE n = 0
  <2>. DEFINE h == [T \in UpTo(S, 0) |-> 0]
  <2>1. \A T \in UpTo(S, 0) : T = {}
    <3>. SUFFICES ASSUME NEW T \in UpTo(S, 0), T # {} PROVE FALSE
      OBVIOUS
    <3>1. Cardinality(T) \in Nat /\ Cardinality(T) <= 0 /\ Cardinality(T \ {Chosen(T)}) = Cardinality(T) - 1
      BY TakeOut DEF UpTo
    <3>2. IsFiniteSet(T \ {Chosen(T)})
      BY FS_Subset DEF UpTo
    <3>3. Cardinality(T \ {Chosen(T)}) \in Nat
      BY <3>2, FS_CardinalityType
    <3>. QED BY <3>1, <3>3
  <2>2. Sums(h, f, UpTo(S, 0))
    BY <2>1 DEF Sums
  <2>. QED BY <1>1, <1>2, <2>2
<1>3. CASE n # 0
  <2>1. n \in Nat /\ n - 1 \in Nat /\ n - 1 \notin C
    BY <1>1, <1>3
  <2>2. PICK g : Sums(g, f, UpTo(S, n - 1))
    BY <2>1
  <2>. DEFINE h == [T \in UpTo(S, n) |->
                       IF T = {} THEN 0 ELSE f[Chosen(T)] + g[T \ {Chosen(T)}]]
  <2>3. \A T \in UpTo(S, n - 1) : T \in UpTo(S, n) /\ h[T] = g[T]
    <3>1. \A T \in UpTo(S, n - 1) : T \in UpTo(S, n)
      <4>. SUFFICES ASSUME NEW T \in UpTo(S, n - 1) PROVE Cardinality(T) <= n
        BY DEF UpTo
      <4>1. T \in SUBSET S /\ Cardinality(T) <= n - 1
        BY DEF UpTo
      <4>2. Cardinality(T) \in Nat
        BY <4>1, FS_Subset, FS_CardinalityType
      <4>. QED BY <2>1, <4>1, <4>2
    <3>2. \A T \in UpTo(S, n - 1) :
              g[T] = IF T = {} THEN 0 ELSE f[Chosen(T)] + g[T \ {Chosen(T)}]
      BY <2>2 DEF Sums
    <3>. QED BY <3>1, <3>2
  <2>4. ASSUME NEW T \in UpTo(S, n), T # {}
        PROVE  T \ {Chosen(T)} \in UpTo(S, n - 1)
    <3>1. T \in SUBSET S /\ Cardinality(T) <= n
      BY DEF UpTo
    <3>2. /\ T \ {Chosen(T)} \in SUBSET S /\ Cardinality(T) \in Nat
          /\ Cardinality(T \ {Chosen(T)}) = Cardinality(T) - 1
      BY <2>4, <3>1, TakeOut
    <3>3. Cardinality(T \ {Chosen(T)}) <= n - 1
      BY <2>1, <3>1, <3>2
    <3>. QED BY <3>2, <3>3 DEF UpTo
  <2>5. \A T \in UpTo(S, n) : T # {} => h[T \ {Chosen(T)}] = g[T \ {Chosen(T)}]
    BY <2>3, <2>4
  <2>6. Sums(h, f, UpTo(S, n))
    <3>1. \A T \in UpTo(S, n) :
              h[T] = IF T = {} THEN 0 ELSE f[Chosen(T)] + h[T \ {Chosen(T)}]
      BY <2>5
    <3>2. h = [T \in UpTo(S, n) |-> h[T]]
      BY Zenon
    <3>. HIDE DEF h
    <3>. QED BY <3>1, <3>2 DEF Sums
  <2>. QED BY <1>1, <2>6
<1>. QED BY <1>2, <1>3

(* So the fold satisfies its own recursion. *)
LEMMA SumIterDef ==
    ASSUME NEW f, NEW S, IsFiniteSet(S)
    PROVE  Sums(SumIter(f, S), f, SUBSET S)
<1>1. UpTo(S, Cardinality(S)) = SUBSET S
  BY FS_Subset DEF UpTo
<1>2. \E h : Sums(h, f, SUBSET S)
  <2>1. Cardinality(S) \in Nat
    BY FS_CardinalityType
  <2>2. \A n \in Nat : \E h : Sums(h, f, UpTo(S, n))
    BY PartialSums
  <2>. QED BY <1>1, <2>1, <2>2
<1>. QED BY <1>2, Zenon DEF Sums, SumIter, Chosen

LEMMA SumsAt ==
    ASSUME NEW h, NEW f, NEW D, Sums(h, f, D), NEW T \in D
    PROVE  h[T] = IF T = {} THEN 0 ELSE f[Chosen(T)] + h[T \ {Chosen(T)}]
<1>. DEFINE k == [U \in D |-> IF U = {} THEN 0 ELSE f[Chosen(U)] + h[U \ {Chosen(U)}]]
<1>1. h = k
  BY DEF Sums
<1>2. k[T] = IF T = {} THEN 0 ELSE f[Chosen(T)] + h[T \ {Chosen(T)}]
  OBVIOUS
<1>. HIDE DEF k
<1>. QED BY <1>1, <1>2

(* The sum over a set does not depend on the set it is taken within.       *)
LEMMA SumIterAgree ==
    ASSUME NEW f, NEW g, NEW S, IsFiniteSet(S), NEW R, IsFiniteSet(R),
           NEW T, T \subseteq S, T \subseteq R, \A x \in T : f[x] = g[x]
    PROVE  SumIter(f, S)[T] = SumIter(g, R)[T]
<1>. DEFINE C == {U \in SUBSET T : SumIter(f, S)[U] # SumIter(g, R)[U]}
<1>. SUFFICES ASSUME C # {} PROVE FALSE
  OBVIOUS
<1>1. PICK U \in C : \A V \in C : V \subseteq U => V = U
  <2>1. IsFiniteSet(T) /\ C \in SUBSET (SUBSET T)
    BY FS_Subset
  <2>. HIDE DEF C
  <2>. QED BY <2>1, MinimalSubset
<1>2. U \in SUBSET S /\ U \in SUBSET R
  OBVIOUS
<1>3. /\ SumIter(f, S)[U] = IF U = {} THEN 0 ELSE f[Chosen(U)] + SumIter(f, S)[U \ {Chosen(U)}]
      /\ SumIter(g, R)[U] = IF U = {} THEN 0 ELSE g[Chosen(U)] + SumIter(g, R)[U \ {Chosen(U)}]
  <2>1. /\ Sums(SumIter(f, S), f, SUBSET S) /\ Sums(SumIter(g, R), g, SUBSET R)
    BY SumIterDef
  <2>. QED BY <1>2, <2>1, SumsAt
<1>4. U # {}
  BY <1>3
<1>5. Chosen(U) \in U /\ U \ {Chosen(U)} # U
  BY <1>2, <1>4, TakeOut
<1>6. U \ {Chosen(U)} \notin C
  BY <1>1, <1>5
<1>7. SumIter(f, S)[U \ {Chosen(U)}] = SumIter(g, R)[U \ {Chosen(U)}]
  BY <1>6
<1>. QED BY <1>3, <1>4, <1>5, <1>7

(* A sum depends on the summands alone. *)
LEMMA SumCongruence ==
    ASSUME NEW f, NEW g, NEW S, IsFiniteSet(S), \A x \in S : f[x] = g[x]
    PROVE  SumFunctionOnSet(f, S) = SumFunctionOnSet(g, S)
BY SumUnfold, SumIterAgree

LEMMA SumEmpty == \A f : SumFunctionOnSet(f, {}) = 0
<1>1. IsFiniteSet({}) /\ {} \in SUBSET {}
  BY FS_EmptySet
<1>. TAKE f
<1>2. SumIter(f, {})[{}] = 0
  BY <1>1, SumIterDef, SumsAt
<1>. QED BY <1>2, SumUnfold

LEMMA SumChosen ==
    ASSUME NEW f, NEW S, IsFiniteSet(S), S # {}
    PROVE  SumFunctionOnSet(f, S) = f[Chosen(S)] + SumFunctionOnSet(f, S \ {Chosen(S)})
<1>. DEFINE R == S \ {Chosen(S)}
<1>1. S \in SUBSET S /\ R \subseteq S /\ IsFiniteSet(R)
  BY FS_Subset
<1>2. SumIter(f, S)[S] = f[Chosen(S)] + SumIter(f, S)[R]
  <2>1. Sums(SumIter(f, S), f, SUBSET S)
    BY SumIterDef
  <2>. QED BY <1>1, <2>1, SumsAt
<1>3. SumIter(f, S)[R] = SumIter(f, R)[R]
  <2>. HIDE DEF R
  <2>. QED BY <1>1, SumIterAgree
<1>4. SumFunctionOnSet(f, S) = SumIter(f, S)[S] /\ SumFunctionOnSet(f, R) = SumIter(f, R)[R]
  BY SumUnfold
<1>. QED BY <1>2, <1>3, <1>4

(* The sum of integers is an integer, of naturals a natural. *)
LEMMA SumType ==
    ASSUME NEW I \in {Nat, Int}, NEW f, NEW S, IsFiniteSet(S), \A x \in S : f[x] \in I
    PROVE  SumFunctionOnSet(f, S) \in I
<1>. DEFINE C == {T \in SUBSET S : SumFunctionOnSet(f, T) \notin I}
<1>. SUFFICES ASSUME C # {} PROVE FALSE
  OBVIOUS
<1>1. PICK T \in C : \A U \in C : U \subseteq T => U = T
  <2>1. C \in SUBSET (SUBSET S)
    OBVIOUS
  <2>. HIDE DEF C
  <2>. QED BY <2>1, MinimalSubset
<1>2. T # {}
  BY SumEmpty
<1>3. Chosen(T) \in T /\ T \ {Chosen(T)} # T /\ IsFiniteSet(T)
  BY <1>2, TakeOut, FS_Subset
<1>4. SumFunctionOnSet(f, T \ {Chosen(T)}) \in I
  BY <1>1, <1>3
<1>5. SumFunctionOnSet(f, T) = f[Chosen(T)] + SumFunctionOnSet(f, T \ {Chosen(T)})
  BY <1>2, <1>3, SumChosen
<1>. QED BY <1>3, <1>4, <1>5

(* Any element may be taken out of a sum first. *)
LEMMA SumRemove ==
    ASSUME NEW f, NEW S, IsFiniteSet(S), \A x \in S : f[x] \in Int, NEW x \in S
    PROVE  SumFunctionOnSet(f, S) = f[x] + SumFunctionOnSet(f, S \ {x})
<1>. DEFINE C == {T \in SUBSET S : \E y \in T :
                    SumFunctionOnSet(f, T) # f[y] + SumFunctionOnSet(f, T \ {y})}
<1>. SUFFICES ASSUME C # {} PROVE FALSE
  OBVIOUS
<1>1. PICK T \in C : \A U \in C : U \subseteq T => U = T
  <2>1. C \in SUBSET (SUBSET S)
    OBVIOUS
  <2>. HIDE DEF C
  <2>. QED BY <2>1, MinimalSubset
<1>2. PICK y \in T : SumFunctionOnSet(f, T) # f[y] + SumFunctionOnSet(f, T \ {y})
  OBVIOUS
<1>. DEFINE c == Chosen(T)
<1>3. c \in T /\ IsFiniteSet(T) /\ T # {}
  BY <1>2, TakeOut, FS_Subset
<1>4. SumFunctionOnSet(f, T) = f[c] + SumFunctionOnSet(f, T \ {c})
  BY <1>3, SumChosen
<1>5. c # y
  BY <1>2, <1>4
<1>. HIDE DEF c
<1>6. T \ {c} \notin C /\ T \ {y} \notin C
  BY <1>1, <1>2, <1>3
<1>7. SumFunctionOnSet(f, T \ {c}) = f[y] + SumFunctionOnSet(f, (T \ {c}) \ {y})
  BY <1>2, <1>5, <1>6
<1>8. SumFunctionOnSet(f, T \ {y}) = f[c] + SumFunctionOnSet(f, (T \ {y}) \ {c})
  BY <1>3, <1>5, <1>6
<1>9. (T \ {c}) \ {y} = (T \ {y}) \ {c}
  OBVIOUS
<1>10. SumFunctionOnSet(f, (T \ {y}) \ {c}) \in Int
  <2>1. IsFiniteSet((T \ {y}) \ {c})
    BY <1>3, FS_Subset
  <2>. QED BY <2>1, SumType
<1>11. f[c] \in Int /\ f[y] \in Int
  BY <1>2, <1>3
<1>. DEFINE s == SumFunctionOnSet(f, (T \ {y}) \ {c})
<1>12. /\ SumFunctionOnSet(f, T) = f[c] + (f[y] + s)
       /\ SumFunctionOnSet(f, T \ {y}) = f[c] + s
  BY <1>4, <1>7, <1>8, <1>9
<1>13. s \in Int
  BY <1>10
<1>. HIDE DEF C, s
<1>. QED BY <1>2, <1>11, <1>12, <1>13

(* Changing the value at one element changes the sum by as much. *)
LEMMA SumUpdate ==
    ASSUME NEW f, NEW g, NEW S, IsFiniteSet(S), NEW x \in S,
           \A y \in S : f[y] \in Int /\ g[y] \in Int,
           \A y \in S \ {x} : f[y] = g[y]
    PROVE  SumFunctionOnSet(g, S) = SumFunctionOnSet(f, S) + (g[x] - f[x])
<1>. DEFINE s == SumFunctionOnSet(f, S \ {x})
<1>1. IsFiniteSet(S \ {x})
  BY FS_Subset
<1>2. SumFunctionOnSet(g, S \ {x}) = s
  BY <1>1, SumCongruence
<1>3. s \in Int /\ f[x] \in Int /\ g[x] \in Int
  BY <1>1, SumType
<1>4. SumFunctionOnSet(f, S) = f[x] + s /\ SumFunctionOnSet(g, S) = g[x] + s
  BY <1>2, SumRemove
<1>. HIDE DEF s
<1>. QED BY <1>3, <1>4

(* Larger summands give a larger sum. *)
LEMMA SumMonotone ==
    ASSUME NEW f, NEW g, NEW S, IsFiniteSet(S),
           \A x \in S : f[x] \in Int /\ g[x] \in Int /\ f[x] <= g[x]
    PROVE  SumFunctionOnSet(f, S) <= SumFunctionOnSet(g, S)
<1>. DEFINE C == {T \in SUBSET S : ~(SumFunctionOnSet(f, T) <= SumFunctionOnSet(g, T))}
<1>. SUFFICES ASSUME C # {} PROVE FALSE
  OBVIOUS
<1>1. PICK T \in C : \A U \in C : U \subseteq T => U = T
  <2>1. C \in SUBSET (SUBSET S)
    OBVIOUS
  <2>. HIDE DEF C
  <2>. QED BY <2>1, MinimalSubset
<1>2. T # {}
  BY SumEmpty
<1>. DEFINE R == T \ {Chosen(T)}
<1>3. Chosen(T) \in T /\ R # T /\ IsFiniteSet(T) /\ IsFiniteSet(R) /\ R \subseteq T
  BY <1>2, TakeOut, FS_Subset
<1>4. R \notin C
  BY <1>1, <1>3
<1>5. /\ SumFunctionOnSet(f, T) = f[Chosen(T)] + SumFunctionOnSet(f, R)
      /\ SumFunctionOnSet(g, T) = g[Chosen(T)] + SumFunctionOnSet(g, R)
  BY <1>2, <1>3, SumChosen
<1>6. /\ f[Chosen(T)] \in Int /\ g[Chosen(T)] \in Int /\ f[Chosen(T)] <= g[Chosen(T)]
      /\ SumFunctionOnSet(f, R) \in Int /\ SumFunctionOnSet(g, R) \in Int
  BY <1>3, SumType
<1>7. SumFunctionOnSet(f, R) <= SumFunctionOnSet(g, R)
  BY <1>4, <1>3
<1>8. ~(SumFunctionOnSet(f, T) <= SumFunctionOnSet(g, T))
  OBVIOUS
<1>. HIDE DEF C, R
<1>. QED BY <1>5, <1>6, <1>7, <1>8

LEMMA SumZero ==
    ASSUME NEW f, NEW S, IsFiniteSet(S), \A x \in S : f[x] = 0
    PROVE  SumFunctionOnSet(f, S) = 0
<1>. DEFINE C == {T \in SUBSET S : SumFunctionOnSet(f, T) # 0}
<1>. SUFFICES ASSUME C # {} PROVE FALSE
  OBVIOUS
<1>1. PICK T \in C : \A U \in C : U \subseteq T => U = T
  <2>1. C \in SUBSET (SUBSET S)
    OBVIOUS
  <2>. HIDE DEF C
  <2>. QED BY <2>1, MinimalSubset
<1>2. T # {}
  BY SumEmpty
<1>3. Chosen(T) \in T /\ T \ {Chosen(T)} # T /\ IsFiniteSet(T)
  BY <1>2, TakeOut, FS_Subset
<1>4. SumFunctionOnSet(f, T) = f[Chosen(T)] + SumFunctionOnSet(f, T \ {Chosen(T)})
  BY <1>2, <1>3, SumChosen
<1>5. SumFunctionOnSet(f, T \ {Chosen(T)}) = 0 /\ f[Chosen(T)] = 0
  BY <1>1, <1>3
<1>. QED BY <1>4, <1>5

(* A sum of naturals is at least each of them. *)
LEMMA SumAtLeast ==
    ASSUME NEW f, NEW S, IsFiniteSet(S), \A x \in S : f[x] \in Nat, NEW x \in S
    PROVE  f[x] <= SumFunctionOnSet(f, S)
<1>1. SumFunctionOnSet(f, S) = f[x] + SumFunctionOnSet(f, S \ {x})
  BY SumRemove
<1>2. SumFunctionOnSet(f, S \ {x}) \in Nat
  <2>1. IsFiniteSet(S \ {x})
    BY FS_Subset
  <2>. QED BY <2>1, SumType
<1>. QED BY <1>1, <1>2

(* A sum of naturals over a part is at most the sum over the whole. *)
LEMMA SumSubset ==
    ASSUME NEW f, NEW S, IsFiniteSet(S), \A x \in S : f[x] \in Nat, NEW R \in SUBSET S
    PROVE  SumFunctionOnSet(f, R) <= SumFunctionOnSet(f, S)
<1>. DEFINE C == {T \in SUBSET S : ~(SumFunctionOnSet(f, T \cap R) <= SumFunctionOnSet(f, T))}
<1>1. ASSUME C # {} PROVE FALSE
  <2>1. PICK T \in C : \A U \in C : U \subseteq T => U = T
    <3>1. C \in SUBSET (SUBSET S)
      OBVIOUS
    <3>. HIDE DEF C
    <3>. QED BY <1>1, <3>1, MinimalSubset
  <2>. DEFINE c == Chosen(T)  Q == T \ {c}  s == SumFunctionOnSet(f, Q)
              t == SumFunctionOnSet(f, Q \cap R)
  <2>2. T # {}
    <3>. SUFFICES ASSUME T = {} PROVE FALSE
      OBVIOUS
    <3>1. T \cap R = {}
      OBVIOUS
    <3>. QED BY <3>1, SumEmpty
  <2>3. c \in T /\ Q # T /\ IsFiniteSet(T) /\ IsFiniteSet(Q) /\ Q \subseteq T
    BY <2>2, TakeOut, FS_Subset
  <2>4. Q \notin C /\ Q \in SUBSET S
    BY <2>1, <2>3
  <2>5. SumFunctionOnSet(f, T) = f[c] + s
    BY <2>2, <2>3, SumChosen
  <2>6. IsFiniteSet(T \cap R) /\ IsFiniteSet(Q \cap R)
    BY <2>3, FS_Subset
  <2>7. f[c] \in Nat /\ s \in Nat /\ t \in Nat
    BY <2>3, <2>4, <2>6, SumType
  <2>8. t <= s
    BY <2>4
  <2>9. CASE c \in R
    <3>1. (T \cap R) \ {c} = Q \cap R /\ c \in T \cap R
      BY <2>3, <2>9
    <3>2. SumFunctionOnSet(f, T \cap R) = f[c] + SumFunctionOnSet(f, (T \cap R) \ {c})
      BY <2>6, <3>1, SumRemove
    <3>3. SumFunctionOnSet(f, T \cap R) = f[c] + t
      BY <3>1, <3>2
    <3>4. SumFunctionOnSet(f, T \cap R) <= SumFunctionOnSet(f, T)
      <4>. HIDE DEF s, t, c
      <4>. QED BY <2>5, <2>7, <2>8, <3>3
    <3>. QED BY <3>4
  <2>10. CASE c \notin R
    <3>1. T \cap R = Q \cap R
      BY <2>10
    <3>2. SumFunctionOnSet(f, T \cap R) = t
      BY <3>1
    <3>3. SumFunctionOnSet(f, T \cap R) <= SumFunctionOnSet(f, T)
      <4>. HIDE DEF s, t, c
      <4>. QED BY <2>5, <2>7, <2>8, <3>2
    <3>. QED BY <3>3
  <2>. QED BY <2>9, <2>10
<1>2. S \notin C
  BY <1>1
<1>3. S \cap R = R
  OBVIOUS
<1>4. SumFunctionOnSet(f, S \cap R) <= SumFunctionOnSet(f, S)
  BY <1>2
<1>. QED BY <1>3, <1>4

=============================================================================
