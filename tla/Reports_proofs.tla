---------------------------- MODULE Reports_proofs ----------------------------
(***************************************************************************)
(* Theorems about History and Reports: the figures add up, however many    *)
(* switches, data centres, ports and samples there are; and about Versions.*)
(*                                                                         *)
(* Sums over finite sets come first (the fold of the library has an        *)
(* arbitrary order), then the order of rows and buckets, then what each    *)
(* sample is known to stand for, then the report, and at the end what the  *)
(* trend and the version checks tell.                                      *)
(***************************************************************************)
EXTENDS Reports, Versions, FiniteSetTheorems, WellFoundedInduction, TLAPS

(* Induction over a finite set: a property of sets is the set of those that have it. *)

LEMMA FinInduct ==
    ASSUME NEW S, IsFiniteSet(S), NEW G, {} \in G,
           \A T \in SUBSET S : \A x \in S \ T : T \in G => T \cup {x} \in G
    PROVE  S \in G
<1> SUFFICES ASSUME S \notin G PROVE FALSE
  OBVIOUS
<1> DEFINE B == {T \in SUBSET S : T \notin G}
<1>1. B \in SUBSET FiniteSubsetsOf(S) /\ B # {} /\ B \subseteq SUBSET S
  BY FS_FiniteSubsetsOfFinite
<1>2. PICK U \in B : \A V \in B : ~(<<V, U>> \in StrictSubsetOrdering(S))
  <2> HIDE DEF B
  <2> QED BY <1>1, FS_StrictSubsetOrderingWellFounded, WFMin
<1>3. PICK x \in U : TRUE
  BY <1>2
<1>4. x \in S /\ U \in SUBSET S /\ U \notin G
  BY <1>2, <1>3
<1> DEFINE V == U \ {x}
<1>5. V \in SUBSET S /\ V \subseteq U /\ V # U /\ U = V \cup {x} /\ x \in S \ V
  BY <1>3, <1>4
<1>6. V \notin G
  <2> HIDE DEF V
  <2> QED BY <1>4, <1>5
<1>7. <<V, U>> \in StrictSubsetOrdering(S)
  BY <1>4, <1>5 DEF StrictSubsetOrdering
<1> QED BY <1>2, <1>5, <1>6, <1>7

-----------------------------------------------------------------------------
(* Sums over finite sets. *)

\* The fold behind SumFunctionOnSet: one element after another, whichever CHOOSE takes.
One(T) == CHOOSE x \in T : TRUE
Folds(it, f, S) ==
    it = [T \in SUBSET S |-> IF T = {} THEN 0 ELSE f[One(T)] + it[T \ {One(T)}]]

LEMMA SumIs ==
    ASSUME NEW f, NEW S
    PROVE  SumFunctionOnSet(f, S) = (CHOOSE it : Folds(it, f, S))[S]
BY DEF SumFunctionOnSet, FoldFunctionOnSet, MapThenFoldSet, Folds, One

LEMMA OneIn == ASSUME NEW T, T # {} PROVE One(T) \in T
BY DEF One

LEMMA FoldsOn ==
    ASSUME NEW it, NEW f, NEW S, Folds(it, f, S)
    PROVE  /\ it[{}] = 0
           /\ \A T \in SUBSET S : T # {} => it[T] = f[One(T)] + it[T \ {One(T)}]
BY DEF Folds

\* Every subset that a fold reaches is smaller, so there is one fold.
LEMMA FoldsOnce ==
    ASSUME NEW f, NEW S, IsFiniteSet(S), NEW a, NEW b, Folds(a, f, S), Folds(b, f, S)
    PROVE  a = b
<1> DEFINE B == {T \in SUBSET S : a[T] # b[T]}
<1>1. CASE B = {}
  <2>1. /\ a = [T \in SUBSET S |-> a[T]] /\ b = [T \in SUBSET S |-> b[T]]
        /\ \A T \in SUBSET S : a[T] = b[T]
    BY <1>1 DEF Folds
  <2> QED BY <2>1
<1>2. CASE B # {}
  <2>1. B \in SUBSET FiniteSubsetsOf(S)
    BY FS_FiniteSubsetsOfFinite
  <2>2. PICK U \in B : \A V \in B : ~(<<V, U>> \in StrictSubsetOrdering(S))
    <3> HIDE DEF B
    <3> QED BY <1>2, <2>1, FS_StrictSubsetOrderingWellFounded, WFMin
  <2>3. U \in SUBSET S /\ a[U] # b[U]
    BY <2>2
  <2>4. U # {}
    BY <2>3, FoldsOn
  <2> DEFINE V == U \ {One(U)}
  <2>5. V \in SUBSET S /\ V \subseteq U /\ V # U
    BY <2>3, <2>4, OneIn
  <2>6. a[U] = f[One(U)] + a[V] /\ b[U] = f[One(U)] + b[V]
    BY <2>3, <2>4, FoldsOn
  <2>7. V \in B
    BY <2>3, <2>5, <2>6
  <2>8. <<V, U>> \in StrictSubsetOrdering(S)
    BY <2>3, <2>5 DEF StrictSubsetOrdering
  <2> QED BY <2>2, <2>7, <2>8
<1> QED BY <1>1, <1>2

LEMMA SumOfFold ==
    ASSUME NEW f, NEW S, IsFiniteSet(S), NEW it, Folds(it, f, S)
    PROVE  SumFunctionOnSet(f, S) = it[S]
<1> DEFINE j == CHOOSE k : Folds(k, f, S)
<1>1. Folds(j, f, S)
  OBVIOUS
<1>2. j = it
  <2> HIDE DEF j
  <2> QED BY <1>1, FoldsOnce
<1> QED BY <1>2, SumIs

\* A fold over a set is one over each of its subsets.
LEMMA FoldsBelow ==
    ASSUME NEW f, NEW S, NEW it, Folds(it, f, S), NEW V \in SUBSET S
    PROVE  Folds([T \in SUBSET V |-> it[T]], f, V)
<1> DEFINE r == [T \in SUBSET V |-> it[T]]
<1>1. ASSUME NEW T \in SUBSET V
      PROVE  r[T] = IF T = {} THEN 0 ELSE f[One(T)] + r[T \ {One(T)}]
  <2>1. /\ T \in SUBSET S
        /\ r[T] = it[T] /\ r[T \ {One(T)}] = it[T \ {One(T)}]
    OBVIOUS
  <2> HIDE DEF r
  <2>2. it[T] = IF T = {} THEN 0 ELSE f[One(T)] + it[T \ {One(T)}]
    <3>1. CASE T = {}
      BY <3>1, FoldsOn
    <3>2. CASE T # {}
      BY <2>1, <3>2, FoldsOn
    <3> QED BY <3>1, <3>2
  <2> QED BY <2>1, <2>2
<1>2. r = [T \in SUBSET V |-> r[T]]
  OBVIOUS
<1> HIDE DEF r
<1>3. r = [T \in SUBSET V |-> IF T = {} THEN 0 ELSE f[One(T)] + r[T \ {One(T)}]]
  BY <1>1, <1>2
<1> QED BY <1>3 DEF Folds, r


\* Every finite set has a fold.
LEMMA FoldExists ==
    ASSUME NEW f, NEW S, IsFiniteSet(S)
    PROVE  \E it : Folds(it, f, S)
<1> DEFINE Has(T) == \E it : Folds(it, f, T)
           B == {T \in SUBSET S : ~Has(T)}
<1> SUFFICES ASSUME ~Has(S) PROVE FALSE
  OBVIOUS
<1>1. B \in SUBSET FiniteSubsetsOf(S) /\ B # {}
  BY FS_FiniteSubsetsOfFinite
<1>2. PICK U \in B : \A V \in B : ~(<<V, U>> \in StrictSubsetOrdering(S))
  <2> HIDE DEF B
  <2> QED BY <1>1, FS_StrictSubsetOrderingWellFounded, WFMin
<1>3. U \in SUBSET S /\ ~Has(U)
  BY <1>2
<1> DEFINE H(T) == SumFunctionOnSet(f, T)
           below == {V \in SUBSET U : V # U}
<1>4. ASSUME NEW V \in below
      PROVE  Has(V) /\ IsFiniteSet(V)
  <2>1. V \in SUBSET S /\ <<V, U>> \in StrictSubsetOrdering(S)
    BY <1>3 DEF StrictSubsetOrdering
  <2> HIDE DEF Has
  <2> QED BY <2>1, <1>2, FS_Subset
<1>5. ASSUME NEW V \in below
      PROVE  /\ V = {} => H(V) = 0
             /\ V # {} => H(V) = f[One(V)] + H(V \ {One(V)})
  <2>1. PICK it : Folds(it, f, V)
    BY <1>4
  <2>2. H(V) = it[V]
    BY <2>1, <1>4, SumOfFold
  <2>3. CASE V = {}
    BY <2>1, <2>2, <2>3, FoldsOn
  <2>4. CASE V # {}
    <3> DEFINE W == V \ {One(V)}
               r == [T \in SUBSET W |-> it[T]]
    <3>1. W \in SUBSET V /\ W \in below
      BY <2>4, OneIn
    <3>2. Folds(r, f, W) /\ r[W] = it[W]
      BY <2>1, <3>1, FoldsBelow
    <3>3. H(W) = it[W]
      <4> HIDE DEF r, W
      <4> QED BY <3>1, <3>2, <1>4, SumOfFold
    <3> QED BY <2>1, <2>2, <2>4, <3>3, FoldsOn
  <2> QED BY <2>3, <2>4
<1> DEFINE j == [T \in SUBSET U |-> IF T = {} THEN 0 ELSE f[One(T)] + H(T \ {One(T)})]
<1> HIDE DEF H, Has, B
<1>6. ASSUME NEW T \in SUBSET U, T # {}
      PROVE  j[T \ {One(T)}] = H(T \ {One(T)})
  <2> DEFINE W == T \ {One(T)}
  <2>1. W \in below /\ W \in SUBSET U
    BY <1>6, OneIn
  <2>2. j[W] = IF W = {} THEN 0 ELSE f[One(W)] + H(W \ {One(W)})
    BY <2>1
  <2> HIDE DEF W, j
  <2>3. j[W] = H(W)
    BY <2>1, <2>2, <1>5
  <2> QED BY <2>3 DEF W
<1>7. Folds(j, f, U)
  <2>1. \A T \in SUBSET U : j[T] = IF T = {} THEN 0 ELSE f[One(T)] + H(T \ {One(T)})
    OBVIOUS
  <2>2. j = [T \in SUBSET U |-> j[T]]
    OBVIOUS
  <2> HIDE DEF j
  <2>3. j = [T \in SUBSET U |-> IF T = {} THEN 0 ELSE f[One(T)] + j[T \ {One(T)}]]
    BY <2>1, <2>2, <1>6
  <2> QED BY <2>3 DEF Folds
<1> QED BY <1>3, <1>7 DEF Has

LEMMA SumSteps ==
    ASSUME NEW f, NEW S, IsFiniteSet(S)
    PROVE  /\ SumFunctionOnSet(f, {}) = 0
           /\ S # {} => SumFunctionOnSet(f, S) = f[One(S)] + SumFunctionOnSet(f, S \ {One(S)})
<1>1. PICK it : Folds(it, f, S)
  BY FoldExists
<1>2. ASSUME NEW V \in SUBSET S
      PROVE  SumFunctionOnSet(f, V) = it[V]
  <2> DEFINE r == [T \in SUBSET V |-> it[T]]
  <2>1. Folds(r, f, V) /\ r[V] = it[V]
    BY <1>1, FoldsBelow
  <2>2. IsFiniteSet(V)
    BY FS_Subset
  <2> HIDE DEF r
  <2> QED BY <2>1, <2>2, SumOfFold
<1>3. SumFunctionOnSet(f, {}) = it[{}] /\ SumFunctionOnSet(f, S) = it[S]
      /\ SumFunctionOnSet(f, S \ {One(S)}) = it[S \ {One(S)}]
  BY <1>2
<1> QED BY <1>1, <1>3, FoldsOn

\* A sum of numbers is a number, and does not depend on the order: any element may be
\* the first.
LEMMA SumRemove ==
    ASSUME NEW f, NEW S, IsFiniteSet(S), \A x \in S : f[x] \in Nat
    PROVE  /\ SumFunctionOnSet(f, S) \in Nat
           /\ \A x \in S : SumFunctionOnSet(f, S) = f[x] + SumFunctionOnSet(f, S \ {x})
<1> DEFINE H(T) == SumFunctionOnSet(f, T)
           Fine(T) == H(T) \in Nat /\ \A x \in T : H(T) = f[x] + H(T \ {x})
           B == {T \in SUBSET S : ~Fine(T)}
<1> SUFFICES ASSUME ~Fine(S) PROVE FALSE
  OBVIOUS
<1>1. B \in SUBSET FiniteSubsetsOf(S) /\ B # {}
  BY FS_FiniteSubsetsOfFinite
<1>2. PICK U \in B : \A V \in B : ~(<<V, U>> \in StrictSubsetOrdering(S))
  <2> HIDE DEF B
  <2> QED BY <1>1, FS_StrictSubsetOrderingWellFounded, WFMin
<1>3. U \in SUBSET S /\ ~Fine(U) /\ IsFiniteSet(U)
  BY <1>2, FS_Subset
<1>4. ASSUME NEW V \in SUBSET U, V # U
      PROVE  Fine(V)
  <2>1. V \in SUBSET S /\ <<V, U>> \in StrictSubsetOrdering(S)
    BY <1>3, <1>4 DEF StrictSubsetOrdering
  <2> HIDE DEF Fine
  <2> QED BY <2>1, <1>2
<1>5. /\ H({}) = 0
      /\ U # {} => H(U) = f[One(U)] + H(U \ {One(U)})
  BY <1>3, SumSteps
<1> HIDE DEF H
<1>6. U # {}
  <2>1. H({}) \in Nat /\ Fine({})
    BY <1>5
  <2> HIDE DEF Fine
  <2> QED BY <2>1, <1>3
<1> DEFINE y == One(U)
<1>7. y \in U /\ f[y] \in Nat /\ H(U) = f[y] + H(U \ {y})
  BY <1>3, <1>5, <1>6, OneIn
<1> HIDE DEF y
<1>8. Fine(U \ {y})
  BY <1>4, <1>7
<1>9. H(U) \in Nat
  BY <1>7, <1>8
<1>10. ASSUME NEW x \in U, x # y
       PROVE  H(U) = f[x] + H(U \ {x})
  <2>1. Fine(U \ {x}) /\ f[x] \in Nat
    BY <1>3, <1>4
  <2> DEFINE W == (U \ {x}) \ {y}
  <2>2. W = (U \ {y}) \ {x}
    OBVIOUS
  <2>3. W \in SUBSET U /\ W # U
    OBVIOUS
  <2>4. H(U \ {x}) = f[y] + H(W)
    BY <2>1, <1>7, <1>10
  <2>5. H(U \ {y}) = f[x] + H(W)
    BY <2>2, <1>8, <1>10
  <2>6. H(W) \in Nat
    <3> HIDE DEF W
    <3> QED BY <2>3, <1>4
  <2> QED BY <1>7, <2>1, <2>4, <2>5, <2>6
<1> QED BY <1>3, <1>7, <1>9, <1>10


\* From here on a sum is known by these facts only.
SumOn(f, S) == SumFunctionOnSet(f, S)

LEMMA SumOnAdd ==
    ASSUME NEW f, NEW S, IsFiniteSet(S), \A x \in S : f[x] \in Nat
    PROVE  /\ SumOn(f, {}) = 0
           /\ SumOn(f, S) \in Nat
           /\ \A T \in SUBSET S : SumOn(f, T) \in Nat /\ IsFiniteSet(T)
           /\ \A T \in SUBSET S : \A x \in S \ T : SumOn(f, T \cup {x}) = f[x] + SumOn(f, T)
           /\ \A x \in S : SumOn(f, S) = f[x] + SumOn(f, S \ {x})
<1>1. SumOn(f, {}) = 0
  BY SumSteps DEF SumOn
<1>2. ASSUME NEW T \in SUBSET S
      PROVE  SumOn(f, T) \in Nat /\ IsFiniteSet(T)
  <2>1. IsFiniteSet(T)
    BY FS_Subset
  <2> QED BY <2>1, SumRemove DEF SumOn
<1>3. ASSUME NEW T \in SUBSET S, NEW x \in T
      PROVE  SumOn(f, T) = f[x] + SumOn(f, T \ {x})
  <2>1. IsFiniteSet(T) /\ \A y \in T : f[y] \in Nat
    BY <1>2
  <2> QED BY <2>1, SumRemove DEF SumOn
<1>4. ASSUME NEW T \in SUBSET S, NEW x \in S \ T
      PROVE  SumOn(f, T \cup {x}) = f[x] + SumOn(f, T)
  <2> DEFINE U == T \cup {x}
  <2>1. U \in SUBSET S /\ x \in U /\ U \ {x} = T
    OBVIOUS
  <2> HIDE DEF U
  <2>2. SumOn(f, U) = f[x] + SumOn(f, T)
    BY <2>1, <1>3
  <2> QED BY <2>2 DEF U
<1>5. S \in SUBSET S
  OBVIOUS
<1> QED BY <1>1, <1>2, <1>3, <1>4, <1>5

\* The step that inductions take.
LEMMA SumOnStep ==
    ASSUME NEW f, NEW S, IsFiniteSet(S), \A x \in S : f[x] \in Nat,
           NEW T \in SUBSET S, NEW x \in S \ T
    PROVE  /\ SumOn(f, T \cup {x}) = f[x] + SumOn(f, T)
           /\ SumOn(f, T) \in Nat /\ SumOn(f, T \cup {x}) \in Nat
           /\ f[x] \in Nat
<1>1. T \cup {x} \in SUBSET S
  OBVIOUS
<1>2. \A U \in SUBSET S : SumOn(f, U) \in Nat
  BY SumOnAdd
<1>3. SumOn(f, T \cup {x}) = f[x] + SumOn(f, T)
  BY SumOnAdd
<1> QED BY <1>1, <1>2, <1>3

LEMMA SumOnTake ==
    ASSUME NEW f, NEW S, IsFiniteSet(S), \A x \in S : f[x] \in Nat, NEW x \in S
    PROVE  /\ SumOn(f, S) = f[x] + SumOn(f, S \ {x})
           /\ SumOn(f, S \ {x}) \in Nat
<1>1. S \ {x} \in SUBSET S
  OBVIOUS
<1>2. \A U \in SUBSET S : SumOn(f, U) \in Nat
  BY SumOnAdd
<1>3. SumOn(f, S) = f[x] + SumOn(f, S \ {x})
  BY SumOnAdd
<1> QED BY <1>1, <1>2, <1>3

LEMMA SumOnNone == ASSUME NEW f PROVE SumOn(f, {}) = 0
<1>1. IsFiniteSet({})
  BY FS_EmptySet
<1> QED BY <1>1, SumSteps DEF SumOn

\* Equal summands, equal sums.
LEMMA SumOnSame ==
    ASSUME NEW S, IsFiniteSet(S), NEW f, NEW g,
           \A x \in S : f[x] \in Nat, \A x \in S : f[x] = g[x]
    PROVE  SumOn(f, S) = SumOn(g, S)
<1> DEFINE G == {T \in SUBSET S : SumOn(f, T) = SumOn(g, T)}
<1>0. \A x \in S : g[x] \in Nat
  OBVIOUS
<1>1. {} \in G
  BY SumOnNone
<1>2. ASSUME NEW T \in SUBSET S, NEW x \in S \ T, T \in G
      PROVE  T \cup {x} \in G
  <2>0. SumOn(f, T) = SumOn(g, T)
    BY <1>2
  <2> HIDE DEF G
  <2>1. SumOn(f, T \cup {x}) = f[x] + SumOn(f, T)
    BY SumOnStep
  <2>2. SumOn(g, T \cup {x}) = g[x] + SumOn(g, T)
    BY <1>0, SumOnStep
  <2>3. SumOn(f, T \cup {x}) = SumOn(g, T \cup {x}) /\ T \cup {x} \in SUBSET S
    BY <2>0, <2>1, <2>2
  <2> QED BY <2>3 DEF G
<1>3. S \in G
  <2> HIDE DEF G
  <2> QED BY <1>1, <1>2, FinInduct
<1> QED BY <1>3

\* What contributes nothing may be left out.
LEMMA SumOnPart ==
    ASSUME NEW S, IsFiniteSet(S), NEW f, \A x \in S : f[x] \in Nat,
           NEW P \in SUBSET S, \A x \in S \ P : f[x] = 0
    PROVE  SumOn(f, S) = SumOn(f, P)
<1> DEFINE G == {T \in SUBSET S : SumOn(f, T) = SumOn(f, T \cap P)}
<1>1. {} \in G
  <2>1. {} \cap P = {}
    OBVIOUS
  <2> QED BY <2>1
<1>2. ASSUME NEW T \in SUBSET S, NEW x \in S \ T, T \in G
      PROVE  T \cup {x} \in G
  <2>0. SumOn(f, T) = SumOn(f, T \cap P)
    BY <1>2
  <2> HIDE DEF G
  <2>1. SumOn(f, T \cup {x}) = f[x] + SumOn(f, T) /\ SumOn(f, T) \in Nat
    BY SumOnStep
  <2>2. CASE x \in P
    <3>1. (T \cup {x}) \cap P = (T \cap P) \cup {x} /\ T \cap P \in SUBSET S
          /\ x \in S \ (T \cap P)
      BY <2>2
    <3>2. SumOn(f, (T \cap P) \cup {x}) = f[x] + SumOn(f, T \cap P)
      BY <3>1, SumOnStep
    <3>3. SumOn(f, T \cup {x}) = SumOn(f, (T \cup {x}) \cap P)
      BY <3>1, <3>2, <2>0, <2>1
    <3> QED BY <3>3 DEF G
  <2>3. CASE x \notin P
    <3>1. (T \cup {x}) \cap P = T \cap P /\ f[x] = 0
      BY <2>3
    <3>2. SumOn(f, T \cup {x}) = SumOn(f, T)
      BY <3>1, <2>1
    <3>3. SumOn(f, T \cup {x}) = SumOn(f, (T \cup {x}) \cap P)
      BY <3>1, <3>2, <2>0
    <3> QED BY <3>3 DEF G
  <2> QED BY <2>2, <2>3
<1>3. S \in G
  <2> HIDE DEF G
  <2> QED BY <1>1, <1>2, FinInduct
<1>4. S \cap P = P
  OBVIOUS
<1> QED BY <1>3, <1>4

\* The sum of sums is the sum.
LEMMA SumOnParts ==
    ASSUME NEW S, IsFiniteSet(S), NEW f, NEW a, NEW b, NEW c,
           \A x \in S : a[x] \in Nat, \A x \in S : b[x] \in Nat, \A x \in S : c[x] \in Nat,
           \A x \in S : f[x] = a[x] + b[x] + c[x]
    PROVE  SumOn(f, S) = SumOn(a, S) + SumOn(b, S) + SumOn(c, S)
<1> DEFINE G == {T \in SUBSET S : SumOn(f, T) = SumOn(a, T) + SumOn(b, T) + SumOn(c, T)}
<1>0. \A x \in S : f[x] \in Nat
  <2> TAKE x \in S
  <2>1. a[x] \in Nat /\ b[x] \in Nat /\ c[x] \in Nat /\ f[x] = a[x] + b[x] + c[x]
    OBVIOUS
  <2> QED BY <2>1
<1>1. {} \in G
  <2>1. SumOn(f, {}) = 0 /\ SumOn(a, {}) = 0 /\ SumOn(b, {}) = 0 /\ SumOn(c, {}) = 0
    BY SumOnNone
  <2> QED BY <2>1
<1>2. ASSUME NEW T \in SUBSET S, NEW x \in S \ T, T \in G
      PROVE  T \cup {x} \in G
  <2>0. SumOn(f, T) = SumOn(a, T) + SumOn(b, T) + SumOn(c, T)
    BY <1>2
  <2> HIDE DEF G
  <2>1. SumOn(f, T \cup {x}) = f[x] + SumOn(f, T) /\ SumOn(f, T) \in Nat /\ f[x] \in Nat
    BY <1>0, SumOnStep
  <2>2. SumOn(a, T \cup {x}) = a[x] + SumOn(a, T) /\ SumOn(a, T) \in Nat /\ a[x] \in Nat
    BY SumOnStep
  <2>3. SumOn(b, T \cup {x}) = b[x] + SumOn(b, T) /\ SumOn(b, T) \in Nat /\ b[x] \in Nat
    BY SumOnStep
  <2>4. SumOn(c, T \cup {x}) = c[x] + SumOn(c, T) /\ SumOn(c, T) \in Nat /\ c[x] \in Nat
    BY SumOnStep
  <2>5. f[x] = a[x] + b[x] + c[x] /\ T \cup {x} \in SUBSET S
    OBVIOUS
  <2>6. SumOn(f, T \cup {x}) = SumOn(a, T \cup {x}) + SumOn(b, T \cup {x}) + SumOn(c, T \cup {x})
    BY <2>0, <2>1, <2>2, <2>3, <2>4, <2>5
  <2> QED BY <2>5, <2>6 DEF G
<1>3. S \in G
  <2> HIDE DEF G
  <2> QED BY <1>1, <1>2, FinInduct
<1> QED BY <1>3

\* Summands may be named otherwise, one by one.
LEMMA SumOnMoved ==
    ASSUME NEW S, IsFiniteSet(S), NEW f, NEW g, NEW b,
           \A x \in S : f[x] \in Nat, \A x \in S : f[x] = g[b[x]],
           \A x, y \in S : b[x] = b[y] => x = y
    PROVE  /\ IsFiniteSet({b[x] : x \in S})
           /\ SumOn(f, S) = SumOn(g, {b[x] : x \in S})
<1> DEFINE To(T) == {b[x] : x \in T}
           G == {T \in SUBSET S : IsFiniteSet(To(T)) /\ SumOn(f, T) = SumOn(g, To(T))}
<1>1. {} \in G
  <2>1. To({}) = {}
    OBVIOUS
  <2>2. SumOn(f, {}) = 0 /\ SumOn(g, {}) = 0
    BY SumOnNone
  <2> QED BY <2>1, <2>2, FS_EmptySet
<1>2. ASSUME NEW T \in SUBSET S, NEW x \in S \ T, T \in G
      PROVE  T \cup {x} \in G
  <2> DEFINE U == To(T \cup {x})
  <2>1. U = To(T) \cup {b[x]} /\ b[x] \notin To(T)
    OBVIOUS
  <2>a. \A y \in U : g[y] \in Nat
    OBVIOUS
  <2>2. IsFiniteSet(To(T)) /\ SumOn(f, T) = SumOn(g, To(T))
    BY <1>2
  <2> HIDE DEF To, G
  <2>3. IsFiniteSet(U)
    <3>1. IsFiniteSet(To(T) \cup {b[x]})
      BY <2>2, FS_AddElement
    <3> QED BY <2>1, <3>1
  <2> HIDE DEF U
  <2>4. To(T) \in SUBSET U /\ b[x] \in U \ To(T)
    BY <2>1
  <2>5. SumOn(g, To(T) \cup {b[x]}) = g[b[x]] + SumOn(g, To(T))
    BY <2>a, <2>3, <2>4, SumOnStep
  <2>6. SumOn(f, T \cup {x}) = f[x] + SumOn(f, T)
    BY SumOnStep
  <2>7. SumOn(f, T \cup {x}) = SumOn(g, U) /\ T \cup {x} \in SUBSET S
    BY <2>1, <2>2, <2>5, <2>6
  <2> QED BY <2>3, <2>7 DEF U, G
<1>3. S \in G
  <2> HIDE DEF G, To
  <2> QED BY <1>1, <1>2, FinInduct
<1> QED BY <1>3


LEMMA ImageFinite ==
    ASSUME NEW S, IsFiniteSet(S), NEW k
    PROVE  IsFiniteSet({k[x] : x \in S})
<1> DEFINE D == {k[x] : x \in S}
           e == [x \in S |-> k[x]]
<1>1. e \in Surjection(S, D)
  BY DEF Surjection
<1> HIDE DEF e, D
<1>2. IsFiniteSet(D)
  BY <1>1, FS_Surjection
<1> QED BY <1>2 DEF D

\* Grouped first, the sum is the same.
Keys(k, S) == {k[x] : x \in S}
Group(k, S, d) == {x \in S : k[x] = d}

LEMMA SumOnGrouped ==
    ASSUME NEW S, IsFiniteSet(S), NEW f, \A x \in S : f[x] \in Nat, NEW k,
           NEW D, D = Keys(k, S),
           NEW h, \A d \in D : h[d] = SumOn(f, Group(k, S, d))
    PROVE  /\ IsFiniteSet(D)
           /\ SumOn(f, S) = SumOn(h, D)
<1> DEFINE g(T) == [d \in D |-> SumOn(f, {x \in T : k[x] = d})]
           G == {T \in SUBSET S : SumOn(f, T) = SumOn(g(T), D)}
<1>a. D = {k[x] : x \in S}
  BY DEF Keys
<1>0. IsFiniteSet(D)
  BY <1>a, ImageFinite
<1>1. ASSUME NEW T \in SUBSET S, NEW d \in D
      PROVE  g(T)[d] \in Nat /\ g(T)[d] = SumOn(f, {x \in T : k[x] = d})
  <2>1. {x \in T : k[x] = d} \in SUBSET S
    OBVIOUS
  <2>2. SumOn(f, {x \in T : k[x] = d}) \in Nat
    BY <2>1, SumOnAdd
  <2> QED BY <2>2
<1> HIDE DEF g
<1>2. {} \in G
  <2> DEFINE z == g({})
  <2>1. \A d \in D : z[d] = 0
    <3> TAKE d \in D
    <3>1. {x \in {} : k[x] = d} = {} /\ {} \in SUBSET S
      OBVIOUS
    <3> QED BY <3>1, <1>1, SumOnNone
  <2> HIDE DEF z
  <2>2. \A d \in D : z[d] \in Nat
    BY <2>1
  <2>3. {} \in SUBSET D /\ \A d \in D \ {} : z[d] = 0
    BY <2>1
  <2>4. SumOn(z, D) = SumOn(z, {})
    BY <1>0, <2>2, <2>3, SumOnPart
  <2>5. SumOn(f, {}) = SumOn(z, D)
    BY <2>4, SumOnNone
  <2> QED BY <2>5 DEF z
<1>3. ASSUME NEW T \in SUBSET S, NEW x \in S \ T, T \in G
      PROVE  T \cup {x} \in G
  <2> DEFINE U == T \cup {x}
             a == g(T)
             b == g(U)
             E == D \ {k[x]}
  <2>0. SumOn(f, T) = SumOn(a, D)
    BY <1>3
  <2>1. U \in SUBSET S /\ k[x] \in D /\ E \in SUBSET D
    BY <1>a, <1>3
  <2> HIDE DEF G
  <2>2. SumOn(f, U) = f[x] + SumOn(f, T) /\ f[x] \in Nat
    BY SumOnStep
  <2>3. b[k[x]] = f[x] + a[k[x]]
    <3> DEFINE P == {y \in T : k[y] = k[x]}
               Q == {y \in U : k[y] = k[x]}
    <3>1. Q = P \cup {x} /\ P \in SUBSET S /\ x \in S \ P
      OBVIOUS
    <3>2. a[k[x]] = SumOn(f, P) /\ b[k[x]] = SumOn(f, Q)
      <4> HIDE DEF U
      <4> QED BY <2>1, <1>1
    <3> HIDE DEF P, Q
    <3> QED BY <3>1, <3>2, SumOnStep
  <2>4. \A d \in E : b[d] = a[d]
    <3> TAKE d \in E
    <3> DEFINE P == {y \in T : k[y] = d}
               Q == {y \in U : k[y] = d}
    <3>1. P = Q
      OBVIOUS
    <3>2. a[d] = SumOn(f, P) /\ b[d] = SumOn(f, Q)
      <4> HIDE DEF U
      <4> QED BY <2>1, <1>1
    <3> HIDE DEF P, Q
    <3> QED BY <3>1, <3>2
  <2>5. /\ \A d \in D : a[d] \in Nat
        /\ \A d \in D : b[d] \in Nat
    <3> HIDE DEF U
    <3> QED BY <2>1, <1>1
  <2> HIDE DEF a, b, U
  <2>6. /\ SumOn(a, D) = a[k[x]] + SumOn(a, E)
        /\ SumOn(b, D) = b[k[x]] + SumOn(b, E)
        /\ SumOn(a, E) \in Nat
    <3> DEFINE z == k[x]
    <3>z. z \in D
      BY <2>1
    <3>0. E = D \ {z}
      BY DEF E
    <3> HIDE DEF z
    <3>a. \A d \in D : a[d] \in Nat
      BY <2>5
    <3>b. \A d \in D : b[d] \in Nat
      BY <2>5
    <3>1. SumOn(a, D) = a[z] + SumOn(a, D \ {z})
      BY <1>0, <3>a, <3>z, SumOnTake
    <3>c. SumOn(a, D \ {z}) \in Nat
      BY <1>0, <3>a, <3>z, SumOnTake
    <3>2. SumOn(b, D) = b[z] + SumOn(b, D \ {z})
      BY <1>0, <3>b, <3>z, SumOnTake
    <3> QED BY <3>0, <3>1, <3>2, <3>c DEF z
  <2>7. SumOn(b, E) = SumOn(a, E)
    <3>1. IsFiniteSet(E) /\ \A d \in E : b[d] \in Nat
      BY <2>1, <2>5, <1>0, FS_Subset
    <3> HIDE DEF E
    <3> QED BY <3>1, <2>4, SumOnSame
  <2>8. SumOn(f, U) = SumOn(b, D)
    BY <2>0, <2>1, <2>2, <2>3, <2>5, <2>6, <2>7
  <2> QED BY <2>1, <2>8 DEF U, b, G
<1>4. S \in G
  <2> HIDE DEF G
  <2> QED BY <1>2, <1>3, FinInduct
<1> DEFINE all == g(S)
<1>5. \A d \in D : all[d] \in Nat
  BY <1>1
<1>6. \A d \in D : all[d] = h[d]
  <2> TAKE d \in D
  <2> DEFINE P == {x \in S : k[x] = d}
  <2>1. all[d] = SumOn(f, P) /\ h[d] = SumOn(f, Group(k, S, d))
    BY <1>1
  <2>2. P = Group(k, S, d)
    BY DEF Group
  <2> HIDE DEF P
  <2> QED BY <2>1, <2>2
<1>7. SumOn(f, S) = SumOn(all, D)
  BY <1>4
<1>8. SumOn(all, D) = SumOn(h, D)
  <2> HIDE DEF all
  <2> QED BY <1>0, <1>5, <1>6, SumOnSame
<1> QED BY <1>0, <1>7, <1>8

\* A sum of cardinalities is the cardinality of the disjoint union.
LEMMA SumOnCounts ==
    ASSUME NEW S, IsFiniteSet(S), NEW q, \A s \in S : IsFiniteSet(q[s]),
           NEW f, \A s \in S : f[s] = Cardinality(q[s])
    PROVE  /\ IsFiniteSet(UNION {{s} \X q[s] : s \in S})
           /\ Cardinality(UNION {{s} \X q[s] : s \in S}) = SumOn(f, S)
           /\ \A s \in S : f[s] \in Nat
<1> DEFINE All(T) == UNION {{s} \X q[s] : s \in T}
           G == {T \in SUBSET S : IsFiniteSet(All(T)) /\ Cardinality(All(T)) = SumOn(f, T)}
<1>0. \A s \in S : f[s] \in Nat
  BY FS_CardinalityType
<1>1. {} \in G
  <2>1. All({}) = {}
    OBVIOUS
  <2> HIDE DEF All
  <2> QED BY <2>1, SumOnNone, FS_EmptySet
<1>2. ASSUME NEW T \in SUBSET S, NEW x \in S \ T, T \in G
      PROVE  T \cup {x} \in G
  <2> DEFINE U == T \cup {x}
             A == All(T)
             B == {x} \X q[x]
  <2>1. All(U) = A \cup B
    OBVIOUS
  <2>2. A \cap B = {}
    OBVIOUS
  <2>3. IsFiniteSet(A) /\ Cardinality(A) = SumOn(f, T)
    BY <1>2
  <2>4. IsFiniteSet(B) /\ Cardinality(B) = f[x] /\ f[x] \in Nat
    <3>1. IsFiniteSet({x}) /\ Cardinality({x}) = 1 /\ IsFiniteSet(q[x])
      BY FS_Singleton
    <3>2. IsFiniteSet(B) /\ Cardinality(B) = 1 * Cardinality(q[x])
      BY <3>1, FS_Product
    <3>3. f[x] \in Nat /\ f[x] = Cardinality(q[x])
      BY <1>0
    <3> HIDE DEF B
    <3> QED BY <3>2, <3>3
  <2>5. SumOn(f, U) = f[x] + SumOn(f, T) /\ SumOn(f, T) \in Nat
    BY <1>0, SumOnStep
  <2> HIDE DEF A, B, G, U
  <2>6. IsFiniteSet(A \cup B)
        /\ Cardinality(A \cup B) = Cardinality(A) + Cardinality(B) - Cardinality({})
    BY <2>2, <2>3, <2>4, FS_Union
  <2> HIDE DEF All
  <2>7. IsFiniteSet(All(U)) /\ Cardinality(All(U)) = SumOn(f, U)
    BY <2>1, <2>3, <2>4, <2>5, <2>6, FS_EmptySet
  <2>8. U \in SUBSET S
    BY DEF U
  <2> QED BY <2>7, <2>8 DEF U, G
<1>3. S \in G
  <2> HIDE DEF G, All
  <2> QED BY <1>1, <1>2, FinInduct
<1> QED BY <1>0, <1>3


-----------------------------------------------------------------------------
(* The n-th of a finite set of integers. *)

Rank(S, x) == Cardinality({y \in S : y <= x})

\* Ranks number a finite set from 1 on, in its order.
LEMMA Ranks ==
    ASSUME NEW S \in SUBSET Int, IsFiniteSet(S)
    PROVE  /\ Cardinality(S) \in Nat
           /\ \A x \in S : Rank(S, x) \in 1 .. Cardinality(S)
           /\ \A x, y \in S : x < y => Rank(S, x) < Rank(S, y)
           /\ \A n \in 1 .. Cardinality(S) : \E x \in S : Rank(S, x) = n
<1> DEFINE below(x) == {y \in S : y <= x}
<1>0. \A x \in S : x \in Int
  OBVIOUS
<1>1. Cardinality(S) \in Nat
  BY FS_CardinalityType
<1>2. ASSUME NEW x \in S
      PROVE  /\ IsFiniteSet(below(x)) /\ Rank(S, x) = Cardinality(below(x))
             /\ Rank(S, x) \in 1 .. Cardinality(S)
  <2>1. below(x) \in SUBSET S /\ {x} \in SUBSET below(x)
    OBVIOUS
  <2> HIDE DEF below
  <2>2. IsFiniteSet(below(x)) /\ Cardinality(below(x)) <= Cardinality(S)
    BY <2>1, FS_Subset
  <2>3. Cardinality({x}) = 1 /\ Cardinality({x}) <= Cardinality(below(x))
    BY <2>1, <2>2, FS_Subset, FS_Singleton
  <2>4. Cardinality(below(x)) \in Nat
    BY <2>2, FS_CardinalityType
  <2>5. Rank(S, x) = Cardinality(below(x))
    BY DEF Rank, below
  <2> QED BY <1>1, <2>2, <2>3, <2>4, <2>5
<1>3. ASSUME NEW x \in S, NEW y \in S, x < y
      PROVE  Rank(S, x) < Rank(S, y)
  <2>1. below(x) \in SUBSET below(y) /\ y \in below(y) /\ y \notin below(x)
    <3>1. x \in Int /\ y \in Int /\ ~(y <= x)
      BY <1>0, <1>3
    <3>2. \A z \in S : z <= x => z <= y
      <4> TAKE z \in S
      <4>1. z \in Int
        BY <1>0
      <4> QED BY <1>3, <3>1, <4>1
    <3>3. below(x) \in SUBSET below(y)
      BY <3>2
    <3>4. y \in below(y) /\ y \notin below(x)
      BY <3>1
    <3> QED BY <3>3, <3>4
  <2>2. /\ IsFiniteSet(below(y)) /\ Rank(S, y) = Cardinality(below(y))
        /\ Rank(S, x) = Cardinality(below(x))
        /\ Rank(S, x) \in Nat /\ Rank(S, y) \in Nat
    BY <1>1, <1>2
  <2> HIDE DEF below
  <2>3. /\ Cardinality(below(x)) <= Cardinality(below(y))
        /\ Cardinality(below(y)) = Cardinality(below(x)) => below(y) = below(x)
    BY <2>1, <2>2, FS_Subset
  <2> QED BY <2>1, <2>2, <2>3
<1> DEFINE r == [x \in S |-> Rank(S, x)]
           N == 1 .. Cardinality(S)
<1>4. r \in [S -> N]
  BY <1>2
<1>5. \A x, y \in S : r[x] = r[y] => x = y
  <2> SUFFICES ASSUME NEW x \in S, NEW y \in S, r[x] = r[y], x # y PROVE FALSE
    OBVIOUS
  <2>1. x < y \/ y < x
    BY <1>0
  <2>2. r[x] = Rank(S, x) /\ r[y] = Rank(S, y)
    OBVIOUS
  <2>3. Rank(S, x) \in 1 .. Cardinality(S) /\ Rank(S, y) \in 1 .. Cardinality(S)
    BY <1>2
  <2>4. Rank(S, x) = Rank(S, y)
    BY <2>2
  <2>5. Rank(S, x) \in Int /\ Rank(S, y) \in Int
    BY <1>1, <2>3
  <2> QED BY <1>3, <2>1, <2>4, <2>5
<1>6. r \in Injection(S, N)
  <2> HIDE DEF r, N
  <2> QED BY <1>4, <1>5 DEF Injection, IsInjective
<1>7. IsFiniteSet(N) /\ Cardinality(N) = Cardinality(S)
  BY <1>1, FS_Interval
<1>8. r \in Surjection(S, N)
  <2> HIDE DEF r, N
  <2> QED BY <1>6, <1>7, FS_Injection
<1>9. ASSUME NEW n \in N
      PROVE  \E x \in S : Rank(S, x) = n
  <2>1. PICK x \in S : r[x] = n
    <3> HIDE DEF r, N
    <3> QED BY <1>8 DEF Surjection
  <2> QED BY <2>1
<1> QED BY <1>1, <1>2, <1>3, <1>9

LEMMA NthIs ==
    ASSUME NEW S \in SUBSET Int, IsFiniteSet(S)
    PROVE  /\ Cardinality(S) \in Nat
           /\ \A n \in 1 .. Cardinality(S) : Nth(S, n) \in S /\ Rank(S, Nth(S, n)) = n
           /\ \A m, n \in 1 .. Cardinality(S) : m < n => Nth(S, m) < Nth(S, n)
           /\ \A x \in S : Rank(S, x) \in 1 .. Cardinality(S) /\ Nth(S, Rank(S, x)) = x
           /\ \A x \in S : x <= Nth(S, Cardinality(S))
<1>1. ASSUME NEW n \in 1 .. Cardinality(S)
      PROVE  Nth(S, n) \in S /\ Rank(S, Nth(S, n)) = n
  <2>1. \E x \in S : Rank(S, x) = n
    BY Ranks
  <2>2. Nth(S, n) = CHOOSE x \in S : Rank(S, x) = n
    BY DEF Nth, Rank
  <2> QED BY <2>1, <2>2
<1>2. \A x \in S : x \in Int
  OBVIOUS
<1>3. \A x, y \in S : Rank(S, x) <= Rank(S, y) => x <= y
  <2> SUFFICES ASSUME NEW x \in S, NEW y \in S, Rank(S, x) <= Rank(S, y) PROVE x <= y
    OBVIOUS
  <2>1. Rank(S, x) \in 1 .. Cardinality(S) /\ Rank(S, y) \in 1 .. Cardinality(S)
    BY Ranks
  <2>2. Rank(S, x) \in Int /\ Rank(S, y) \in Int /\ x \in Int /\ y \in Int
    BY <1>2, <2>1
  <2>3. y < x => Rank(S, y) < Rank(S, x)
    BY Ranks
  <2> QED BY <2>2, <2>3
<1>4. ASSUME NEW m \in 1 .. Cardinality(S), NEW n \in 1 .. Cardinality(S), m < n
      PROVE  Nth(S, m) < Nth(S, n)
  <2>1. /\ Nth(S, m) \in S /\ Nth(S, n) \in S
        /\ Rank(S, Nth(S, m)) = m /\ Rank(S, Nth(S, n)) = n
    BY <1>1
  <2>2. m \in Int /\ n \in Int /\ m <= n /\ m # n
    BY <1>4
  <2>3. Nth(S, m) <= Nth(S, n)
    BY <1>3, <2>1, <2>2
  <2>4. Nth(S, m) # Nth(S, n)
    BY <2>1, <2>2
  <2>5. Nth(S, m) \in Int /\ Nth(S, n) \in Int
    BY <1>2, <2>1
  <2> QED BY <2>3, <2>4, <2>5
<1>5. ASSUME NEW x \in S
      PROVE  /\ Rank(S, x) \in 1 .. Cardinality(S) /\ Nth(S, Rank(S, x)) = x
             /\ x <= Nth(S, Cardinality(S))
  <2>1. Rank(S, x) \in 1 .. Cardinality(S) /\ Cardinality(S) \in Nat
    BY Ranks
  <2>2. Nth(S, Rank(S, x)) \in S /\ Rank(S, Nth(S, Rank(S, x))) = Rank(S, x)
    BY <1>1, <2>1
  <2> DEFINE z == Nth(S, Rank(S, x))
  <2>3. z = x
    <3>1. z \in S /\ Rank(S, z) = Rank(S, x) /\ Rank(S, x) \in Int
      BY <2>1, <2>2
    <3> HIDE DEF z
    <3>2. z <= x /\ x <= z
      BY <1>3, <3>1
    <3> QED BY <1>2, <3>1, <3>2
  <2>4. /\ Cardinality(S) \in 1 .. Cardinality(S)
        /\ Nth(S, Cardinality(S)) \in S
        /\ Rank(S, Nth(S, Cardinality(S))) = Cardinality(S)
    BY <1>1, <2>1
  <2>5. x <= Nth(S, Cardinality(S))
    <3> DEFINE w == Nth(S, Cardinality(S))
    <3>1. w \in S /\ Rank(S, w) = Cardinality(S) /\ Rank(S, x) <= Cardinality(S)
      BY <2>1, <2>4
    <3> HIDE DEF w
    <3>2. x <= w
      BY <1>3, <3>1
    <3> QED BY <3>2 DEF w
  <2> QED BY <2>1, <2>3, <2>5
<1> QED BY <1>1, <1>4, <1>5, Ranks


\* RowsAt keeps the order of the rows: each has a place, later rows later places.
LEMMA RowsAtIs ==
    ASSUME NEW R, NEW rows \in Seq(R), NEW P \in SUBSET (DOMAIN rows)
    PROVE  /\ RowsAt(rows, P) \in Seq(R)
           /\ \E place \in [DOMAIN RowsAt(rows, P) -> P] :
                  /\ \A n \in DOMAIN RowsAt(rows, P) : RowsAt(rows, P)[n] = rows[place[n]]
                  /\ \A m, n \in DOMAIN RowsAt(rows, P) : m < n => place[m] < place[n]
                  /\ \A i \in P : \E n \in DOMAIN RowsAt(rows, P) : place[n] = i
                  /\ \A m \in DOMAIN RowsAt(rows, P) : \A i \in P :
                         i > place[m] =>
                             \E n \in DOMAIN RowsAt(rows, P) : n > m /\ place[n] = i
<1> DEFINE C == Cardinality(P)
           q == RowsAt(rows, P)
           place == [n \in 1 .. C |-> Nth(P, n)]
<1>1. IsFiniteSet(P) /\ P \in SUBSET Int
  <2>1. DOMAIN rows = 1 .. Len(rows) /\ Len(rows) \in Nat
    OBVIOUS
  <2>2. IsFiniteSet(1 .. Len(rows))
    BY <2>1, FS_Interval
  <2>3. P \in SUBSET (1 .. Len(rows))
    BY <2>1
  <2> QED BY <2>1, <2>2, <2>3, FS_Subset
<1>2. /\ C \in Nat
      /\ \A n \in 1 .. C : Nth(P, n) \in P /\ Rank(P, Nth(P, n)) = n
      /\ \A m, n \in 1 .. C : m < n => Nth(P, m) < Nth(P, n)
      /\ \A x \in P : Rank(P, x) \in 1 .. C /\ Nth(P, Rank(P, x)) = x
  BY <1>1, NthIs
<1>3. q = [n \in 1 .. C |-> rows[Nth(P, n)]]
  BY DEF RowsAt
<1>4. /\ place \in [1 .. C -> P]
      /\ \A n \in 1 .. C : place[n] = Nth(P, n)
  BY <1>2
<1>5. \A i \in DOMAIN rows : rows[i] \in R
  OBVIOUS
<1>6. DOMAIN q = 1 .. C /\ \A n \in 1 .. C : q[n] = rows[Nth(P, n)]
  BY <1>3
<1> HIDE DEF C, q, place
<1>7. q \in Seq(R)
  <2>1. \A n \in 1 .. C : q[n] \in R
    BY <1>2, <1>5, <1>6
  <2>2. q = [n \in 1 .. C |-> q[n]]
    BY <1>3, <1>6
  <2> QED BY <1>2, <2>1, <2>2
<1>8. place \in [DOMAIN q -> P]
  BY <1>4, <1>6
<1>9. \A n \in DOMAIN q : q[n] = rows[place[n]]
  BY <1>4, <1>6
<1>10. \A m, n \in DOMAIN q : m < n => place[m] < place[n]
  BY <1>2, <1>4, <1>6
<1>11. \A i \in P : \E n \in DOMAIN q : place[n] = i
  BY <1>2, <1>4, <1>6
<1>12. ASSUME NEW m \in DOMAIN q, NEW i \in P, i > place[m]
       PROVE  \E n \in DOMAIN q : n > m /\ place[n] = i
  <2>1. PICK n \in DOMAIN q : place[n] = i
    BY <1>11
  <2>2. m \in Int /\ n \in Int /\ place[m] \in Int /\ i \in Int
    BY <1>1, <1>2, <1>6, <1>8
  <2>3. ~(n < m) /\ n # m
    BY <1>10, <1>12, <2>1, <2>2
  <2> QED BY <2>1, <2>2, <2>3
<1> QED BY <1>7, <1>8, <1>9, <1>10, <1>11, <1>12 DEF q

-----------------------------------------------------------------------------
(* What the samples and a report being read stand for. *)

\* Samples are kept in the order they were taken, of switches that exist.
InOrder ==
    /\ IsFiniteSet(Switches)
    /\ \A i, j \in DOMAIN samples : i < j => samples[i].minute <= samples[j].minute
    /\ \A i \in DOMAIN samples : samples[i].minute <= minute /\ samples[i].s \in Switches

Summarizes(x, list) ==
    /\ list \in PortLists
    /\ x.used = summarize_ports(list).used /\ x.total = summarize_ports(list).total

\* The newest sample of a switch in a minute is of the list polled last in it, and the
\* newest of all of the list it has.
Shown == /\ shown \in [0 .. MaxMinute -> [SwitchId -> PortLists \cup {NoSwitch}]]
         /\ \A i \in DOMAIN samples :
                Newest(i) => Summarizes(samples[i], shown[samples[i].minute][samples[i].s])
Latest(i) == ~ \E j \in DOMAIN samples : j > i /\ samples[j].s = samples[i].s
OfLive == \A i \in DOMAIN samples :
              Latest(i) => Summarizes(samples[i], ports[samples[i].s])

HInv == TypeOK /\ InOrder /\ Shown /\ OfLive

OfList(s, list) == \E k \in 0 .. Len(list) : per[s] = summarize_ports(SubSeq(list, 1, k))

\* A row that was read is of a list the switch had, one that is not will be of one.
RowsInv ==
    /\ stage \in {"idle", "reading", "done"}
    /\ IsFiniteSet(DOMAIN listed)
    /\ DOMAIN per \subseteq DOMAIN listed
    /\ DOMAIN had = DOMAIN listed
    /\ DOMAIN listed \subseteq SwitchId
    /\ stage = "idle" => DOMAIN listed = {}
    /\ stage = "done" => DOMAIN per = DOMAIN listed
    /\ \A s \in DOMAIN had : had[s] \subseteq PortLists \cup {<<>>}
    /\ \A s \in DOMAIN listed \ DOMAIN per : ports[s] \in had[s]
    /\ \A s \in DOMAIN per : \E list \in had[s] : OfList(s, list)

IInv == HInv /\ RowsInv


-----------------------------------------------------------------------------
(* A summary counts every port once. *)

Summary == [total : Nat, used : Nat, error : Nat, free : Nat]

LEMMA SummaryIs ==
    ASSUME NEW list \in Seq(Port)
    PROVE  /\ summarize_ports(list) \in Summary
           /\ summarize_ports(list).total = summarize_ports(list).used
                   + summarize_ports(list).free + summarize_ports(list).error
           /\ summarize_ports(list).total = Cardinality(DOMAIN list)
           /\ summarize_ports(list).total = Len(list)
<1> DEFINE D == DOMAIN list
           u == {i \in D : list[i] \in ONLINE_STATES}
           e == {i \in D : list[i] \in ERROR_STATES}
           r == {i \in D : list[i] \in Port \ (ONLINE_STATES \cup ERROR_STATES)}
           x == summarize_ports(list)
<1>1. D = 1 .. Len(list) /\ Len(list) \in Nat
  OBVIOUS
<1>2. IsFiniteSet(D) /\ Cardinality(D) = Len(list)
  BY <1>1, FS_Interval
<1>3. u \in SUBSET D /\ e \in SUBSET D /\ r \in SUBSET D
  OBVIOUS
<1>4. u \cap e = {} /\ (u \cup e) \cap r = {} /\ (u \cup e) \cup r = D
  <2>1. \A i \in D : list[i] \in {"online", "faulty", "no_module"}
    BY DEF Port
  <2> QED BY <2>1 DEF Port, ONLINE_STATES, ERROR_STATES
<1>5. x = [total |-> Len(list), used |-> Cardinality(u), error |-> Cardinality(e),
           free |-> Cardinality(r)]
  BY DEF summarize_ports
<1> HIDE DEF D, u, e, r, x
<1>6. /\ IsFiniteSet(u) /\ IsFiniteSet(e) /\ IsFiniteSet(r)
      /\ Cardinality(u) \in Nat /\ Cardinality(e) \in Nat /\ Cardinality(r) \in Nat
  BY <1>2, <1>3, FS_Subset, FS_CardinalityType
<1>7. /\ IsFiniteSet(u \cup e)
      /\ Cardinality(u \cup e) = Cardinality(u) + Cardinality(e) - Cardinality({})
  BY <1>4, <1>6, FS_Union
<1>8. Cardinality(D) = Cardinality(u \cup e) + Cardinality(r) - Cardinality({})
  BY <1>4, <1>6, <1>7, FS_Union
<1>9. Cardinality(D) = Cardinality(u) + Cardinality(e) + Cardinality(r)
  BY <1>6, <1>7, <1>8, FS_EmptySet
<1>10. x \in Summary
  BY <1>1, <1>5, <1>6 DEF Summary
<1>11. x.total = Len(list) /\ x.used = Cardinality(u) /\ x.error = Cardinality(e)
       /\ x.free = Cardinality(r)
  BY <1>5
<1> QED BY <1>1, <1>2, <1>6, <1>9, <1>10, <1>11 DEF x, D

-----------------------------------------------------------------------------
(* What the actions of History preserve. *)

LEMMA SetDcKeeps ==
    ASSUME HInv, NEW s \in SwitchId, SetDc(s) PROVE HInv'
<1>1. PICK d \in Dc : dc' = [dc EXCEPT ![s] = d]
  BY DEF SetDc
<1>2. UNCHANGED <<ports, samples, minute, shown>>
  BY DEF SetDc
<1>3. TypeOK'
  BY <1>1, <1>2 DEF HInv, TypeOK
<1>4. Switches' = Switches \cup {s}
  BY <1>1, HistoryAssumption DEF HInv, TypeOK, Switches
<1>5. InOrder'
  <2>1. IsFiniteSet(Switches \cup {s})
    BY FS_AddElement DEF HInv, InOrder
  <2> QED BY <1>2, <1>4, <2>1 DEF HInv, InOrder
<1>6. Shown' /\ OfLive'
  BY <1>2 DEF HInv, Shown, OfLive, Newest, Latest
<1> QED BY <1>3, <1>5, <1>6 DEF HInv

LEMMA TickKeeps == ASSUME HInv, Tick PROVE HInv'
<1>1. /\ minute \in 0 .. MaxMinute /\ minute < MaxMinute /\ minute' = minute + 1
      /\ UNCHANGED <<dc, ports, samples, shown>>
  BY DEF Tick, HInv, TypeOK
<1>2. TypeOK'
  BY <1>1, HistoryAssumption DEF HInv, TypeOK
<1>3. InOrder'
  <2>1. \A i \in DOMAIN samples : samples[i].minute <= minute + 1
    <3> TAKE i \in DOMAIN samples
    <3>1. samples[i] \in Sample /\ samples[i].minute <= minute
      BY DEF HInv, TypeOK, InOrder
    <3>2. samples[i].minute \in Int /\ minute \in Int
      BY <1>1, <3>1, HistoryAssumption DEF Sample
    <3> QED BY <3>1, <3>2
  <2> QED BY <1>1, <2>1 DEF HInv, InOrder, Switches
<1>4. Shown' /\ OfLive'
  BY <1>1 DEF HInv, Shown, OfLive, Newest, Latest
<1> QED BY <1>2, <1>3, <1>4 DEF HInv

LEMMA StutterKeeps == ASSUME HInv, UNCHANGED vars PROVE HInv'
BY DEF HInv, vars, TypeOK, InOrder, Shown, OfLive, Newest, Latest, Switches

LEMMA DeleteKeeps ==
    ASSUME HInv, NEW s \in SwitchId, delete_switch(s) PROVE HInv'
<1> DEFINE P == {i \in DOMAIN samples : samples[i].s # s}
<1>1. /\ dc' = [dc EXCEPT ![s] = NoSwitch] /\ ports' = [ports EXCEPT ![s] = <<>>]
      /\ samples' = RowsAt(samples, P) /\ minute' = minute
      /\ shown' = [m \in DOMAIN shown |-> [shown[m] EXCEPT ![s] = NoSwitch]]
  BY DEF delete_switch
<1>2. /\ dc \in [SwitchId -> Dc \cup {NoSwitch}] /\ ports \in [SwitchId -> PortLists \cup {<<>>}]
      /\ samples \in Seq(Sample) /\ minute \in 0 .. MaxMinute
  BY DEF HInv, TypeOK
<1> DEFINE q == samples'
<1>3. /\ q \in Seq(Sample)
      /\ \E place \in [DOMAIN q -> P] :
             /\ \A n \in DOMAIN q : q[n] = samples[place[n]]
             /\ \A m, n \in DOMAIN q : m < n => place[m] < place[n]
             /\ \A m \in DOMAIN q : \A i \in P :
                    i > place[m] => \E n \in DOMAIN q : n > m /\ place[n] = i
  <2>1. P \in SUBSET (DOMAIN samples)
    OBVIOUS
  <2> HIDE DEF P
  <2> QED BY <1>1, <1>2, <2>1, RowsAtIs
<1>4. PICK place \in [DOMAIN q -> P] :
             /\ \A n \in DOMAIN q : q[n] = samples[place[n]]
             /\ \A m, n \in DOMAIN q : m < n => place[m] < place[n]
             /\ \A m \in DOMAIN q : \A i \in P :
                    i > place[m] => \E n \in DOMAIN q : n > m /\ place[n] = i
  <2> HIDE DEF P, q
  <2> QED BY <1>3
<1>5. ASSUME NEW n \in DOMAIN q
      PROVE  /\ place[n] \in DOMAIN samples /\ q[n] = samples[place[n]] /\ q[n].s # s
             /\ q[n] \in Sample
  <2>1. place[n] \in P /\ q[n] = samples[place[n]]
    <3> HIDE DEF P, q
    <3> QED BY <1>4
  <2> QED BY <2>1, <1>2
<1>6. TypeOK'
  BY <1>1, <1>2, <1>3 DEF TypeOK
<1>7. InOrder'
  <2>1. Switches' = Switches \ {s}
    BY <1>1, <1>2 DEF Switches
  <2>2. IsFiniteSet(Switches')
    <3>1. IsFiniteSet(Switches \ {s})
      BY FS_RemoveElement DEF HInv, InOrder
    <3> QED BY <2>1, <3>1
  <2>3. ASSUME NEW n \in DOMAIN q
        PROVE  q[n].minute <= minute' /\ q[n].s \in Switches'
    <3>1. samples[place[n]].minute <= minute /\ samples[place[n]].s \in Switches
      BY <1>5 DEF HInv, InOrder
    <3> HIDE DEF q
    <3> QED BY <1>1, <1>5, <2>1, <3>1
  <2>4. ASSUME NEW m \in DOMAIN q, NEW n \in DOMAIN q, m < n
        PROVE  q[m].minute <= q[n].minute
    <3>1. place[m] < place[n]
      <4> HIDE DEF q, P
      <4> QED BY <1>4, <2>4
    <3>2. samples[place[m]].minute <= samples[place[n]].minute
      BY <1>5, <3>1 DEF HInv, InOrder
    <3> QED BY <1>5, <3>2
  <2> QED BY <2>2, <2>3, <2>4 DEF InOrder
<1>8. Shown'
  <2>0. shown' \in [0 .. MaxMinute -> [SwitchId -> PortLists \cup {NoSwitch}]]
    BY <1>1 DEF HInv, Shown
  <2> SUFFICES ASSUME NEW n \in DOMAIN q, Newest(n)'
               PROVE  Summarizes(q[n], shown'[q[n].minute][q[n].s])
    BY <2>0 DEF Shown, Summarizes
  <2> DEFINE i == place[n]
  <2>1. i \in DOMAIN samples /\ q[n] = samples[i] /\ q[n].s # s
    BY <1>5
  <2>2. Newest(i)
    <3> SUFFICES ASSUME NEW j \in DOMAIN samples, j > i, samples[j].s = samples[i].s,
                        samples[j].minute = samples[i].minute
                 PROVE  FALSE
      BY DEF Newest
    <3>1. j \in P
      BY <2>1
    <3>2. PICK k \in DOMAIN q : k > n /\ place[k] = j
      <4> HIDE DEF q, P
      <4> QED BY <1>4, <3>1
    <3>3. q[k] = samples[j]
      BY <1>5, <3>2
    <3> QED BY <2>1, <3>2, <3>3 DEF Newest
  <2>3. Summarizes(samples[i], shown[samples[i].minute][samples[i].s])
    BY <2>1, <2>2 DEF HInv, Shown
  <2>4. /\ samples[i].minute \in DOMAIN shown
        /\ samples[i].s \in DOMAIN shown[samples[i].minute]
    <3>1. samples[i] \in Sample
      BY <1>2, <2>1
    <3>2. samples[i].minute \in 0 .. MaxMinute /\ samples[i].s \in SwitchId
      BY <3>1 DEF Sample
    <3> QED BY <3>2 DEF HInv, Shown
  <2>5. shown'[samples[i].minute][samples[i].s] = shown[samples[i].minute][samples[i].s]
    BY <1>1, <2>1, <2>4
  <2> QED BY <2>1, <2>3, <2>5
<1>9. OfLive'
  <2> SUFFICES ASSUME NEW n \in DOMAIN q, Latest(n)'
               PROVE  Summarizes(q[n], ports'[q[n].s])
    BY DEF OfLive, Summarizes
  <2> DEFINE i == place[n]
  <2>1. i \in DOMAIN samples /\ q[n] = samples[i] /\ q[n].s # s /\ q[n] \in Sample
    BY <1>5
  <2>2. Latest(i)
    <3> SUFFICES ASSUME NEW j \in DOMAIN samples, j > i, samples[j].s = samples[i].s
                 PROVE  FALSE
      BY DEF Latest
    <3>1. j \in P
      BY <2>1
    <3>2. PICK k \in DOMAIN q : k > n /\ place[k] = j
      <4> HIDE DEF q, P
      <4> QED BY <1>4, <3>1
    <3>3. q[k] = samples[j]
      BY <1>5, <3>2
    <3> QED BY <2>1, <3>2, <3>3 DEF Latest
  <2>3. Summarizes(samples[i], ports[samples[i].s])
    BY <2>1, <2>2 DEF HInv, OfLive
  <2>4. samples[i].s \in SwitchId /\ samples[i].s # s
    BY <2>1 DEF Sample
  <2>5. ports'[q[n].s] = ports[samples[i].s]
    BY <1>1, <1>2, <2>1, <2>4
  <2> QED BY <2>1, <2>3, <2>5
<1> QED BY <1>6, <1>7, <1>8, <1>9 DEF HInv


\* A poll: of the rows before it and its own those are kept that are not surplus; a row that
\* is kept has the later rows of its switch behind it as before.
LEMMA PolledKeeps ==
    ASSUME HInv, NEW s \in SwitchId, NEW list \in PortLists, Polled(s, list) PROVE HInv'
<1> DEFINE x == summarize_ports(list)
           new == [s |-> s, minute |-> minute, used |-> x.used, total |-> x.total]
           rows == Append(samples, new)
           L == Len(samples) + 1
           Behind(i) == {j \in DOMAIN rows : j > i /\ rows[j].s = s}
           Surplus(i) == /\ rows[i].s = s /\ Retention >= 0
                         /\ Cardinality(Behind(i)) >= Retention
           P == {i \in DOMAIN rows : ~Surplus(i)}
           q == samples'
<1>1. /\ dc[s] # NoSwitch /\ dc' = dc /\ minute' = minute
      /\ ports' = [ports EXCEPT ![s] = list]
      /\ samples' = RowsAt(rows, P)
      /\ shown' = [m \in DOMAIN shown |->
                    [t \in SwitchId |->
                        IF m = minute /\ t = s THEN list
                        ELSE IF \E y \in Range(samples') : y.s = t /\ y.minute = m
                        THEN shown[m][t]
                        ELSE NoSwitch]]
  BY DEF Polled, add_sample
<1>2. /\ dc \in [SwitchId -> Dc \cup {NoSwitch}] /\ ports \in [SwitchId -> PortLists \cup {<<>>}]
      /\ samples \in Seq(Sample) /\ minute \in 0 .. MaxMinute
      /\ shown \in [0 .. MaxMinute -> [SwitchId -> PortLists \cup {NoSwitch}]]
  BY DEF HInv, TypeOK, Shown
<1>3. x \in Summary /\ x.used \in Nat /\ x.total \in Nat
  <2>1. x \in Summary
    BY SummaryIs, HistoryAssumption
  <2> HIDE DEF x
  <2> QED BY <2>1 DEF Summary
<1>4. /\ new \in Sample /\ new.s = s /\ new.minute = minute
      /\ Summarizes(new, list)
  <2> HIDE DEF x
  <2>1. new \in Sample /\ new.s = s /\ new.minute = minute
    BY <1>2, <1>3 DEF Sample
  <2>2. new.used = x.used /\ new.total = x.total
    OBVIOUS
  <2> HIDE DEF new
  <2> QED BY <2>1, <2>2 DEF Summarizes, x
<1> HIDE DEF x, new
<1>5. /\ rows \in Seq(Sample) /\ DOMAIN rows = 1 .. L /\ L \in Nat
      /\ rows[L] = new
      /\ DOMAIN samples = 1 .. L - 1
      /\ \A i \in DOMAIN samples : rows[i] = samples[i] /\ samples[i] \in Sample /\ i < L
  BY <1>2, <1>4
<1> HIDE DEF rows, L
<1>6. /\ q \in Seq(Sample)
      /\ \E place \in [DOMAIN q -> P] :
             /\ \A n \in DOMAIN q : q[n] = rows[place[n]]
             /\ \A m, n \in DOMAIN q : m < n => place[m] < place[n]
             /\ \A i \in P : \E n \in DOMAIN q : place[n] = i
             /\ \A m \in DOMAIN q : \A i \in P :
                    i > place[m] => \E n \in DOMAIN q : n > m /\ place[n] = i
  <2>1. P \in SUBSET (DOMAIN rows)
    OBVIOUS
  <2>2. q = RowsAt(rows, P)
    BY <1>1
  <2>3. rows \in Seq(Sample)
    BY <1>5
  <2> HIDE DEF P, q
  <2> QED BY <2>1, <2>2, <2>3, RowsAtIs
<1>7. PICK place \in [DOMAIN q -> P] :
             /\ \A n \in DOMAIN q : q[n] = rows[place[n]]
             /\ \A m, n \in DOMAIN q : m < n => place[m] < place[n]
             /\ \A i \in P : \E n \in DOMAIN q : place[n] = i
             /\ \A m \in DOMAIN q : \A i \in P :
                    i > place[m] => \E n \in DOMAIN q : n > m /\ place[n] = i
  <2> HIDE DEF P, q
  <2> QED BY <1>6
<1>8. IsFiniteSet(1 .. L)
  <2>1. 1 \in Int /\ L \in Int
    BY <1>5
  <2> QED BY <2>1, FS_Interval
<1>9. ASSUME NEW i \in DOMAIN rows
      PROVE  IsFiniteSet(Behind(i)) /\ Cardinality(Behind(i)) \in Nat
  <2>1. Behind(i) \in SUBSET (1 .. L)
    BY <1>5
  <2> HIDE DEF Behind
  <2> QED BY <1>8, <2>1, FS_Subset, FS_CardinalityType
\* Whoever is kept keeps those behind.
<1>10. ASSUME NEW i \in P, NEW j \in DOMAIN rows, j > i, rows[j].s = rows[i].s
       PROVE  j \in P
  <2>1. CASE rows[j].s # s
    BY <2>1
  <2>2. CASE rows[j].s = s
    <3>1. Behind(j) \in SUBSET Behind(i) /\ i \in DOMAIN rows
      <4>1. i \in Int /\ j \in Int /\ DOMAIN rows \in SUBSET Int
        BY <1>5
      <4> QED BY <1>10, <4>1
    <3>2. Cardinality(Behind(j)) <= Cardinality(Behind(i))
      <4> HIDE DEF Behind
      <4> QED BY <1>9, <3>1, FS_Subset
    <3>3. ~(Retention >= 0 /\ Cardinality(Behind(i)) >= Retention)
      BY <1>10, <2>2
    <3>4. /\ Cardinality(Behind(i)) \in Int /\ Cardinality(Behind(j)) \in Int
          /\ Retention \in Int
      <4> HIDE DEF Behind
      <4> QED BY <1>9, <3>1, HistoryAssumption
    <3>5. ~Surplus(j)
      <4> HIDE DEF Behind
      <4> QED BY <3>2, <3>3, <3>4
    <3> QED BY <3>5
  <2> QED BY <2>1, <2>2
<1>11. ASSUME NEW n \in DOMAIN q
       PROVE  /\ place[n] \in P /\ place[n] \in 1 .. L /\ q[n] = rows[place[n]]
              /\ q[n] \in Sample
              /\ place[n] # L => place[n] \in DOMAIN samples /\ q[n] = samples[place[n]]
              /\ place[n] = L => q[n] = new
  <2>1. place[n] \in P /\ q[n] = rows[place[n]]
    <3> HIDE DEF P, q
    <3> QED BY <1>7
  <2>2. place[n] \in 1 .. L
    BY <1>5, <2>1
  <2> HIDE DEF P, q
  <2>3. q[n] \in Sample
    BY <1>5, <2>1, <2>2
  <2>4. place[n] # L => place[n] \in DOMAIN samples
    BY <1>5, <2>2
  <2> QED BY <1>5, <2>1, <2>2, <2>3, <2>4
\* What is behind a row that is kept comes after it.
<1>12. ASSUME NEW n \in DOMAIN q, NEW j \in DOMAIN rows, j > place[n],
              rows[j].s = rows[place[n]].s
       PROVE  \E m \in DOMAIN q : m > n /\ q[m] = rows[j] /\ place[m] = j
  <2>1. j \in P
    <3>1. place[n] \in P
      BY <1>11
    <3> HIDE DEF P
    <3> QED BY <1>10, <1>12, <3>1
  <2>2. PICK m \in DOMAIN q : m > n /\ place[m] = j
    <3> HIDE DEF q, P
    <3> QED BY <1>7, <1>12, <2>1
  <2>3. q[m] = rows[j]
    BY <1>11, <2>2
  <2> QED BY <2>2, <2>3
<1> HIDE DEF P
<1>13. TypeOK'
  BY <1>1, <1>2, <1>6 DEF TypeOK
<1>14. InOrder'
  <2>1. Switches' = Switches /\ s \in Switches
    BY <1>1 DEF Switches
  <2>2. \A i \in 1 .. L : rows[i].minute <= minute /\ rows[i].s \in Switches
    <3> TAKE i \in 1 .. L
    <3>1. CASE i = L
      BY <3>1, <1>4, <1>5, <2>1, <1>2
    <3>2. CASE i # L
      BY <3>2, <1>5 DEF HInv, InOrder
    <3> QED BY <3>1, <3>2
  <2>3. \A i, j \in 1 .. L : i < j => rows[i].minute <= rows[j].minute
    <3> SUFFICES ASSUME NEW i \in 1 .. L, NEW j \in 1 .. L, i < j
                 PROVE  rows[i].minute <= rows[j].minute
      OBVIOUS
    <3>1. i # L /\ i \in DOMAIN samples
      BY <1>5
    <3>2. CASE j = L
      BY <2>2, <3>2, <1>4, <1>5
    <3>3. CASE j # L
      BY <3>1, <3>3, <1>5 DEF HInv, InOrder
    <3> QED BY <3>2, <3>3
  <2>4. \A n \in DOMAIN q : q[n].minute <= minute' /\ q[n].s \in Switches'
    <3> TAKE n \in DOMAIN q
    <3>1. place[n] \in 1 .. L /\ q[n] = rows[place[n]]
      BY <1>11
    <3> HIDE DEF q
    <3> QED BY <1>1, <2>1, <2>2, <3>1
  <2>5. \A m, n \in DOMAIN q : m < n => q[m].minute <= q[n].minute
    <3> SUFFICES ASSUME NEW m \in DOMAIN q, NEW n \in DOMAIN q, m < n
                 PROVE  q[m].minute <= q[n].minute
      OBVIOUS
    <3>1. place[m] \in 1 .. L /\ q[m] = rows[place[m]]
          /\ place[n] \in 1 .. L /\ q[n] = rows[place[n]]
      BY <1>11
    <3>2. place[m] < place[n]
      <4> HIDE DEF q
      <4> QED BY <1>7
    <3> HIDE DEF q
    <3> QED BY <2>3, <3>1, <3>2
  <2>6. IsFiniteSet(Switches')
    BY <2>1 DEF HInv, InOrder
  <2> QED BY <2>4, <2>5, <2>6 DEF InOrder
<1>15. Shown'
  <2>0. shown' \in [0 .. MaxMinute -> [SwitchId -> PortLists \cup {NoSwitch}]]
    BY <1>1, <1>2
  <2> SUFFICES ASSUME NEW n \in DOMAIN q, Newest(n)'
               PROVE  Summarizes(q[n], shown'[q[n].minute][q[n].s])
    BY <2>0 DEF Shown, Summarizes
  <2> DEFINE i == place[n]
  <2>1. q[n] \in Sample /\ q[n].s \in SwitchId /\ q[n].minute \in DOMAIN shown
        /\ q[n] \in Range(samples')
    <3>1. q[n] \in Sample
      BY <1>11
    <3>2. q[n] \in Range(samples')
      BY DEF Range
    <3> HIDE DEF q
    <3> QED BY <1>2, <3>1, <3>2 DEF Sample
  <2>2. CASE i = L
    <3>1. q[n] = new
      BY <1>11, <2>2
    <3>2. shown'[minute][s] = list
      BY <1>1, <1>2
    <3> QED BY <1>4, <3>1, <3>2
  <2>3. CASE i # L
    <3>1. i \in DOMAIN samples /\ q[n] = samples[i] /\ i < L /\ rows[i] = samples[i]
      BY <1>5, <1>11, <2>3
    <3>2. ~(q[n].minute = minute /\ q[n].s = s)
      <4> SUFFICES ASSUME q[n].minute = minute, q[n].s = s PROVE FALSE
        OBVIOUS
      <4>1. PICK m \in DOMAIN q : m > n /\ q[m] = rows[L]
        <5>1. L \in DOMAIN rows /\ rows[L].s = rows[place[n]].s
          BY <1>4, <1>5, <3>1
        <5> HIDE DEF q
        <5> QED BY <1>12, <3>1, <5>1
      <4> QED BY <4>1, <1>4, <1>5 DEF Newest
    <3>3. Newest(i)
      <4> SUFFICES ASSUME NEW j \in DOMAIN samples, j > i, samples[j].s = samples[i].s,
                          samples[j].minute = samples[i].minute
                   PROVE  FALSE
        BY DEF Newest
      <4>1. PICK m \in DOMAIN q : m > n /\ q[m] = rows[j]
        <5>1. j \in DOMAIN rows /\ rows[j].s = rows[place[n]].s
          BY <1>5, <3>1
        <5> HIDE DEF q
        <5> QED BY <1>12, <5>1
      <4>2. rows[j] = samples[j]
        BY <1>5
      <4> QED BY <3>1, <4>1, <4>2 DEF Newest
    <3>4. Summarizes(samples[i], shown[samples[i].minute][samples[i].s])
      BY <3>1, <3>3 DEF HInv, Shown
    <3>5. shown'[q[n].minute][q[n].s] = shown[q[n].minute][q[n].s]
      <4> HIDE DEF q
      <4>1. \E y \in Range(samples') : y.s = q[n].s /\ y.minute = q[n].minute
        BY <2>1
      <4> QED BY <1>1, <2>1, <3>2, <4>1
    <3> QED BY <3>1, <3>4, <3>5
  <2> QED BY <2>2, <2>3
<1>16. OfLive'
  <2> SUFFICES ASSUME NEW n \in DOMAIN q, Latest(n)'
               PROVE  Summarizes(q[n], ports'[q[n].s])
    BY DEF OfLive, Summarizes
  <2> DEFINE i == place[n]
  <2>1. q[n] \in Sample /\ q[n].s \in SwitchId
    <3>1. q[n] \in Sample
      BY <1>11
    <3> HIDE DEF q
    <3> QED BY <3>1 DEF Sample
  <2>2. CASE i = L
    <3>1. q[n] = new
      BY <1>11, <2>2
    <3>2. ports'[s] = list
      BY <1>1, <1>2
    <3> QED BY <1>4, <3>1, <3>2
  <2>3. CASE i # L
    <3>1. i \in DOMAIN samples /\ q[n] = samples[i] /\ i < L /\ rows[i] = samples[i]
      BY <1>5, <1>11, <2>3
    <3>2. q[n].s # s
      <4> SUFFICES ASSUME q[n].s = s PROVE FALSE
        OBVIOUS
      <4>1. PICK m \in DOMAIN q : m > n /\ q[m] = rows[L]
        <5>1. L \in DOMAIN rows /\ rows[L].s = rows[place[n]].s
          BY <1>4, <1>5, <3>1
        <5> HIDE DEF q
        <5> QED BY <1>12, <3>1, <5>1
      <4> QED BY <4>1, <1>4, <1>5 DEF Latest
    <3>3. Latest(i)
      <4> SUFFICES ASSUME NEW j \in DOMAIN samples, j > i, samples[j].s = samples[i].s
                   PROVE  FALSE
        BY DEF Latest
      <4>1. PICK m \in DOMAIN q : m > n /\ q[m] = rows[j]
        <5>1. j \in DOMAIN rows /\ rows[j].s = rows[place[n]].s
          BY <1>5, <3>1
        <5> HIDE DEF q
        <5> QED BY <1>12, <5>1
      <4>2. rows[j] = samples[j]
        BY <1>5
      <4> QED BY <3>1, <4>1, <4>2 DEF Latest
    <3>4. Summarizes(samples[i], ports[samples[i].s])
      BY <3>1, <3>3 DEF HInv, OfLive
    <3>5. ports'[q[n].s] = ports[q[n].s]
      <4> HIDE DEF q
      <4> QED BY <1>1, <1>2, <2>1, <3>2
    <3> QED BY <3>1, <3>4, <3>5
  <2> QED BY <2>2, <2>3
<1> QED BY <1>13, <1>14, <1>15, <1>16 DEF HInv


-----------------------------------------------------------------------------
(* What a report preserves. *)

LEMMA HistoryKeeps ==
    ASSUME HInv, NEW s \in SwitchId, SetDc(s) \/ delete_switch(s) \/ Poll(s) PROVE HInv'
BY SetDcKeeps, DeleteKeeps, PolledKeeps DEF Poll

LEMMA WholePrefix ==
    ASSUME NEW list \in PortLists \cup {<<>>}
    PROVE  /\ SubSeq(list, 1, Len(list)) = list
           /\ Len(list) \in 0 .. Len(list)
<1>1. list \in Seq(Port)
  <2>1. CASE list \in PortLists
    BY <2>1, HistoryAssumption
  <2>2. CASE list = <<>>
    BY <2>2
  <2> QED BY <2>1, <2>2
<1> QED BY <1>1

LEMMA OtherwiseKeeps == ASSUME RowsInv, Otherwise PROVE RowsInv'
<1>1. stage = "idle" /\ UNCHANGED <<stage, listed, per, had>>
  BY DEF Otherwise, reader
<1>2. DOMAIN listed = {} /\ DOMAIN per = {} /\ DOMAIN had = {}
  BY <1>1 DEF RowsInv
<1> QED BY <1>1, <1>2 DEF RowsInv

LEMMA ListKeeps == ASSUME HInv, RowsInv, list_switches PROVE RowsInv'
<1>1. /\ stage' = "reading" /\ DOMAIN listed' = Switches /\ DOMAIN had' = Switches
      /\ \A s \in Switches : had'[s] = {ports[s]}
      /\ DOMAIN per' = {} /\ ports' = ports
  BY DEF list_switches, NoRows, vars
<1>2. IsFiniteSet(Switches) /\ Switches \subseteq SwitchId
      /\ \A s \in Switches : ports[s] \in PortLists \cup {<<>>}
  BY DEF HInv, InOrder, TypeOK, Switches
<1>3. \A s \in DOMAIN had' : had'[s] \subseteq PortLists \cup {<<>>}
  BY <1>1, <1>2
<1>4. \A s \in DOMAIN listed' \ DOMAIN per' : ports'[s] \in had'[s]
  BY <1>1
<1>5. \A s \in DOMAIN per' : \E list \in had'[s] : OfList(s, list)'
  BY <1>1
<1> QED BY <1>1, <1>2, <1>3, <1>4, <1>5 DEF RowsInv

\* A row, once read, stays.
LEMMA SummarizedIs ==
    ASSUME NEW s, NEW list, Summarized(s, list)
    PROVE  /\ DOMAIN per' = DOMAIN per \cup {s}
           /\ per'[s] = summarize_ports(list)
           /\ \A t \in DOMAIN per : t # s => per'[t] = per[t]
BY DEF Summarized

LEMMA GetKeeps ==
    ASSUME HInv, RowsInv, NEW s \in SwitchId, get_ports(s) PROVE RowsInv'
<1>1. /\ stage = "reading" /\ s \in DOMAIN listed \ DOMAIN per
      /\ UNCHANGED <<ports, stage, listed, had>>
  BY DEF get_ports, Unread, vars
<1>2. /\ DOMAIN per' = DOMAIN per \cup {s}
      /\ per'[s] = summarize_ports(ports[s])
      /\ \A t \in DOMAIN per : t # s => per'[t] = per[t]
  BY SummarizedIs DEF get_ports
<1>3. ports[s] \in had[s] /\ ports[s] \in PortLists \cup {<<>>}
  BY <1>1 DEF RowsInv
<1>4. OfList(s, ports[s])'
  <2>1. /\ Len(ports[s]) \in 0 .. Len(ports[s])
        /\ per'[s] = summarize_ports(SubSeq(ports[s], 1, Len(ports[s])))
    BY <1>2, <1>3, WholePrefix
  <2> QED BY <1>1, <2>1 DEF OfList
<1>5. \A t \in DOMAIN per' : \E list \in had'[t] : OfList(t, list)'
  <2> SUFFICES ASSUME NEW t \in DOMAIN per' PROVE \E list \in had'[t] : OfList(t, list)'
    OBVIOUS
  <2>1. CASE t = s
    BY <2>1, <1>1, <1>3, <1>4 DEF OfList
  <2>2. CASE t # s
    BY <2>2, <1>1, <1>2 DEF RowsInv, OfList
  <2> QED BY <2>1, <2>2
<1> QED BY <1>1, <1>2, <1>5 DEF RowsInv

LEMMA GetMeanwhileKeeps ==
    ASSUME HInv, RowsInv, NEW s \in SwitchId, get_ports_meanwhile(s) PROVE HInv' /\ RowsInv'
<1>1. stage = "reading" /\ s \in DOMAIN listed \ DOMAIN per /\ UNCHANGED <<stage, listed>>
  BY DEF get_ports_meanwhile, Unread
<1>a. PICK list \in PortLists : \E k \in 0 .. Len(list) - 1 :
          /\ Summarized(s, SubSeq(list, 1, k))
          /\ Polled(s, list)
          /\ had' = [had EXCEPT ![s] = @ \cup {list}]
  BY DEF get_ports_meanwhile
<1>2. PICK k \in 0 .. Len(list) - 1 :
          /\ Summarized(s, SubSeq(list, 1, k))
          /\ Polled(s, list)
          /\ had' = [had EXCEPT ![s] = @ \cup {list}]
  BY <1>a
<1>3. HInv'
  BY <1>2, PolledKeeps
<1>4. /\ DOMAIN per' = DOMAIN per \cup {s}
      /\ per'[s] = summarize_ports(SubSeq(list, 1, k))
      /\ \A t \in DOMAIN per : t # s => per'[t] = per[t]
  BY <1>2, SummarizedIs
<1>5. ports' = [ports EXCEPT ![s] = list] /\ DOMAIN ports = SwitchId
  BY <1>2 DEF Polled, HInv, TypeOK
<1>6. /\ DOMAIN had' = DOMAIN had /\ had'[s] = had[s] \cup {list}
      /\ \A t \in DOMAIN had : t # s => had'[t] = had[t]
  BY <1>1, <1>2 DEF RowsInv
<1>7. OfList(s, list)'
  <2>1. k \in 0 .. Len(list)
    <3>1. Len(list) \in Nat
      BY HistoryAssumption
    <3> QED BY <3>1
  <2> QED BY <1>4, <2>1 DEF OfList
<1>8. \A t \in DOMAIN per' : \E l \in had'[t] : OfList(t, l)'
  <2> SUFFICES ASSUME NEW t \in DOMAIN per' PROVE \E l \in had'[t] : OfList(t, l)'
    OBVIOUS
  <2>1. CASE t = s
    BY <2>1, <1>6, <1>7
  <2>2. CASE t # s
    BY <2>2, <1>4, <1>6 DEF RowsInv, OfList
  <2> QED BY <2>1, <2>2
<1>9. \A t \in DOMAIN had' : had'[t] \subseteq PortLists \cup {<<>>}
  BY <1>6 DEF RowsInv
<1>10. \A t \in DOMAIN listed' \ DOMAIN per' : ports'[t] \in had'[t]
  BY <1>1, <1>4, <1>5, <1>6 DEF RowsInv
<1> QED BY <1>1, <1>3, <1>4, <1>6, <1>8, <1>9, <1>10 DEF RowsInv

LEMMA MeanwhileKeeps ==
    ASSUME HInv, RowsInv, Meanwhile PROVE HInv' /\ RowsInv'
<1>1. HInv'
  BY HistoryKeeps DEF Meanwhile
<1>2. /\ stage # "idle" /\ UNCHANGED <<stage, listed, per>>
      /\ had' = [s \in DOMAIN had |->
                    had[s] \cup IF s \in Unread THEN {ports'[s]} ELSE {}]
  BY DEF Meanwhile
<1>3. \A s \in SwitchId : ports'[s] \in PortLists \cup {<<>>}
  BY <1>1 DEF HInv, TypeOK
<1>4. /\ DOMAIN had' = DOMAIN had
      /\ \A s \in DOMAIN had : /\ had[s] \subseteq had'[s]
                               /\ had'[s] \subseteq PortLists \cup {<<>>}
                               /\ s \in DOMAIN listed \ DOMAIN per => ports'[s] \in had'[s]
  BY <1>2, <1>3 DEF RowsInv, Unread
<1> QED BY <1>1, <1>2, <1>4 DEF RowsInv, OfList

LEMMA ComposedKeeps == ASSUME RowsInv, Composed PROVE RowsInv'
<1>1. /\ stage' = "done" /\ DOMAIN listed \ DOMAIN per = {}
      /\ UNCHANGED <<ports, listed, per, had>>
  BY DEF Composed, Unread, vars
<1> QED BY <1>1 DEF RowsInv, OfList

LEMMA SentKeeps == ASSUME RowsInv, Sent PROVE RowsInv'
<1>1. /\ stage' = "idle" /\ DOMAIN listed' = {} /\ DOMAIN per' = {} /\ DOMAIN had' = {}
  BY DEF Sent, NoRows
<1>2. IsFiniteSet({})
  BY FS_EmptySet
<1> QED BY <1>1, <1>2 DEF RowsInv

\* All of it holds always.
THEOREM ReportsInv == ReportsSpec => []IInv
<1>1. ReportsInit => IInv
  <2> SUFFICES ASSUME ReportsInit PROVE IInv
    OBVIOUS
  <2>1. /\ dc = [s \in SwitchId |-> NoSwitch] /\ ports = [s \in SwitchId |-> <<>>]
        /\ samples = <<>> /\ minute = 0
        /\ shown = [m \in 0 .. MaxMinute |-> [s \in SwitchId |-> NoSwitch]]
        /\ stage = "idle" /\ listed = <<>> /\ per = <<>> /\ had = <<>>
    BY DEF ReportsInit, Init, NoRows
  <2>2. DOMAIN samples = {} /\ DOMAIN listed = {} /\ DOMAIN per = {} /\ DOMAIN had = {}
        /\ samples \in Seq(Sample)
    BY <2>1
  <2>3. Switches = {} /\ IsFiniteSet({})
    BY <2>1, FS_EmptySet DEF Switches
  <2>4. TypeOK
    BY <2>1, <2>2, HistoryAssumption DEF TypeOK
  <2>5. InOrder /\ Shown /\ OfLive
    BY <2>1, <2>2, <2>3 DEF InOrder, Shown, OfLive
  <2>6. RowsInv
    BY <2>1, <2>2, <2>3 DEF RowsInv
  <2> QED BY <2>4, <2>5, <2>6 DEF IInv, HInv
<1>2. IInv /\ [ReportsNext]_<<vars, reader>> => IInv'
  <2> SUFFICES ASSUME HInv, RowsInv, [ReportsNext]_<<vars, reader>> PROVE HInv' /\ RowsInv'
    BY DEF IInv
  <2>1. CASE Otherwise
    <3>1. HInv'
      <4>1. Tick \/ \E s \in SwitchId : SetDc(s) \/ delete_switch(s) \/ Poll(s)
        BY <2>1 DEF Otherwise, Next
      <4> QED BY <4>1, TickKeeps, HistoryKeeps
    <3> QED BY <2>1, <3>1, OtherwiseKeeps
  <2>2. CASE Meanwhile
    BY <2>2, MeanwhileKeeps
  <2>3. CASE list_switches
    <3>1. UNCHANGED vars
      BY <2>3 DEF list_switches, vars
    <3> QED BY <2>3, <3>1, ListKeeps, StutterKeeps
  <2>4. ASSUME NEW s \in SwitchId, get_ports(s)
        PROVE  HInv' /\ RowsInv'
    <3>1. UNCHANGED vars
      BY <2>4 DEF get_ports, vars
    <3> QED BY <2>4, <3>1, GetKeeps, StutterKeeps
  <2>5. ASSUME NEW s \in SwitchId, get_ports_meanwhile(s)
        PROVE  HInv' /\ RowsInv'
    BY <2>5, GetMeanwhileKeeps
  <2>6. CASE Composed
    <3>1. UNCHANGED vars
      BY <2>6 DEF Composed, vars
    <3> QED BY <2>6, <3>1, ComposedKeeps, StutterKeeps
  <2>7. CASE Sent
    <3>1. UNCHANGED vars
      BY <2>7 DEF Sent
    <3> QED BY <2>7, <3>1, SentKeeps, StutterKeeps
  <2>8. CASE UNCHANGED <<vars, reader>>
    <3>1. UNCHANGED vars /\ UNCHANGED <<stage, listed, per, had, ports>>
      BY <2>8 DEF vars, reader
    <3>2. RowsInv'
      BY <3>1 DEF RowsInv, OfList
    <3> QED BY <3>1, <3>2, StutterKeeps
  <2> QED BY <2>1, <2>2, <2>3, <2>4, <2>5, <2>6, <2>7, <2>8 DEF ReportsNext
<1> QED BY <1>1, <1>2, PTL DEF ReportsSpec


\* The types of the variables hold for every set of switches, data centres and port lists.
THEOREM ReportsType == ReportsSpec => []TypeOK
<1>1. IInv => TypeOK
  BY DEF IInv, HInv
<1> QED BY <1>1, ReportsInv, PTL

\* Every row of a report is of a list its switch had since the listing, or of the beginning
\* of one that was being written.
THEOREM ReportsRows == ReportsSpec => []RowsWereTrue
<1>1. IInv => RowsWereTrue
  <2> SUFFICES ASSUME RowsInv, stage = "done"
               PROVE  /\ DOMAIN per = DOMAIN listed
                      /\ \A s \in DOMAIN per : \E list \in had[s] : \E k \in 0 .. Len(list) :
                             per[s] = summarize_ports(SubSeq(list, 1, k))
    BY DEF IInv, RowsWereTrue
  <2> QED BY DEF RowsInv, OfList
<1> QED BY <1>1, ReportsInv, PTL

-----------------------------------------------------------------------------
(* Merged summaries. *)

LEMMA SumFunctionIs == ASSUME NEW f, NEW S, DOMAIN f = S PROVE SumFunction(f) = SumOn(f, S)
BY DEF SumFunction, SumOn

\* One figure of some summaries, and its sum.
Figure(of, S, name) == [s \in S |-> of[s][name]]

LEMMA MergeIs ==
    ASSUME NEW of, NEW S
    PROVE  merge_summaries(of, S) = [total |-> SumOn(Figure(of, S, "total"), S),
                                     used  |-> SumOn(Figure(of, S, "used"), S),
                                     error |-> SumOn(Figure(of, S, "error"), S),
                                     free  |-> SumOn(Figure(of, S, "free"), S)]
<1>1. SumFunction([s \in S |-> of[s].total]) = SumOn(Figure(of, S, "total"), S)
  BY SumFunctionIs DEF Figure
<1>2. SumFunction([s \in S |-> of[s].used]) = SumOn(Figure(of, S, "used"), S)
  BY SumFunctionIs DEF Figure
<1>3. SumFunction([s \in S |-> of[s].error]) = SumOn(Figure(of, S, "error"), S)
  BY SumFunctionIs DEF Figure
<1>4. SumFunction([s \in S |-> of[s].free]) = SumOn(Figure(of, S, "free"), S)
  BY SumFunctionIs DEF Figure
<1> QED BY <1>1, <1>2, <1>3, <1>4 DEF merge_summaries

\* Where every summary counts every port once, so does the merged one.
LEMMA MergeCounts ==
    ASSUME NEW S, IsFiniteSet(S), NEW of, \A s \in S : of[s] \in Summary,
           \A s \in S : of[s].total = of[s].used + of[s].free + of[s].error
    PROVE  /\ merge_summaries(of, S) \in Summary
           /\ merge_summaries(of, S).total = merge_summaries(of, S).used
                  + merge_summaries(of, S).free + merge_summaries(of, S).error
<1> DEFINE t == Figure(of, S, "total")
           u == Figure(of, S, "used")
           e == Figure(of, S, "error")
           r == Figure(of, S, "free")
<1>1. \A s \in S : /\ t[s] \in Nat /\ u[s] \in Nat /\ r[s] \in Nat /\ e[s] \in Nat
                   /\ t[s] = u[s] + r[s] + e[s]
  <2> TAKE s \in S
  <2>1. of[s] \in Summary /\ of[s].total = of[s].used + of[s].free + of[s].error
    OBVIOUS
  <2>2. of[s].total \in Nat /\ of[s].used \in Nat /\ of[s].free \in Nat /\ of[s].error \in Nat
    BY <2>1 DEF Summary
  <2>3. /\ t[s] = of[s].total /\ u[s] = of[s].used /\ r[s] = of[s].free /\ e[s] = of[s].error
    BY DEF Figure
  <2> HIDE DEF t, u, r, e
  <2> QED BY <2>1, <2>2, <2>3
<1>2. merge_summaries(of, S) = [total |-> SumOn(t, S), used  |-> SumOn(u, S),
                                error |-> SumOn(e, S), free  |-> SumOn(r, S)]
  BY MergeIs
<1> HIDE DEF t, u, r, e
<1>3. /\ SumOn(t, S) \in Nat /\ SumOn(u, S) \in Nat /\ SumOn(r, S) \in Nat
      /\ SumOn(e, S) \in Nat
  <2>1. SumOn(t, S) \in Nat
    BY <1>1, SumOnAdd
  <2>2. SumOn(u, S) \in Nat
    BY <1>1, SumOnAdd
  <2>3. SumOn(r, S) \in Nat
    BY <1>1, SumOnAdd
  <2>4. SumOn(e, S) \in Nat
    BY <1>1, SumOnAdd
  <2> QED BY <2>1, <2>2, <2>3, <2>4
<1>4. SumOn(t, S) = SumOn(u, S) + SumOn(r, S) + SumOn(e, S)
  BY <1>1, SumOnParts
<1> QED BY <1>2, <1>3, <1>4 DEF Summary

\* The figures of the groups, one for each value of k, add up to those of all.
LEMMA FigureGrouped ==
    ASSUME NEW S, IsFiniteSet(S), NEW of, NEW name, \A s \in S : of[s][name] \in Nat,
           NEW k, NEW D, D = Keys(k, S),
           NEW g, \A d \in D : g[d] = SumOn(Figure(of, Group(k, S, d), name), Group(k, S, d))
    PROVE  SumOn(g, D) = SumOn(Figure(of, S, name), S)
<1> DEFINE f == Figure(of, S, name)
<1>1. \A x \in S : f[x] \in Nat
  BY DEF Figure
<1>2. \A d \in D : g[d] = SumOn(f, Group(k, S, d))
  <2> TAKE d \in D
  <2> DEFINE T == Group(k, S, d)
             a == Figure(of, T, name)
  <2>1. T \in SUBSET S /\ IsFiniteSet(T)
    BY FS_Subset DEF Group
  <2>2. \A x \in S : f[x] = of[x][name]
    BY DEF Figure
  <2>3. \A x \in T : a[x] = of[x][name]
    BY DEF Figure
  <2>4. g[d] = SumOn(a, T)
    OBVIOUS
  <2> HIDE DEF f, T, a
  <2>5. \A x \in T : f[x] \in Nat
    BY <1>1, <2>1
  <2>6. \A x \in T : f[x] = a[x]
    BY <2>1, <2>2, <2>3
  <2>7. SumOn(f, T) = SumOn(a, T)
    BY <2>1, <2>5, <2>6, SumOnSame
  <2> QED BY <2>4, <2>7 DEF T
<1> HIDE DEF f
<1>3. SumOn(f, S) = SumOn(g, D)
  BY <1>1, <1>2, SumOnGrouped
<1> QED BY <1>3 DEF f

\* Merged by group and then over the groups: the same as merged at once.
LEMMA MergeGrouped ==
    ASSUME NEW S, IsFiniteSet(S), NEW of, \A s \in S : of[s] \in Summary,
           NEW k, NEW D, D = Keys(k, S)
    PROVE  merge_summaries([d \in D |-> merge_summaries(of, Group(k, S, d))], D)
               = merge_summaries(of, S)
<1> DEFINE groups == [d \in D |-> merge_summaries(of, Group(k, S, d))]
<1>1. \A s \in S : /\ of[s]["total"] \in Nat /\ of[s]["used"] \in Nat
                   /\ of[s]["error"] \in Nat /\ of[s]["free"] \in Nat
  BY DEF Summary
<1>2. ASSUME NEW d \in D
      PROVE  groups[d] = [total |-> SumOn(Figure(of, Group(k, S, d), "total"), Group(k, S, d)),
                          used  |-> SumOn(Figure(of, Group(k, S, d), "used"), Group(k, S, d)),
                          error |-> SumOn(Figure(of, Group(k, S, d), "error"), Group(k, S, d)),
                          free  |-> SumOn(Figure(of, Group(k, S, d), "free"), Group(k, S, d))]
  BY MergeIs
<1> HIDE DEF groups
<1>3. ASSUME NEW name \in {"total", "used", "error", "free"}
      PROVE  SumOn(Figure(groups, D, name), D) = SumOn(Figure(of, S, name), S)
  <2> DEFINE g == Figure(groups, D, name)
  <2>1. \A d \in D : g[d] = SumOn(Figure(of, Group(k, S, d), name), Group(k, S, d))
    <3> TAKE d \in D
    <3>1. g[d] = groups[d][name]
      BY DEF Figure
    <3> DEFINE F(n) == SumOn(Figure(of, Group(k, S, d), n), Group(k, S, d))
    <3>a. groups[d] = [total |-> F("total"), used |-> F("used"), error |-> F("error"),
                       free |-> F("free")]
      BY <1>2
    <3> HIDE DEF g, F
    <3>b. g[d] = F(name)
      BY <3>1, <3>a
    <3> QED BY <3>b DEF F
  <2>2. \A s \in S : of[s][name] \in Nat
    BY <1>1
  <2> HIDE DEF g
  <2>3. SumOn(g, D) = SumOn(Figure(of, S, name), S)
    BY <2>1, <2>2, FigureGrouped
  <2> QED BY <2>3 DEF g
<1>4. merge_summaries(groups, D) = [total |-> SumOn(Figure(groups, D, "total"), D),
                                    used  |-> SumOn(Figure(groups, D, "used"), D),
                                    error |-> SumOn(Figure(groups, D, "error"), D),
                                    free  |-> SumOn(Figure(groups, D, "free"), D)]
  BY MergeIs
<1>5. merge_summaries(of, S) = [total |-> SumOn(Figure(of, S, "total"), S),
                                used  |-> SumOn(Figure(of, S, "used"), S),
                                error |-> SumOn(Figure(of, S, "error"), S),
                                free  |-> SumOn(Figure(of, S, "free"), S)]
  BY MergeIs
<1>6. merge_summaries(groups, D) = merge_summaries(of, S)
  BY <1>3, <1>4, <1>5
<1> QED BY <1>6 DEF groups


-----------------------------------------------------------------------------
(* A report agrees with itself. *)

LEMMA RowIsSummary ==
    ASSUME RowsInv, NEW s \in DOMAIN per
    PROVE  /\ per[s] \in Summary
           /\ per[s].total = per[s].used + per[s].free + per[s].error
<1>1. PICK list \in had[s] : OfList(s, list)
  BY DEF RowsInv
<1>2. list \in PortLists \cup {<<>>}
  BY DEF RowsInv
<1>3. PICK k \in 0 .. Len(list) : per[s] = summarize_ports(SubSeq(list, 1, k))
  BY <1>1 DEF OfList
<1>4. list \in Seq(Port)
  BY <1>2, WholePrefix, HistoryAssumption
<1>5. SubSeq(list, 1, k) \in Seq(Port)
  BY <1>3, <1>4
<1> QED BY <1>3, <1>5, SummaryIs

\* Whatever happens while a report is read, its totals are the sums of its rows and of its
\* data centres, and every port in them is used, free or faulty.
THEOREM ReportsAddUp == ReportsSpec => []ReportAddsUp
<1>1. IInv => ReportAddsUp
  <2> SUFFICES ASSUME RowsInv, stage = "done"
               PROVE  LET r == capacity_report
                          m == render
                      IN  /\ merge_summaries(r.switches, DOMAIN r.switches) = r.totals
                          /\ merge_summaries(r.datacenters, DOMAIN r.datacenters) = r.totals
                          /\ r.totals.total = r.totals.used + r.totals.free + r.totals.error
                          /\ m.sansw_switches_total = Cardinality(DOMAIN r.switches)
                          /\ m.sansw_ports_used = SumFunction(m.sansw_switch_used_ports)
                          /\ m.sansw_ports_used = r.totals.used
    BY DEF IInv, ReportAddsUp
  <2> DEFINE S == DOMAIN per
             D == {listed[s] : s \in S}
             all == merge_summaries(per, S)
             of == [d \in D |-> merge_summaries(per, {s \in S : listed[s] = d})]
  <2>1. /\ capacity_report.switches = per /\ capacity_report.totals = all
        /\ capacity_report.datacenters = of
    BY DEF capacity_report
  <2>2. /\ render.sansw_switches_total = Cardinality(DOMAIN listed)
        /\ render.sansw_ports_used = all.used
        /\ render.sansw_switch_used_ports = [s \in S |-> per[s].used]
    BY DEF render
  <2>3. IsFiniteSet(S) /\ DOMAIN listed = S
    BY DEF RowsInv
  <2>4. \A s \in S : per[s] \in Summary
    BY RowIsSummary
  <2>5. \A s \in S : per[s].total = per[s].used + per[s].free + per[s].error
    BY RowIsSummary
  <2>6. DOMAIN of = D
    OBVIOUS
  <2>7. of = [d \in D |-> merge_summaries(per, Group(listed, S, d))] /\ D = Keys(listed, S)
    BY DEF Group, Keys
  <2>8. all.used = SumFunction([s \in S |-> per[s].used])
    BY DEF merge_summaries
  <2> HIDE DEF all, of, S, D
  <2>9. merge_summaries(of, D) = merge_summaries(per, S)
    BY <2>3, <2>4, <2>7, MergeGrouped
  <2>10. all.total = all.used + all.free + all.error
    BY <2>3, <2>4, <2>5, MergeCounts DEF all
  <2>11. merge_summaries(per, S) = all
    BY DEF all
  <2>12. DOMAIN per = S
    BY DEF S
  <2> QED BY <2>1, <2>2, <2>3, <2>6, <2>8, <2>9, <2>10, <2>11, <2>12
<1> QED BY <1>1, ReportsInv, PTL

-----------------------------------------------------------------------------
(* The live roll-ups count every port once. *)

LEMMA LiveIs ==
    ASSUME HInv, NEW s \in Switches
    PROVE  /\ Live[s] = summarize_ports(ports[s])
           /\ ports[s] \in Seq(Port)
           /\ Live[s] \in Summary
           /\ Live[s].total = Live[s].used + Live[s].free + Live[s].error
<1>1. Live[s] = summarize_ports(ports[s])
  BY DEF Live
<1>2. ports[s] \in PortLists \cup {<<>>}
  BY DEF HInv, TypeOK, Switches
<1>3. ports[s] \in Seq(Port)
  <2>1. CASE ports[s] \in PortLists
    BY <2>1, HistoryAssumption
  <2>2. CASE ports[s] = <<>>
    BY <2>2
  <2> QED BY <1>2, <2>1, <2>2
<1> QED BY <1>1, <1>3, SummaryIs

\* Ports of the switches in S whose place is in q: a sum, switch by switch.
LEMMA CountIs ==
    ASSUME NEW S, IsFiniteSet(S), NEW q, \A s \in S : IsFiniteSet(q[s]),
           NEW of, NEW name, \A s \in S : of[s][name] = Cardinality(q[s]),
           NEW all, all = UNION {{s} \X q[s] : s \in S}
    PROVE  Cardinality(all) = SumOn(Figure(of, S, name), S)
<1> DEFINE f == Figure(of, S, name)
<1>1. \A s \in S : f[s] = Cardinality(q[s])
  BY DEF Figure
<1> HIDE DEF f
<1>2. Cardinality(UNION {{s} \X q[s] : s \in S}) = SumOn(f, S)
  BY <1>1, SumOnCounts
<1> QED BY <1>2 DEF f

LEMMA MergedIsCounted ==
    ASSUME HInv, NEW S \in SUBSET Switches
    PROVE  merge_summaries(Live, S) = Counted(S)
<1> DEFINE all == UNION {{s} \X DOMAIN ports[s] : s \in S}
           places == [s \in S |-> DOMAIN ports[s]]
           at(states) == [s \in S |-> {i \in DOMAIN ports[s] : ports[s][i] \in states}]
           count(states) == Cardinality({p \in all : ports[p[1]][p[2]] \in states})
           free == Port \ (ONLINE_STATES \cup ERROR_STATES)
<1>1. IsFiniteSet(S)
  BY FS_Subset DEF HInv, InOrder
<1>2. ASSUME NEW s \in S
      PROVE  /\ ports[s] \in Seq(Port) /\ Live[s] = summarize_ports(ports[s])
             /\ IsFiniteSet(DOMAIN ports[s])
  <2>1. ports[s] \in Seq(Port) /\ Live[s] = summarize_ports(ports[s])
    BY LiveIs
  <2>2. DOMAIN ports[s] = 1 .. Len(ports[s]) /\ 1 \in Int /\ Len(ports[s]) \in Int
    BY <2>1
  <2> QED BY <2>1, <2>2, FS_Interval
<1>3. Cardinality(all) = SumOn(Figure(Live, S, "total"), S)
  <2>1. \A s \in S : IsFiniteSet(places[s])
    BY <1>2
  <2>2. \A s \in S : Live[s]["total"] = Cardinality(places[s])
    BY <1>2, SummaryIs
  <2>3. all = UNION {{s} \X places[s] : s \in S}
    OBVIOUS
  <2> HIDE DEF all, places
  <2> QED BY <1>1, <2>1, <2>2, <2>3, CountIs
<1>4. ASSUME NEW name, NEW states,
             \A s \in S : Live[s][name]
                              = Cardinality({i \in DOMAIN ports[s] : ports[s][i] \in states})
      PROVE  count(states) = SumOn(Figure(Live, S, name), S)
  <2> DEFINE q == at(states)
  <2>1. ASSUME NEW s \in S PROVE IsFiniteSet(q[s])
    <3>1. q[s] \in SUBSET (DOMAIN ports[s])
      OBVIOUS
    <3> HIDE DEF q
    <3> QED BY <1>2, <3>1, FS_Subset
  <2>2. \A s \in S : Live[s][name] = Cardinality(q[s])
    BY <1>4
  <2>3. {p \in all : ports[p[1]][p[2]] \in states} = UNION {{s} \X q[s] : s \in S}
    OBVIOUS
  <2> HIDE DEF all, q
  <2> QED BY <1>1, <2>1, <2>2, <2>3, CountIs
<1>5. \A s \in S : /\ Live[s]["used"] = Cardinality({i \in DOMAIN ports[s] :
                                                        ports[s][i] \in ONLINE_STATES})
                   /\ Live[s]["error"] = Cardinality({i \in DOMAIN ports[s] :
                                                         ports[s][i] \in ERROR_STATES})
                   /\ Live[s]["free"] = Cardinality({i \in DOMAIN ports[s] :
                                                        ports[s][i] \in free})
  <2> TAKE s \in S
  <2> DEFINE c(states) == Cardinality({i \in DOMAIN ports[s] : ports[s][i] \in states})
  <2>1. Live[s] = [total |-> Len(ports[s]), used |-> c(ONLINE_STATES),
                   error |-> c(ERROR_STATES), free |-> c(free)]
    BY <1>2 DEF summarize_ports
  <2> HIDE DEF c
  <2>2. Live[s]["used"] = c(ONLINE_STATES) /\ Live[s]["error"] = c(ERROR_STATES)
        /\ Live[s]["free"] = c(free)
    BY <2>1
  <2> QED BY <2>2 DEF c
<1>6. Counted(S) = [total |-> Cardinality(all), used |-> count(ONLINE_STATES),
                    error |-> count(ERROR_STATES), free |-> count(free)]
  BY DEF Counted
<1> HIDE DEF count, all
<1>7. count(ONLINE_STATES) = SumOn(Figure(Live, S, "used"), S)
  BY <1>4, <1>5
<1>8. count(ERROR_STATES) = SumOn(Figure(Live, S, "error"), S)
  BY <1>4, <1>5
<1>9. count(free) = SumOn(Figure(Live, S, "free"), S)
  BY <1>4, <1>5
<1> QED BY <1>3, <1>6, <1>7, <1>8, <1>9, MergeIs


\* Rounded to tenths of a per cent, an occupancy is from 0 to 100.0.
LEMMA OccupancyIs ==
    ASSUME NEW x \in Summary, x.total = x.used + x.free + x.error
    PROVE  /\ occupancy_pct(x) \in 0 .. 1000
           /\ occupancy_pct(x) = 1000 => 2000 * (x.total - x.used) <= x.total
<1> DEFINE t == x.total
           u == x.used
           o == (2000 * u + t) \div (2 * t)
<1>1. t \in Nat /\ u \in Nat /\ u <= t
  <2>1. x.total \in Nat /\ x.used \in Nat /\ x.free \in Nat /\ x.error \in Nat
    BY DEF Summary
  <2> QED BY <2>1
<1>2. CASE t = 0
  <2>1. u = 0 /\ occupancy_pct(x) = 0
    BY <1>1, <1>2 DEF occupancy_pct
  <2> QED BY <2>1
<1>3. CASE t # 0
  <2>1. occupancy_pct(x) = o
    BY <1>3 DEF occupancy_pct
  <2> DEFINE n == 2000 * u + t
             d == 2 * t
  <2>2. n \in Nat /\ d \in Nat /\ d > 0 /\ n <= 1000 * d + t /\ t < d
    BY <1>1, <1>3
  <2>3. o = n \div d
    OBVIOUS
  <2>4. n = 2000 * u + t /\ d = 2 * t
    OBVIOUS
  <2> HIDE DEF n, d, o, t, u
  <2>5. o \in Nat /\ d * o <= n /\ n < d * (o + 1)
    BY <2>2, <2>3
  <2>6. o <= 1000
    <3> SUFFICES ASSUME o >= 1001 PROVE FALSE
      BY <2>5
    <3>1. d * o >= d * 1001
      BY <2>2, <2>5
    <3> QED BY <1>1, <2>2, <2>5, <3>1
  <2>7. o = 1000 => 1000 * d <= n
    BY <2>2, <2>5
  <2>8. o = 1000 => 2000 * (t - u) <= t
    BY <1>1, <2>4, <2>7
  <2> QED BY <2>1, <2>5, <2>6, <2>8 DEF t, u
<1> QED BY <1>2, <1>3

\* For every set of switches and data centres the roll-ups count each port once, and as one
\* of used, free and faulty.
THEOREM ReportsRollups == ReportsSpec => []RollupsCountOnce
<1>1. IInv => RollupsCountOnce
  <2> SUFFICES ASSUME HInv PROVE RollupsCountOnce
    BY DEF IInv
  <2> DEFINE D == {dc[s] : s \in Switches}
             In(d) == {s \in Switches : dc[s] = d}
             g == api_summary.global
  <2>1. /\ g = merge_summaries(Live, Switches)
        /\ api_summary.datacenters = [d \in D |-> merge_summaries(Live, In(d))]
    BY DEF api_summary
  <2>2. g = Counted(Switches)
    BY <2>1, MergedIsCounted
  <2>3. ASSUME NEW d \in D
        PROVE  api_summary.datacenters[d] = Counted(In(d))
    <3>1. In(d) \in SUBSET Switches
      OBVIOUS
    <3>2. api_summary.datacenters[d] = merge_summaries(Live, In(d))
      BY <2>1
    <3> HIDE DEF In
    <3> QED BY <3>1, <3>2, MergedIsCounted
  <2>4. g \in Summary /\ g.total = g.used + g.free + g.error
    <3>1. IsFiniteSet(Switches)
      BY DEF HInv, InOrder
    <3>2. \A s \in Switches : Live[s] \in Summary
      BY LiveIs
    <3>3. \A s \in Switches : Live[s].total = Live[s].used + Live[s].free + Live[s].error
      BY LiveIs
    <3> HIDE DEF g
    <3> QED BY <2>1, <3>1, <3>2, <3>3, MergeCounts
  <2>5. DOMAIN api_summary.datacenters = D
    BY <2>1
  <2> HIDE DEF D, g
  <2>6. occupancy_pct(g) \in 0 .. 1000
        /\ (occupancy_pct(g) = 1000 => 2000 * (g.total - g.used) <= g.total)
    BY <2>4, OccupancyIs
  <2> QED BY <2>2, <2>3, <2>4, <2>5, <2>6 DEF RollupsCountOnce, g
<1> QED BY <1>1, ReportsInv, PTL


-----------------------------------------------------------------------------
(* The global history. *)

\* The rows of a bucket, and the switches polled in its minute.
PlacesOf(m) == {i \in DOMAIN samples : samples[i].minute = m /\ Newest(i)}
PolledIn(m) == {x.s : x \in {y \in Range(samples) : y.minute = m}}

LEMMA SamplesAre ==
    ASSUME HInv
    PROVE  /\ samples \in Seq(Sample) /\ Len(samples) \in Nat
           /\ DOMAIN samples = 1 .. Len(samples) /\ IsFiniteSet(DOMAIN samples)
           /\ DOMAIN samples \in SUBSET Int
           /\ \A i \in DOMAIN samples : /\ samples[i].s \in SwitchId
                                        /\ samples[i].minute \in 0 .. MaxMinute
                                        /\ samples[i].used \in Nat /\ samples[i].total \in Nat
<1>1. samples \in Seq(Sample)
  BY DEF HInv, TypeOK
<1>2. DOMAIN samples = 1 .. Len(samples) /\ Len(samples) \in Nat
  BY <1>1
<1>3. IsFiniteSet(1 .. Len(samples))
  <2>1. 1 \in Int /\ Len(samples) \in Int
    BY <1>2
  <2> QED BY <2>1, FS_Interval
<1>4. \A i \in DOMAIN samples : samples[i] \in Sample
  BY <1>1
<1> QED BY <1>1, <1>2, <1>3, <1>4 DEF Sample

\* A bucket has one row of each switch polled in its minute.
LEMMA PlacesAre ==
    ASSUME HInv, NEW m
    PROVE  /\ IsFiniteSet(PlacesOf(m)) /\ PlacesOf(m) \in SUBSET (DOMAIN samples)
           /\ \A i, j \in PlacesOf(m) : samples[i].s = samples[j].s => i = j
           /\ {samples[i].s : i \in PlacesOf(m)} = PolledIn(m)
<1>1. PlacesOf(m) \in SUBSET (DOMAIN samples)
  BY DEF PlacesOf
<1>2. IsFiniteSet(PlacesOf(m))
  BY <1>1, SamplesAre, FS_Subset
<1>3. ASSUME NEW i \in PlacesOf(m), NEW j \in PlacesOf(m), samples[i].s = samples[j].s
      PROVE  i = j
  <2>1. i \in Int /\ j \in Int /\ i \in DOMAIN samples /\ j \in DOMAIN samples
    BY <1>1, SamplesAre
  <2>2. ~(i < j) /\ ~(j < i)
    BY <1>3, <2>1 DEF PlacesOf, Newest
  <2> QED BY <2>1, <2>2
<1>4. ASSUME NEW s \in PolledIn(m)
      PROVE  \E i \in PlacesOf(m) : samples[i].s = s
  <2> DEFINE W == {j \in DOMAIN samples : samples[j].s = s /\ samples[j].minute = m}
             k == Nth(W, Cardinality(W))
  <2>1. W # {}
    <3>1. PICK x \in Range(samples) : x.minute = m /\ x.s = s
      BY DEF PolledIn
    <3>2. PICK i \in DOMAIN samples : samples[i] = x
      BY DEF Range
    <3> QED BY <3>1, <3>2
  <2>2. W \in SUBSET Int /\ IsFiniteSet(W) /\ W \in SUBSET (DOMAIN samples)
    <3>1. W \in SUBSET (DOMAIN samples)
      OBVIOUS
    <3> HIDE DEF W
    <3> QED BY <3>1, SamplesAre, FS_Subset
  <2>3. k \in W /\ \A j \in W : j <= k
    <3> HIDE DEF W
    <3>1. Cardinality(W) \in Nat /\ Cardinality(W) # 0
      BY <2>1, <2>2, FS_EmptySet, FS_CardinalityType
    <3>2. Cardinality(W) \in 1 .. Cardinality(W)
      BY <3>1
    <3> QED BY <2>2, <3>2, NthIs
  <2> HIDE DEF k
  <2>4. Newest(k)
    <3> SUFFICES ASSUME NEW j \in DOMAIN samples, j > k, samples[j].s = samples[k].s,
                        samples[j].minute = samples[k].minute
                 PROVE  FALSE
      BY DEF Newest
    <3>1. j \in W /\ k \in Int /\ j \in Int
      BY <2>2, <2>3
    <3> QED BY <2>3, <3>1
  <2>5. k \in PlacesOf(m) /\ samples[k].s = s
    BY <2>3, <2>4 DEF PlacesOf
  <2> QED BY <2>5
<1>5. ASSUME NEW i \in PlacesOf(m)
      PROVE  samples[i].s \in PolledIn(m)
  <2>1. samples[i] \in Range(samples) /\ samples[i].minute = m
    BY DEF PlacesOf, Range
  <2> QED BY <2>1 DEF PolledIn
<1>6. {samples[i].s : i \in PlacesOf(m)} = PolledIn(m)
  BY <1>4, <1>5
<1> QED BY <1>1, <1>2, <1>3, <1>6

\* What a bucket adds up, if its rows have the figures of `of`.
LEMMA BucketIs ==
    ASSUME HInv, NEW m, NEW of,
           \A i \in PlacesOf(m) : /\ samples[i].used = of[samples[i].s].used
                                  /\ samples[i].total = of[samples[i].s].total
    PROVE  /\ IsFiniteSet(PolledIn(m))
           /\ Bucket(m, PlacesOf(m)).ts = m
           /\ Bucket(m, PlacesOf(m)).used = SumOn(Figure(of, PolledIn(m), "used"), PolledIn(m))
           /\ Bucket(m, PlacesOf(m)).total = SumOn(Figure(of, PolledIn(m), "total"), PolledIn(m))
<1> DEFINE P == PlacesOf(m)
           Q == PolledIn(m)
           b == [i \in P |-> samples[i].s]
           u == [i \in P |-> samples[i].used]
           t == [i \in P |-> samples[i].total]
           gu == Figure(of, Q, "used")
           gt == Figure(of, Q, "total")
<1>1. IsFiniteSet(P) /\ P \in SUBSET (DOMAIN samples)
      /\ (\A i, j \in P : samples[i].s = samples[j].s => i = j)
      /\ {samples[i].s : i \in P} = Q
  BY PlacesAre
<1>2. /\ Bucket(m, P).ts = m
      /\ Bucket(m, P).used = SumFunction(u)
      /\ Bucket(m, P).total = SumFunction(t)
  BY DEF Bucket
<1>3. SumFunction(u) = SumOn(u, P) /\ SumFunction(t) = SumOn(t, P)
  BY SumFunctionIs
<1> HIDE DEF P, Q
<1>4. ASSUME NEW i \in P
      PROVE  /\ u[i] \in Nat /\ t[i] \in Nat /\ b[i] \in Q
             /\ u[i] = of[samples[i].s].used /\ t[i] = of[samples[i].s].total
             /\ b[i] = samples[i].s
  BY <1>1, SamplesAre DEF P
<1>5. ASSUME NEW i \in P
      PROVE  u[i] = gu[b[i]] /\ t[i] = gt[b[i]]
  BY <1>4 DEF Figure
<1>6. \A i, j \in P : b[i] = b[j] => i = j
  BY <1>1
<1>7. {b[i] : i \in P} = Q
  BY <1>1
<1>a. IsFiniteSet(P)
  BY <1>1
<1> HIDE DEF b, u, t, gu, gt
<1>8. IsFiniteSet(Q) /\ SumOn(u, P) = SumOn(gu, Q)
  <2>1. \A i \in P : u[i] \in Nat
    BY <1>4
  <2>2. \A i \in P : u[i] = gu[b[i]]
    BY <1>5
  <2>3. IsFiniteSet({b[i] : i \in P}) /\ SumOn(u, P) = SumOn(gu, {b[i] : i \in P})
    BY <1>a, <1>6, <2>1, <2>2, SumOnMoved
  <2> QED BY <1>7, <2>3
<1>9. SumOn(t, P) = SumOn(gt, Q)
  <2>1. \A i \in P : t[i] \in Nat
    BY <1>4
  <2>2. \A i \in P : t[i] = gt[b[i]]
    BY <1>5
  <2>3. IsFiniteSet({b[i] : i \in P}) /\ SumOn(t, P) = SumOn(gt, {b[i] : i \in P})
    BY <1>a, <1>6, <2>1, <2>2, SumOnMoved
  <2> QED BY <1>7, <2>3
<1> QED BY <1>2, <1>3, <1>8, <1>9 DEF P, Q, gu, gt

\* The buckets come in the order of their minutes, up to the newest sample's.
LEMMA HistoryIs ==
    ASSUME HInv, NEW limit \in Int, NEW M, M = Minutes(limit),
           NEW h, h = get_global_history(limit)
    PROVE  /\ Cardinality(M) \in Nat /\ DOMAIN h = 1 .. Cardinality(M) /\ Len(h) = Cardinality(M)
           /\ \A n \in DOMAIN h : h[n] = Bucket(Nth(M, n), PlacesOf(Nth(M, n)))
           /\ \A i, j \in DOMAIN h : i < j => Nth(M, i) < Nth(M, j)
           /\ samples # <<>> /\ limit # 0 =>
                  /\ Len(h) \in DOMAIN h
                  /\ Nth(M, Len(h)) = samples[Len(samples)].minute
<1> DEFINE buckets == {x.minute : x \in Range(samples)}
           C == Cardinality(M)
<1>1. M = {m \in buckets : limit < 0 \/ Cardinality({n \in buckets : n > m}) < limit}
  BY DEF Minutes
<1>2. \A m \in buckets : \E i \in DOMAIN samples : m = samples[i].minute
  BY DEF Range
<1>3. buckets \in SUBSET (0 .. MaxMinute)
  BY <1>2, SamplesAre
<1>4. M \in SUBSET Int /\ IsFiniteSet(M)
  <2>1. IsFiniteSet(0 .. MaxMinute)
    <3>1. 0 \in Int /\ MaxMinute \in Int
      BY HistoryAssumption
    <3> QED BY <3>1, FS_Interval
  <2>2. M \in SUBSET (0 .. MaxMinute)
    BY <1>1, <1>3
  <2>3. M \in SUBSET Int
    BY <2>2, HistoryAssumption
  <2> QED BY <2>1, <2>2, <2>3, FS_Subset
<1>5. /\ C \in Nat
      /\ \A n \in 1 .. C : Nth(M, n) \in M
      /\ \A m, n \in 1 .. C : m < n => Nth(M, m) < Nth(M, n)
      /\ \A x \in M : x <= Nth(M, C)
  BY <1>4, NthIs
<1>6. h = [n \in 1 .. C |-> Bucket(Nth(M, n), PlacesOf(Nth(M, n)))]
  BY DEF get_global_history, PlacesOf
<1> HIDE DEF C
<1>7. DOMAIN h = 1 .. C /\ \A n \in DOMAIN h : h[n] = Bucket(Nth(M, n), PlacesOf(Nth(M, n)))
  BY <1>6
<1>8. Len(h) = C
  BY <1>5, <1>6
<1>9. ASSUME samples # <<>>, limit # 0
      PROVE  C \in 1 .. C /\ Nth(M, C) = samples[Len(samples)].minute
  <2> DEFINE l == samples[Len(samples)].minute
  <2>1. /\ Len(samples) \in DOMAIN samples
        /\ \A i \in DOMAIN samples : i \in Int /\ i <= Len(samples)
    BY <1>9, SamplesAre
  <2>2. l \in buckets
    BY <2>1 DEF Range
  <2>3. \A m \in buckets : m <= l
    <3> TAKE m \in buckets
    <3>1. PICK i \in DOMAIN samples : m = samples[i].minute
      BY <1>2
    <3>2. i < Len(samples) \/ i = Len(samples)
      BY <2>1
    <3>3. i < Len(samples) => samples[i].minute <= l
      BY <2>1 DEF HInv, InOrder
    <3>4. m \in Int /\ l \in Int
      BY <1>3, <2>2, HistoryAssumption
    <3> QED BY <3>1, <3>2, <3>3, <3>4
  <2>4. \A m \in buckets : m \in Int
    BY <1>3, HistoryAssumption
  <2>5. l \in M
    <3>1. {n \in buckets : n > l} = {}
      <4>1. \A n \in buckets : ~(n > l)
        <5> TAKE n \in buckets
        <5>1. n \in Int /\ l \in Int /\ n <= l
          BY <2>2, <2>3, <2>4
        <5> HIDE DEF l
        <5> QED BY <5>1
      <4> HIDE DEF buckets, l
      <4> QED BY <4>1
    <3>2. limit < 0 \/ Cardinality({}) < limit
      BY <1>9, FS_EmptySet
    <3> HIDE DEF buckets, l
    <3> QED BY <1>1, <2>2, <3>1, <3>2
  <2>6. C \in 1 .. C
    <3>1. C # 0
      BY <1>4, <2>5, FS_EmptySet DEF C
    <3> QED BY <1>5, <3>1
  <2>7. Nth(M, C) \in M /\ l <= Nth(M, C)
    BY <1>5, <2>5, <2>6
  <2>8. Nth(M, C) <= l /\ Nth(M, C) \in Int /\ l \in Int
    BY <1>1, <2>2, <2>3, <2>4, <2>7
  <2> QED BY <2>6, <2>7, <2>8
<1> QED BY <1>5, <1>7, <1>8, <1>9 DEF C


\* However many samples there are, and whatever was trimmed or deleted, a bucket of the
\* history is the state of the switches polled in its minute, and the buckets are in order.
THEOREM ReportsBuckets == ReportsSpec => []BucketsNotInflated
<1>1. IInv => BucketsNotInflated
  <2> SUFFICES ASSUME HInv, NEW limit \in Limits PROVE BucketsNotInflated!(limit)
    BY DEF IInv, BucketsNotInflated
  <2> DEFINE h == get_global_history(limit)
             M == Minutes(limit)
             of(m) == [s \in PolledIn(m) |-> summarize_ports(shown[m][s])]
             state(m) == merge_summaries(of(m), PolledIn(m))
  <2>1. /\ DOMAIN h = 1 .. Cardinality(M) /\ Len(h) = Cardinality(M)
        /\ \A n \in DOMAIN h : h[n] = Bucket(Nth(M, n), PlacesOf(Nth(M, n)))
        /\ \A i, j \in DOMAIN h : i < j => Nth(M, i) < Nth(M, j)
        /\ samples # <<>> /\ limit # 0 =>
               /\ Len(h) \in DOMAIN h
               /\ Nth(M, Len(h)) = samples[Len(samples)].minute
    BY HistoryIs, HistoryAssumption
  <2> HIDE DEF h, M, of
  <2>2. ASSUME NEW n \in DOMAIN h
        PROVE  /\ h[n].ts = Nth(M, n)
               /\ h[n].total = state(h[n].ts).total /\ h[n].used = state(h[n].ts).used
    <3> DEFINE m == Nth(M, n)
               Q == PolledIn(m)
               f == of(m)
    <3>1. h[n] = Bucket(m, PlacesOf(m))
      BY <2>1
    <3> HIDE DEF m, f
    <3>2. ASSUME NEW i \in PlacesOf(m)
          PROVE  /\ samples[i].used = f[samples[i].s].used
                 /\ samples[i].total = f[samples[i].s].total
      <4>1. i \in DOMAIN samples /\ samples[i].minute = m /\ Newest(i)
            /\ samples[i].s \in PolledIn(m)
        <5>1. i \in DOMAIN samples /\ samples[i].minute = m /\ Newest(i)
          BY DEF PlacesOf
        <5>2. samples[i].s \in {samples[j].s : j \in PlacesOf(m)}
          OBVIOUS
        <5>3. samples[i].s \in PolledIn(m)
          BY <5>2, PlacesAre
        <5> QED BY <5>1, <5>3
      <4>2. Summarizes(samples[i], shown[m][samples[i].s])
        BY <4>1 DEF HInv, Shown
      <4>3. f[samples[i].s] = summarize_ports(shown[m][samples[i].s])
        BY <4>1 DEF f, of
      <4> QED BY <4>2, <4>3 DEF Summarizes
    <3>3. /\ Bucket(m, PlacesOf(m)).ts = m
          /\ Bucket(m, PlacesOf(m)).used = SumOn(Figure(f, Q, "used"), Q)
          /\ Bucket(m, PlacesOf(m)).total = SumOn(Figure(f, Q, "total"), Q)
      BY <3>2, BucketIs
    <3>4. /\ merge_summaries(f, Q).used = SumOn(Figure(f, Q, "used"), Q)
          /\ merge_summaries(f, Q).total = SumOn(Figure(f, Q, "total"), Q)
      BY MergeIs
    <3>5. state(m) = merge_summaries(f, Q)
      BY DEF f
    <3>6. h[n].ts = m
      BY <3>1, <3>3
    <3> HIDE DEF state, Q
    <3> QED BY <3>1, <3>3, <3>4, <3>5, <3>6 DEF m
  <2>3. \A i, j \in DOMAIN h : i < j => h[i].ts < h[j].ts
    <3> HIDE DEF state
    <3> QED BY <2>1, <2>2
  <2>4. samples # <<>> /\ limit # 0 => h[Len(h)].ts = Last(samples).minute
    <3> HIDE DEF state
    <3> QED BY <2>1, <2>2 DEF Last
  <2>5. \A i \in DOMAIN h : /\ h[i].total = state(h[i].ts).total
                            /\ h[i].used = state(h[i].ts).used
    BY <2>2
  <2> QED BY <2>3, <2>4, <2>5 DEF h, of, PolledIn
<1> QED BY <1>1, ReportsInv, PTL

\* If every switch that has ports was polled in the last minute, the newest bucket is the
\* live total of them all.
THEOREM ReportsNewest == ReportsSpec => []NewestBucketIsLive
<1>1. IInv => NewestBucketIsLive
  <2> SUFFICES ASSUME HInv, NEW limit \in Limits \ {0} PROVE NewestBucketIsLive!(limit)
    BY DEF IInv, NewestBucketIsLive
  <2> DEFINE h == get_global_history(limit)
             m == samples[Len(samples)].minute
             P == PlacesOf(m)
             Q == PolledIn(m)
             g == api_summary.global
  <2> SUFFICES ASSUME samples # <<>>, {s \in Switches : ports[s] # <<>>} \subseteq Q
               PROVE  h[Len(h)].total = g.total /\ h[Len(h)].used = g.used
    BY DEF PolledIn, Last
  <2>1. h[Len(h)] = Bucket(m, P)
    <3> DEFINE M == Minutes(limit)
    <3>1. limit \in Int /\ limit # 0
      BY HistoryAssumption
    <3>2. /\ \A n \in DOMAIN h : h[n] = Bucket(Nth(M, n), PlacesOf(Nth(M, n)))
          /\ Len(h) \in DOMAIN h
          /\ Nth(M, Len(h)) = m
      BY <3>1, HistoryIs
    <3> HIDE DEF h, m, M
    <3> QED BY <3>2 DEF P
  <2>2. ASSUME NEW i \in P
        PROVE  /\ i \in DOMAIN samples /\ samples[i].s \in Switches
               /\ samples[i].used = Live[samples[i].s].used
               /\ samples[i].total = Live[samples[i].s].total
    <3>1. i \in DOMAIN samples /\ samples[i].minute = m /\ Newest(i)
      BY DEF PlacesOf
    <3>2. samples[i].s \in Switches
      BY <3>1 DEF HInv, InOrder
    <3>3. Latest(i)
      <4> SUFFICES ASSUME NEW j \in DOMAIN samples, j > i, samples[j].s = samples[i].s
                   PROVE  FALSE
        BY DEF Latest
      <4>1. /\ j \in Int /\ i \in Int /\ Len(samples) \in DOMAIN samples
            /\ (j < Len(samples) \/ j = Len(samples))
        <5>1. /\ DOMAIN samples = 1 .. Len(samples) /\ Len(samples) \in Nat
              /\ j \in DOMAIN samples /\ i \in DOMAIN samples
          BY <3>1, SamplesAre
        <5> QED BY <5>1
      <4>2. samples[i].minute <= samples[j].minute /\ samples[j].minute <= m
        <5>1. samples[j].minute \in Int
          BY SamplesAre, HistoryAssumption
        <5> QED BY <3>1, <4>1, <5>1 DEF HInv, InOrder
      <4>3. samples[j].minute = m
        <5>1. samples[j].minute \in Int /\ samples[i].minute \in Int
          BY <3>1, SamplesAre, HistoryAssumption
        <5> HIDE DEF m
        <5> QED BY <3>1, <4>2, <5>1
      <4> QED BY <3>1, <4>3 DEF Newest
    <3>4. Summarizes(samples[i], ports[samples[i].s])
      BY <3>1, <3>3 DEF HInv, OfLive
    <3>5. Live[samples[i].s] = summarize_ports(ports[samples[i].s])
      BY <3>2, LiveIs
    <3> QED BY <3>1, <3>2, <3>4, <3>5 DEF Summarizes
  <2>3. /\ Bucket(m, P).used = SumOn(Figure(Live, Q, "used"), Q)
        /\ Bucket(m, P).total = SumOn(Figure(Live, Q, "total"), Q)
    BY <2>2, BucketIs
  <2>4. Q \in SUBSET Switches
    BY <2>2, PlacesAre
  <2>5. \A s \in Switches \ Q : Live[s].used = 0 /\ Live[s].total = 0
    <3> TAKE s \in Switches \ Q
    <3>1. ports[s] = <<>>
      OBVIOUS
    <3>2. Live[s] = summarize_ports(<<>>) /\ <<>> \in Seq(Port) /\ Len(<<>>) = 0
      BY <3>1, LiveIs
    <3>3. Live[s] \in Summary /\ Live[s].total = 0
          /\ Live[s].total = Live[s].used + Live[s].free + Live[s].error
      BY <3>2, SummaryIs
    <3>4. Live[s].used \in Nat /\ Live[s].free \in Nat /\ Live[s].error \in Nat
      BY <3>3 DEF Summary
    <3> QED BY <3>3, <3>4
  <2>6. /\ g.used = SumOn(Figure(Live, Switches, "used"), Switches)
        /\ g.total = SumOn(Figure(Live, Switches, "total"), Switches)
    BY MergeIs DEF api_summary
  <2> HIDE DEF h, g, m, P, Q
  <2>7. ASSUME NEW name \in {"used", "total"}
        PROVE  SumOn(Figure(Live, Switches, name), Switches) = SumOn(Figure(Live, Q, name), Q)
    <3> DEFINE f == Figure(Live, Switches, name)
               e == Figure(Live, Q, name)
    <3>1. IsFiniteSet(Switches) /\ IsFiniteSet(Q)
      BY <2>4, FS_Subset DEF HInv, InOrder
    <3>2. \A s \in Switches : f[s] = Live[s][name]
      BY DEF Figure
    <3>3. \A s \in Q : e[s] = Live[s][name]
      BY DEF Figure
    <3> HIDE DEF f, e
    <3>4. \A s \in Switches : Live[s][name] \in Nat
      BY LiveIs DEF Summary
    <3>5. \A s \in Switches : f[s] \in Nat
      BY <3>2, <3>4
    <3>6. \A s \in Switches \ Q : f[s] = 0
      BY <2>5, <3>2
    <3>7. SumOn(f, Switches) = SumOn(f, Q)
      BY <2>4, <3>1, <3>5, <3>6, SumOnPart
    <3>8. \A s \in Q : f[s] \in Nat
      BY <2>4, <3>5
    <3>9. \A s \in Q : f[s] = e[s]
      BY <2>4, <3>2, <3>3
    <3>10. SumOn(f, Q) = SumOn(e, Q)
      BY <3>1, <3>8, <3>9, SumOnSame
    <3> QED BY <3>7, <3>10 DEF f, e
  <2>8. /\ SumOn(Figure(Live, Switches, "used"), Switches) = SumOn(Figure(Live, Q, "used"), Q)
        /\ SumOn(Figure(Live, Switches, "total"), Switches) = SumOn(Figure(Live, Q, "total"), Q)
    BY <2>7
  <2> QED BY <2>1, <2>3, <2>6, <2>8
<1> QED BY <1>1, ReportsInv, PTL

-----------------------------------------------------------------------------
(* What the trend and the version checks tell. *)

\* If no figure of b is above that of a by more than 10, their sums differ by no more
\* than 10 for each.
LEMMA SumOnNear ==
    ASSUME NEW S, IsFiniteSet(S), NEW a, NEW b,
           \A x \in S : a[x] \in Nat /\ b[x] \in Nat /\ b[x] <= a[x] + 10
    PROVE  /\ SumOn(b, S) <= SumOn(a, S) + 10 * Cardinality(S)
           /\ SumOn(a, S) \in Nat /\ SumOn(b, S) \in Nat
<1> DEFINE G == {T \in SUBSET S : SumOn(b, T) <= SumOn(a, T) + 10 * Cardinality(T)}
<1>1. {} \in G
  BY SumOnNone, FS_EmptySet
<1>2. ASSUME NEW T \in SUBSET S, NEW x \in S \ T, T \in G
      PROVE  T \cup {x} \in G
  <2>1. /\ SumOn(a, T \cup {x}) = a[x] + SumOn(a, T) /\ SumOn(a, T) \in Nat
        /\ SumOn(b, T \cup {x}) = b[x] + SumOn(b, T) /\ SumOn(b, T) \in Nat
    BY SumOnStep
  <2>2. Cardinality(T \cup {x}) = Cardinality(T) + 1 /\ Cardinality(T) \in Nat
    <3>1. IsFiniteSet(T)
      BY FS_Subset
    <3> QED BY <3>1, FS_AddElement, FS_CardinalityType
  <2>3. SumOn(b, T) <= SumOn(a, T) + 10 * Cardinality(T)
    BY <1>2
  <2>4. b[x] <= a[x] + 10 /\ a[x] \in Nat /\ b[x] \in Nat /\ T \cup {x} \in SUBSET S
    OBVIOUS
  <2>5. SumOn(b, T \cup {x}) <= SumOn(a, T \cup {x}) + 10 * Cardinality(T \cup {x})
    BY <2>1, <2>2, <2>3, <2>4
  <2> QED BY <2>4, <2>5
<1>3. S \in G
  <2> HIDE DEF G
  <2> QED BY <1>1, <1>2, FinInduct
<1> QED BY <1>3, SumOnAdd

\* A run of a sequence, and its sum.
LEMMA RunIs ==
    ASSUME NEW occ \in Seq(Nat), NEW m \in Nat, NEW k \in Nat, m + k <= Len(occ)
    PROVE  /\ DOMAIN SubSeq(occ, m + 1, m + k) = 1 .. k
           /\ \A x \in 1 .. k : /\ SubSeq(occ, m + 1, m + k)[x] = occ[m + x]
                                /\ occ[m + x] \in Nat
           /\ SumFunction(SubSeq(occ, m + 1, m + k)) = SumOn(SubSeq(occ, m + 1, m + k), 1 .. k)
<1>1. /\ Len(SubSeq(occ, m + 1, m + k)) = k
      /\ SubSeq(occ, m + 1, m + k) \in Seq(Nat)
  OBVIOUS
<1>2. DOMAIN SubSeq(occ, m + 1, m + k) = 1 .. k
  BY <1>1
<1>3. ASSUME NEW x \in 1 .. k
      PROVE  SubSeq(occ, m + 1, m + k)[x] = occ[m + x] /\ occ[m + x] \in Nat
  OBVIOUS
<1> QED BY <1>2, <1>3, SumFunctionIs

\* Two thirds no minute of which is above one of the other by more than a per cent
\* do not differ by more in their sums.
LEMMA ThirdsNear ==
    ASSUME NEW occ \in Seq(Nat), NEW k \in Nat, NEW m \in Nat, NEW n \in Nat,
           m + k <= Len(occ), n + k <= Len(occ),
           \A x, y \in 1 .. k : occ[n + y] <= occ[m + x] + 10
    PROVE  /\ SumFunction(SubSeq(occ, n + 1, n + k))
                  <= SumFunction(SubSeq(occ, m + 1, m + k)) + 10 * k
           /\ SumFunction(SubSeq(occ, n + 1, n + k)) \in Nat
           /\ SumFunction(SubSeq(occ, m + 1, m + k)) \in Nat
<1> DEFINE a == SubSeq(occ, m + 1, m + k)
           b == SubSeq(occ, n + 1, n + k)
<1>1. IsFiniteSet(1 .. k) /\ Cardinality(1 .. k) = k
  BY FS_Interval
<1>2. /\ \A x \in 1 .. k : a[x] = occ[m + x] /\ occ[m + x] \in Nat
      /\ SumFunction(a) = SumOn(a, 1 .. k)
  BY RunIs
<1>3. /\ \A x \in 1 .. k : b[x] = occ[n + x] /\ occ[n + x] \in Nat
      /\ SumFunction(b) = SumOn(b, 1 .. k)
  BY RunIs
<1> HIDE DEF a, b
<1>4. \A x \in 1 .. k : a[x] \in Nat /\ b[x] \in Nat /\ b[x] <= a[x] + 10
  BY <1>2, <1>3
<1>5. /\ SumOn(b, 1 .. k) <= SumOn(a, 1 .. k) + 10 * Cardinality(1 .. k)
      /\ SumOn(a, 1 .. k) \in Nat /\ SumOn(b, 1 .. k) \in Nat
  BY <1>1, <1>4, SumOnNear
<1> QED BY <1>1, <1>2, <1>3, <1>5 DEF a, b

\* "No made-up forecast" (reports.py:5): whatever the history, a trend is told of four minutes
\* or more, and one up or down only if some minute of the last third is above, or below, some
\* minute of the first by more than a per cent.
THEOREM TrendEarned ==
    ASSUME NEW occ \in Seq(Nat)
    PROVE  LET k     == Len(occ) \div 3
               first == 1 .. k
               last  == Len(occ) - k + 1 .. Len(occ)
           IN  /\ trend(occ) = "insufficient" <=> Len(occ) < 4
               /\ trend(occ) = "rising" => \E i \in first, j \in last : occ[j] > occ[i] + 10
               /\ trend(occ) = "falling" => \E i \in first, j \in last : occ[i] > occ[j] + 10
<1> DEFINE k == Len(occ) \div 3
           n == Len(occ) - k
           first == 1 .. k
           last  == Len(occ) - k + 1 .. Len(occ)
           a == SumFunction(SubSeq(occ, 1, k))
           b == SumFunction(SubSeq(occ, n + 1, Len(occ)))
<1>1. /\ Len(occ) \in Nat /\ k \in Nat /\ n \in Nat /\ k <= Len(occ) /\ n + k = Len(occ)
      /\ (Len(occ) >= 4 => k >= 1)
  OBVIOUS
<1>2. /\ trend(occ) = "insufficient" <=> Len(occ) < 4
      /\ trend(occ) = "rising" => 2 * (b - a) > 21 * k
      /\ trend(occ) = "falling" => -2 * (b - a) > 21 * k
  BY DEF trend
<1> HIDE DEF k, n
<1>3. ASSUME \A i \in first, j \in last : occ[j] <= occ[i] + 10
      PROVE  b <= a + 10 * k /\ a \in Nat /\ b \in Nat
  <2>1. \A x, y \in 1 .. k : occ[n + y] <= occ[0 + x] + 10
    <3> TAKE x, y \in 1 .. k
    <3>1. x \in first /\ n + y \in last /\ 0 + x = x
      BY <1>1 DEF n
    <3> QED BY <1>3, <3>1
  <2>2. /\ SumFunction(SubSeq(occ, n + 1, n + k)) <= SumFunction(SubSeq(occ, 0 + 1, 0 + k)) + 10 * k
        /\ SumFunction(SubSeq(occ, n + 1, n + k)) \in Nat
        /\ SumFunction(SubSeq(occ, 0 + 1, 0 + k)) \in Nat
    <3>1. 0 + k <= Len(occ) /\ n + k <= Len(occ) /\ 0 \in Nat
      BY <1>1
    <3> QED BY <1>1, <2>1, <3>1, ThirdsNear
  <2>3. 0 + 1 = 1 /\ 0 + k = k /\ n + k = Len(occ)
    BY <1>1
  <2> QED BY <2>2, <2>3
<1>4. ASSUME \A i \in first, j \in last : occ[i] <= occ[j] + 10
      PROVE  a <= b + 10 * k /\ a \in Nat /\ b \in Nat
  <2>1. \A x, y \in 1 .. k : occ[0 + y] <= occ[n + x] + 10
    <3> TAKE x, y \in 1 .. k
    <3>1. y \in first /\ n + x \in last /\ 0 + y = y
      BY <1>1 DEF n
    <3> QED BY <1>4, <3>1
  <2>2. /\ SumFunction(SubSeq(occ, 0 + 1, 0 + k)) <= SumFunction(SubSeq(occ, n + 1, n + k)) + 10 * k
        /\ SumFunction(SubSeq(occ, n + 1, n + k)) \in Nat
        /\ SumFunction(SubSeq(occ, 0 + 1, 0 + k)) \in Nat
    <3>1. 0 + k <= Len(occ) /\ n + k <= Len(occ) /\ 0 \in Nat
      BY <1>1
    <3> QED BY <1>1, <2>1, <3>1, ThirdsNear
  <2>3. 0 + 1 = 1 /\ 0 + k = k /\ n + k = Len(occ)
    BY <1>1
  <2> QED BY <2>2, <2>3
<1>5. \A i \in first, j \in last : occ[i] \in Nat /\ occ[j] \in Nat
  BY <1>1
<1> HIDE DEF a, b
<1>6. trend(occ) = "rising" => \E i \in first, j \in last : occ[j] > occ[i] + 10
  <2> SUFFICES ASSUME trend(occ) = "rising",
                      ~ \E i \in first, j \in last : occ[j] > occ[i] + 10
               PROVE  FALSE
    OBVIOUS
  <2>1. \A i \in first, j \in last : occ[j] <= occ[i] + 10
    BY <1>5
  <2>2. b <= a + 10 * k /\ a \in Nat /\ b \in Nat
    BY <1>3, <2>1
  <2> QED BY <1>1, <1>2, <2>2
<1>7. trend(occ) = "falling" => \E i \in first, j \in last : occ[i] > occ[j] + 10
  <2> SUFFICES ASSUME trend(occ) = "falling",
                      ~ \E i \in first, j \in last : occ[i] > occ[j] + 10
               PROVE  FALSE
    OBVIOUS
  <2>1. \A i \in first, j \in last : occ[i] <= occ[j] + 10
    BY <1>5
  <2>2. a <= b + 10 * k /\ a \in Nat /\ b \in Nat
    BY <1>4, <2>1
  <2> QED BY <1>1, <1>2, <2>2
<1> QED BY <1>2, <1>6, <1>7 DEF k


Text == Seq(Part)

LEMMA SemverIs ==
    ASSUME NEW v \in Text
    PROVE  \E x, y, z \in Nat : parse_semver(v) = <<x, y, z>>
<1>1. CASE Len(v) >= 3 /\ IsDigit(v[1]) /\ IsDigit(v[2]) /\ v[3].number # NULL
  <2>1. v[1] \in Part /\ v[2] \in Part /\ v[3] \in Part
    BY <1>1 DEF Text
  <2>2. v[1].number \in Nat /\ v[2].number \in Nat /\ v[3].number \in Nat
    BY <1>1, <2>1 DEF Part, IsDigit
  <2> QED BY <1>1, <2>2 DEF parse_semver
<1>2. CASE ~(Len(v) >= 3 /\ IsDigit(v[1]) /\ IsDigit(v[2]) /\ v[3].number # NULL)
  BY <1>2 DEF parse_semver
<1> QED BY <1>1, <1>2

\* The order of tuples, written out.
LEMMA NewerIs ==
    ASSUME NEW v \in Text, NEW w \in Text,
           NEW x \in Nat, NEW y \in Nat, NEW z \in Nat, parse_semver(v) = <<x, y, z>>,
           NEW p \in Nat, NEW q \in Nat, NEW r \in Nat, parse_semver(w) = <<p, q, r>>
    PROVE  is_newer(v, w) <=> x > p \/ (x = p /\ y > q) \/ (x = p /\ y = q /\ z > r)
<1> DEFINE l == <<x, y, z>>
           c == <<p, q, r>>
           At(i) == l[i] > c[i] /\ \A j \in 1 .. i - 1 : l[j] = c[j]
<1>1. is_newer(v, w) <=> \E i \in 1 .. 3 : At(i)
  BY DEF is_newer
<1>2. At(1) <=> x > p
  OBVIOUS
<1>3. At(2) <=> x = p /\ y > q
  OBVIOUS
<1>4. At(3) <=> x = p /\ y = q /\ z > r
  OBVIOUS
<1> HIDE DEF At
<1>5. (\E i \in 1 .. 3 : At(i)) <=> At(1) \/ At(2) \/ At(3)
  <2>1. 1 .. 3 = {1, 2, 3}
    OBVIOUS
  <2> QED BY <2>1
<1> QED BY <1>1, <1>2, <1>3, <1>4, <1>5

\* Newer is a strict order of what tags can be read as: nothing is newer than itself, newer than
\* newer is newer, and of two that differ one is (is_newer, version.py).
THEOREM NewerIsAnOrder ==
    \A a, b, c \in Text :
        /\ ~is_newer(a, a)
        /\ is_newer(a, b) /\ is_newer(b, c) => is_newer(a, c)
        /\ parse_semver(a) # parse_semver(b) => is_newer(a, b) \/ is_newer(b, a)
<1> TAKE a, b, c \in Text
<1>1. PICK x, y, z \in Nat : parse_semver(a) = <<x, y, z>>
  BY SemverIs
<1>2. PICK p, q, r \in Nat : parse_semver(b) = <<p, q, r>>
  BY SemverIs
<1>3. PICK u, v, w \in Nat : parse_semver(c) = <<u, v, w>>
  BY SemverIs
<1>4. ~is_newer(a, a)
  BY <1>1, NewerIs
<1>5. is_newer(a, b) <=> x > p \/ (x = p /\ y > q) \/ (x = p /\ y = q /\ z > r)
  BY <1>1, <1>2, NewerIs
<1>6. is_newer(b, c) <=> p > u \/ (p = u /\ q > v) \/ (p = u /\ q = v /\ r > w)
  BY <1>2, <1>3, NewerIs
<1>7. is_newer(a, c) <=> x > u \/ (x = u /\ y > v) \/ (x = u /\ y = v /\ z > w)
  BY <1>1, <1>3, NewerIs
<1>8. is_newer(b, a) <=> p > x \/ (p = x /\ q > y) \/ (p = x /\ q = y /\ r > z)
  BY <1>1, <1>2, NewerIs
<1>9. is_newer(a, b) /\ is_newer(b, c) => is_newer(a, c)
  BY <1>5, <1>6, <1>7
<1>10. parse_semver(a) # parse_semver(b) => is_newer(a, b) \/ is_newer(b, a)
  BY <1>1, <1>2, <1>5, <1>8
<1> QED BY <1>4, <1>9, <1>10

\* An update is offered for a tag that can be read and is above the version that runs, never
\* after an error, and never when the running one is newer (check_latest, version.py).
THEOREM UpdateIsNewer ==
    \A answer : \A tag, current \in Text :
        check_latest(answer, tag, current).update_available =>
            /\ ~check_latest(answer, tag, current).error
            /\ check_latest(answer, tag, current).latest = tag
            /\ parse_semver(tag) # <<0, 0, 0>>
            /\ ~is_newer(current, tag)
<1> SUFFICES ASSUME NEW answer, NEW tag \in Text, NEW current \in Text,
                    check_latest(answer, tag, current).update_available
             PROVE  /\ ~check_latest(answer, tag, current).error
                    /\ check_latest(answer, tag, current).latest = tag
                    /\ parse_semver(tag) # <<0, 0, 0>>
                    /\ ~is_newer(current, tag)
  OBVIOUS
<1>1. answer = "tag" /\ is_newer(tag, current)
  BY DEF check_latest
<1>2. PICK x, y, z \in Nat : parse_semver(tag) = <<x, y, z>>
  BY SemverIs
<1>3. PICK p, q, r \in Nat : parse_semver(current) = <<p, q, r>>
  BY SemverIs
<1>4. x > p \/ (x = p /\ y > q) \/ (x = p /\ y = q /\ z > r)
  BY <1>1, <1>2, <1>3, NewerIs
<1>5. <<x, y, z>> # <<0, 0, 0>>
  BY <1>4
<1>6. ~is_newer(current, tag)
  <2>1. is_newer(current, tag) <=> p > x \/ (p = x /\ q > y) \/ (p = x /\ q = y /\ r > z)
    BY <1>2, <1>3, NewerIs
  <2> QED BY <1>4, <2>1
<1> QED BY <1>1, <1>2, <1>5, <1>6 DEF check_latest

\* Firmware only ages: a version whose date is known goes from supported through a warning to out
\* of support as the days pass, never back, and one that is not stays unknown (firmware.py).
THEOREM FirmwareAgesOnly ==
    \A version : \A today, later \in Int : today <= later =>
        /\ classify(version, today) = "unknown" <=> _major(version) \notin DOMAIN EOL_TABLE
        /\ classify(version, today) = "unknown" <=> classify(version, later) = "unknown"
        /\ classify(version, today) = "eol" => classify(version, later) = "eol"
        /\ classify(version, today) = "eol_soon" =>
               classify(version, later) \in {"eol_soon", "eol"}
<1> TAKE version
<1> TAKE today, later \in Int
<1> HAVE today <= later
<1> DEFINE e == EOL_TABLE[_major(version)]
<1>1. CASE _major(version) \notin DOMAIN EOL_TABLE
  BY <1>1 DEF classify
<1>2. CASE _major(version) \in DOMAIN EOL_TABLE
  <2>1. e \in Int
    BY <1>2, VersionsAssumption
  <2>2. ASSUME NEW day \in Int
        PROVE  classify(version, day) = IF e - day < 0 THEN "eol"
                                        ELSE IF e - day \in 0 .. 180 THEN "eol_soon"
                                        ELSE "supported"
    BY <1>2, <2>1 DEF classify
  <2> HIDE DEF e
  <2> QED BY <1>2, <2>1, <2>2
<1> QED BY <1>1, <1>2


\* A sum of ones counts.
LEMMA SumOnOnes ==
    ASSUME NEW S, IsFiniteSet(S), NEW f, \A x \in S : f[x] = 1
    PROVE  SumOn(f, S) = Cardinality(S)
<1> DEFINE G == {T \in SUBSET S : SumOn(f, T) = Cardinality(T)}
<1>1. {} \in G
  BY SumOnNone, FS_EmptySet
<1>2. ASSUME NEW T \in SUBSET S, NEW x \in S \ T, T \in G
      PROVE  T \cup {x} \in G
  <2>1. SumOn(f, T \cup {x}) = 1 + SumOn(f, T)
    <3>1. \A y \in S : f[y] \in Nat
      OBVIOUS
    <3>2. SumOn(f, T \cup {x}) = f[x] + SumOn(f, T)
      BY <3>1, SumOnStep
    <3> QED BY <3>2
  <2>2. Cardinality(T \cup {x}) = Cardinality(T) + 1 /\ Cardinality(T) \in Nat
    <3>1. IsFiniteSet(T)
      BY FS_Subset
    <3> QED BY <3>1, FS_AddElement, FS_CardinalityType
  <2> QED BY <1>2, <2>1, <2>2
<1> HIDE DEF G
<1>3. S \in G
  BY <1>1, <1>2, FinInduct
<1> QED BY <1>3 DEF G

\* However switches are grouped, the groups have them all once.
LEMMA CountsAddUp ==
    ASSUME NEW S, IsFiniteSet(S), NEW k, NEW n, DOMAIN n = Keys(k, S),
           \A d \in Keys(k, S) : n[d] = Cardinality(Group(k, S, d))
    PROVE  SumFunction(n) = Cardinality(S)
<1> DEFINE f == [s \in S |-> 1]
           D == Keys(k, S)
<1>1. \A s \in S : f[s] = 1 /\ f[s] \in Nat
  OBVIOUS
<1>2. D = Keys(k, S)
  OBVIOUS
<1> HIDE DEF f, D
<1>3. ASSUME NEW d \in D
      PROVE  n[d] = SumOn(f, Group(k, S, d))
  <2>1. Group(k, S, d) \in SUBSET S
    BY DEF Group
  <2>2. IsFiniteSet(Group(k, S, d)) /\ \A s \in Group(k, S, d) : f[s] = 1
    BY <1>1, <2>1, FS_Subset
  <2>3. SumOn(f, Group(k, S, d)) = Cardinality(Group(k, S, d))
    BY <2>2, SumOnOnes
  <2> QED BY <1>2, <2>3
<1>4. SumOn(f, S) = SumOn(n, D)
  <2>1. \A s \in S : f[s] \in Nat
    BY <1>1
  <2>2. \A d \in D : n[d] = SumOn(f, Group(k, S, d))
    BY <1>3
  <2> QED BY <1>2, <2>1, <2>2, SumOnGrouped
<1>5. SumFunction(n) = SumOn(n, D)
  BY <1>2, SumFunctionIs
<1> QED BY <1>1, <1>4, <1>5, SumOnOnes

\* The inventory counts every switch once, by version and by status (firmware.py).
THEOREM InventoryCountsOnce ==
    ASSUME NEW S, IsFiniteSet(S), NEW fos, DOMAIN fos = S, NEW today
    PROVE  /\ SumFunction(inventory(fos, today).by_version) = Cardinality(S)
           /\ SumFunction(inventory(fos, today).status_counts) = Cardinality(S)
<1> DEFINE k == [s \in S |-> classify(fos[s], today)]
           n == inventory(fos, today).by_version
           m == inventory(fos, today).status_counts
<1>1. /\ DOMAIN n = Keys(fos, S)
      /\ \A d \in Keys(fos, S) : n[d] = Cardinality(Group(fos, S, d))
  BY DEF inventory, Keys, Group
<1>2. \A s \in S : k[s] = classify(fos[s], today)
  OBVIOUS
<1>3. m = [x \in {classify(fos[s], today) : s \in S} |->
               Cardinality({s \in S : classify(fos[s], today) = x})]
  BY DEF inventory
<1> HIDE DEF k, n, m
<1>4. DOMAIN m = Keys(k, S)
  BY <1>2, <1>3 DEF Keys
<1>5. ASSUME NEW d \in Keys(k, S)
      PROVE  m[d] = Cardinality(Group(k, S, d))
  <2>1. {s \in S : classify(fos[s], today) = d} = Group(k, S, d)
    BY <1>2 DEF Group
  <2>2. d \in {classify(fos[s], today) : s \in S}
    BY <1>2 DEF Keys
  <2> QED BY <1>3, <2>1, <2>2
<1>6. SumFunction(n) = Cardinality(S)
  BY <1>1, CountsAddUp
<1>7. SumFunction(m) = Cardinality(S)
  BY <1>4, <1>5, CountsAddUp
<1> QED BY <1>6, <1>7 DEF n, m
=============================================================================
