----------------------------- MODULE Sums_proofs -----------------------------
(***************************************************************************)
(* Finite sums, as the books of the contracts are stated with them: what   *)
(* SumFunctionOnSet of the community modules computes over a finite set.   *)
(*                                                                         *)
(* The operator is defined by recursion over the subsets of its argument;  *)
(* the lemmas are obtained by induction on finite sets in the form of a    *)
(* set of subsets closed under adding an element (SetInduction).           *)
(***************************************************************************)
EXTENDS Integers, FiniteSetTheorems, TLAPS

(* Induction on the subsets of a finite set, with the induction predicate  *)
(* given as the set `Good' of the subsets that satisfy it.                 *)
LEMMA SetInduction ==
    ASSUME NEW S, IsFiniteSet(S), NEW Good,
           \A T \in SUBSET S : (\A x \in T : T \ {x} \in Good) => T \in Good
    PROVE  \A T \in SUBSET S : T \in Good
<1> DEFINE Bad == {T \in SUBSET S : T \notin Good}
<1>1. SUFFICES ASSUME Bad # {} PROVE FALSE
  OBVIOUS
<1>2. /\ IsWellFoundedOn(StrictSubsetOrdering(S), FiniteSubsetsOf(S))
      /\ FiniteSubsetsOf(S) = SUBSET S
  BY FS_StrictSubsetOrderingWellFounded, FS_FiniteSubsetsOfFinite
<1>3. Bad \subseteq FiniteSubsetsOf(S)
  BY <1>2
<1> HIDE DEF Bad
<1>4. PICK T \in Bad :
          \A U \in Bad : ~(<<U, T>> \in StrictSubsetOrdering(S))
  BY <1>1, <1>2, <1>3, WFMin
<1>5. T \in SUBSET S /\ T \notin Good
  BY <1>4 DEF Bad
<1>6. ASSUME NEW x \in T PROVE T \ {x} \in Good
  <2>1. <<T \ {x}, T>> \in StrictSubsetOrdering(S)
    BY <1>5, <1>6 DEF StrictSubsetOrdering
  <2>2. T \ {x} \notin Bad
    BY <1>4, <2>1
  <2> QED  BY <1>5, <2>2 DEF Bad
<1> QED  BY <1>5, <1>6

----------------------------------------------------------------------------
(* h solves the recursion of SumFunctionOnSet on the subsets of S.         *)
Solves(h, f, S) ==
    h = [T \in SUBSET S |->
            IF T = {} THEN 0
            ELSE f[CHOOSE x \in T : TRUE]
                     + h[T \ {CHOOSE x \in T : TRUE}]]

(* SumFunctionOnSet takes a solution of the recursion, if there is one.    *)
LEMMA SumUnfold ==
    ASSUME NEW f, NEW S
    PROVE  SumFunctionOnSet(f, S) = (CHOOSE h : Solves(h, f, S))[S]
BY DEF SumFunctionOnSet, FoldFunctionOnSet, MapThenFoldSet, Solves

(* Any two solutions agree on the finite sets they are both about.         *)
LEMMA SolutionsAgree ==
    ASSUME NEW f, NEW S, IsFiniteSet(S),
           NEW A, S \subseteq A, NEW g, Solves(g, f, A),
           NEW B, S \subseteq B, NEW h, Solves(h, f, B)
    PROVE  g[S] = h[S]
<1> DEFINE Good == {T \in SUBSET S : g[T] = h[T]}
<1>1. ASSUME NEW T \in SUBSET S, \A x \in T : T \ {x} \in Good
      PROVE  T \in Good
  <2>1. /\ g[T] = IF T = {} THEN 0
                  ELSE f[CHOOSE x \in T : TRUE]
                           + g[T \ {CHOOSE x \in T : TRUE}]
        /\ h[T] = IF T = {} THEN 0
                  ELSE f[CHOOSE x \in T : TRUE]
                           + h[T \ {CHOOSE x \in T : TRUE}]
    <3>1. T \in SUBSET A /\ T \in SUBSET B
      OBVIOUS
    <3> QED  BY <3>1 DEF Solves
  <2>2. CASE T = {}
    BY <2>1, <2>2
  <2>3. CASE T # {}
    <3>1. (CHOOSE x \in T : TRUE) \in T
      BY <2>3
    <3>2. T \ {CHOOSE x \in T : TRUE} \in Good
      BY <1>1, <3>1
    <3> QED  BY <2>1, <2>3, <3>2
  <2> QED  BY <2>2, <2>3
<1> HIDE DEF Good
<1>2. \A T \in SUBSET S : (\A x \in T : T \ {x} \in Good) => T \in Good
  BY <1>1
<1>3. \A T \in SUBSET S : T \in Good
  BY <1>2, SetInduction
<1> QED  BY <1>3 DEF Good

(* A finite set has a solution.                                            *)
LEMMA SolutionExists ==
    ASSUME NEW f, NEW S, IsFiniteSet(S)
    PROVE  \E h : Solves(h, f, S)
<1> DEFINE Good == {T \in SUBSET S : \E h : Solves(h, f, T)}
           c(T) == CHOOSE x \in T : TRUE
           Sol(T) == CHOOSE h : Solves(h, f, T)
<1>1. ASSUME NEW T \in SUBSET S, \A x \in T : T \ {x} \in Good
      PROVE  T \in Good
  <2>1. ASSUME NEW U \in SUBSET T, U # T
        PROVE  Solves(Sol(U), f, U)
    <3>1. PICK x \in T : x \notin U
      BY <2>1
    <3>2. PICK h : Solves(h, f, T \ {x})
      BY <1>1
    <3>3. Solves([V \in SUBSET U |-> h[V]], f, U)
      <4>1. \A V \in SUBSET U : V \in SUBSET (T \ {x})
        BY <3>1
      <4> QED  BY <3>2, <4>1 DEF Solves
    <3> QED  BY <3>3
  <2> DEFINE h == [U \in SUBSET T |->
                      IF U = {} THEN 0
                      ELSE f[c(U)] + Sol(U \ {c(U)})[U \ {c(U)}]]
  <2>2. ASSUME NEW U \in SUBSET T, U # T
        PROVE  h[U] = Sol(U)[U]
    <3>1. Sol(U)[U] = IF U = {} THEN 0
                      ELSE f[c(U)] + Sol(U)[U \ {c(U)}]
      <4>1. U \in SUBSET U
        OBVIOUS
      <4> HIDE DEF Sol
      <4> QED  BY <2>1, <2>2, <4>1 DEF Solves
    <3>2. CASE U = {}
      BY <3>1, <3>2
    <3>3. CASE U # {}
      <4>1. c(U) \in U
        BY <3>3
      <4> DEFINE V == U \ {c(U)}
      <4>2. V \in SUBSET T /\ V # T /\ V \subseteq U /\ IsFiniteSet(V)
        BY <4>1, FS_Subset
      <4>3. Sol(U)[V] = Sol(V)[V]
        <5>1. Solves(Sol(U), f, U) /\ Solves(Sol(V), f, V)
          BY <2>1, <2>2, <4>2
        <5> HIDE DEF Sol, V
        <5> QED  BY <4>2, <5>1, SolutionsAgree
      <4> QED  BY <3>1, <3>3, <4>3
    <3> QED  BY <3>2, <3>3
  <2>3. Solves(h, f, T)
    <3>1. ASSUME NEW U \in SUBSET T, U # {}
          PROVE  h[U \ {c(U)}] = Sol(U \ {c(U)})[U \ {c(U)}]
      <4>1. c(U) \in U
        BY <3>1
      <4>2. U \ {c(U)} \in SUBSET T /\ U \ {c(U)} # T
        BY <4>1
      <4> HIDE DEF h, Sol, c
      <4> QED  BY <4>2, <2>2
    <3>2. ASSUME NEW U \in SUBSET T
          PROVE  h[U] = IF U = {} THEN 0
                        ELSE f[c(U)] + h[U \ {c(U)}]
      <4>1. CASE U = {}
        BY <4>1
      <4>2. CASE U # {}
        <5>1. h[U] = f[c(U)] + Sol(U \ {c(U)})[U \ {c(U)}]
          BY <4>2
        <5> HIDE DEF h, Sol, c
        <5> QED  BY <3>1, <4>2, <5>1
      <4> QED  BY <4>1, <4>2
    <3>3. h = [U \in SUBSET T |-> IF U = {} THEN 0
                                  ELSE f[c(U)] + h[U \ {c(U)}]]
      <4>1. h = [U \in SUBSET T |-> h[U]]
        OBVIOUS
      <4> HIDE DEF h
      <4> QED  BY <3>2, <4>1
    <3> QED  BY <3>3 DEF Solves
  <2> QED  BY <2>3
<1> HIDE DEF Good
<1>2. \A T \in SUBSET S : (\A x \in T : T \ {x} \in Good) => T \in Good
  BY <1>1
<1>3. \A T \in SUBSET S : T \in Good
  BY <1>2, SetInduction
<1> QED  BY <1>3 DEF Good

(* A solution of the recursion exists, so the sum obeys it.                *)
LEMMA SumRecursion ==
    ASSUME NEW f, NEW S, IsFiniteSet(S)
    PROVE  SumFunctionOnSet(f, S) =
               IF S = {} THEN 0
               ELSE f[CHOOSE x \in S : TRUE]
                   + SumFunctionOnSet(f, S \ {CHOOSE x \in S : TRUE})
<1> DEFINE Sol(T) == CHOOSE h : Solves(h, f, T)
           V == S \ {CHOOSE x \in S : TRUE}
<1>1. Solves(Sol(S), f, S)
  BY SolutionExists
<1>2. IsFiniteSet(V)
  BY FS_Subset, V \subseteq S
<1>3. Solves(Sol(V), f, V)
  BY <1>2, SolutionExists
<1>4. /\ SumFunctionOnSet(f, S) = Sol(S)[S]
      /\ SumFunctionOnSet(f, V) = Sol(V)[V]
  BY SumUnfold
<1>5. Sol(S)[S] = IF S = {} THEN 0
                  ELSE f[CHOOSE x \in S : TRUE] + Sol(S)[V]
  <2> HIDE DEF Sol
  <2> QED  BY <1>1, S \in SUBSET S DEF Solves
<1>6. Sol(S)[V] = Sol(V)[V]
  <2> DEFINE g == Sol(S)
             h == Sol(V)
  <2>1. /\ Solves(g, f, S) /\ IsFiniteSet(V) /\ Solves(h, f, V)
        /\ V \subseteq S /\ V \subseteq V
    BY <1>1, <1>2, <1>3
  <2> HIDE DEF g, h, V
  <2>2. g[V] = h[V]
    BY <2>1, SolutionsAgree
  <2> QED  BY <2>2 DEF g, h
<1> QED  BY <1>4, <1>5, <1>6

(* Nothing adds up to zero. *)
LEMMA SumEmpty ==
    ASSUME NEW f
    PROVE  SumFunctionOnSet(f, {}) = 0
<1>1. IsFiniteSet({})
  BY FS_EmptySet
<1>2. SumFunctionOnSet(f, {}) =
          IF {} = {} THEN 0
          ELSE f[CHOOSE x \in {} : TRUE]
              + SumFunctionOnSet(f, {} \ {CHOOSE x \in {} : TRUE})
  BY <1>1, SumRecursion
<1> QED  BY <1>2

(* The sum of integers is an integer. *)
LEMMA SumType ==
    ASSUME NEW f, NEW S, IsFiniteSet(S), \A x \in S : f[x] \in Int
    PROVE  SumFunctionOnSet(f, S) \in Int
<1> DEFINE Good == {T \in SUBSET S : SumFunctionOnSet(f, T) \in Int}
<1>1. ASSUME NEW T \in SUBSET S, \A x \in T : T \ {x} \in Good
      PROVE  T \in Good
  <2>1. IsFiniteSet(T)
    BY FS_Subset
  <2>2. CASE T = {}
    BY <2>2, SumEmpty
  <2>3. CASE T # {}
    <3> DEFINE c == CHOOSE x \in T : TRUE
    <3>1. c \in T
      BY <2>3
    <3>2. SumFunctionOnSet(f, T) = f[c] + SumFunctionOnSet(f, T \ {c})
      BY <2>1, <2>3, SumRecursion
    <3> HIDE DEF c
    <3> QED  BY <1>1, <3>1, <3>2
  <2> QED  BY <2>2, <2>3
<1> HIDE DEF Good
<1>2. \A T \in SUBSET S : (\A x \in T : T \ {x} \in Good) => T \in Good
  BY <1>1
<1>3. \A T \in SUBSET S : T \in Good
  BY <1>2, SetInduction
<1> QED  BY <1>3 DEF Good

(* Any element may be taken out of a sum first: the order in which the     *)
(* recursion chooses the elements does not matter.                         *)
LEMMA SumRemove ==
    ASSUME NEW f, NEW S, IsFiniteSet(S), \A x \in S : f[x] \in Int,
           NEW y \in S
    PROVE  SumFunctionOnSet(f, S) = f[y] + SumFunctionOnSet(f, S \ {y})
<1> DEFINE Good == {T \in SUBSET S : \A x \in T :
               SumFunctionOnSet(f, T) = f[x] + SumFunctionOnSet(f, T \ {x})}
<1>1. ASSUME NEW T \in SUBSET S, \A x \in T : T \ {x} \in Good
      PROVE  T \in Good
  <2> SUFFICES ASSUME NEW x \in T
               PROVE  SumFunctionOnSet(f, T) =
                          f[x] + SumFunctionOnSet(f, T \ {x})
    OBVIOUS
  <2> DEFINE c == CHOOSE z \in T : TRUE
  <2>1. IsFiniteSet(T) /\ c \in T
    BY FS_Subset
  <2>2. SumFunctionOnSet(f, T) = f[c] + SumFunctionOnSet(f, T \ {c})
    BY <2>1, SumRecursion
  <2> HIDE DEF c
  <2>3. CASE x = c
    BY <2>2, <2>3
  <2>4. CASE x # c
    <3> DEFINE R == (T \ {c}) \ {x}
    <3>1. R = (T \ {x}) \ {c}
      OBVIOUS
    <3>2. SumFunctionOnSet(f, T \ {c}) = f[x] + SumFunctionOnSet(f, R)
      <4>1. T \ {c} \in Good /\ x \in T \ {c}
        BY <1>1, <2>1, <2>4
      <4> QED  BY <4>1
    <3>3. SumFunctionOnSet(f, T \ {x}) = f[c] + SumFunctionOnSet(f, R)
      <4>1. T \ {x} \in Good /\ c \in T \ {x}
        BY <1>1, <2>1, <2>4
      <4> QED  BY <3>1, <4>1
    <3>4. /\ f[x] \in Int /\ f[c] \in Int
          /\ SumFunctionOnSet(f, R) \in Int
      <4>1. R \subseteq S /\ IsFiniteSet(R)
        BY <2>1, FS_Subset, R \subseteq T
      <4> QED  BY <2>1, <4>1, SumType
    <3> HIDE DEF R
    <3> QED  BY <2>2, <3>2, <3>3, <3>4
  <2> QED  BY <2>3, <2>4
<1> HIDE DEF Good
<1>2. \A T \in SUBSET S : (\A x \in T : T \ {x} \in Good) => T \in Good
  BY <1>1
<1>3. \A T \in SUBSET S : T \in Good
  BY <1>2, SetInduction
<1> QED  BY <1>3 DEF Good

----------------------------------------------------------------------------
(* Terms that agree have the same sum. *)
LEMMA SumSame ==
    ASSUME NEW f, NEW g, NEW S, IsFiniteSet(S), \A x \in S : f[x] = g[x]
    PROVE  SumFunctionOnSet(f, S) = SumFunctionOnSet(g, S)
<1> DEFINE Good == {T \in SUBSET S :
               SumFunctionOnSet(f, T) = SumFunctionOnSet(g, T)}
<1>1. ASSUME NEW T \in SUBSET S, \A x \in T : T \ {x} \in Good
      PROVE  T \in Good
  <2>1. CASE T = {}
    BY <2>1, SumEmpty
  <2>2. CASE T # {}
    <3> DEFINE c == CHOOSE x \in T : TRUE
    <3>1. c \in T /\ IsFiniteSet(T)
      BY <2>2, FS_Subset
    <3>2. /\ SumFunctionOnSet(f, T) = f[c] + SumFunctionOnSet(f, T \ {c})
          /\ SumFunctionOnSet(g, T) = g[c] + SumFunctionOnSet(g, T \ {c})
      BY <2>2, <3>1, SumRecursion
    <3> HIDE DEF c
    <3> QED  BY <1>1, <3>1, <3>2
  <2> QED  BY <2>1, <2>2
<1> HIDE DEF Good
<1>2. \A T \in SUBSET S : (\A x \in T : T \ {x} \in Good) => T \in Good
  BY <1>1
<1>3. \A T \in SUBSET S : T \in Good
  BY <1>2, SetInduction
<1> QED  BY <1>3 DEF Good

(* When one term changes, the sum changes by the difference. *)
LEMMA SumUpdate ==
    ASSUME NEW f, NEW g, NEW S, IsFiniteSet(S),
           \A x \in S : f[x] \in Int /\ g[x] \in Int,
           NEW y \in S, \A x \in S : x # y => g[x] = f[x]
    PROVE  SumFunctionOnSet(g, S) = SumFunctionOnSet(f, S) + (g[y] - f[y])
<1> DEFINE R == S \ {y}
<1>1. IsFiniteSet(R)
  BY FS_Subset, R \subseteq S
<1>2. /\ SumFunctionOnSet(f, S) = f[y] + SumFunctionOnSet(f, R)
      /\ SumFunctionOnSet(g, S) = g[y] + SumFunctionOnSet(g, R)
  BY SumRemove
<1>3. SumFunctionOnSet(f, R) = SumFunctionOnSet(g, R)
  BY <1>1, SumSame
<1>4. SumFunctionOnSet(f, R) \in Int
  BY <1>1, SumType
<1> QED  BY <1>2, <1>3, <1>4

(* A sum of zeroes is zero. *)
LEMMA SumZero ==
    ASSUME NEW f, NEW S, IsFiniteSet(S), \A x \in S : f[x] = 0
    PROVE  SumFunctionOnSet(f, S) = 0
<1> DEFINE Good == {T \in SUBSET S : SumFunctionOnSet(f, T) = 0}
<1>1. ASSUME NEW T \in SUBSET S, \A x \in T : T \ {x} \in Good
      PROVE  T \in Good
  <2>1. CASE T = {}
    BY <2>1, SumEmpty
  <2>2. CASE T # {}
    <3> DEFINE c == CHOOSE x \in T : TRUE
    <3>1. c \in T /\ IsFiniteSet(T)
      BY <2>2, FS_Subset
    <3>2. SumFunctionOnSet(f, T) = f[c] + SumFunctionOnSet(f, T \ {c})
      BY <2>2, <3>1, SumRecursion
    <3> HIDE DEF c
    <3> QED  BY <1>1, <3>1, <3>2
  <2> QED  BY <2>1, <2>2
<1> HIDE DEF Good
<1>2. \A T \in SUBSET S : (\A x \in T : T \ {x} \in Good) => T \in Good
  BY <1>1
<1>3. \A T \in SUBSET S : T \in Good
  BY <1>2, SetInduction
<1> QED  BY <1>3 DEF Good

(* Larger terms have the larger sum. *)
LEMMA SumMonotone ==
    ASSUME NEW f, NEW g, NEW S, IsFiniteSet(S),
           \A x \in S : f[x] \in Int /\ g[x] \in Int /\ f[x] <= g[x]
    PROVE  SumFunctionOnSet(f, S) <= SumFunctionOnSet(g, S)
<1> DEFINE Good == {T \in SUBSET S :
               SumFunctionOnSet(f, T) <= SumFunctionOnSet(g, T)}
<1>1. ASSUME NEW T \in SUBSET S, \A x \in T : T \ {x} \in Good
      PROVE  T \in Good
  <2>1. CASE T = {}
    BY <2>1, SumEmpty
  <2>2. CASE T # {}
    <3> DEFINE c == CHOOSE x \in T : TRUE
               R == T \ {c}
    <3>1. c \in T /\ IsFiniteSet(T) /\ IsFiniteSet(R) /\ R \subseteq S
      BY <2>2, FS_Subset
    <3>2. /\ SumFunctionOnSet(f, T) = f[c] + SumFunctionOnSet(f, R)
          /\ SumFunctionOnSet(g, T) = g[c] + SumFunctionOnSet(g, R)
      BY <2>2, <3>1, SumRecursion
    <3>3. /\ SumFunctionOnSet(f, R) \in Int
          /\ SumFunctionOnSet(g, R) \in Int
          /\ f[c] \in Int /\ g[c] \in Int /\ f[c] <= g[c]
      BY <3>1, SumType
    <3>4. SumFunctionOnSet(f, R) <= SumFunctionOnSet(g, R)
      BY <1>1, <3>1
    <3> HIDE DEF c, R
    <3> QED  BY <3>2, <3>3, <3>4
  <2> QED  BY <2>1, <2>2
<1> HIDE DEF Good
<1>2. \A T \in SUBSET S : (\A x \in T : T \ {x} \in Good) => T \in Good
  BY <1>1
<1>3. \A T \in SUBSET S : T \in Good
  BY <1>2, SetInduction
<1> QED  BY <1>3 DEF Good

(* The sum of naturals is a natural, at least each of its terms.           *)
LEMMA SumBound ==
    ASSUME NEW f, NEW S, IsFiniteSet(S), \A x \in S : f[x] \in Nat
    PROVE  /\ SumFunctionOnSet(f, S) \in Nat
           /\ \A y \in S : f[y] <= SumFunctionOnSet(f, S)
<1>1. ASSUME NEW T \in SUBSET S PROVE SumFunctionOnSet(f, T) \in Nat
  <2> DEFINE z == [x \in S |-> 0]
  <2>1. IsFiniteSet(T)
    BY FS_Subset
  <2>2. \A x \in T : z[x] = 0 /\ f[x] \in Nat
    OBVIOUS
  <2> HIDE DEF z
  <2>3. SumFunctionOnSet(z, T) = 0
    BY <2>1, <2>2, SumZero
  <2>4. SumFunctionOnSet(z, T) <= SumFunctionOnSet(f, T)
    BY <2>1, <2>2, SumMonotone
  <2>5. SumFunctionOnSet(f, T) \in Int
    BY <2>1, <2>2, SumType
  <2> QED  BY <2>3, <2>4, <2>5
<1>2. ASSUME NEW y \in S PROVE f[y] <= SumFunctionOnSet(f, S)
  <2>1. SumFunctionOnSet(f, S) = f[y] + SumFunctionOnSet(f, S \ {y})
    BY SumRemove
  <2>2. SumFunctionOnSet(f, S \ {y}) \in Nat /\ f[y] \in Nat
    BY <1>1
  <2> QED  BY <2>1, <2>2
<1> QED  BY <1>1, <1>2

(* A sum of naturals over fewer elements is no larger. *)
LEMMA SumSubset ==
    ASSUME NEW f, NEW S, IsFiniteSet(S), \A x \in S : f[x] \in Nat,
           NEW T \in SUBSET S
    PROVE  SumFunctionOnSet(f, T) <= SumFunctionOnSet(f, S)
<1> DEFINE Good == {U \in SUBSET S :
               SumFunctionOnSet(f, T \cap U) <= SumFunctionOnSet(f, U)}
<1>1. ASSUME NEW U \in SUBSET S, \A x \in U : U \ {x} \in Good
      PROVE  U \in Good
  <2>1. CASE U = {}
    <3>1. T \cap U = {}
      BY <2>1
    <3> QED  BY <2>1, <3>1, SumEmpty
  <2>2. CASE U # {}
    <3>1. PICK x \in U : TRUE
      BY <2>2
    <3> DEFINE R == U \ {x}
               V == T \cap U
    <3>2. IsFiniteSet(U) /\ IsFiniteSet(R) /\ IsFiniteSet(V)
      BY FS_Subset, R \subseteq S, V \subseteq S
    <3>3. SumFunctionOnSet(f, T \cap R) <= SumFunctionOnSet(f, R)
      BY <1>1, <3>1
    <3>4. SumFunctionOnSet(f, U) = f[x] + SumFunctionOnSet(f, R)
      BY <3>1, <3>2, SumRemove
    <3>5. SumFunctionOnSet(f, V) =
              (IF x \in T THEN f[x] ELSE 0) + SumFunctionOnSet(f, T \cap R)
      <4>1. CASE x \in T
        <5>1. x \in V /\ V \ {x} = T \cap R
          BY <3>1, <4>1
        <5>2. SumFunctionOnSet(f, V) = f[x] + SumFunctionOnSet(f, V \ {x})
          BY <3>2, <5>1, SumRemove
        <5> QED  BY <4>1, <5>1, <5>2
      <4>2. CASE x \notin T
        <5>1. V = T \cap R
          BY <4>2
        <5>2. SumFunctionOnSet(f, V) \in Int
          BY <3>2, SumType
        <5> QED  BY <4>2, <5>1, <5>2
      <4> QED  BY <4>1, <4>2
    <3>6. /\ SumFunctionOnSet(f, R) \in Int
          /\ SumFunctionOnSet(f, T \cap R) \in Int
          /\ f[x] \in Nat
      BY <3>1, <3>2, SumType, FS_Subset, T \cap R \subseteq R
    <3> HIDE DEF R, V
    <3>7. SumFunctionOnSet(f, V) <= SumFunctionOnSet(f, U)
      BY <3>3, <3>4, <3>5, <3>6
    <3> QED  BY <3>7 DEF V
  <2> QED  BY <2>1, <2>2
<1> HIDE DEF Good
<1>2. \A U \in SUBSET S : (\A x \in U : U \ {x} \in Good) => U \in Good
  BY <1>1
<1>3. \A U \in SUBSET S : U \in Good
  BY <1>2, SetInduction
<1>4. T \cap S = T
  OBVIOUS
<1> QED  BY <1>3, <1>4 DEF Good

(* Terms that are zero, or are each covered by a term of their own in      *)
(* another sum, add up to no more than that sum.                           *)
LEMMA SumCovered ==
    ASSUME NEW f, NEW S, IsFiniteSet(S), \A x \in S : f[x] \in Nat,
           NEW g, NEW T, IsFiniteSet(T), \A y \in T : g[y] \in Nat,
           NEW e, \A x, z \in S : e[x] = e[z] => x = z,
           \A x \in S : f[x] = 0 \/ (e[x] \in T /\ f[x] <= g[e[x]])
    PROVE  SumFunctionOnSet(f, S) <= SumFunctionOnSet(g, T)
<1> DEFINE Im(U) == {y \in T : \E x \in U : y = e[x]}
           Good == {U \in SUBSET S :
               SumFunctionOnSet(f, U) <= SumFunctionOnSet(g, Im(U))}
<1>1. ASSUME NEW U \in SUBSET S, \A x \in U : U \ {x} \in Good
      PROVE  U \in Good
  <2>1. CASE U = {}
    <3>1. Im(U) = {}
      BY <2>1
    <3> QED  BY <2>1, <3>1, SumEmpty
  <2>2. CASE U # {}
    <3>1. PICK x \in U : TRUE
      BY <2>2
    <3> DEFINE R == U \ {x}
               K == Im(U)
               L == Im(R)
    <3>2. IsFiniteSet(U) /\ IsFiniteSet(R) /\ IsFiniteSet(K) /\ IsFiniteSet(L)
      BY FS_Subset, R \subseteq S, K \subseteq T, L \subseteq T
    <3>3. SumFunctionOnSet(f, R) <= SumFunctionOnSet(g, L)
      BY <1>1, <3>1
    <3>4. SumFunctionOnSet(f, U) = f[x] + SumFunctionOnSet(f, R)
      BY <3>1, <3>2, SumRemove
    <3>5. /\ SumFunctionOnSet(f, R) \in Int
          /\ SumFunctionOnSet(g, L) \in Int
          /\ SumFunctionOnSet(g, K) \in Int
          /\ f[x] \in Nat
      BY <3>1, <3>2, SumType
    <3>6. f[x] + SumFunctionOnSet(g, L) <= SumFunctionOnSet(g, K)
      <4>1. CASE f[x] = 0
        <5>1. L \in SUBSET K /\ \A y \in K : g[y] \in Nat
          OBVIOUS
        <5>2. SumFunctionOnSet(g, L) <= SumFunctionOnSet(g, K)
          BY <3>2, <5>1, SumSubset
        <5> HIDE DEF K, L
        <5> QED  BY <3>5, <4>1, <5>2
      <4>2. CASE e[x] \in T /\ f[x] <= g[e[x]]
        <5>1. e[x] \in K /\ \A y \in K : g[y] \in Int
          BY <3>1, <4>2
        <5>2. K \ {e[x]} = L
          BY <3>1, <4>2
        <5>3. SumFunctionOnSet(g, K) = g[e[x]] + SumFunctionOnSet(g, K \ {e[x]})
          BY <3>2, <5>1, SumRemove
        <5>4. g[e[x]] \in Nat /\ f[x] <= g[e[x]]
          BY <4>2
        <5>5. SumFunctionOnSet(g, K) = g[e[x]] + SumFunctionOnSet(g, L)
          BY <5>2, <5>3
        <5> HIDE DEF K, L
        <5> QED  BY <3>5, <5>4, <5>5
      <4> QED  BY <3>1, <4>1, <4>2
    <3> HIDE DEF R, K, L
    <3>7. SumFunctionOnSet(f, U) <= SumFunctionOnSet(g, K)
      BY <3>3, <3>4, <3>5, <3>6
    <3> QED  BY <3>7 DEF K
  <2> QED  BY <2>1, <2>2
<1>2. \A U \in SUBSET S : U \in Good
  <2> HIDE DEF Good
  <2>1. \A U \in SUBSET S : (\A x \in U : U \ {x} \in Good) => U \in Good
    BY <1>1
  <2> QED  BY <2>1, SetInduction
<1>3. /\ Im(S) \in SUBSET T
      /\ SumFunctionOnSet(f, S) <= SumFunctionOnSet(g, Im(S))
  BY <1>2
<1>4. SumFunctionOnSet(g, Im(S)) <= SumFunctionOnSet(g, T)
  <2> HIDE DEF Im
  <2> QED  BY <1>3, SumSubset
<1>5. /\ SumFunctionOnSet(f, S) \in Int
      /\ SumFunctionOnSet(g, T) \in Int
      /\ SumFunctionOnSet(g, Im(S)) \in Int
  BY <1>3, SumType, FS_Subset
<1> HIDE DEF Im
<1> QED  BY <1>3, <1>4, <1>5

(* A sum does not depend on the names of its addends. *)
LEMMA SumReindex ==
    ASSUME NEW f, NEW S, IsFiniteSet(S), \A x \in S : f[x] \in Int,
           NEW g, NEW T, NEW h,
           \A x \in S : g[h[x]] = f[x],
           \A x, y \in S : h[x] = h[y] => x = y,
           T = {h[x] : x \in S}
    PROVE  SumFunctionOnSet(g, T) = SumFunctionOnSet(f, S)
<1> DEFINE Image == [A \in SUBSET S |-> {h[x] : x \in A}]
           Good == {A \in SUBSET S :
               /\ IsFiniteSet(Image[A])
               /\ SumFunctionOnSet(g, Image[A]) = SumFunctionOnSet(f, A)}
<1>1. ASSUME NEW A \in SUBSET S, \A x \in A : A \ {x} \in Good
      PROVE  A \in Good
  <2>1. CASE A = {}
    <3>1. Image[A] = {}
      BY <2>1
    <3> HIDE DEF Image
    <3> QED  BY <2>1, <3>1, SumEmpty, FS_EmptySet
  <2>2. CASE A # {}
    <3>1. PICK c \in A : TRUE
      BY <2>2
    <3>2. /\ Image[A \ {c}] = Image[A] \ {h[c]} /\ h[c] \in Image[A]
          /\ Image[A] = Image[A \ {c}] \cup {h[c]}
      BY <3>1
    <3>3. IsFiniteSet(A)
      BY FS_Subset
    <3>5. \A y \in Image[A] : g[y] \in Int
      BY <3>1
    <3>6. g[h[c]] = f[c] /\ \A x \in A : f[x] \in Int
      BY <3>1
    <3>7. /\ SumFunctionOnSet(g, Image[A \ {c}]) = SumFunctionOnSet(f, A \ {c})
          /\ IsFiniteSet(Image[A \ {c}])
      BY <1>1, <3>1
    <3> HIDE DEF Image
    <3>4. IsFiniteSet(Image[A])
      BY <3>2, <3>7, FS_AddElement
    <3>8. SumFunctionOnSet(f, A) = f[c] + SumFunctionOnSet(f, A \ {c})
      BY <3>1, <3>3, <3>6, SumRemove
    <3>9. SumFunctionOnSet(g, Image[A])
              = g[h[c]] + SumFunctionOnSet(g, Image[A] \ {h[c]})
      BY <3>2, <3>4, <3>5, SumRemove
    <3> QED  BY <3>2, <3>4, <3>6, <3>7, <3>8, <3>9
  <2> QED  BY <2>1, <2>2
<1> HIDE DEF Good
<1>2. \A A \in SUBSET S : (\A x \in A : A \ {x} \in Good) => A \in Good
  BY <1>1
<1>3. \A A \in SUBSET S : A \in Good
  BY <1>2, SetInduction
<1> QED  BY <1>3 DEF Good

(* A sum of ones counts. *)
LEMMA SumOnes ==
    ASSUME NEW f, NEW S, IsFiniteSet(S), \A x \in S : f[x] = 1
    PROVE  SumFunctionOnSet(f, S) = Cardinality(S)
<1> DEFINE Good == {T \in SUBSET S : SumFunctionOnSet(f, T) = Cardinality(T)}
<1>1. ASSUME NEW T \in SUBSET S, \A x \in T : T \ {x} \in Good
      PROVE  T \in Good
  <2>1. CASE T = {}
    BY <2>1, SumEmpty, FS_EmptySet
  <2>2. CASE T # {}
    <3>1. PICK c \in T : TRUE
      BY <2>2
    <3>2. IsFiniteSet(T)
      BY FS_Subset
    <3>3. Cardinality(T \ {c}) = Cardinality(T) - 1 /\ Cardinality(T) \in Nat
      BY <3>1, <3>2, FS_RemoveElement, FS_CardinalityType
    <3>4. SumFunctionOnSet(f, T \ {c}) = Cardinality(T \ {c})
      BY <1>1, <3>1
    <3>5. SumFunctionOnSet(f, T) = f[c] + SumFunctionOnSet(f, T \ {c})
      BY <3>1, <3>2, SumRemove
    <3>6. f[c] = 1
      BY <3>1
    <3> QED  BY <3>3, <3>4, <3>5, <3>6
  <2> QED  BY <2>1, <2>2
<1> HIDE DEF Good
<1>2. \A T \in SUBSET S : (\A x \in T : T \ {x} \in Good) => T \in Good
  BY <1>1
<1>3. \A T \in SUBSET S : T \in Good
  BY <1>2, SetInduction
<1> QED  BY <1>3 DEF Good

(* An element that was not summed over yet *)
LEMMA SumInsert ==
    ASSUME NEW f, NEW S, IsFiniteSet(S), NEW x, x \notin S,
           \A y \in S \cup {x} : f[y] \in Int
    PROVE  SumFunctionOnSet(f, S \cup {x}) = SumFunctionOnSet(f, S) + f[x]
<1>1. IsFiniteSet(S \cup {x}) /\ (S \cup {x}) \ {x} = S /\ x \in S \cup {x}
  BY FS_AddElement
<1>2. SumFunctionOnSet(f, S \cup {x})
        = f[x] + SumFunctionOnSet(f, (S \cup {x}) \ {x})
  BY <1>1, SumRemove
<1>3. \A y \in S : f[y] \in Int
  OBVIOUS
<1>4. SumFunctionOnSet(f, S) \in Int
  BY <1>3, SumType
<1>5. f[x] \in Int
  OBVIOUS
<1>6. SumFunctionOnSet(f, S \cup {x}) = f[x] + SumFunctionOnSet(f, S)
  BY <1>1, <1>2
<1> QED  BY <1>4, <1>5, <1>6

(* A sum over an interval, which goes on with a constant *)
LEMMA SumSegment ==
    ASSUME NEW f, NEW a \in Int, NEW m \in Int, NEW n \in Int,
           a <= m, m <= n, NEW c \in Int,
           \A t \in a..(n - 1) : f[t] \in Int,
           \A t \in m..(n - 1) : f[t] = c
    PROVE  SumFunctionOnSet(f, a..(n - 1))
             = SumFunctionOnSet(f, a..(m - 1)) + c * (n - m)
<1> DEFINE A == a..(m - 1)
           S == m..(n - 1)
           Good == {T \in SUBSET S :
                      SumFunctionOnSet(f, A \cup T)
                        = SumFunctionOnSet(f, A) + c * Cardinality(T)}
<1>1. IsFiniteSet(A) /\ IsFiniteSet(S) /\ Cardinality(S) = n - m
  <2>1. m - 1 \in Int /\ n - 1 \in Int
    OBVIOUS
  <2>2. IsFiniteSet(a..(m - 1)) /\ IsFiniteSet(m..(n - 1))
    BY <2>1, FS_Interval
  <2>3. Cardinality(m..(n - 1)) = IF m > n - 1 THEN 0 ELSE (n - 1) - m + 1
    BY <2>1, FS_Interval
  <2> QED  BY <2>2, <2>3
<1>2. A \cup S = a..(n - 1) /\ A \cap S = {}
  OBVIOUS
<1>3. \A t \in A : f[t] \in Int
  OBVIOUS
<1>4. \A t \in S : f[t] = c
  OBVIOUS
<1>5. SumFunctionOnSet(f, A) \in Int
  BY <1>1, <1>3, SumType
<1> HIDE DEF A, S
<1>6. ASSUME NEW T \in SUBSET S, \A x \in T : T \ {x} \in Good
      PROVE  T \in Good
  <2>1. CASE T = {}
    <3>1. Cardinality(T) = 0 /\ A \cup T = A
      BY <2>1, FS_EmptySet
    <3> QED  BY <1>5, <3>1
  <2>2. ASSUME NEW x \in T PROVE T \in Good
    <3>1. IsFiniteSet(T) /\ IsFiniteSet(T \ {x})
      BY <1>1, FS_Subset
    <3>2. /\ Cardinality(T) \in Nat
          /\ Cardinality(T \ {x}) = Cardinality(T) - 1
      BY <3>1, FS_RemoveElement, FS_CardinalityType
    <3>3. IsFiniteSet(A \cup (T \ {x}))
      BY <1>1, <3>1, FS_Union
    <3>4. x \notin A \cup (T \ {x}) /\ (A \cup (T \ {x})) \cup {x} = A \cup T
      BY <1>2
    <3>5. \A y \in (A \cup (T \ {x})) \cup {x} : f[y] \in Int
      BY <1>3, <1>4
    <3>6. SumFunctionOnSet(f, A \cup T)
            = SumFunctionOnSet(f, A \cup (T \ {x})) + f[x]
      BY <3>3, <3>4, <3>5, SumInsert
    <3>7. SumFunctionOnSet(f, A \cup (T \ {x}))
            = SumFunctionOnSet(f, A) + c * (Cardinality(T) - 1)
      BY <1>6, <3>2
    <3>8. f[x] = c
      BY <1>4
    <3> DEFINE k == Cardinality(T)
               s == SumFunctionOnSet(f, A)
    <3>9. k \in Nat /\ s \in Int
      BY <1>5, <3>2
    <3> HIDE DEF k, s
    <3>10. s + c * (k - 1) + c = s + c * k
      BY <3>9
    <3> QED  BY <3>6, <3>7, <3>8, <3>10 DEF k, s
  <2> QED  BY <2>1, <2>2
<1> HIDE DEF Good
<1>7. \A T \in SUBSET S : (\A x \in T : T \ {x} \in Good) => T \in Good
  BY <1>6
<1>8. \A T \in SUBSET S : T \in Good
  BY <1>1, <1>7, SetInduction
<1>9. SumFunctionOnSet(f, A \cup S)
        = SumFunctionOnSet(f, A) + c * Cardinality(S)
  BY <1>8 DEF Good
<1>10. SumFunctionOnSet(f, a..(n - 1))
         = SumFunctionOnSet(f, A) + c * (n - m)
  BY <1>1, <1>2, <1>9
<1> QED  BY <1>10 DEF A

(* Sums are linear. *)
LEMMA SumPlus ==
    ASSUME NEW S, IsFiniteSet(S), NEW f, NEW g, NEW h,
           \A x \in S : f[x] \in Int /\ g[x] \in Int /\ h[x] = f[x] + g[x]
    PROVE  SumFunctionOnSet(h, S)
             = SumFunctionOnSet(f, S) + SumFunctionOnSet(g, S)
<1> DEFINE Good == {T \in SUBSET S :
               SumFunctionOnSet(h, T)
                 = SumFunctionOnSet(f, T) + SumFunctionOnSet(g, T)}
<1>1. ASSUME NEW T \in SUBSET S, \A x \in T : T \ {x} \in Good
      PROVE  T \in Good
  <2>1. CASE T = {}
    <3>1. /\ SumFunctionOnSet(h, T) = 0 /\ SumFunctionOnSet(f, T) = 0
          /\ SumFunctionOnSet(g, T) = 0
      BY <2>1, SumEmpty
    <3> QED  BY <3>1
  <2>2. ASSUME NEW x \in T PROVE T \in Good
    <3>1. IsFiniteSet(T) /\ IsFiniteSet(T \ {x})
      BY FS_Subset
    <3>2. \A y \in T : f[y] \in Int /\ g[y] \in Int /\ h[y] \in Int
      OBVIOUS
    <3>3. /\ SumFunctionOnSet(h, T) = h[x] + SumFunctionOnSet(h, T \ {x})
          /\ SumFunctionOnSet(f, T) = f[x] + SumFunctionOnSet(f, T \ {x})
          /\ SumFunctionOnSet(g, T) = g[x] + SumFunctionOnSet(g, T \ {x})
      BY <3>1, <3>2, SumRemove
    <3>4. /\ SumFunctionOnSet(f, T \ {x}) \in Int
          /\ SumFunctionOnSet(g, T \ {x}) \in Int
      BY <3>1, <3>2, SumType
    <3>5. SumFunctionOnSet(h, T \ {x}) =
            SumFunctionOnSet(f, T \ {x}) + SumFunctionOnSet(g, T \ {x})
      BY <1>1
    <3>6. f[x] \in Int /\ g[x] \in Int /\ h[x] = f[x] + g[x]
      OBVIOUS
    <3> QED  BY <3>3, <3>4, <3>5, <3>6
  <2> QED  BY <2>1, <2>2
<1> HIDE DEF Good
<1>2. \A T \in SUBSET S : (\A x \in T : T \ {x} \in Good) => T \in Good
  BY <1>1
<1>3. \A T \in SUBSET S : T \in Good
  BY <1>2, SetInduction
<1> QED  BY <1>3 DEF Good

LEMMA SumTimes ==
    ASSUME NEW S, IsFiniteSet(S), NEW f, NEW h, NEW c \in Int,
           \A x \in S : f[x] \in Int /\ h[x] = c * f[x]
    PROVE  SumFunctionOnSet(h, S) = c * SumFunctionOnSet(f, S)
<1> DEFINE Good == {T \in SUBSET S :
               SumFunctionOnSet(h, T) = c * SumFunctionOnSet(f, T)}
<1>1. ASSUME NEW T \in SUBSET S, \A x \in T : T \ {x} \in Good
      PROVE  T \in Good
  <2>1. CASE T = {}
    <3>1. SumFunctionOnSet(h, T) = 0 /\ SumFunctionOnSet(f, T) = 0
      BY <2>1, SumEmpty
    <3> QED  BY <3>1
  <2>2. ASSUME NEW x \in T PROVE T \in Good
    <3>1. IsFiniteSet(T) /\ IsFiniteSet(T \ {x})
      BY FS_Subset
    <3>2. \A y \in T : f[y] \in Int /\ h[y] \in Int
      OBVIOUS
    <3>3. /\ SumFunctionOnSet(h, T) = h[x] + SumFunctionOnSet(h, T \ {x})
          /\ SumFunctionOnSet(f, T) = f[x] + SumFunctionOnSet(f, T \ {x})
      BY <3>1, <3>2, SumRemove
    <3>4. SumFunctionOnSet(f, T \ {x}) \in Int
      BY <3>1, <3>2, SumType
    <3>5. SumFunctionOnSet(h, T \ {x}) = c * SumFunctionOnSet(f, T \ {x})
      BY <1>1
    <3>6. f[x] \in Int /\ h[x] = c * f[x]
      OBVIOUS
    <3> DEFINE p == f[x]
               q == SumFunctionOnSet(f, T \ {x})
    <3> HIDE DEF p, q
    <3>7. p \in Int /\ q \in Int => c * p + c * q = c * (p + q)
      OBVIOUS
    <3> QED  BY <3>3, <3>4, <3>5, <3>6, <3>7 DEF p, q
  <2> QED  BY <2>1, <2>2
<1> HIDE DEF Good
<1>2. \A T \in SUBSET S : (\A x \in T : T \ {x} \in Good) => T \in Good
  BY <1>1
<1>3. \A T \in SUBSET S : T \in Good
  BY <1>2, SetInduction
<1> QED  BY <1>3 DEF Good
=============================================================================
