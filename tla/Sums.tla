-------------------------------- MODULE Sums --------------------------------
(***************************************************************************)
(* What the proofs need of induction, of recursion over a finite set and   *)
(* of sums of chips (SumFunctionOnSet of Functions): a sum may be taken    *)
(* apart at any element, and changes by what one of its terms changes.     *)
(* Everything is stated for functions and sets, not for operators, so that *)
(* it can be cited.                                                        *)
(***************************************************************************)
EXTENDS Integers, FiniteSetsExt, FiniteSetTheorems, WellFoundedInduction, TLAPS

-----------------------------------------------------------------------------
(* Induction.                                                              *)

(* A non-empty set of naturals has a least element. *)
LEMMA LeastNat ==
    ASSUME NEW S \in SUBSET Nat, S # {}
    PROVE  \E m \in S : \A k \in S : m <= k
<1> DEFINE R == OpToRel(<, Nat)
<1>1. IsWellFoundedOn(R, Nat)
  BY NatLessThanWellFounded
<1>2. PICK m \in S : \A k \in S : <<k, m>> \notin R
  <2> HIDE DEF R
  <2> QED BY <1>1, WFMin
<1>3. \A k \in S : ~(k < m)
  BY <1>2 DEF OpToRel
<1>4. \A k \in S : k \in Nat /\ m \in Nat
  OBVIOUS
<1> HIDE DEF R
<1>5. \A k \in S : m <= k
  BY <1>3, <1>4
<1> QED BY <1>5

(* A set of naturals that holds 0 and every successor holds them all.      *)
LEMMA CountingUp ==
    ASSUME NEW Good, 0 \in Good, \A n \in Nat : n \in Good => n + 1 \in Good
    PROVE  Nat \subseteq Good
<1> SUFFICES ASSUME NEW k \in Nat, k \notin Good PROVE FALSE
  OBVIOUS
<1>1. PICK m \in Nat \ Good : \A n \in Nat \ Good : m <= n
  BY LeastNat
<1>2. m # 0 /\ m - 1 \in Nat
  OBVIOUS
<1>3. m - 1 \in Good
  BY <1>1, <1>2
<1> QED BY <1>1, <1>2, <1>3

(* Sets of subsets of a finite set: one that holds every set it holds the  *)
(* smaller ones of, and one that holds {} and each with one element more.  *)
LEMMA SmallerFirst ==
    ASSUME NEW S, IsFiniteSet(S), NEW Good,
           \A T \in SUBSET S : (\A U \in SUBSET T : U # T => U \in Good) => T \in Good
    PROVE  \A T \in SUBSET S : T \in Good
<1> SUFFICES ASSUME NEW X \in SUBSET S, X \notin Good PROVE FALSE
  OBVIOUS
<1> DEFINE R == StrictSubsetOrdering(S)
           Bad == (SUBSET S) \ Good
<1>1. IsWellFoundedOn(R, SUBSET S)
  <2>1. FiniteSubsetsOf(S) = SUBSET S
    BY FS_FiniteSubsetsOfFinite
  <2>2. IsWellFoundedOn(StrictSubsetOrdering(S), FiniteSubsetsOf(S))
    BY FS_StrictSubsetOrderingWellFounded
  <2> QED BY <2>1, <2>2
<1>2. PICK T \in Bad : \A U \in Bad : <<U, T>> \notin R
  <2>1. Bad \subseteq SUBSET S /\ X \in Bad
    OBVIOUS
  <2> HIDE DEF R, Bad
  <2> QED BY <1>1, <2>1, WFMin
<1>3. \A U \in SUBSET T : U # T => U \in Good
  BY <1>2 DEF StrictSubsetOrdering
<1> QED BY <1>3

LEMMA OneByOne ==
    ASSUME NEW S, IsFiniteSet(S), NEW Good, {} \in Good,
           \A T \in SUBSET S : \A x \in S \ T : T \in Good => T \cup {x} \in Good
    PROVE  \A T \in SUBSET S : T \in Good
<1>1. ASSUME NEW T \in SUBSET S, \A U \in SUBSET T : U # T => U \in Good
      PROVE  T \in Good
  <2>1. CASE T = {}
    BY <2>1
  <2>2. ASSUME NEW x \in T PROVE T \in Good
    <3>1. T \ {x} \in Good /\ T = (T \ {x}) \cup {x} /\ x \in S \ (T \ {x})
      BY <1>1
    <3> QED BY <3>1
  <2> QED BY <2>1, <2>2
<1> QED BY <1>1, SmallerFirst

LEMMA OneFewer ==
    ASSUME NEW T, IsFiniteSet(T), NEW x \in T
    PROVE  IsFiniteSet(T \ {x}) /\ Cardinality(T \ {x}) = Cardinality(T) - 1
BY FS_RemoveElement

LEMMA FiniteImage ==
    ASSUME NEW S, IsFiniteSet(S), NEW f
    PROVE  IsFiniteSet({f[x] : x \in S})
<1> DEFINE T == {f[x] : x \in S}
           g == [x \in S |-> f[x]]
<1>1. g \in Surjection(S, T)
  BY DEF Surjection
<1> HIDE DEF g, T
<1>2. IsFiniteSet(T)
  BY <1>1, FS_Surjection
<1> QED BY <1>2 DEF T

-----------------------------------------------------------------------------
(* Recursion over a finite set: an element is chosen, the rest is done     *)
(* first. It has a solution, and no two.                                   *)

Solves(G, S, base, step, choice) ==
    \A T \in SUBSET S :
        G[T] = IF T = {} THEN base ELSE step[<<choice[T], G[T \ {choice[T]}]>>]

LEMMA RecursionHasValue ==
    ASSUME NEW S, IsFiniteSet(S), NEW V, NEW base \in V, NEW step \in [S \X V -> V],
           NEW choice, \A T \in SUBSET S : T # {} => choice[T] \in T
    PROVE  \E G \in [SUBSET S -> V] : Solves(G, S, base, step, choice)
<1> DEFINE Small(n) == {T \in SUBSET S : Cardinality(T) <= n}
           Partial(G, n) == \A T \in Small(n) :
               G[T] = IF T = {} THEN base ELSE step[<<choice[T], G[T \ {choice[T]}]>>]
           Good == {n \in Nat : \E G \in [SUBSET S -> V] : Partial(G, n)}
<1>1. \A T \in SUBSET S : IsFiniteSet(T) /\ Cardinality(T) \in Nat
  BY FS_Subset, FS_CardinalityType
<1>2. 0 \in Good
  <2>1. \A T \in Small(0) : T = {}
    BY <1>1, FS_EmptySet
  <2>2. Partial([T \in SUBSET S |-> base], 0)
    BY <2>1
  <2> QED BY <2>2
<1>3. ASSUME NEW n \in Nat, n \in Good PROVE n + 1 \in Good
  <2>1. PICK G \in [SUBSET S -> V] : Partial(G, n)
    BY <1>3
  <2> DEFINE H == [T \in SUBSET S |->
                      IF T = {} THEN base ELSE step[<<choice[T], G[T \ {choice[T]}]>>]]
  <2>2. H \in [SUBSET S -> V]
    OBVIOUS
  <2>3. \A T \in Small(n) : H[T] = G[T]
    BY <2>1
  <2>4. ASSUME NEW T \in Small(n + 1), T # {} PROVE T \ {choice[T]} \in Small(n)
    <3>1. choice[T] \in T /\ IsFiniteSet(T)
      BY <1>1, <2>4
    <3>2. Cardinality(T \ {choice[T]}) = Cardinality(T) - 1
      BY <3>1, OneFewer
    <3> QED BY <3>2, <1>1
  <2>5. Partial(H, n + 1)
    BY <2>3, <2>4
  <2> HIDE DEF H, Partial
  <2> QED BY <2>2, <2>5
<1> HIDE DEF Good
<1>4. Cardinality(S) \in Good
  BY <1>1, <1>2, <1>3, CountingUp
<1>5. SUBSET S = Small(Cardinality(S))
  BY <1>1, FS_Subset
<1> QED BY <1>4, <1>5 DEF Good, Solves

(* The folds of the library take the greatest element last.               *)
LEMMA MaxIn ==
    ASSUME NEW T \in SUBSET Int, IsFiniteSet(T), T # {}
    PROVE  Max(T) \in T /\ \A y \in T : y <= Max(T)
<1> DEFINE Good == {U \in SUBSET T : U # {} => \E x \in U : \A y \in U : x >= y}
<1>1. ASSUME NEW U \in SUBSET T, NEW x \in T \ U, U \in Good PROVE U \cup {x} \in Good
  <2>1. CASE U = {}
    BY <2>1
  <2>2. CASE U # {}
    <3>1. PICK m \in U : \A y \in U : m >= y
      BY <1>1, <2>2
    <3>2. \E z \in U \cup {x} : \A y \in U \cup {x} : z >= y
      <4>1. CASE m >= x
        BY <3>1, <4>1
      <4>2. CASE ~(m >= x)
        <5>1. \A y \in U \cup {x} : x >= y
          BY <3>1, <4>2
        <5> QED BY <5>1
      <4> QED BY <4>1, <4>2
    <3> QED BY <3>2
  <2> QED BY <2>1, <2>2
<1>2. T \in Good
  <2> HIDE DEF Good
  <2>1. {} \in Good
    BY DEF Good
  <2> QED BY <1>1, <2>1, OneByOne
<1>3. \A y \in T : Max(T) >= y /\ Max(T) \in T
  BY <1>2 DEF Max
<1> QED BY <1>3

FoldsUp(G, D, base, step) ==
    \A T \in SUBSET D : G[T] = IF T = {} THEN base ELSE step[<<Max(T), G[T \ {Max(T)}]>>]

LEMMA FoldHasValue ==
    ASSUME NEW D \in SUBSET Int, IsFiniteSet(D), NEW V, NEW base \in V,
           NEW step \in [D \X V -> V]
    PROVE  \E G \in [SUBSET D -> V] : FoldsUp(G, D, base, step)
<1> DEFINE choice == [T \in SUBSET D |-> Max(T)]
<1>1. \A T \in SUBSET D : T # {} => choice[T] \in T
  BY MaxIn, FS_Subset
<1>2. PICK G \in [SUBSET D -> V] : Solves(G, D, base, step, choice)
  <2> HIDE DEF choice
  <2> QED BY <1>1, RecursionHasValue
<1>3. FoldsUp(G, D, base, step)
  BY <1>2 DEF Solves, FoldsUp
<1> QED BY <1>3

(* The first n numbers, the greatest of them taken away. *)
LEMMA FirstOnes ==
    ASSUME NEW n \in Nat
    PROVE  /\ 1 .. n \in SUBSET Int /\ IsFiniteSet(1 .. n)
           /\ n > 0 => Max(1 .. n) = n /\ (1 .. n) \ {n} = 1 .. n - 1
           /\ 1 .. 0 = {}
<1>1. 1 .. n \in SUBSET Int /\ IsFiniteSet(1 .. n)
  BY FS_Interval
<1>2. n > 0 => Max(1 .. n) = n
  <2> SUFFICES ASSUME n > 0 PROVE Max(1 .. n) = n
    OBVIOUS
  <2> DEFINE m == Max(1 .. n)
  <2>1. m \in 1 .. n /\ \A y \in 1 .. n : y <= m
    BY <1>1, MaxIn
  <2> HIDE DEF m
  <2>2. n \in 1 .. n
    OBVIOUS
  <2>3. m = n
    BY <2>1, <2>2
  <2> QED BY <2>3 DEF m
<1> QED BY <1>1, <1>2

-----------------------------------------------------------------------------
(* Sums: the definition of the library, unfolded.                          *)

Adds(G, S, f) ==
    \A T \in SUBSET S :
        G[T] = IF T = {} THEN 0
               ELSE f[CHOOSE x \in T : TRUE] + G[T \ {CHOOSE x \in T : TRUE}]

LEMMA AddsOnce ==
    ASSUME NEW S, IsFiniteSet(S), NEW f, NEW G, NEW H, Adds(G, S, f), Adds(H, S, f)
    PROVE  \A T \in SUBSET S : G[T] = H[T]
<1> DEFINE Good == {T \in SUBSET S : G[T] = H[T]}
<1>1. ASSUME NEW T \in SUBSET S, \A U \in SUBSET T : U # T => U \in Good
      PROVE  T \in Good
  <2>1. T # {} => (CHOOSE x \in T : TRUE) \in T
    OBVIOUS
  <2>2. T # {} => G[T \ {CHOOSE x \in T : TRUE}] = H[T \ {CHOOSE x \in T : TRUE}]
    BY <1>1, <2>1
  <2>3. CASE T = {}
    BY <2>3 DEF Adds
  <2>4. CASE T # {}
    <3> DEFINE x == CHOOSE x \in T : TRUE
    <3>1. G[T] = f[x] + G[T \ {x}] /\ H[T] = f[x] + H[T \ {x}]
      BY <2>4 DEF Adds
    <3> QED BY <2>2, <2>4, <3>1
  <2> QED BY <2>3, <2>4
<1>2. \A T \in SUBSET S : T \in Good
  <2> HIDE DEF Good
  <2> QED BY <1>1, SmallerFirst
<1> QED BY <1>2

LEMMA SumUnfolds ==
    ASSUME NEW S, IsFiniteSet(S), NEW f, \A x \in S : f[x] \in Int
    PROVE  \E G \in [SUBSET S -> Int] : Adds(G, S, f) /\ SumFunctionOnSet(f, S) = G[S]
<1> DEFINE choice == [T \in SUBSET S |-> CHOOSE x \in T : TRUE]
           step == [p \in S \X Int |-> f[p[1]] + p[2]]
           body(G) == [T \in SUBSET S |->
                          IF T = {} THEN 0
                          ELSE f[CHOOSE x \in T : TRUE] + G[T \ {CHOOSE x \in T : TRUE}]]
<1>1. PICK G \in [SUBSET S -> Int] : Solves(G, S, 0, step, choice)
  <2>1. step \in [S \X Int -> Int]
    OBVIOUS
  <2>2. \A T \in SUBSET S : T # {} => choice[T] \in T
    OBVIOUS
  <2>3. 0 \in Int
    OBVIOUS
  <2> HIDE DEF step, choice
  <2> QED BY <2>1, <2>2, <2>3, RecursionHasValue
<1>2. Adds(G, S, f)
  <2>1. G[{}] = 0
    BY <1>1 DEF Solves
  <2>2. ASSUME NEW T \in SUBSET S, T # {}
        PROVE  G[T] = f[CHOOSE x \in T : TRUE] + G[T \ {CHOOSE x \in T : TRUE}]
    <3>1. choice[T] = CHOOSE x \in T : TRUE
      OBVIOUS
    <3>2. choice[T] \in T
      BY <2>2
    <3>3. G[T] = step[<<choice[T], G[T \ {choice[T]}]>>]
      BY <1>1, <2>2 DEF Solves
    <3>4. <<choice[T], G[T \ {choice[T]}]>> \in S \X Int
      BY <3>2
    <3>5. G[T] = f[choice[T]] + G[T \ {choice[T]}]
      BY <3>3, <3>4
    <3> QED BY <3>1, <3>5
  <2> QED BY <2>1, <2>2 DEF Adds
<1>3. G = body(G)
  BY <1>2 DEF Adds
<1>4. DEFINE H == CHOOSE H : H = body(H)
<1>5. H = body(H)
  BY <1>3
<1>6. Adds(H, S, f)
  BY <1>5 DEF Adds
<1>7. SumFunctionOnSet(f, S) = H[S]
  BY DEF SumFunctionOnSet, FoldFunctionOnSet, MapThenFoldSet
<1>8. H[S] = G[S]
  <2> HIDE DEF H
  <2> QED BY <1>2, <1>6, AddsOnce
<1> HIDE DEF H
<1> QED BY <1>2, <1>7, <1>8

AddsAnywhere(G, S, f) ==
    \A T \in SUBSET S : \A x \in T : G[T] = f[x] + G[T \ {x}]

LEMMA AddsInAnyOrder ==
    ASSUME NEW S, IsFiniteSet(S), NEW f, \A x \in S : f[x] \in Int,
           NEW G \in [SUBSET S -> Int], Adds(G, S, f)
    PROVE  AddsAnywhere(G, S, f)
<1> DEFINE Good == {T \in SUBSET S : \A x \in T : G[T] = f[x] + G[T \ {x}]}
<1>1. ASSUME NEW T \in SUBSET S, \A U \in SUBSET T : U # T => U \in Good
      PROVE  T \in Good
  <2> SUFFICES ASSUME NEW x \in T PROVE G[T] = f[x] + G[T \ {x}]
    OBVIOUS
  <2>1. PICK y \in T : G[T] = f[y] + G[T \ {y}]
    BY DEF Adds
  <2>2. CASE x = y
    BY <2>1, <2>2
  <2>3. CASE x # y
    <3>1. T \ {y} \in Good /\ T \ {x} \in Good /\ x \in T \ {y} /\ y \in T \ {x}
      BY <1>1, <2>3
    <3>2. G[T \ {y}] = f[x] + G[(T \ {y}) \ {x}] /\ G[T \ {x}] = f[y] + G[(T \ {x}) \ {y}]
      BY <3>1
    <3>3. (T \ {y}) \ {x} = (T \ {x}) \ {y}
      OBVIOUS
    <3>4. f[x] \in Int /\ f[y] \in Int /\ G[(T \ {x}) \ {y}] \in Int
      OBVIOUS
    <3>5. G[T] = f[y] + (f[x] + G[(T \ {x}) \ {y}])
      BY <2>1, <3>2, <3>3
    <3> QED BY <3>2, <3>4, <3>5
  <2> QED BY <2>2, <2>3
<1>2. \A T \in SUBSET S : T \in Good
  <2> HIDE DEF Good
  <2> QED BY <1>1, SmallerFirst
<1> QED BY <1>2 DEF AddsAnywhere

LEMMA AddsIsSum ==
    ASSUME NEW S, IsFiniteSet(S), NEW f, \A x \in S : f[x] \in Int,
           NEW G, Adds(G, S, f), NEW T \in SUBSET S
    PROVE  SumFunctionOnSet(f, T) = G[T]
<1>1. IsFiniteSet(T)
  BY FS_Subset
<1>2. PICK H \in [SUBSET T -> Int] : Adds(H, T, f) /\ SumFunctionOnSet(f, T) = H[T]
  <2>1. \A x \in T : f[x] \in Int
    OBVIOUS
  <2> QED BY <1>1, <2>1, SumUnfolds
<1>3. Adds(G, T, f)
  BY DEF Adds
<1> QED BY <1>1, <1>2, <1>3, AddsOnce

-----------------------------------------------------------------------------
(* What a sum is, taken apart at any element.                              *)

LEMMA SumEmpty == ASSUME NEW f PROVE SumFunctionOnSet(f, {}) = 0
<1>1. IsFiniteSet({}) /\ \A x \in {} : f[x] \in Int
  BY FS_EmptySet
<1>2. PICK G \in [SUBSET {} -> Int] : Adds(G, {}, f) /\ SumFunctionOnSet(f, {}) = G[{}]
  BY <1>1, SumUnfolds
<1> QED BY <1>2 DEF Adds

LEMMA SumInt ==
    ASSUME NEW S, IsFiniteSet(S), NEW f, \A x \in S : f[x] \in Int
    PROVE  SumFunctionOnSet(f, S) \in Int
<1>1. PICK G \in [SUBSET S -> Int] : Adds(G, S, f) /\ SumFunctionOnSet(f, S) = G[S]
  BY SumUnfolds
<1>2. S \in SUBSET S
  OBVIOUS
<1> QED BY <1>1, <1>2

LEMMA SumTakeOut ==
    ASSUME NEW S, IsFiniteSet(S), NEW f, \A x \in S : f[x] \in Int, NEW x \in S
    PROVE  SumFunctionOnSet(f, S) = f[x] + SumFunctionOnSet(f, S \ {x})
<1>1. PICK G \in [SUBSET S -> Int] : Adds(G, S, f) /\ SumFunctionOnSet(f, S) = G[S]
  BY SumUnfolds
<1>2. G[S] = f[x] + G[S \ {x}]
  <2>1. AddsAnywhere(G, S, f)
    BY <1>1, AddsInAnyOrder
  <2>2. S \in SUBSET S
    OBVIOUS
  <2> QED BY <2>1, <2>2 DEF AddsAnywhere
<1>3. SumFunctionOnSet(f, S \ {x}) = G[S \ {x}]
  BY <1>1, AddsIsSum
<1> QED BY <1>1, <1>2, <1>3

LEMMA SumPutIn ==
    ASSUME NEW S, IsFiniteSet(S), NEW f, NEW x, x \notin S,
           \A y \in S \cup {x} : f[y] \in Int
    PROVE  SumFunctionOnSet(f, S \cup {x}) = f[x] + SumFunctionOnSet(f, S)
<1>1. IsFiniteSet(S \cup {x}) /\ (S \cup {x}) \ {x} = S
  BY FS_AddElement
<1> QED BY <1>1, SumTakeOut

(* Two functions that agree have the same sum, and a third that is their   *)
(* sum everywhere has the sum of their sums.                               *)
LEMMA SumAdd ==
    ASSUME NEW S, IsFiniteSet(S), NEW f, NEW g, NEW h,
           \A x \in S : f[x] \in Int /\ g[x] \in Int /\ h[x] = f[x] + g[x]
    PROVE  SumFunctionOnSet(h, S) = SumFunctionOnSet(f, S) + SumFunctionOnSet(g, S)
<1> DEFINE Good == {T \in SUBSET S : SumFunctionOnSet(h, T)
                                     = SumFunctionOnSet(f, T) + SumFunctionOnSet(g, T)}
<1>1. {} \in Good
  BY SumEmpty
<1>2. ASSUME NEW T \in SUBSET S, NEW x \in S \ T, T \in Good PROVE T \cup {x} \in Good
  <2>1. IsFiniteSet(T)
    BY FS_Subset
  <2>2. /\ SumFunctionOnSet(f, T) \in Int /\ SumFunctionOnSet(g, T) \in Int
    BY <2>1, SumInt
  <2>3. \A y \in T \cup {x} : f[y] \in Int /\ g[y] \in Int /\ h[y] \in Int
    OBVIOUS
  <2>4. /\ SumFunctionOnSet(f, T \cup {x}) = f[x] + SumFunctionOnSet(f, T)
        /\ SumFunctionOnSet(g, T \cup {x}) = g[x] + SumFunctionOnSet(g, T)
        /\ SumFunctionOnSet(h, T \cup {x}) = h[x] + SumFunctionOnSet(h, T)
    BY <2>1, <2>3, SumPutIn
  <2> QED BY <1>2, <2>2, <2>4
<1>3. S \in Good
  <2> HIDE DEF Good
  <2> QED BY <1>1, <1>2, OneByOne
<1> QED BY <1>3

LEMMA SumZero ==
    ASSUME NEW S, IsFiniteSet(S), NEW f, \A x \in S : f[x] = 0
    PROVE  SumFunctionOnSet(f, S) = 0
<1>1. \A x \in S : f[x] \in Int /\ f[x] = f[x] + f[x]
  OBVIOUS
<1>2. SumFunctionOnSet(f, S) = SumFunctionOnSet(f, S) + SumFunctionOnSet(f, S)
  BY <1>1, SumAdd
<1>3. SumFunctionOnSet(f, S) \in Int
  BY <1>1, SumInt
<1> DEFINE s == SumFunctionOnSet(f, S)
<1> HIDE DEF s
<1>4. s = s + s /\ s \in Int
  BY <1>2, <1>3 DEF s
<1>5. s = 0
  BY <1>4
<1> QED BY <1>5 DEF s

LEMMA SumSame ==
    ASSUME NEW S, IsFiniteSet(S), NEW f, NEW g, \A x \in S : f[x] \in Int /\ g[x] = f[x]
    PROVE  SumFunctionOnSet(g, S) = SumFunctionOnSet(f, S)
<1> DEFINE zero == [x \in S |-> 0]
<1>1. \A x \in S : f[x] \in Int /\ zero[x] \in Int /\ g[x] = f[x] + zero[x]
  OBVIOUS
<1>2. SumFunctionOnSet(zero, S) = 0
  BY SumZero
<1>3. SumFunctionOnSet(f, S) \in Int
  BY SumInt
<1> HIDE DEF zero
<1>4. SumFunctionOnSet(g, S) = SumFunctionOnSet(f, S) + SumFunctionOnSet(zero, S)
  BY <1>1, SumAdd
<1> QED BY <1>2, <1>3, <1>4

(* One term changes. *)
LEMMA SumChange ==
    ASSUME NEW S, IsFiniteSet(S), NEW f, NEW g, NEW x \in S, g[x] \in Int,
           \A y \in S : f[y] \in Int /\ (y # x => g[y] = f[y])
    PROVE  SumFunctionOnSet(g, S) = SumFunctionOnSet(f, S) - f[x] + g[x]
<1>1. IsFiniteSet(S \ {x}) /\ \A y \in S : g[y] \in Int
  BY FS_RemoveElement
<1>2. /\ SumFunctionOnSet(f, S) = f[x] + SumFunctionOnSet(f, S \ {x})
      /\ SumFunctionOnSet(g, S) = g[x] + SumFunctionOnSet(g, S \ {x})
  BY <1>1, SumTakeOut
<1>3. SumFunctionOnSet(g, S \ {x}) = SumFunctionOnSet(f, S \ {x})
  BY <1>1, SumSame
<1>4. SumFunctionOnSet(f, S \ {x}) \in Int
  BY <1>1, SumInt
<1> QED BY <1>2, <1>3, <1>4

(* A sum of sizes that are nowhere negative is not, and grows with them. *)
LEMMA SumNat ==
    ASSUME NEW S, IsFiniteSet(S), NEW f, \A x \in S : f[x] \in Nat
    PROVE  SumFunctionOnSet(f, S) \in Nat
<1> DEFINE Good == {T \in SUBSET S : SumFunctionOnSet(f, T) \in Nat}
<1>1. {} \in Good
  BY SumEmpty
<1>2. ASSUME NEW T \in SUBSET S, NEW x \in S \ T, T \in Good PROVE T \cup {x} \in Good
  <2>1. IsFiniteSet(T)
    BY FS_Subset
  <2>2. \A y \in T \cup {x} : f[y] \in Int
    OBVIOUS
  <2>3. SumFunctionOnSet(f, T \cup {x}) = f[x] + SumFunctionOnSet(f, T)
    BY <2>1, <2>2, SumPutIn
  <2> QED BY <1>2, <2>3
<1>3. S \in Good
  <2> HIDE DEF Good
  <2> QED BY <1>1, <1>2, OneByOne
<1> QED BY <1>3

LEMMA SumAtLeast ==
    ASSUME NEW S, IsFiniteSet(S), NEW f, NEW g,
           \A x \in S : f[x] \in Int /\ g[x] \in Int /\ f[x] <= g[x]
    PROVE  SumFunctionOnSet(f, S) <= SumFunctionOnSet(g, S)
<1> DEFINE gap == [x \in S |-> g[x] - f[x]]
<1>1. \A x \in S : gap[x] \in Nat /\ gap[x] \in Int /\ g[x] = f[x] + gap[x]
  OBVIOUS
<1> HIDE DEF gap
<1>2. SumFunctionOnSet(gap, S) \in Nat /\ SumFunctionOnSet(f, S) \in Int
  BY <1>1, SumNat, SumInt
<1>3. SumFunctionOnSet(g, S) = SumFunctionOnSet(f, S) + SumFunctionOnSet(gap, S)
  BY <1>1, SumAdd
<1> QED BY <1>2, <1>3

LEMMA SumConstant ==
    ASSUME NEW S, IsFiniteSet(S), NEW c \in Int, NEW f, \A x \in S : f[x] = c
    PROVE  SumFunctionOnSet(f, S) = Cardinality(S) * c
<1> DEFINE Good == {T \in SUBSET S : SumFunctionOnSet(f, T) = Cardinality(T) * c}
<1>1. {} \in Good
  <2>1. Cardinality({}) = 0
    BY FS_EmptySet
  <2> QED BY <2>1, SumEmpty
<1>2. ASSUME NEW T \in SUBSET S, NEW x \in S \ T, T \in Good PROVE T \cup {x} \in Good
  <2>1. IsFiniteSet(T) /\ Cardinality(T) \in Nat
    BY FS_Subset, FS_CardinalityType
  <2>2. Cardinality(T \cup {x}) = Cardinality(T) + 1
    BY <2>1, FS_AddElement
  <2>3. SumFunctionOnSet(f, T \cup {x}) = f[x] + SumFunctionOnSet(f, T)
    <3>1. \A y \in T \cup {x} : f[y] \in Int
      OBVIOUS
    <3> QED BY <2>1, <3>1, SumPutIn
  <2> DEFINE n == Cardinality(T)
  <2>4. n \in Nat /\ f[x] = c /\ SumFunctionOnSet(f, T) = n * c
    BY <1>2, <2>1
  <2>5. (n + 1) * c = c + n * c
    <3> HIDE DEF n
    <3> QED BY <2>4
  <2>6. SumFunctionOnSet(f, T \cup {x}) = Cardinality(T \cup {x}) * c
    BY <2>2, <2>3, <2>4, <2>5
  <2> QED BY <2>6
<1>3. S \in Good
  <2> HIDE DEF Good
  <2> QED BY <1>1, <1>2, OneByOne
<1> QED BY <1>3

(* Disjoint sets are summed apart. *)
LEMMA SumSplit ==
    ASSUME NEW A, NEW B, IsFiniteSet(A), IsFiniteSet(B), A \cap B = {},
           NEW f, \A x \in A \cup B : f[x] \in Int
    PROVE  SumFunctionOnSet(f, A \cup B) = SumFunctionOnSet(f, A) + SumFunctionOnSet(f, B)
<1> DEFINE Good == {T \in SUBSET B : SumFunctionOnSet(f, A \cup T)
                                     = SumFunctionOnSet(f, A) + SumFunctionOnSet(f, T)}
<1>1. SumFunctionOnSet(f, A) \in Int
  BY SumInt
<1>2. {} \in Good
  BY <1>1, SumEmpty
<1>3. ASSUME NEW T \in SUBSET B, NEW x \in B \ T, T \in Good PROVE T \cup {x} \in Good
  <2>1. IsFiniteSet(T) /\ IsFiniteSet(A \cup T) /\ x \notin A \cup T
    BY FS_Subset, FS_Union
  <2>2. SumFunctionOnSet(f, T) \in Int
    BY <2>1, SumInt
  <2>3. SumFunctionOnSet(f, T \cup {x}) = f[x] + SumFunctionOnSet(f, T)
    BY <2>1, SumPutIn
  <2>4. SumFunctionOnSet(f, (A \cup T) \cup {x}) = f[x] + SumFunctionOnSet(f, A \cup T)
    BY <2>1, SumPutIn
  <2>5. A \cup (T \cup {x}) = (A \cup T) \cup {x} /\ f[x] \in Int
    OBVIOUS
  <2>6. SumFunctionOnSet(f, A \cup T)
        = SumFunctionOnSet(f, A) + SumFunctionOnSet(f, T)
    BY <1>3
  <2>7. SumFunctionOnSet(f, A \cup (T \cup {x}))
        = SumFunctionOnSet(f, A) + SumFunctionOnSet(f, T \cup {x})
    <3> HIDE DEF Good
    <3>1. SumFunctionOnSet(f, A \cup (T \cup {x})) = f[x] + SumFunctionOnSet(f, A \cup T)
      BY <2>4, <2>5
    <3> DEFINE a == SumFunctionOnSet(f, A)
               b == SumFunctionOnSet(f, T)
               v == f[x]
    <3>2. a \in Int /\ b \in Int /\ v \in Int
      BY <1>1, <2>2, <2>5
    <3>3. SumFunctionOnSet(f, A \cup (T \cup {x})) = v + (a + b)
      BY <2>6, <3>1
    <3>4. SumFunctionOnSet(f, T \cup {x}) = v + b
      BY <2>3
    <3> HIDE DEF a, b, v
    <3>5. SumFunctionOnSet(f, A \cup (T \cup {x})) = a + SumFunctionOnSet(f, T \cup {x})
      BY <3>2, <3>3, <3>4
    <3> QED BY <3>5 DEF a
  <2> QED BY <2>7
<1>4. B \in Good
  <2> HIDE DEF Good
  <2> QED BY <1>2, <1>3, OneByOne
<1> QED BY <1>4

(* The terms may be put in classes and summed class by class. *)
LEMMA SumByClass ==
    ASSUME NEW S, IsFiniteSet(S), NEW Q, IsFiniteSet(Q), NEW class,
           \A x \in S : class[x] \in Q,
           NEW f, \A x \in S : f[x] \in Int
    PROVE  SumFunctionOnSet([q \in Q |-> SumFunctionOnSet(f, {x \in S : class[x] = q})], Q)
           = SumFunctionOnSet(f, S)
<1> DEFINE by(T) == [q \in Q |-> SumFunctionOnSet(f, {x \in T : class[x] = q})]
           Good == {T \in SUBSET S : SumFunctionOnSet(by(T), Q) = SumFunctionOnSet(f, T)}
<1>1. {} \in Good
  <2>1. \A q \in Q : {x \in {} : class[x] = q} = {}
    OBVIOUS
  <2>2. \A q \in Q : by({})[q] = 0
    BY <2>1, SumEmpty
  <2>3. SumFunctionOnSet(by({}), Q) = 0
    <3> HIDE DEF by
    <3> QED BY <2>2, SumZero
  <2> QED BY <2>3, SumEmpty
<1>2. ASSUME NEW T \in SUBSET S, NEW x \in S \ T, T \in Good PROVE T \cup {x} \in Good
  <2> DEFINE c == class[x]
  <2>1. /\ IsFiniteSet(T)
        /\ \A q \in Q : IsFiniteSet({y \in T : class[y] = q})
    BY FS_Subset
  <2>2. \A q \in Q : by(T)[q] \in Int
    BY <2>1, SumInt
  <2>3. \A q \in Q \ {c} : by(T \cup {x})[q] = by(T)[q]
    <3>1. \A q \in Q \ {c} : {y \in T \cup {x} : class[y] = q} = {y \in T : class[y] = q}
      OBVIOUS
    <3> QED BY <3>1
  <2>4. by(T \cup {x})[c] = f[x] + by(T)[c]
    <3>1. /\ {y \in T \cup {x} : class[y] = c} = {y \in T : class[y] = c} \cup {x}
          /\ x \notin {y \in T : class[y] = c} /\ c \in Q
      OBVIOUS
    <3>2. SumFunctionOnSet(f, {y \in T : class[y] = c} \cup {x})
          = f[x] + SumFunctionOnSet(f, {y \in T : class[y] = c})
      BY <2>1, <3>1, SumPutIn
    <3> QED BY <3>1, <3>2
  <2>5. c \in Q /\ f[x] \in Int
    OBVIOUS
  <2>6. SumFunctionOnSet(by(T \cup {x}), Q)
        = SumFunctionOnSet(by(T), Q) - by(T)[c] + by(T \cup {x})[c]
    <3> HIDE DEF by, c, Good
    <3>1. by(T \cup {x})[c] \in Int
      BY <2>2, <2>4, <2>5
    <3>2. \A q \in Q : by(T)[q] \in Int /\ (q # c => by(T \cup {x})[q] = by(T)[q])
      BY <2>2, <2>3
    <3> DEFINE g == by(T)
               h == by(T \cup {x})
    <3>3. /\ c \in Q /\ h[c] \in Int
          /\ \A q \in Q : g[q] \in Int /\ (q # c => h[q] = g[q])
      BY <2>5, <3>1, <3>2
    <3> HIDE DEF g, h
    <3>4. SumFunctionOnSet(h, Q) = SumFunctionOnSet(g, Q) - g[c] + h[c]
      BY <3>3, SumChange
    <3> QED BY <3>4 DEF g, h
  <2>7. SumFunctionOnSet(f, T \cup {x}) = f[x] + SumFunctionOnSet(f, T)
    BY <2>1, SumPutIn
  <2>8. SumFunctionOnSet(f, T) \in Int
    BY <2>1, SumInt
  <2>9. SumFunctionOnSet(by(T), Q) = SumFunctionOnSet(f, T)
    BY <1>2
  <2>10. SumFunctionOnSet(by(T \cup {x}), Q) = SumFunctionOnSet(f, T \cup {x})
    <3> HIDE DEF by, c
    <3> QED BY <2>2, <2>4, <2>5, <2>6, <2>7, <2>8, <2>9
  <2> QED BY <2>10
<1>3. S \in Good
  <2> HIDE DEF Good
  <2> QED BY <1>1, <1>2, OneByOne
<1> QED BY <1>3
=============================================================================
