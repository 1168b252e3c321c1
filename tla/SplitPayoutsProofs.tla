------------------------- MODULE SplitPayoutsProofs --------------------------
(***************************************************************************)
(* Sums over finite sets, and that splitPayouts divides every book to the  *)
(* unit and fairly: for any finite set of numbered stakes, any amounts and *)
(* any outcomes.                                                           *)
(*                                                                         *)
(* SumFunctionOnSet of the community module Functions is a fold, so a      *)
(* recursive function, so something CHOSEN: first it is shown that there   *)
(* is such a function, and one only.  The induction is over the subsets of *)
(* the set that is added up.  The library's induction theorems take a      *)
(* predicate as a parameter; here the predicate is a set C of subsets,     *)
(* which need not be of any form.                                          *)
(*                                                                         *)
(* Two facts make the division exact.  The floors lose less than one unit  *)
(* each (DustIsLittle), so that there is less dust than there are winners; *)
(* and the queue for it has the winners in some order, each once (Ranks),  *)
(* so that handing out a number of units reaches that many of them.        *)
(***************************************************************************)
EXTENDS SplitPayouts, FiniteSetTheorems, WellFoundedInduction, TLAPS

------------------------------------------------------------------------------
(* Induction over the subsets of a finite set, of which C is some.         *)

\* Every subset is in C if each is that has all its own subsets in it.
LEMMA SubsetInduction ==
  ASSUME NEW S, IsFiniteSet(S), NEW C,
         \A T \in SUBSET S : (\A U \in SUBSET T : U # T => U \in C) => T \in C
  PROVE  SUBSET S \subseteq C
PROOF
<1> DEFINE Bad == {T \in SUBSET S : T \notin C}
<1>1. SUFFICES ASSUME NEW N \in SUBSET S, N \notin C
               PROVE  FALSE
  OBVIOUS
<1>2. IsWellFoundedOn(StrictSubsetOrdering(S), SUBSET S)
  BY FS_StrictSubsetOrderingWellFounded, FS_FiniteSubsetsOfFinite
<1>3. PICK T \in Bad : \A U \in Bad : <<U, T>> \notin StrictSubsetOrdering(S)
  <2>1. Bad \subseteq SUBSET S /\ Bad # {}
    BY <1>1
  <2> HIDE DEF Bad
  <2> QED
    BY <1>2, <2>1, WFMin
<1>4. ASSUME NEW U \in SUBSET T, U # T
      PROVE  U \in C
  BY <1>3, <1>4 DEF StrictSubsetOrdering
<1> QED
  BY <1>3, <1>4

\* So is every subset if elements can be added one at a time.
LEMMA SetInduction ==
  ASSUME NEW S, IsFiniteSet(S), NEW C, {} \in C,
         \A T \in SUBSET S : \A x \in S \ T : T \in C => T \cup {x} \in C
  PROVE  SUBSET S \subseteq C
PROOF
<1>1. ASSUME NEW T \in SUBSET S, \A U \in SUBSET T : U # T => U \in C
      PROVE  T \in C
  <2>1. CASE T = {}
    BY <2>1
  <2>2. CASE T # {}
    <3>1. PICK x \in T : TRUE
      BY <2>2
    <3>2. T \ {x} \in C /\ T = (T \ {x}) \cup {x}
      BY <1>1, <3>1
    <3>3. x \in S \ (T \ {x}) /\ T \ {x} \in SUBSET S
      BY <3>1
    <3> QED
      BY <3>2, <3>3
  <2> QED
    BY <2>1, <2>2
<1> QED
  BY <1>1, SubsetInduction

------------------------------------------------------------------------------
(* That the recursion behind SumFunctionOnSet has a solution, and one only. *)

anyOf(T) == CHOOSE x \in T : TRUE

\* h is the recursive function by which f is added up over S.
Adds(h, f, S) ==
  h = [T \in SUBSET S |-> IF T = {} THEN 0 ELSE f[anyOf(T)] + h[T \ {anyOf(T)}]]

\* What SumFunctionOnSet is, its folds unfolded.
LEMMA Unfolded ==
  ASSUME NEW f, NEW S
  PROVE  SumFunctionOnSet(f, S) = (CHOOSE h : Adds(h, f, S))[S]
PROOF
  BY DEF SumFunctionOnSet, FoldFunctionOnSet, MapThenFoldSet, Adds, anyOf

\* What is chosen is removed.
LEMMA AnyOf ==
  ASSUME NEW T, T # {}
  PROVE  anyOf(T) \in T /\ T \ {anyOf(T)} \in SUBSET T /\ T \ {anyOf(T)} # T
PROOF
  BY DEF anyOf

\* Two such functions agree where both are defined.
LEMMA AddsAgree ==
  ASSUME NEW f, NEW S, NEW R, NEW h, NEW k, Adds(h, f, S), Adds(k, f, R),
         NEW T, IsFiniteSet(T), T \in SUBSET S, T \in SUBSET R
  PROVE  h[T] = k[T]
PROOF
<1> DEFINE C == {U \in SUBSET T : h[U] = k[U]}
<1>1. ASSUME NEW U \in SUBSET T, \A V \in SUBSET U : V # U => V \in C
      PROVE  U \in C
  <2>1. U \in SUBSET S /\ U \in SUBSET R
    OBVIOUS
  <2>2. /\ h[U] = IF U = {} THEN 0 ELSE f[anyOf(U)] + h[U \ {anyOf(U)}]
        /\ k[U] = IF U = {} THEN 0 ELSE f[anyOf(U)] + k[U \ {anyOf(U)}]
    BY <2>1 DEF Adds
  <2>3. CASE U = {}
    BY <2>2, <2>3
  <2>4. CASE U # {}
    <3>1. h[U \ {anyOf(U)}] = k[U \ {anyOf(U)}]
      BY <1>1, <2>4, AnyOf
    <3> QED
      BY <2>2, <2>4, <3>1
  <2> QED
    BY <2>3, <2>4
<1>2. SUBSET T \subseteq C
  <2> HIDE DEF C
  <2> QED
    BY <1>1, SubsetInduction
<1> QED
  BY <1>2

\* There is one for every finite set.
LEMMA AddsExists ==
  ASSUME NEW f, NEW S, IsFiniteSet(S)
  PROVE  \E h : Adds(h, f, S)
PROOF
<1> DEFINE C == {T \in SUBSET S : \E h : Adds(h, f, T)}
           g(T) == (CHOOSE h : Adds(h, f, T))[T]
<1>1. ASSUME NEW T \in SUBSET S, \A U \in SUBSET T : U # T => U \in C
      PROVE  T \in C
  <2> DEFINE H == [U \in SUBSET T |-> IF U = {} THEN 0 ELSE f[anyOf(U)] + g(U \ {anyOf(U)})]
  <2>1. ASSUME NEW U \in SUBSET T, U # {}
        PROVE  H[U \ {anyOf(U)}] = g(U \ {anyOf(U)})
    <3> DEFINE V == U \ {anyOf(U)}
    <3>1. V \in SUBSET T /\ V # T /\ V \in SUBSET S /\ IsFiniteSet(V)
      BY <2>1, AnyOf, FS_Subset
    <3>2. PICK k : Adds(k, f, V) /\ k = CHOOSE h : Adds(h, f, V)
      BY <1>1, <3>1
    <3> HIDE DEF V
    <3>3. g(V) = IF V = {} THEN 0 ELSE f[anyOf(V)] + k[V \ {anyOf(V)}]
      BY <3>2 DEF Adds
    <3>4. H[V] = IF V = {} THEN 0 ELSE f[anyOf(V)] + g(V \ {anyOf(V)})
      BY <3>1
    <3>5. ASSUME V # {}
          PROVE  k[V \ {anyOf(V)}] = g(V \ {anyOf(V)})
      <4> DEFINE W == V \ {anyOf(V)}
      <4>1. W \in SUBSET V /\ W # T /\ W \in SUBSET T /\ W \in SUBSET S /\ IsFiniteSet(W)
        BY <3>1, <3>5, AnyOf, FS_Subset
      <4>2. PICK j : Adds(j, f, W) /\ j = CHOOSE h : Adds(h, f, W)
        BY <1>1, <4>1
      <4> HIDE DEF W
      <4>3. k[W] = j[W]
        BY <3>2, <4>1, <4>2, AddsAgree
      <4> QED
        BY <4>2, <4>3 DEF W
    <3>6. H[V] = g(V)
      BY <3>3, <3>4, <3>5
    <3> QED
      BY <3>6 DEF V
  <2>2. H = [U \in SUBSET T |-> IF U = {} THEN 0 ELSE f[anyOf(U)] + H[U \ {anyOf(U)}]]
    <3> HIDE DEF g
    <3>1. ASSUME NEW U \in SUBSET T
          PROVE  H[U] = IF U = {} THEN 0 ELSE f[anyOf(U)] + H[U \ {anyOf(U)}]
      BY <2>1, <3>1
    <3> QED
      BY <3>1
  <2>3. Adds(H, f, T)
    BY <2>2 DEF Adds
  <2> HIDE DEF H
  <2> QED
    BY <2>3
<1> HIDE DEF C
<1>2. SUBSET S \subseteq C
  BY <1>1, SubsetInduction
<1> QED
  BY <1>2 DEF C

\* A sum by any such function, of any set that has the summands.
LEMMA SumIsAny ==
  ASSUME NEW f, NEW S, NEW h, Adds(h, f, S), NEW T \in SUBSET S, IsFiniteSet(T)
  PROVE  SumFunctionOnSet(f, T) = h[T]
PROOF
<1>1. PICK k : Adds(k, f, T) /\ k = CHOOSE j : Adds(j, f, T)
  BY AddsExists
<1>2. SumFunctionOnSet(f, T) = k[T]
  BY <1>1, Unfolded
<1> QED
  BY <1>1, <1>2, AddsAgree

------------------------------------------------------------------------------
(* Sums.                                                                   *)

\* Nothing adds up to nothing.
THEOREM SumEmpty == \A f : SumFunctionOnSet(f, {}) = 0
PROOF
<1> TAKE f
<1>1. IsFiniteSet({})
  BY FS_EmptySet
<1>2. PICK h : Adds(h, f, {})
  BY <1>1, AddsExists
<1>3. h[{}] = 0
  BY <1>2 DEF Adds
<1> QED
  BY <1>1, <1>2, <1>3, SumIsAny

\* The recursion, of the sums themselves.
LEMMA SumStep ==
  ASSUME NEW f, NEW S, IsFiniteSet(S), S # {}
  PROVE  SumFunctionOnSet(f, S) = f[anyOf(S)] + SumFunctionOnSet(f, S \ {anyOf(S)})
PROOF
<1>1. PICK h : Adds(h, f, S)
  BY AddsExists
<1>2. S \ {anyOf(S)} \in SUBSET S /\ IsFiniteSet(S \ {anyOf(S)})
  BY FS_Subset
<1>3. h[S] = f[anyOf(S)] + h[S \ {anyOf(S)}]
  BY <1>1 DEF Adds
<1>4. SumFunctionOnSet(f, S) = h[S] /\ SumFunctionOnSet(f, S \ {anyOf(S)}) = h[S \ {anyOf(S)}]
  BY <1>1, <1>2, SumIsAny
<1> QED
  BY <1>3, <1>4

\* A sum of integers is one.
THEOREM SumInt ==
  ASSUME NEW f, NEW S, IsFiniteSet(S), \A x \in S : f[x] \in Int
  PROVE  SumFunctionOnSet(f, S) \in Int
PROOF
<1> DEFINE C == {T \in SUBSET S : SumFunctionOnSet(f, T) \in Int}
<1>1. ASSUME NEW T \in SUBSET S, \A U \in SUBSET T : U # T => U \in C
      PROVE  T \in C
  <2>1. CASE T = {}
    BY <2>1, SumEmpty
  <2>2. CASE T # {}
    <3>1. SumFunctionOnSet(f, T) = f[anyOf(T)] + SumFunctionOnSet(f, T \ {anyOf(T)})
      BY <2>2, SumStep, FS_Subset
    <3>2. f[anyOf(T)] \in Int /\ SumFunctionOnSet(f, T \ {anyOf(T)}) \in Int
      BY <1>1, <2>2, AnyOf
    <3> QED
      BY <3>1, <3>2
  <2> QED
    BY <2>1, <2>2
<1> HIDE DEF C
<1>2. SUBSET S \subseteq C
  BY <1>1, SubsetInduction
<1> QED
  BY <1>2 DEF C

\* The order of the summands does not matter: any of them may come first.
THEOREM SumRemove ==
  ASSUME NEW f, NEW S, IsFiniteSet(S), \A y \in S : f[y] \in Int, NEW x \in S
  PROVE  SumFunctionOnSet(f, S) = f[x] + SumFunctionOnSet(f, S \ {x})
PROOF
<1> DEFINE C == {T \in SUBSET S : \A y \in T :
                   SumFunctionOnSet(f, T) = f[y] + SumFunctionOnSet(f, T \ {y})}
<1>1. ASSUME NEW T \in SUBSET S, \A U \in SUBSET T : U # T => U \in C, NEW y \in T
      PROVE  SumFunctionOnSet(f, T) = f[y] + SumFunctionOnSet(f, T \ {y})
  <2> DEFINE z == anyOf(T)
             U == (T \ {y}) \ {z}
  <2>1. IsFiniteSet(T) /\ T # {}
    BY FS_Subset
  <2>2. SumFunctionOnSet(f, T) = f[z] + SumFunctionOnSet(f, T \ {z}) /\ z \in T
    BY <2>1, SumStep, AnyOf
  <2> HIDE DEF z
  <2>3. CASE y # z
    <3>1. U = (T \ {z}) \ {y}
      OBVIOUS
    <3>2. T \ {z} \in C /\ T \ {y} \in C
      BY <1>1, <2>2
    <3>3. /\ SumFunctionOnSet(f, T \ {z}) = f[y] + SumFunctionOnSet(f, U)
          /\ SumFunctionOnSet(f, T \ {y}) = f[z] + SumFunctionOnSet(f, U)
      BY <2>2, <2>3, <3>1, <3>2
    <3>4. IsFiniteSet(U) /\ \A u \in U : f[u] \in Int
      BY <2>1, FS_Subset
    <3>5. SumFunctionOnSet(f, U) \in Int /\ f[y] \in Int /\ f[z] \in Int
      BY <2>2, <3>4, SumInt
    <3> HIDE DEF U
    <3> QED
      BY <2>2, <3>3, <3>5
  <2> QED
    BY <2>2, <2>3
<1> HIDE DEF C
<1>2. ASSUME NEW T \in SUBSET S, \A U \in SUBSET T : U # T => U \in C
      PROVE  T \in C
  BY <1>1, <1>2 DEF C
<1>3. SUBSET S \subseteq C
  BY <1>2, SubsetInduction
<1> QED
  BY <1>3 DEF C

\* One more summand.
THEOREM SumAdd ==
  ASSUME NEW f, NEW S, IsFiniteSet(S), NEW x, x \notin S, \A y \in S \cup {x} : f[y] \in Int
  PROVE  SumFunctionOnSet(f, S \cup {x}) = f[x] + SumFunctionOnSet(f, S)
PROOF
<1>1. IsFiniteSet(S \cup {x}) /\ S = (S \cup {x}) \ {x}
  BY FS_AddElement
<1> QED
  BY <1>1, SumRemove

\* Only what is summed counts.
THEOREM SumSame ==
  ASSUME NEW f, NEW g, NEW S, IsFiniteSet(S), \A x \in S : f[x] = g[x] /\ f[x] \in Int
  PROVE  SumFunctionOnSet(f, S) = SumFunctionOnSet(g, S)
PROOF
<1> DEFINE C == {T \in SUBSET S : SumFunctionOnSet(f, T) = SumFunctionOnSet(g, T)}
<1>1. {} \in C
  BY SumEmpty
<1>2. ASSUME NEW T \in SUBSET S, NEW x \in S \ T, T \in C
      PROVE  T \cup {x} \in C
  <2>1. IsFiniteSet(T) /\ (\A y \in T \cup {x} : f[y] \in Int) /\ \A y \in T \cup {x} : g[y] \in Int
    BY FS_Subset
  <2>2. SumFunctionOnSet(f, T \cup {x}) = f[x] + SumFunctionOnSet(f, T)
    BY <2>1, SumAdd
  <2>3. SumFunctionOnSet(g, T \cup {x}) = g[x] + SumFunctionOnSet(g, T)
    BY <2>1, SumAdd
  <2> QED
    BY <1>2, <2>2, <2>3
<1> HIDE DEF C
<1>3. SUBSET S \subseteq C
  BY <1>1, <1>2, SetInduction
<1> QED
  BY <1>3 DEF C

\* What is not negative does not add up to less.
THEOREM SumNat ==
  ASSUME NEW f, NEW S, IsFiniteSet(S), \A x \in S : f[x] \in Nat
  PROVE  SumFunctionOnSet(f, S) \in Nat
PROOF
<1> DEFINE C == {T \in SUBSET S : SumFunctionOnSet(f, T) \in Nat}
<1>1. {} \in C
  BY SumEmpty
<1>2. ASSUME NEW T \in SUBSET S, NEW x \in S \ T, T \in C
      PROVE  T \cup {x} \in C
  <2>1. SumFunctionOnSet(f, T \cup {x}) = f[x] + SumFunctionOnSet(f, T)
    BY FS_Subset, SumAdd
  <2> QED
    BY <1>2, <2>1
<1> HIDE DEF C
<1>3. SUBSET S \subseteq C
  BY <1>1, <1>2, SetInduction
<1> QED
  BY <1>3 DEF C

\* A sum of two disjoint sets is the sum of their sums.
THEOREM SumUnion ==
  ASSUME NEW f, NEW R, NEW S, IsFiniteSet(R), IsFiniteSet(S), R \cap S = {},
         \A x \in R \cup S : f[x] \in Int
  PROVE  SumFunctionOnSet(f, R \cup S) = SumFunctionOnSet(f, R) + SumFunctionOnSet(f, S)
PROOF
<1> DEFINE C == {T \in SUBSET S :
                  SumFunctionOnSet(f, R \cup T) = SumFunctionOnSet(f, R) + SumFunctionOnSet(f, T)}
<1>1. {} \in C
  <2>1. R \cup {} = R /\ SumFunctionOnSet(f, R) \in Int
    BY SumInt
  <2> QED
    BY <2>1, SumEmpty
<1>2. ASSUME NEW T \in SUBSET S, NEW x \in S \ T, T \in C
      PROVE  T \cup {x} \in C
  <2>1. IsFiniteSet(T) /\ IsFiniteSet(R \cup T)
    BY FS_Subset, FS_Union
  <2>2. x \notin R \cup T /\ R \cup (T \cup {x}) = (R \cup T) \cup {x}
    OBVIOUS
  <2>3. SumFunctionOnSet(f, T \cup {x}) = f[x] + SumFunctionOnSet(f, T)
    BY <2>1, SumAdd
  <2>4. SumFunctionOnSet(f, R \cup (T \cup {x})) = f[x] + SumFunctionOnSet(f, R \cup T)
    BY <2>1, <2>2, SumAdd
  <2>5. SumFunctionOnSet(f, R) \in Int /\ SumFunctionOnSet(f, T) \in Int /\ f[x] \in Int
    BY <2>1, SumInt
  <2> QED
    BY <1>2, <2>3, <2>4, <2>5
<1> HIDE DEF C
<1>3. SUBSET S \subseteq C
  BY <1>1, <1>2, SetInduction, Z3
<1> QED
  BY <1>3 DEF C

\* More of what is not negative is not less.
THEOREM SumMonotone ==
  ASSUME NEW f, NEW S, IsFiniteSet(S), \A x \in S : f[x] \in Nat, NEW T \in SUBSET S
  PROVE  SumFunctionOnSet(f, T) <= SumFunctionOnSet(f, S)
PROOF
<1> DEFINE R == S \ T
<1>1. S = T \cup R /\ T \cap R = {} /\ IsFiniteSet(T) /\ IsFiniteSet(R) /\ R \in SUBSET S
  BY FS_Subset
<1> HIDE DEF R
<1>2. SumFunctionOnSet(f, T) \in Nat /\ SumFunctionOnSet(f, R) \in Nat
  BY <1>1, SumNat
<1>3. SumFunctionOnSet(f, S) = SumFunctionOnSet(f, T) + SumFunctionOnSet(f, R)
  BY <1>1, SumUnion
<1> QED
  BY <1>1, <1>2, <1>3

\* Sums of summands that are each no greater.
THEOREM SumLess ==
  ASSUME NEW f, NEW g, NEW S, IsFiniteSet(S),
         \A x \in S : f[x] \in Int /\ g[x] \in Int /\ f[x] <= g[x]
  PROVE  SumFunctionOnSet(f, S) <= SumFunctionOnSet(g, S)
PROOF
<1> DEFINE C == {T \in SUBSET S : SumFunctionOnSet(f, T) <= SumFunctionOnSet(g, T)}
<1>1. {} \in C
  BY SumEmpty
<1>2. ASSUME NEW T \in SUBSET S, NEW x \in S \ T, T \in C
      PROVE  T \cup {x} \in C
  <2>1. IsFiniteSet(T)
    BY FS_Subset
  <2>2. SumFunctionOnSet(f, T \cup {x}) = f[x] + SumFunctionOnSet(f, T)
    BY <2>1, SumAdd
  <2>3. SumFunctionOnSet(g, T \cup {x}) = g[x] + SumFunctionOnSet(g, T)
    BY <2>1, SumAdd
  <2>4. SumFunctionOnSet(f, T) \in Int /\ SumFunctionOnSet(g, T) \in Int
    BY <2>1, SumInt
  <2>5. f[x] <= g[x] /\ f[x] \in Int /\ g[x] \in Int
    OBVIOUS
  <2> QED
    BY <1>2, <2>2, <2>3, <2>4, <2>5
<1> HIDE DEF C
<1>3. SUBSET S \subseteq C
  BY <1>1, <1>2, SetInduction
<1> QED
  BY <1>3 DEF C

\* A sum of sums, summand by summand.
THEOREM SumPlus ==
  ASSUME NEW f, NEW g, NEW h, NEW S, IsFiniteSet(S),
         \A x \in S : f[x] \in Int /\ g[x] \in Int /\ h[x] = f[x] + g[x]
  PROVE  SumFunctionOnSet(h, S) = SumFunctionOnSet(f, S) + SumFunctionOnSet(g, S)
PROOF
<1> DEFINE C == {T \in SUBSET S :
                  SumFunctionOnSet(h, T) = SumFunctionOnSet(f, T) + SumFunctionOnSet(g, T)}
<1>1. {} \in C
  BY SumEmpty
<1>2. ASSUME NEW T \in SUBSET S, NEW x \in S \ T, T \in C
      PROVE  T \cup {x} \in C
  <2>1. IsFiniteSet(T)
    BY FS_Subset
  <2>2. SumFunctionOnSet(f, T \cup {x}) = f[x] + SumFunctionOnSet(f, T)
    BY <2>1, SumAdd
  <2>3. SumFunctionOnSet(g, T \cup {x}) = g[x] + SumFunctionOnSet(g, T)
    BY <2>1, SumAdd
  <2>4. SumFunctionOnSet(h, T \cup {x}) = h[x] + SumFunctionOnSet(h, T)
    BY <2>1, SumAdd
  <2>5. SumFunctionOnSet(f, T) \in Int /\ SumFunctionOnSet(g, T) \in Int
    BY <2>1, SumInt
  <2>6. h[x] = f[x] + g[x] /\ f[x] \in Int /\ g[x] \in Int
    OBVIOUS
  <2> QED
    BY <1>2, <2>2, <2>3, <2>4, <2>5, <2>6
<1> HIDE DEF C
<1>3. SUBSET S \subseteq C
  BY <1>1, <1>2, SetInduction
<1> QED
  BY <1>3 DEF C

\* A sum of equal summands.
THEOREM SumConstant ==
  ASSUME NEW f, NEW S, IsFiniteSet(S), NEW c \in Int, \A x \in S : f[x] = c
  PROVE  SumFunctionOnSet(f, S) = c * Cardinality(S)
PROOF
<1> DEFINE C == {T \in SUBSET S : SumFunctionOnSet(f, T) = c * Cardinality(T)}
<1>1. {} \in C
  BY SumEmpty, FS_EmptySet
<1>2. ASSUME NEW T \in SUBSET S, NEW x \in S \ T, T \in C
      PROVE  T \cup {x} \in C
  <2>1. IsFiniteSet(T)
    BY FS_Subset
  <2>2. SumFunctionOnSet(f, T \cup {x}) = c + SumFunctionOnSet(f, T)
    BY <2>1, SumAdd
  <2>3. Cardinality(T \cup {x}) = Cardinality(T) + 1 /\ Cardinality(T) \in Nat
    BY <2>1, FS_AddElement, FS_CardinalityType
  <2>4. c * (Cardinality(T) + 1) = c + c * Cardinality(T)
    BY <2>3
  <2> QED
    BY <1>2, <2>2, <2>3, <2>4
<1> HIDE DEF C
<1>3. SUBSET S \subseteq C
  BY <1>1, <1>2, SetInduction
<1> QED
  BY <1>3 DEF C

\* A sum of multiples.
THEOREM SumTimes ==
  ASSUME NEW f, NEW g, NEW S, IsFiniteSet(S), NEW c \in Int,
         \A x \in S : f[x] \in Int /\ g[x] = c * f[x]
  PROVE  SumFunctionOnSet(g, S) = c * SumFunctionOnSet(f, S)
PROOF
<1> DEFINE C == {T \in SUBSET S : SumFunctionOnSet(g, T) = c * SumFunctionOnSet(f, T)}
<1>1. {} \in C
  BY SumEmpty
<1>2. ASSUME NEW T \in SUBSET S, NEW x \in S \ T, T \in C
      PROVE  T \cup {x} \in C
  <2>1. IsFiniteSet(T) /\ f[x] \in Int /\ g[x] = c * f[x] /\ \A y \in T : g[y] \in Int
    BY FS_Subset
  <2>2. SumFunctionOnSet(f, T \cup {x}) = f[x] + SumFunctionOnSet(f, T)
    BY <2>1, SumAdd
  <2>3. SumFunctionOnSet(g, T \cup {x}) = g[x] + SumFunctionOnSet(g, T)
    BY <2>1, SumAdd
  <2>4. SumFunctionOnSet(f, T) \in Int
    BY <2>1, SumInt
  <2>5. c * (f[x] + SumFunctionOnSet(f, T)) = c * f[x] + c * SumFunctionOnSet(f, T)
    BY <2>1, <2>4
  <2> QED
    BY <1>2, <2>1, <2>2, <2>3, <2>5
<1> HIDE DEF C
<1>3. SUBSET S \subseteq C
  BY <1>1, <1>2, SetInduction
<1> QED
  BY <1>3 DEF C

\* A sum of opposites.
THEOREM SumOpposite ==
  ASSUME NEW f, NEW g, NEW S, IsFiniteSet(S), \A x \in S : f[x] \in Int /\ g[x] = - f[x]
  PROVE  SumFunctionOnSet(g, S) = - SumFunctionOnSet(f, S)
PROOF
<1> PICK h : h = [x \in S |-> 0]
  OBVIOUS
<1>1. \A x \in S : f[x] \in Int /\ g[x] \in Int /\ h[x] = f[x] + g[x]
  OBVIOUS
<1>2. SumFunctionOnSet(h, S) = SumFunctionOnSet(f, S) + SumFunctionOnSet(g, S)
  BY <1>1, SumPlus
<1>3. SumFunctionOnSet(h, S) = 0
  <2>1. PICK c \in Int : c = 0
    OBVIOUS
  <2>2. \A x \in S : h[x] = c
    BY <2>1
  <2>3. SumFunctionOnSet(h, S) = c * Cardinality(S)
    BY <2>2, SumConstant
  <2> QED
    BY <2>1, <2>3, FS_CardinalityType
<1>4. SumFunctionOnSet(f, S) \in Int /\ SumFunctionOnSet(g, S) \in Int
  BY <1>1, SumInt
<1> QED
  BY <1>2, <1>3, <1>4

\* Counting is adding ones.
THEOREM SumCount ==
  ASSUME NEW f, NEW S, IsFiniteSet(S), NEW T \in SUBSET S,
         \A x \in S : f[x] = IF x \in T THEN 1 ELSE 0
  PROVE  SumFunctionOnSet(f, S) = Cardinality(T)
PROOF
<1> DEFINE R == S \ T
<1>1. /\ IsFiniteSet(T) /\ IsFiniteSet(R) /\ T \cap R = {} /\ S = T \cup R
      /\ Cardinality(T) \in Nat /\ Cardinality(R) \in Nat
      /\ \A x \in T : f[x] = 1
      /\ \A x \in R : f[x] = 0
  BY FS_Subset, FS_CardinalityType
<1> HIDE DEF R
<1>2. SumFunctionOnSet(f, T) = 1 * Cardinality(T)
  BY <1>1, SumConstant
<1>3. SumFunctionOnSet(f, R) = 0 * Cardinality(R)
  BY <1>1, SumConstant
<1>4. SumFunctionOnSet(f, S) = SumFunctionOnSet(f, T) + SumFunctionOnSet(f, R)
  BY <1>1, SumUnion
<1> QED
  BY <1>1, <1>2, <1>3, <1>4

------------------------------------------------------------------------------
(* The queue for dust.                                                     *)

before(t, s, amount) == amount[t] > amount[s] \/ (amount[t] = amount[s] /\ t < s)

\* Who comes before s.
ahead(s, W, amount) == {t \in W : before(t, s, amount)}

\* The rank counts them.
LEMMA RankIs ==
  ASSUME NEW s, NEW W, NEW amount
  PROVE  claimRank(s, W, amount) = Cardinality(ahead(s, W, amount))
PROOF
  BY DEF claimRank, ahead, before

\* One of two is ahead of the other, and of all that are ahead of the latter.
LEMMA Ordered ==
  ASSUME NEW W \in SUBSET Int, IsFiniteSet(W), NEW amount, \A s \in W : amount[s] \in Int,
         NEW s \in W, NEW t \in W, before(t, s, amount)
  PROVE  claimRank(t, W, amount) < claimRank(s, W, amount)
PROOF
<1>1. /\ ahead(t, W, amount) \in SUBSET ahead(s, W, amount)
      /\ t \in ahead(s, W, amount) /\ t \notin ahead(t, W, amount)
  <2>1. /\ amount[s] \in Int /\ amount[t] \in Int /\ s \in Int /\ t \in Int
        /\ \A u \in W : amount[u] \in Int /\ u \in Int
    OBVIOUS
  <2>2. ~ before(t, t, amount)
    BY <2>1 DEF before
  <2>3. \A u \in W : before(u, t, amount) => before(u, s, amount)
    BY <2>1 DEF before
  <2> QED
    BY <2>2, <2>3 DEF ahead
<1>2. IsFiniteSet(ahead(s, W, amount))
  BY FS_Subset DEF ahead
<1>3. Cardinality(ahead(t, W, amount)) <= Cardinality(ahead(s, W, amount))
  BY <1>1, <1>2, FS_Subset
<1>4. Cardinality(ahead(t, W, amount)) # Cardinality(ahead(s, W, amount))
  BY <1>1, <1>2, FS_Subset
<1>5. Cardinality(ahead(t, W, amount)) \in Nat /\ Cardinality(ahead(s, W, amount)) \in Nat
  BY <1>1, <1>2, FS_Subset, FS_CardinalityType
<1> QED
  BY <1>3, <1>4, <1>5, RankIs

\* The ranks of the winners are 0..n-1, each once.
LEMMA Ranks ==
  ASSUME NEW W \in SUBSET Int, IsFiniteSet(W), W # {}, NEW amount, \A s \in W : amount[s] \in Int
  PROVE  [s \in W |-> claimRank(s, W, amount)] \in Bijection(W, 0..(Cardinality(W) - 1))
PROOF
<1> DEFINE rank == [s \in W |-> claimRank(s, W, amount)]
           n == Cardinality(W)
<1>1. n \in Nat /\ n # 0
  BY FS_CardinalityType, FS_EmptySet
<1>2. ASSUME NEW s \in W
      PROVE  claimRank(s, W, amount) \in 0..(n - 1)
  <2>1. ahead(s, W, amount) \in SUBSET (W \ {s})
    BY DEF ahead, before
  <2>2. IsFiniteSet(W \ {s}) /\ Cardinality(W \ {s}) = n - 1
    BY FS_RemoveElement
  <2>3. /\ Cardinality(ahead(s, W, amount)) \in Nat
        /\ Cardinality(ahead(s, W, amount)) <= n - 1
    BY <2>1, <2>2, FS_Subset, FS_CardinalityType
  <2> QED
    BY <1>1, <2>3, RankIs
<1>3. ASSUME NEW s \in W, NEW t \in W, s # t
      PROVE  claimRank(s, W, amount) # claimRank(t, W, amount)
  <2>1. before(s, t, amount) \/ before(t, s, amount)
    BY <1>3 DEF before
  <2>2. claimRank(s, W, amount) \in Int /\ claimRank(t, W, amount) \in Int
    BY <1>1, <1>2
  <2> QED
    BY <2>1, <2>2, Ordered
<1>4. rank \in Injection(W, 0..(n - 1))
  BY <1>2, <1>3 DEF Injection, IsInjective
<1>5. IsFiniteSet(0..(n - 1)) /\ Cardinality(0..(n - 1)) = n
  BY <1>1, FS_Interval
<1>6. rank \in Surjection(W, 0..(n - 1))
  BY <1>4, <1>5, FS_Injection
<1> QED
  BY <1>4, <1>6 DEF Bijection

\* So as many winners as there are units to hand out come early enough for one.
LEMMA FirstInQueue ==
  ASSUME NEW W \in SUBSET Int, IsFiniteSet(W), W # {}, NEW amount, \A s \in W : amount[s] \in Int,
         NEW k \in 0..Cardinality(W)
  PROVE  Cardinality({s \in W : claimRank(s, W, amount) < k}) = k
PROOF
<1> DEFINE rank == [s \in W |-> claimRank(s, W, amount)]
           n == Cardinality(W)
           First == {s \in W : claimRank(s, W, amount) < k}
           f == [s \in First |-> rank[s]]
<1>1. n \in Nat /\ k \in Nat /\ k <= n
  BY FS_CardinalityType
<1>2. rank \in Bijection(W, 0..(n - 1)) /\ \A s \in W : rank[s] = claimRank(s, W, amount)
  BY Ranks
<1> HIDE DEF rank
<1>3. f \in Injection(First, 0..(k - 1))
  <2>1. /\ \A s \in W : rank[s] \in 0..(n - 1)
        /\ \A s, t \in W : rank[s] = rank[t] => s = t
    BY <1>2 DEF Bijection, Injection, IsInjective
  <2>2. \A s \in First : s \in W /\ rank[s] < k
    BY <1>2
  <2>3. \A s \in First : rank[s] \in 0..(k - 1)
    BY <1>1, <2>1, <2>2
  <2>5. f \in [First -> 0..(k - 1)]
    <3> HIDE DEF First
    <3> QED
      BY <2>3
  <2>4. \A s, t \in First : f[s] = f[t] => s = t
    BY <2>1, <2>2
  <2> QED
    BY <2>4, <2>5 DEF Injection, IsInjective
<1>4. f \in Surjection(First, 0..(k - 1))
  BY <1>1, <1>2, <1>3 DEF Bijection, Injection, IsInjective, Surjection
<1>5. IsFiniteSet(0..(k - 1)) /\ Cardinality(0..(k - 1)) = k
  <2>1. PICK j \in Int : j = k - 1
    BY <1>1
  <2>2. IsFiniteSet(0..j) /\ Cardinality(0..j) = IF 0 > j THEN 0 ELSE j - 0 + 1
    BY FS_Interval
  <2> QED
    BY <1>1, <2>1, <2>2
<1> QED
  BY <1>3, <1>4, <1>5, FS_Injection
------------------------------------------------------------------------------
(* The floors.                                                             *)

\* What a division leaves over.
LEMMA Floor ==
  ASSUME NEW a \in Nat, NEW b \in Nat, b # 0
  PROVE  a \div b \in Nat /\ (a \div b) * b <= a /\ a < (a \div b) * b + b
PROOF
  OBVIOUS

\* A number that is not less than b only by what a positive multiple can hide.
LEMMA Cancels ==
  ASSUME NEW a \in Int, NEW b \in Int, NEW p \in Nat, p # 0
  PROVE  /\ a * p <= b * p => a <= b
         /\ a * p < b * p => a < b
PROOF
  OBVIOUS

\* The floors add up to less than the pool, but by less than one unit for each winner.
LEMMA DustIsLittle ==
  ASSUME NEW W, IsFiniteSet(W), NEW amount, \A s \in W : amount[s] \in Nat,
         NEW pool \in Nat, pool = poolOf(W, amount), pool # 0, NEW losers \in Nat,
         NEW share, share = [s \in W |-> shareOf(s, amount, pool, losers)]
  PROVE  losers - SumFunctionOnSet(share, W) \in 0..(Cardinality(W) - 1)
PROOF
<1> DEFINE n == Cardinality(W)
           exact == [s \in W |-> losers * amount[s]]
           paid == [s \in W |-> pool * share[s]]
           lost == [s \in W |-> exact[s] - paid[s]]
           most == [s \in W |-> pool - 1]
<1>1. ASSUME NEW s \in W
      PROVE  /\ share[s] \in Nat /\ exact[s] \in Int /\ paid[s] \in Int
             /\ 0 <= lost[s] /\ lost[s] <= pool - 1 /\ lost[s] \in Nat
             /\ exact[s] = paid[s] + lost[s]
  <2>1. amount[s] * losers \in Nat /\ amount[s] * losers = losers * amount[s]
    OBVIOUS
  <2>2. PICK a \in Nat : a = amount[s] * losers
    BY <2>1
  <2>3. share[s] = a \div pool
    BY <2>2 DEF shareOf
  <2>4. share[s] \in Nat /\ share[s] * pool <= a /\ a < share[s] * pool + pool
    BY <2>3, Floor
  <2>5. share[s] * pool = pool * share[s] /\ pool * share[s] \in Nat
    BY <2>4
  <2> QED
    BY <2>1, <2>2, <2>4, <2>5
<1>2. SumFunctionOnSet(exact, W) = losers * pool
  BY <1>1, SumTimes DEF poolOf
<1>3. SumFunctionOnSet(paid, W) = pool * SumFunctionOnSet(share, W)
  BY <1>1, SumTimes
<1>4. SumFunctionOnSet(exact, W) = SumFunctionOnSet(paid, W) + SumFunctionOnSet(lost, W)
  BY <1>1, SumPlus
<1>5. SumFunctionOnSet(lost, W) \in Nat
  BY <1>1, SumNat
<1>6. SumFunctionOnSet(lost, W) <= SumFunctionOnSet(most, W)
  BY <1>1, SumLess
<1>7. SumFunctionOnSet(most, W) = (pool - 1) * n
  BY SumConstant
<1>8. SumFunctionOnSet(share, W) \in Nat /\ n \in Nat
  BY <1>1, SumNat, FS_CardinalityType
<1>9. n # 0
  BY SumEmpty, FS_EmptySet DEF poolOf
<1>10. PICK total \in Nat, left \in Nat : /\ total = SumFunctionOnSet(share, W)
                                         /\ left = SumFunctionOnSet(lost, W)
  BY <1>5, <1>8
<1>11. losers * pool = pool * total + left /\ left <= (pool - 1) * n
  BY <1>2, <1>3, <1>4, <1>6, <1>7, <1>10
<1> HIDE DEF n, exact, paid, lost, most
<1>12. (losers - total) * pool = left
  BY <1>11
<1>13. left < n * pool
  BY <1>8, <1>9, <1>11
<1>14. 0 * pool <= (losers - total) * pool /\ (losers - total) * pool < n * pool
  BY <1>12, <1>13
<1>15. 0 <= losers - total /\ losers - total < n
  BY <1>8, <1>14, Cancels
<1> QED
  BY <1>8, <1>10, <1>15 DEF n
------------------------------------------------------------------------------
(* The division.                                                           *)

\* The shares are the floors, the dust is a unit or nothing, and both together are
\* what the losers staked.
LEMMA Division ==
  ASSUME NEW S \in SUBSET Int, IsFiniteSet(S), NEW amount, \A s \in S : amount[s] \in Nat,
         NEW outcome, NEW w, NEW W, W = winnersOf(S, outcome, w),
         NEW pool, pool = poolOf(W, amount), pool # 0,
         NEW losers, losers = poolOf(S \ W, amount)
  PROVE  \E share, dust :
           /\ splitPayouts(S, amount, outcome, w) = [s \in W |-> amount[s] + share[s] + dust[s]]
           /\ \A s \in W : share[s] = shareOf(s, amount, pool, losers) /\ share[s] \in Nat
                           /\ dust[s] \in {0, 1}
           /\ SumFunctionOnSet(share, W) + SumFunctionOnSet(dust, W) = losers
PROOF
<1>1. /\ W \in SUBSET S /\ IsFiniteSet(W) /\ IsFiniteSet(S \ W)
      /\ \A s \in W : amount[s] \in Nat
  BY FS_Subset DEF winnersOf
<1>2. pool \in Nat /\ losers \in Nat
  BY <1>1, SumNat DEF poolOf
<1>3. W # {}
  BY SumEmpty DEF poolOf
<1> DEFINE share == [s \in W |-> shareOf(s, amount, pool, losers)]
           n == Cardinality(W)
           remainder == losers - SumFunctionOnSet(share, W)
           First == {s \in W : claimRank(s, W, amount) < remainder}
           dust == [s \in W |-> (remainder \div n)
                                + IF claimRank(s, W, amount) < remainder % n THEN 1 ELSE 0]
<1>4. SumFunction(share) = SumFunctionOnSet(share, W)
  BY DEF SumFunction
<1>5. splitPayouts(S, amount, outcome, w) = [s \in W |-> amount[s] + share[s] + dust[s]]
  BY <1>4 DEF splitPayouts
<1>6. remainder \in 0..(n - 1)
  BY <1>1, <1>2, DustIsLittle
<1>7. ASSUME NEW s \in W
      PROVE  share[s] \in Nat
  <2>1. amount[s] * losers \in Nat
    BY <1>1, <1>2
  <2>2. (amount[s] * losers) \div pool \in Nat
    BY <1>2, <2>1, Floor
  <2> QED
    BY <2>2 DEF shareOf
<1>8. SumFunctionOnSet(share, W) \in Nat
  BY <1>1, <1>7, SumNat
<1>9. n \in Nat /\ n # 0
  BY <1>1, <1>3, FS_CardinalityType, FS_EmptySet
<1>10. PICK r \in 0..(n - 1) : r = remainder
  BY <1>6
<1>11. r \div n = 0 /\ r % n = r
  BY <1>9, <1>10
<1>12. \A s \in W : dust[s] = IF s \in First THEN 1 ELSE 0
  BY <1>10, <1>11
<1>13. Cardinality(First) = remainder
  <2>1. remainder \in 0..Cardinality(W)
    BY <1>6, <1>9
  <2>2. W \in SUBSET Int
    BY <1>1
  <2>3. \A s \in W : amount[s] \in Int
    BY <1>1
  <2> HIDE DEF remainder
  <2> QED
    BY <1>1, <1>3, <2>1, <2>2, <2>3, FirstInQueue
<1>14. SumFunctionOnSet(dust, W) = Cardinality(First)
  <2> First \in SUBSET W
    OBVIOUS
  <2> HIDE DEF First, dust
  <2> QED
    BY <1>1, <1>12, SumCount
<1>15. SumFunctionOnSet(share, W) + SumFunctionOnSet(dust, W) = losers
  BY <1>2, <1>8, <1>13, <1>14
<1>16. \A s \in W : share[s] = shareOf(s, amount, pool, losers) /\ share[s] \in Nat
                    /\ dust[s] \in {0, 1}
  BY <1>7, <1>12
<1> HIDE DEF share, dust
<1> QED
  BY <1>5, <1>15, <1>16

\* splitPayouts pays nobody when no stake backed the outcome.
LEMMA NobodyWon ==
  ASSUME NEW S, NEW amount, NEW outcome, NEW w,
         poolOf(winnersOf(S, outcome, w), amount) = 0
  PROVE  splitPayouts(S, amount, outcome, w) = [s \in {} |-> 0]
PROOF
  BY DEF splitPayouts

\* splitPayouts: what is paid out is what was staked, to the unit, whatever the book.
THEOREM SplitIsExact ==
  ASSUME NEW S \in SUBSET Int, IsFiniteSet(S), NEW amount, \A s \in S : amount[s] \in Nat,
         NEW outcome, NEW w
  PROVE  ExactSplit(S, amount, outcome, w)
PROOF
<1> PICK W, pool, losers, p : /\ W = winnersOf(S, outcome, w)
                             /\ pool = poolOf(W, amount)
                             /\ losers = poolOf(S \ W, amount)
                             /\ p = splitPayouts(S, amount, outcome, w)
  OBVIOUS
<1>1. CASE pool = 0
  <2>1. DOMAIN p = {}
    BY <1>1, NobodyWon
  <2> QED
    BY <2>1 DEF ExactSplit
<1>2. CASE pool # 0
  <2>1. PICK share, dust :
           /\ p = [s \in W |-> amount[s] + share[s] + dust[s]]
           /\ \A s \in W : share[s] = shareOf(s, amount, pool, losers) /\ share[s] \in Nat
                           /\ dust[s] \in {0, 1}
           /\ SumFunctionOnSet(share, W) + SumFunctionOnSet(dust, W) = losers
    BY <1>2, Division
  <2>2. /\ W \in SUBSET S /\ IsFiniteSet(W) /\ IsFiniteSet(S \ W) /\ W \cup (S \ W) = S
        /\ W \cap (S \ W) = {}
    BY FS_Subset DEF winnersOf
  <2> DEFINE extra == [s \in W |-> share[s] + dust[s]]
  <2>3. \A s \in W : /\ amount[s] \in Int /\ extra[s] \in Int /\ share[s] \in Int /\ dust[s] \in Int
                     /\ extra[s] = share[s] + dust[s] /\ p[s] = amount[s] + extra[s]
    BY <2>1, <2>2
  <2> HIDE DEF extra
  <2>4. SumFunctionOnSet(extra, W) = SumFunctionOnSet(share, W) + SumFunctionOnSet(dust, W)
    <3>1. \A s \in W : share[s] \in Int /\ dust[s] \in Int /\ extra[s] = share[s] + dust[s]
      BY <2>3
    <3>2. IsFiniteSet(W)
      BY <2>2
    <3> QED
      BY <3>1, <3>2, SumPlus
  <2>5. SumFunctionOnSet(p, W) = SumFunctionOnSet(amount, W) + SumFunctionOnSet(extra, W)
    <3>1. \A s \in W : amount[s] \in Int /\ extra[s] \in Int /\ p[s] = amount[s] + extra[s]
      BY <2>3
    <3>2. IsFiniteSet(W)
      BY <2>2
    <3> QED
      BY <3>1, <3>2, SumPlus
  <2>6. SumFunctionOnSet(amount, S) = SumFunctionOnSet(amount, W) + SumFunctionOnSet(amount, S \ W)
    <3>1. PICK L : L = S \ W
      OBVIOUS
    <3>2. \A s \in W \cup L : amount[s] \in Int
      BY <2>2, <3>1
    <3> QED
      BY <2>2, <3>1, <3>2, SumUnion
  <2>7. DOMAIN p = W
    BY <2>1
  <2>8. SumFunction(p) = poolOf(S, amount)
    BY <2>1, <2>4, <2>5, <2>6, <2>7 DEF SumFunction, poolOf
  <2> QED
    BY <2>8 DEF ExactSplit
<1> QED
  BY <1>1, <1>2

\* splitPayouts: a winner gets the stake back and the pro-rata share of the losers' money,
\* to within a unit, whoever else is in the book.
THEOREM SplitIsFair ==
  ASSUME NEW S \in SUBSET Int, IsFiniteSet(S), NEW amount, \A s \in S : amount[s] \in Nat,
         NEW outcome, NEW w
  PROVE  FairSplit(S, amount, outcome, w)
PROOF
<1> PICK W, pool, losers, p : /\ W = winnersOf(S, outcome, w)
                             /\ pool = poolOf(W, amount)
                             /\ losers = poolOf(S \ W, amount)
                             /\ p = splitPayouts(S, amount, outcome, w)
  OBVIOUS
<1>1. CASE pool = 0
  <2>1. DOMAIN p = {}
    BY <1>1, NobodyWon
  <2> QED
    BY <2>1 DEF FairSplit
<1>2. CASE pool # 0
  <2>1. PICK share, dust :
           /\ p = [s \in W |-> amount[s] + share[s] + dust[s]]
           /\ \A s \in W : share[s] = shareOf(s, amount, pool, losers) /\ share[s] \in Nat
                           /\ dust[s] \in {0, 1}
           /\ SumFunctionOnSet(share, W) + SumFunctionOnSet(dust, W) = losers
    BY <1>2, Division
  <2>2. /\ W \in SUBSET S /\ IsFiniteSet(W) /\ IsFiniteSet(S \ W) /\ W \cup (S \ W) = S
        /\ W \cap (S \ W) = {}
    BY FS_Subset DEF winnersOf
  <2>3. poolOf(S, amount) = pool + losers
    <3>1. PICK L : L = S \ W
      OBVIOUS
    <3>2. \A s \in W \cup L : amount[s] \in Int
      BY <2>2, <3>1
    <3> QED
      BY <2>2, <3>1, <3>2, SumUnion DEF poolOf
  <2>4. pool \in Nat /\ losers \in Nat
    BY <2>2, SumNat DEF poolOf
  <2>5. ASSUME NEW s \in W
        PROVE  /\ amount[s] * losers - pool < (p[s] - amount[s]) * pool
               /\ (p[s] - amount[s]) * pool <= amount[s] * losers + pool
    <3>1. PICK a \in Nat, q \in Nat : a = amount[s] * losers /\ q = a \div pool
      BY <2>2, <2>4, <1>2, Floor
    <3>2. q * pool <= a /\ a < q * pool + pool
      BY <1>2, <2>4, <3>1, Floor
    <3>3. share[s] = q
      BY <2>1, <3>1 DEF shareOf
    <3>4. p[s] - amount[s] = q \/ p[s] - amount[s] = q + 1
      <4>1. p[s] = amount[s] + q + dust[s] /\ dust[s] \in {0, 1} /\ amount[s] \in Nat
        BY <2>1, <2>2, <3>3
      <4> QED
        BY <4>1
    <3> QED
      BY <2>4, <3>1, <3>2, <3>4
  <2>6. DOMAIN p = W
    BY <2>1
  <2>7. poolOf(S, amount) - pool = losers
    BY <2>3, <2>4
  <2> QED
    BY <2>5, <2>6, <2>7 DEF FairSplit
<1> QED
  BY <1>1, <1>2

\* splitPayouts pays the stakes that backed the outcome, and nobody less than was staked.
LEMMA WinnersArePaid ==
  ASSUME NEW S \in SUBSET Int, IsFiniteSet(S), NEW amount, \A s \in S : amount[s] \in Nat,
         NEW outcome, NEW w, NEW s \in DOMAIN splitPayouts(S, amount, outcome, w)
  PROVE  /\ s \in S /\ outcome[s] = w
         /\ splitPayouts(S, amount, outcome, w)[s] \in Nat
         /\ splitPayouts(S, amount, outcome, w)[s] >= amount[s]
PROOF
<1> PICK W, pool, losers, p : /\ W = winnersOf(S, outcome, w)
                             /\ pool = poolOf(W, amount)
                             /\ losers = poolOf(S \ W, amount)
                             /\ p = splitPayouts(S, amount, outcome, w)
  OBVIOUS
<1>1. pool # 0
  BY NobodyWon
<1>2. PICK share, dust :
         /\ p = [t \in W |-> amount[t] + share[t] + dust[t]]
         /\ \A t \in W : share[t] = shareOf(t, amount, pool, losers) /\ share[t] \in Nat
                         /\ dust[t] \in {0, 1}
         /\ SumFunctionOnSet(share, W) + SumFunctionOnSet(dust, W) = losers
  BY <1>1, Division
<1>3. s \in W
  BY <1>2
<1>4. s \in S /\ outcome[s] = w
  BY <1>3 DEF winnersOf
<1>5. p[s] = amount[s] + share[s] + dust[s] /\ share[s] \in Nat /\ dust[s] \in Nat /\ amount[s] \in Nat
  BY <1>2, <1>3, <1>4
<1> QED
  BY <1>4, <1>5

\* splitPayouts passes over a stake that backed the outcome only when none did.
LEMMA AllWinnersArePaid ==
  ASSUME NEW S \in SUBSET Int, IsFiniteSet(S), NEW amount, \A s \in S : amount[s] \in Nat,
         NEW outcome, NEW w, DOMAIN splitPayouts(S, amount, outcome, w) # {}
  PROVE  DOMAIN splitPayouts(S, amount, outcome, w) = winnersOf(S, outcome, w)
PROOF
<1> PICK W, pool, losers : /\ W = winnersOf(S, outcome, w)
                          /\ pool = poolOf(W, amount)
                          /\ losers = poolOf(S \ W, amount)
  OBVIOUS
<1>1. pool # 0
  BY NobodyWon
<1>2. PICK share, dust :
         splitPayouts(S, amount, outcome, w) = [t \in W |-> amount[t] + share[t] + dust[t]]
  BY <1>1, Division
<1> QED
  BY <1>2

\* What is paid, as a function.
LEMMA PayoutsType ==
  ASSUME NEW S \in SUBSET Int, IsFiniteSet(S), NEW amount, \A s \in S : amount[s] \in Nat,
         NEW outcome, NEW w
  PROVE  /\ DOMAIN splitPayouts(S, amount, outcome, w) \in SUBSET S
         /\ splitPayouts(S, amount, outcome, w) \in [DOMAIN splitPayouts(S, amount, outcome, w) -> Nat]
PROOF
<1> PICK p : p = splitPayouts(S, amount, outcome, w)
  OBVIOUS
<1>1. \A s \in DOMAIN p : s \in S /\ p[s] \in Nat
  BY WinnersArePaid
<1>2. p = [s \in DOMAIN p |-> p[s]]
  BY DEF splitPayouts
<1> QED
  BY <1>1, <1>2
==============================================================================
