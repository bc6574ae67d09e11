----------------------------- MODULE SumTheorems -----------------------------
(***************************************************************************)
(* Facts about SumFunctionOnSet, the sum of a function over a finite set,  *)
(* for the proofs about totals: costs, counts of outcomes, rates.  They    *)
(* are proved by induction over finite sets, in the form the provers can   *)
(* use: a set of sets that holds every set whose proper subsets it holds   *)
(* holds them all.                                                         *)
(***************************************************************************)
EXTENDS FiniteSetTheorems, TLAPS

-----------------------------------------------------------------------------
(* Induction *)

LEMMA NatInductive ==
  ASSUME NEW S \in SUBSET Nat, 0 \in S, \A n \in S : n + 1 \in S
  PROVE  S = Nat
<1> DEFINE T == Nat \ S
<1>1. SUFFICES ASSUME T # {} PROVE FALSE
  OBVIOUS
<1>2. PICK x \in T : \A y \in T : ~(<<y, x>> \in OpToRel(<, Nat))
  <2>1. T \subseteq Nat
    OBVIOUS
  <2> HIDE DEF T
  <2> QED BY <1>1, <2>1, NatLessThanWellFounded, WFMin, Zenon
<1>3. \A y \in T : ~(y < x)
  BY <1>2, Zenon DEF OpToRel, T
<1> QED BY <1>3

LEMMA FiniteSetInductive ==
  ASSUME NEW S, IsFiniteSet(S), NEW Good,
         \A T \in SUBSET S : (\A U \in SUBSET T : U # T => U \in Good) => T \in Good
  PROVE  S \in Good
<1> DEFINE Bad == {T \in SUBSET S : T \notin Good}
<1>1. SUFFICES ASSUME S \notin Good PROVE FALSE
  OBVIOUS
<1>2. Bad \subseteq FiniteSubsetsOf(S) /\ Bad # {}
  BY <1>1, FS_FiniteSubsetsOfFinite
<1>3. PICK T \in Bad : \A U \in Bad : ~(<<U, T>> \in StrictSubsetOrdering(S))
  <2> HIDE DEF Bad
  <2> QED BY <1>2, FS_StrictSubsetOrderingWellFounded, WFMin
<1>4. \A U \in Bad : ~(U \subseteq T /\ U # T)
  BY <1>3 DEF StrictSubsetOrdering
<1>5. T \in SUBSET S /\ \A U \in SUBSET T : U # T => U \in Good
  BY <1>4
<1> QED BY <1>5

-----------------------------------------------------------------------------
(* The recursive function that the sum is taken from *)

Summand(f, g, s) ==
  IF s = {} THEN 0 ELSE f[CHOOSE x \in s : TRUE] + g[s \ {CHOOSE x \in s : TRUE}]

Sums(f, g, S) == g = [s \in SUBSET S |-> Summand(f, g, s)]

LEMMA SumChoice ==
  ASSUME NEW f, NEW S
  PROVE  SumFunctionOnSet(f, S) = (CHOOSE g : Sums(f, g, S))[S]
BY DEF SumFunctionOnSet, FoldFunctionOnSet, MapThenFoldSet, Summand, Sums

LEMMA ChosenIn == ASSUME NEW s, s # {} PROVE (CHOOSE x \in s : TRUE) \in s
OBVIOUS

(* It exists: a solution for the subsets of one size extends to the next. *)
LEMMA SumsExist ==
  ASSUME NEW f, NEW S, IsFiniteSet(S)
  PROVE  \E g : Sums(f, g, S)
<1> DEFINE Small(n) == {s \in SUBSET S : Cardinality(s) <= n}
           Solves(g, n) == g = [s \in Small(n) |-> Summand(f, g, s)]
           Good == {n \in Nat : \E g : Solves(g, n)}
<1>1. \A s \in SUBSET S : IsFiniteSet(s) /\ Cardinality(s) \in Nat
                          /\ Cardinality(s) <= Cardinality(S)
  BY FS_Subset, FS_CardinalityType
<1>2. 0 \in Good
  <2> DEFINE g == [s \in Small(0) |-> 0]
  <2>1. \A s \in Small(0) : s = {}
    BY <1>1, FS_EmptySet
  <2>2. \A s \in Small(0) : Summand(f, g, s) = 0
    BY <2>1 DEF Summand
  <2>3. Solves(g, 0)
    BY <2>2
  <2> QED BY <2>3
<1>3. ASSUME NEW n \in Good PROVE n + 1 \in Good
  <2>1. PICK g : Solves(g, n)
    OBVIOUS
  <2> DEFINE h == [s \in Small(n + 1) |-> Summand(f, g, s)]
  <2>2. ASSUME NEW s \in Small(n + 1), s # {}
        PROVE  LET u == s \ {CHOOSE x \in s : TRUE} IN h[u] = g[u]
    <3> DEFINE u == s \ {CHOOSE x \in s : TRUE}
    <3>1. Cardinality(u) = Cardinality(s) - 1
      BY <1>1, <2>2, ChosenIn, FS_RemoveElement
    <3>2. u \in Small(n) /\ u \in Small(n + 1)
      BY <1>1, <3>1
    <3> HIDE DEF u, Small
    <3>3. h[u] = Summand(f, g, u) /\ g[u] = Summand(f, g, u)
      BY <2>1, <3>2
    <3> QED BY <3>3 DEF u
  <2>3. ASSUME NEW s \in Small(n + 1) PROVE Summand(f, g, s) = Summand(f, h, s)
    <3> HIDE DEF h
    <3> QED BY <2>2 DEF Summand
  <2>4. Solves(h, n + 1)
    <3>1. h = [s \in Small(n + 1) |-> Summand(f, h, s)]
      <4> HIDE DEF Small
      <4>1. h = [s \in Small(n + 1) |-> Summand(f, g, s)]
        OBVIOUS
      <4> HIDE DEF h
      <4> QED BY <2>3, <4>1
    <3> QED BY <3>1
  <2> HIDE DEF h, Small, Solves
  <2>5. n + 1 \in Nat
    OBVIOUS
  <2> QED BY <2>4, <2>5
<1>4. Good = Nat
  <2> HIDE DEF Good
  <2>1. Good \subseteq Nat
    BY DEF Good
  <2> QED BY <1>2, <1>3, <2>1, NatInductive
<1>5. PICK g : Solves(g, Cardinality(S))
  BY <1>1, <1>4
<1>6. Small(Cardinality(S)) = SUBSET S
  BY <1>1
<1> QED BY <1>5, <1>6 DEF Sums

(* It is the same whatever set around its argument it is defined on. *)
LEMMA SumsAgree ==
  ASSUME NEW f, NEW S, NEW T, NEW g, NEW h, Sums(f, g, S), Sums(f, h, T),
         NEW U, U \subseteq S, U \subseteq T, IsFiniteSet(U)
  PROVE  g[U] = h[U]
<1> DEFINE Good == {V \in SUBSET U : g[V] = h[V]}
<1>1. ASSUME NEW V \in SUBSET U, \A W \in SUBSET V : W # V => W \in Good
      PROVE  V \in Good
  <2>1. g[V] = Summand(f, g, V) /\ h[V] = Summand(f, h, V)
    BY DEF Sums
  <2>2. V # {} => LET W == V \ {CHOOSE x \in V : TRUE} IN g[W] = h[W]
    BY <1>1, ChosenIn
  <2>3. Summand(f, g, V) = Summand(f, h, V)
    BY <2>2 DEF Summand
  <2> QED BY <2>1, <2>3
<1>2. U \in Good
  <2> HIDE DEF Good
  <2> QED BY <1>1, FiniteSetInductive
<1> QED BY <1>2

LEMMA SumIs ==
  ASSUME NEW f, NEW S, IsFiniteSet(S), NEW g, Sums(f, g, S)
  PROVE  \A s \in SUBSET S : g[s] = SumFunctionOnSet(f, s)
<1> SUFFICES ASSUME NEW s \in SUBSET S PROVE g[s] = SumFunctionOnSet(f, s)
  OBVIOUS
<1> DEFINE h == CHOOSE k : Sums(f, k, s)
<1>1. IsFiniteSet(s)
  BY FS_Subset
<1>2. Sums(f, h, s)
  BY <1>1, SumsExist
<1>3. SumFunctionOnSet(f, s) = h[s]
  BY SumChoice
<1> HIDE DEF h
<1> QED BY <1>1, <1>2, <1>3, SumsAgree

LEMMA SumEquation ==
  ASSUME NEW f, NEW S, IsFiniteSet(S)
  PROVE  SumFunctionOnSet(f, S) =
           IF S = {} THEN 0
           ELSE LET x == CHOOSE x \in S : TRUE IN f[x] + SumFunctionOnSet(f, S \ {x})
<1>1. PICK g : Sums(f, g, S)
  BY SumsExist
<1>2. g[S] = Summand(f, g, S)
  BY <1>1 DEF Sums
<1>3. g[S] = SumFunctionOnSet(f, S)
  BY <1>1, SumIs
<1>4. ASSUME NEW x PROVE g[S \ {x}] = SumFunctionOnSet(f, S \ {x})
  <2>1. S \ {x} \in SUBSET S
    OBVIOUS
  <2> QED BY <1>1, <2>1, SumIs
<1> QED BY <1>2, <1>3, <1>4 DEF Summand

-----------------------------------------------------------------------------
(* Sums *)

(* A sum over nothing is zero. *)
LEMMA SumEmpty == ASSUME NEW f PROVE SumFunctionOnSet(f, {}) = 0
BY SumEquation, FS_EmptySet

(* A sum of integers is an integer. *)
LEMMA SumType ==
  ASSUME NEW f, NEW S, IsFiniteSet(S), \A x \in S : f[x] \in Int
  PROVE  SumFunctionOnSet(f, S) \in Int
<1> DEFINE Good == {T \in SUBSET S : SumFunctionOnSet(f, T) \in Int}
<1>1. ASSUME NEW T \in SUBSET S, \A U \in SUBSET T : U # T => U \in Good
      PROVE  T \in Good
  <2>1. CASE T = {}
    BY <2>1, SumEmpty
  <2>2. CASE T # {}
    <3> DEFINE x == CHOOSE x \in T : TRUE
    <3>1. x \in T
      BY <2>2
    <3>2. SumFunctionOnSet(f, T \ {x}) \in Int
      BY <1>1, <3>1
    <3>3. IsFiniteSet(T)
      BY FS_Subset
    <3>4. SumFunctionOnSet(f, T) = f[x] + SumFunctionOnSet(f, T \ {x})
      BY <2>2, <3>3, SumEquation
    <3> HIDE DEF x
    <3> QED BY <3>1, <3>2, <3>4
  <2> QED BY <2>1, <2>2
<1>2. S \in Good
  <2> HIDE DEF Good
  <2> QED BY <1>1, FiniteSetInductive
<1> QED BY <1>2

(* Any element can be taken out first, not only the one CHOOSE picks. *)
LEMMA SumRemove ==
  ASSUME NEW f, NEW S, IsFiniteSet(S), \A x \in S : f[x] \in Int, NEW y \in S
  PROVE  SumFunctionOnSet(f, S) = f[y] + SumFunctionOnSet(f, S \ {y})
<1> DEFINE Removes(T) == \A z \in T : SumFunctionOnSet(f, T) = f[z] + SumFunctionOnSet(f, T \ {z})
           Good == {T \in SUBSET S : Removes(T)}
<1>1. ASSUME NEW T \in SUBSET S, \A U \in SUBSET T : U # T => U \in Good
      PROVE  T \in Good
  <2> SUFFICES ASSUME NEW z \in T
               PROVE  SumFunctionOnSet(f, T) = f[z] + SumFunctionOnSet(f, T \ {z})
    OBVIOUS
  <2> DEFINE x == CHOOSE x \in T : TRUE
  <2>1. x \in T
    OBVIOUS
  <2>2. IsFiniteSet(T)
    BY FS_Subset
  <2>3. SumFunctionOnSet(f, T) = f[x] + SumFunctionOnSet(f, T \ {x})
    BY <2>2, SumEquation
  <2> HIDE DEF x
  <2>4. CASE x = z
    BY <2>3, <2>4
  <2>5. CASE x # z
    <3>1. z \in T \ {x} /\ x \in T \ {z}
      BY <2>1, <2>5
    <3>2. SumFunctionOnSet(f, T \ {x}) = f[z] + SumFunctionOnSet(f, (T \ {x}) \ {z})
      BY <1>1, <2>1, <3>1
    <3>3. SumFunctionOnSet(f, T \ {z}) = f[x] + SumFunctionOnSet(f, (T \ {z}) \ {x})
      BY <1>1, <3>1
    <3>4. (T \ {x}) \ {z} = (T \ {z}) \ {x}
      OBVIOUS
    <3>5. SumFunctionOnSet(f, (T \ {z}) \ {x}) \in Int
      BY <2>2, SumType, FS_Subset
    <3>6. f[x] \in Int /\ f[z] \in Int
      BY <2>1
    <3>7. SumFunctionOnSet(f, T) = f[x] + (f[z] + SumFunctionOnSet(f, (T \ {z}) \ {x}))
      BY <2>3, <3>2, <3>4
    <3> QED BY <3>3, <3>5, <3>6, <3>7
  <2> QED BY <2>4, <2>5
<1>2. S \in Good
  <2> HIDE DEF Good, Removes
  <2> QED BY <1>1, FiniteSetInductive
<1> QED BY <1>2

(* A new element adds its value. *)
LEMMA SumAdd ==
  ASSUME NEW f, NEW S, IsFiniteSet(S), NEW y, y \notin S, \A x \in S \cup {y} : f[x] \in Int
  PROVE  SumFunctionOnSet(f, S \cup {y}) = SumFunctionOnSet(f, S) + f[y]
<1>1. (S \cup {y}) \ {y} = S
  OBVIOUS
<1>2. IsFiniteSet(S \cup {y})
  BY FS_AddElement
<1>3. SumFunctionOnSet(f, S) \in Int /\ f[y] \in Int
  BY SumType
<1>4. SumFunctionOnSet(f, S \cup {y}) = f[y] + SumFunctionOnSet(f, (S \cup {y}) \ {y})
  BY <1>2, SumRemove
<1>5. SumFunctionOnSet(f, S \cup {y}) = f[y] + SumFunctionOnSet(f, S)
  BY <1>1, <1>4
<1> QED BY <1>3, <1>5

(* Larger values sum to more. *)
LEMMA SumMonotonic ==
  ASSUME NEW f, NEW g, NEW S, IsFiniteSet(S),
         \A x \in S : f[x] \in Int /\ g[x] \in Int /\ f[x] <= g[x]
  PROVE  SumFunctionOnSet(f, S) <= SumFunctionOnSet(g, S)
<1> DEFINE Good == {T \in SUBSET S : SumFunctionOnSet(f, T) <= SumFunctionOnSet(g, T)}
<1>1. ASSUME NEW T \in SUBSET S, \A U \in SUBSET T : U # T => U \in Good
      PROVE  T \in Good
  <2>1. CASE T = {}
    BY <2>1, SumEmpty
  <2>2. CASE T # {}
    <3>1. PICK x \in T : TRUE
      BY <2>2
    <3>2. IsFiniteSet(T) /\ IsFiniteSet(T \ {x})
      BY FS_Subset
    <3>3. SumFunctionOnSet(f, T) = f[x] + SumFunctionOnSet(f, T \ {x})
      BY <3>2, SumRemove
    <3>4. SumFunctionOnSet(g, T) = g[x] + SumFunctionOnSet(g, T \ {x})
      BY <3>2, SumRemove
    <3>5. SumFunctionOnSet(f, T \ {x}) <= SumFunctionOnSet(g, T \ {x})
      BY <1>1
    <3>6. SumFunctionOnSet(f, T \ {x}) \in Int /\ SumFunctionOnSet(g, T \ {x}) \in Int
      BY <3>2, SumType
    <3> QED BY <3>3, <3>4, <3>5, <3>6
  <2> QED BY <2>1, <2>2
<1>2. S \in Good
  <2> HIDE DEF Good
  <2> QED BY <1>1, FiniteSetInductive
<1> QED BY <1>2

(* Two functions that agree on the set have the same sum. *)
LEMMA SumSame ==
  ASSUME NEW f, NEW g, NEW S, IsFiniteSet(S),
         \A x \in S : f[x] \in Int /\ f[x] = g[x]
  PROVE  SumFunctionOnSet(f, S) = SumFunctionOnSet(g, S)
<1>1. SumFunctionOnSet(f, S) \in Int /\ SumFunctionOnSet(g, S) \in Int
  BY SumType
<1>2. SumFunctionOnSet(f, S) <= SumFunctionOnSet(g, S)
  BY SumMonotonic
<1>3. SumFunctionOnSet(g, S) <= SumFunctionOnSet(f, S)
  BY SumMonotonic
<1> QED BY <1>1, <1>2, <1>3

(* One value changes. *)
LEMMA SumChange ==
  ASSUME NEW f, NEW g, NEW S, IsFiniteSet(S), NEW y \in S,
         \A x \in S : f[x] \in Int /\ g[x] \in Int /\ (x # y => f[x] = g[x])
  PROVE  SumFunctionOnSet(g, S) = SumFunctionOnSet(f, S) - f[y] + g[y]
<1>1. IsFiniteSet(S \ {y})
  BY FS_Subset
<1>2. SumFunctionOnSet(f, S) = f[y] + SumFunctionOnSet(f, S \ {y})
  BY SumRemove
<1>3. SumFunctionOnSet(g, S) = g[y] + SumFunctionOnSet(g, S \ {y})
  BY SumRemove
<1>4. SumFunctionOnSet(f, S \ {y}) = SumFunctionOnSet(g, S \ {y})
  BY <1>1, SumSame
<1>5. SumFunctionOnSet(f, S \ {y}) \in Int
  BY <1>1, SumType
<1> QED BY <1>2, <1>3, <1>4, <1>5

(* A sum of zeros is zero. *)
LEMMA SumZero ==
  ASSUME NEW f, NEW S, IsFiniteSet(S), \A x \in S : f[x] = 0
  PROVE  SumFunctionOnSet(f, S) = 0
<1> DEFINE Good == {T \in SUBSET S : SumFunctionOnSet(f, T) = 0}
<1>1. ASSUME NEW T \in SUBSET S, \A U \in SUBSET T : U # T => U \in Good
      PROVE  T \in Good
  <2>1. CASE T = {}
    BY <2>1, SumEmpty
  <2>2. CASE T # {}
    <3>1. PICK x \in T : TRUE
      BY <2>2
    <3>2. SumFunctionOnSet(f, T) = f[x] + SumFunctionOnSet(f, T \ {x})
      BY FS_Subset, SumRemove
    <3>3. SumFunctionOnSet(f, T \ {x}) = 0
      BY <1>1
    <3> QED BY <3>2, <3>3
  <2> QED BY <2>1, <2>2
<1>2. S \in Good
  <2> HIDE DEF Good
  <2> QED BY <1>1, FiniteSetInductive
<1> QED BY <1>2

(* A sum of natural numbers is one. *)
LEMMA SumNat ==
  ASSUME NEW f, NEW S, IsFiniteSet(S), \A x \in S : f[x] \in Nat
  PROVE  SumFunctionOnSet(f, S) \in Nat
<1>1. SumFunctionOnSet(f, S) \in Int
  BY SumType
<1>2. SumFunctionOnSet([x \in S |-> 0], S) = 0
  BY SumZero
<1>3. SumFunctionOnSet([x \in S |-> 0], S) <= SumFunctionOnSet(f, S)
  BY SumMonotonic
<1> QED BY <1>1, <1>2, <1>3

(* The sum over the indices of a sequence that is one longer. *)
LEMMA SumInterval ==
  ASSUME NEW n \in Nat, NEW f, \A i \in 1..n+1 : f[i] \in Int
  PROVE  SumFunctionOnSet(f, 1..n+1) = SumFunctionOnSet(f, 1..n) + f[n + 1]
<1>1. (1..n) \cup {n + 1} = 1..n+1
  <2>1. ASSUME NEW i PROVE i \in (1..n) \cup {n + 1} <=> i \in 1..n+1
    OBVIOUS
  <2> QED BY <2>1
<1>2. n + 1 \notin 1..n
  OBVIOUS
<1>3. IsFiniteSet(1..n)
  BY FS_Interval
<1>4. \A i \in (1..n) \cup {n + 1} : f[i] \in Int
  BY <1>1
<1>5. SumFunctionOnSet(f, (1..n) \cup {n + 1}) = SumFunctionOnSet(f, 1..n) + f[n + 1]
  BY <1>2, <1>3, <1>4, SumAdd
<1> QED BY <1>1, <1>5
-----------------------------------------------------------------------------
(* Parts of a sum *)

(* The sum over two disjoint sets is that of the two sums. *)
LEMMA SumUnion ==
  ASSUME NEW f, NEW S, IsFiniteSet(S), NEW T, IsFiniteSet(T), S \cap T = {},
         \A x \in S \cup T : f[x] \in Int
  PROVE  SumFunctionOnSet(f, S \cup T) = SumFunctionOnSet(f, S) + SumFunctionOnSet(f, T)
<1> DEFINE Adds(U) == SumFunctionOnSet(f, S \cup U) = SumFunctionOnSet(f, S) + SumFunctionOnSet(f, U)
           Good == {U \in SUBSET T : Adds(U)}
<1>1. SumFunctionOnSet(f, S) \in Int
  BY SumType
<1>2. ASSUME NEW U \in SUBSET T, \A V \in SUBSET U : V # U => V \in Good
      PROVE  U \in Good
  <2>1. CASE U = {}
    <3> DEFINE s == SumFunctionOnSet(f, S)
    <3>1. SumFunctionOnSet(f, S \cup U) = s
      <4>1. S \cup U = S
        BY <2>1
      <4> QED BY <4>1
    <3>2. SumFunctionOnSet(f, U) = 0 /\ s \in Int
      BY <1>1, <2>1, SumEmpty
    <3> HIDE DEF s
    <3>3. SumFunctionOnSet(f, S \cup U) = s + SumFunctionOnSet(f, U)
      BY <3>1, <3>2
    <3> QED BY <3>3 DEF s
  <2>2. CASE U # {}
    <3>1. PICK x \in U : TRUE
      BY <2>2
    <3> DEFINE V == U \ {x}
    <3>2. Adds(V)
      BY <1>2, <3>1
    <3>3. IsFiniteSet(U) /\ IsFiniteSet(V) /\ IsFiniteSet(S \cup U)
      BY FS_Subset, FS_Union
    <3>4. SumFunctionOnSet(f, U) = f[x] + SumFunctionOnSet(f, V)
      BY <3>1, <3>3, SumRemove
    <3>5. (S \cup U) \ {x} = S \cup V
      BY <3>1
    <3>6. SumFunctionOnSet(f, S \cup U) = f[x] + SumFunctionOnSet(f, (S \cup U) \ {x})
      BY <3>1, <3>3, SumRemove
    <3>7. SumFunctionOnSet(f, V) \in Int /\ f[x] \in Int
      BY <3>1, <3>3, SumType
    <3> DEFINE s == SumFunctionOnSet(f, S)
               v == SumFunctionOnSet(f, V)
               u == SumFunctionOnSet(f, U)
    <3>8. SumFunctionOnSet(f, S \cup U) = f[x] + SumFunctionOnSet(f, S \cup V)
      BY <3>5, <3>6
    <3>9. SumFunctionOnSet(f, S \cup V) = s + v /\ u = f[x] + v
          /\ s \in Int /\ v \in Int /\ f[x] \in Int
      BY <1>1, <3>2, <3>4, <3>7
    <3> HIDE DEF s, u, v, V
    <3>10. SumFunctionOnSet(f, S \cup U) = s + u
      BY <3>8, <3>9
    <3> QED BY <3>10 DEF s, u
  <2> QED BY <2>1, <2>2
<1>3. T \in Good
  <2> HIDE DEF Good, Adds
  <2> QED BY <1>2, FiniteSetInductive
<1> QED BY <1>3

(* A part of a sum of natural numbers is at most the whole. *)
LEMMA SumSubset ==
  ASSUME NEW f, NEW S, IsFiniteSet(S), \A x \in S : f[x] \in Nat, NEW T \in SUBSET S
  PROVE  SumFunctionOnSet(f, T) <= SumFunctionOnSet(f, S)
<1>1. IsFiniteSet(T) /\ IsFiniteSet(S \ T)
  BY FS_Subset
<1>2. T \cup (S \ T) = S /\ T \cap (S \ T) = {}
  OBVIOUS
<1>3. \A x \in T \cup (S \ T) : f[x] \in Int
  OBVIOUS
<1>4. SumFunctionOnSet(f, T \cup (S \ T)) = SumFunctionOnSet(f, T) + SumFunctionOnSet(f, S \ T)
  BY <1>1, <1>2, <1>3, SumUnion
<1>5. SumFunctionOnSet(f, T) \in Nat /\ SumFunctionOnSet(f, S \ T) \in Nat
  BY <1>1, SumNat
<1> DEFINE a == SumFunctionOnSet(f, T)
           b == SumFunctionOnSet(f, S \ T)
<1>6. SumFunctionOnSet(f, S) = a + b /\ a \in Nat /\ b \in Nat
  BY <1>2, <1>4, <1>5
<1> HIDE DEF a, b
<1>7. a <= SumFunctionOnSet(f, S)
  BY <1>6
<1> QED BY <1>7 DEF a

(* The sum over one element is its value. *)
LEMMA SumSingleton ==
  ASSUME NEW f, NEW x, f[x] \in Int PROVE SumFunctionOnSet(f, {x}) = f[x]
<1>1. IsFiniteSet({x}) /\ {x} \ {x} = {} /\ x \in {x}
  BY FS_Singleton
<1>2. SumFunctionOnSet(f, {x}) = f[x] + SumFunctionOnSet(f, {x} \ {x})
  BY <1>1, SumRemove
<1> QED BY <1>1, <1>2, SumEmpty

Fibre(S, key, c) == {x \in S : key[x] = c}

(* The sum over a set is the sum, over the values of a key, of the sums over
   the elements with that key. *)
LEMMA SumFibres ==
  ASSUME NEW f, NEW S, IsFiniteSet(S), \A x \in S : f[x] \in Int,
         NEW C, IsFiniteSet(C), NEW key, \A x \in S : key[x] \in C,
         NEW h, \A c \in C : h[c] = SumFunctionOnSet(f, Fibre(S, key, c))
  PROVE  SumFunctionOnSet(h, C) = SumFunctionOnSet(f, S)
<1> DEFINE Over(D) == {x \in S : key[x] \in D}
           Only(c) == {x \in S : key[x] = c}
           Good == {D \in SUBSET C : SumFunctionOnSet(h, D) = SumFunctionOnSet(f, Over(D))}
<1>1. \A D : IsFiniteSet(Over(D)) /\ \A x \in Over(D) : f[x] \in Int
  BY FS_Subset
<1>2. \A c : IsFiniteSet(Only(c)) /\ \A x \in Only(c) : f[x] \in Int
  BY FS_Subset
<1>3. ASSUME NEW c \in C PROVE h[c] = SumFunctionOnSet(f, Only(c)) /\ h[c] \in Int
  <2>1. h[c] = SumFunctionOnSet(f, Only(c))
    BY DEF Fibre
  <2> HIDE DEF Only
  <2>2. SumFunctionOnSet(f, Only(c)) \in Int
    BY <1>2, SumType
  <2> QED BY <2>1, <2>2
<1>4. ASSUME NEW D \in SUBSET C, \A E \in SUBSET D : E # D => E \in Good
      PROVE  D \in Good
  <2>1. CASE D = {}
    <3>1. Over(D) = {}
      BY <2>1
    <3> QED BY <2>1, <3>1, SumEmpty
  <2>2. CASE D # {}
    <3>1. PICK c \in D : TRUE
      BY <2>2
    <3> DEFINE E == D \ {c}
    <3>2. SumFunctionOnSet(h, E) = SumFunctionOnSet(f, Over(E))
      BY <1>4, <3>1
    <3>3. IsFiniteSet(D)
      BY FS_Subset
    <3>4. SumFunctionOnSet(h, D) = h[c] + SumFunctionOnSet(h, E)
      <4>1. \A d \in D : h[d] \in Int
        BY <1>3
      <4> HIDE DEF Only
      <4> QED BY <3>1, <3>3, <4>1, SumRemove
    <3>5. Over(E) \cup Only(c) = Over(D) /\ Over(E) \cap Only(c) = {}
      BY <3>1
    <3>6. \A x \in Over(E) \cup Only(c) : f[x] \in Int
      OBVIOUS
    <3>7. SumFunctionOnSet(f, Over(E) \cup Only(c))
            = SumFunctionOnSet(f, Over(E)) + SumFunctionOnSet(f, Only(c))
      <4> HIDE DEF Over, Only
      <4> QED BY <1>1, <1>2, <3>5, <3>6, SumUnion
    <3>8. SumFunctionOnSet(f, Over(E)) \in Int
      <4> HIDE DEF Over
      <4> QED BY <1>1, SumType
    <3> DEFINE e == SumFunctionOnSet(f, Over(E))
               o == SumFunctionOnSet(f, Only(c))
    <3>9. SumFunctionOnSet(f, Over(D)) = e + o /\ SumFunctionOnSet(h, D) = o + e
          /\ e \in Int /\ o \in Int
      <4>1. h[c] = o /\ o \in Int
        BY <1>3, <3>1
      <4>2. SumFunctionOnSet(f, Over(D)) = e + o
        BY <3>5, <3>7
      <4> HIDE DEF o
      <4> QED BY <3>2, <3>4, <3>8, <4>1, <4>2
    <3> HIDE DEF e, o
    <3>10. SumFunctionOnSet(h, D) = SumFunctionOnSet(f, Over(D))
      BY <3>9
    <3> QED BY <3>10
  <2> QED BY <2>1, <2>2
<1>5. C \in Good
  <2> HIDE DEF Good
  <2> QED BY <1>4, FiniteSetInductive
<1>6. Over(C) = S
  OBVIOUS
<1> QED BY <1>5, <1>6

(* A sum of ones counts. *)
LEMMA SumOnes ==
  ASSUME NEW f, NEW S, IsFiniteSet(S), \A x \in S : f[x] = 1
  PROVE  SumFunctionOnSet(f, S) = Cardinality(S)
<1> DEFINE Good == {T \in SUBSET S : SumFunctionOnSet(f, T) = Cardinality(T)}
<1>1. ASSUME NEW T \in SUBSET S, \A U \in SUBSET T : U # T => U \in Good
      PROVE  T \in Good
  <2>1. CASE T = {}
    BY <2>1, SumEmpty, FS_EmptySet
  <2>2. CASE T # {}
    <3>1. PICK x \in T : TRUE
      BY <2>2
    <3>2. IsFiniteSet(T) /\ Cardinality(T) \in Nat
      BY FS_Subset, FS_CardinalityType
    <3>3. SumFunctionOnSet(f, T) = f[x] + SumFunctionOnSet(f, T \ {x})
      BY <3>1, <3>2, SumRemove
    <3>4. SumFunctionOnSet(f, T \ {x}) = Cardinality(T \ {x})
      BY <1>1, <3>1
    <3>5. Cardinality(T \ {x}) = Cardinality(T) - 1
      BY <3>1, <3>2, FS_RemoveElement
    <3> QED BY <3>1, <3>2, <3>3, <3>4, <3>5
  <2> QED BY <2>1, <2>2
<1>2. S \in Good
  <2> HIDE DEF Good
  <2> QED BY <1>1, FiniteSetInductive
<1> QED BY <1>2

(* A set has as many elements as there are, in all, with each value of a key. *)
LEMMA CardinalityFibres ==
  ASSUME NEW S, IsFiniteSet(S), NEW C, IsFiniteSet(C), NEW key, \A x \in S : key[x] \in C,
         NEW h, \A c \in C : h[c] = Cardinality(Fibre(S, key, c))
  PROVE  SumFunctionOnSet(h, C) = Cardinality(S)
<1> DEFINE one == [x \in S |-> 1]
<1>1. \A x \in S : one[x] = 1 /\ one[x] \in Int
  OBVIOUS
<1> HIDE DEF one
<1>2. ASSUME NEW c \in C PROVE h[c] = SumFunctionOnSet(one, Fibre(S, key, c))
  <2>1. IsFiniteSet(Fibre(S, key, c)) /\ \A x \in Fibre(S, key, c) : one[x] = 1
    BY <1>1, FS_Subset DEF Fibre
  <2> QED BY <2>1, SumOnes
<1>3. \A x \in S : one[x] \in Int
  BY <1>1
<1>4. \A c \in C : h[c] = SumFunctionOnSet(one, Fibre(S, key, c))
  BY <1>2
<1>5. SumFunctionOnSet(h, C) = SumFunctionOnSet(one, S)
  BY <1>3, <1>4, SumFibres
<1> QED BY <1>1, <1>5, SumOnes
=============================================================================
