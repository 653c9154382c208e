---------------------------- MODULE SumTheorems ----------------------------
(***************************************************************************)
(* Sums of the values of a function over a finite set (SumFunctionOnSet of *)
(* the community modules), for the invariants that compare a counter the   *)
(* code keeps, total_shares or total_issuance, with the entries it counts. *)
(* The sum is a recursive function over the subsets of the set.  Induction *)
(* is done by the smallest counterexample: the strict subsets of a finite  *)
(* set are well founded (FS_StrictSubsetOrderingWellFounded), so that a    *)
(* non-empty set of bad subsets has a minimal member (WFMin).  Neither     *)
(* theorem has an operator as a parameter.                                 *)
(*                                                                         *)
(* Then come lists of accounts without duplicates and the sums of their    *)
(* amounts, for the balances at genesis.                                   *)
(*                                                                         *)
(* The last part is the arithmetic of ratios that are rounded, which       *)
(* bounds what a change of a reward pool costs those who keep their shares.*)
(* The provers do not multiply out: the products are named, and Products   *)
(* and Cancel do the steps that are not linear.                            *)
(***************************************************************************)
EXTENDS Integers, Sequences, FiniteSetsExt, FiniteSetTheorems, WellFoundedInduction, TLAPS

(* The element that the sum takes first. *)
First(s) == CHOOSE x \in s : TRUE

(* f satisfies the recursion of the sum of w over S. *)
Sums(w, S, f) ==
    f = [s \in SUBSET S |-> IF s = {} THEN 0 ELSE w[First(s)] + f[s \ {First(s)}]]

(* SumFunctionOnSet picks one of the functions that Sums characterises.      *)
LEMMA SumDef ==
    ASSUME NEW w, NEW S
    PROVE  SumFunctionOnSet(w, S) = (CHOOSE f : Sums(w, S, f))[S]
  BY Zenon DEF SumFunctionOnSet, FoldFunctionOnSet, MapThenFoldSet, Sums, First

(* The first element of a non-empty set is in it.                            *)
LEMMA FirstIn ==
    ASSUME NEW s, s # {}
    PROVE  First(s) \in s
  BY Zenon DEF First

(* Induction over the subsets of a finite set, for a property given as the   *)
(* set of the subsets that have it.                                          *)
LEMMA SubsetInduction ==
    ASSUME NEW S, IsFiniteSet(S), NEW Good,
           \A T \in SUBSET S : (\A U \in SUBSET T : U # T => U \in Good) => T \in Good
    PROVE  \A T \in SUBSET S : T \in Good
<1> DEFINE Bad == (SUBSET S) \ Good
           R == StrictSubsetOrdering(S)
<1>1. IsWellFoundedOn(R, SUBSET S)
  BY FS_FiniteSubsetsOfFinite, FS_StrictSubsetOrderingWellFounded, Zenon
<1>2. SUFFICES ASSUME Bad # {} PROVE FALSE
  OBVIOUS
<1>3. PICK T \in Bad : \A U \in Bad : ~(<<U, T>> \in R)
  <2>1. Bad \subseteq SUBSET S
    OBVIOUS
  <2> HIDE DEF Bad, R
  <2> QED
    BY <1>1, <1>2, <2>1, WFMin
<1>4. ASSUME NEW U \in SUBSET T, U # T PROVE U \in Good
  <2>1. <<U, T>> \in R
    BY <1>3, <1>4 DEF StrictSubsetOrdering
  <2> QED
    BY <1>3, <1>4, <2>1
<1> QED
  BY <1>3, <1>4

(* Two functions that satisfy the recursion, on a set and on a part of it,   *)
(* agree on the part.                                                        *)
LEMMA SumsUnique ==
    ASSUME NEW w, NEW S, NEW T, T \subseteq S, IsFiniteSet(T),
           NEW f, NEW g, Sums(w, S, f), Sums(w, T, g)
    PROVE  f[T] = g[T]
<1> DEFINE Good == {U \in SUBSET T : f[U] = g[U]}
<1>1. ASSUME NEW U \in SUBSET T, \A V \in SUBSET U : V # U => V \in Good
      PROVE  U \in Good
  <2>1. /\ f[U] = IF U = {} THEN 0 ELSE w[First(U)] + f[U \ {First(U)}]
        /\ g[U] = IF U = {} THEN 0 ELSE w[First(U)] + g[U \ {First(U)}]
    <3>1. U \in SUBSET S
      OBVIOUS
    <3> QED
      BY <3>1, Zenon DEF Sums
  <2>2. CASE U = {}
    BY <2>1, <2>2
  <2>3. CASE U # {}
    <3> DEFINE V == U \ {First(U)}
    <3>1. V \in SUBSET U /\ V # U
      BY <2>3, FirstIn
    <3>2. f[V] = g[V]
      BY <1>1, <3>1
    <3> QED
      BY <2>1, <2>3, <3>2
  <2> QED
    BY <2>2, <2>3
<1>2. \A U \in SUBSET T : U \in Good
  <2> HIDE DEF Good
  <2> QED
    BY <1>1, SubsetInduction
<1> QED
  BY <1>2

(* Some function satisfies the recursion: it is put together from those of   *)
(* the strict subsets.                                                       *)
LEMMA SumsExist ==
    ASSUME NEW w, NEW S, IsFiniteSet(S)
    PROVE  \E f : Sums(w, S, f)
<1> DEFINE Good == {T \in SUBSET S : \E f : Sums(w, T, f)}
           F(T) == CHOOSE f : Sums(w, T, f)
<1>1. ASSUME NEW T \in SUBSET S, \A U \in SUBSET T : U # T => U \in Good
      PROVE  T \in Good
  <2>1. \A U \in SUBSET T : U # T => Sums(w, U, F(U))
    BY <1>1, Zenon
  <2> DEFINE h == [U \in SUBSET T |-> IF U = {} THEN 0
                   ELSE w[First(U)] + F(U \ {First(U)})[U \ {First(U)}]]
  <2>2. ASSUME NEW U \in SUBSET T, U # {}
        PROVE  h[U \ {First(U)}] = F(U \ {First(U)})[U \ {First(U)}]
    <3> DEFINE V == U \ {First(U)}
    <3>1. V \in SUBSET T /\ V # T
      BY <2>2, FirstIn
    <3>2. F(V) = [s \in SUBSET V |-> IF s = {} THEN 0 ELSE w[First(s)] + F(V)[s \ {First(s)}]]
      BY <2>1, <3>1, Zenon DEF Sums
    <3>3. F(V)[V] = IF V = {} THEN 0 ELSE w[First(V)] + F(V)[V \ {First(V)}]
      <4> HIDE DEF F, V
      <4> QED BY <3>2
    <3>4. h[V] = IF V = {} THEN 0 ELSE w[First(V)] + F(V \ {First(V)})[V \ {First(V)}]
      <4> HIDE DEF F, V
      <4> QED BY <3>1
    <3>5. h[V] = F(V)[V]
      <4>1. CASE V = {}
        <5> HIDE DEF F, V, h
        <5> QED BY <3>3, <3>4, <4>1
      <4>2. CASE V # {}
        <5> DEFINE Y == V \ {First(V)}
        <5>1. Y \in SUBSET T /\ Y # T /\ Y \subseteq V
          BY <3>1
        <5>2. IsFiniteSet(Y)
          BY <5>1, FS_Subset
        <5>3. Sums(w, V, F(V)) /\ Sums(w, Y, F(Y))
          BY <2>1, <3>1, <5>1
        <5>4. F(V)[Y] = F(Y)[Y]
          <6> HIDE DEF F, V, Y
          <6> QED BY <5>1, <5>2, <5>3, SumsUnique
        <5> HIDE DEF F, V, h
        <5> QED BY <3>3, <3>4, <4>2, <5>4
      <4> QED
        BY <4>1, <4>2
    <3> QED
      BY <3>5
  <2>3. Sums(w, T, h)
    <3>1. h = [U \in SUBSET T |-> IF U = {} THEN 0 ELSE w[First(U)] + h[U \ {First(U)}]]
      <4> HIDE DEF F
      <4>1. \A U \in SUBSET T : h[U] = IF U = {} THEN 0 ELSE w[First(U)] + h[U \ {First(U)}]
        BY <2>2
      <4>2. h = [U \in SUBSET T |-> h[U]]
        OBVIOUS
      <4> HIDE DEF h
      <4> QED BY <4>1, <4>2
    <3> HIDE DEF h
    <3> QED BY <3>1, Zenon DEF Sums
  <2> HIDE DEF h
  <2> QED
    BY <2>3
<1>2. \A T \in SUBSET S : T \in Good
  <2> HIDE DEF Good
  <2> QED
    BY <1>1, SubsetInduction
<1> QED
  BY <1>2

(* The sum is the value of any function that satisfies the recursion.        *)
LEMMA SumIs ==
    ASSUME NEW w, NEW S, IsFiniteSet(S), NEW f, Sums(w, S, f)
    PROVE  SumFunctionOnSet(w, S) = f[S]
<1> DEFINE g == CHOOSE h : Sums(w, S, h)
<1>1. Sums(w, S, g)
  BY Zenon
<1> HIDE DEF g
<1>2. f[S] = g[S]
  BY <1>1, SumsUnique
<1> QED
  BY <1>2, SumDef DEF g

(* The empty sum is zero.                                                    *)
LEMMA SumEmpty ==
    ASSUME NEW w
    PROVE  SumFunctionOnSet(w, {}) = 0
<1>1. IsFiniteSet({})
  BY FS_EmptySet
<1>2. PICK f : Sums(w, {}, f)
  BY <1>1, SumsExist
<1>3. f[{}] = 0
  BY <1>2 DEF Sums
<1> QED
  BY <1>1, <1>2, <1>3, SumIs

(* The defining equation of the sum.                                         *)
LEMMA SumFirst ==
    ASSUME NEW w, NEW S, IsFiniteSet(S), S # {}
    PROVE  SumFunctionOnSet(w, S) = w[First(S)] + SumFunctionOnSet(w, S \ {First(S)})
<1> DEFINE T == S \ {First(S)}
<1>1. IsFiniteSet(T)
  BY FS_Subset
<1>2. PICK f : Sums(w, S, f)
  BY SumsExist
<1>3. PICK g : Sums(w, T, g)
  BY <1>1, SumsExist
<1>4. f[T] = g[T]
  BY <1>1, <1>2, <1>3, SumsUnique
<1>5. f[S] = w[First(S)] + f[T]
  BY <1>2 DEF Sums
<1> QED
  BY <1>1, <1>2, <1>3, <1>4, <1>5, SumIs

(* A sum of integers is an integer.                                          *)
LEMMA SumInt ==
    ASSUME NEW w, NEW S, IsFiniteSet(S), \A x \in S : w[x] \in Int
    PROVE  SumFunctionOnSet(w, S) \in Int
<1> DEFINE Good == {T \in SUBSET S : SumFunctionOnSet(w, T) \in Int}
<1>1. ASSUME NEW T \in SUBSET S, \A U \in SUBSET T : U # T => U \in Good
      PROVE  T \in Good
  <2>1. CASE T = {}
    BY <2>1, SumEmpty
  <2>2. CASE T # {}
    <3>1. IsFiniteSet(T) /\ First(T) \in T
      BY <2>2, FS_Subset, FirstIn
    <3>2. T \ {First(T)} \in Good
      BY <1>1, <3>1
    <3> QED
      BY <2>2, <3>1, <3>2, SumFirst
  <2> QED
    BY <2>1, <2>2
<1>2. \A T \in SUBSET S : T \in Good
  <2> HIDE DEF Good
  <2> QED
    BY <1>1, SubsetInduction
<1> QED
  BY <1>2

(* Any element can be taken out of a sum, not only the first.                *)
LEMMA SumSplit ==
    ASSUME NEW w, NEW S, IsFiniteSet(S), \A x \in S : w[x] \in Int, NEW x \in S
    PROVE  SumFunctionOnSet(w, S) = w[x] + SumFunctionOnSet(w, S \ {x})
<1> DEFINE Good == {T \in SUBSET S : \A y \in T : SumFunctionOnSet(w, T) = w[y] + SumFunctionOnSet(w, T \ {y})}
<1>1. ASSUME NEW T \in SUBSET S, \A U \in SUBSET T : U # T => U \in Good
      PROVE  T \in Good
  <2>1. SUFFICES ASSUME NEW y \in T
                 PROVE  SumFunctionOnSet(w, T) = w[y] + SumFunctionOnSet(w, T \ {y})
    OBVIOUS
  <2> DEFINE z == First(T)
  <2>2. IsFiniteSet(T) /\ T # {} /\ z \in T
    BY FS_Subset, FirstIn
  <2>3. SumFunctionOnSet(w, T) = w[z] + SumFunctionOnSet(w, T \ {z})
    BY <2>2, SumFirst
  <2>4. CASE y = z
    BY <2>3, <2>4
  <2>5. CASE y # z
    <3> DEFINE R == (T \ {y}) \ {z}
    <3>1. T \ {z} \in Good /\ T \ {y} \in Good
      BY <1>1, <2>2
    <3>2. (T \ {z}) \ {y} = R
      OBVIOUS
    <3>3. SumFunctionOnSet(w, T \ {z}) = w[y] + SumFunctionOnSet(w, R)
      BY <2>5, <3>1, <3>2
    <3>4. SumFunctionOnSet(w, T \ {y}) = w[z] + SumFunctionOnSet(w, R)
      BY <2>2, <2>5, <3>1
    <3>5. SumFunctionOnSet(w, R) \in Int
      <4>1. IsFiniteSet(R) /\ R \subseteq S
        BY FS_Subset
      <4> QED
        BY <4>1, SumInt
    <3>6. w[y] \in Int /\ w[z] \in Int
      BY <2>2
    <3> HIDE DEF z, R
    <3> QED
      BY <2>3, <3>3, <3>4, <3>5, <3>6
  <2> QED
    BY <2>4, <2>5
<1>2. \A T \in SUBSET S : T \in Good
  <2> HIDE DEF Good
  <2> QED
    BY <1>1, SubsetInduction
<1> QED
  BY <1>2

(* The sum depends on the values over the set alone.                         *)
LEMMA SumCong ==
    ASSUME NEW w, NEW v, NEW S, IsFiniteSet(S), \A x \in S : w[x] = v[x]
    PROVE  SumFunctionOnSet(w, S) = SumFunctionOnSet(v, S)
<1> DEFINE Good == {T \in SUBSET S : SumFunctionOnSet(w, T) = SumFunctionOnSet(v, T)}
<1>1. ASSUME NEW T \in SUBSET S, \A U \in SUBSET T : U # T => U \in Good
      PROVE  T \in Good
  <2>1. CASE T = {}
    BY <2>1, SumEmpty
  <2>2. CASE T # {}
    <3>1. IsFiniteSet(T) /\ First(T) \in T
      BY <2>2, FS_Subset, FirstIn
    <3>2. T \ {First(T)} \in Good
      BY <1>1, <3>1
    <3> QED
      BY <2>2, <3>1, <3>2, SumFirst
  <2> QED
    BY <2>1, <2>2
<1>2. \A T \in SUBSET S : T \in Good
  <2> HIDE DEF Good
  <2> QED
    BY <1>1, SubsetInduction
<1> QED
  BY <1>2

(* The sum is monotonic in the summands.                                     *)
LEMMA SumLeq ==
    ASSUME NEW w, NEW v, NEW S, IsFiniteSet(S),
           \A x \in S : w[x] \in Int /\ v[x] \in Int /\ w[x] <= v[x]
    PROVE  SumFunctionOnSet(w, S) <= SumFunctionOnSet(v, S)
<1> DEFINE Good == {T \in SUBSET S : SumFunctionOnSet(w, T) <= SumFunctionOnSet(v, T)}
<1>1. ASSUME NEW T \in SUBSET S, \A U \in SUBSET T : U # T => U \in Good
      PROVE  T \in Good
  <2>1. CASE T = {}
    BY <2>1, SumEmpty
  <2>2. CASE T # {}
    <3> DEFINE U == T \ {First(T)}
    <3>1. IsFiniteSet(T) /\ First(T) \in T
      BY <2>2, FS_Subset, FirstIn
    <3>2. U \in Good
      BY <1>1, <3>1
    <3>3. SumFunctionOnSet(w, U) \in Int /\ SumFunctionOnSet(v, U) \in Int
      <4>1. IsFiniteSet(U) /\ U \subseteq S
        BY FS_Subset
      <4> QED
        BY <4>1, SumInt
    <3>4. /\ SumFunctionOnSet(w, T) = w[First(T)] + SumFunctionOnSet(w, U)
          /\ SumFunctionOnSet(v, T) = v[First(T)] + SumFunctionOnSet(v, U)
      BY <2>2, <3>1, SumFirst
    <3>5. w[First(T)] \in Int /\ v[First(T)] \in Int /\ w[First(T)] <= v[First(T)]
      BY <3>1
    <3>6. SumFunctionOnSet(w, T) <= SumFunctionOnSet(v, T)
      <4>1. SumFunctionOnSet(w, U) <= SumFunctionOnSet(v, U)
        BY <3>2
      <4> HIDE DEF U
      <4> QED
        BY <3>3, <3>4, <3>5, <4>1
    <3> QED
      BY <3>6
  <2> QED
    BY <2>1, <2>2
<1>2. \A T \in SUBSET S : T \in Good
  <2> HIDE DEF Good
  <2> QED
    BY <1>1, SubsetInduction
<1> QED
  BY <1>2

(* A sum of naturals is a natural.                                           *)
LEMMA SumNat ==
    ASSUME NEW w, NEW S, IsFiniteSet(S), \A x \in S : w[x] \in Nat
    PROVE  SumFunctionOnSet(w, S) \in Nat
<1> DEFINE Good == {T \in SUBSET S : SumFunctionOnSet(w, T) \in Nat}
<1>1. ASSUME NEW T \in SUBSET S, \A U \in SUBSET T : U # T => U \in Good
      PROVE  T \in Good
  <2>1. CASE T = {}
    BY <2>1, SumEmpty
  <2>2. CASE T # {}
    <3>1. IsFiniteSet(T) /\ First(T) \in T
      BY <2>2, FS_Subset, FirstIn
    <3>2. T \ {First(T)} \in Good
      BY <1>1, <3>1
    <3> QED
      BY <2>2, <3>1, <3>2, SumFirst
  <2> QED
    BY <2>1, <2>2
<1>2. \A T \in SUBSET S : T \in Good
  <2> HIDE DEF Good
  <2> QED
    BY <1>1, SubsetInduction
<1> QED
  BY <1>2

(* One element more adds its value.                                          *)
LEMMA SumAdd ==
    ASSUME NEW w, NEW S, IsFiniteSet(S), \A y \in S : w[y] \in Int,
           NEW x, x \notin S, w[x] \in Int
    PROVE  SumFunctionOnSet(w, S \cup {x}) = w[x] + SumFunctionOnSet(w, S)
<1>1. IsFiniteSet(S \cup {x})
  BY FS_AddElement
<1>2. (S \cup {x}) \ {x} = S
  OBVIOUS
<1> QED
  BY <1>1, <1>2, SumSplit

(* Changing the function at one element changes the sum by the difference.   *)
LEMMA SumUpdate ==
    ASSUME NEW w, NEW v, NEW S, IsFiniteSet(S), NEW x \in S,
           \A y \in S : w[y] \in Int /\ v[y] \in Int,
           \A y \in S \ {x} : v[y] = w[y]
    PROVE  SumFunctionOnSet(v, S) = SumFunctionOnSet(w, S) - w[x] + v[x]
<1>1. IsFiniteSet(S \ {x})
  BY FS_Subset
<1>2. /\ SumFunctionOnSet(v, S) = v[x] + SumFunctionOnSet(v, S \ {x})
      /\ SumFunctionOnSet(w, S) = w[x] + SumFunctionOnSet(w, S \ {x})
  BY SumSplit
<1>3. SumFunctionOnSet(v, S \ {x}) = SumFunctionOnSet(w, S \ {x})
  BY <1>1, SumCong
<1>4. SumFunctionOnSet(w, S \ {x}) \in Int /\ w[x] \in Int /\ v[x] \in Int
  BY <1>1, SumInt
<1> QED
  BY <1>2, <1>3, <1>4

(* No summand exceeds a sum of naturals.                                     *)
LEMMA SumBound ==
    ASSUME NEW w, NEW S, IsFiniteSet(S), \A y \in S : w[y] \in Nat, NEW x \in S
    PROVE  w[x] <= SumFunctionOnSet(w, S)
<1>1. IsFiniteSet(S \ {x})
  BY FS_Subset
<1>2. SumFunctionOnSet(w, S \ {x}) \in Nat
  BY <1>1, SumNat
<1>3. SumFunctionOnSet(w, S) = w[x] + SumFunctionOnSet(w, S \ {x})
  BY SumSplit
<1> QED
  BY <1>2, <1>3

(* A sum of zeros is zero.                                                   *)
LEMMA SumZero ==
    ASSUME NEW w, NEW S, IsFiniteSet(S), \A x \in S : w[x] = 0
    PROVE  SumFunctionOnSet(w, S) = 0
<1> DEFINE Good == {T \in SUBSET S : SumFunctionOnSet(w, T) = 0}
<1>1. ASSUME NEW T \in SUBSET S, \A U \in SUBSET T : U # T => U \in Good
      PROVE  T \in Good
  <2>1. CASE T = {}
    BY <2>1, SumEmpty
  <2>2. CASE T # {}
    <3>1. IsFiniteSet(T) /\ First(T) \in T
      BY <2>2, FS_Subset, FirstIn
    <3>2. T \ {First(T)} \in Good
      BY <1>1, <3>1
    <3> QED
      BY <2>2, <3>1, <3>2, SumFirst
  <2> QED
    BY <2>1, <2>2
<1>2. \A T \in SUBSET S : T \in Good
  <2> HIDE DEF Good
  <2> QED
    BY <1>1, SubsetInduction
<1> QED
  BY <1>2

(* Neither do two summands together.                                         *)
LEMMA SumBoundTwo ==
    ASSUME NEW w, NEW S, IsFiniteSet(S), \A y \in S : w[y] \in Nat,
           NEW x \in S, NEW z \in S, x # z
    PROVE  w[x] + w[z] <= SumFunctionOnSet(w, S)
<1>1. IsFiniteSet(S \ {x})
  BY FS_Subset
<1>2. w[z] <= SumFunctionOnSet(w, S \ {x})
  BY <1>1, SumBound
<1>3. SumFunctionOnSet(w, S) = w[x] + SumFunctionOnSet(w, S \ {x})
  BY SumSplit
<1>4. SumFunctionOnSet(w, S \ {x}) \in Nat
  BY <1>1, SumNat
<1> QED
  BY <1>2, <1>3, <1>4

(* Moving an amount from one element to another leaves the sum alone.        *)
LEMMA SumMove ==
    ASSUME NEW w, NEW v, NEW S, IsFiniteSet(S),
           \A y \in S : w[y] \in Int /\ v[y] \in Int,
           NEW x \in S, NEW z \in S, x # z,
           v[x] + v[z] = w[x] + w[z],
           \A y \in S \ {x, z} : v[y] = w[y]
    PROVE  SumFunctionOnSet(v, S) = SumFunctionOnSet(w, S)
<1> DEFINE T == S \ {x}
           U == T \ {z}
<1>1. IsFiniteSet(T) /\ IsFiniteSet(U)
  BY FS_Subset
<1>2. /\ SumFunctionOnSet(v, S) = v[x] + SumFunctionOnSet(v, T)
      /\ SumFunctionOnSet(w, S) = w[x] + SumFunctionOnSet(w, T)
  BY SumSplit
<1>3. /\ SumFunctionOnSet(v, T) = v[z] + SumFunctionOnSet(v, U)
      /\ SumFunctionOnSet(w, T) = w[z] + SumFunctionOnSet(w, U)
  BY <1>1, SumSplit
<1>4. SumFunctionOnSet(v, U) = SumFunctionOnSet(w, U)
  BY <1>1, SumCong
<1>5. SumFunctionOnSet(w, U) \in Int
  BY <1>1, SumInt
<1> HIDE DEF T, U
<1> QED
  BY <1>2, <1>3, <1>4, <1>5

-----------------------------------------------------------------------------
(* Sums over other sets *)

(* The sum of sums.                                                          *)
LEMMA SumPlus ==
    ASSUME NEW u, NEW v, NEW w, NEW S, IsFiniteSet(S),
           \A x \in S : u[x] \in Int /\ v[x] \in Int /\ w[x] = u[x] + v[x]
    PROVE  SumFunctionOnSet(w, S) = SumFunctionOnSet(u, S) + SumFunctionOnSet(v, S)
<1> DEFINE Good == {T \in SUBSET S :
              SumFunctionOnSet(w, T) = SumFunctionOnSet(u, T) + SumFunctionOnSet(v, T)}
<1>1. ASSUME NEW T \in SUBSET S, \A U \in SUBSET T : U # T => U \in Good
      PROVE  T \in Good
  <2>1. CASE T = {}
    BY <2>1, SumEmpty
  <2>2. CASE T # {}
    <3> DEFINE x == First(T)
               U == T \ {x}
    <3>1. IsFiniteSet(T) /\ x \in T
      BY <2>2, FS_Subset, FirstIn
    <3>2. U \in Good
      BY <1>1, <3>1
    <3>3. SumFunctionOnSet(u, U) \in Int /\ SumFunctionOnSet(v, U) \in Int
      <4>1. IsFiniteSet(U) /\ U \subseteq S
        BY FS_Subset
      <4> QED
        BY <4>1, SumInt
    <3>4. /\ SumFunctionOnSet(u, T) = u[x] + SumFunctionOnSet(u, U)
          /\ SumFunctionOnSet(v, T) = v[x] + SumFunctionOnSet(v, U)
          /\ SumFunctionOnSet(w, T) = w[x] + SumFunctionOnSet(w, U)
      BY <2>2, <3>1, SumFirst
    <3>5. u[x] \in Int /\ v[x] \in Int /\ w[x] = u[x] + v[x]
      BY <3>1
    <3>6. SumFunctionOnSet(w, T) = SumFunctionOnSet(u, T) + SumFunctionOnSet(v, T)
      <4>1. SumFunctionOnSet(w, U) = SumFunctionOnSet(u, U) + SumFunctionOnSet(v, U)
        BY <3>2
      <4> HIDE DEF U, x
      <4> QED
        BY <3>3, <3>4, <3>5, <4>1
    <3> QED
      BY <3>6
  <2> QED
    BY <2>1, <2>2
<1>2. \A T \in SUBSET S : T \in Good
  <2> HIDE DEF Good
  <2> QED
    BY <1>1, SubsetInduction
<1> QED
  BY <1>2

(* An inequality between multiples of the summands, up to a constant, holds  *)
(* for the sums, up to the constant for every summand.                       *)
LEMMA SumRatio ==
    ASSUME NEW f, NEW g, NEW S, IsFiniteSet(S), NEW k \in Int, NEW m \in Int, NEW c \in Int,
           \A x \in S : f[x] \in Int /\ g[x] \in Int /\ k * f[x] <= m * g[x] + c
    PROVE  k * SumFunctionOnSet(f, S) <= m * SumFunctionOnSet(g, S) + c * Cardinality(S)
<1> DEFINE Good == {T \in SUBSET S :
              k * SumFunctionOnSet(f, T) <= m * SumFunctionOnSet(g, T) + c * Cardinality(T)}
<1>1. ASSUME NEW T \in SUBSET S, \A U \in SUBSET T : U # T => U \in Good
      PROVE  T \in Good
  <2>1. CASE T = {}
    <3>1. SumFunctionOnSet(f, T) = 0 /\ SumFunctionOnSet(g, T) = 0 /\ Cardinality(T) = 0
      BY <2>1, SumEmpty, FS_EmptySet
    <3>2. k * 0 <= m * 0 + c * 0
      OBVIOUS
    <3> QED
      BY <3>1, <3>2
  <2>2. CASE T # {}
    <3> DEFINE x == First(T)
               U == T \ {x}
               F == SumFunctionOnSet(f, U)
               G == SumFunctionOnSet(g, U)
               n == Cardinality(U)
    <3>1. IsFiniteSet(T) /\ x \in T
      BY <2>2, FS_Subset, FirstIn
    <3>2. k * F <= m * G + c * n
      <4>1. U \in Good
        BY <1>1, <3>1
      <4> QED
        BY <4>1
    <3>3. F \in Int /\ G \in Int /\ n \in Int
      <4>1. IsFiniteSet(U) /\ U \subseteq S
        BY FS_Subset
      <4> QED
        BY <4>1, SumInt, FS_CardinalityType
    <3>4. /\ SumFunctionOnSet(f, T) = f[x] + F
          /\ SumFunctionOnSet(g, T) = g[x] + G
      BY <2>2, <3>1, SumFirst
    <3>5. Cardinality(T) = 1 + n
      <4>1. n = Cardinality(T) - 1 /\ Cardinality(T) \in Nat
        BY <3>1, FS_RemoveElement, FS_CardinalityType
      <4> QED
        BY <4>1
    <3>6. f[x] \in Int /\ g[x] \in Int /\ k * f[x] <= m * g[x] + c
      BY <3>1
    <3> HIDE DEF F, G, n, x
    <3>7. k * (f[x] + F) <= m * (g[x] + G) + c * (1 + n)
      <4>1. /\ k * (f[x] + F) = k * f[x] + k * F
            /\ m * (g[x] + G) = m * g[x] + m * G
            /\ c * (1 + n) = c + c * n
        BY <3>3, <3>6
      <4>2. /\ k * f[x] \in Int /\ k * F \in Int /\ m * g[x] \in Int
            /\ m * G \in Int /\ c * n \in Int
        BY <3>3, <3>6
      <4> QED
        BY <3>2, <3>6, <4>1, <4>2
    <3> QED
      BY <3>4, <3>5, <3>7
  <2> QED
    BY <2>1, <2>2
<1>2. \A T \in SUBSET S : T \in Good
  <2> HIDE DEF Good
  <2> QED
    BY <1>1, SubsetInduction
<1> QED
  BY <1>2

(* Elements at which the function is zero do not count.                      *)
LEMMA SumZeroExtension ==
    ASSUME NEW w, NEW S, NEW R, IsFiniteSet(S), R \subseteq S,
           \A x \in S : w[x] \in Int, \A x \in S \ R : w[x] = 0
    PROVE  SumFunctionOnSet(w, S) = SumFunctionOnSet(w, R)
<1> DEFINE Good == {T \in SUBSET S : SumFunctionOnSet(w, T) = SumFunctionOnSet(w, T \cap R)}
<1>1. ASSUME NEW T \in SUBSET S, \A U \in SUBSET T : U # T => U \in Good
      PROVE  T \in Good
  <2>1. CASE T = {}
    <3>1. T \cap R = T
      BY <2>1
    <3> QED
      BY <3>1
  <2>2. CASE T # {}
    <3> DEFINE x == First(T)
               U == T \ {x}
    <3>1. IsFiniteSet(T) /\ x \in T /\ x \in S
      BY <2>2, FS_Subset, FirstIn
    <3>2. SumFunctionOnSet(w, U) = SumFunctionOnSet(w, U \cap R)
      BY <1>1, <3>1
    <3>3. SumFunctionOnSet(w, T) = w[x] + SumFunctionOnSet(w, U)
      BY <2>2, <3>1, SumFirst
    <3>4. CASE x \in R
      <4>1. IsFiniteSet(T \cap R) /\ x \in T \cap R /\ (T \cap R) \ {x} = U \cap R
        BY <3>1, <3>4, FS_Subset
      <4>2. \A y \in T \cap R : w[y] \in Int
        OBVIOUS
      <4>3. SumFunctionOnSet(w, T \cap R) = w[x] + SumFunctionOnSet(w, (T \cap R) \ {x})
        BY <4>1, <4>2, SumSplit
      <4> QED
        BY <3>2, <3>3, <4>1, <4>3
    <3>5. CASE x \notin R
      <4>1. T \cap R = U \cap R /\ w[x] = 0
        BY <3>1, <3>5
      <4>2. SumFunctionOnSet(w, U) \in Int
        BY <3>1, FS_Subset, SumInt
      <4>3. SumFunctionOnSet(w, T) = SumFunctionOnSet(w, U)
        BY <3>3, <4>1, <4>2
      <4> QED
        BY <3>2, <4>1, <4>3
    <3> QED
      BY <3>4, <3>5
  <2> QED
    BY <2>1, <2>2
<1>2. \A T \in SUBSET S : T \in Good
  <2> HIDE DEF Good
  <2> QED
    BY <1>1, SubsetInduction
<1>3. S \cap R = R
  OBVIOUS
<1> QED
  BY <1>2, <1>3

(* w gives to the image R of S under the injection h what v gives to S.      *)
Renamed(h, v, w, S, R) ==
    /\ IsFiniteSet(S) /\ R = {h[x] : x \in S}
    /\ \A x \in S : v[x] \in Int /\ w[h[x]] = v[x]
    /\ \A x, y \in S : h[x] = h[y] => x = y

(* The names of the elements do not matter.                                  *)
LEMMA SumRenamed ==
    ASSUME NEW h, NEW v, NEW w, NEW S, NEW R, Renamed(h, v, w, S, R)
    PROVE  IsFiniteSet(R) /\ SumFunctionOnSet(w, R) = SumFunctionOnSet(v, S)
<1> USE DEF Renamed
<1> DEFINE Image(T) == {h[x] : x \in T}
           Good == {T \in SUBSET S : /\ IsFiniteSet(Image(T))
                                     /\ SumFunctionOnSet(w, Image(T)) = SumFunctionOnSet(v, T)}
<1>1. ASSUME NEW T \in SUBSET S, \A U \in SUBSET T : U # T => U \in Good
      PROVE  T \in Good
  <2>1. CASE T = {}
    <3>1. Image(T) = {}
      BY <2>1
    <3> QED
      BY <2>1, <3>1, SumEmpty, FS_EmptySet
  <2>2. CASE T # {}
    <3> DEFINE x == First(T)
               U == T \ {x}
    <3>1. IsFiniteSet(T) /\ x \in T /\ x \in S
      BY <2>2, FS_Subset, FirstIn
    <3>2. IsFiniteSet(Image(U)) /\ SumFunctionOnSet(w, Image(U)) = SumFunctionOnSet(v, U)
      BY <1>1, <3>1
    <3>3. SumFunctionOnSet(v, T) = v[x] + SumFunctionOnSet(v, U)
      BY <2>2, <3>1, SumFirst
    <3>4. Image(T) = Image(U) \cup {h[x]} /\ h[x] \notin Image(U)
      BY <3>1
    <3>5. \A y \in Image(U) : w[y] \in Int
      BY <3>1
    <3>6. w[h[x]] = v[x] /\ w[h[x]] \in Int
      BY <3>1
    <3> HIDE DEF Image, x
    <3>7. IsFiniteSet(Image(T))
      <4>1. IsFiniteSet(Image(U) \cup {h[x]})
        BY <3>2, FS_AddElement
      <4> QED
        BY <3>4, <4>1
    <3>8. SumFunctionOnSet(w, Image(U) \cup {h[x]}) = w[h[x]] + SumFunctionOnSet(w, Image(U))
      BY <3>2, <3>4, <3>5, <3>6, SumAdd
    <3>9. SumFunctionOnSet(w, Image(T)) = SumFunctionOnSet(v, T)
      BY <3>2, <3>3, <3>4, <3>6, <3>8
    <3> QED
      BY <3>7, <3>9
  <2> QED
    BY <2>1, <2>2
<1>2. \A T \in SUBSET S : T \in Good
  <2> HIDE DEF Good
  <2> QED
    BY <1>1, SubsetInduction
<1> QED
  BY <1>2

-----------------------------------------------------------------------------
(* Lists of accounts with their amounts, and the balances they make *)

(* Two lists of accounts, each with an amount for all of its members.        *)
Zipped(E, x) == [i \in DOMAIN E |-> <<E[i], x>>]

(* Zipping a list of accounts with one amount keeps its length and order.    *)
LEMMA ZippedSeq ==
    ASSUME NEW S, NEW E \in Seq(S), NEW x \in Nat
    PROVE  /\ Zipped(E, x) \in Seq(S \X Nat) /\ Len(Zipped(E, x)) = Len(E)
           /\ \A i \in 1..Len(E) : Zipped(E, x)[i][1] = E[i] /\ Zipped(E, x)[i][2] = x
  BY DEF Zipped

(* The entries of b name the accounts of c, the last n those of T with y.    *)
Listed(b, c, m, n, T, y) ==
    /\ Len(b) = m + n /\ DOMAIN b = 1..(m + n) /\ DOMAIN c = 1..(m + n)
    /\ \A i \in 1..(m + n) : b[i][1] = c[i] /\ b[i][2] \in Nat
    /\ \A i \in 1..n : m + i \in 1..(m + n) /\ b[m + i][2] = y /\ c[m + i] = T[i]

(* Two zipped lists, one after the other, list both accounts and amounts.    *)
LEMMA ZippedBalances ==
    ASSUME NEW S, NEW E \in Seq(S), NEW T \in Seq(S), NEW x \in Nat, NEW y \in Nat
    PROVE  Listed(Zipped(E, x) \o Zipped(T, y), E \o T, Len(E), Len(T), T, y)
<1> DEFINE given == Zipped(E, x)
           staked == Zipped(T, y)
           P == S \X Nat
           b == given \o staked
           c == E \o T
           m == Len(E)
           n == Len(T)
<1>1. /\ given \in Seq(P) /\ Len(given) = m
      /\ \A i \in 1..m : given[i][1] = E[i] /\ given[i][2] = x
      /\ staked \in Seq(P) /\ Len(staked) = n
      /\ \A i \in 1..n : staked[i][1] = T[i] /\ staked[i][2] = y
  <2>1. /\ given \in Seq(P) /\ Len(given) = m
        /\ \A i \in 1..m : given[i][1] = E[i] /\ given[i][2] = x
    BY ZippedSeq, Zenon
  <2>2. /\ staked \in Seq(P) /\ Len(staked) = n
        /\ \A i \in 1..n : staked[i][1] = T[i] /\ staked[i][2] = y
    BY ZippedSeq, Zenon
  <2> QED
    BY <2>1, <2>2, Zenon
<1>2. m \in Nat /\ n \in Nat
  OBVIOUS
<1> HIDE DEF given, staked, P
<1>3. /\ Len(b) = m + n /\ DOMAIN b = 1..(m + n)
      /\ \A i \in 1..(m + n) : b[i] = IF i =< m THEN given[i] ELSE staked[i - m]
  <2>1. given \in Seq(P) /\ staked \in Seq(P)
    BY <1>1
  <2>2. /\ Len(b) = Len(given) + Len(staked) /\ DOMAIN b = 1..(Len(given) + Len(staked))
        /\ \A i \in 1..(Len(given) + Len(staked)) :
              b[i] = IF i =< Len(given) THEN given[i] ELSE staked[i - Len(given)]
    BY <2>1
  <2> HIDE DEF b, m, n
  <2> QED
    BY <1>1, <2>2
<1>4. /\ DOMAIN c = 1..(m + n)
      /\ \A i \in 1..(m + n) : c[i] = IF i =< m THEN E[i] ELSE T[i - m]
  OBVIOUS
<1> HIDE DEF b, c, m, n
<1>6. ASSUME NEW i \in 1..(m + n)
      PROVE  b[i][1] = c[i] /\ b[i][2] \in Nat
  <2>1. CASE i =< m
    <3>1. b[i] = given[i] /\ c[i] = E[i] /\ i \in 1..m
      BY <1>2, <1>3, <1>4, <2>1
    <3> QED
      BY <1>1, <3>1
  <2>2. CASE ~(i =< m)
    <3>1. b[i] = staked[i - m] /\ c[i] = T[i - m] /\ i - m \in 1..n
      BY <1>2, <1>3, <1>4, <2>2
    <3> QED
      BY <1>1, <3>1
  <2> QED
    BY <2>1, <2>2
<1>7. ASSUME NEW i \in 1..n
      PROVE  m + i \in 1..(m + n) /\ b[m + i][2] = y /\ c[m + i] = T[i]
  <2>1. m + i \in 1..(m + n) /\ ~(m + i =< m) /\ (m + i) - m = i
    BY <1>2
  <2>2. b[m + i] = staked[i] /\ c[m + i] = T[i]
    BY <1>3, <1>4, <2>1
  <2> QED
    BY <1>1, <2>1, <2>2
<1>8. Listed(b, c, m, n, T, y)
  BY <1>3, <1>4, <1>6, <1>7, Zenon DEF Listed
<1> QED
  BY <1>8 DEF b, c, m, n, given, staked

(* Counting the holders tells whether an account is endowed twice.           *)
LEMMA HoldersCounted ==
    ASSUME NEW n \in Nat, NEW c, DOMAIN c = 1..n
    PROVE  LET H == {c[i] : i \in 1..n}
           IN  IsFiniteSet(H) /\ (Cardinality(H) < n <=> ~IsInjective(c))
<1> DEFINE H == {c[i] : i \in 1..n}
           f == [i \in 1..n |-> c[i]]
<1>1. f \in Surjection(1..n, H)
  BY DEF Surjection
<1>2. IsFiniteSet(1..n) /\ Cardinality(1..n) = n
  BY FS_Interval
<1>3. f \in Injection(1..n, H) <=> IsInjective(c)
  <2>1. f \in [1..n -> H] /\ DOMAIN f = 1..n /\ \A i \in 1..n : f[i] = c[i]
    OBVIOUS
  <2> HIDE DEF f, H
  <2> QED
    BY <2>1 DEF Injection, IsInjective
<1> HIDE DEF f, H
<1>4. /\ IsFiniteSet(H) /\ Cardinality(H) =< n
      /\ Cardinality(H) = n <=> f \in Injection(1..n, H)
  BY <1>1, <1>2, FS_Surjection
<1>5. Cardinality(H) \in Nat
  BY <1>4, FS_CardinalityType
<1>6. Cardinality(H) < n <=> ~IsInjective(c)
  BY <1>3, <1>4, <1>5
<1> QED
  BY <1>4, <1>6 DEF H

(* w holds the amounts of the list b of accounts c, without duplicates.      *)
Given(n, b, c, w) ==
    /\ n \in Nat /\ DOMAIN b = 1..n /\ DOMAIN c = 1..n /\ IsInjective(c)
    /\ \A i \in 1..n : b[i][1] = c[i] /\ b[i][2] \in Nat
    /\ DOMAIN w = {c[i] : i \in 1..n}
    /\ \A a \in DOMAIN w : w[a] = b[CHOOSE i \in DOMAIN b : b[i][1] = a][2]

(* The balances of a list without duplicates add up to its amounts.          *)
LEMMA HoldersSum ==
    ASSUME NEW n, NEW b, NEW c, NEW w, Given(n, b, c, w)
    PROVE  /\ \A i \in 1..n : w[c[i]] = b[i][2]
           /\ IsFiniteSet(DOMAIN w)
           /\ SumFunction(w) = SumFunction([i \in DOMAIN b |-> b[i][2]])
<1> USE DEF Given
<1> DEFINE v == [i \in DOMAIN b |-> b[i][2]]
<1>1. ASSUME NEW i \in 1..n
      PROVE  w[c[i]] = b[i][2]
  <2>1. b[CHOOSE j \in DOMAIN b : b[j][1] = c[i]][1] = c[i]
        /\ (CHOOSE j \in DOMAIN b : b[j][1] = c[i]) \in 1..n
    BY Zenon
  <2>2. (CHOOSE j \in DOMAIN b : b[j][1] = c[i]) = i
    BY <2>1, Zenon DEF IsInjective
  <2> QED
    BY <2>2, Zenon
<1>2. DOMAIN v = 1..n /\ \A i \in 1..n : v[i] \in Int /\ w[c[i]] = v[i]
  BY <1>1
<1>3. \A i, j \in 1..n : c[i] = c[j] => i = j
  BY DEF IsInjective
<1> HIDE DEF v
<1>4. IsFiniteSet(1..n)
  BY FS_Interval
<1>5. IsFiniteSet(DOMAIN w) /\ SumFunctionOnSet(w, DOMAIN w) = SumFunctionOnSet(v, 1..n)
  <2>1. Renamed(c, v, w, 1..n, DOMAIN w)
    BY <1>2, <1>3, <1>4 DEF Renamed
  <2> QED
    BY <2>1, SumRenamed
<1>6. SumFunction(w) = SumFunction(v)
  BY <1>2, <1>5 DEF SumFunction
<1> QED
  BY <1>1, <1>5, <1>6 DEF v

(* g is what deposit_creating makes of f for the EVM addresses in e, which   *)
(* have the accounts D.                                                      *)
Deposited(f, e, D, g) ==
    /\ IsFiniteSet(DOMAIN f) /\ \A a \in DOMAIN f : f[a] \in Nat
    /\ IsFiniteSet(DOMAIN e) /\ \A a \in DOMAIN e : e[a] \in Nat
    /\ D = {<<"evm", a>> : a \in DOMAIN e}
    /\ DOMAIN g = DOMAIN f \cup D
    /\ \A x \in D : g[x] = (IF x \in DOMAIN f THEN f[x] ELSE 0) + e[x[2]]
    /\ \A x \in DOMAIN g \ D : g[x] = f[x]

(* deposit_creating to the accounts of the EVM addresses in e: the balances  *)
(* add up to that much more, and no account has less.                        *)
LEMMA EvmSum ==
    ASSUME NEW f, NEW e, NEW D, NEW g, Deposited(f, e, D, g)
    PROVE  /\ IsFiniteSet(DOMAIN g) /\ \A a \in DOMAIN g : g[a] \in Nat
           /\ \A a \in DOMAIN f : g[a] >= f[a]
           /\ SumFunction(g) = SumFunction(f) + SumFunction(e)
<1> USE DEF Deposited
<1> DEFINE G == DOMAIN f \cup D
           old == [x \in G |-> IF x \in DOMAIN f THEN f[x] ELSE 0]
           new == [x \in G |-> IF x \in D THEN e[x[2]] ELSE 0]
           h == [a \in DOMAIN e |-> <<"evm", a>>]
<1>1. \A x \in D : x[2] \in DOMAIN e /\ e[x[2]] \in Nat
  OBVIOUS
<1>2. \A x \in G : /\ old[x] \in Nat /\ new[x] \in Nat /\ g[x] = old[x] + new[x]
                   /\ old[x] \in Int /\ new[x] \in Int
  BY <1>1
<1>3. \A x \in G \ DOMAIN f : old[x] = 0
  OBVIOUS
<1>4. \A x \in G \ D : new[x] = 0
  OBVIOUS
<1>5. \A x \in DOMAIN f : old[x] = f[x]
  OBVIOUS
<1>6. /\ \A a \in DOMAIN e : e[a] \in Int /\ new[h[a]] = e[a]
      /\ \A a, c \in DOMAIN e : h[a] = h[c] => a = c
      /\ {h[a] : a \in DOMAIN e} = D
  OBVIOUS
<1> HIDE DEF old, new, h
<1>7. IsFiniteSet(D) /\ SumFunctionOnSet(new, D) = SumFunctionOnSet(e, DOMAIN e)
  <2>1. Renamed(h, e, new, DOMAIN e, D)
    BY <1>6 DEF Renamed
  <2> QED
    BY <2>1, SumRenamed
<1>8. IsFiniteSet(G)
  BY <1>7, FS_Union
<1>9. SumFunctionOnSet(g, G) = SumFunctionOnSet(old, G) + SumFunctionOnSet(new, G)
  <2> HIDE DEF G
  <2> QED
    BY <1>2, <1>8, SumPlus
<1>10. SumFunctionOnSet(old, G) = SumFunctionOnSet(f, DOMAIN f)
  <2>1. SumFunctionOnSet(old, G) = SumFunctionOnSet(old, DOMAIN f)
    BY <1>2, <1>3, <1>8, SumZeroExtension
  <2>2. SumFunctionOnSet(old, DOMAIN f) = SumFunctionOnSet(f, DOMAIN f)
    BY <1>5, SumCong
  <2> QED
    BY <2>1, <2>2
<1>11. SumFunctionOnSet(new, G) = SumFunctionOnSet(new, D)
  BY <1>2, <1>4, <1>8, SumZeroExtension
<1>12. SumFunction(g) = SumFunction(f) + SumFunction(e)
  BY <1>7, <1>9, <1>10, <1>11 DEF SumFunction
<1>13. \A a \in DOMAIN g : g[a] \in Nat
  BY <1>2
<1>14. \A a \in DOMAIN f : g[a] >= f[a]
  BY <1>2, <1>5
<1> QED
  BY <1>8, <1>12, <1>13, <1>14

(* Two lists without duplicates and with no common entry, one after the      *)
(* other, have none.                                                         *)
LEMMA JoinInjective ==
    ASSUME NEW S, NEW E \in Seq(S), NEW T \in Seq(S), IsInjective(E), IsInjective(T),
           \A i \in 1..Len(E), j \in 1..Len(T) : E[i] # T[j]
    PROVE  IsInjective(E \o T)
<1> DEFINE m == Len(E)
           n == Len(T)
           c == E \o T
<1>1. /\ m \in Nat /\ n \in Nat /\ DOMAIN c = 1..(m + n) /\ DOMAIN E = 1..m /\ DOMAIN T = 1..n
      /\ \A i \in 1..(m + n) : c[i] = IF i =< m THEN E[i] ELSE T[i - m]
  BY SMTT(30)
<1>2. /\ \A i, j \in 1..m : E[i] = E[j] => i = j
      /\ \A i, j \in 1..n : T[i] = T[j] => i = j
      /\ \A i \in 1..m, j \in 1..n : E[i] # T[j]
  BY <1>1 DEF IsInjective
<1> HIDE DEF m, n, c
<1>3. ASSUME NEW i \in 1..(m + n), NEW j \in 1..(m + n), c[i] = c[j]
      PROVE  i = j
  <2>1. CASE i =< m /\ j =< m
    BY <1>1, <1>2, <1>3, <2>1
  <2>2. CASE i > m /\ j > m
    <3>1. i - m \in 1..n /\ j - m \in 1..n /\ c[i] = T[i - m] /\ c[j] = T[j - m]
      BY <1>1, <2>2
    <3>2. i - m = j - m
      BY <1>2, <1>3, <3>1
    <3> QED
      BY <1>1, <3>2
  <2>3. CASE i =< m /\ j > m
    <3>1. i \in 1..m /\ j - m \in 1..n /\ c[i] = E[i] /\ c[j] = T[j - m]
      BY <1>1, <2>3
    <3> QED
      BY <1>2, <1>3, <3>1
  <2>4. CASE i > m /\ j =< m
    <3>1. j \in 1..m /\ i - m \in 1..n /\ c[j] = E[j] /\ c[i] = T[i - m]
      BY <1>1, <2>4
    <3> QED
      BY <1>2, <1>3, <3>1
  <2> QED
    BY <1>1, <2>1, <2>2, <2>3, <2>4
<1>4. IsInjective(c)
  BY <1>1, <1>3 DEF IsInjective
<1> QED
  BY <1>4 DEF c

(* A function on 1..n is a sequence.                                         *)
LEMMA SeqOf ==
    ASSUME NEW n \in Nat, NEW T, T = [i \in 1..n |-> T[i]], NEW S, Range(T) \subseteq S
    PROVE  T \in Seq(S) /\ Len(T) = n
<1>1. \A i \in 1..n : T[i] \in S
  BY DEF Range
<1>2. T \in [1..n -> S]
  BY <1>1
<1> QED
  BY <1>2

-----------------------------------------------------------------------------
(* The arithmetic of ratios that are rounded, for the rewards of the pools. *)

(* Facts of arithmetic that are used with products.                          *)
LEMMA Products ==
    /\ \A a, b, c \in Int : a * (b - c) = a * b - a * c
    /\ \A a \in Nat, b, c \in Int : b <= c => a * b <= a * c
    /\ \A a, b \in Int : a * b \in Int
    /\ \A a \in Int : a * 0 = 0
  OBVIOUS

(* Quotient and remainder.                                                  *)
LEMMA Division ==
    ASSUME NEW n \in Nat, NEW c \in Nat \ {0}
    PROVE  /\ n \div c \in Nat /\ n % c \in 0 .. c - 1
           /\ n = c * (n \div c) + (n % c)
<1>1. n \div c \in Nat
  OBVIOUS
<1>2. n % c \in 0 .. c - 1
  OBVIOUS
<1>3. n = c * (n \div c) + (n % c)
  OBVIOUS
<1> QED
  BY <1>1, <1>2, <1>3

(* More than half of c, rounded down, is at least half of c.                 *)
LEMMA Half ==
    ASSUME NEW r \in Nat, NEW c \in Nat \ {0}
    PROVE  IF r > c \div 2 THEN 2 * r >= c ELSE 2 * r <= c
  OBVIOUS

(* A positive factor can be cancelled from an inequality.                    *)
LEMMA Cancel ==
    ASSUME NEW k \in Nat \ {0}, NEW a \in Int, NEW b \in Int, k * a <= k * b
    PROVE  a <= b
<1>1. SUFFICES ASSUME a >= b + 1 PROVE FALSE
  OBVIOUS
<1>2. k * (b + 1) <= k * a
  BY <1>1, Products
<1>3. k * (b + 1) = k * b + k
  OBVIOUS
<1> QED
  BY <1>2, <1>3, Products

(* What a holder of s of S shares gets of R, the ratio f and the reward x    *)
(* being rounded: at most its part, half a unit and half of a part in D.     *)
LEMMA ShareOfRewards ==
    ASSUME NEW D \in Nat \ {0}, NEW S \in Nat \ {0}, NEW s \in Nat, NEW R \in Nat,
           NEW e \in {0, 1}, NEW f \in Nat, NEW x \in Nat,
           2 * (S * f) <= 2 * (s * D) + e * S,
           2 * (D * x) <= 2 * (f * R) + D
    PROVE  (2 * (S * D)) * x <= (2 * (D * R)) * s + S * (R + D)
<1> DEFINE P == S * (D * x)
           Q == S * (f * R)
           U == R * (s * D)
           V == R * S
           W == S * D
<1>1. P \in Int /\ Q \in Int /\ U \in Int /\ V \in Nat /\ W \in Int
  OBVIOUS
<1>2. R * (2 * (S * f)) <= R * (2 * (s * D) + e * S)
  <2>1. 2 * (S * f) \in Int /\ 2 * (s * D) + e * S \in Int
    OBVIOUS
  <2> QED
    BY <2>1, Products
<1>3. S * (2 * (D * x)) <= S * (2 * (f * R) + D)
  <2>1. 2 * (D * x) \in Int /\ 2 * (f * R) + D \in Int
    OBVIOUS
  <2> QED
    BY <2>1, Products
<1>4. R * (2 * (S * f)) = 2 * Q /\ S * (2 * (D * x)) = 2 * P
  OBVIOUS
<1>5. R * (2 * (s * D) + e * S) <= 2 * U + V
  <2>1. CASE e = 0
    <3>1. R * (2 * (s * D) + e * S) = 2 * U
      BY <2>1
    <3> QED
      BY <1>1, <3>1
  <2>2. CASE e = 1
    <3>1. R * (2 * (s * D) + e * S) = 2 * U + V
      BY <2>2
    <3> QED
      BY <1>1, <3>1
  <2> QED
    BY <2>1, <2>2
<1>6. S * (2 * (f * R) + D) = 2 * Q + W
  OBVIOUS
<1>7. (2 * (S * D)) * x = 2 * P /\ (2 * (D * R)) * s = 2 * U /\ S * (R + D) = V + W
  OBVIOUS
<1>8. R * (2 * (s * D) + e * S) \in Int
  OBVIOUS
<1>9. 2 * P <= 2 * U + V + W
  <2> HIDE DEF P, Q, U, V, W
  <2> QED
    BY <1>1, <1>2, <1>3, <1>4, <1>5, <1>6, <1>8
<1> QED
  BY <1>1, <1>7, <1>9

(* What n holders of all the S shares get together.                          *)
LEMMA ShareOfAll ==
    ASSUME NEW D \in Nat \ {0}, NEW S \in Nat \ {0}, NEW R \in Nat, NEW n \in Nat,
           NEW X \in Int,
           (2 * (S * D)) * X <= (2 * (D * R)) * S + (S * (R + D)) * n
    PROVE  X <= R + (n * (R + D)) \div (2 * D)
<1> DEFINE k == 2 * D
           M == n * (R + D)
           q == M \div k
<1>1. k \in Nat \ {0} /\ M \in Nat
  OBVIOUS
<1>2. k * X <= k * R + M
  <2>1. S * (k * X) <= S * (k * R + M)
    <3>1. /\ (2 * (S * D)) * X = S * (k * X)
          /\ (2 * (D * R)) * S + (S * (R + D)) * n = S * (k * R + M)
      OBVIOUS
    <3> QED
      BY <3>1
  <2>2. k * X \in Int /\ k * R + M \in Int
    OBVIOUS
  <2> HIDE DEF k, M
  <2> QED
    BY <2>1, <2>2, Cancel
<1>3. q \in Nat /\ M % k \in 0 .. k - 1 /\ M = k * q + (M % k)
  <2> HIDE DEF k, M
  <2> QED
    BY <1>1, Division
<1>4. k * (X - R) <= k * q + (k - 1)
  <2> DEFINE r == M % k
  <2>1. k * (X - R) = k * X - k * R /\ k * X \in Int /\ k * R \in Int /\ k * q \in Int
    <3> HIDE DEF k, q
    <3> QED
      BY <1>1, <1>3, Products
  <2>2. r \in Int /\ r <= k - 1 /\ M = k * q + r
    BY <1>3
  <2> HIDE DEF k, M, q, r
  <2> QED
    BY <1>1, <1>2, <2>1, <2>2
<1>5. X - R <= q
  <2> SUFFICES ASSUME X - R >= q + 1 PROVE FALSE
    BY <1>3
  <2>1. k * (q + 1) <= k * (X - R)
    <3> HIDE DEF k, q
    <3> QED
      BY <1>1, <1>3, Products
  <2>2. k * (q + 1) = k * q + k /\ k * q \in Int /\ k * (X - R) \in Int
    <3> HIDE DEF k, q
    <3> QED
      BY <1>1, <1>3
  <2> HIDE DEF k, q
  <2> QED
    BY <1>1, <1>4, <2>1, <2>2
<1>6. X <= R + q
  <2> HIDE DEF q
  <2> QED
    BY <1>3, <1>5
<1> QED
  BY <1>6

(* What the two ratios cost.  A holder of s of S shares has the ratio f to   *)
(* R, and the ratio g to Q once the pool has T shares.  Both ratios are      *)
(* rounded the same way, as both are s * D over something, and the last      *)
(* hypothesis bounds what the holder loses when nothing is rounded.          *)
LEMMA RatioLoss ==
    ASSUME NEW D \in Nat \ {0}, NEW S \in Nat \ {0}, NEW T \in Nat \ {0},
           NEW s \in Nat, NEW R \in Nat, NEW Q \in Nat, NEW e \in {0, 1},
           NEW f \in Nat, NEW g \in Nat,
           2 * (S * f) <= 2 * (s * D) + e * S,
           2 * (T * g) >= 2 * (s * D) - (2 - e) * T,
           2 * (s * (D * (R * T - Q * S))) <= (S * T) * (2 * D + 2 * T + R)
    PROVE  f * R - g * Q <= D + T + R + Q
<1> DEFINE k == S * T
<1>1. k \in Nat \ {0}
  OBVIOUS
<1>2. (T * R) * (2 * (S * f)) <= (T * R) * (2 * (s * D) + e * S)
  <2>1. T * R \in Nat /\ 2 * (S * f) \in Int /\ 2 * (s * D) + e * S \in Int
    OBVIOUS
  <2> HIDE DEF k
  <2> QED
    BY <2>1, Products
<1>3. (S * Q) * (2 * (s * D) - (2 - e) * T) <= (S * Q) * (2 * (T * g))
  <2>1. S * Q \in Nat /\ 2 * (T * g) \in Int /\ 2 * (s * D) - (2 - e) * T \in Int
    OBVIOUS
  <2> QED
    BY <2>1, Products
<1>4. k * (2 * (f * R - g * Q)) = (T * R) * (2 * (S * f)) - (S * Q) * (2 * (T * g))
  OBVIOUS
<1>5. (T * R) * (2 * (s * D) + e * S) - (S * Q) * (2 * (s * D) - (2 - e) * T)
         = 2 * (s * (D * (R * T - Q * S))) + k * (e * R + (2 - e) * Q)
  OBVIOUS
<1>6. k * (2 * D + 2 * T + R) + k * (e * R + (2 - e) * Q)
         = k * (2 * D + 2 * T + R + e * R + (2 - e) * Q)
  OBVIOUS
<1>7. 2 * D + 2 * T + R + e * R + (2 - e) * Q <= 2 * (D + T + R + Q)
  OBVIOUS
<1>8. k * (2 * D + 2 * T + R + e * R + (2 - e) * Q) <= k * (2 * (D + T + R + Q))
  <2> HIDE DEF k
  <2>1. 2 * D + 2 * T + R + e * R + (2 - e) * Q \in Int /\ 2 * (D + T + R + Q) \in Int
    OBVIOUS
  <2> QED
    BY <1>1, <1>7, <2>1, Products
<1>9. k * (2 * (f * R - g * Q)) <= k * (2 * (D + T + R + Q))
  <2> DEFINE a == (T * R) * (2 * (S * f))
             b == (T * R) * (2 * (s * D) + e * S)
             c == (S * Q) * (2 * (T * g))
             d == (S * Q) * (2 * (s * D) - (2 - e) * T)
             u == 2 * (s * (D * (R * T - Q * S)))
             v == k * (2 * D + 2 * T + R)
             w == k * (e * R + (2 - e) * Q)
             x == k * (2 * D + 2 * T + R + e * R + (2 - e) * Q)
             y == k * (2 * (D + T + R + Q))
  <2>1. /\ a \in Int /\ b \in Int /\ c \in Int /\ d \in Int /\ u \in Int
        /\ v \in Int /\ w \in Int /\ x \in Int /\ y \in Int
    OBVIOUS
  <2>2. a <= b /\ d <= c /\ b - d = u + w /\ u <= v /\ v + w = x /\ x <= y
    BY <1>2, <1>3, <1>5, <1>6, <1>8, Zenon
  <2>3. a - c <= y
    <3> HIDE DEF a, b, c, d, u, v, w, x, y
    <3> QED
      BY <2>1, <2>2
  <2> QED
    BY <1>4, <2>3, Zenon
<1>10. 2 * (f * R - g * Q) <= 2 * (D + T + R + Q)
  <2>1. 2 * (f * R - g * Q) \in Int /\ 2 * (D + T + R + Q) \in Int
    OBVIOUS
  <2> HIDE DEF k
  <2> QED
    BY <1>1, <1>9, <2>1, Cancel
<1> QED
  BY <1>10

(* What the rounding of the two rewards x and y adds to it.                  *)
LEMMA RewardLoss ==
    ASSUME NEW D \in Nat \ {0}, NEW f \in Nat, NEW g \in Nat,
           NEW x \in Nat, NEW y \in Nat,
           NEW was \in Nat, NEW R \in Nat, NEW Q \in Nat, NEW T \in Nat, was <= R,
           2 * (D * x) <= 2 * (f * was) + D,
           2 * (D * y) >= 2 * (g * Q) - 2 * D,
           f * R - g * Q <= D + T + R + Q
    PROVE  x <= y + 3 + ((R + Q + T) \div D)
<1> DEFINE n == R + Q + T
           q == n \div D
<1>1. n \in Nat /\ q \in Nat /\ n % D \in 0 .. D - 1 /\ n = D * q + (n % D)
  <2>1. n \in Nat
    OBVIOUS
  <2> QED
    BY <2>1, Division, Zenon
<1>2. f * was <= f * R
  BY Products
<1>3. 2 * (D * x) - 2 * (D * y) <= 5 * D + 2 * n
  BY <1>2
<1> HIDE DEF n, q
<1>4. D * x \in Int /\ D * y \in Int /\ D * q \in Int
  BY <1>1
<1>5. D * (x - y - q) = D * x - D * y - D * q
  BY <1>1
<1>6. 2 * (D * (x - y - q)) <= 7 * D - 2
  BY <1>1, <1>3, <1>4, <1>5
<1>7. D * (2 * (x - y - q)) <= D * 6
  <2>1. CASE x - y - q >= 4
    <3>1. D * 4 <= D * (x - y - q)
      BY <1>1, <2>1, Products
    <3> QED
      BY <1>6, <3>1, <1>1
  <2>2. CASE x - y - q <= 3
    <3>1. D * (x - y - q) <= D * 3
      BY <1>1, <2>2, Products
    <3> QED
      BY <3>1, <1>1
  <2> QED
    BY <1>1, <2>1, <2>2
<1>8. 2 * (x - y - q) <= 6
  BY <1>1, <1>7, Cancel
<1> QED
  BY <1>1, <1>8 DEF n, q

(* New shares hardly dilute the others: they are paid for with the virtual   *)
(* reward v, at the price p of a share.                                      *)
LEMMA AddDilution ==
    ASSUME NEW D \in Nat \ {0}, NEW S \in Nat \ {0}, NEW s \in Nat, s <= S,
           NEW a \in Nat, NEW R \in Nat, NEW p \in Nat, NEW v \in Nat,
           S * p >= R * D - S,
           D * v >= p * a - D
    PROVE  2 * (s * (D * (R * (S + a) - (R + v) * S)))
              <= (S * (S + a)) * (2 * D + 2 * (S + a) + R)
<1>1. a * (R * D - S) <= a * (S * p)
  <2>1. R * D - S \in Int /\ S * p \in Int
    OBVIOUS
  <2> QED
    BY <2>1, Products
<1>2. S * (p * a - D) <= S * (D * v)
  <2>1. p * a - D \in Int /\ D * v \in Int
    OBVIOUS
  <2> QED
    BY <2>1, Products
<1>3. D * (R * (S + a) - (R + v) * S) = D * (R * a) - S * (D * v)
  OBVIOUS
<1>4. D * (R * a) - S * (p * a - D) = S * D + S * a + a * (R * D - S) - a * (S * p)
  OBVIOUS
<1>5. D * (R * (S + a) - (R + v) * S) <= S * D + S * a
  <2> DEFINE e == a * (R * D - S)
             f == a * (S * p)
             g == S * (p * a - D)
             h == S * (D * v)
             k == D * (R * a)
             m == S * D + S * a
  <2>1. e \in Int /\ f \in Int /\ g \in Int /\ h \in Int /\ k \in Int /\ m \in Int
    OBVIOUS
  <2>2. e <= f /\ g <= h /\ k - g = m + e - f
    BY <1>1, <1>2, <1>4, Zenon
  <2>3. k - h <= m
    <3> HIDE DEF e, f, g, h, k, m
    <3> QED
      BY <2>1, <2>2
  <2> QED
    BY <1>3, <2>3, Zenon
<1> DEFINE x == D * (R * (S + a) - (R + v) * S)
           m == S * (D + a)
           T == S + a
<1>6. x \in Int /\ m \in Nat /\ T \in Nat /\ s <= T /\ x <= m
  <2>1. S * D + S * a = m
    OBVIOUS
  <2>2. x \in Int /\ m \in Nat /\ T \in Nat /\ s <= T
    OBVIOUS
  <2> QED
    BY <1>5, <2>1, <2>2, Zenon
<1>7. s * x <= T * m
  <2> HIDE DEF x, m, T
  <2>1. s * x <= s * m
    BY <1>6, Products
  <2>2. m * s <= m * T
    BY <1>6, Products
  <2> QED
    BY <1>6, <2>1, <2>2
<1>8. 2 * (T * m) <= (S * T) * (2 * D + 2 * T + R)
  <2>1. (S * T) * (2 * (D + a)) <= (S * T) * (2 * D + 2 * T + R)
    <3>1. S * T \in Nat /\ 2 * (D + a) \in Int /\ 2 * D + 2 * T + R \in Int
          /\ 2 * (D + a) <= 2 * D + 2 * T + R
      OBVIOUS
    <3> HIDE DEF T
    <3> QED
      BY <3>1, Products
  <2>2. 2 * (T * m) = (S * T) * (2 * (D + a))
    OBVIOUS
  <2> QED
    BY <2>1, <2>2
<1>9. 2 * (s * x) <= (S * T) * (2 * D + 2 * T + R)
  <2> DEFINE y == s * x
             z == T * m
             n == (S * T) * (2 * D + 2 * T + R)
  <2>1. y \in Int /\ z \in Int /\ n \in Int /\ y <= z /\ 2 * z <= n
    <3>1. y \in Int /\ z \in Int /\ n \in Int
      OBVIOUS
    <3> QED
      BY <1>7, <1>8, <3>1, Zenon
  <2> HIDE DEF y, z, n
  <2>2. 2 * y <= n
    BY <2>1
  <2> QED
    BY <2>2 DEF y, n
<1> QED
  BY <1>9, Zenon DEF x, T

(* Nor do removed shares, which take the reward w with them, at the ratio p. *)
LEMMA RemovalDilution ==
    ASSUME NEW D \in Nat \ {0}, NEW S \in Nat \ {0}, NEW s \in Nat,
           NEW a \in Nat, s + a <= S, NEW R \in Nat, NEW p \in Nat, NEW w \in Nat,
           2 * (S * p) <= 2 * (a * D) + S,
           2 * (D * w) <= 2 * (p * R) + D
    PROVE  2 * (s * (D * (R * (S - a) - (R - w) * S)))
              <= (S * (S - a)) * (2 * D + 2 * (S - a) + R)
<1>1. R * (2 * (S * p)) <= R * (2 * (a * D) + S)
  <2>1. 2 * (S * p) \in Int /\ 2 * (a * D) + S \in Int
    OBVIOUS
  <2> QED
    BY <2>1, Products
<1>2. S * (2 * (D * w)) <= S * (2 * (p * R) + D)
  <2>1. 2 * (D * w) \in Int /\ 2 * (p * R) + D \in Int
    OBVIOUS
  <2> QED
    BY <2>1, Products
<1> DEFINE x == D * (R * (S - a) - (R - w) * S)
           m == S * (R + D)
           T == S - a
<1>3. 2 * x = S * (2 * (D * w)) - R * (2 * (a * D))
  OBVIOUS
<1>4. 2 * x <= m
  <2> DEFINE e == R * (2 * (S * p))
             f == R * (2 * (a * D))
             g == S * (2 * (D * w))
  <2>1. e \in Int /\ f \in Int /\ g \in Int /\ m \in Int
    OBVIOUS
  <2>2. R * (2 * (a * D) + S) = f + R * S /\ S * (2 * (p * R) + D) = e + S * D
        /\ m = R * S + S * D /\ R * S \in Int /\ S * D \in Int
    OBVIOUS
  <2>3. e <= f + R * S /\ g <= e + S * D
    BY <1>1, <1>2, <2>2, Zenon
  <2>4. g - f <= m
    <3> HIDE DEF e, f, g, m
    <3> QED
      BY <2>1, <2>2, <2>3
  <2> QED
    BY <1>3, <2>4, Zenon
<1>5. x \in Int /\ m \in Nat /\ T \in Nat /\ s <= T
  OBVIOUS
<1>6. s * (2 * x) <= T * m
  <2> HIDE DEF x, m, T
  <2>1. s * (2 * x) <= s * m
    <3>1. 2 * x \in Int
      BY <1>5
    <3> QED
      BY <1>4, <1>5, <3>1, Products
  <2>2. m * s <= m * T
    BY <1>5, Products
  <2> QED
    BY <1>5, <2>1, <2>2
<1>7. T * m <= (S * T) * (2 * D + 2 * T + R)
  <2>1. (S * T) * (R + D) <= (S * T) * (2 * D + 2 * T + R)
    <3>1. S * T \in Nat /\ R + D \in Int /\ 2 * D + 2 * T + R \in Int
          /\ R + D <= 2 * D + 2 * T + R
      BY <1>5
    <3> HIDE DEF T
    <3> QED
      BY <3>1, Products
  <2>2. T * m = (S * T) * (R + D)
    BY <1>5
  <2> QED
    BY <2>1, <2>2
<1>8. 2 * (s * x) <= (S * T) * (2 * D + 2 * T + R)
  <2> DEFINE y == s * (2 * x)
             z == T * m
             n == (S * T) * (2 * D + 2 * T + R)
  <2>1. y \in Int /\ z \in Int /\ n \in Int /\ y <= z /\ z <= n
    <3>1. y \in Int /\ z \in Int /\ n \in Int
      BY <1>5
    <3> QED
      BY <1>6, <1>7, <3>1, Zenon
  <2>2. y <= n
    <3> HIDE DEF y, z, n
    <3> QED
      BY <2>1
  <2>3. y = 2 * (s * x)
    <3> HIDE DEF x
    <3> QED
      BY <1>5
  <2> QED
    BY <2>2, <2>3
<1> QED
  BY <1>8, Zenon DEF x, T

=============================================================================
