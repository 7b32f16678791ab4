---------------------------- MODULE SumTheorems ----------------------------
(***************************************************************************)
(* Facts about SumFunctionOnSet: the sum of f[x] over the x of a finite    *)
(* set.  The fold behind it picks the elements of the set one by one;      *)
(* induction is over the finite subsets, as the minimal counterexample.    *)
(***************************************************************************)
EXTENDS Integers, FiniteSets, Functions, FiniteSetTheorems, TLAPS

LEMMA MinimalSubset ==
  ASSUME NEW S, IsFiniteSet(S), NEW F, F \subseteq SUBSET S, F # {}
  PROVE  \E T \in F : \A U \in F : U \subseteq T => U = T
<1>1. IsWellFoundedOn(StrictSubsetOrdering(S), FiniteSubsetsOf(S))
  BY FS_StrictSubsetOrderingWellFounded
<1>2. F \subseteq FiniteSubsetsOf(S)
  BY FS_FiniteSubsetsOfFinite
<1>3. PICK T \in F : \A U \in F : <<U, T>> \notin StrictSubsetOrdering(S)
  BY <1>1, <1>2, WFMin
<1> QED
  BY <1>3 DEF StrictSubsetOrdering

-----------------------------------------------------------------------------
(* The fold's recursion.                                                   *)

Pick(s) == CHOOSE x \in s : TRUE

Iterates(h, f, S) ==
  h = [s \in SUBSET S |-> IF s = {} THEN 0 ELSE f[Pick(s)] + h[s \ {Pick(s)}]]

LEMMA Unfolded ==
  ASSUME NEW f, NEW S
  PROVE  SumFunctionOnSet(f, S) = (CHOOSE h : Iterates(h, f, S))[S]
BY DEF SumFunctionOnSet, FoldFunctionOnSet, MapThenFoldSet, Iterates, Pick

LEMMA Picked ==
  ASSUME NEW s, s # {}
  PROVE  Pick(s) \in s
BY DEF Pick

LEMMA IteratesAt ==
  ASSUME NEW f, NEW S, NEW h, Iterates(h, f, S), NEW s, s \subseteq S
  PROVE  h[s] = IF s = {} THEN 0 ELSE f[Pick(s)] + h[s \ {Pick(s)}]
BY DEF Iterates

LEMMA IteratesAgree ==
  ASSUME NEW f, NEW S, IsFiniteSet(S), NEW g, Iterates(g, f, S),
         NEW T, NEW h, Iterates(h, f, T), NEW s, s \subseteq S, s \subseteq T
  PROVE  g[s] = h[s]
<1> DEFINE F == {u \in SUBSET s : g[u] # h[u]}
<1> SUFFICES ASSUME F # {} PROVE FALSE
  OBVIOUS
<1>1. IsFiniteSet(s)
  BY FS_Subset
<1>2. PICK u \in F : \A v \in F : v \subseteq u => v = u
  <2> HIDE DEF F
  <2>1. F \subseteq SUBSET s
    BY DEF F
  <2> QED
    BY <1>1, <2>1, MinimalSubset
<1>3. g[u] # h[u] /\ u \subseteq s
  BY <1>2
<1>4. CASE u = {}
  <2>1. g[u] = 0 /\ h[u] = 0
    BY <1>3, <1>4, IteratesAt
  <2> QED
    BY <1>3, <2>1
<1>5. CASE u # {}
  <2>1. Pick(u) \in u
    BY <1>5, Picked
  <2>2. g[u \ {Pick(u)}] = h[u \ {Pick(u)}]
    BY <1>2, <2>1
  <2>3. /\ g[u] = f[Pick(u)] + g[u \ {Pick(u)}]
        /\ h[u] = f[Pick(u)] + h[u \ {Pick(u)}]
    <3>1. u \subseteq S /\ u \subseteq T
      BY <1>3
    <3> QED
      BY <3>1, <1>5, IteratesAt
  <2> QED
    BY <1>3, <2>2, <2>3
<1> QED
  BY <1>4, <1>5

LEMMA IteratesExists ==
  ASSUME NEW f, NEW S, IsFiniteSet(S)
  PROVE  \E h : Iterates(h, f, S)
<1> DEFINE F == {T \in SUBSET S : ~\E h : Iterates(h, f, T)}
           V(T) == (CHOOSE h : Iterates(h, f, T))[T]
<1> SUFFICES ASSUME F # {} PROVE FALSE
  OBVIOUS
<1>1. PICK T \in F : \A U \in F : U \subseteq T => U = T
  <2> HIDE DEF F
  <2>1. F \subseteq SUBSET S
    BY DEF F
  <2> QED
    BY <2>1, MinimalSubset
<1>2. T \subseteq S /\ ~\E h : Iterates(h, f, T)
  BY <1>1
<1>3. \A u \in SUBSET T : u # T => Iterates(CHOOSE h : Iterates(h, f, u), f, u)
  <2> SUFFICES ASSUME NEW u \in SUBSET T, u # T
               PROVE  \E h : Iterates(h, f, u)
    OBVIOUS
  <2>1. u \notin F
    BY <1>1
  <2>2. u \in SUBSET S
    BY <1>2
  <2> QED
    BY <2>1, <2>2
<1>4. ASSUME NEW u \in SUBSET T, u # T, u # {}
      PROVE  V(u) = f[Pick(u)] + V(u \ {Pick(u)})
  <2> DEFINE g == CHOOSE h : Iterates(h, f, u)
             v == u \ {Pick(u)}
             k == CHOOSE h : Iterates(h, f, v)
  <2>1. Iterates(g, f, u)
    BY <1>3, <1>4
  <2>2. v \in SUBSET T /\ v # T /\ v \subseteq u
    <3>1. Pick(u) \in u
      BY <1>4, Picked
    <3> QED
      BY <3>1
  <2>3. Iterates(k, f, v)
    BY <1>3, <2>2
  <2>4. IsFiniteSet(u)
    <3>1. u \subseteq S
      BY <1>2
    <3> QED
      BY <3>1, FS_Subset
  <2>5. g[u] = f[Pick(u)] + g[v]
    <3> HIDE DEF g
    <3> QED
      BY <1>4, <2>1, IteratesAt
  <2>6. g[v] = k[v]
    <3> HIDE DEF g, k, v
    <3> QED
      BY <2>1, <2>2, <2>3, <2>4, IteratesAgree
  <2> QED
    BY <2>5, <2>6
<1>5. V({}) = 0 \/ T = {}
  <2> SUFFICES ASSUME T # {} PROVE V({}) = 0
    OBVIOUS
  <2> DEFINE g == CHOOSE h : Iterates(h, f, {})
  <2>1. Iterates(g, f, {})
    BY <1>3
  <2>2. g[{}] = 0
    <3> HIDE DEF g
    <3> QED
      BY <2>1, IteratesAt
  <2> QED
    BY <2>2
<1> HIDE DEF V
<1> DEFINE h == [s \in SUBSET T |-> IF s = {} THEN 0 ELSE f[Pick(s)] + V(s \ {Pick(s)})]
<1>6. \A u \in SUBSET T : u # T => h[u] = V(u)
  BY <1>4, <1>5
<1>7. \A s \in SUBSET T : s # {} => h[s \ {Pick(s)}] = V(s \ {Pick(s)})
  <2> SUFFICES ASSUME NEW s \in SUBSET T, s # {}
               PROVE  h[s \ {Pick(s)}] = V(s \ {Pick(s)})
    OBVIOUS
  <2>1. Pick(s) \in s
    BY Picked
  <2>2. s \ {Pick(s)} \in SUBSET T /\ s \ {Pick(s)} # T
    BY <2>1
  <2> HIDE DEF h
  <2> QED
    BY <1>6, <2>2
<1>8. Iterates(h, f, T)
  BY <1>7 DEF Iterates
<1> QED
  BY <1>2, <1>8

LEMMA SumOfNone ==
  ASSUME NEW f
  PROVE  SumFunctionOnSet(f, {}) = 0
<1> DEFINE g == CHOOSE h : Iterates(h, f, {})
<1>1. Iterates(g, f, {})
  BY IteratesExists, FS_EmptySet
<1>2. g[{}] = 0
  <2> HIDE DEF g
  <2> QED
    BY <1>1, IteratesAt
<1> QED
  BY <1>2, Unfolded

LEMMA SumPicked ==
  ASSUME NEW f, NEW S, IsFiniteSet(S), S # {}
  PROVE  SumFunctionOnSet(f, S) = f[Pick(S)] + SumFunctionOnSet(f, S \ {Pick(S)})
<1> DEFINE T == S \ {Pick(S)}
           g == CHOOSE h : Iterates(h, f, S)
           k == CHOOSE h : Iterates(h, f, T)
<1>1. IsFiniteSet(T)
  BY FS_Subset
<1>2. Iterates(g, f, S) /\ Iterates(k, f, T)
  BY <1>1, IteratesExists
<1>3. g[S] = f[Pick(S)] + g[T]
  <2> HIDE DEF g
  <2> QED
    BY <1>2, IteratesAt
<1>4. g[T] = k[T]
  <2>1. T \subseteq S
    OBVIOUS
  <2> HIDE DEF g, k, T
  <2> QED
    BY <1>2, <2>1, IteratesAgree
<1>5. SumFunctionOnSet(f, S) = g[S] /\ SumFunctionOnSet(f, T) = k[T]
  BY Unfolded
<1> QED
  BY <1>3, <1>4, <1>5

-----------------------------------------------------------------------------
(* What the models' proofs use.                                            *)

(* The sum is an integer, and it does not matter which summand is taken    *)
(* first.                                                                  *)
LEMMA SumOfOneMore ==
  ASSUME NEW S, IsFiniteSet(S), NEW f, \A x \in S : f[x] \in Int
  PROVE  /\ SumFunctionOnSet(f, S) \in Int
         /\ \A x \in S : SumFunctionOnSet(f, S) = f[x] + SumFunctionOnSet(f, S \ {x})
<1> DEFINE Sum(T) == SumFunctionOnSet(f, T)
           Good(T) == Sum(T) \in Int /\ \A x \in T : Sum(T) = f[x] + Sum(T \ {x})
           F == {T \in SUBSET S : ~Good(T)}
<1> SUFFICES ASSUME F # {} PROVE FALSE
  OBVIOUS
<1>1. PICK T \in F : \A U \in F : U \subseteq T => U = T
  <2> HIDE DEF F
  <2>1. F \subseteq SUBSET S
    BY DEF F
  <2> QED
    BY <2>1, MinimalSubset
<1>2. T \subseteq S /\ ~Good(T) /\ IsFiniteSet(T) /\ \A x \in T : f[x] \in Int
  BY <1>1, FS_Subset
<1>3. \A U \in SUBSET T : U # T => Good(U)
  <2> HIDE DEF Good
  <2> QED
    BY <1>1, <1>2
<1>4. CASE T = {}
  BY <1>2, <1>4, SumOfNone
<1>5. CASE T # {}
  <2> DEFINE p == Pick(T)
  <2>1. p \in T
    BY <1>5, Picked
  <2>2. Sum(T) = f[p] + Sum(T \ {p})
    BY <1>2, <1>5, SumPicked
  <2> HIDE DEF p
  <2> HIDE DEF Sum
  <2>3. Good(T \ {p})
    BY <1>3, <2>1
  <2>4. Sum(T) \in Int
    BY <1>2, <2>1, <2>2, <2>3
  <2>5. ASSUME NEW x \in T, x # p PROVE Sum(T) = f[x] + Sum(T \ {x})
    <3>1. Sum(T \ {p}) = f[x] + Sum((T \ {p}) \ {x})
      BY <2>3, <2>5
    <3>2. Good(T \ {x})
      BY <1>3, <2>5
    <3>3. Sum(T \ {x}) = f[p] + Sum((T \ {x}) \ {p})
      BY <2>1, <2>5, <3>2
    <3>4. Sum((T \ {x}) \ {p}) = Sum((T \ {p}) \ {x})
      <4>1. (T \ {x}) \ {p} = (T \ {p}) \ {x}
        OBVIOUS
      <4> QED
        BY <4>1, Zenon
    <3>5. Good((T \ {p}) \ {x})
      BY <1>3, <2>1
    <3>6. \A i, j, k \in Int : i + (j + k) = j + (i + k)
      OBVIOUS
    <3>7. f[p] \in Int /\ f[x] \in Int /\ Sum((T \ {p}) \ {x}) \in Int
      BY <1>2, <2>1, <2>5, <3>5
    <3> QED
      BY <2>2, <3>1, <3>3, <3>4, <3>6, <3>7
  <2> QED
    BY <1>2, <2>2, <2>4, <2>5
<1> QED
  BY <1>4, <1>5

LEMMA SumAdd ==
  ASSUME NEW S, IsFiniteSet(S), NEW a, a \notin S, NEW f, \A x \in S \cup {a} : f[x] \in Int
  PROVE  SumFunctionOnSet(f, S \cup {a}) = SumFunctionOnSet(f, S) + f[a]
<1>1. IsFiniteSet(S \cup {a})
  BY FS_AddElement
<1>2. SumFunctionOnSet(f, S \cup {a}) = f[a] + SumFunctionOnSet(f, (S \cup {a}) \ {a})
  BY <1>1, SumOfOneMore
<1>3. SumFunctionOnSet(f, (S \cup {a}) \ {a}) = SumFunctionOnSet(f, S)
  <2>1. (S \cup {a}) \ {a} = S
    OBVIOUS
  <2> QED
    BY <2>1, Zenon
<1>4. SumFunctionOnSet(f, S) \in Int
  BY SumOfOneMore
<1> QED
  BY <1>2, <1>3, <1>4

(* Only the summands count. *)
LEMMA SumSame ==
  ASSUME NEW S, IsFiniteSet(S), NEW f, NEW g, \A x \in S : f[x] = g[x]
  PROVE  SumFunctionOnSet(f, S) = SumFunctionOnSet(g, S)
<1> DEFINE F == {T \in SUBSET S : SumFunctionOnSet(f, T) # SumFunctionOnSet(g, T)}
<1> SUFFICES ASSUME F # {} PROVE FALSE
  OBVIOUS
<1>1. PICK T \in F : \A U \in F : U \subseteq T => U = T
  <2> HIDE DEF F
  <2>1. F \subseteq SUBSET S
    BY DEF F
  <2> QED
    BY <2>1, MinimalSubset
<1>2. T \subseteq S /\ SumFunctionOnSet(f, T) # SumFunctionOnSet(g, T) /\ IsFiniteSet(T)
  BY <1>1, FS_Subset
<1>3. CASE T = {}
  BY <1>2, <1>3, SumOfNone
<1>4. CASE T # {}
  <2>1. Pick(T) \in T
    BY <1>4, Picked
  <2>2. SumFunctionOnSet(f, T \ {Pick(T)}) = SumFunctionOnSet(g, T \ {Pick(T)})
    BY <1>1, <1>2, <2>1
  <2> QED
    BY <1>2, <1>4, <2>1, <2>2, SumPicked
<1> QED
  BY <1>3, <1>4

(* One summand changes. *)
LEMMA SumChange ==
  ASSUME NEW S, IsFiniteSet(S), NEW f, NEW g, NEW a \in S,
         \A x \in S : f[x] \in Int /\ g[x] \in Int,
         \A x \in S \ {a} : g[x] = f[x]
  PROVE  SumFunctionOnSet(g, S) = SumFunctionOnSet(f, S) + (g[a] - f[a])
<1>1. IsFiniteSet(S \ {a})
  BY FS_Subset
<1>2. /\ SumFunctionOnSet(g, S) = g[a] + SumFunctionOnSet(g, S \ {a})
      /\ SumFunctionOnSet(f, S) = f[a] + SumFunctionOnSet(f, S \ {a})
  BY SumOfOneMore
<1>3. SumFunctionOnSet(g, S \ {a}) = SumFunctionOnSet(f, S \ {a})
  BY <1>1, SumSame
<1>4. SumFunctionOnSet(f, S \ {a}) \in Int
  BY <1>1, SumOfOneMore
<1>5. \A i, j, k \in Int : i + k = (j + k) + (i - j)
  OBVIOUS
<1> QED
  BY <1>2, <1>3, <1>4, <1>5

(* Summands that are all zero add up to zero.                              *)
LEMMA SumOfZeros ==
  ASSUME NEW S, IsFiniteSet(S), NEW f, \A x \in S : f[x] = 0
  PROVE  SumFunctionOnSet(f, S) = 0
<1> DEFINE F == {T \in SUBSET S : SumFunctionOnSet(f, T) # 0}
<1> SUFFICES ASSUME F # {} PROVE FALSE
  OBVIOUS
<1>1. PICK T \in F : \A U \in F : U \subseteq T => U = T
  <2>1. F \subseteq SUBSET S
    OBVIOUS
  <2> HIDE DEF F
  <2> QED
    BY <2>1, MinimalSubset
<1>2. T \subseteq S /\ SumFunctionOnSet(f, T) # 0
  OBVIOUS
<1>3. T # {}
  BY <1>2, SumOfNone
<1>4. PICK a \in T : TRUE
  BY <1>3
<1>5. SumFunctionOnSet(f, T \ {a}) = 0
  BY <1>1, <1>2, <1>4
<1>6. IsFiniteSet(T) /\ \A x \in T : f[x] \in Int
  BY <1>2, FS_Subset
<1>7. SumFunctionOnSet(f, T) = f[a] + SumFunctionOnSet(f, T \ {a})
  BY <1>4, <1>6, SumOfOneMore
<1> QED
  BY <1>2, <1>4, <1>5, <1>7

(* A summand is changed or added; what is not there counts as zero. *)
Enters(a, f, S, g, U) ==
  /\ IsFiniteSet(S) /\ U = S \cup {a}
  /\ \A x \in S : f[x] \in Int
  /\ \A x \in S \ {a} : g[x] = f[x]
  /\ g[a] \in Int

LEMMA SumEntered ==
  ASSUME NEW S, NEW f, NEW g, NEW a, NEW U, Enters(a, f, S, g, U)
  PROVE  /\ a \in S => SumFunctionOnSet(g, U) = SumFunctionOnSet(f, S) + (g[a] - f[a])
         /\ a \notin S => SumFunctionOnSet(g, U) = SumFunctionOnSet(f, S) + g[a]
<1> USE DEF Enters
<1>1. CASE a \in S
  <2>1. U = S
    BY <1>1
  <2>2. \A x \in S : f[x] \in Int /\ g[x] \in Int
    OBVIOUS
  <2>3. \A x \in S \ {a} : g[x] = f[x]
    OBVIOUS
  <2>4. IsFiniteSet(S)
    OBVIOUS
  <2>5. SumFunctionOnSet(g, S) = SumFunctionOnSet(f, S) + (g[a] - f[a])
    BY ONLY <1>1, <2>2, <2>3, <2>4, SumChange
  <2> QED
    BY <1>1, <2>1, <2>5
<1>2. CASE a \notin S
  <2>1. \A x \in S \cup {a} : g[x] \in Int
    OBVIOUS
  <2>2. SumFunctionOnSet(g, S \cup {a}) = SumFunctionOnSet(g, S) + g[a]
    BY <1>2, <2>1, SumAdd
  <2>3. \A x \in S : f[x] = g[x]
    BY <1>2
  <2>4. SumFunctionOnSet(g, S) = SumFunctionOnSet(f, S)
    BY <2>3, SumSame
  <2>5. SumFunctionOnSet(g, U) = SumFunctionOnSet(f, S) + g[a]
    BY <2>2, <2>4
  <2> QED
    BY <1>2, <2>5
<1> QED
  BY <1>1, <1>2

(* The sum of the differences is the difference of the sums. *)
LEMMA SumMinus ==
  ASSUME NEW S, IsFiniteSet(S), NEW f, NEW g, NEW h,
         \A x \in S : f[x] \in Int /\ g[x] \in Int /\ h[x] = f[x] - g[x]
  PROVE  SumFunctionOnSet(h, S) = SumFunctionOnSet(f, S) - SumFunctionOnSet(g, S)
<1> DEFINE Sum(k, T) == SumFunctionOnSet(k, T)
           F == {T \in SUBSET S : Sum(h, T) # Sum(f, T) - Sum(g, T)}
<1> SUFFICES ASSUME F # {} PROVE FALSE
  OBVIOUS
<1>1. PICK T \in F : \A U \in F : U \subseteq T => U = T
  <2>1. F \subseteq SUBSET S
    BY DEF F
  <2> HIDE DEF F
  <2> QED
    BY <2>1, MinimalSubset
<1>2. T \subseteq S /\ Sum(h, T) # Sum(f, T) - Sum(g, T) /\ IsFiniteSet(T)
  BY <1>1, FS_Subset
<1>3. Sum(h, {}) = 0 /\ Sum(f, {}) = 0 /\ Sum(g, {}) = 0
  BY SumOfNone
<1>4. PICK a : a \in T
  <2>1. T # {}
    BY <1>2, <1>3
  <2> QED
    BY <2>1
<1>5. Sum(h, T \ {a}) = Sum(f, T \ {a}) - Sum(g, T \ {a})
  BY <1>1, <1>2, <1>4
<1>6. (\A x \in T : f[x] \in Int) /\ (\A x \in T : g[x] \in Int) /\ (\A x \in T : h[x] \in Int)
      /\ h[a] = f[a] - g[a]
  BY <1>2, <1>4
<1> HIDE DEF F
<1>7. IsFiniteSet(T \ {a})
  BY <1>2, FS_Subset
<1>8. Sum(f, T \ {a}) \in Int /\ Sum(g, T \ {a}) \in Int
  BY <1>6, <1>7, SumOfOneMore
<1>9. /\ Sum(f, T) = f[a] + Sum(f, T \ {a}) /\ Sum(g, T) = g[a] + Sum(g, T \ {a})
      /\ Sum(h, T) = h[a] + Sum(h, T \ {a})
  BY <1>2, <1>4, <1>6, SumOfOneMore
<1> HIDE DEF Sum
<1> QED
  BY <1>2, <1>4, <1>5, <1>6, <1>8, <1>9

(* Larger summands, a larger sum. *)
LEMMA SumGrows ==
  ASSUME NEW S, IsFiniteSet(S), NEW f, NEW g,
         \A x \in S : f[x] \in Int /\ g[x] \in Int /\ f[x] <= g[x]
  PROVE  SumFunctionOnSet(f, S) <= SumFunctionOnSet(g, S)
<1> DEFINE Sum(k, T) == SumFunctionOnSet(k, T)
           F == {T \in SUBSET S : ~(Sum(f, T) <= Sum(g, T))}
<1> SUFFICES ASSUME F # {} PROVE FALSE
  OBVIOUS
<1>1. PICK T \in F : \A U \in F : U \subseteq T => U = T
  <2>1. F \subseteq SUBSET S
    BY DEF F
  <2> HIDE DEF F
  <2> QED
    BY <2>1, MinimalSubset
<1>2. T \subseteq S /\ ~(Sum(f, T) <= Sum(g, T)) /\ IsFiniteSet(T)
  BY <1>1, FS_Subset
<1>3. Sum(f, {}) = 0 /\ Sum(g, {}) = 0
  BY SumOfNone
<1>4. PICK a : a \in T
  <2>1. T # {}
    BY <1>2, <1>3
  <2> QED
    BY <2>1
<1>5. Sum(f, T \ {a}) <= Sum(g, T \ {a})
  BY <1>1, <1>2, <1>4
<1>6. (\A x \in T : f[x] \in Int) /\ (\A x \in T : g[x] \in Int) /\ f[a] <= g[a]
  BY <1>2, <1>4
<1> HIDE DEF F
<1>7. IsFiniteSet(T \ {a})
  BY <1>2, FS_Subset
<1>8. Sum(f, T \ {a}) \in Int /\ Sum(g, T \ {a}) \in Int
  BY <1>6, <1>7, SumOfOneMore
<1>9. Sum(f, T) = f[a] + Sum(f, T \ {a}) /\ Sum(g, T) = g[a] + Sum(g, T \ {a})
  BY <1>2, <1>4, <1>6, SumOfOneMore
<1> HIDE DEF Sum
<1> QED
  BY <1>2, <1>4, <1>5, <1>6, <1>8, <1>9

(* Natural summands, a natural sum. *)
LEMMA SumIsNatural ==
  ASSUME NEW S, IsFiniteSet(S), NEW f, \A x \in S : f[x] \in Nat
  PROVE  SumFunctionOnSet(f, S) \in Nat
<1> DEFINE z == [x \in S |-> 0]
<1>1. \A x \in S : z[x] = 0 /\ z[x] \in Int /\ f[x] \in Int /\ z[x] <= f[x]
  OBVIOUS
<1> HIDE DEF z
<1>2. SumFunctionOnSet(z, S) = 0
  BY <1>1, SumOfZeros
<1>3. SumFunctionOnSet(z, S) <= SumFunctionOnSet(f, S)
  BY <1>1, SumGrows
<1>4. SumFunctionOnSet(f, S) \in Int
  BY <1>1, SumOfOneMore
<1> QED
  BY <1>2, <1>3, <1>4

(* Summands that are zero can be left out. *)
LEMMA SumWithoutZeros ==
  ASSUME NEW S, IsFiniteSet(S), NEW T, T \subseteq S, NEW f, NEW g,
         \A x \in S : f[x] \in Int, \A x \in T : g[x] = f[x], \A x \in S \ T : f[x] = 0
  PROVE  SumFunctionOnSet(g, T) = SumFunctionOnSet(f, S)
<1> DEFINE Sum(k, U) == SumFunctionOnSet(k, U)
           F == {U \in SUBSET S : T \subseteq U /\ Sum(f, U) # Sum(g, T)}
<1> SUFFICES ASSUME F # {} PROVE FALSE
  OBVIOUS
<1>1. PICK U \in F : \A V \in F : V \subseteq U => V = U
  <2>1. F \subseteq SUBSET S
    BY DEF F
  <2> HIDE DEF F
  <2> QED
    BY <2>1, MinimalSubset
<1>2. U \subseteq S /\ T \subseteq U /\ Sum(f, U) # Sum(g, T) /\ IsFiniteSet(U) /\ IsFiniteSet(T)
  BY <1>1, FS_Subset
<1>3. Sum(g, T) = Sum(f, T)
  BY <1>2, SumSame
<1>4. PICK a : a \in U \ T
  BY <1>2, <1>3
<1>5. Sum(f, U \ {a}) = Sum(g, T)
  BY <1>1, <1>2, <1>4
<1>6. f[a] = 0 /\ \A x \in U : f[x] \in Int
  BY <1>2, <1>4
<1> HIDE DEF F
<1>7. IsFiniteSet(U \ {a}) /\ \A x \in U \ {a} : f[x] \in Int
  BY <1>2, <1>6, FS_Subset
<1>8. Sum(f, U) = f[a] + Sum(f, U \ {a})
  BY <1>2, <1>4, <1>6, SumOfOneMore
<1>9. Sum(f, U \ {a}) \in Int
  BY <1>7, SumOfOneMore
<1> HIDE DEF Sum
<1> QED
  BY <1>2, <1>5, <1>6, <1>8, <1>9
=============================================================================
