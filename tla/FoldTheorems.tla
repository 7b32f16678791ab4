---------------------------- MODULE FoldTheorems ----------------------------
(***************************************************************************)
(* Facts about FoldLeft for any operator Op: a module instantiates this    *)
(* one for each operator that it folds with.  The recursion behind a fold  *)
(* runs over the subsets of the indices; induction is over these, as the   *)
(* minimal counterexample.                                                 *)
(***************************************************************************)
EXTENDS Integers, Sequences, SequencesExt, FiniteSetTheorems, SequenceTheorems, TLAPS

CONSTANT Op(_, _)

Folded(base, s) == FoldLeft(Op, base, s)

HasMinimal(F) == \E T \in F : \A U \in F : U \subseteq T => U = T

LEMMA MinimalSubset ==
  ASSUME NEW S, IsFiniteSet(S), NEW F, F \subseteq SUBSET S, F # {}
  PROVE  HasMinimal(F)
<1>1. IsWellFoundedOn(StrictSubsetOrdering(S), FiniteSubsetsOf(S))
  BY FS_StrictSubsetOrderingWellFounded
<1>2. F \subseteq FiniteSubsetsOf(S)
  BY FS_FiniteSubsetsOfFinite
<1>3. PICK T \in F : \A U \in F : <<U, T>> \notin StrictSubsetOrdering(S)
  BY <1>1, <1>2, WFMin
<1> QED
  BY <1>3 DEF StrictSubsetOrdering, HasMinimal

(* Every nonempty set of indices has a last one.                           *)
LEMMA LastIndex ==
  ASSUME NEW n \in Nat, NEW s, s \subseteq 1..n, s # {}
  PROVE  Max(s) \in s /\ \A i \in s : i <= Max(s)
<1> DEFINE F == {t \in SUBSET s : t # {} /\ ~\E x \in t : \A y \in t : x >= y}
<1>1. F = {}
  <2> SUFFICES ASSUME F # {} PROVE FALSE
    OBVIOUS
  <2>1. IsFiniteSet(s)
    <3>1. IsFiniteSet(1..n)
      BY FS_Interval
    <3> QED
      BY <3>1, FS_Subset
  <2>2. PICK t \in F : \A u \in F : u \subseteq t => u = t
    <3>1. F \subseteq SUBSET s
      BY DEF F
    <3> HIDE DEF F
    <3>2. HasMinimal(F)
      BY <2>1, <3>1, MinimalSubset
    <3> QED
      BY <3>2 DEF HasMinimal
  <2>3. t \subseteq 1..n /\ t # {} /\ ~\E x \in t : \A y \in t : x >= y
    BY <2>2
  <2>4. PICK a \in t : TRUE
    BY <2>3
  <2>5. a \in Int
    BY <2>3, <2>4
  <2>6. t \ {a} # {}
    BY <2>3, <2>4, <2>5
  <2>7. t \ {a} \notin F
    BY <2>2, <2>4
  <2>8. PICK x \in t \ {a} : \A y \in t \ {a} : x >= y
    BY <2>2, <2>6, <2>7
  <2>9. x \in Int /\ \A y \in t : y \in Int
    BY <2>3, <2>8
  <2>10. CASE x >= a
    BY <2>3, <2>8, <2>10
  <2>11. CASE a > x
    BY <2>3, <2>4, <2>5, <2>8, <2>9, <2>11
  <2> QED
    BY <2>5, <2>9, <2>10, <2>11
<1>2. \E x \in s : \A y \in s : x >= y
  BY <1>1
<1>3. Max(s) \in s /\ \A y \in s : Max(s) >= y
  BY <1>2 DEF Max
<1>4. \A i \in s : i \in Int
  OBVIOUS
<1> QED
  BY <1>3, <1>4

-----------------------------------------------------------------------------
(* The fold's recursion.                                                   *)

Iterates(h, b, q, S) ==
  h = [s \in SUBSET S |-> IF s = {} THEN b ELSE Op(h[s \ {Max(s)}], q[Max(s)])]

LEMMA Unfolded ==
  ASSUME NEW b, NEW q
  PROVE  Folded(b, q) = (CHOOSE h : Iterates(h, b, q, DOMAIN q))[DOMAIN q]
BY Zenon DEF Folded, FoldLeft, MapThenFoldSet, Iterates

LEMMA IteratesAtNone ==
  ASSUME NEW b, NEW q, NEW S, NEW h, Iterates(h, b, q, S)
  PROVE  h[{}] = b
BY DEF Iterates

LEMMA IteratesAtSome ==
  ASSUME NEW b, NEW q, NEW S, NEW h, Iterates(h, b, q, S), NEW s, s \subseteq S, s # {}
  PROVE  h[s] = Op(h[s \ {Max(s)}], q[Max(s)])
BY DEF Iterates

Indices(s) == \E n \in Nat : s \subseteq 1..n
SameOn(s, q, r) == \A i \in s : q[i] = r[i]

(* g and h fold q over S and r over T, and these agree on the indices s.   *)
BothIterate(b, s, q, S, g, r, T, h) ==
  /\ Indices(s) /\ SameOn(s, q, r) /\ s \subseteq S /\ s \subseteq T
  /\ Iterates(g, b, q, S) /\ Iterates(h, b, r, T)

LEMMA IteratesAgree ==
  ASSUME NEW b, NEW s, NEW q, NEW S, NEW g, NEW r, NEW T, NEW h, BothIterate(b, s, q, S, g, r, T, h)
  PROVE  g[s] = h[s]
<1>a. Indices(s) /\ SameOn(s, q, r) /\ s \subseteq S /\ s \subseteq T
  BY DEF BothIterate
<1>b. Iterates(g, b, q, S)
  BY DEF BothIterate
<1>c. Iterates(h, b, r, T)
  BY DEF BothIterate
<1>0. PICK n \in Nat : s \subseteq 1..n
  BY <1>a DEF Indices
<1> DEFINE F == {u \in SUBSET s : g[u] # h[u]}
<1> SUFFICES ASSUME F # {} PROVE FALSE
  OBVIOUS
<1>1. IsFiniteSet(s)
  <2>1. IsFiniteSet(1..n)
    BY FS_Interval
  <2> QED
    BY <1>0, <2>1, FS_Subset
<1>2. PICK u \in F : \A v \in F : v \subseteq u => v = u
  <2> HIDE DEF F
  <2>1. F \subseteq SUBSET s
    BY DEF F
  <2>2. HasMinimal(F)
    BY <1>1, <2>1, MinimalSubset
  <2> QED
    BY <2>2 DEF HasMinimal
<1>3. g[u] # h[u] /\ u \subseteq s
  BY <1>2
<1>4. CASE u = {}
  <2>1. g[{}] = b /\ h[{}] = b
    BY <1>b, <1>c, IteratesAtNone
  <2> QED
    BY <1>3, <1>4, <2>1
<1>5. CASE u # {}
  <2>1. Max(u) \in u
    <3>1. u \subseteq 1..n
      BY <1>0, <1>3
    <3> QED
      BY <3>1, <1>5, LastIndex
  <2>2. g[u \ {Max(u)}] = h[u \ {Max(u)}]
    BY <1>2, <2>1
  <2>3. u \subseteq S /\ u \subseteq T
    BY <1>a, <1>3
  <2>4. g[u] = Op(g[u \ {Max(u)}], q[Max(u)])
    BY ONLY <1>b, <1>5, <2>3, IteratesAtSome
  <2>5. h[u] = Op(h[u \ {Max(u)}], r[Max(u)])
    BY ONLY <1>c, <1>5, <2>3, IteratesAtSome
  <2>6. q[Max(u)] = r[Max(u)]
    BY <1>a, <1>3, <2>1 DEF SameOn
  <2> QED
    BY <1>3, <2>2, <2>4, <2>5, <2>6
<1> QED
  BY <1>4, <1>5

LEMMA IteratesExists ==
  ASSUME NEW b, NEW q, NEW n \in Nat
  PROVE  \E h : Iterates(h, b, q, 1..n)
<1> DEFINE F == {T \in SUBSET (1..n) : ~\E h : Iterates(h, b, q, T)}
           V(T) == (CHOOSE h : Iterates(h, b, q, T))[T]
<1> SUFFICES ASSUME F # {} PROVE FALSE
  <2>1. 1..n \in SUBSET (1..n)
    OBVIOUS
  <2> QED
    BY <2>1, Zenon
<1>1. PICK T \in F : \A U \in F : U \subseteq T => U = T
  <2> HIDE DEF F
  <2>1. F \subseteq SUBSET (1..n) /\ IsFiniteSet(1..n)
    BY FS_Interval DEF F
  <2>2. HasMinimal(F)
    BY <2>1, MinimalSubset
  <2> QED
    BY <2>2 DEF HasMinimal
<1>2. T \subseteq 1..n /\ ~\E h : Iterates(h, b, q, T)
  BY <1>1, Zenon
<1>3. \A u \in SUBSET T : u # T => Iterates(CHOOSE h : Iterates(h, b, q, u), b, q, u)
  <2> SUFFICES ASSUME NEW u \in SUBSET T, u # T
               PROVE  \E h : Iterates(h, b, q, u)
    BY Zenon
  <2>1. u \notin F
    BY <1>1
  <2>2. u \in SUBSET (1..n)
    BY <1>2
  <2> QED
    BY <2>1, <2>2, Zenon
<1>4. ASSUME NEW u \in SUBSET T, u # T, u # {}
      PROVE  V(u) = Op(V(u \ {Max(u)}), q[Max(u)])
  <2> DEFINE g == CHOOSE h : Iterates(h, b, q, u)
             v == u \ {Max(u)}
             k == CHOOSE h : Iterates(h, b, q, v)
  <2>1. Iterates(g, b, q, u)
    BY <1>3, <1>4, Zenon
  <2>2. v \in SUBSET T /\ v # T /\ v \subseteq u
    <3>1. Max(u) \in u
      BY <1>2, <1>4, LastIndex
    <3> QED
      BY <3>1
  <2>3. Iterates(k, b, q, v)
    BY <1>3, <2>2, Zenon
  <2>4. g[u] = Op(g[v], q[Max(u)])
    <3> HIDE DEF g
    <3> QED
      BY <1>4, <2>1, IteratesAtSome
  <2>5. g[v] = k[v]
    <3>1. Indices(v) /\ SameOn(v, q, q)
      BY <1>2, <2>2 DEF Indices, SameOn
    <3> HIDE DEF g, k, v
    <3>2. BothIterate(b, v, q, u, g, q, v, k)
      BY <2>1, <2>2, <2>3, <3>1 DEF BothIterate
    <3> QED
      BY <3>2, IteratesAgree
  <2> QED
    BY <2>4, <2>5
<1>5. V({}) = b \/ T = {}
  <2> SUFFICES ASSUME T # {} PROVE V({}) = b
    OBVIOUS
  <2> DEFINE g == CHOOSE h : Iterates(h, b, q, {})
  <2>1. Iterates(g, b, q, {})
    BY <1>3
  <2>2. g[{}] = b
    <3> HIDE DEF g
    <3> QED
      BY <2>1, IteratesAtNone
  <2> QED
    BY <2>2
<1> HIDE DEF V
<1> DEFINE h == [s \in SUBSET T |-> IF s = {} THEN b ELSE Op(V(s \ {Max(s)}), q[Max(s)])]
<1>6. \A u \in SUBSET T : u # T => h[u] = V(u)
  <2> SUFFICES ASSUME NEW u \in SUBSET T, u # T PROVE h[u] = V(u)
    OBVIOUS
  <2>1. CASE u = {}
    BY <1>5, <2>1
  <2>2. CASE u # {}
    <3>1. V(u) = Op(V(u \ {Max(u)}), q[Max(u)])
      BY <1>4, <2>2
    <3> QED
      BY <2>2, <3>1
  <2> QED
    BY <2>1, <2>2
<1>7. \A s \in SUBSET T : s # {} => h[s \ {Max(s)}] = V(s \ {Max(s)})
  <2> SUFFICES ASSUME NEW s \in SUBSET T, s # {}
               PROVE  h[s \ {Max(s)}] = V(s \ {Max(s)})
    OBVIOUS
  <2>1. Max(s) \in s
    BY <1>2, LastIndex
  <2>2. s \ {Max(s)} \in SUBSET T /\ s \ {Max(s)} # T
    BY <2>1
  <2> HIDE DEF h
  <2> QED
    BY <1>6, <2>2
<1>8. Iterates(h, b, q, T)
  <2>1. \A s \in SUBSET T :
          h[s] = IF s = {} THEN b ELSE Op(h[s \ {Max(s)}], q[Max(s)])
    <3> SUFFICES ASSUME NEW s \in SUBSET T
                 PROVE  h[s] = IF s = {} THEN b ELSE Op(h[s \ {Max(s)}], q[Max(s)])
      OBVIOUS
    <3>1. h[s] = IF s = {} THEN b ELSE Op(V(s \ {Max(s)}), q[Max(s)])
      OBVIOUS
    <3> HIDE DEF h
    <3> QED
      BY <1>7, <3>1
  <2>2. h = [s \in SUBSET T |-> h[s]]
    OBVIOUS
  <2> HIDE DEF h
  <2> QED
    BY <2>1, <2>2 DEF Iterates
<1> QED
  BY <1>2, <1>8, Zenon

-----------------------------------------------------------------------------
(* What the models' proofs use.                                            *)

LEMMA FoldOfNone ==
  ASSUME NEW b
  PROVE  Folded(b, <<>>) = b
<1> DEFINE g == CHOOSE h : Iterates(h, b, <<>>, DOMAIN <<>>)
<1>1. DOMAIN <<>> = {} /\ 1..0 = {}
  OBVIOUS
<1>2. \E h : Iterates(h, b, <<>>, DOMAIN <<>>)
  BY <1>1, IteratesExists
<1>3. Iterates(g, b, <<>>, DOMAIN <<>>)
  BY <1>2, Zenon
<1>4. g[{}] = b
  <2> HIDE DEF g
  <2> QED
    BY <1>3, IteratesAtNone
<1>5. Folded(b, <<>>) = g[DOMAIN <<>>]
  BY Unfolded
<1> QED
  BY <1>1, <1>4, <1>5

LEMMA FoldOfMore ==
  ASSUME NEW b, NEW S, NEW s \in Seq(S), NEW c \in S
  PROVE  Folded(b, Append(s, c)) = Op(Folded(b, s), c)
<1> DEFINE n == Len(s)
           t == Append(s, c)
           D == 1..(n + 1)
           E == 1..n
           g == CHOOSE h : Iterates(h, b, t, DOMAIN t)
           k == CHOOSE h : Iterates(h, b, s, DOMAIN s)
<1>1. /\ n \in Nat /\ DOMAIN s = E /\ DOMAIN t = D /\ t[n + 1] = c
      /\ \A i \in E : t[i] = s[i]
  OBVIOUS
<1>2. Iterates(g, b, t, D)
  <2>1. \E h : Iterates(h, b, t, D)
    BY <1>1, IteratesExists
  <2> HIDE DEF t
  <2> QED
    BY <1>1, <2>1
<1>3. Iterates(k, b, s, E)
  <2>1. \E h : Iterates(h, b, s, E)
    BY <1>1, IteratesExists
  <2> QED
    BY <1>1, <2>1
<1>4. Max(D) = n + 1 /\ D \ {Max(D)} = E /\ D # {}
  <2>1. D \subseteq 1..(n + 1) /\ D # {} /\ n + 1 \in D /\ n + 1 \in Nat
    BY <1>1
  <2>2. Max(D) \in D /\ \A i \in D : i <= Max(D)
    BY <2>1, LastIndex
  <2>3. Max(D) = n + 1
    BY <1>1, <2>1, <2>2
  <2> QED
    BY <1>1, <2>1, <2>3
<1> HIDE DEF g, k, t
<1>5. g[D] = Op(g[E], c)
  <2>1. g[D] = Op(g[D \ {Max(D)}], t[Max(D)])
    <3> HIDE DEF D
    <3> QED
      BY <1>2, <1>4, IteratesAtSome
  <2> QED
    BY <1>1, <1>4, <2>1
<1>6. g[E] = k[E]
  <2>1. Indices(E) /\ SameOn(E, t, s) /\ E \subseteq D
    BY <1>1 DEF Indices, SameOn
  <2> HIDE DEF D, E, n
  <2>2. BothIterate(b, E, t, D, g, s, E, k)
    BY <1>2, <1>3, <2>1 DEF BothIterate
  <2> QED
    BY <2>2, IteratesAgree
<1>7. Folded(b, t) = g[D] /\ Folded(b, s) = k[E]
  BY <1>1, Unfolded DEF g, k
<1> QED
  BY <1>5, <1>6, <1>7 DEF t

-----------------------------------------------------------------------------
(* Induction over the sequence: from the shortest counterexample.          *)

LEMMA LeastNumber ==
  ASSUME NEW N, N \subseteq Nat, N # {}
  PROVE  \E n \in N : \A m \in N : n <= m
<1>1. PICK k \in N : TRUE
  OBVIOUS
<1>2. k \in Nat
  BY <1>1
<1> DEFINE F == {0..j : j \in {i \in N : i <= k}}
<1>3. 0..k \in F /\ F \subseteq SUBSET (0..k)
  BY <1>2
<1>4. IsFiniteSet(0..k)
  BY <1>2, FS_Interval
<1>5. HasMinimal(F)
  <2> HIDE DEF F
  <2>1. F # {}
    BY <1>3
  <2> QED
    BY <1>3, <1>4, <2>1, MinimalSubset
<1>6. PICK T \in F : \A U \in F : U \subseteq T => U = T
  <2> HIDE DEF F
  <2> QED
    BY <1>5 DEF HasMinimal
<1>7. PICK n \in N : n <= k /\ T = 0..n
  BY <1>6
<1>8. ASSUME NEW m \in N, m < n PROVE FALSE
  <2>1. m \in Nat /\ n \in Nat /\ m <= k
    BY <1>2, <1>7, <1>8
  <2>2. 0..m \in F
    BY <2>1
  <2>3. 0..m \subseteq T
    BY <1>7, <1>8, <2>1
  <2>4. 0..m = T
    <3> HIDE DEF F
    <3> QED
      BY <1>6, <2>2, <2>3
  <2>5. n \in 0..n /\ n \notin 0..m
    BY <1>8, <2>1
  <2> QED
    BY <1>7, <2>4, <2>5
<1>9. \A m \in N : m \in Nat /\ n \in Nat
  BY <1>7
<1> QED
  BY <1>7, <1>8, <1>9

LEMMA LastSplit ==
  ASSUME NEW S, NEW s \in Seq(S), s # <<>>
  PROVE  \E t \in Seq(S), c \in S : s = Append(t, c) /\ Len(t) < Len(s)
<1> DEFINE n == Len(s)
           t == [i \in 1..(n - 1) |-> s[i]]
<1>1. n \in Nat \ {0} /\ \A i \in 1..n : s[i] \in S
  OBVIOUS
<1>2. t \in Seq(S) /\ Len(t) = n - 1
  BY <1>1
<1>3. s = Append(t, s[n])
  <2>1. Len(Append(t, s[n])) = n /\ Append(t, s[n]) \in Seq(S)
    BY <1>1, <1>2
  <2>2. \A i \in 1..n : Append(t, s[n])[i] = s[i]
    BY <1>1, <1>2
  <2> HIDE DEF t
  <2> QED
    BY <2>1, <2>2
<1> HIDE DEF t
<1> QED
  BY <1>1, <1>2, <1>3

(* After n elements the fold is in V[n], if the base is in V[0] and every  *)
(* element leads on.                                                       *)
LEMMA FoldCounts ==
  ASSUME NEW V, NEW b \in V[0], NEW S, \A n \in Nat : \A x \in V[n], c \in S : Op(x, c) \in V[n + 1],
         NEW s \in Seq(S)
  PROVE  Folded(b, s) \in V[Len(s)]
<1> DEFINE N == {Len(t) : t \in {u \in Seq(S) : Folded(b, u) \notin V[Len(u)]}}
<1> SUFFICES ASSUME Folded(b, s) \notin V[Len(s)] PROVE FALSE
  OBVIOUS
<1>1. Len(s) \in N /\ N \subseteq Nat
  OBVIOUS
<1>2. PICK n \in N : \A m \in N : n <= m
  <2> HIDE DEF N
  <2>1. N # {}
    BY <1>1
  <2> QED
    BY <1>1, <2>1, LeastNumber
<1>3. PICK t \in Seq(S) : n = Len(t) /\ Folded(b, t) \notin V[Len(t)]
  BY <1>2
<1>4. t # <<>>
  <2>1. Len(<<>>) = 0
    OBVIOUS
  <2> QED
    BY <1>3, <2>1, FoldOfNone
<1>5. PICK u \in Seq(S), c \in S : t = Append(u, c) /\ Len(u) < Len(t)
  BY <1>4, LastSplit
<1>6. Folded(b, u) \in V[Len(u)]
  <2>1. Len(u) \notin N
    <3> HIDE DEF N
    <3>1. Len(u) \in Nat /\ Len(t) \in Nat
      OBVIOUS
    <3> QED
      BY <1>2, <1>3, <1>5, <3>1
  <2> QED
    BY <2>1
<1>7. Folded(b, t) = Op(Folded(b, u), c)
  BY <1>5, FoldOfMore
<1>8. Len(t) = Len(u) + 1 /\ Len(u) \in Nat
  BY <1>5
<1> QED
  BY <1>3, <1>6, <1>7, <1>8

(* A set that the base is in and no element leads out of holds the fold.   *)
LEMMA FoldStaysIn ==
  ASSUME NEW V, NEW b \in V, NEW S, \A x \in V, c \in S : Op(x, c) \in V, NEW s \in Seq(S)
  PROVE  Folded(b, s) \in V
<1> DEFINE F == [n \in Nat |-> V]
<1>1. \A n \in Nat : F[n] = V
  OBVIOUS
<1>2. b \in F[0] /\ \A n \in Nat : \A x \in F[n], c \in S : Op(x, c) \in F[n + 1]
  BY <1>1
<1>3. Len(s) \in Nat
  OBVIOUS
<1> HIDE DEF F
<1>4. Folded(b, s) \in F[Len(s)]
  BY <1>2, FoldCounts
<1> QED
  BY <1>1, <1>3, <1>4

LEMMA FoldOfConcat ==
  ASSUME NEW b, NEW S, NEW s \in Seq(S), NEW t \in Seq(S)
  PROVE  Folded(b, s \o t) = Folded(Folded(b, s), t)
<1> DEFINE N == {Len(v) : v \in {u \in Seq(S) : Folded(b, s \o u) # Folded(Folded(b, s), u)}}
<1> SUFFICES ASSUME Folded(b, s \o t) # Folded(Folded(b, s), t) PROVE FALSE
  OBVIOUS
<1>1. Len(t) \in N /\ N \subseteq Nat
  OBVIOUS
<1>2. PICK n \in N : \A m \in N : n <= m
  <2> HIDE DEF N
  <2>1. N # {}
    BY <1>1
  <2> QED
    BY <1>1, <2>1, LeastNumber
<1>3. PICK v \in Seq(S) : n = Len(v) /\ Folded(b, s \o v) # Folded(Folded(b, s), v)
  BY <1>2
<1>4. v # <<>>
  <2>1. s \o <<>> = s
    OBVIOUS
  <2> QED
    BY <1>3, <2>1, FoldOfNone
<1>5. PICK u \in Seq(S), c \in S : v = Append(u, c) /\ Len(u) < Len(v)
  BY <1>4, LastSplit
<1>6. Folded(b, s \o u) = Folded(Folded(b, s), u)
  <2>1. Len(u) \notin N
    <3> HIDE DEF N
    <3>1. Len(u) \in Nat /\ Len(v) \in Nat
      OBVIOUS
    <3> QED
      BY <1>2, <1>3, <1>5, <3>1
  <2> QED
    BY <2>1
<1>7. Folded(Folded(b, s), v) = Op(Folded(Folded(b, s), u), c)
  BY <1>5, FoldOfMore
<1>8. s \o v = Append(s \o u, c) /\ s \o u \in Seq(S)
  BY <1>5
<1>9. Folded(b, s \o v) = Op(Folded(b, s \o u), c)
  <2> DEFINE w == s \o u
  <2>1. w \in Seq(S) /\ s \o v = Append(w, c)
    BY <1>8
  <2> HIDE DEF w
  <2>2. Folded(b, Append(w, c)) = Op(Folded(b, w), c)
    BY <1>5, <2>1, FoldOfMore
  <2> QED
    BY <2>1, <2>2 DEF w
<1> QED
  BY <1>3, <1>6, <1>7, <1>9

-----------------------------------------------------------------------------
(* A function defined by recursion over an interval of integers.           *)

RunsOver(h, b, e, from, to) ==
  h = [t \in from - 1 .. to |-> IF t < from THEN b ELSE Op(h[t - 1], e[t])]

LEMMA RunsAt ==
  ASSUME NEW h, NEW b, NEW e, NEW from \in Int, NEW to \in Int, RunsOver(h, b, e, from, to),
         from - 1 <= to
  PROVE  h[from - 1] = b /\ \A t \in from .. to : h[t] = Op(h[t - 1], e[t])
<1>1. \A t \in from - 1 .. to : h[t] = IF t < from THEN b ELSE Op(h[t - 1], e[t])
  BY DEF RunsOver
<1>2. from - 1 \in from - 1 .. to /\ from - 1 < from
  OBVIOUS
<1>3. \A t \in from .. to : t \in from - 1 .. to /\ ~(t < from)
  OBVIOUS
<1> QED
  BY ONLY <1>1, <1>2, <1>3

LEMMA RunExists ==
  ASSUME NEW b, NEW e, NEW from \in Int, NEW n \in Nat
  PROVE  \E h : RunsOver(h, b, e, from, from - 1 + n)
<1> DEFINE N == { k \in Nat : ~\E h : RunsOver(h, b, e, from, from - 1 + k) }
<1> SUFFICES ASSUME N # {} PROVE FALSE
  <2>1. n \notin N => \E h : RunsOver(h, b, e, from, from - 1 + n)
    OBVIOUS
  <2> QED
    BY <2>1
<1>1. PICK k \in N : \A m \in N : k <= m
  <2>1. N \subseteq Nat
    OBVIOUS
  <2> HIDE DEF N
  <2> QED
    BY <2>1, LeastNumber
<1>2. CASE k = 0
  <2> DEFINE h == [t \in from - 1 .. from - 1 + 0 |-> b]
  <2>1. h = [t \in from - 1 .. from - 1 + 0 |-> IF t < from THEN b ELSE Op(h[t - 1], e[t])]
    OBVIOUS
  <2> HIDE DEF h
  <2>2. RunsOver(h, b, e, from, from - 1 + 0)
    BY <2>1 DEF RunsOver
  <2> QED
    BY <1>1, <1>2, <2>2
<1>3. CASE k # 0
  <2> DEFINE j == k - 1
             last == from - 1 + k
  <2>1. j \in Nat /\ j < k /\ k \in Nat
    BY <1>1, <1>3
  <2>2. j \notin N
    <3> HIDE DEF N, j
    <3> QED
      BY <1>1, <2>1
  <2>3. PICK g : RunsOver(g, b, e, from, from - 1 + j)
    BY <2>1, <2>2
  <2>4. from - 1 + j = last - 1 /\ from <= last /\ last \in Int
    BY <2>1
  <2>5. RunsOver(g, b, e, from, last - 1)
    BY <2>3, <2>4
  <2> HIDE DEF j, last
  <2>6. g[from - 1] = b /\ \A t \in from .. last - 1 : g[t] = Op(g[t - 1], e[t])
    BY <2>4, <2>5, RunsAt
  <2> DEFINE h == [t \in from - 1 .. last |-> IF t = last THEN Op(g[last - 1], e[last]) ELSE g[t]]
  <2>7. \A t \in from - 1 .. last : h[t] = IF t = last THEN Op(g[last - 1], e[last]) ELSE g[t]
    OBVIOUS
  <2>8. h = [t \in from - 1 .. last |-> h[t]]
    OBVIOUS
  <2> HIDE DEF h
  <2>9. \A t \in from - 1 .. last : h[t] = IF t < from THEN b ELSE Op(h[t - 1], e[t])
    <3> TAKE t \in from - 1 .. last
    <3>1. CASE t < from
      <4>1. t = from - 1 /\ t # last
        BY <2>4, <3>1
      <4> QED
        BY <2>6, <2>7, <3>1, <4>1
    <3>2. CASE ~(t < from)
      <4>1. t - 1 \in from - 1 .. last /\ t - 1 # last /\ h[t - 1] = g[t - 1]
        BY <2>4, <2>7, <3>2
      <4>2. CASE t = last
        BY <2>7, <3>2, <4>1, <4>2
      <4>3. CASE t # last
        <5>1. t \in from .. last - 1
          BY <2>4, <3>2, <4>3
        <5> QED
          BY <2>6, <2>7, <3>2, <4>1, <4>3, <5>1
      <4> QED
        BY <4>2, <4>3
    <3> QED
      BY <3>1, <3>2
  <2>10. h = [t \in from - 1 .. last |-> IF t < from THEN b ELSE Op(h[t - 1], e[t])]
    BY <2>8, <2>9
  <2>11. RunsOver(h, b, e, from, from - 1 + k)
    BY <2>10 DEF RunsOver, last
  <2> QED
    BY <1>1, <2>11
<1> QED
  BY <1>2, <1>3

(* g runs over e and h over f, and these agree up to m.                    *)
BothRun(b, from, m, g, e, to, h, f, up) ==
  /\ m <= to /\ RunsOver(g, b, e, from, to)
  /\ m <= up /\ RunsOver(h, b, f, from, up)
  /\ \A t \in from .. m : e[t] = f[t]

LEMMA RunsAgree ==
  ASSUME NEW b, NEW from \in Int, NEW m \in Int, from - 1 <= m, NEW g, NEW e, NEW to \in Int,
         NEW h, NEW f, NEW up \in Int, BothRun(b, from, m, g, e, to, h, f, up)
  PROVE  \A t \in from - 1 .. m : g[t] = h[t]
<1>a. m <= to /\ RunsOver(g, b, e, from, to) /\ from - 1 <= to
  BY DEF BothRun
<1>b. m <= up /\ RunsOver(h, b, f, from, up) /\ from - 1 <= up
  BY DEF BothRun
<1>c. \A t \in from .. m : e[t] = f[t]
  BY DEF BothRun
<1> DEFINE N == { k \in Nat : from - 1 + k <= m /\ g[from - 1 + k] # h[from - 1 + k] }
<1>1. g[from - 1] = b /\ \A t \in from .. m : g[t] = Op(g[t - 1], e[t])
  <2>1. \A t \in from .. to : g[t] = Op(g[t - 1], e[t])
    BY <1>a, RunsAt
  <2> QED
    BY <1>a, <2>1, RunsAt
<1>2. h[from - 1] = b /\ \A t \in from .. m : h[t] = Op(h[t - 1], f[t])
  <2>1. \A t \in from .. up : h[t] = Op(h[t - 1], f[t])
    BY <1>b, RunsAt
  <2> QED
    BY <1>b, <2>1, RunsAt
<1>3. ASSUME NEW k \in N, \A j \in N : k <= j PROVE FALSE
  <2>1. k \in Nat /\ from - 1 + k <= m /\ g[from - 1 + k] # h[from - 1 + k]
    OBVIOUS
  <2>2. k # 0
    BY <1>1, <1>2, <2>1
  <2>3. k - 1 \in Nat /\ k - 1 \notin N
    <3> HIDE DEF N
    <3> QED
      BY <1>3, <2>1, <2>2
  <2> DEFINE t == from - 1 + k
  <2>4. t \in from .. m /\ t - 1 = from - 1 + (k - 1) /\ t - 1 <= m
    BY <2>1, <2>2
  <2>5. g[t - 1] = h[t - 1]
    BY <2>3, <2>4
  <2> HIDE DEF t
  <2>6. g[t] = h[t]
    BY ONLY <1>1, <1>2, <1>c, <2>4, <2>5
  <2> QED
    BY <2>1, <2>6 DEF t
<1>4. N = {}
  <2> HIDE DEF N
  <2>1. N \subseteq Nat
    BY DEF N
  <2> QED
    BY <1>3, <2>1, LeastNumber
<1> TAKE t \in from - 1 .. m
<1>5. t - (from - 1) \in Nat /\ from - 1 + (t - (from - 1)) = t /\ t <= m
  OBVIOUS
<1>6. t - (from - 1) \notin N
  BY <1>4
<1> HIDE DEF N
<1> QED
  BY <1>5, <1>6 DEF N
=============================================================================
