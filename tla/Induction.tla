------------------------------ MODULE Induction ------------------------------
(***************************************************************************)
(* Induction for proofs about recursive functions and sums. The principles *)
(* speak of sets instead of predicates, so that a proof cites them with    *)
(* the set of values for which its claim holds.                            *)
(***************************************************************************)
EXTENDS Integers, FiniteSets, TLAPS, WellFoundedInduction, FiniteSetTheorems

\* Natural numbers are well ordered.
LEMMA LeastNatural ==
    ASSUME NEW T \in SUBSET Nat, T # {}
    PROVE  \E n \in T : \A m \in T : n <= m
<1> DEFINE R == OpToRel(<, Nat)
<1>1. IsWellFoundedOn(R, Nat)
  BY NatLessThanWellFounded
<1>2. \A m, n \in Nat : m < n => <<m, n>> \in R
  BY DEF OpToRel
<1> HIDE DEF R
<1>3. PICK n \in T : \A m \in T : <<m, n>> \notin R
  BY <1>1, WFMin
<1>4. \A m \in T : m \in Nat /\ n \in Nat /\ ~(m < n)
  BY <1>2, <1>3
<1> QED
  BY <1>3, <1>4

\* A set that has 0 and with each number below N the next one has 0..N.
LEMMA UpTo ==
    ASSUME NEW N \in Nat, NEW T, 0 \in T,
           \A n \in 0..N - 1 : n \in T => n + 1 \in T
    PROVE  0..N \subseteq T
<1> DEFINE U == (0..N) \ T
<1> SUFFICES ASSUME U # {} PROVE FALSE
  OBVIOUS
<1>1. U \in SUBSET Nat
  OBVIOUS
<1>2. PICK n \in U : \A m \in U : n <= m
  BY <1>1, LeastNatural
<1>3. n \in 0..N /\ n \notin T /\ n # 0
  BY <1>2
<1>4. n - 1 \in 0..N - 1 /\ n - 1 \notin U
  BY <1>2, <1>3
<1> QED
  BY <1>3, <1>4

\* f solves a recursion over 0..N with values in S. step says what comes after a
\* value.
Solves(f, N, S, base, step) ==
    /\ f \in [0..N -> S]
    /\ f[0] = base
    /\ \A n \in 1..N : f[n] = step[<<n, f[n - 1]>>]

\* Every such recursion has a solution.
LEMMA Recursion ==
    ASSUME NEW N \in Nat, NEW S, NEW base \in S, NEW step \in [Nat \X S -> S]
    PROVE  \E f : Solves(f, N, S, base, step)
<1> USE DEF Solves
<1> DEFINE T == {r \in Nat : \E f : Solves(f, r, S, base, step)}
<1>1. 0 \in T
  <2>1. Solves([n \in 0..0 |-> base], 0, S, base, step)
    OBVIOUS
  <2> QED
    BY <2>1
<1>2. ASSUME NEW r \in 0..N - 1, r \in T PROVE r + 1 \in T
  <2>1. PICK f : Solves(f, r, S, base, step)
    BY <1>2
  <2> DEFINE h == [n \in 0..r + 1 |-> IF n = r + 1 THEN step[<<r + 1, f[r]>>] ELSE f[n]]
  <2>2. step[<<r + 1, f[r]>>] \in S
    BY <2>1
  <2>3. h \in [0..r + 1 -> S]
    BY <2>1, <2>2
  <2>4. h[0] = base /\ h[r + 1] = step[<<r + 1, f[r]>>] /\ \A n \in 0..r : h[n] = f[n]
    BY <2>1
  <2> HIDE DEF h
  <2>5. \A n \in 1..r + 1 : h[n] = step[<<n, h[n - 1]>>]
    <3> TAKE n \in 1..r + 1
    <3>1. CASE n = r + 1
      BY <2>4, <3>1
    <3>2. CASE n \in 1..r
      <4>1. n \in 0..r /\ n - 1 \in 0..r
        BY <3>2
      <4> QED
        BY <2>1, <2>4, <3>2, <4>1
    <3> QED
      BY <3>1, <3>2
  <2>6. Solves(h, r + 1, S, base, step)
    BY <2>3, <2>4, <2>5
  <2> QED
    BY <2>6
<1> HIDE DEF T
<1>3. N \in T
  BY <1>1, <1>2, UpTo
<1> QED
  BY <1>3 DEF T

-----------------------------------------------------------------------------
(* Sums over finite sets                                                   *)

\* A collection that has {} and with each set every larger one by an element
\* has the whole of a finite set.
LEMMA SetInduction ==
    ASSUME NEW S, IsFiniteSet(S), NEW C, {} \in C,
           \A T \in SUBSET S : \A x \in S \ T : T \in C => T \cup {x} \in C
    PROVE  S \in C
<1> DEFINE K == {n \in Nat : \A T \in SUBSET S : Cardinality(T) = n => T \in C}
<1>1. \A T \in SUBSET S : IsFiniteSet(T) /\ Cardinality(T) \in Nat
  BY FS_Subset, FS_CardinalityType
<1>2. 0 \in K
  BY <1>1, FS_EmptySet
<1>3. ASSUME NEW n \in Nat, n \in K PROVE n + 1 \in K
  <2> SUFFICES ASSUME NEW T \in SUBSET S, Cardinality(T) = n + 1 PROVE T \in C
    OBVIOUS
  <2>1. PICK x \in T : TRUE
    BY <1>1, FS_EmptySet
  <2>2. Cardinality(T \ {x}) = n
    <3>1. IsFiniteSet(T)
      BY <1>1
    <3>2. Cardinality(T \ {x}) = Cardinality(T) - 1
      BY <2>1, <3>1, FS_RemoveElement
    <3> QED
      BY <3>2
  <2>3. T \ {x} \in C
    BY <1>3, <2>2
  <2>4. x \in S \ (T \ {x}) /\ (T \ {x}) \cup {x} = T
    BY <2>1
  <2> QED
    BY <2>3, <2>4
<1> HIDE DEF K
<1>4. Cardinality(S) \in K
  BY <1>1, <1>2, <1>3, UpTo
<1> QED
  BY <1>4 DEF K

\* F gives for each subset of S the sum of f over it.
IsSum(F, f, S) ==
    /\ F \in [SUBSET S -> Int]
    /\ F[{}] = 0
    /\ \A T \in SUBSET S : \A x \in S \ T : F[T \cup {x}] = F[T] + f[x]

Sum(f, S) == (CHOOSE F : IsSum(F, f, S))[S]

\* Sums exist.
LEMMA SumExists ==
    ASSUME NEW S, IsFiniteSet(S), NEW f \in [S -> Int]
    PROVE  \E F : IsSum(F, f, S)
<1> DEFINE C == {T \in SUBSET S : \E F : IsSum(F, f, T)}
<1>1. {} \in C
  <2>1. IsSum([T \in SUBSET {} |-> 0], f, {})
    BY DEF IsSum
  <2> QED
    BY <2>1
<1>2. ASSUME NEW T \in SUBSET S, NEW y \in S \ T, T \in C PROVE T \cup {y} \in C
  <2>1. PICK F : IsSum(F, f, T)
    BY <1>2
  <2> DEFINE G == [U \in SUBSET (T \cup {y}) |-> IF y \in U THEN F[U \ {y}] + f[y] ELSE F[U]]
  <2>2. G \in [SUBSET (T \cup {y}) -> Int]
    <3> SUFFICES ASSUME NEW U \in SUBSET (T \cup {y}) PROVE G[U] \in Int
      OBVIOUS
    <3>1. CASE y \in U
      <4>1. U \ {y} \in SUBSET T /\ f[y] \in Int
        OBVIOUS
      <4>2. F[U \ {y}] \in Int
        BY <2>1, <4>1 DEF IsSum
      <4> QED
        BY <3>1, <4>1, <4>2
    <3>2. CASE y \notin U
      BY <2>1, <3>2 DEF IsSum
    <3> QED
      BY <3>1, <3>2
  <2>3. G[{}] = 0
    BY <2>1 DEF IsSum
  <2>4. ASSUME NEW U \in SUBSET (T \cup {y}), NEW x \in (T \cup {y}) \ U
        PROVE  G[U \cup {x}] = G[U] + f[x]
    <3>1. CASE x = y
      <4>1. (U \cup {x}) \ {y} = U /\ U \cup {x} \in SUBSET (T \cup {y}) /\ y \notin U
        BY <2>4, <3>1
      <4> QED
        BY <3>1, <4>1
    <3>2. CASE x # y /\ y \in U
      <4>1. /\ (U \cup {x}) \ {y} = (U \ {y}) \cup {x}
            /\ U \ {y} \in SUBSET T /\ x \in T \ (U \ {y})
            /\ U \cup {x} \in SUBSET (T \cup {y}) /\ y \in U \cup {x}
        BY <2>4, <3>2
      <4>2. F[(U \ {y}) \cup {x}] = F[U \ {y}] + f[x] /\ F[U \ {y}] \in Int
        BY <2>1, <4>1 DEF IsSum
      <4>3. G[U \cup {x}] = F[(U \ {y}) \cup {x}] + f[y] /\ G[U] = F[U \ {y}] + f[y]
        BY <3>2, <4>1
      <4>4. f[x] \in Int /\ f[y] \in Int
        BY <4>1
      <4> QED
        BY <4>2, <4>3, <4>4
    <3>3. CASE x # y /\ y \notin U
      <4>1. U \in SUBSET T /\ x \in T \ U /\ U \cup {x} \in SUBSET (T \cup {y}) /\ y \notin U \cup {x}
        BY <2>4, <3>3
      <4> QED
        BY <2>1, <3>3, <4>1 DEF IsSum
    <3> QED
      BY <3>1, <3>2, <3>3
  <2> HIDE DEF G
  <2>5. IsSum(G, f, T \cup {y})
    BY <2>2, <2>3, <2>4 DEF IsSum
  <2> QED
    BY <2>5
<1> HIDE DEF C
<1>3. S \in C
  BY <1>1, <1>2, SetInduction
<1> QED
  BY <1>3 DEF C

\* The sum is one of them.
LEMMA SumDef ==
    ASSUME NEW S, IsFiniteSet(S), NEW f \in [S -> Int]
    PROVE  \E F : IsSum(F, f, S) /\ Sum(f, S) = F[S]
<1> DEFINE F == CHOOSE G : IsSum(G, f, S)
<1>1. IsSum(F, f, S)
  BY SumExists, Zenon
<1> QED
  BY <1>1 DEF Sum

\* A sum changes as much as the one term that changes.
LEMMA SumChange ==
    ASSUME NEW S, IsFiniteSet(S), NEW f \in [S -> Int], NEW g \in [S -> Int], NEW x \in S,
           \A y \in S \ {x} : g[y] = f[y]
    PROVE  /\ Sum(f, S) \in Int
           /\ Sum(g, S) = Sum(f, S) - f[x] + g[x]
<1>1. PICK F : IsSum(F, f, S) /\ Sum(f, S) = F[S]
  BY SumDef
<1>2. PICK G : IsSum(G, g, S) /\ Sum(g, S) = G[S]
  BY SumDef
<1> DEFINE R == S \ {x}
           C == {T \in SUBSET R : F[T] = G[T]}
<1>3. {} \in C
  BY <1>1, <1>2 DEF IsSum
<1>4. ASSUME NEW T \in SUBSET R, NEW y \in R \ T, T \in C PROVE T \cup {y} \in C
  <2>1. T \in SUBSET S /\ y \in S \ T /\ g[y] = f[y]
    BY <1>4
  <2> QED
    BY <1>1, <1>2, <1>4, <2>1 DEF IsSum
<1>5. IsFiniteSet(R)
  BY FS_RemoveElement
<1>6. R \in C
  <2> HIDE DEF C, R
  <2> QED
    BY <1>3, <1>4, <1>5, SetInduction
<1>7. R \in SUBSET S /\ x \in S \ R /\ R \cup {x} = S
  OBVIOUS
<1>8. F[S] = F[R] + f[x] /\ G[S] = G[R] + g[x] /\ F[R] = G[R] /\ F[R] \in Int /\ F[S] \in Int
  BY <1>1, <1>2, <1>6, <1>7 DEF IsSum
<1> QED
  BY <1>1, <1>2, <1>8

\* A sum of zeros is zero.
LEMMA SumZero ==
    ASSUME NEW S, IsFiniteSet(S), NEW f \in [S -> Int], \A x \in S : f[x] = 0
    PROVE  Sum(f, S) = 0
<1>1. PICK F : IsSum(F, f, S) /\ Sum(f, S) = F[S]
  BY SumDef
<1> DEFINE C == {T \in SUBSET S : F[T] = 0}
<1>2. {} \in C
  BY <1>1 DEF IsSum
<1>3. ASSUME NEW T \in SUBSET S, NEW x \in S \ T, T \in C PROVE T \cup {x} \in C
  BY <1>1, <1>3 DEF IsSum
<1> HIDE DEF C
<1>4. S \in C
  BY <1>2, <1>3, SetInduction
<1> QED
  BY <1>1, <1>4 DEF C
=============================================================================
