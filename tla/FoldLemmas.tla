----------------------------- MODULE FoldLemmas -----------------------------
(***************************************************************************)
(* Induction over sets of natural numbers, and what it says of recursive   *)
(* definitions: of the folds of the community modules, which recur over    *)
(* sets of indices, and of a function that recurs to a smaller rank.       *)
(***************************************************************************)
EXTENDS Integers, FiniteSetsExt, WellFoundedInduction, TLAPS

\* Every set of natural numbers that is not empty has a least element ...
LEMMA LeastNatural ==
  ASSUME NEW S \in SUBSET Nat, S # {}
  PROVE  \E n \in S : \A m \in S : n <= m
  <1> DEFINE R == OpToRel(<, Nat)
  <1>1. IsWellFoundedOn(R, Nat)
    BY NatLessThanWellFounded
  <1>3. \A x, y \in Nat : <<y, x>> \in R <=> y < x
    BY DEF OpToRel
  <1> HIDE DEF R
  <1>2. \E x \in S : \A y \in S : ~ (<<y, x>> \in R)
    BY <1>1, WFMin
  <1>4. PICK n \in S : \A m \in S : ~ (<<m, n>> \in R)
    BY <1>2
  <1>5. \A m \in S : ~ (m < n)
    BY <1>3, <1>4
  <1>6. \A m \in S : n <= m
    BY <1>5
  <1> QED BY <1>6

\* ... so a set with 0 and with n + 1 for each of its n has them all.
LEMMA Induction ==
  ASSUME NEW S, 0 \in S, \A n \in Nat : n \in S => n + 1 \in S
  PROVE  \A n \in Nat : n \in S
  <1> SUFFICES ASSUME Nat \ S # {} PROVE FALSE
    OBVIOUS
  <1>1. PICK n \in Nat \ S : \A m \in Nat \ S : n <= m
    BY LeastNatural
  <1>2. n # 0 /\ n - 1 \in Nat /\ n - 1 \in S
    BY <1>1
  <1> QED BY <1>1, <1>2

\* The greatest of finitely many numbers.
LEMMA MaxIsGreatest ==
  ASSUME NEW n \in Nat, NEW s \in SUBSET (1 .. n), s # {}
  PROVE  Max(s) \in s /\ \A x \in s : x <= Max(s)
  <1> DEFINE gaps == {n - x : x \in s}
  <1>1. gaps \in SUBSET Nat /\ gaps # {}
    <2>1. \A x \in s : x \in 1 .. n /\ n - x \in Nat
      OBVIOUS
    <2>2. PICK x \in s : TRUE
      OBVIOUS
    <2>3. n - x \in gaps
      OBVIOUS
    <2> QED BY <2>1, <2>3
  <1>2. PICK g \in gaps : \A h \in gaps : g <= h
    BY <1>1, LeastNatural
  <1>3. PICK x \in s : g = n - x
    BY <1>2
  <1>4. ASSUME NEW y \in s PROVE x >= y
    <2>1. n - y \in gaps
      OBVIOUS
    <2> QED BY <1>2, <1>3, <2>1
  <1> QED BY <1>4 DEF Max

\* FoldLeft recurs from the last element; a set that holds the results at the
\* start and after each element holds all of them ...
LEMMA FoldStaysIn ==
  ASSUME NEW S, NEW n \in Nat, NEW h,
         h[{}] \in S,
         \A s \in SUBSET (1 .. n) : s # {} /\ h[s \ {Max(s)}] \in S => h[s] \in S
  PROVE  h[1 .. n] \in S
  <1> DEFINE In(k) == \A s \in SUBSET (1 .. k) : h[s] \in S
             P == {k \in Nat : k <= n => In(k)}
  <1>1. 0 \in P
    <2>1. \A s \in SUBSET (1 .. 0) : s = {}
      OBVIOUS
    <2>2. In(0)
      BY <2>1
    <2> QED BY <2>2
  <1>2. ASSUME NEW k \in Nat, k \in P PROVE k + 1 \in P
    <2> HIDE DEF In
    <2> SUFFICES ASSUME k + 1 <= n PROVE In(k + 1)
      OBVIOUS
    <2>in. In(k)
      BY <1>2
    <2> USE DEF In
    <2> SUFFICES ASSUME NEW s \in SUBSET (1 .. k + 1) PROVE h[s] \in S
      OBVIOUS
    <2>1. CASE s = {}
      BY <2>1
    <2>2. CASE s # {}
      <3>1. s \in SUBSET (1 .. n)
        OBVIOUS
      <3>2. Max(s) \in s /\ \A x \in s : x <= Max(s)
        BY <2>2, <3>1, MaxIsGreatest
      <3>3. s \ {Max(s)} \in SUBSET (1 .. k)
        <4> SUFFICES ASSUME NEW x \in s, x # Max(s) PROVE x \in 1 .. k
          OBVIOUS
        <4>1. x <= Max(s) /\ Max(s) \in 1 .. k + 1 /\ x \in 1 .. k + 1
          BY <3>2
        <4> DEFINE top == Max(s)
        <4>2. x # top /\ x <= top /\ top \in 1 .. k + 1
          BY <4>1
        <4> HIDE DEF top
        <4> QED BY <4>1, <4>2
      <3>4. h[s \ {Max(s)}] \in S
        BY <2>in, <3>3
      <3> QED BY <2>2, <3>1, <3>4
    <2> QED BY <2>1, <2>2
  <1> HIDE DEF P
  <1>3. n \in P
    BY <1>1, <1>2, Induction
  <1>4. In(n)
    <2> HIDE DEF In
    <2> QED BY <1>3 DEF P
  <1> QED BY <1>4

\* ... and there is such a function to begin with.
IsFold(g, f, base, k) ==
  \A s \in SUBSET (1 .. k) : g[s] = IF s = {} THEN base ELSE f[<<Max(s), g[s \ {Max(s)}]>>]

LEMMA FoldExists ==
  ASSUME NEW S, NEW n \in Nat, NEW base \in S, NEW f \in [(1 .. n) \X S -> S]
  PROVE  \E g \in [SUBSET (1 .. n) -> S] : IsFold(g, f, base, n)
  <1> DEFINE Has(k) == \E g \in [SUBSET (1 .. k) -> S] : IsFold(g, f, base, k)
             P == {k \in Nat : k <= n => Has(k)}
  <1>1. 0 \in P
    <2> DEFINE g == [s \in SUBSET (1 .. 0) |-> base]
    <2>1. g \in [SUBSET (1 .. 0) -> S] /\ \A s \in SUBSET (1 .. 0) : s = {} /\ g[s] = base
      OBVIOUS
    <2> HIDE DEF g
    <2>2. Has(0)
      BY <2>1 DEF IsFold
    <2> HIDE DEF Has
    <2> QED BY <2>2
  <1>2. ASSUME NEW k \in Nat, k \in P PROVE k + 1 \in P
    <2> HIDE DEF Has
    <2> SUFFICES ASSUME k + 1 <= n PROVE Has(k + 1)
      OBVIOUS
    <2>has. Has(k)
      BY <1>2
    <2> USE DEF Has
    <2>1. PICK g \in [SUBSET (1 .. k) -> S] : IsFold(g, f, base, k)
      BY <2>has
    <2> DEFINE h == [s \in SUBSET (1 .. k + 1) |->
                       IF k + 1 \in s THEN f[<<k + 1, g[s \ {k + 1}]>>] ELSE g[s]]
    <2>2. ASSUME NEW s \in SUBSET (1 .. k + 1), k + 1 \in s
          PROVE  /\ Max(s) = k + 1 /\ s # {}
                 /\ s \ {k + 1} \in SUBSET (1 .. k)
                 /\ h[s] = f[<<k + 1, g[s \ {k + 1}]>>]
                 /\ h[s] \in S
                 /\ h[s \ {k + 1}] = g[s \ {k + 1}]
      <3>1. Max(s) \in s /\ k + 1 <= Max(s)
        <4>1. s # {} /\ k + 1 \in Nat
          BY <2>2
        <4>2. Max(s) \in s /\ \A x \in s : x <= Max(s)
          BY <4>1, MaxIsGreatest
        <4> QED BY <2>2, <4>2
      <3> DEFINE top == Max(s)
      <3>2. top \in 1 .. k + 1 /\ k + 1 <= top
        BY <3>1
      <3> HIDE DEF top
      <3>3. top = k + 1
        BY <3>2
      <3>4. s \ {k + 1} \in SUBSET (1 .. k) /\ s \ {k + 1} \in SUBSET (1 .. k + 1)
        OBVIOUS
      <3>5. k + 1 \in 1 .. n /\ g[s \ {k + 1}] \in S
        BY <3>4
      <3> QED BY <2>2, <3>3, <3>4, <3>5 DEF top
    <2>3. ASSUME NEW s \in SUBSET (1 .. k + 1), k + 1 \notin s
          PROVE  s \in SUBSET (1 .. k) /\ h[s] = g[s] /\ h[s] \in S
      <3>1. s \in SUBSET (1 .. k)
        BY <2>3
      <3> QED BY <2>3, <3>1
    <2>4. h \in [SUBSET (1 .. k + 1) -> S]
      <3>1. h = [s \in SUBSET (1 .. k + 1) |-> h[s]]
        OBVIOUS
      <3> HIDE DEF h
      <3>2. \A s \in SUBSET (1 .. k + 1) : h[s] \in S
        BY <2>2, <2>3
      <3> QED BY <3>1, <3>2
    <2> HIDE DEF h
    <2>5. ASSUME NEW s \in SUBSET (1 .. k + 1)
          PROVE  h[s] = IF s = {} THEN base ELSE f[<<Max(s), h[s \ {Max(s)}]>>]
      <3>1. CASE k + 1 \in s
        BY <2>2, <3>1
      <3>2. CASE k + 1 \notin s
        <4>1. s \in SUBSET (1 .. k) /\ h[s] = g[s]
          BY <2>3, <3>2
        <4>2. s \ {Max(s)} \in SUBSET (1 .. k) /\ s \ {Max(s)} \in SUBSET (1 .. k + 1)
              /\ k + 1 \notin s \ {Max(s)}
          <5>1. 1 .. k \subseteq 1 .. k + 1
            OBVIOUS
          <5> DEFINE top == Max(s)
          <5> HIDE DEF top
          <5>2. /\ s \ {top} \in SUBSET (1 .. k) /\ s \ {top} \in SUBSET (1 .. k + 1)
                /\ k + 1 \notin s \ {top}
            BY <4>1, <5>1, <3>2
          <5> QED BY <5>2 DEF top
        <4>3. h[s \ {Max(s)}] = g[s \ {Max(s)}]
          BY <2>3, <4>2
        <4> QED BY <2>1, <4>1, <4>3 DEF IsFold
      <3> QED BY <3>1, <3>2
    <2>6. IsFold(h, f, base, k + 1)
      BY <2>5 DEF IsFold
    <2> QED BY <2>4, <2>6
  <1> HIDE DEF P
  <1>3. n \in P
    BY <1>1, <1>2, Induction
  <1>4. Has(n)
    <2> HIDE DEF Has
    <2> QED BY <1>3 DEF P
  <1> QED BY <1>4

-----------------------------------------------------------------------------
(* Recursion on a rank. *)

\* What holds at x when it holds at all elements of smaller rank holds everywhere.
LEMMA RankInduction ==
  ASSUME NEW D, NEW n \in Nat, NEW rank \in [D -> 0 .. n], NEW P,
         \A x \in D : (\A y \in D : rank[y] < rank[x] => y \in P) => x \in P
  PROVE  D \subseteq P
  <1> DEFINE Q == {k \in Nat : \A x \in D : rank[x] < k => x \in P}
  <1>1. 0 \in Q
    OBVIOUS
  <1>2. ASSUME NEW k \in Nat, k \in Q PROVE k + 1 \in Q
    <2>1. ASSUME NEW x \in D, rank[x] < k + 1 PROVE x \in P
      <3>1. \A y \in D : rank[y] < rank[x] => y \in P
        BY <1>2, <2>1
      <3> QED BY <3>1
    <2> QED BY <2>1
  <1>3. n + 1 \in Q
    <2> HIDE DEF Q
    <2> QED BY <1>1, <1>2, Induction
  <1>4. \A x \in D : rank[x] < n + 1
    OBVIOUS
  <1> QED BY <1>3, <1>4

\* A definition by recursion has a solution when its value at x depends only on
\* values at elements of smaller rank.  F[<<x, g>>] is the value at x, given g.
LooksBack(D, S, rank, F) ==
  \A x \in D : \A g, h \in [D -> S] :
    (\A y \in D : rank[y] < rank[x] => g[y] = h[y]) => F[<<x, g>>] = F[<<x, h>>]

Solution(g, D, S, F) == g \in [D -> S] /\ \A x \in D : g[x] = F[<<x, g>>]

LEMMA RecursionExists ==
  ASSUME NEW D, NEW S, S # {}, NEW n \in Nat, NEW rank \in [D -> 0 .. n],
         NEW F \in [D \X [D -> S] -> S], LooksBack(D, S, rank, F)
  PROVE  \E g : Solution(g, D, S, F)
  <1> DEFINE Solves(g, k) == \A x \in D : rank[x] < k => g[x] = F[<<x, g>>]
             P == {k \in Nat : \E g \in [D -> S] : Solves(g, k)}
  <1>1. 0 \in P
    <2>1. PICK s \in S : TRUE
      OBVIOUS
    <2>2. [x \in D |-> s] \in [D -> S]
      OBVIOUS
    <2>3. Solves([x \in D |-> s], 0)
      OBVIOUS
    <2> HIDE DEF Solves
    <2> QED BY <2>2, <2>3
  <1>2. ASSUME NEW k \in Nat, k \in P PROVE k + 1 \in P
    <2>1. PICK g \in [D -> S] : Solves(g, k)
      BY <1>2
    <2> DEFINE h == [x \in D |-> IF rank[x] < k THEN g[x] ELSE F[<<x, g>>]]
    <2>2. h \in [D -> S]
      OBVIOUS
    <2>3. \A y \in D : rank[y] < k => h[y] = g[y]
      OBVIOUS
    <2>4. ASSUME NEW x \in D, rank[x] < k + 1 PROVE h[x] = F[<<x, h>>]
      <3>1. \A y \in D : rank[y] < rank[x] => g[y] = h[y]
        BY <2>3, <2>4
      <3>2. F[<<x, g>>] = F[<<x, h>>]
        <4> HIDE DEF h
        <4> QED BY <2>2, <3>1 DEF LooksBack
      <3>3. h[x] = F[<<x, g>>]
        BY <2>1
      <3> QED BY <3>2, <3>3
    <2>5. Solves(h, k + 1)
      BY <2>4
    <2> HIDE DEF Solves, h
    <2> QED BY <2>2, <2>5
  <1>3. n + 1 \in P
    <2> HIDE DEF P
    <2> QED BY <1>1, <1>2, Induction
  <1>4. PICK g \in [D -> S] : Solves(g, n + 1)
    BY <1>3
  <1>5. \A x \in D : rank[x] < n + 1
    OBVIOUS
  <1> QED BY <1>4, <1>5 DEF Solution

=============================================================================
