----------------------------- MODULE Counting -----------------------------
(***************************************************************************)
(* Lemmas about numbers that the proofs of several components rest on: the *)
(* least member of a set of them, what holds of each because it holds of   *)
(* the one before, functions that are defined in this way, and the order   *)
(* of a finite set (module Order).                                         *)
(***************************************************************************)
EXTENDS Order, FiniteSetTheorems, NaturalsInduction, WellFoundedInduction, TLAPS

(* A set of numbers has a least one. *)
LEMMA LeastNumber ==
    ASSUME NEW S \in SUBSET Nat, S # {}
    PROVE  \E m \in S : \A k \in S : m <= k
<1>1. PICK m \in S : \A k \in S : ~ (<<k, m>> \in OpToRel(<, Nat))
  BY NatLessThanWellFounded, WFMin, Zenon
<1>2. \A k \in S : ~ (k < m)
  BY <1>1 DEF OpToRel
<1>3. QED
  BY <1>2

(* What holds of 0, and of n if it holds of n - 1, holds up to N. *)
LEMMA Upward ==
    ASSUME NEW S, NEW N \in Nat, 0 \in S, \A n \in 1 .. N : n - 1 \in S => n \in S
    PROVE  \A n \in 0 .. N : n \in S
<1> DEFINE D == {n \in 0 .. N : n \notin S}
<1>1. SUFFICES ASSUME D # {} PROVE FALSE
  OBVIOUS
<1>2. D \in SUBSET Nat
  OBVIOUS
<1> HIDE DEF D
<1>3. PICK m \in D : \A k \in D : m <= k
  BY <1>1, <1>2, LeastNumber
<1>4. m \in 1 .. N /\ m \notin S
  BY DEF D
<1>5. m - 1 \in 0 .. N /\ ~(m <= m - 1)
  BY <1>4
<1>6. m - 1 \in S
  BY <1>3, <1>5 DEF D
<1>7. QED
  BY <1>4, <1>6

(* What holds of N + 1, and of n if it holds of n + 1, holds down to 1. *)
LEMMA Downward ==
    ASSUME NEW S, NEW N \in Nat, N + 1 \in S, \A n \in 1 .. N : n + 1 \in S => n \in S
    PROVE  \A n \in 1 .. N + 1 : n \in S
<1> DEFINE D == {k \in 0 .. N : N + 1 - k \notin S}
<1>1. SUFFICES D = {}
  <2>1. \A n \in 1 .. N + 1 : N + 1 - n \in 0 .. N /\ N + 1 - (N + 1 - n) = n
    OBVIOUS
  <2>2. QED
    BY <2>1
<1>2. SUFFICES ASSUME D # {} PROVE FALSE
  OBVIOUS
<1>3. D \in SUBSET Nat
  OBVIOUS
<1> HIDE DEF D
<1>4. PICK m \in D : \A k \in D : m <= k
  BY <1>2, <1>3, LeastNumber
<1>5. m \in 0 .. N /\ N + 1 - m \notin S
  BY DEF D
<1>6. m # 0
  <2>1. N + 1 - 0 = N + 1
    OBVIOUS
  <2>2. QED
    BY <1>5, <2>1
<1>7. m - 1 \in 0 .. N /\ ~(m <= m - 1) /\ N + 1 - (m - 1) = (N + 1 - m) + 1 /\ N + 1 - m \in 1 .. N
  BY <1>5, <1>6
<1>8. N + 1 - (m - 1) \in S
  BY <1>4, <1>7 DEF D
<1>9. QED
  BY <1>5, <1>7, <1>8

(* f is the function that starts with base and goes on by step *)
Recurs(f, N, V, base, step) ==
    /\ f \in [0 .. N -> V] /\ f[0] = base /\ \A n \in 1 .. N : f[n] = step[<<n, f[n - 1]>>]
    /\ f = [n \in 0 .. N |-> IF n = 0 THEN base ELSE step[<<n, f[n - 1]>>]]

(* A function that is defined from its previous value exists. *)
LEMMA Recursion ==
    ASSUME NEW N \in Nat, NEW V, NEW base \in V, NEW step \in [(1 .. N) \X V -> V]
    PROVE  \E f : Recurs(f, N, V, base, step)
<1> DEFINE Is(f, m) == f \in [0 .. m -> V] /\ f[0] = base /\ \A n \in 1 .. m : f[n] = step[<<n, f[n - 1]>>]
           S == {m \in 0 .. N : \E f : Is(f, m)}
<1>1. 0 \in S
  <2> DEFINE e == [n \in 0 .. 0 |-> base]
  <2>1. Is(e, 0)
    OBVIOUS
  <2> HIDE DEF e, Is
  <2>2. QED
    BY <2>1
<1>2. ASSUME NEW m \in 1 .. N, m - 1 \in S PROVE m \in S
  <2>1. PICK f : Is(f, m - 1)
    BY <1>2
  <2> DEFINE x == step[<<m, f[m - 1]>>]
             g == [n \in 0 .. m |-> IF n = m THEN x ELSE f[n]]
  <2>2. f[m - 1] \in V /\ x \in V
    BY <2>1
  <2>3. \A n \in 0 .. m - 1 : n \in 0 .. m /\ n # m /\ f[n] \in V
    BY <2>1
  <2>4. \A n \in 0 .. m : n = m \/ n \in 0 .. m - 1
    OBVIOUS
  <2>5. m \in 0 .. m /\ 0 \in 0 .. m - 1 /\ \A n \in 1 .. m : n - 1 \in 0 .. m - 1 /\ (n = m \/ n \in 1 .. m - 1) /\ n \in 0 .. m
    OBVIOUS
  <2>6. x = step[<<m, f[m - 1]>>]
    OBVIOUS
  <2> HIDE DEF x
  <2>7. g[m] = x /\ \A n \in 0 .. m - 1 : g[n] = f[n]
    BY <2>3, <2>5
  <2>8. g \in [0 .. m -> V]
    BY <2>2, <2>3, <2>4
  <2> HIDE DEF g
  <2>9. Is(g, m)
    BY <2>1, <2>5, <2>6, <2>7, <2>8
  <2>10. QED
    BY <2>9
<1> HIDE DEF Is
<1>3. \A m \in 0 .. N : m \in S
  <2> HIDE DEF S
  <2>1. QED
    BY <1>1, <1>2, Upward
<1>4. PICK f : Is(f, N)
  BY <1>3
<1>5. f = [n \in 0 .. N |-> IF n = 0 THEN base ELSE step[<<n, f[n - 1]>>]]
  BY <1>4 DEF Is
<1>6. Recurs(f, N, V, base, step)
  BY <1>4, <1>5 DEF Is, Recurs
<1>7. QED
  BY <1>6

(* Rank counts a set of numbers from 0, and At finds what has a rank. *)
LEMMA RankIs ==
    ASSUME NEW S \in SUBSET Nat, IsFiniteSet(S), NEW c, c = Cardinality(S)
    PROVE  /\ c \in Nat
           /\ \A x \in S : Rank(S, x) \in 0 .. c - 1 /\ At(S, Rank(S, x)) = x
           /\ \A n \in 0 .. c - 1 : At(S, n) \in S /\ Rank(S, At(S, n)) = n
           /\ \A x, y \in S : x < y => Rank(S, x) < Rank(S, y)
<1> DEFINE B(x) == {y \in S : y < x}
           T == 0 .. c - 1
           f == [x \in S |-> Rank(S, x)]
<1>1. c \in Nat
  BY FS_CardinalityType
<1>2. ASSUME NEW x \in S
      PROVE  B(x) \in SUBSET S /\ IsFiniteSet(B(x)) /\ Rank(S, x) = Cardinality(B(x)) /\ Rank(S, x) \in Nat
  <2>1. B(x) \in SUBSET S /\ Rank(S, x) = Cardinality(B(x))
    BY DEF Rank
  <2> HIDE DEF B
  <2>2. QED
    BY <2>1, FS_Subset, FS_CardinalityType
<1>3. ASSUME NEW x \in S PROVE Rank(S, x) < c
  <2>1. x \notin B(x) /\ B(x) # S
    OBVIOUS
  <2> HIDE DEF B
  <2>2. Cardinality(B(x)) <= c /\ (c = Cardinality(B(x)) => S = B(x))
    BY <1>2, FS_Subset
  <2>3. QED
    BY <2>1, <2>2, <1>1, <1>2
<1>4. ASSUME NEW x \in S, NEW y \in S, x < y PROVE Rank(S, x) < Rank(S, y)
  <2>1. B(x) \in SUBSET B(y) /\ x \notin B(x) /\ x \in B(y)
    <3>1. \A z \in S : z \in Nat
      OBVIOUS
    <3>2. \A z \in S : z < x => z < y
      BY <1>4, <3>1
    <3>3. ~(x < x)
      BY <3>1
    <3>4. QED
      BY <1>4, <3>2, <3>3
  <2> HIDE DEF B
  <2>2. Cardinality(B(x)) <= Cardinality(B(y)) /\ (Cardinality(B(y)) = Cardinality(B(x)) => B(y) = B(x))
    <3> DEFINE P == B(x)
               Q == B(y)
    <3>1. P \in SUBSET Q /\ IsFiniteSet(Q)
      BY <2>1, <1>2
    <3> HIDE DEF P, Q
    <3>2. Cardinality(P) <= Cardinality(Q) /\ (Cardinality(Q) = Cardinality(P) => Q = P)
      BY <3>1, FS_Subset
    <3>3. QED
      BY <3>2 DEF P, Q
  <2>3. B(x) # B(y)
    BY <2>1
  <2>4. Cardinality(B(x)) \in Nat /\ Cardinality(B(y)) \in Nat /\ Rank(S, x) = Cardinality(B(x)) /\ Rank(S, y) = Cardinality(B(y))
    BY <1>2
  <2>5. QED
    BY <2>2, <2>3, <2>4
<1> HIDE DEF B
<1>5. \A x, y \in S : Rank(S, x) = Rank(S, y) => x = y
  <2>1. ASSUME NEW x \in S, NEW y \in S, Rank(S, x) = Rank(S, y) PROVE x = y
    <3>1. x \in Nat /\ y \in Nat /\ Rank(S, x) \in Nat /\ Rank(S, y) \in Nat
      BY <1>2
    <3>2. ~(x < y) /\ ~(y < x)
      BY <2>1, <3>1, <1>4
    <3>3. QED
      BY <3>1, <3>2
  <2>2. QED
    BY <2>1
<1>6. f \in Injection(S, T)
  <2>1. \A x \in S : Rank(S, x) \in T
    BY <1>1, <1>2, <1>3
  <2>2. QED
    BY <2>1, <1>5 DEF Injection, IsInjective
<1>7. IsFiniteSet(T) /\ Cardinality(T) = c
  <2>1. 0 \in Int /\ c - 1 \in Int
    BY <1>1
  <2>2. IsFiniteSet(T) /\ Cardinality(T) = IF 0 > c - 1 THEN 0 ELSE c - 1 - 0 + 1
    BY <2>1, FS_Interval
  <2>3. QED
    BY <2>2, <1>1
<1>8. f \in Surjection(S, T)
  <2>1. Cardinality(S) = Cardinality(T)
    BY <1>7
  <2> HIDE DEF f, T
  <2>2. QED
    BY <2>1, <1>6, <1>7, FS_Injection, Zenon
<1>9. \A n \in T : \E x \in S : Rank(S, x) = n
  <2> HIDE DEF f
  <2>1. \A n \in T : \E x \in S : f[x] = n
    BY <1>8 DEF Surjection
  <2>2. QED
    BY <2>1 DEF f
<1>10. \A n \in T : At(S, n) \in S /\ Rank(S, At(S, n)) = n
  BY <1>9 DEF At
<1>11. \A x \in S : Rank(S, x) \in T
  BY <1>1, <1>2, <1>3
<1>12. \A x \in S : At(S, Rank(S, x)) = x
  BY <1>5, <1>10, <1>11
<1>13. QED
  BY <1>1, <1>4, <1>10, <1>11, <1>12

(* A finite set of numbers has a greatest one. *)
LEMMA GreatestNumber ==
    ASSUME NEW S \in SUBSET Nat, IsFiniteSet(S), S # {}
    PROVE  \E m \in S : \A x \in S : x <= m
<1> DEFINE c == Cardinality(S)
<1>1. c \in Nat /\ c # 0
  BY FS_CardinalityType, FS_EmptySet
<1>2. /\ \A x \in S : Rank(S, x) \in 0 .. c - 1
      /\ \A n \in 0 .. c - 1 : At(S, n) \in S /\ Rank(S, At(S, n)) = n
      /\ \A x, y \in S : x < y => Rank(S, x) < Rank(S, y)
  BY RankIs
<1> HIDE DEF c
<1> DEFINE m == At(S, c - 1)
<1>3. m \in S /\ Rank(S, m) = c - 1
  BY <1>1, <1>2
<1> HIDE DEF m
<1>4. ASSUME NEW x \in S PROVE x <= m
  <2>1. x \in Nat /\ m \in Nat
    BY <1>3
  <2>2. ~(m < x)
    <3>1. Rank(S, x) \in 0 .. c - 1 /\ ~(c - 1 < Rank(S, x))
      BY <1>1, <1>2
    <3>2. QED
      BY <1>2, <1>3, <3>1
  <2>3. QED
    BY <2>1, <2>2
<1>5. QED
  BY <1>3, <1>4
=============================================================================
