------------------------- MODULE KubeletGroupProofs -------------------------
(***************************************************************************)
(* The groups of a node describe the pods that were listed: for any pods,  *)
(* shapes and conditions, and whatever changes between the reads.          *)
(***************************************************************************)
EXTENDS KubeletGroup, FiniteSetTheorems, WellFoundedInduction, TLAPS

(* Induction.  What is proved of every number, or of every subset of a finite *)
(* set, is that it is an element of a set T.                                  *)

\* A set of numbers has a least one.
LEMMA LeastNat ==
  ASSUME NEW T \in SUBSET Nat, T # {}
  PROVE  \E x \in T : \A y \in T : x <= y
<1> DEFINE R == OpToRel(<, Nat)
<1>1. IsWellFoundedOn(R, Nat)
  BY NatLessThanWellFounded
<1> HIDE DEF R
<1>2. PICK x \in T : \A y \in T : ~(<<y, x>> \in R)
  BY <1>1, WFMin
<1>3. \A y \in T : <<y, x>> \in R <=> y < x
  BY DEF R, OpToRel
<1>4. \A y \in T : x \in Nat /\ y \in Nat /\ ~(y < x)
  BY <1>2, <1>3
<1>5. \A y \in T : x <= y
  BY <1>4
<1> QED
  BY <1>5

\* Induction over the numbers up to N.
LEMMA UpTo ==
  ASSUME NEW N \in Nat, NEW T, 0 \in T, \A n \in 0..N : n < N /\ n \in T => n + 1 \in T
  PROVE  \A n \in 0..N : n \in T
<1> SUFFICES ASSUME NEW m \in 0..N, m \notin T PROVE FALSE
  OBVIOUS
<1> DEFINE Bad == {n \in 0..N : n \notin T}
<1>1. Bad \in SUBSET Nat /\ Bad # {}
  OBVIOUS
<1>2. PICK n \in Bad : \A y \in Bad : n <= y
  <2> HIDE DEF Bad
  <2> QED
    BY <1>1, LeastNat
<1>3. n \in 0..N /\ n \notin T /\ n # 0
  OBVIOUS
<1>4. n - 1 \in 0..N /\ n - 1 < N /\ n - 1 \notin Bad /\ (n - 1) + 1 = n
  BY <1>2, <1>3
<1>5. n - 1 \in T
  BY <1>4
<1> QED
  BY <1>3, <1>4, <1>5

\* Induction over the subsets of a finite set.
LEMMA Subsets ==
  ASSUME NEW D, IsFiniteSet(D), NEW T,
         \A s \in SUBSET D : (\A t \in SUBSET s : t # s => t \in T) => s \in T
  PROVE  \A s \in SUBSET D : s \in T
<1> SUFFICES ASSUME NEW b \in SUBSET D, b \notin T PROVE FALSE
  OBVIOUS
<1> DEFINE Bad == {n \in Nat : \E s \in SUBSET D : s \notin T /\ Cardinality(s) = n}
<1>1. \A s \in SUBSET D : IsFiniteSet(s) /\ Cardinality(s) \in Nat
  BY FS_Subset, FS_CardinalityType
<1>2. Bad \in SUBSET Nat /\ Bad # {}
  BY <1>1
<1>3. PICK n \in Bad : \A y \in Bad : n <= y
  <2> HIDE DEF Bad
  <2> QED
    BY <1>2, LeastNat
<1>4. PICK s \in SUBSET D : s \notin T /\ Cardinality(s) = n
  OBVIOUS
<1>5. ASSUME NEW t \in SUBSET s, t # s PROVE t \in T
  <2>1. Cardinality(t) < Cardinality(s)
    BY <1>1, <1>5, FS_Subset
  <2>2. t \in SUBSET D /\ Cardinality(t) \in Nat
    BY <1>1
  <2>3. Cardinality(t) \notin Bad
    BY <1>1, <1>3, <1>4, <2>1, <2>2
  <2> QED
    BY <2>2, <2>3
<1> QED
  BY <1>4, <1>5

-----------------------------------------------------------------------------
(* Sums *)

\* The sums over the subsets of a function's domain.
Sums(w) ==
    LET iter[s \in SUBSET DOMAIN w] ==
          IF s = {} THEN 0
          ELSE LET x == CHOOSE x \in s : TRUE IN w[x] + iter[s \ {x}]
    IN iter

\* A total is what adding up in some order gives.
LEMMA SumIs == ASSUME NEW w PROVE Sum(w) = Sums(w)[DOMAIN w]
BY DEF Sum, Sums, MapThenSumSet, MapThenFoldSet

Chosen(s) == CHOOSE x \in s : TRUE

\* The recursive definition has a solution, so the sums satisfy it.
LEMMA SumsRecursion ==
  ASSUME NEW w, IsFiniteSet(DOMAIN w)
  PROVE  /\ Sums(w)[{}] = 0
         /\ \A s \in SUBSET DOMAIN w : s # {} =>
              Sums(w)[s] = w[Chosen(s)] + Sums(w)[s \ {Chosen(s)}]
<1> DEFINE D == DOMAIN w
           Small(n) == {s \in SUBSET D : Cardinality(s) <= n}
           Sat(g, n) == g = [s \in Small(n) |-> IF s = {} THEN 0
                                                ELSE w[Chosen(s)] + g[s \ {Chosen(s)}]]
           N == Cardinality(D)
           T == {n \in 0..N : \E g : Sat(g, n)}
<1>1. N \in Nat /\ \A s \in SUBSET D : Cardinality(s) \in Nat /\ Cardinality(s) <= N /\ IsFiniteSet(s)
  BY FS_Subset, FS_CardinalityType
<1>2. \A s \in SUBSET D : s # {} =>
        /\ Chosen(s) \in s /\ s \ {Chosen(s)} \in SUBSET D
        /\ Cardinality(s \ {Chosen(s)}) = Cardinality(s) - 1
  BY <1>1, FS_RemoveElement DEF Chosen
<1>3. \A s \in SUBSET D : Cardinality(s) = 0 <=> s = {}
  BY <1>1, FS_EmptySet
<1>4. 0 \in T
  <2>1. Small(0) = {{}}
    BY <1>1, <1>3
  <2>2. Sat([s \in Small(0) |-> 0], 0)
    BY <2>1
  <2>3. \E g : Sat(g, 0)
    <3> HIDE DEF Sat
    <3> QED
      BY <2>2
  <2>4. 0 \in 0..N
    BY <1>1
  <2> QED
    BY <2>3, <2>4
<1>5. ASSUME NEW n \in 0..N, n < N, n \in T PROVE n + 1 \in T
  <2>1. PICK g : Sat(g, n)
    BY <1>5
  <2> DEFINE h == [s \in Small(n + 1) |-> IF Cardinality(s) <= n THEN g[s]
                                          ELSE w[Chosen(s)] + g[s \ {Chosen(s)}]]
  <2>2. ASSUME NEW s \in Small(n + 1)
        PROVE  h[s] = IF s = {} THEN 0 ELSE w[Chosen(s)] + h[s \ {Chosen(s)}]
    <3>1. CASE s = {}
      BY <1>1, <1>3, <2>1, <3>1
    <3>2. CASE s # {}
      <4>1. s \ {Chosen(s)} \in Small(n) /\ s \ {Chosen(s)} \in Small(n + 1)
        BY <1>1, <1>2, <3>2
      <4>2. h[s \ {Chosen(s)}] = g[s \ {Chosen(s)}]
        BY <4>1
      <4>3. h[s] = w[Chosen(s)] + g[s \ {Chosen(s)}]
        <5>1. CASE Cardinality(s) <= n
          <6>1. s \in Small(n) /\ h[s] = g[s]
            BY <5>1
          <6> QED
            BY <2>1, <3>2, <6>1
        <5>2. CASE ~(Cardinality(s) <= n)
          BY <5>2
        <5> QED
          BY <5>1, <5>2
      <4> QED
        BY <3>2, <4>2, <4>3
    <3> QED
      BY <3>1, <3>2
  <2>3. Sat(h, n + 1)
    BY <2>2
  <2>4. n + 1 \in 0..N
    BY <1>1, <1>5
  <2> QED
    BY <2>3, <2>4
<1>6. N \in T
  <2> HIDE DEF T
  <2> QED
    BY <1>1, <1>4, <1>5, UpTo
<1>7. Small(N) = SUBSET D
  BY <1>1
<1>8. Sat(Sums(w), N)
  <2>1. PICK h : Sat(h, N)
    BY <1>6
  <2>2. Sums(w) = CHOOSE g : Sat(g, N)
    BY <1>7 DEF Sums, Chosen
  <2> QED
    BY <2>1, <2>2
<1> QED
  BY <1>7, <1>8

\* A sum does not depend on the order.
LEMMA SumsAnyOrder ==
  ASSUME NEW D, IsFiniteSet(D), NEW w \in [D -> Int]
  PROVE  \A s \in SUBSET D :
           Sums(w)[s] \in Int /\ \A y \in s : Sums(w)[s] = w[y] + Sums(w)[s \ {y}]
<1> DEFINE S == Sums(w)
           T == {s \in SUBSET D : S[s] \in Int /\ \A y \in s : S[s] = w[y] + S[s \ {y}]}
<1>1. DOMAIN w = D /\ \A x \in D : w[x] \in Int
  OBVIOUS
<1>2. S[{}] = 0 /\ \A s \in SUBSET D : s # {} => S[s] = w[Chosen(s)] + S[s \ {Chosen(s)}]
  BY <1>1, SumsRecursion
<1> HIDE DEF S
<1>3. ASSUME NEW s \in SUBSET D, \A t \in SUBSET s : t # s => t \in T PROVE s \in T
  <2>1. CASE s = {}
    BY <1>2, <2>1
  <2>2. CASE s # {}
    <3> DEFINE x == Chosen(s)
    <3>1. x \in s /\ x \in D
      BY <2>2 DEF Chosen
    <3>2. S[s] = w[x] + S[s \ {x}]
      BY <1>2, <2>2
    <3> HIDE DEF x
    <3>3. S[s \ {x}] \in Int /\ \A y \in s \ {x} : S[s \ {x}] = w[y] + S[(s \ {x}) \ {y}]
      BY <1>3, <3>1
    <3>4. ASSUME NEW y \in s PROVE S[s] = w[y] + S[s \ {y}]
      <4>1. CASE y = x
        BY <3>2, <4>1
      <4>2. CASE y # x
        <5>1. S[s \ {x}] = w[y] + S[(s \ {x}) \ {y}]
          BY <3>3, <4>2
        <5>2. S[s \ {y}] = w[x] + S[(s \ {y}) \ {x}]
          BY <1>3, <3>1, <4>2
        <5>3. (s \ {x}) \ {y} = (s \ {y}) \ {x}
          OBVIOUS
        <5>4. S[(s \ {x}) \ {y}] \in Int
          BY <1>3, <3>1
        <5>5. w[x] \in Int /\ w[y] \in Int
          BY <1>1, <3>1
        <5>6. \A a, b, c \in Int : a + (b + c) = b + (a + c)
          OBVIOUS
        <5>7. S[s] = w[x] + (w[y] + S[(s \ {x}) \ {y}])
          BY <3>2, <5>1
        <5>8. S[s \ {y}] = w[x] + S[(s \ {x}) \ {y}]
          BY <5>2, <5>3
        <5> QED
          BY <5>4, <5>5, <5>6, <5>7, <5>8
      <4> QED
        BY <4>1, <4>2
    <3>5. S[s] \in Int
      BY <1>1, <3>1, <3>2, <3>3
    <3> QED
      BY <3>4, <3>5
  <2> QED
    BY <2>1, <2>2
<1>4. \A s \in SUBSET D : s \in T
  <2> HIDE DEF T
  <2> QED
    BY <1>3, Subsets
<1> QED
  BY <1>4 DEF S

\* S has the sums of w over the subsets of D.
Additive(S, D, w) ==
    /\ S[{}] = 0
    /\ \A s \in SUBSET D : S[s] \in Int
    /\ \A s \in SUBSET D : \A y \in s : w[y] \in Int /\ S[s] = w[y] + S[s \ {y}]

\* The sums of integers are the sums over subsets.
LEMMA SumsAdditive ==
  ASSUME NEW D, IsFiniteSet(D), NEW w \in [D -> Int]
  PROVE  Additive(Sums(w), D, w) /\ Sum(w) = Sums(w)[D]
<1>1. DOMAIN w = D /\ \A y \in D : w[y] \in Int
  OBVIOUS
<1>2. Sums(w)[{}] = 0
  BY <1>1, SumsRecursion
<1>3. Sum(w) = Sums(w)[D]
  BY <1>1, SumIs
<1> QED
  BY <1>1, <1>2, <1>3, SumsAnyOrder DEF Additive

\* u has what the pairs of p have in w, and A is a set of other pairs.
PartOf(K, w, S, C, u, V, p, A) ==
    /\ Additive(S, K, w) /\ IsFiniteSet(C) /\ Additive(V, C, u)
    /\ A \in SUBSET K /\ \A id \in A : id[1] # p
    /\ \A id \in K : id = <<id[1], id[2]>>
    /\ \A c \in C : u[c] = IF <<p, c>> \in K THEN w[<<p, c>>] ELSE 0

PairsOf(K, p, C) == {id \in K : id[1] = p /\ id[2] \in C}

\* The pairs of p add the sum of their second parts.
LEMMA SumOfPart ==
  ASSUME NEW K, NEW w, NEW S, NEW C, NEW u, NEW V, NEW p, NEW A, PartOf(K, w, S, C, u, V, p, A)
  PROVE  S[A \cup PairsOf(K, p, C)] = S[A] + V[C]
<1> USE DEF PartOf
<1> DEFINE With(E) == A \cup {id \in K : id[1] = p /\ id[2] \in E}
           T == {E \in SUBSET C : S[With(E)] = S[A] + V[E]}
<1>1. S[A] \in Int /\ V[{}] = 0
  BY DEF Additive
<1>2. \A E \in SUBSET C : With(E) \in SUBSET K /\ S[With(E)] \in Int /\ V[E] \in Int
  <2>1. \A E \in SUBSET C : With(E) \in SUBSET K
    OBVIOUS
  <2> HIDE DEF With
  <2> QED
    BY <2>1 DEF Additive
<1>3. ASSUME NEW E \in SUBSET C, NEW c \in E
      PROVE  S[With(E)] = u[c] + S[With(E \ {c})]
  <2>1. CASE <<p, c>> \in K
    <3>1. <<p, c>> \in With(E)
      BY <2>1
    <3>2. \A id \in K : id = <<p, c>> <=> id[1] = p /\ id[2] = c
      OBVIOUS
    <3>3. With(E) \ {<<p, c>>} = With(E \ {c})
      BY <3>2
    <3>4. u[c] = w[<<p, c>>]
      BY <2>1
    <3> HIDE DEF With
    <3>5. S[With(E)] = w[<<p, c>>] + S[With(E) \ {<<p, c>>}]
      BY <1>2, <3>1 DEF Additive
    <3> QED
      BY <3>3, <3>4, <3>5
  <2>2. CASE <<p, c>> \notin K
    <3>1. With(E) = With(E \ {c})
      BY <2>2
    <3>2. u[c] = 0
      BY <2>2
    <3>3. E \ {c} \in SUBSET C
      OBVIOUS
    <3> HIDE DEF With
    <3>4. S[With(E \ {c})] \in Int
      BY <1>2, <3>3
    <3> QED
      BY <3>1, <3>2, <3>4
  <2> QED
    BY <2>1, <2>2
<1>4. With({}) = A
  OBVIOUS
<1> HIDE DEF With
<1>5. ASSUME NEW E \in SUBSET C, \A t \in SUBSET E : t # E => t \in T PROVE E \in T
  <2>1. CASE E = {}
    BY <1>1, <1>4, <2>1
  <2>2. CASE E # {}
    <3>1. PICK c \in E : TRUE
      BY <2>2
    <3>2. S[With(E \ {c})] = S[A] + V[E \ {c}] /\ E \ {c} \in SUBSET C
      BY <1>5, <3>1
    <3>3. V[E] = u[c] + V[E \ {c}] /\ u[c] \in Int
      BY <3>1 DEF Additive
    <3>4. V[E \ {c}] \in Int
      BY <1>2, <3>2
    <3>5. S[With(E)] = u[c] + S[With(E \ {c})]
      BY <1>3, <3>1
    <3>6. S[With(E)] = S[A] + V[E]
      BY <1>1, <3>2, <3>3, <3>4, <3>5
    <3> QED
      BY <3>6
  <2> QED
    BY <2>1, <2>2
<1>6. \A E \in SUBSET C : E \in T
  <2> HIDE DEF T
  <2> QED
    BY <1>5, Subsets
<1> QED
  BY <1>6 DEF With, PairsOf

\* v has, for every p of P, what the pairs of p have in w.
PartsOf(P, C, K, w, S, u, V, v, W) ==
    /\ IsFiniteSet(P) /\ Additive(S, K, w) /\ Additive(W, P, v)
    /\ \A id \in K : id = <<id[1], id[2]>> /\ id[1] \in P /\ id[2] \in C[id[1]]
    /\ \A p \in P : /\ IsFiniteSet(C[p]) /\ Additive(V[p], C[p], u[p]) /\ v[p] = V[p][C[p]]
                    /\ \A c \in C[p] : u[p][c] = IF <<p, c>> \in K THEN w[<<p, c>>] ELSE 0

\* A sum over pairs is the sum over their first parts of the sums over the second;
\* what the latter have beyond the pairs is 0.
LEMMA SumOfPairs ==
  ASSUME NEW P, NEW C, NEW K, NEW w, NEW S, NEW u, NEW V, NEW v, NEW W,
         PartsOf(P, C, K, w, S, u, V, v, W)
  PROVE  S[K] = W[P]
<1> DEFINE Of(Q) == {id \in K : id[1] \in Q}
           T == {Q \in SUBSET P : S[Of(Q)] = W[Q]}
<1>0. IsFiniteSet(P) /\ Additive(S, K, w) /\ Additive(W, P, v)
  BY DEF PartsOf
<1>1. ASSUME NEW Q \in SUBSET P, NEW p \in Q
      PROVE  S[Of(Q)] = S[Of(Q \ {p})] + v[p]
  <2>0. PICK A, D, x, X : A = Of(Q \ {p}) /\ D = C[p] /\ x = u[p] /\ X = V[p]
    OBVIOUS
  <2>1. A \in SUBSET K /\ \A id \in A : id[1] # p
    BY <2>0
  <2>2. \A id \in K : id = <<id[1], id[2]>> /\ id[1] \in P /\ id[2] \in C[id[1]]
    BY DEF PartsOf
  <2>3. /\ IsFiniteSet(D) /\ Additive(X, D, x) /\ v[p] = X[D]
        /\ \A c \in D : x[c] = IF <<p, c>> \in K THEN w[<<p, c>>] ELSE 0
    BY <2>0 DEF PartsOf
  <2>4. Of(Q) = A \cup PairsOf(K, p, D)
    BY <2>0, <2>2 DEF PairsOf
  <2> HIDE DEF Of, T
  <2>5. PartOf(K, w, S, D, x, X, p, A)
    BY <1>0, <2>1, <2>2, <2>3 DEF PartOf
  <2>6. S[A \cup PairsOf(K, p, D)] = S[A] + X[D]
    BY <2>5, SumOfPart
  <2>7. S[Of(Q)] = S[A] + v[p]
    BY <2>3, <2>4, <2>6
  <2> QED
    BY <2>0, <2>7
<1>2. Of({}) = {} /\ Of(P) = K
  BY DEF PartsOf
<1> HIDE DEF Of
<1>3. ASSUME NEW Q \in SUBSET P, \A t \in SUBSET Q : t # Q => t \in T PROVE Q \in T
  <2>1. CASE Q = {}
    BY <1>0, <1>2, <2>1 DEF Additive
  <2>2. CASE Q # {}
    <3>1. PICK p \in Q : TRUE
      BY <2>2
    <3>2. S[Of(Q \ {p})] = W[Q \ {p}] /\ Q \ {p} \in SUBSET P
      BY <1>3, <3>1
    <3>3. W[Q] = v[p] + W[Q \ {p}] /\ v[p] \in Int /\ W[Q \ {p}] \in Int
      BY <1>0, <3>1, <3>2 DEF Additive
    <3>4. S[Of(Q)] = S[Of(Q \ {p})] + v[p]
      BY <1>1, <3>1
    <3>5. \A x, y \in Int : x + y = y + x
      OBVIOUS
    <3>6. S[Of(Q)] = W[Q]
      BY <3>2, <3>3, <3>4, <3>5
    <3> QED
      BY <3>6
  <2> QED
    BY <2>1, <2>2
<1>4. \A Q \in SUBSET P : Q \in T
  <2> HIDE DEF T
  <2> QED
    BY <1>0, <1>3, Subsets
<1> QED
  BY <1>2, <1>4

-----------------------------------------------------------------------------
(* Conditions *)

\* The map of conditions satisfies its recursive definition.
LEMMA ConditionsRecursion ==
  ASSUME NEW cs, Len(cs) \in Nat
  PROVE  /\ ConditionsOf(cs)[0] = NoMap
         /\ \A n \in 1..Len(cs) : ConditionsOf(cs)[n] = AddCondition(ConditionsOf(cs)[n - 1], cs[n])
<1> DEFINE N == Len(cs)
           Sat(g, k) == g = [n \in 0..k |-> IF n = 0 THEN NoMap ELSE AddCondition(g[n - 1], cs[n])]
           T == {k \in 0..N : \E g : Sat(g, k)}
<1>0. N \in Nat
  OBVIOUS
<1>1. 0 \in T
  <2>1. Sat([n \in 0..0 |-> NoMap], 0)
    OBVIOUS
  <2>2. \E g : Sat(g, 0)
    <3> HIDE DEF Sat
    <3> QED
      BY <2>1
  <2> QED
    BY <2>2
<1>2. ASSUME NEW k \in 0..N, k < N, k \in T PROVE k + 1 \in T
  <2>1. PICK g : Sat(g, k)
    BY <1>2
  <2> DEFINE h == [n \in 0..(k + 1) |-> IF n = k + 1 THEN AddCondition(g[k], cs[k + 1]) ELSE g[n]]
  <2>2. ASSUME NEW n \in 0..(k + 1)
        PROVE  h[n] = IF n = 0 THEN NoMap ELSE AddCondition(h[n - 1], cs[n])
    <3>1. CASE n = k + 1
      <4>1. n # 0 /\ n - 1 = k /\ k \in 0..(k + 1) /\ k # k + 1
        BY <3>1
      <4>2. h[n] = AddCondition(g[k], cs[n]) /\ h[k] = g[k]
        BY <3>1, <4>1
      <4> QED
        BY <4>1, <4>2
    <3>2. CASE n # k + 1
      <4>1. n \in 0..k /\ h[n] = g[n]
        BY <3>2
      <4>2. g[n] = IF n = 0 THEN NoMap ELSE AddCondition(g[n - 1], cs[n])
        BY <2>1, <4>1
      <4>3. n # 0 => h[n - 1] = g[n - 1]
        BY <3>2
      <4> QED
        BY <4>1, <4>2, <4>3
    <3> QED
      BY <3>1, <3>2
  <2>3. Sat(h, k + 1)
    BY <2>2
  <2>4. \E f : Sat(f, k + 1)
    <3> HIDE DEF Sat, h
    <3> QED
      BY <2>3
  <2>5. k + 1 \in 0..N
    BY <1>2
  <2> QED
    BY <2>4, <2>5
<1>3. N \in T
  <2> HIDE DEF T, N
  <2>1. \A n \in 0..N : n \in T
    BY <1>0, <1>1, <1>2, UpTo
  <2> QED
    BY <1>0, <2>1
<1>4. Sat(ConditionsOf(cs), N)
  <2>1. PICK h : Sat(h, N)
    BY <1>3
  <2>2. ConditionsOf(cs) = CHOOSE g : Sat(g, N)
    BY DEF ConditionsOf
  <2> QED
    BY <2>1, <2>2
<1> QED
  BY <1>4

\* What the first n conditions say of type t.
Known(cs, n, t) == {i \in 1..n : cs[i][1] = t /\ cs[i][2] \in DOMAIN ConditionValue}
Said(cs, n, t) == {ConditionValue[cs[i][2]] : i \in Known(cs, n, t)}

\* v is what all of said agree on, or unknown.
Agreed(said, v) == said = {v} \/ (v = -1 /\ \A x : said # {x})

Mapped(map, cs, n) ==
    \A t : IF Said(cs, n, t) = {} THEN t \notin DOMAIN map
           ELSE t \in DOMAIN map /\ Agreed(Said(cs, n, t), map[t])

\* One more entry of a type keeps the verdict or makes it unknown.
LEMMA AgreedStep ==
  ASSUME NEW said, NEW v, NEW x, Agreed(said, v), said # {}
  PROVE  Agreed(said \cup {x}, IF v # x THEN -1 ELSE x)
<1>1. CASE said = {v}
  <2>1. CASE v = x
    BY <1>1, <2>1 DEF Agreed
  <2>2. CASE v # x
    <3>1. \A y : said \cup {x} # {y}
      BY <1>1, <2>2
    <3> QED
      BY <2>2, <3>1 DEF Agreed
  <2> QED
    BY <2>1, <2>2
<1>2. CASE v = -1 /\ \A y : said # {y}
  <2>1. \A y : said \cup {x} # {y}
    BY <1>2
  <2>2. (IF v # x THEN -1 ELSE x) = -1
    BY <1>2
  <2> QED
    BY <2>1, <2>2 DEF Agreed
<1> QED
  BY <1>1, <1>2 DEF Agreed

\* AddCondition keeps the map right.
LEMMA ConditionStep ==
  ASSUME NEW cs, NEW n \in Nat, NEW map, Mapped(map, cs, n)
  PROVE  Mapped(AddCondition(map, cs[n + 1]), cs, n + 1)
<1> DEFINE c == cs[n + 1]
           new == AddCondition(map, c)
<1>1. \A t : Known(cs, n + 1, t) = Known(cs, n, t) \cup
                 (IF c[1] = t /\ c[2] \in DOMAIN ConditionValue THEN {n + 1} ELSE {})
  BY DEF Known
<1>2. SUFFICES ASSUME NEW t
               PROVE  IF Said(cs, n + 1, t) = {} THEN t \notin DOMAIN new
                      ELSE t \in DOMAIN new /\ Agreed(Said(cs, n + 1, t), new[t])
  BY DEF Mapped
<1>3. IF Said(cs, n, t) = {} THEN t \notin DOMAIN map
      ELSE t \in DOMAIN map /\ Agreed(Said(cs, n, t), map[t])
  BY DEF Mapped
<1>4. CASE c[2] \notin DOMAIN ConditionValue
  <2>1. Said(cs, n + 1, t) = Said(cs, n, t)
    BY <1>1, <1>4 DEF Said
  <2>2. new = map
    BY <1>4 DEF AddCondition
  <2> QED
    BY <1>3, <2>1, <2>2
<1>5. CASE c[2] \in DOMAIN ConditionValue /\ c[1] # t
  <2>1. Said(cs, n + 1, t) = Said(cs, n, t)
    BY <1>1, <1>5 DEF Said
  <2>2. t \in DOMAIN new <=> t \in DOMAIN map
    BY <1>5 DEF AddCondition, :>, @@
  <2>3. t \in DOMAIN map => new[t] = map[t]
    BY <1>5 DEF AddCondition, :>, @@
  <2> QED
    BY <1>3, <2>1, <2>2, <2>3
<1>6. CASE c[2] \in DOMAIN ConditionValue /\ c[1] = t
  <2> DEFINE x == ConditionValue[c[2]]
             said == Said(cs, n, t)
  <2>1. Said(cs, n + 1, t) = said \cup {x}
    BY <1>1, <1>6 DEF Said
  <2>2. t \in DOMAIN new /\ new[t] = IF t \in DOMAIN map /\ map[t] # x THEN -1 ELSE x
    BY <1>6 DEF AddCondition, :>, @@
  <2>3. Agreed(said \cup {x}, new[t])
    <3> HIDE DEF x, said, new
    <3>1. CASE said = {}
      <4>1. said \cup {x} = {x} /\ new[t] = x
        BY <1>3, <2>2, <3>1 DEF said
      <4> QED
        BY <4>1 DEF Agreed
    <3>2. CASE said # {}
      <4>1. Agreed(said, map[t]) /\ t \in DOMAIN map
        BY <1>3, <3>2 DEF said
      <4>2. Agreed(said \cup {x}, IF map[t] # x THEN -1 ELSE x)
        BY <3>2, <4>1, AgreedStep
      <4> QED
        BY <2>2, <4>1, <4>2
    <3> QED
      BY <3>1, <3>2
  <2>4. Said(cs, n + 1, t) # {}
    BY <2>1
  <2> QED
    BY <2>1, <2>2, <2>3, <2>4
<1> QED
  BY <1>4, <1>5, <1>6

\* The map has the verdict of every type.
LEMMA ConditionsMapped ==
  ASSUME NEW cs, Len(cs) \in Nat
  PROVE  Mapped(ConditionsOf(cs)[Len(cs)], cs, Len(cs))
<1> DEFINE N == Len(cs)
           T == {n \in 0..N : Mapped(ConditionsOf(cs)[n], cs, n)}
<1>1. 0 \in T
  <2>1. ConditionsOf(cs)[0] = NoMap
    BY ConditionsRecursion
  <2>2. \A t : Said(cs, 0, t) = {}
    BY DEF Said, Known
  <2>3. Mapped(NoMap, cs, 0)
    BY <2>2 DEF Mapped, NoMap
  <2> QED
    BY <2>1, <2>3
<1>2. ASSUME NEW n \in 0..N, n < N, n \in T PROVE n + 1 \in T
  <2>1. n + 1 \in 1..N /\ (n + 1) - 1 = n /\ n \in Nat
    BY <1>2
  <2>2. ConditionsOf(cs)[n + 1] = AddCondition(ConditionsOf(cs)[n], cs[n + 1])
    BY <2>1, ConditionsRecursion
  <2>3. Mapped(ConditionsOf(cs)[n + 1], cs, n + 1)
    BY <1>2, <2>1, <2>2, ConditionStep
  <2> QED
    BY <2>1, <2>3
<1>3. \A n \in 0..N : n \in T
  <2> HIDE DEF T
  <2> QED
    BY <1>1, <1>2, UpTo
<1> QED
  BY <1>3

-----------------------------------------------------------------------------
(* The list of pods *)

\* The loop over the pods satisfies its recursive definition.
LEMMA PodsRecursion ==
  ASSUME NEW items, Len(items) \in Nat
  PROVE  /\ PodsOf(items)[0] = [ip |-> "", pod |-> NoMap, container |-> NoMap]
         /\ \A n \in 1..Len(items) : PodsOf(items)[n] = AddPod(PodsOf(items)[n - 1], items[n])
<1> DEFINE N == Len(items)
           none == [ip |-> "", pod |-> NoMap, container |-> NoMap]
           Sat(g, k) == g = [n \in 0..k |-> IF n = 0 THEN none ELSE AddPod(g[n - 1], items[n])]
           T == {k \in 0..N : \E g : Sat(g, k)}
<1>0. N \in Nat
  OBVIOUS
<1> HIDE DEF none
<1>1. 0 \in T
  <2>1. Sat([n \in 0..0 |-> none], 0)
    OBVIOUS
  <2>2. \E g : Sat(g, 0)
    <3> HIDE DEF Sat
    <3> QED
      BY <2>1
  <2> QED
    BY <2>2
<1>2. ASSUME NEW k \in 0..N, k < N, k \in T PROVE k + 1 \in T
  <2>1. PICK g : Sat(g, k)
    BY <1>2
  <2> DEFINE h == [n \in 0..(k + 1) |-> IF n = k + 1 THEN AddPod(g[k], items[k + 1]) ELSE g[n]]
  <2>2. ASSUME NEW n \in 0..(k + 1)
        PROVE  h[n] = IF n = 0 THEN none ELSE AddPod(h[n - 1], items[n])
    <3>1. CASE n = k + 1
      <4>1. n # 0 /\ n - 1 = k /\ k \in 0..(k + 1) /\ k # k + 1
        BY <3>1
      <4>2. h[n] = AddPod(g[k], items[n]) /\ h[k] = g[k]
        BY <3>1, <4>1
      <4> QED
        BY <4>1, <4>2
    <3>2. CASE n # k + 1
      <4>1. n \in 0..k /\ h[n] = g[n]
        BY <3>2
      <4>2. g[n] = IF n = 0 THEN none ELSE AddPod(g[n - 1], items[n])
        BY <2>1, <4>1
      <4>3. n # 0 => h[n - 1] = g[n - 1]
        BY <3>2
      <4> QED
        BY <4>1, <4>2, <4>3
    <3> QED
      BY <3>1, <3>2
  <2>3. Sat(h, k + 1)
    BY <2>2
  <2>4. \E f : Sat(f, k + 1)
    <3> HIDE DEF Sat, h
    <3> QED
      BY <2>3
  <2>5. k + 1 \in 0..N
    BY <1>2
  <2> QED
    BY <2>4, <2>5
<1>3. N \in T
  <2> HIDE DEF T, N
  <2>1. \A n \in 0..N : n \in T
    BY <1>0, <1>1, <1>2, UpTo
  <2> QED
    BY <1>0, <2>1
<1>4. Sat(PodsOf(items), N)
  <2>1. PICK h : Sat(h, N)
    BY <1>3
  <2>2. PodsOf(items) = CHOOSE g : Sat(g, N)
    BY DEF PodsOf, none
  <2> QED
    BY <2>1, <2>2
<1>5. PodsOf(items)[0] = none /\ \A n \in 1..N : PodsOf(items)[n] = AddPod(PodsOf(items)[n - 1], items[n])
  BY <1>4
<1> QED
  BY <1>5 DEF none

\* e is d, with or without the IP that is known by now.
Gap(e, d, ip) == e = d \/ (ip # "" /\ e = ("nodeIP" :> ip) @@ d)

\* fillGaps gives every entry the IP, whether it had it or not.
LEMMA GapFilled ==
  ASSUME NEW e, NEW d, NEW ip, Gap(e, d, ip), "nodeIP" \notin DOMAIN d
  PROVE  (IF "nodeIP" \in DOMAIN e THEN e ELSE ("nodeIP" :> ip) @@ e) = ("nodeIP" :> ip) @@ d
<1>1. "nodeIP" \in DOMAIN (("nodeIP" :> ip) @@ d)
  BY DEF :>, @@
<1> QED
  BY <1>1 DEF Gap

\* The IP of the node, the containers reported and what is reported first, when
\* the pods of w are listed.
NodeIP(w) == IF \E p \in On(w) : w[p].hostIP = IP THEN IP ELSE ""
Ids(w) == UNION {{<<p, c>> : c \in Reported(w[p])} : p \in On(w)}
PodBase(w, p) == ("nodeIP" :> NodeIP(w)) @@ PodData(w[p])
ContainerBase(w, id) == ("nodeIP" :> NodeIP(w)) @@ ContainerData(w[id[1]], id[2])

\* What the loop has after the first n pods.
Filled(items, acc, n) ==
    LET seen == {items[i] : i \in 1..n}
    IN /\ acc.ip = IF \E p \in seen : world[p].hostIP = IP THEN IP ELSE ""
       /\ DOMAIN acc.pod = seen
       /\ \A p \in seen : Gap(acc.pod[p], PodData(world[p]), acc.ip)
       /\ DOMAIN acc.container = UNION {{<<p, c>> : c \in Reported(world[p])} : p \in seen}
       /\ \A id \in DOMAIN acc.container :
            Gap(acc.container[id], ContainerData(world[id[1]], id[2]), acc.ip)

\* The indices of one element more.
LEMMA NextIndex == ASSUME NEW n \in Nat PROVE 1..(n + 1) = 1..n \cup {n + 1}
OBVIOUS

\* One turn of the loop.
LEMMA FilledStep ==
  ASSUME NEW items, NEW acc, NEW n \in Nat, Filled(items, acc, n),
         world[items[n + 1]].hostIP \in {"", IP}
  PROVE  Filled(items, AddPod(acc, items[n + 1]), n + 1)
<1> DEFINE q == items[n + 1]
           s == world[q]
           ip == IF acc.ip = "" THEN s.hostIP ELSE acc.ip
           seen == {items[i] : i \in 1..n}
           now == {items[i] : i \in 1..(n + 1)}
           new == AddPod(acc, q)
           mine == {<<q, c>> : c \in Reported(s)}
           cont == [id \in mine |-> WithIP(ContainerData(s, id[2]), ip)]
<1>1. now = seen \cup {q}
  <2>1. 1..(n + 1) = 1..n \cup {n + 1}
    BY NextIndex
  <2> QED
    BY <2>1
<1>2. /\ new.ip = ip
      /\ new.pod = (q :> WithIP(PodData(s), ip)) @@ acc.pod
      /\ new.container = cont @@ acc.container
  BY DEF AddPod
<1>3. /\ acc.ip = IF \E p \in seen : world[p].hostIP = IP THEN IP ELSE ""
      /\ DOMAIN acc.pod = seen
      /\ \A p \in seen : Gap(acc.pod[p], PodData(world[p]), acc.ip)
      /\ DOMAIN acc.container = UNION {{<<p, c>> : c \in Reported(world[p])} : p \in seen}
      /\ \A id \in DOMAIN acc.container :
            Gap(acc.container[id], ContainerData(world[id[1]], id[2]), acc.ip)
  BY DEF Filled
<1>4. s.hostIP \in {"", IP} /\ IP # ""
  BY DEF IP
<1>5. acc.ip = "" \/ acc.ip = ip
  OBVIOUS
<1>6. ip = IF \E p \in now : world[p].hostIP = IP THEN IP ELSE ""
  <2> HIDE DEF seen, now, q
  <2> QED
    BY <1>1, <1>3, <1>4
<1> HIDE DEF ip, now, seen, new, mine, q
<1>7. \A e, d : Gap(e, d, acc.ip) => Gap(e, d, ip)
  <2>1. CASE acc.ip = ""
    BY <2>1 DEF Gap
  <2>2. CASE acc.ip = ip
    BY <2>2
  <2> QED
    BY <1>5, <2>1, <2>2
<1>8. \A d : Gap(WithIP(d, ip), d, ip)
  BY DEF Gap, WithIP
<1>9. DOMAIN new.pod = now /\ \A p \in now : Gap(new.pod[p], PodData(world[p]), ip)
  <2>1. DOMAIN new.pod = now
    BY <1>1, <1>2, <1>3 DEF :>, @@
  <2>2. new.pod[q] = WithIP(PodData(s), ip)
    BY <1>2 DEF :>, @@
  <2>3. \A p \in seen : p # q => new.pod[p] = acc.pod[p]
    BY <1>2, <1>3 DEF :>, @@
  <2>4. \A p \in seen : p # q => Gap(new.pod[p], PodData(world[p]), ip)
    BY <1>3, <1>7, <2>3
  <2>5. Gap(new.pod[q], PodData(world[q]), ip)
    BY <1>8, <2>2
  <2> QED
    BY <1>1, <2>1, <2>4, <2>5
<1>10. /\ DOMAIN new.container = UNION {{<<p, c>> : c \in Reported(world[p])} : p \in now}
       /\ \A id \in DOMAIN new.container :
            Gap(new.container[id], ContainerData(world[id[1]], id[2]), ip)
  <2>1. DOMAIN new.container = mine \cup DOMAIN acc.container
    BY <1>2 DEF @@
  <2>2. mine \cup DOMAIN acc.container = UNION {{<<p, c>> : c \in Reported(world[p])} : p \in now}
    <3> DEFINE Of(p) == {<<p, c>> : c \in Reported(world[p])}
    <3>1. mine = Of(q) /\ DOMAIN acc.container = UNION {Of(p) : p \in seen}
      BY <1>3 DEF mine
    <3> HIDE DEF Of
    <3>2. UNION {Of(p) : p \in now} = Of(q) \cup UNION {Of(p) : p \in seen}
      BY <1>1
    <3>3. mine \cup DOMAIN acc.container = UNION {Of(p) : p \in now}
      BY <3>1, <3>2
    <3> QED
      BY <3>3 DEF Of
  <2>3. ASSUME NEW id \in mine
        PROVE  Gap(new.container[id], ContainerData(world[id[1]], id[2]), ip)
    <3>1. new.container[id] = WithIP(ContainerData(s, id[2]), ip)
      BY <1>2, <2>3 DEF @@
    <3>2. id[1] = q
      <4>1. PICK c \in Reported(s) : id = <<q, c>>
        BY <2>3 DEF mine
      <4> QED
        BY <4>1
    <3> QED
      BY <1>8, <3>1, <3>2
  <2>4. ASSUME NEW id \in DOMAIN acc.container, id \notin mine
        PROVE  Gap(new.container[id], ContainerData(world[id[1]], id[2]), ip)
    <3>1. new.container[id] = acc.container[id]
      BY <1>2, <2>4 DEF @@
    <3> QED
      BY <1>3, <1>7, <3>1
  <2> QED
    BY <2>1, <2>2, <2>3, <2>4
<1> QED
  BY <1>2, <1>6, <1>9, <1>10 DEF Filled, now, new, q

\* The host IPs of the first n pods are the node's or not set.
HostIPs(items, n) == \A i \in 1..n : world[items[i]].hostIP \in {"", IP}

\* The whole loop.
LEMMA PodsFilled ==
  ASSUME NEW items, Len(items) \in Nat, HostIPs(items, Len(items))
  PROVE  Filled(items, PodsOf(items)[Len(items)], Len(items))
<1> DEFINE N == Len(items)
           T == {n \in 0..N : Filled(items, PodsOf(items)[n], n)}
<1>1. 0 \in T
  <2>1. PodsOf(items)[0] = [ip |-> "", pod |-> NoMap, container |-> NoMap]
    BY PodsRecursion
  <2>2. Filled(items, [ip |-> "", pod |-> NoMap, container |-> NoMap], 0)
    <3> DEFINE seen == {items[i] : i \in 1..0}
    <3>1. seen = {}
      OBVIOUS
    <3>2. DOMAIN NoMap = {}
      BY DEF NoMap
    <3>3. UNION {{<<p, c>> : c \in Reported(world[p])} : p \in {}} = {}
      OBVIOUS
    <3> QED
      BY <3>1, <3>2, <3>3 DEF Filled
  <2>3. Filled(items, PodsOf(items)[0], 0)
    BY <2>1, <2>2
  <2>4. 0 \in 0..N
    OBVIOUS
  <2> QED
    BY <2>3, <2>4
<1>2. ASSUME NEW n \in 0..N, n < N, n \in T PROVE n + 1 \in T
  <2>1. n + 1 \in 1..N /\ (n + 1) - 1 = n /\ n \in Nat
    BY <1>2
  <2>2. PodsOf(items)[n + 1] = AddPod(PodsOf(items)[n], items[n + 1])
    BY <2>1, PodsRecursion
  <2>3. world[items[n + 1]].hostIP \in {"", IP}
    BY <2>1 DEF HostIPs
  <2>4. Filled(items, PodsOf(items)[n + 1], n + 1)
    BY <1>2, <2>1, <2>2, <2>3, FilledStep
  <2> QED
    BY <2>1, <2>4
<1>3. \A n \in 0..N : n \in T
  <2> HIDE DEF T
  <2> QED
    BY <1>1, <1>2, UpTo
<1> QED
  BY <1>3

WorldTyped(w) == w \in [PodNames -> Shapes \cup {Gone}]

\* fillGaps: what is reported does not depend on the order of the list.
LEMMA FillGapsIs ==
  ASSUME WorldTyped(world), NEW n \in Nat, NEW items \in [1..n -> PodNames], Range(items) = On(world)
  PROVE  FillGaps(items) = [pod |-> [p \in On(world) |-> PodBase(world, p)],
                            container |-> [id \in Ids(world) |-> ContainerBase(world, id)]]
<1> DEFINE acc == PodsOf(items)[Len(items)]
<1>1. Len(items) = n /\ {items[i] : i \in 1..n} = On(world)
  BY DEF Range
<1>2. HostIPs(items, n)
  <2>1. \A p \in On(world) : world[p] \in Shapes
    BY DEF WorldTyped, On
  <2>2. \A p \in On(world) : world[p].hostIP \in {"", IP}
    BY <2>1, ShapeAssumption
  <2>3. \A i \in 1..n : items[i] \in On(world)
    BY <1>1
  <2> QED
    BY <2>2, <2>3 DEF HostIPs
<1>3. Filled(items, acc, n)
  BY <1>1, <1>2, PodsFilled
<1> HIDE DEF acc
<1>4. acc.ip = NodeIP(world)
  BY <1>1, <1>3 DEF Filled, NodeIP
<1>5. Backfill(acc.pod, acc.ip) = [p \in On(world) |-> PodBase(world, p)]
  <2>1. DOMAIN acc.pod = On(world) /\ \A p \in On(world) : Gap(acc.pod[p], PodData(world[p]), acc.ip)
    BY <1>1, <1>3 DEF Filled
  <2>2. \A p : "nodeIP" \notin DOMAIN PodData(world[p])
    BY DEF PodData, :>, @@
  <2>3. \A p \in On(world) : (IF "nodeIP" \in DOMAIN acc.pod[p] THEN acc.pod[p]
                              ELSE ("nodeIP" :> acc.ip) @@ acc.pod[p]) = PodBase(world, p)
    BY <1>4, <2>1, <2>2, GapFilled DEF PodBase
  <2> QED
    BY <2>1, <2>3 DEF Backfill
<1>6. Backfill(acc.container, acc.ip) = [id \in Ids(world) |-> ContainerBase(world, id)]
  <2>1. DOMAIN acc.container = Ids(world) /\ \A id \in Ids(world) :
            Gap(acc.container[id], ContainerData(world[id[1]], id[2]), acc.ip)
    BY <1>1, <1>3 DEF Filled, Ids
  <2>2. \A s, c : "nodeIP" \notin DOMAIN ContainerData(s, c)
    BY DEF ContainerData, :>, @@
  <2>3. \A id \in Ids(world) :
           (IF "nodeIP" \in DOMAIN acc.container[id] THEN acc.container[id]
            ELSE ("nodeIP" :> acc.ip) @@ acc.container[id]) = ContainerBase(world, id)
    BY <1>4, <2>1, <2>2, GapFilled DEF ContainerBase
  <2> QED
    BY <2>1, <2>3 DEF Backfill
<1> QED
  BY <1>5, <1>6 DEF FillGaps, acc

-----------------------------------------------------------------------------
(* The invariant *)

\* e has all that d has.
Keeps(e, d) == \A k \in DOMAIN d : k \in DOMAIN e /\ e[k] = d[k]

GroupTyped ==
    /\ reading \in {"pods", "cadvisor", "summary", "node", "done"} /\ WorldTyped(world)
    /\ reading # "pods" => WorldTyped(listed)
    /\ reading \in {"node", "done"} => WorldTyped(measured)
    /\ reading = "done" => conditions \in NodeConditions

\* The groups there are; the entries of pods and containers are those of the list
\* and keep what it said.
GroupsThere ==
    /\ reading = "pods" => groups = NoMap
    /\ reading \in {"cadvisor", "summary"} => DOMAIN groups = {"pod", "container"}
    /\ reading \in {"node", "done"} => DOMAIN groups = {"pod", "container", "volume", "node"}

OfListing ==
    reading # "pods" =>
      /\ DOMAIN groups.pod = On(listed) /\ DOMAIN groups.container = Ids(listed)
      /\ \A p \in On(listed) : Keeps(groups.pod[p], PodBase(listed, p))
      /\ \A id \in Ids(listed) : Keeps(groups.container[id], ContainerBase(listed, id))

\* What the list did not say comes from the answer that was read since, if any.
Identified ==
    /\ reading = "cadvisor" => \A id \in Ids(listed) : "containerID" \notin DOMAIN groups.container[id]
    /\ reading \in {"summary", "node", "done"} =>
         \A id \in Ids(listed) : "containerID" \in DOMAIN groups.container[id] <=> id \in identified

Measured ==
    /\ reading \in {"cadvisor", "summary"} =>
         /\ \A p \in On(listed) : "usage" \notin DOMAIN groups.pod[p]
         /\ \A id \in Ids(listed) : "usage" \notin DOMAIN groups.container[id]
    /\ reading \in {"node", "done"} =>
         /\ \A p \in On(listed) : "usage" \in DOMAIN groups.pod[p] <=> measured[p] # Gone
         /\ \A id \in Ids(listed) : "usage" \in DOMAIN groups.container[id] =>
              measured[id[1]] # Gone /\ groups.container[id]["usage"] = measured[id[1]].inst
         /\ DOMAIN groups.volume = On(measured)

\* The node's group adds up what was listed.
RequestsOf(w) == [id \in Ids(w) |-> Requested(w[id[1]].containers[id[2]])]
RunningIn(w) == {p \in On(w) : w[p].phase = "Running" \/ IsFakePending(w[p])}

NodeCounted ==
    /\ reading = "node" => groups.node = "node" :> ("usage" :> 0)
    /\ reading = "done" =>
         /\ groups.node["node"]["cpuRequestedCores"] = Sum(RequestsOf(listed))
         /\ groups.node["node"]["runningPods"] = Cardinality(RunningIn(listed))
         /\ groups.node["node"]["conditions"] = ConditionsOf(conditions)[Len(conditions)]

GroupInv == GroupTyped /\ GroupsThere /\ OfListing /\ Identified /\ Measured /\ NodeCounted

\* Joined maps keep the first one's entries.
LEMMA Joined ==
  ASSUME NEW e, NEW x
  PROVE  /\ DOMAIN (e @@ x) = DOMAIN e \cup DOMAIN x
         /\ \A k \in DOMAIN e : (e @@ x)[k] = e[k]
         /\ \A k \in DOMAIN x : k \notin DOMAIN e => (e @@ x)[k] = x[k]
BY DEF @@

\* What a map keeps is kept when more is joined to it.
LEMMA JoinKeeps ==
  ASSUME NEW e, NEW d, NEW x, Keeps(e, d)
  PROVE  Keeps(e @@ x, d)
<1> SUFFICES ASSUME NEW k \in DOMAIN d PROVE k \in DOMAIN (e @@ x) /\ (e @@ x)[k] = d[k]
  BY DEF Keeps
<1>1. k \in DOMAIN e /\ e[k] = d[k]
  BY DEF Keeps
<1> QED
  BY <1>1 DEF @@

\* What the list says of a pod.
LEMMA PodBaseIs ==
  ASSUME NEW w, NEW p
  PROVE  /\ DOMAIN PodBase(w, p) = {"nodeIP", "createdAt", "status"}
         /\ PodBase(w, p)["nodeIP"] = NodeIP(w)
         /\ PodBase(w, p)["createdAt"] = w[p].inst
         /\ PodBase(w, p)["status"] = IF IsFakePending(w[p]) THEN "Running" ELSE w[p].phase
BY DEF PodBase, PodData, :>, @@

\* The same of a container.
LEMMA ContainerBaseIs ==
  ASSUME NEW w, NEW id
  PROVE  /\ DOMAIN ContainerBase(w, id) = {"nodeIP", "containerImage", "cpuRequestedCores"}
         /\ ContainerBase(w, id)["nodeIP"] = NodeIP(w)
         /\ ContainerBase(w, id)["containerImage"] = w[id[1]].inst
         /\ ContainerBase(w, id)["cpuRequestedCores"] = Requested(w[id[1]].containers[id[2]])
BY DEF ContainerBase, ContainerData, :>, @@

\* One lemma for each read.
LEMMA InvInit == ASSUME GroupInit PROVE GroupInv
BY DEF GroupInit, GroupInv, GroupTyped, GroupsThere, OfListing, Identified, Measured, NodeCounted, WorldTyped

\* The list of pods.
LEMMA PodsStep ==
  ASSUME GroupInv, NEW n \in Nat, NEW items \in [1..n -> PodNames], FetchPods(items)
  PROVE  GroupInv'
<1>1. /\ reading = "pods" /\ reading' = "cadvisor" /\ world' = world /\ listed' = world
      /\ Range(items) = On(world) /\ groups' = Merge(groups, FillGaps(items))
  BY DEF FetchPods
<1>2. WorldTyped(world) /\ groups = NoMap
  BY <1>1 DEF GroupInv, GroupTyped, GroupsThere
<1> DEFINE F == [pod |-> [p \in On(world) |-> PodBase(world, p)],
                 container |-> [id \in Ids(world) |-> ContainerBase(world, id)]]
<1>3. FillGaps(items) = F
  BY <1>1, <1>2, FillGapsIs
<1>4. DOMAIN groups = {}
  BY <1>2 DEF NoMap
<1>5. DOMAIN F = {"pod", "container"}
  OBVIOUS
<1>6. DOMAIN groups' = {"pod", "container"} /\ groups'["pod"] = F["pod"] /\ groups'["container"] = F["container"]
  <2> HIDE DEF F
  <2> DEFINE M == Merge(groups, F)
  <2>1. /\ DOMAIN M = DOMAIN groups \cup DOMAIN F
        /\ \A l \in DOMAIN F : l \notin DOMAIN groups => M[l] = F[l]
    BY DEF Merge
  <2>2. groups' = M
    BY <1>1, <1>3
  <2> HIDE DEF M
  <2>3. \A l \in {"pod", "container"} : M[l] = F[l]
    BY <1>4, <1>5, <2>1
  <2> QED
    BY <1>4, <1>5, <2>1, <2>2, <2>3
<1>7. /\ DOMAIN groups'.pod = On(listed') /\ \A p \in On(listed') : groups'.pod[p] = PodBase(listed', p)
      /\ DOMAIN groups'.container = Ids(listed')
      /\ \A id \in Ids(listed') : groups'.container[id] = ContainerBase(listed', id)
  BY <1>1, <1>6
<1>8. GroupTyped' /\ GroupsThere' /\ NodeCounted'
  BY <1>1, <1>2, <1>6 DEF GroupTyped, GroupsThere, NodeCounted
<1>9. OfListing'
  BY <1>1, <1>7 DEF OfListing, Keeps
<1>10. Identified' /\ Measured'
  <2>1. \A p : "usage" \notin DOMAIN PodBase(world, p)
    BY DEF PodBase, PodData, :>, @@
  <2>2. \A id : "usage" \notin DOMAIN ContainerBase(world, id) /\ "containerID" \notin DOMAIN ContainerBase(world, id)
    BY ContainerBaseIs
  <2> QED
    BY <1>1, <1>7, <2>1, <2>2 DEF Identified, Measured
<1> QED
  BY <1>8, <1>9, <1>10 DEF GroupInv

\* The answer of cAdvisor adds IDs to containers that were listed.
LEMMA CadvisorStep ==
  ASSUME GroupInv, NEW ids, FetchCadvisor(ids)
  PROVE  GroupInv'
<1>1. /\ reading = "cadvisor" /\ reading' = "summary" /\ world' = world /\ listed' = listed
      /\ groups' = Merge(groups, CadvisorGroups(ids)) /\ identified' = ids \cap DOMAIN groups.container
  BY DEF FetchCadvisor
<1>2. /\ DOMAIN groups = {"pod", "container"}
      /\ DOMAIN groups.pod = On(listed) /\ DOMAIN groups.container = Ids(listed)
      /\ \A p \in On(listed) : Keeps(groups.pod[p], PodBase(listed, p))
      /\ \A id \in Ids(listed) : Keeps(groups.container[id], ContainerBase(listed, id))
  BY <1>1 DEF GroupInv, GroupsThere, OfListing
<1>3. /\ \A id \in Ids(listed) : "containerID" \notin DOMAIN groups.container[id]
      /\ \A p \in On(listed) : "usage" \notin DOMAIN groups.pod[p]
      /\ \A id \in Ids(listed) : "usage" \notin DOMAIN groups.container[id]
  BY <1>1 DEF GroupInv, Identified, Measured
<1> DEFINE F == CadvisorGroups(ids)
<1>4. DOMAIN F = {"container"} /\ DOMAIN F["container"] = ids
      /\ \A id \in ids : DOMAIN F["container"][id] = {"containerID"}
  BY DEF CadvisorGroups, :>
<1> HIDE DEF F
<1>5. /\ DOMAIN groups' = {"pod", "container"} /\ groups'.pod = groups.pod
      /\ groups'.container = [id \in Ids(listed) |->
           IF id \in ids THEN groups.container[id] @@ F["container"][id] ELSE groups.container[id]]
  <2> DEFINE M == Merge(groups, F)
  <2>1. /\ DOMAIN M = DOMAIN groups \cup DOMAIN F
        /\ \A l \in DOMAIN groups : l \notin DOMAIN F => M[l] = groups[l]
        /\ \A l \in DOMAIN groups : l \in DOMAIN F =>
             M[l] = [id \in DOMAIN groups[l] |->
                       IF id \in DOMAIN F[l] THEN groups[l][id] @@ F[l][id] ELSE groups[l][id]]
    BY DEF Merge
  <2>2. groups' = M
    BY <1>1 DEF F
  <2> HIDE DEF M
  <2>3. DOMAIN M = {"pod", "container"} /\ M["pod"] = groups["pod"]
    BY <1>2, <1>4, <2>1
  <2>4. M["container"] = [id \in Ids(listed) |->
           IF id \in ids THEN groups.container[id] @@ F["container"][id] ELSE groups.container[id]]
    BY <1>2, <1>4, <2>1
  <2> QED
    BY <2>2, <2>3, <2>4
<1>6. \A id \in Ids(listed) :
        /\ Keeps(groups'.container[id], ContainerBase(listed, id))
        /\ "containerID" \in DOMAIN groups'.container[id] <=> id \in ids
        /\ "usage" \notin DOMAIN groups'.container[id]
  <2> TAKE id \in Ids(listed)
  <2>1. CASE id \in ids
    <3> DEFINE e == groups.container[id]
               x == F["container"][id]
    <3>1. groups'.container[id] = e @@ x
      BY <1>5, <2>1
    <3>2. DOMAIN x = {"containerID"} /\ Keeps(e, ContainerBase(listed, id)) /\ "usage" \notin DOMAIN e
      BY <1>2, <1>3, <1>4, <2>1
    <3> HIDE DEF e, x
    <3>3. DOMAIN (e @@ x) = DOMAIN e \cup {"containerID"} /\ Keeps(e @@ x, ContainerBase(listed, id))
      BY <3>2, Joined, JoinKeeps
    <3> QED
      BY <2>1, <3>1, <3>2, <3>3
  <2>2. CASE id \notin ids
    BY <1>2, <1>3, <1>5, <2>2
  <2> QED
    BY <2>1, <2>2
<1>7. GroupTyped' /\ GroupsThere' /\ NodeCounted'
  BY <1>1, <1>5 DEF GroupInv, GroupTyped, GroupsThere, NodeCounted
<1>8. OfListing' /\ Measured'
  BY <1>1, <1>2, <1>3, <1>5, <1>6 DEF OfListing, Measured
<1>9. Identified'
  BY <1>1, <1>2, <1>6 DEF Identified
<1> QED
  BY <1>7, <1>8, <1>9 DEF GroupInv

\* The summary adds usage to pods and containers that were listed.
LEMMA SummaryStep ==
  ASSUME GroupInv, NEW ps \in SUBSET On(world), FetchSummary(ps)
  PROVE  GroupInv'
<1>1. /\ reading = "summary" /\ reading' = "node" /\ world' = world /\ listed' = listed /\ identified' = identified
      /\ groups' = Merge(groups, StatsSummary(ps))
      /\ measured' = [p \in PodNames |-> IF p \in ps THEN world[p] ELSE Gone]
  BY DEF FetchSummary
<1>2. /\ DOMAIN groups = {"pod", "container"}
      /\ DOMAIN groups.pod = On(listed) /\ DOMAIN groups.container = Ids(listed)
      /\ \A p \in On(listed) : Keeps(groups.pod[p], PodBase(listed, p))
      /\ \A id \in Ids(listed) : Keeps(groups.container[id], ContainerBase(listed, id))
  BY <1>1 DEF GroupInv, GroupsThere, OfListing
<1>3. /\ \A id \in Ids(listed) : "containerID" \in DOMAIN groups.container[id] <=> id \in identified
      /\ \A p \in On(listed) : "usage" \notin DOMAIN groups.pod[p]
      /\ \A id \in Ids(listed) : "usage" \notin DOMAIN groups.container[id]
  BY <1>1 DEF GroupInv, Identified, Measured
<1> DEFINE F == StatsSummary(ps)
           run == {k \in RunningContainers : k[1] \in ps}
<1>4. /\ DOMAIN F = {"pod", "container", "volume", "node"}
      /\ F["pod"] = [p \in ps |-> "usage" :> world[p].inst]
      /\ F["container"] = [id \in run |-> "usage" :> world[id[1]].inst]
      /\ F["volume"] = [p \in ps |-> "usage" :> world[p].inst]
      /\ F["node"] = "node" :> ("usage" :> 0)
  BY DEF StatsSummary
<1> HIDE DEF F, run
<1>5. /\ DOMAIN groups' = {"pod", "container", "volume", "node"}
      /\ groups'.pod = [p \in On(listed) |->
           IF p \in ps THEN groups.pod[p] @@ F["pod"][p] ELSE groups.pod[p]]
      /\ groups'.container = [id \in Ids(listed) |->
           IF id \in run THEN groups.container[id] @@ F["container"][id] ELSE groups.container[id]]
      /\ groups'.volume = F["volume"] /\ groups'.node = F["node"]
  <2> DEFINE M == Merge(groups, F)
  <2>1. /\ DOMAIN M = DOMAIN groups \cup DOMAIN F
        /\ \A l \in DOMAIN F : l \notin DOMAIN groups => M[l] = F[l]
        /\ \A l \in DOMAIN groups : l \in DOMAIN F =>
             M[l] = [id \in DOMAIN groups[l] |->
                       IF id \in DOMAIN F[l] THEN groups[l][id] @@ F[l][id] ELSE groups[l][id]]
    BY DEF Merge
  <2>2. groups' = M
    BY <1>1 DEF F
  <2> HIDE DEF M
  <2>3. DOMAIN F["pod"] = ps /\ DOMAIN F["container"] = run
    BY <1>4
  <2>4. DOMAIN M = {"pod", "container", "volume", "node"} /\ M["volume"] = F["volume"] /\ M["node"] = F["node"]
    BY <1>2, <1>4, <2>1
  <2>5. M["pod"] = [p \in On(listed) |->
           IF p \in ps THEN groups.pod[p] @@ F["pod"][p] ELSE groups.pod[p]]
    BY <1>2, <1>4, <2>1, <2>3
  <2>6. M["container"] = [id \in Ids(listed) |->
           IF id \in run THEN groups.container[id] @@ F["container"][id] ELSE groups.container[id]]
    BY <1>2, <1>4, <2>1, <2>3
  <2> QED
    BY <2>2, <2>4, <2>5, <2>6
<1>6. WorldTyped(world) /\ WorldTyped(listed) /\ Gone \notin Shapes
  BY <1>1, ShapeAssumption DEF GroupInv, GroupTyped
<1>7. /\ WorldTyped(measured') /\ On(measured') = ps
      /\ \A p \in PodNames : measured'[p] # Gone <=> p \in ps
      /\ \A p \in ps : measured'[p] = world[p]
  <2>1. \A p \in ps : p \in PodNames /\ world[p] # Gone
    BY DEF On
  <2> QED
    BY <1>1, <1>6, <2>1 DEF WorldTyped, On
<1>8. \A p \in On(listed) :
        /\ Keeps(groups'.pod[p], PodBase(listed, p))
        /\ "usage" \in DOMAIN groups'.pod[p] <=> measured'[p] # Gone
  <2> TAKE p \in On(listed)
  <2>1. p \in PodNames
    BY DEF On
  <2>2. CASE p \in ps
    <3> DEFINE e == groups.pod[p]
               x == F["pod"][p]
    <3>1. groups'.pod[p] = e @@ x
      BY <1>5, <2>2
    <3>2. DOMAIN x = {"usage"} /\ Keeps(e, PodBase(listed, p))
      BY <1>2, <1>4, <2>2 DEF :>
    <3> HIDE DEF e, x
    <3>3. DOMAIN (e @@ x) = DOMAIN e \cup {"usage"} /\ Keeps(e @@ x, PodBase(listed, p))
      BY <3>2, Joined, JoinKeeps
    <3> QED
      BY <1>7, <2>1, <2>2, <3>1, <3>3
  <2>3. CASE p \notin ps
    BY <1>2, <1>3, <1>5, <1>7, <2>1, <2>3
  <2> QED
    BY <2>2, <2>3
<1>9. \A id \in Ids(listed) :
        /\ Keeps(groups'.container[id], ContainerBase(listed, id))
        /\ "containerID" \in DOMAIN groups'.container[id] <=> id \in identified
        /\ "usage" \in DOMAIN groups'.container[id] =>
             measured'[id[1]] # Gone /\ groups'.container[id]["usage"] = measured'[id[1]].inst
  <2> TAKE id \in Ids(listed)
  <2>1. CASE id \in run
    <3> DEFINE e == groups.container[id]
               x == F["container"][id]
    <3>1. groups'.container[id] = e @@ x
      BY <1>5, <2>1
    <3>2. /\ DOMAIN x = {"usage"} /\ x["usage"] = world[id[1]].inst
          /\ Keeps(e, ContainerBase(listed, id)) /\ "usage" \notin DOMAIN e
          /\ "containerID" \in DOMAIN e <=> id \in identified
      BY <1>2, <1>3, <1>4, <2>1 DEF :>
    <3>3. id[1] \in ps /\ id[1] \in PodNames
      BY <2>1 DEF run, On
    <3> HIDE DEF e, x
    <3>4. DOMAIN (e @@ x) = DOMAIN e \cup {"usage"} /\ (e @@ x)["usage"] = x["usage"]
      BY <3>2 DEF @@
    <3>5. Keeps(e @@ x, ContainerBase(listed, id))
      BY <3>2, JoinKeeps
    <3> QED
      BY <1>7, <3>1, <3>2, <3>3, <3>4, <3>5
  <2>2. CASE id \notin run
    BY <1>2, <1>3, <1>5, <2>2
  <2> QED
    BY <2>1, <2>2
<1>10. DOMAIN groups'.volume = ps
  BY <1>4, <1>5
<1>11. GroupTyped' /\ GroupsThere' /\ NodeCounted'
  BY <1>1, <1>4, <1>5, <1>6, <1>7 DEF GroupTyped, GroupsThere, NodeCounted
<1>12. OfListing' /\ Identified'
  BY <1>1, <1>5, <1>8, <1>9 DEF OfListing, Identified
<1>13. Measured'
  BY <1>1, <1>7, <1>8, <1>9, <1>10 DEF Measured
<1> QED
  BY <1>11, <1>12, <1>13 DEF GroupInv

\* The node's group counts what the groups have, which is what was listed.
LEMMA NodeStep ==
  ASSUME GroupInv, NEW cs \in NodeConditions, FetchNode(cs)
  PROVE  GroupInv'
<1>1. /\ reading = "node" /\ reading' = "done" /\ groups' = Merge(groups, NodeGroup(cs)) /\ conditions' = cs
      /\ world' = world /\ listed' = listed /\ identified' = identified /\ measured' = measured
  BY DEF FetchNode
<1>2. /\ DOMAIN groups = {"pod", "container", "volume", "node"}
      /\ DOMAIN groups.pod = On(listed) /\ DOMAIN groups.container = Ids(listed)
      /\ \A p \in On(listed) : Keeps(groups.pod[p], PodBase(listed, p))
      /\ \A id \in Ids(listed) : Keeps(groups.container[id], ContainerBase(listed, id))
      /\ groups.node = "node" :> ("usage" :> 0)
  BY <1>1 DEF GroupInv, GroupsThere, OfListing, NodeCounted
<1> DEFINE F == NodeGroup(cs)
           cpu == [id \in {i \in DOMAIN groups.container :
                             "cpuRequestedCores" \in DOMAIN groups.container[i]} |->
                     groups.container[id]["cpuRequestedCores"]]
           X == ("cpuRequestedCores" :> Sum(cpu)) @@ ("conditions" :> ConditionsOf(cs)[Len(cs)])
                  @@ ("runningPods" :> CountRunningPods)
<1>3. F = [node |-> "node" :> X]
  BY DEF NodeGroup
<1>4. cpu = RequestsOf(listed)
  <2>1. \A id \in Ids(listed) : /\ "cpuRequestedCores" \in DOMAIN groups.container[id]
                                /\ groups.container[id]["cpuRequestedCores"] = Requested(listed[id[1]].containers[id[2]])
    BY <1>2, ContainerBaseIs DEF Keeps
  <2> QED
    BY <1>2, <2>1 DEF RequestsOf
<1>5. CountRunningPods = Cardinality(RunningIn(listed))
  <2>1. \A p \in On(listed) : /\ "status" \in DOMAIN groups.pod[p]
                              /\ groups.pod[p]["status"] = "Running"
                                   <=> listed[p].phase = "Running" \/ IsFakePending(listed[p])
    <3> TAKE p \in On(listed)
    <3> DEFINE b == PodBase(listed, p)
    <3>1. "status" \in DOMAIN b /\ b["status"] = IF IsFakePending(listed[p]) THEN "Running" ELSE listed[p].phase
      BY PodBaseIs
    <3> HIDE DEF b
    <3>2. Keeps(groups.pod[p], b)
      BY <1>2 DEF b
    <3>3. "status" \in DOMAIN groups.pod[p] /\ groups.pod[p]["status"] = b["status"]
      BY <3>1, <3>2 DEF Keeps
    <3> QED
      BY <3>1, <3>3
  <2>2. {p \in DOMAIN groups.pod : "status" \in DOMAIN groups.pod[p] /\ groups.pod[p]["status"] = "Running"}
          = RunningIn(listed)
    BY <1>2, <2>1 DEF RunningIn
  <2> QED
    BY <2>2 DEF CountRunningPods
<1>6. /\ DOMAIN X = {"cpuRequestedCores", "conditions", "runningPods"}
      /\ X["cpuRequestedCores"] = Sum(cpu) /\ X["conditions"] = ConditionsOf(cs)[Len(cs)]
      /\ X["runningPods"] = CountRunningPods
  <2> HIDE DEF cpu
  <2> QED
    BY DEF :>, @@
<1> HIDE DEF X, cpu
<1>7. DOMAIN F = {"node"} /\ DOMAIN F["node"] = {"node"} /\ F["node"]["node"] = X
  BY <1>3 DEF :>
<1>8. DOMAIN groups["node"] = {"node"} /\ DOMAIN groups["node"]["node"] = {"usage"}
  BY <1>2 DEF :>
<1> HIDE DEF F
<1>9. /\ DOMAIN groups' = {"pod", "container", "volume", "node"}
      /\ groups'.pod = groups.pod /\ groups'.container = groups.container /\ groups'.volume = groups.volume
      /\ groups'.node["node"] = groups["node"]["node"] @@ X
  <2> DEFINE M == Merge(groups, F)
  <2>1. /\ DOMAIN M = DOMAIN groups \cup DOMAIN F
        /\ \A l \in DOMAIN groups : l \notin DOMAIN F => M[l] = groups[l]
        /\ \A l \in DOMAIN groups : l \in DOMAIN F =>
             M[l] = [id \in DOMAIN groups[l] |->
                       IF id \in DOMAIN F[l] THEN groups[l][id] @@ F[l][id] ELSE groups[l][id]]
    BY DEF Merge
  <2>2. groups' = M
    BY <1>1 DEF F
  <2> HIDE DEF M
  <2>3. DOMAIN M = {"pod", "container", "volume", "node"}
    BY <1>2, <1>7, <2>1
  <2>4. \A l \in {"pod", "container", "volume"} : M[l] = groups[l]
    BY <1>2, <1>7, <2>1
  <2>5. M["node"]["node"] = groups["node"]["node"] @@ X
    BY <1>2, <1>7, <1>8, <2>1
  <2> QED
    BY <2>2, <2>3, <2>4, <2>5
<1>10. /\ groups'.node["node"]["cpuRequestedCores"] = Sum(RequestsOf(listed'))
       /\ groups'.node["node"]["runningPods"] = Cardinality(RunningIn(listed'))
       /\ groups'.node["node"]["conditions"] = ConditionsOf(conditions')[Len(conditions')]
  <2> DEFINE e == groups["node"]["node"]
  <2>1. DOMAIN e = {"usage"}
    BY <1>8
  <2> HIDE DEF e
  <2>2. \A k \in {"cpuRequestedCores", "conditions", "runningPods"} : (e @@ X)[k] = X[k]
    BY <1>6, <2>1 DEF @@
  <2>3. groups'.node["node"] = e @@ X
    BY <1>9 DEF e
  <2> QED
    BY <1>1, <1>4, <1>5, <1>6, <2>2, <2>3
<1>11. GroupTyped' /\ GroupsThere' /\ NodeCounted'
  BY <1>1, <1>9, <1>10 DEF GroupInv, GroupTyped, GroupsThere, NodeCounted
<1>12. OfListing' /\ Identified' /\ Measured'
  BY <1>1, <1>9 DEF GroupInv, OfListing, Identified, Measured
<1> QED
  BY <1>11, <1>12 DEF GroupInv

\* A scrape that ends leaves nothing; a change of the node touches no group.
LEMMA OtherSteps ==
  ASSUME GroupInv,
         \/ FetchFails \/ NextScrape \/ UNCHANGED groupVars
         \/ \E p \in PodNames, s \in Shapes \cup {Gone} : PodChanges(p, s)
  PROVE  GroupInv'
<1> USE DEF GroupTyped, GroupsThere, OfListing, Identified, Measured, NodeCounted, WorldTyped
<1>1. CASE FetchFails \/ NextScrape
  BY <1>1 DEF GroupInv, FetchFails, NextScrape, NoGroups
<1>2. CASE UNCHANGED groupVars
  BY <1>2 DEF GroupInv, groupVars
<1>3. CASE \E p \in PodNames, s \in Shapes \cup {Gone} : PodChanges(p, s)
  BY <1>3 DEF GroupInv, PodChanges
<1> QED
  BY <1>1, <1>2, <1>3

\* Every step keeps the invariant.
LEMMA InvNext == ASSUME GroupInv, [GroupNext]_groupVars PROVE GroupInv'
<1>0. \A n \in 0..Cardinality(PodNames) : n \in Nat
  <2>1. Cardinality(PodNames) \in Nat
    BY FS_CardinalityType, ShapeAssumption
  <2> QED
    BY <2>1
<1>1. ASSUME NEW n \in 0..Cardinality(PodNames), NEW items \in [1..n -> PodNames], FetchPods(items) PROVE GroupInv'
  <2>1. n \in Nat
    BY <1>0
  <2> QED
    BY <1>1, <2>1, PodsStep
<1>2. ASSUME NEW ids \in SUBSET RunningContainers, FetchCadvisor(ids) PROVE GroupInv'
  BY <1>2, CadvisorStep
<1>3. ASSUME NEW ps \in SUBSET On(world), FetchSummary(ps) PROVE GroupInv'
  BY <1>3, SummaryStep
<1>4. ASSUME NEW cs \in NodeConditions, FetchNode(cs) PROVE GroupInv'
  BY <1>4, NodeStep
<1> QED
  BY <1>1, <1>2, <1>3, <1>4, OtherSteps DEF GroupNext

\* GroupInv holds throughout Group: after each read, the entries of pods and
\* containers are those of the pods listed, keep what the list said, and have of
\* the other answers what those said of them by the same name.
THEOREM GroupInvariant == GroupSpec => []GroupInv
<1>1. GroupInit => GroupInv
  BY InvInit
<1>2. GroupInv /\ [GroupNext]_groupVars => GroupInv'
  BY InvNext
<1> QED
  BY <1>1, <1>2, PTL DEF GroupSpec

-----------------------------------------------------------------------------
(* The properties *)

\* What Group returns of pods and containers is about the ones that were listed,
\* with the node's IP, for any number of pods and any changes between the reads
\* (JoinedOnListing).
THEOREM GroupsOfListing == GroupSpec => []JoinedOnListing
<1>1. GroupInv => JoinedOnListing
  <2> SUFFICES ASSUME GroupInv, reading = "done" PROVE JoinedOnListing
    BY DEF JoinedOnListing
  <2>1. /\ DOMAIN groups.pod = On(listed) /\ DOMAIN groups.container = Ids(listed)
        /\ \A p \in On(listed) : Keeps(groups.pod[p], PodBase(listed, p))
        /\ \A id \in Ids(listed) : Keeps(groups.container[id], ContainerBase(listed, id))
    BY DEF GroupInv, OfListing
  <2>2. \A p \in On(listed) : /\ groups.pod[p]["createdAt"] = listed[p].inst
                              /\ groups.pod[p]["nodeIP"] = NodeIP(listed)
    <3> TAKE p \in On(listed)
    <3> DEFINE b == PodBase(listed, p)
    <3>1. /\ "createdAt" \in DOMAIN b /\ b["createdAt"] = listed[p].inst
          /\ "nodeIP" \in DOMAIN b /\ b["nodeIP"] = NodeIP(listed)
      BY DEF PodBase, PodData, :>, @@
    <3> HIDE DEF b
    <3>2. Keeps(groups.pod[p], b)
      BY <2>1 DEF b
    <3> QED
      BY <3>1, <3>2 DEF Keeps
  <2>3. \A id \in Ids(listed) : /\ groups.container[id]["containerImage"] = listed[id[1]].inst
                                /\ groups.container[id]["nodeIP"] = NodeIP(listed)
    <3> TAKE id \in Ids(listed)
    <3> DEFINE b == ContainerBase(listed, id)
    <3>1. /\ "containerImage" \in DOMAIN b /\ b["containerImage"] = listed[id[1]].inst
          /\ "nodeIP" \in DOMAIN b /\ b["nodeIP"] = NodeIP(listed)
      BY DEF ContainerBase, ContainerData, :>, @@
    <3> HIDE DEF b
    <3>2. Keeps(groups.container[id], b)
      BY <2>1 DEF b
    <3> QED
      BY <3>1, <3>2 DEF Keeps
  <2>4. /\ \A p \in On(listed) : "usage" \in DOMAIN groups.pod[p] <=> measured[p] # Gone
        /\ \A id \in Ids(listed) : "usage" \in DOMAIN groups.container[id] =>
              measured[id[1]] # Gone /\ groups.container[id]["usage"] = measured[id[1]].inst
        /\ DOMAIN groups.volume = On(measured)
        /\ \A id \in Ids(listed) : "containerID" \in DOMAIN groups.container[id] <=> id \in identified
    BY DEF GroupInv, Measured, Identified
  <2> QED
    BY <2>1, <2>2, <2>3, <2>4 DEF JoinedOnListing, Ids, NodeIP
<1> QED
  BY <1>1, GroupInvariant, PTL

\* A condition is reported as true or false only if all entries of its type with
\* a known status agree, for lists of any length (ConditionsAgree).
THEOREM GroupConditions == GroupSpec => []ConditionsAgree
<1>1. GroupInv => ConditionsAgree
  <2> SUFFICES ASSUME GroupInv, reading = "done" PROVE ConditionsAgree
    BY DEF ConditionsAgree
  <2> DEFINE map == groups.node["node"]["conditions"]
             N == Len(conditions)
             SaidAll(t) == {ConditionValue[c[2]] : c \in {d \in Range(conditions) :
                                                      d[1] = t /\ d[2] \in DOMAIN ConditionValue}}
  <2>1. conditions \in Seq(STRING \X STRING) /\ map = ConditionsOf(conditions)[N]
    BY ShapeAssumption DEF GroupInv, GroupTyped, NodeCounted
  <2>2. N \in Nat /\ DOMAIN conditions = 1..N
    BY <2>1
  <2>3. Mapped(map, conditions, N)
    BY <2>1, <2>2, ConditionsMapped
  <2>4. \A t : SaidAll(t) = Said(conditions, N, t)
    BY <2>2 DEF Said, Known, Range
  <2>5. ASSUME NEW t
        PROVE  IF SaidAll(t) = {} THEN t \notin DOMAIN map
               ELSE map[t] = IF Cardinality(SaidAll(t)) = 1 THEN CHOOSE v \in SaidAll(t) : TRUE ELSE -1
    <3> DEFINE said == SaidAll(t)
    <3>1. IF said = {} THEN t \notin DOMAIN map ELSE Agreed(said, map[t])
      BY <2>3, <2>4 DEF Mapped
    <3> HIDE DEF said, map
    <3>2. CASE said = {map[t]}
      <4>1. Cardinality(said) = 1 /\ map[t] = CHOOSE v \in said : TRUE
        BY <3>2, FS_Singleton
      <4> QED
        BY <3>2, <4>1 DEF said
    <3>3. CASE said # {} /\ map[t] = -1 /\ \A x : said # {x}
      <4>1. IsFiniteSet(said)
        <5>1. said \subseteq (-1)..1
          BY DEF said, ConditionValue
        <5>2. IsFiniteSet((-1)..1)
          <6>1. \A a, b \in Int : IsFiniteSet(a..b)
            BY FS_Interval
          <6>2. -1 \in Int /\ 1 \in Int
            OBVIOUS
          <6> QED
            BY <6>1, <6>2, Zenon
        <5> QED
          BY <5>1, <5>2, FS_Subset
      <4>2. Cardinality(said) # 1
        BY <3>3, <4>1, FS_Singleton
      <4> QED
        BY <3>3, <4>2 DEF said
    <3>4. CASE said = {}
      BY <3>1, <3>4 DEF said
    <3> QED
      BY <3>1, <3>2, <3>3, <3>4 DEF Agreed
  <2> HIDE DEF map
  <2> QED
    BY <2>5 DEF ConditionsAgree, map
<1> QED
  BY <1>1, GroupInvariant, PTL

\* What the containers of a pod ask for or were given, those of init containers
\* counting nothing.
Asked(s) == [c \in DOMAIN s.containers |->
                LET k == s.containers[c]
                IN IF k.kind = "init" THEN 0 ELSE IF k.actual # NoStatus THEN k.actual ELSE k.spec]

\* A listed pod's containers, and what each counts.
LEMMA ShapeIs ==
  ASSUME NEW w, WorldTyped(w), NEW p \in On(w)
  PROVE  /\ p \in PodNames /\ IsFiniteSet(DOMAIN w[p].containers)
         /\ Asked(w[p]) \in [DOMAIN w[p].containers -> Int]
         /\ \A c \in DOMAIN w[p].containers :
              /\ Requested(w[p].containers[c]) \in Int
              /\ Asked(w[p])[c] = IF c \in Reported(w[p]) THEN Requested(w[p].containers[c]) ELSE 0
<1>1. p \in PodNames /\ w[p] \in Shapes
  BY DEF On, WorldTyped
<1> DEFINE s == w[p]
<1>2. IsFiniteSet(DOMAIN s.containers) /\ \A c \in DOMAIN s.containers :
        s.containers[c] \in [kind : {"main", "sidecar", "init"}, spec : Nat, actual : Nat \cup {NoStatus}]
  BY <1>1, ShapeAssumption
<1> HIDE DEF s
<1>3. ASSUME NEW c \in DOMAIN s.containers
      PROVE  /\ Requested(s.containers[c]) \in Int
             /\ Asked(s)[c] \in Int
             /\ Asked(s)[c] = IF c \in Reported(s) THEN Requested(s.containers[c]) ELSE 0
  <2> DEFINE k == s.containers[c]
  <2>1. k.kind \in {"main", "sidecar", "init"} /\ k.spec \in Int /\ k.actual \in Int
    BY <1>2 DEF NoStatus
  <2>2. Asked(s)[c] = IF k.kind = "init" THEN 0 ELSE IF k.actual # NoStatus THEN k.actual ELSE k.spec
    BY DEF Asked
  <2>3. c \in Reported(s) <=> k.kind \in {"main", "sidecar"}
    BY DEF Reported
  <2> HIDE DEF k
  <2>4. Requested(k) = (IF k.actual = NoStatus THEN k.spec ELSE k.actual) /\ Requested(k) \in Int
    BY <2>1 DEF Requested
  <2> QED
    BY <2>1, <2>2, <2>3, <2>4 DEF k
<1>4. Asked(s) \in [DOMAIN s.containers -> Int]
  <2>1. DOMAIN Asked(s) = DOMAIN s.containers /\ Asked(s) = [c \in DOMAIN s.containers |-> Asked(s)[c]]
    BY DEF Asked
  <2> QED
    BY <1>3, <2>1
<1> QED
  BY <1>1, <1>2, <1>3, <1>4 DEF s

\* The image of a finite set is finite.
LEMMA ImageFinite ==
  ASSUME NEW S, IsFiniteSet(S), NEW f
  PROVE  IsFiniteSet({f[x] : x \in S})
<1> DEFINE g == [x \in S |-> f[x]]
           T == {f[x] : x \in S}
<1>1. g \in Surjection(S, T)
  BY DEF Surjection
<1> HIDE DEF g, T
<1>2. IsFiniteSet(T)
  BY <1>1, FS_Surjection
<1> QED
  BY <1>2 DEF T

\* The sum over the containers reported is the sum over the pods.
LEMMA RequestsAdd ==
  ASSUME NEW w, WorldTyped(w)
  PROVE  Sum(RequestsOf(w)) = Sum([p \in On(w) |-> Sum(Asked(w[p]))])
<1> DEFINE P == On(w)
           K == Ids(w)
           C == [p \in P |-> DOMAIN w[p].containers]
           u == [p \in P |-> Asked(w[p])]
           V == [p \in P |-> Sums(Asked(w[p]))]
           v == [p \in P |-> Sum(Asked(w[p]))]
           req == RequestsOf(w)
<1>1. IsFiniteSet(P)
  BY FS_Subset, ShapeAssumption DEF On
<1>2. \A p \in P : /\ IsFiniteSet(C[p]) /\ u[p] \in [C[p] -> Int]
                   /\ Additive(V[p], C[p], u[p]) /\ v[p] = V[p][C[p]]
  <2> TAKE p \in P
  <2>1. IsFiniteSet(DOMAIN w[p].containers) /\ Asked(w[p]) \in [DOMAIN w[p].containers -> Int]
    BY ShapeIs
  <2>2. /\ Additive(Sums(Asked(w[p])), DOMAIN w[p].containers, Asked(w[p]))
        /\ Sum(Asked(w[p])) = Sums(Asked(w[p]))[DOMAIN w[p].containers]
    BY <2>1, SumsAdditive
  <2> QED
    BY <2>1, <2>2
<1>3. v \in [P -> Int]
  <2>1. \A p \in P : v[p] \in Int
    BY <1>2 DEF Additive
  <2> QED
    BY <2>1
<1>4. \A id \in K : id = <<id[1], id[2]>> /\ id[1] \in P /\ id[2] \in Reported(w[id[1]])
  BY DEF Ids
<1>5. \A p \in P : \A c : <<p, c>> \in K <=> c \in Reported(w[p])
  BY DEF Ids
<1>6. IsFiniteSet(K)
  <2> DEFINE Of(p) == {<<p, c>> : c \in Reported(w[p])}
  <2>1. ASSUME NEW p \in P PROVE IsFiniteSet(Of(p))
    <3>1. IsFiniteSet(Reported(w[p]))
      BY ShapeIs, FS_Subset DEF Reported
    <3> DEFINE f == [c \in Reported(w[p]) |-> <<p, c>>]
    <3>2. Of(p) = {f[c] : c \in Reported(w[p])}
      OBVIOUS
    <3> HIDE DEF f
    <3> QED
      BY <3>1, <3>2, ImageFinite
  <2> HIDE DEF Of
  <2>2. IsFiniteSet({Of(p) : p \in P})
    <3> DEFINE f == [p \in P |-> Of(p)]
    <3>1. {Of(p) : p \in P} = {f[p] : p \in P}
      OBVIOUS
    <3> HIDE DEF f
    <3> QED
      BY <1>1, <3>1, ImageFinite
  <2>3. IsFiniteSet(UNION {Of(p) : p \in P})
    BY <2>1, <2>2, FS_UNION
  <2> QED
    BY <2>3 DEF Of, Ids
<1>7. req \in [K -> Int] /\ \A id \in K : req[id] = Requested(w[id[1]].containers[id[2]])
  <2>1. ASSUME NEW id \in K PROVE Requested(w[id[1]].containers[id[2]]) \in Int
    BY <1>4, ShapeIs DEF Reported
  <2> QED
    BY <2>1 DEF RequestsOf
<1>8. \A p \in P : \A c \in C[p] : u[p][c] = IF <<p, c>> \in K THEN req[<<p, c>>] ELSE 0
  <2> TAKE p \in P
  <2> TAKE c \in C[p]
  <2>1. Asked(w[p])[c] = IF c \in Reported(w[p]) THEN Requested(w[p].containers[c]) ELSE 0
    BY ShapeIs
  <2>2. <<p, c>> \in K => req[<<p, c>>] = Requested(w[p].containers[c])
    BY <1>7
  <2> QED
    BY <1>5, <2>1, <2>2
<1>9. Additive(Sums(req), K, req) /\ Sum(req) = Sums(req)[K]
  BY <1>6, <1>7, SumsAdditive
<1>10. Additive(Sums(v), P, v) /\ Sum(v) = Sums(v)[P]
  BY <1>1, <1>3, SumsAdditive
<1>11. \A id \in K : id[2] \in C[id[1]]
  BY <1>4 DEF Reported
<1> HIDE DEF P, K, C, u, V, v, req
<1>12. PartsOf(P, C, K, req, Sums(req), u, V, v, Sums(v))
  BY <1>1, <1>2, <1>4, <1>8, <1>9, <1>10, <1>11 DEF PartsOf
<1>13. Sums(req)[K] = Sums(v)[P]
  BY <1>12, SumOfPairs
<1> QED
  BY <1>9, <1>10, <1>13 DEF req, v, P

\* The node's requested cores and running pods are those of the pods listed,
\* summed over the pods, for any number of pods and containers
\* (NodeTotalsOfListing).
THEOREM GroupTotals == GroupSpec => []NodeTotalsOfListing
<1>1. GroupInv => NodeTotalsOfListing
  <2> SUFFICES ASSUME GroupInv, reading = "done" PROVE NodeTotalsOfListing
    BY DEF NodeTotalsOfListing
  <2>1. WorldTyped(listed)
    BY DEF GroupInv, GroupTyped
  <2>2. /\ groups.node["node"]["cpuRequestedCores"] = Sum(RequestsOf(listed))
        /\ groups.node["node"]["runningPods"] = Cardinality(RunningIn(listed))
    BY DEF GroupInv, NodeCounted
  <2>3. groups.node["node"]["cpuRequestedCores"] = Sum([p \in On(listed) |-> Sum(Asked(listed[p]))])
    BY <2>1, <2>2, RequestsAdd
  <2> QED
    BY <2>2, <2>3 DEF NodeTotalsOfListing, Asked, RunningIn
<1> QED
  BY <1>1, GroupInvariant, PTL
=============================================================================
