----------------------------- MODULE NumberFacts -----------------------------
(***************************************************************************)
(* Facts that the proofs about the calendar, the accounting and the        *)
(* configuration share: the least number of a set, which stands for        *)
(* induction, quotients and remainders, and folds.                         *)
(***************************************************************************)
EXTENDS Integers, FiniteSetsExt, WellFoundedInduction, TLAPS

\* Every set of natural numbers with a member has a least one: a statement that
\* fails for some number fails for a first one, and a search ahead ends.
LEMMA LeastNat ==
    ASSUME NEW T \in SUBSET Nat, T # {}
    PROVE  \E n \in T : \A m \in T : n <= m
  <1> DEFINE R == OpToRel(<, Nat)
  <1>1. IsWellFoundedOn(R, Nat)
    BY NatLessThanWellFounded
  <1>2. PICK n \in T : \A m \in T : ~(<<m, n>> \in R)
    <2> HIDE DEF R
    <2> QED BY <1>1, WFMin
  <1>3. \A m \in T : ~(m < n)
    BY <1>2 DEF OpToRel
  <1> QED
    BY <1>3

\* Quotient and remainder of the division by a positive number.
LEMMA DivMod ==
    ASSUME NEW n \in Int, NEW d \in Nat \ {0}
    PROVE  /\ n \div d \in Int /\ n % d \in 0..(d - 1)
           /\ n = d * (n \div d) + (n % d)
  OBVIOUS

\* Multiples of a positive number are at least that number apart.
LEMMA TimesMore ==
    ASSUME NEW d \in Nat \ {0}, NEW a \in Int, NEW b \in Int, a < b
    PROVE  d * a + d <= d * b
  OBVIOUS

\* Quotient and remainder are the only numbers that make up the dividend.
LEMMA DivModUnique ==
    ASSUME NEW d \in Nat \ {0}, NEW q \in Int, NEW r \in 0..(d - 1)
    PROVE  (d * q + r) \div d = q /\ (d * q + r) % d = r
  <1> DEFINE n == d * q + r
  <1>1. n \in Int
    OBVIOUS
  <1>2. n \div d \in Int /\ n % d \in 0..(d - 1) /\ n = d * (n \div d) + (n % d)
    BY <1>1, DivMod
  <1>3. ~(n \div d < q)
    BY <1>1, <1>2, TimesMore
  <1>4. ~(q < n \div d)
    BY <1>1, <1>2, TimesMore
  <1> QED
    BY <1>1, <1>2, <1>3, <1>4

\* Multiples keep and reflect the order.
LEMMA TimesOrder ==
    ASSUME NEW d \in Nat \ {0}, NEW a \in Int, NEW b \in Int
    PROVE  /\ d * a \in Int
           /\ a <= b <=> d * a <= d * b
           /\ a < b <=> d * a < d * b
  <1>1. d * a \in Int /\ d * b \in Int
    OBVIOUS
  <1>2. a < b => d * a + d <= d * b
    BY TimesMore
  <1>3. b < a => d * b + d <= d * a
    BY TimesMore
  <1>4. a = b => d * a = d * b
    OBVIOUS
  <1> QED
    BY <1>1, <1>2, <1>3, <1>4

-----------------------------------------------------------------------------
(* Folds.  FoldLeft goes down the sets of indices from their greatest      *)
(* member; the facts below lead from there to the steps of the fold.       *)

\* The function a fold over the terms 1 to n computes, on the sets of their indices.
IsFold(g, n, step, base, terms) ==
    g = [s \in SUBSET (1..n) |-> IF s = {} THEN base
                                 ELSE step[<<g[s \ {Max(s)}], terms[Max(s)]>>]]

\* The greatest of the first n numbers is the last.
LEMMA MaxOfInterval ==
    ASSUME NEW n \in Nat \ {0}, NEW s \in SUBSET (1..n), n \in s
    PROVE  Max(s) = n
  <1>1. \E x \in s : \A y \in s : x >= y
    <2>1. \A x \in s : n >= x
      OBVIOUS
    <2> QED
      BY <2>1
  <1>2. Max(s) \in s /\ \A y \in s : Max(s) >= y
    BY <1>1, Zenon DEF Max
  <1>3. \A m \in s : (\A y \in s : m >= y) => m = n
    OBVIOUS
  <1> QED
    BY <1>2, <1>3, Zenon

\* A set of some of the first n numbers has a greatest member.
LEMMA MaxIsMember ==
    ASSUME NEW n \in Nat, NEW s \in SUBSET (1..n), s # {}
    PROVE  Max(s) \in s /\ \A y \in s : y <= Max(s)
  <1> DEFINE below == {n - x : x \in s}
  <1>1. below \in SUBSET Nat /\ below # {}
    <2>1. \A x \in s : n - x \in Nat
      OBVIOUS
    <2> QED
      BY <2>1
  <1>2. PICK d \in below : \A e \in below : d <= e
    <2> HIDE DEF below
    <2> QED
      BY <1>1, LeastNat
  <1>3. PICK x \in s : d = n - x
    BY <1>2
  <1>4. \A y \in s : n - y \in below
    OBVIOUS
  <1>5. \A y \in s : x >= y
    <2> TAKE y \in s
    <2>1. d <= n - y
      BY <1>2, <1>4
    <2> QED
      BY <1>3, <2>1
  <1>6. Max(s) \in s /\ \A y \in s : Max(s) >= y
    BY <1>3, <1>5, Zenon DEF Max
  <1> QED
    BY <1>6

\* A fold over one more term extends a fold.
LEMMA FoldExtends ==
    ASSUME NEW X, NEW Y, NEW step \in [X \X Y -> X], NEW base \in X,
           NEW n \in Nat \ {0}, NEW terms, \A k \in 1..n : terms[k] \in Y,
           NEW g \in [SUBSET (1..(n - 1)) -> X], IsFold(g, n - 1, step, base, terms)
    PROVE  \E h \in [SUBSET (1..n) -> X] : IsFold(h, n, step, base, terms)
  <1> DEFINE h == [s \in SUBSET (1..n) |->
                      IF n \in s THEN step[<<g[s \ {n}], terms[n]>>] ELSE g[s]]
  <1>0. ASSUME NEW s \in SUBSET (1..n)
        PROVE  s \ {n} \in SUBSET (1..(n - 1)) /\ (n \notin s => s \in SUBSET (1..(n - 1)))
    <2>1. \A x \in s \ {n} : x \in Int /\ 1 <= x /\ x <= n /\ x # n
      OBVIOUS
    <2>2. \A x \in s \ {n} : x \in 1..(n - 1)
      BY <2>1
    <2>3. n \notin s => s = s \ {n}
      OBVIOUS
    <2> QED
      BY <2>2, <2>3
  <1>1. ASSUME NEW s \in SUBSET (1..n)
        PROVE  h[s] = IF s = {} THEN base ELSE step[<<h[s \ {Max(s)}], terms[Max(s)]>>]
    <2>1. CASE s = {}
      <3>1. g[{}] = base
        BY DEF IsFold
      <3> QED
        BY <2>1, <3>1
    <2>2. CASE n \in s
      <3>1. Max(s) = n
        BY <2>2, MaxOfInterval
      <3>2. s \ {n} \in SUBSET (1..n) /\ n \notin s \ {n}
        OBVIOUS
      <3>3. h[s \ {n}] = g[s \ {n}] /\ h[s] = step[<<g[s \ {n}], terms[n]>>]
        BY <2>2, <3>2
      <3> HIDE DEF h
      <3> QED
        BY <2>2, <3>1, <3>3
    <2>3. CASE n \notin s /\ s # {}
      <3>1. s \in SUBSET (1..(n - 1)) /\ s \ {Max(s)} \in SUBSET (1..(n - 1))
        BY <1>0, <2>3
      <3>2. g[s] = step[<<g[s \ {Max(s)}], terms[Max(s)]>>]
        BY <2>3, <3>1 DEF IsFold
      <3>3. n \notin s \ {Max(s)} /\ s \ {Max(s)} \in SUBSET (1..n)
        BY <2>3
      <3>4. h[s] = g[s] /\ h[s \ {Max(s)}] = g[s \ {Max(s)}]
        BY <2>3, <3>3
      <3> HIDE DEF h
      <3> QED
        BY <2>3, <3>2, <3>4
    <2> QED
      BY <2>1, <2>2, <2>3
  <1>2. IsFold(h, n, step, base, terms)
    <2> DEFINE k == [s \in SUBSET (1..n) |->
                        IF s = {} THEN base ELSE step[<<h[s \ {Max(s)}], terms[Max(s)]>>]]
    <2>1. h = k
      <3>1. \A s \in SUBSET (1..n) : h[s] = k[s]
        BY <1>1
      <3>2. h = [s \in SUBSET (1..n) |-> h[s]] /\ k = [s \in SUBSET (1..n) |-> k[s]]
        OBVIOUS
      <3> HIDE DEF h, k
      <3> QED
        BY <3>1, <3>2
    <2> HIDE DEF h
    <2> QED
      BY <2>1 DEF IsFold
  <1>3. h \in [SUBSET (1..n) -> X]
    <2>1. ASSUME NEW s \in SUBSET (1..n)
          PROVE  (IF n \in s THEN step[<<g[s \ {n}], terms[n]>>] ELSE g[s]) \in X
      <3>1. CASE n \in s
        <4>1. g[s \ {n}] \in X /\ terms[n] \in Y
          BY <1>0
        <4> QED
          BY <3>1, <4>1
      <3>2. CASE n \notin s
        BY <1>0, <3>2
      <3> QED
        BY <3>1, <3>2
    <2> QED
      BY <2>1
  <1> HIDE DEF h
  <1> QED
    BY <1>2, <1>3

\* A fold exists for any number of terms.
LEMMA FoldExists ==
    ASSUME NEW X, NEW Y, NEW step \in [X \X Y -> X], NEW base \in X,
           NEW n \in Nat, NEW terms, \A k \in 1..n : terms[k] \in Y
    PROVE  \E g \in [SUBSET (1..n) -> X] : IsFold(g, n, step, base, terms)
  <1> DEFINE P(k) == \E g \in [SUBSET (1..k) -> X] : IsFold(g, k, step, base, terms)
             bad == {k \in Nat : k <= n /\ ~P(k)}
  <1>1. P(0)
    <2> DEFINE g == [s \in SUBSET (1..0) |-> base]
    <2>1. g = [s \in SUBSET (1..0) |-> IF s = {} THEN base
                                       ELSE step[<<g[s \ {Max(s)}], terms[Max(s)]>>]]
      <3>1. \A s \in SUBSET (1..0) : s = {}
        OBVIOUS
      <3> QED
        BY <3>1
    <2>2. g \in [SUBSET (1..0) -> X]
      OBVIOUS
    <2> HIDE DEF g
    <2>3. IsFold(g, 0, step, base, terms)
      BY <2>1 DEF IsFold
    <2> QED
      BY <2>2, <2>3
  <1>2. ASSUME bad # {} PROVE FALSE
    <2> HIDE DEF P
    <2>1. PICK k \in bad : \A m \in bad : k <= m
      BY <1>2, LeastNat
    <2>2. /\ k \in Nat \ {0} /\ k - 1 \in Nat /\ k <= n /\ k - 1 \notin bad
          /\ 1..k \subseteq 1..n
      BY <1>1, <2>1
    <2>3. P(k - 1)
      BY <2>2
    <2>4. PICK g \in [SUBSET (1..(k - 1)) -> X] : IsFold(g, k - 1, step, base, terms)
      BY <2>3 DEF P
    <2>5. \A i \in 1..k : terms[i] \in Y
      BY <2>2
    <2>6. P(k)
      BY <2>2, <2>4, <2>5, FoldExtends DEF P
    <2> QED
      BY <2>1, <2>6
  <1>3. n \notin bad
    <2> HIDE DEF bad
    <2> QED
      BY <1>2
  <1> HIDE DEF P
  <1>4. P(n)
    BY <1>3
  <1> QED
    BY <1>4 DEF P

=============================================================================
