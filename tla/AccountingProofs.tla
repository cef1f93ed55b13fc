--------------------------- MODULE AccountingProofs ---------------------------
(***************************************************************************)
(* Theorems about the figures of the dashboard, for days, months and       *)
(* tables of any size: the figures are what was used and spent, the tables *)
(* stay bounded, and pruning them is invisible.                            *)
(***************************************************************************)
EXTENDS Accounting, NumberFacts, FiniteSetTheorems, SequenceTheorems

-----------------------------------------------------------------------------
(* Totals.  A total is the last of the partial sums, which follow one from *)
(* the other; the facts below are about partial sums.                      *)

PartialSums(f, n, terms) ==
    f[0] = 0 /\ \A i \in 1..n : f[i] = f[i - 1] + terms[i]

\* A total has its partial sums, and they are whole numbers.
LEMMA TotalHasSums ==
    ASSUME NEW n \in Nat, NEW terms \in [1..n -> Int]
    PROVE  \E f \in [0..n -> Int] : PartialSums(f, n, terms) /\ Total(terms) = f[n]
  <1> DEFINE IsTotal(h) == h = [s \in SUBSET (1..n) |->
                                  IF s = {} THEN 0 ELSE h[s \ {Max(s)}] + terms[Max(s)]]
             g == CHOOSE h : IsTotal(h)
             f == [k \in 0..n |-> g[1..k]]
  <1>1. IsTotal(g)
    <2> DEFINE step == [x \in Int \X Int |-> x[1] + x[2]]
    <2>1. PICK h \in [SUBSET (1..n) -> Int] : IsFold(h, n, step, 0, terms)
      <3>1. step \in [Int \X Int -> Int] /\ \A k \in 1..n : terms[k] \in Int
        OBVIOUS
      <3>2. ASSUME NEW X, NEW base, NEW fold, fold \in [X \X X -> X], base \in X,
                   \A k \in 1..n : terms[k] \in X
            PROVE  \E h \in [SUBSET (1..n) -> X] : IsFold(h, n, fold, base, terms)
        BY <3>2, FoldExists
      <3>3. 0 \in Int
        OBVIOUS
      <3> HIDE DEF step
      <3> QED
        BY <3>1, <3>2, <3>3, Zenon
    <2>2. ASSUME NEW s \in SUBSET (1..n), s # {}
          PROVE  step[<<h[s \ {Max(s)}], terms[Max(s)]>>] = h[s \ {Max(s)}] + terms[Max(s)]
      <3>1. Max(s) \in 1..n
        BY <2>2, MaxIsMember
      <3> QED
        BY <3>1
    <2> HIDE DEF step
    <2>3. IsTotal(h)
      BY <2>1, <2>2, Zenon DEF IsFold
    <2> QED
      BY <2>3, Zenon
  <1>2. Total(terms) = g[1..n]
    <2>1. DOMAIN terms = 1..n
      OBVIOUS
    <2>2. Total(terms) = LET h[s \in SUBSET (DOMAIN terms)] ==
                               IF s = {} THEN 0 ELSE h[s \ {Max(s)}] + terms[Max(s)]
                         IN  h[DOMAIN terms]
      BY DEF Total, FoldLeft, MapThenFoldSet
    <2> QED
      BY <2>1, <2>2
  <1> HIDE DEF g
  <1>3. g[{}] = 0
    BY <1>1
  <1>4. ASSUME NEW k \in 1..n PROVE g[1..k] = g[1..(k - 1)] + terms[k]
    <2>1. (1..k) \in SUBSET (1..n) /\ 1..k # {} /\ k \in 1..k /\ k \in Nat \ {0}
      OBVIOUS
    <2>2. Max(1..k) = k
      BY <2>1, MaxOfInterval
    <2>3. (1..k) \ {k} = 1..(k - 1)
      OBVIOUS
    <2> QED
      BY <1>1, <2>1, <2>2, <2>3
  <1> HIDE DEF IsTotal
  <1>5. \A k \in 0..n : g[1..k] \in Int
    <2> DEFINE bad == {k \in Nat : k <= n /\ g[1..k] \notin Int}
    <2>1. 0 \notin bad
      <3>1. 1..0 = {}
        OBVIOUS
      <3> QED
        BY <1>3, <3>1
    <2>2. ASSUME bad # {} PROVE FALSE
      <3>1. PICK k \in bad : \A m \in bad : k <= m
        BY <2>2, LeastNat
      <3>2. k \in 1..n /\ k - 1 \in Nat /\ k - 1 <= n /\ k - 1 \notin bad
        BY <2>1, <3>1
      <3>3. g[1..(k - 1)] \in Int /\ terms[k] \in Int
        BY <3>2
      <3>4. g[1..k] \notin Int
        BY <3>1
      <3> QED
        BY <1>4, <3>2, <3>3, <3>4
    <2> QED
      BY <2>2
  <1>6. f \in [0..n -> Int]
    BY <1>5
  <1>7. PartialSums(f, n, terms)
    <2>1. f[0] = 0
      <3>1. 1..0 = {}
        OBVIOUS
      <3> QED
        BY <1>3, <3>1
    <2>2. \A i \in 1..n : f[i] = g[1..i] /\ f[i - 1] = g[1..(i - 1)]
      OBVIOUS
    <2> HIDE DEF f
    <2> QED
      BY <1>4, <2>1, <2>2 DEF PartialSums
  <1>8. f[n] = Total(terms)
    BY <1>2
  <1> HIDE DEF f
  <1> QED
    BY <1>6, <1>7, <1>8

\* Partial sums are unique: whatever follows the terms step by step ends in the
\* total.
LEMMA TotalIs ==
    ASSUME NEW n \in Nat, NEW terms \in [1..n -> Int],
           NEW f \in [0..n -> Int], PartialSums(f, n, terms)
    PROVE  Total(terms) = f[n]
  <1>1. PICK e \in [0..n -> Int] : PartialSums(e, n, terms) /\ Total(terms) = e[n]
    BY TotalHasSums
  <1> DEFINE bad == {k \in Nat : k <= n /\ e[k] # f[k]}
  <1>2. ASSUME bad # {} PROVE FALSE
    <2>1. PICK k \in bad : \A m \in bad : k <= m
      BY <1>2, LeastNat
    <2>2. k # 0
      BY <1>1, <2>1 DEF PartialSums
    <2>3. k \in 1..n /\ k - 1 \in Nat /\ k - 1 <= n /\ k - 1 \notin bad
      BY <2>1, <2>2
    <2>4. e[k - 1] = f[k - 1]
      BY <2>3
    <2>5. e[k] = e[k - 1] + terms[k] /\ f[k] = f[k - 1] + terms[k]
      BY <1>1, <2>3 DEF PartialSums
    <2> QED
      BY <2>1, <2>4, <2>5
  <1>3. n \notin bad
    <2> HIDE DEF bad
    <2> QED
      BY <1>2
  <1>4. n <= n
    OBVIOUS
  <1>5. e[n] = f[n]
    BY <1>3, <1>4
  <1> QED
    BY <1>1, <1>5

\* Greater terms have a greater total.
LEMMA TotalAtMost ==
    ASSUME NEW n \in Nat, NEW terms \in [1..n -> Int], NEW others \in [1..n -> Int],
           \A i \in 1..n : terms[i] <= others[i]
    PROVE  Total(terms) <= Total(others)
  <1>1. PICK e \in [0..n -> Int] : PartialSums(e, n, terms) /\ Total(terms) = e[n]
    BY TotalHasSums
  <1>2. PICK f \in [0..n -> Int] : PartialSums(f, n, others) /\ Total(others) = f[n]
    BY TotalHasSums
  <1> DEFINE d == [i \in 0..n |-> f[i] - e[i]]
             bad == {k \in 0..n : d[k] < 0}
  <1>3. /\ d \in [0..n -> Int] /\ d[0] = 0 /\ d[n] = f[n] - e[n]
        /\ \A i \in 1..n : d[i] = d[i - 1] + (others[i] - terms[i])
    <2>1. \A i \in 0..n : d[i] = f[i] - e[i]
      OBVIOUS
    <2>2. ASSUME NEW i \in 1..n PROVE d[i] = d[i - 1] + (others[i] - terms[i])
      <3>1. i \in 0..n /\ i - 1 \in 0..n
        OBVIOUS
      <3>2. e[i] = e[i - 1] + terms[i] /\ f[i] = f[i - 1] + others[i]
        BY <1>1, <1>2 DEF PartialSums
      <3>3. /\ e[i] \in Int /\ f[i] \in Int /\ e[i - 1] \in Int /\ f[i - 1] \in Int
            /\ terms[i] \in Int /\ others[i] \in Int
        BY <3>1
      <3> HIDE DEF d
      <3> QED
        BY <2>1, <3>1, <3>2, <3>3
    <2>3. f[0] = 0 /\ e[0] = 0 /\ 0 \in 0..n /\ n \in 0..n
      BY <1>1, <1>2 DEF PartialSums
    <2>4. d \in [0..n -> Int]
      OBVIOUS
    <2> HIDE DEF d
    <2> QED
      BY <2>1, <2>2, <2>3, <2>4
  <1> HIDE DEF d
  <1>4. ASSUME bad # {} PROVE FALSE
    <2>0. bad \in SUBSET Nat
      OBVIOUS
    <2>1. PICK k \in bad : \A m \in bad : k <= m
      <3> HIDE DEF bad
      <3> QED
        BY <1>4, <2>0, LeastNat
    <2>2. k \in 1..n /\ k - 1 \in 0..n /\ d[k] < 0
      BY <1>3, <2>1
    <2>3. ~(d[k - 1] < 0)
      <3>1. k - 1 \notin bad
        BY <2>1, <2>2
      <3> QED
        BY <2>2, <3>1
    <2>4. d[k] = d[k - 1] + (others[k] - terms[k]) /\ terms[k] <= others[k]
      BY <1>3, <2>2
    <2>5. d[k - 1] \in Int /\ terms[k] \in Int /\ others[k] \in Int
      BY <1>3, <2>2
    <2> QED
      BY <2>2, <2>3, <2>4, <2>5
  <1>5. ~(d[n] < 0)
    <2>1. bad = {}
      BY <1>4
    <2>2. n \in 0..n
      OBVIOUS
    <2> QED
      BY <2>1, <2>2
  <1>6. e[n] \in Int /\ f[n] \in Int
    OBVIOUS
  <1> QED
    BY <1>1, <1>2, <1>3, <1>5, <1>6

\* Terms that are the steps of a quantity from some place on add up to its change.
LEMMA TotalTelescopes ==
    ASSUME NEW n \in Nat, NEW terms \in [1..n -> Int], NEW v \in [0..n -> Int],
           NEW k \in 0..n,
           \A i \in 1..n : terms[i] = IF i <= k THEN 0 ELSE v[i] - v[i - 1]
    PROVE  Total(terms) = v[n] - v[k]
  <1> DEFINE f == [i \in 0..n |-> IF i <= k THEN 0 ELSE v[i] - v[k]]
  <1>1. f \in [0..n -> Int] /\ f[0] = 0 /\ f[n] = v[n] - v[k]
    OBVIOUS
  <1>2. ASSUME NEW i \in 1..n PROVE f[i] = f[i - 1] + terms[i]
    <2>1. i \in 0..n /\ i - 1 \in 0..n
      OBVIOUS
    <2>2. /\ f[i] = IF i <= k THEN 0 ELSE v[i] - v[k]
          /\ f[i - 1] = IF i - 1 <= k THEN 0 ELSE v[i - 1] - v[k]
      BY <2>1
    <2>3. v[i] \in Int /\ v[i - 1] \in Int /\ v[k] \in Int
      BY <2>1
    <2>4. CASE i <= k
      BY <2>2, <2>4
    <2>5. CASE i = k + 1
      BY <2>2, <2>3, <2>5
    <2>6. CASE i > k + 1
      BY <2>2, <2>3, <2>6
    <2> QED
      BY <2>4, <2>5, <2>6
  <1> HIDE DEF f
  <1>3. PartialSums(f, n, terms)
    BY <1>1, <1>2 DEF PartialSums
  <1> QED
    BY <1>1, <1>3, TotalIs

\* Terms that are not negative have a total that is not.
LEMMA TotalNat ==
    ASSUME NEW n \in Nat, NEW terms \in [1..n -> Nat]
    PROVE  Total(terms) \in Nat
  <1> DEFINE zero == [i \in 1..n |-> 0]
             v == [i \in 0..n |-> 0]
  <1>1. Total(zero) = 0
    <2>1. zero \in [1..n -> Int] /\ v \in [0..n -> Int] /\ n \in 0..n
      OBVIOUS
    <2>2. v[n] = 0 /\ \A i \in 1..n : zero[i] = IF i <= n THEN 0 ELSE v[i] - v[i - 1]
      OBVIOUS
    <2> HIDE DEF zero, v
    <2>3. Total(zero) = v[n] - v[n]
      BY <2>1, <2>2, TotalTelescopes
    <2> QED
      BY <2>2, <2>3
  <1>2. zero \in [1..n -> Int] /\ terms \in [1..n -> Int] /\ \A i \in 1..n : zero[i] <= terms[i]
    OBVIOUS
  <1> HIDE DEF zero
  <1>3. Total(terms) \in Int
    BY <1>2, TotalHasSums
  <1>4. Total(zero) <= Total(terms)
    BY <1>2, TotalAtMost
  <1> QED
    BY <1>1, <1>3, <1>4

\* Terms that are zero up to some place do not count.
LEMMA TotalOfRest ==
    ASSUME NEW n \in Nat, NEW terms \in [1..n -> Int], NEW d \in 0..n,
           \A i \in 1..d : terms[i] = 0
    PROVE  Total(terms) = Total([i \in 1..(n - d) |-> terms[i + d]])
  <1> DEFINE rest == [i \in 1..(n - d) |-> terms[i + d]]
  <1>1. n - d \in Nat /\ rest \in [1..(n - d) -> Int]
    <2>1. \A i \in 1..(n - d) : i + d \in 1..n
      OBVIOUS
    <2> QED
      BY <2>1
  <1>2. \A i \in 1..(n - d) : rest[i] = terms[i + d]
    OBVIOUS
  <1> HIDE DEF rest
  <1>3. PICK e \in [0..(n - d) -> Int] : PartialSums(e, n - d, rest) /\ Total(rest) = e[n - d]
    BY <1>1, TotalHasSums
  <1> DEFINE f == [i \in 0..n |-> IF i <= d THEN 0 ELSE e[i - d]]
  <1>4. \A i \in 0..n : f[i] = IF i <= d THEN 0 ELSE e[i - d]
    OBVIOUS
  <1>5. f \in [0..n -> Int]
    <2>1. \A i \in 0..n : ~(i <= d) => i - d \in 0..(n - d)
      OBVIOUS
    <2> QED
      BY <2>1
  <1> HIDE DEF f
  <1>6. e[0] = 0 /\ \A i \in 1..(n - d) : e[i] = e[i - 1] + rest[i]
    BY <1>3 DEF PartialSums
  <1>7. ASSUME NEW i \in 1..n PROVE f[i] = f[i - 1] + terms[i]
    <2>1. i \in 0..n /\ i - 1 \in 0..n
      OBVIOUS
    <2>2. CASE i <= d
      <3>1. f[i] = 0 /\ f[i - 1] = 0 /\ terms[i] = 0
        BY <1>4, <2>1, <2>2
      <3> QED
        BY <3>1
    <2>3. CASE ~(i <= d)
      <3> DEFINE j == i - d
      <3>1. j \in 1..(n - d) /\ j - 1 \in 0..(n - d) /\ j + d = i /\ (i - 1) - d = j - 1
        BY <2>3
      <3>2. rest[j] = terms[i] /\ f[i] = e[j]
        BY <1>2, <1>4, <2>1, <2>3, <3>1
      <3>3. f[i - 1] = e[j - 1]
        <4>1. CASE j = 1
          <5>1. i - 1 <= d /\ e[j - 1] = 0
            BY <1>6, <3>1, <4>1
          <5> QED
            BY <1>4, <2>1, <5>1
        <4>2. CASE j # 1
          <5>1. ~(i - 1 <= d)
            BY <3>1, <4>2
          <5> QED
            BY <1>4, <2>1, <3>1, <5>1
        <4> QED
          BY <4>1, <4>2
      <3>4. e[j] = e[j - 1] + rest[j]
        BY <1>6, <3>1
      <3> HIDE DEF j
      <3> QED
        BY <3>2, <3>3, <3>4
    <2> QED
      BY <2>2, <2>3
  <1>8. f[0] = 0 /\ f[n] = e[n - d]
    <2>1. f[0] = 0
      BY <1>4
    <2>2. CASE n = d
      <3>1. f[n] = 0 /\ n - d = 0
        BY <1>4, <2>2
      <3> QED
        BY <1>6, <2>1, <3>1
    <2>3. CASE n # d
      BY <1>4, <2>1, <2>3
    <2> QED
      BY <2>2, <2>3
  <1>9. PartialSums(f, n, terms)
    BY <1>7, <1>8 DEF PartialSums
  <1> QED
    BY <1>3, <1>5, <1>8, <1>9, TotalIs DEF rest

-----------------------------------------------------------------------------
(* Tables ordered by time.                                                 *)

\* A table: rows of some kind with instants, in the order of their instants.
Dated(Row) == \A r \in Row : r.t \in Int
IsTable(rows, Row) == rows \in Seq(Row) /\ InOrder(rows)

\* The rows before an instant are the first ones of the table.
LEMMA OlderComeFirst ==
    ASSUME NEW Row, Dated(Row), NEW rows, IsTable(rows, Row), NEW t \in Int
    PROVE  /\ OlderThan(rows, t) \in 0..Len(rows)
           /\ \A i \in 1..Len(rows) : rows[i].t < t <=> i <= OlderThan(rows, t)
  <1> DEFINE n == Len(rows)
             late == {i \in 1..n : ~(rows[i].t < t)}
  <1>1. n \in Nat /\ DOMAIN rows = 1..n /\ \A i \in 1..n : rows[i].t \in Int
    <2>1. rows \in Seq(Row) /\ n \in Nat /\ DOMAIN rows = 1..n
      BY LenProperties DEF IsTable
    <2>2. \A i \in 1..n : rows[i] \in Row
      BY <2>1, ElementOfSeq
    <2> QED
      BY <2>1, <2>2 DEF Dated
  <1>2. \A i, j \in 1..n : i < j => rows[i].t <= rows[j].t
    BY <1>1 DEF IsTable, InOrder
  <1> HIDE DEF n
  <1>3. PICK k \in 0..n : \A i \in 1..n : rows[i].t < t <=> i <= k
    <2>1. CASE late = {}
      <3>1. \A i \in 1..n : rows[i].t < t
        BY <2>1
      <3>2. n \in 0..n /\ \A i \in 1..n : i <= n
        BY <1>1
      <3> QED
        BY <3>1, <3>2
    <2>2. CASE late # {}
      <3>1. late \in SUBSET Nat
        BY <1>1
      <3>2. PICK m \in late : \A i \in late : m <= i
        <4> HIDE DEF late
        <4> QED
          BY <2>2, <3>1, LeastNat
      <3>3. m \in 1..n /\ m - 1 \in 0..n /\ ~(rows[m].t < t)
        BY <1>1, <3>2
      <3>4. ASSUME NEW i \in 1..n PROVE rows[i].t < t <=> i <= m - 1
        <4>1. CASE i < m
          BY <1>1, <3>2, <3>3, <4>1
        <4>2. CASE i = m
          BY <3>3, <4>2
        <4>3. CASE i > m
          <5>1. rows[m].t <= rows[i].t /\ rows[m].t \in Int /\ rows[i].t \in Int
            BY <1>1, <1>2, <3>3, <4>3
          <5> QED
            BY <3>3, <4>3, <5>1
        <4> QED
          BY <3>3, <4>1, <4>2, <4>3
      <3> QED
        BY <3>3, <3>4
    <2> QED
      BY <2>1, <2>2
  <1>4. {i \in DOMAIN rows : rows[i].t < t} = 1..k
    BY <1>1, <1>3
  <1>5. Cardinality(1..k) = k
    BY <1>3, FS_Interval
  <1>6. OlderThan(rows, t) = k
    BY <1>4, <1>5 DEF OlderThan
  <1> QED
    BY <1>3, <1>6 DEF n

\* What is left of a table from an instant on.
LEMMA SinceIs ==
    ASSUME NEW Row, Dated(Row), NEW rows, IsTable(rows, Row), NEW t \in Int
    PROVE  LET k == OlderThan(rows, t)
           IN  /\ IsTable(Since(rows, t), Row)
               /\ Len(Since(rows, t)) = Len(rows) - k
               /\ \A i \in 1..(Len(rows) - k) :
                     Since(rows, t)[i] = rows[i + k] /\ rows[i + k].t >= t
  <1> DEFINE k == OlderThan(rows, t)
             kept == Since(rows, t)
             n == Len(rows)
  <1>1. n \in Nat /\ DOMAIN rows = 1..n /\ \A i \in 1..n : rows[i] \in Row /\ rows[i].t \in Int
    <2>1. rows \in Seq(Row) /\ n \in Nat /\ DOMAIN rows = 1..n
      BY LenProperties DEF IsTable
    <2>2. \A i \in 1..n : rows[i] \in Row
      BY <2>1, ElementOfSeq
    <2> QED
      BY <2>1, <2>2 DEF Dated
  <1>2. k \in 0..n /\ \A i \in 1..n : rows[i].t < t <=> i <= k
    BY OlderComeFirst
  <1>3. \A i, j \in 1..n : i < j => rows[i].t <= rows[j].t
    BY <1>1 DEF IsTable, InOrder
  <1>4. kept = SubSeq(rows, k + 1, n)
    BY DEF Since
  <1> HIDE DEF k, n, kept
  <1>5. /\ kept \in Seq(Row) /\ Len(kept) = n - k
        /\ \A i \in 1..(n - k) : kept[i] = rows[i + k]
    <2>1. k + 1 \in Int /\ n \in Int /\ \A i \in (k + 1)..n : rows[i] \in Row
      BY <1>1, <1>2
    <2>2. /\ SubSeq(rows, k + 1, n) \in Seq(Row)
          /\ Len(SubSeq(rows, k + 1, n)) = IF k + 1 <= n THEN n - (k + 1) + 1 ELSE 0
          /\ \A i \in 1..(n - (k + 1) + 1) :
                SubSeq(rows, k + 1, n)[i] = rows[(k + 1) + i - 1]
      BY <2>1, SubSeqProperties
    <2>3. n - (k + 1) + 1 = n - k
      BY <1>1, <1>2
    <2>4. \A i \in 1..(n - k) : (k + 1) + i - 1 = i + k
      BY <1>1, <1>2
    <2> QED
      BY <1>1, <1>2, <1>4, <2>2, <2>3, <2>4
  <1>6. DOMAIN kept = 1..(n - k)
    BY <1>5, LenProperties
  <1>7. \A i \in 1..(n - k) : i + k \in 1..n /\ ~(i + k <= k)
    BY <1>1, <1>2
  <1>8. InOrder(kept)
    <2> SUFFICES ASSUME NEW i \in 1..(n - k), NEW j \in 1..(n - k), i < j
                 PROVE  kept[i].t <= kept[j].t
      BY <1>6 DEF InOrder
    <2>1. i + k \in 1..n /\ j + k \in 1..n /\ i + k < j + k
      BY <1>1, <1>2
    <2> QED
      BY <1>3, <1>5, <2>1
  <1>9. \A i \in 1..(n - k) : rows[i + k].t >= t
    BY <1>1, <1>2, <1>7
  <1> QED
    BY <1>5, <1>8, <1>9 DEF IsTable, k, n, kept

\* No row of a table is later than an instant.
NoLater(rows, t) == \A i \in DOMAIN rows : rows[i].t <= t

\* A row that is no earlier than the others goes to the end of its table.
LEMMA TableGrows ==
    ASSUME NEW Row, Dated(Row), NEW rows, IsTable(rows, Row),
           NEW row \in Row, NoLater(rows, row.t)
    PROVE  /\ IsTable(Append(rows, row), Row)
           /\ NoLater(Append(rows, row), row.t)
           /\ Len(Append(rows, row)) = Len(rows) + 1
           /\ \A i \in 1..Len(rows) : Append(rows, row)[i] = rows[i]
           /\ Append(rows, row)[Len(rows) + 1] = row
  <1> DEFINE longer == Append(rows, row)
             n == Len(rows)
  <1>1. n \in Nat /\ DOMAIN rows = 1..n /\ \A i \in 1..n : rows[i] \in Row /\ rows[i].t \in Int
    <2>1. rows \in Seq(Row) /\ n \in Nat /\ DOMAIN rows = 1..n
      BY LenProperties DEF IsTable
    <2>2. \A i \in 1..n : rows[i] \in Row
      BY <2>1, ElementOfSeq
    <2> QED
      BY <2>1, <2>2 DEF Dated
  <1>2. /\ longer \in Seq(Row) /\ Len(longer) = n + 1
        /\ \A i \in 1..n : longer[i] = rows[i]
        /\ longer[n + 1] = row
    BY AppendProperties DEF IsTable
  <1>3. DOMAIN longer = 1..(n + 1)
    BY <1>2, LenProperties
  <1>4. /\ \A i, j \in 1..n : i < j => rows[i].t <= rows[j].t
        /\ \A i \in 1..n : rows[i].t <= row.t
        /\ row.t \in Int
    BY <1>1 DEF IsTable, InOrder, NoLater, Dated
  <1> HIDE DEF longer, n
  <1>5. InOrder(longer)
    <2> SUFFICES ASSUME NEW i \in 1..(n + 1), NEW j \in 1..(n + 1), i < j
                 PROVE  longer[i].t <= longer[j].t
      BY <1>3 DEF InOrder
    <2>1. i \in 1..n
      BY <1>1
    <2>2. CASE j \in 1..n
      BY <1>2, <1>4, <2>1, <2>2
    <2>3. CASE j = n + 1
      BY <1>2, <1>4, <2>1, <2>3
    <2> QED
      BY <1>1, <2>2, <2>3
  <1>6. ASSUME NEW i \in 1..(n + 1) PROVE longer[i].t <= row.t
    <2>1. CASE i \in 1..n
      BY <1>2, <1>4, <2>1
    <2>2. CASE i = n + 1
      BY <1>2, <1>4, <2>2
    <2> QED
      BY <1>1, <2>1, <2>2
  <1> QED
    BY <1>2, <1>3, <1>5, <1>6 DEF IsTable, NoLater, longer, n

\* What a prune leaves is a table of some of the rows, none before the cutoff.
LEMMA TableKept ==
    ASSUME NEW Row, Dated(Row), NEW rows, IsTable(rows, Row), NEW cutoff \in Int
    PROVE  /\ IsTable(Since(rows, cutoff), Row)
           /\ \A t \in Int : NoLater(rows, t) => NoLater(Since(rows, cutoff), t)
           /\ \A i \in DOMAIN Since(rows, cutoff) :
                 \E j \in DOMAIN rows : Since(rows, cutoff)[i] = rows[j] /\ rows[j].t >= cutoff
  <1> DEFINE k == OlderThan(rows, cutoff)
             kept == Since(rows, cutoff)
             n == Len(rows)
  <1>1. n \in Nat /\ DOMAIN rows = 1..n
    BY LenProperties DEF IsTable
  <1>2. k \in 0..n
    BY OlderComeFirst
  <1>3. /\ IsTable(kept, Row) /\ Len(kept) = n - k
        /\ \A i \in 1..(n - k) : kept[i] = rows[i + k] /\ rows[i + k].t >= cutoff
    BY SinceIs
  <1>4. DOMAIN kept = 1..(n - k)
    BY <1>3, LenProperties DEF IsTable
  <1> HIDE DEF k, kept, n
  <1>5. \A i \in 1..(n - k) : i + k \in DOMAIN rows
    BY <1>1, <1>2
  <1>6. ASSUME NEW i \in DOMAIN kept
        PROVE  \E j \in DOMAIN rows : kept[i] = rows[j] /\ rows[j].t >= cutoff
    BY <1>3, <1>4, <1>5
  <1>7. ASSUME NEW t \in Int, NoLater(rows, t) PROVE NoLater(kept, t)
    BY <1>6, <1>7 DEF NoLater
  <1> QED
    BY <1>3, <1>6, <1>7 DEF kept

\* The rows of a table before an instant are a table.
LEMMA BeforeIs ==
    ASSUME NEW Row, Dated(Row), NEW rows, IsTable(rows, Row), NEW t \in Int
    PROVE  LET k == OlderThan(rows, t)
           IN  /\ IsTable(Before(rows, t), Row)
               /\ Len(Before(rows, t)) = k
               /\ \A i \in 1..k : Before(rows, t)[i] = rows[i] /\ rows[i].t < t
  <1> DEFINE k == OlderThan(rows, t)
             first == Before(rows, t)
             n == Len(rows)
  <1>1. n \in Nat /\ DOMAIN rows = 1..n /\ \A i \in 1..n : rows[i] \in Row
    <2>1. rows \in Seq(Row) /\ n \in Nat /\ DOMAIN rows = 1..n
      BY LenProperties DEF IsTable
    <2> QED
      BY <2>1, ElementOfSeq
  <1>2. k \in 0..n /\ \A i \in 1..n : rows[i].t < t <=> i <= k
    BY OlderComeFirst
  <1>3. \A i, j \in 1..n : i < j => rows[i].t <= rows[j].t
    BY <1>1 DEF IsTable, InOrder
  <1>4. first = SubSeq(rows, 1, k)
    BY DEF Before
  <1> HIDE DEF k, n, first
  <1>5. first \in Seq(Row) /\ Len(first) = k /\ \A i \in 1..k : first[i] = rows[i]
    <2>1. 1 \in Int /\ k \in Int /\ \A i \in 1..k : rows[i] \in Row
      BY <1>1, <1>2
    <2>2. /\ SubSeq(rows, 1, k) \in Seq(Row)
          /\ Len(SubSeq(rows, 1, k)) = IF 1 <= k THEN k - 1 + 1 ELSE 0
          /\ \A i \in 1..(k - 1 + 1) : SubSeq(rows, 1, k)[i] = rows[1 + i - 1]
      BY <2>1, SubSeqProperties
    <2>3. k - 1 + 1 = k /\ \A i \in 1..k : 1 + i - 1 = i
      BY <1>2
    <2> QED
      BY <1>1, <1>2, <1>4, <2>2, <2>3
  <1>6. DOMAIN first = 1..k /\ \A i \in 1..k : i \in 1..n
    BY <1>1, <1>2, <1>5, LenProperties
  <1>7. InOrder(first)
    BY <1>3, <1>5, <1>6 DEF InOrder
  <1>8. \A i \in 1..k : rows[i].t < t
    BY <1>1, <1>2, <1>6
  <1> QED
    BY <1>5, <1>7, <1>8 DEF IsTable, k, first

\* A row stays a row of its table when the clock moves on.
LEMMA TableWidens ==
    ASSUME NEW Row, NEW Wider, Row \subseteq Wider, NEW rows, IsTable(rows, Row)
    PROVE  IsTable(rows, Wider)
  BY SeqMonotonic DEF IsTable

-----------------------------------------------------------------------------
(* The calendar.                                                           *)

\* Months have at least three days, days and the window at least a tick.
LEMMA MonthIsLong ==
    /\ Day \in Nat \ {0} /\ Window \in Nat \ {0} /\ Month * Day \in Nat \ {0}
    /\ 3 * Day <= Month * Day /\ Window * Day \in Nat /\ Day <= Window * Day
  <1>1. Day \in Nat \ {0} /\ Window \in Nat \ {0} /\ Month \in Int /\ 3 <= Month
    BY AccountingAssumption
  <1>2. Day * 3 <= Day * Month /\ Day * Month \in Int
    BY <1>1, TimesOrder
  <1>3. Day * 1 <= Day * Window /\ Day * Window \in Int
    BY <1>1, TimesOrder
  <1>4. Day * Month = Month * Day /\ Day * 3 = 3 * Day /\ Day * Window = Window * Day
    BY <1>1
  <1> QED
    BY <1>1, <1>2, <1>3, <1>4

\* The day, the month and the month before of an instant.
LEMMA CalendarIs ==
    ASSUME NEW t \in Int
    PROVE  /\ DayStart(t) \in Int /\ DayStart(t) <= t /\ t < DayStart(t) + Day
           /\ MonthStart(t) \in Int /\ MonthStart(t) <= t /\ t < MonthStart(t) + Month * Day
           /\ PreviousMonthStart(t) \in Int
           /\ PreviousMonthStart(t) = MonthStart(t) - Month * Day
  <1> DEFINE length == Month * Day
  <1>1. Day \in Nat \ {0} /\ length \in Nat \ {0}
    BY MonthIsLong
  <1>2. t % Day \in 0..(Day - 1) /\ DayStart(t) = t - (t % Day)
    BY <1>1, DivMod DEF DayStart
  <1>3. MonthStart(t) = t - (t % length) /\ PreviousMonthStart(t) = MonthStart(t) - length
    BY DEF MonthStart, PreviousMonthStart
  <1> HIDE DEF length
  <1>4. t % length \in 0..(length - 1)
    BY <1>1, DivMod
  <1>5. DayStart(t) \in Int /\ DayStart(t) <= t /\ t < DayStart(t) + Day
    BY <1>1, <1>2
  <1>6. MonthStart(t) \in Int /\ MonthStart(t) <= t /\ t < MonthStart(t) + length
    BY <1>1, <1>3, <1>4
  <1>7. PreviousMonthStart(t) \in Int
    BY <1>1, <1>3, <1>6
  <1> QED
    BY <1>3, <1>5, <1>6, <1>7 DEF length

\* A month begins with one of its days, which follow one another.
LEMMA DaysOfMonth ==
    ASSUME NEW t \in Int
    PROVE  /\ DayOfMonth(t) \in Nat \ {0} /\ (DayOfMonth(t) - 1) * Day \in Nat
           /\ DayStart(t) = MonthStart(t) + (DayOfMonth(t) - 1) * Day
           /\ MonthStart(t) <= DayStart(t)
  <1> DEFINE length == Month * Day
             q == t \div length
             r == t % length
             d == r \div Day
             e == r % Day
  <1>1. Day \in Nat \ {0} /\ length \in Nat \ {0} /\ Month \in Nat
    BY MonthIsLong, AccountingAssumption
  <1>2. MonthStart(t) = t - r /\ DayOfMonth(t) = d + 1 /\ DayStart(t) = t - (t % Day)
    BY DEF MonthStart, DayOfMonth, DayStart
  <1>3. \A a \in Int : length * a = Day * (Month * a) /\ Month * a \in Int
    BY <1>1
  <1> HIDE DEF length
  <1>4. r \in 0..(length - 1) /\ q \in Int /\ t = length * q + r
    BY <1>1, DivMod
  <1> HIDE DEF r, q
  <1>5. e \in 0..(Day - 1) /\ d \in Int /\ r = Day * d + e
    BY <1>1, <1>4, DivMod
  <1> HIDE DEF d, e
  <1>6. Month * q \in Int /\ Month * q + d \in Int
        /\ Day * (Month * q) \in Int /\ Day * d \in Int
    BY <1>1, <1>3, <1>4, <1>5
  <1>7. t = Day * (Month * q + d) + e
    <2>1. Day * (Month * q + d) = Day * (Month * q) + Day * d
      BY <1>1, <1>5, <1>6
    <2>2. t = Day * (Month * q) + r
      BY <1>3, <1>4
    <2> QED
      BY <1>5, <1>6, <2>1, <2>2
  <1>8. t % Day = e
    BY <1>1, <1>5, <1>6, <1>7, DivModUnique
  <1>9. DayStart(t) = MonthStart(t) + Day * d
    BY <1>2, <1>4, <1>5, <1>6, <1>8
  <1>10. d >= 0
    <2>1. d < 0 => Day * d + Day <= Day * 0
      BY <1>1, <1>5, TimesMore
    <2> QED
      BY <1>1, <1>4, <1>5, <1>6, <2>1
  <1>11. Day * d \in Nat /\ Day * d = ((d + 1) - 1) * Day
    <2>1. Day * 0 <= Day * d
      BY <1>1, <1>5, <1>10, TimesOrder
    <2> QED
      BY <1>1, <1>5, <1>6, <2>1
  <1>12. MonthStart(t) \in Int
    BY CalendarIs
  <1> QED
    BY <1>2, <1>5, <1>9, <1>10, <1>11, <1>12

\* The days of a month up to an instant: each begins where the last one ends.
LEMMA DayOfMonthBegins ==
    ASSUME NEW t \in Int, NEW d \in 1..DayOfMonth(t)
    PROVE  LET begin == MonthStart(t) + (d - 1) * Day
           IN  /\ begin \in Int /\ MonthStart(t) <= begin /\ begin <= DayStart(t)
               /\ begin + Day = MonthStart(t) + d * Day
               /\ DayStart(begin) = begin /\ DayOfMonth(begin) = d
  <1> DEFINE length == Month * Day
             m == MonthStart(t)
             begin == m + (d - 1) * Day
             q == t \div length
  <1>1. /\ Day \in Nat \ {0} /\ length \in Nat \ {0} /\ Month \in Nat /\ d \in Nat \ {0}
        /\ DayOfMonth(t) \in Nat
    BY MonthIsLong, AccountingAssumption, DaysOfMonth
  <1>2. /\ m \in Int /\ t < m + length /\ DayStart(t) \in Int /\ DayStart(t) <= t
        /\ DayStart(t) = m + (DayOfMonth(t) - 1) * Day
    BY CalendarIs, DaysOfMonth
  <1>3. /\ d * Day \in Int /\ (d - 1) * Day \in Nat /\ (d - 1) * Day + Day = d * Day
        /\ (d - 1) * Day = Day * (d - 1)
    <2>1. d - 1 \in Nat
      BY <1>1
    <2>2. Day * (d - 1) \in Nat /\ Day * (d - 1) = (d - 1) * Day
      BY <1>1, <2>1
    <2>3. (d - 1) * Day + Day = d * Day
      BY <1>1
    <2> QED
      BY <1>1, <2>2, <2>3
  <1>4. (d - 1) * Day <= (DayOfMonth(t) - 1) * Day /\ (DayOfMonth(t) - 1) * Day \in Int
    <2>1. d - 1 <= DayOfMonth(t) - 1 /\ d - 1 \in Int /\ DayOfMonth(t) - 1 \in Int
      BY <1>1
    <2>2. Day * (d - 1) <= Day * (DayOfMonth(t) - 1) /\ Day * (DayOfMonth(t) - 1) \in Int
      BY <1>1, <2>1, TimesOrder
    <2>3. Day * (DayOfMonth(t) - 1) = (DayOfMonth(t) - 1) * Day
      BY <1>1, <2>1
    <2> QED
      BY <1>3, <2>2, <2>3
  <1>5. m = t - (t % length)
    BY DEF MonthStart
  <1>6. t % length \in 0..(length - 1) /\ q \in Int /\ t = length * q + (t % length)
    <2> HIDE DEF length
    <2> QED
      BY <1>1, DivMod
  <1>7. m = length * q /\ length * q = Day * (Month * q) /\ Month * q \in Int
    <2>1. length * q = Day * (Month * q) /\ Month * q \in Int
      BY <1>1, <1>6
    <2>2. length * q \in Int
      BY <1>1, <1>6
    <2> HIDE DEF length, q
    <2> QED
      BY <1>1, <1>5, <1>6, <2>1, <2>2
  <1> HIDE DEF m, q, begin
  <1>8. begin \in Int /\ m <= begin /\ begin <= DayStart(t) /\ begin + Day = m + d * Day
    BY <1>1, <1>2, <1>3, <1>4 DEF begin
  <1>9. begin % length = (d - 1) * Day
    <2>1. (d - 1) * Day \in 0..(length - 1)
      <3> HIDE DEF length
      <3> QED
        BY <1>1, <1>2, <1>3, <1>4
    <2>2. begin = length * q + (d - 1) * Day
      BY <1>7 DEF begin
    <2> HIDE DEF length
    <2> QED
      BY <1>1, <1>6, <2>1, <2>2, DivModUnique
  <1>10. ((d - 1) * Day) \div Day = d - 1
    <2>1. d - 1 \in Int /\ 0 \in 0..(Day - 1) /\ (d - 1) * Day = Day * (d - 1) + 0
      BY <1>1, <1>3
    <2> QED
      BY <1>1, <2>1, DivModUnique
  <1>11. begin % Day = 0
    <2>1. Day * (Month * q + (d - 1)) = Day * (Month * q) + Day * (d - 1)
      BY <1>1, <1>7
    <2>2. Month * q + (d - 1) \in Int /\ 0 \in 0..(Day - 1)
      BY <1>1, <1>7
    <2>3. Day * (Month * q + (d - 1)) \in Int
      BY <1>1, <2>2
    <2>4. begin = Day * (Month * q + (d - 1)) + 0
      BY <1>3, <1>7, <2>1, <2>3 DEF begin
    <2> QED
      BY <1>1, <2>2, <2>4, DivModUnique
  <1>12. DayStart(begin) = begin
    BY <1>8, <1>11 DEF DayStart
  <1>13. DayOfMonth(begin) = d
    <2>1. DayOfMonth(begin) = (d - 1) + 1
      BY <1>9, <1>10, Zenon DEF DayOfMonth
    <2> QED
      BY <1>1, <2>1
  <1> QED
    BY <1>8, <1>12, <1>13 DEF begin, m

\* Months follow one another: the clock does not go back.
LEMMA MonthsInOrder ==
    ASSUME NEW t \in Int, NEW u \in Int, t <= u
    PROVE  MonthStart(t) <= MonthStart(u) /\ PreviousMonthStart(t) <= PreviousMonthStart(u)
  <1> DEFINE length == Month * Day
             p == t \div length
             q == u \div length
  <1>1. length \in Nat \ {0}
    BY MonthIsLong
  <1>2. MonthStart(t) = t - (t % length) /\ MonthStart(u) = u - (u % length)
    BY DEF MonthStart
  <1> HIDE DEF length
  <1>3. /\ p \in Int /\ t % length \in 0..(length - 1) /\ t = length * p + (t % length)
        /\ q \in Int /\ u % length \in 0..(length - 1) /\ u = length * q + (u % length)
    BY <1>1, DivMod
  <1>4. ~(q < p)
    <2>1. q < p => length * q + length <= length * p
      BY <1>1, <1>3, TimesMore
    <2>2. length * q \in Int /\ length * p \in Int
      BY <1>1, <1>3
    <2> HIDE DEF p, q
    <2> QED
      BY <1>1, <1>3, <2>1, <2>2
  <1>5. length * p <= length * q /\ length * p \in Int /\ length * q \in Int
    BY <1>1, <1>3, <1>4, TimesOrder
  <1>6. MonthStart(t) = length * p /\ MonthStart(u) = length * q
    <2> HIDE DEF p, q
    <2> QED
      BY <1>1, <1>2, <1>3, <1>5
  <1>7. MonthStart(t) <= MonthStart(u)
    BY <1>5, <1>6
  <1> QED
    BY <1>7, MonthIsLong, CalendarIs

-----------------------------------------------------------------------------
(* Types.                                                                  *)

TrafficRow == [t : 0..now, gb : Nat]
BalanceRow == [t : 0..now, amount : Int, paid : Nat, refilled : Nat]
StopRow == [t : 0..now, kind : Kind]

Scalars ==
    /\ now \in 0..Horizon /\ scene \in Scenes /\ moves \in 0..MaxMoves
    /\ traffic \in Nat /\ balance \in Int /\ paid \in Nat /\ refilled \in Nat
    /\ up \in BOOLEAN /\ missed \in BOOLEAN /\ nextPrune \in Nat

Calls ==
    /\ check \in [at : {"idle", "balance", "traffic", "record"}, t : 0..now, full : BOOLEAN]
    /\ lastResult \in {None} \cup (0..now)
    /\ dash \in [at : {"idle", "samples", "shown"}, t : 0..now,
                 result : {None} \cup (0..now), updated : {None} \cup (0..now)]

Tables ==
    /\ IsTable(trafficSamples, TrafficRow)
    /\ IsTable(balanceSamples, BalanceRow)
    /\ IsTable(stopEvents, StopRow)

\* A check that runs began at most a tick ago, and no row is later than it.
CheckIsLatest ==
    ~Idle => /\ now <= check.t + 1
             /\ NoLater(trafficSamples, check.t)
             /\ NoLater(balanceSamples, check.t)
             /\ NoLater(stopEvents, check.t)

Typed == Scalars /\ Calls /\ Tables /\ CheckIsLatest

\* The rows of the tables have instants.
LEMMA RowsAreDated ==
    ASSUME now \in Int
    PROVE  /\ Dated(TrafficRow) /\ Dated(BalanceRow) /\ Dated(StopRow)
           /\ (\A r \in TrafficRow : r.t <= now) /\ (\A r \in BalanceRow : r.t <= now)
           /\ \A r \in StopRow : r.t <= now
  BY DEF Dated, TrafficRow, BalanceRow, StopRow

\* No row is later than the clock.
LEMMA RowsAreOfThePast ==
    ASSUME Scalars, Tables
    PROVE  /\ NoLater(trafficSamples, now)
           /\ NoLater(balanceSamples, now)
           /\ NoLater(stopEvents, now)
  <1>1. now \in Int
    BY DEF Scalars
  <1>2. ASSUME NEW rows, NEW Row, IsTable(rows, Row), \A r \in Row : r.t <= now
        PROVE  NoLater(rows, now)
    <2>1. \A i \in DOMAIN rows : rows[i] \in Row
      BY <1>2, LenProperties, ElementOfSeq DEF IsTable
    <2> QED
      BY <1>2, <2>1 DEF NoLater
  <1> QED
    BY <1>1, <1>2, RowsAreDated DEF Tables

LEMMA ScalarsStep == Scalars /\ [Next]_vars => Scalars'
  <1> SUFFICES ASSUME Scalars, [Next]_vars PROVE Scalars'
    OBVIOUS
  <1>0. Day \in Nat /\ Horizon \in Nat /\ MaxMoves \in Nat
    BY AccountingAssumption
  <1>1. CASE Tick
    <2>1. now' \in 0..Horizon /\ UNCHANGED <<scene, up, missed, nextPrune>>
      BY <1>0, <1>1 DEF Tick, Scalars, ticker
    <2>2. CASE NewMonth /\ UNCHANGED moves
      BY <2>1, <2>2 DEF NewMonth, Scalars
    <2>3. CASE Meters
      BY <1>0, <2>1, <2>3 DEF Meters, Use, Spend, Refill, Scalars
    <2> QED
      BY <1>1, <2>2, <2>3 DEF Tick
  <1>2. CASE AddBalance
    BY <1>2 DEF AddBalance, InCheck, meters, ticker, Scalars
  <1>3. CASE BeginCheck \/ AddTraffic \/ Record \/ CheckFails
    BY <1>3 DEF BeginCheck, AddTraffic, Record, CheckFails, InCheck, meters, ticker, Scalars
  <1>4. CASE dailyMaintenance
    <2>1. nextPrune' = now + Day /\ UNCHANGED <<meters, up, paid, refilled>>
          /\ (missed' = missed \/ missed' = TRUE)
      BY <1>4, Zenon DEF dailyMaintenance
    <2>2. now + Day \in Nat
      BY <1>0 DEF Scalars
    <2> QED
      BY <2>1, <2>2 DEF meters, Scalars
  <1>5. CASE Crash
    BY <1>5 DEF Crash, meters, Scalars
  <1>6. CASE Start
    <2>1. nextPrune' = now + Day /\ UNCHANGED <<meters, paid, refilled>>
          /\ up' = TRUE /\ missed' = FALSE
      BY <1>6, Zenon DEF Start
    <2>2. now + Day \in Nat
      BY <1>0 DEF Scalars
    <2> QED
      BY <2>1, <2>2 DEF meters, Scalars
  <1>7. CASE ReadResult \/ ReadSamples \/ Answer
    BY <1>7 DEF ReadResult, ReadSamples, Answer, meters, ticker, Scalars
  <1>8. CASE UNCHANGED vars
    BY <1>8 DEF vars, Scalars
  <1> QED
    BY <1>1, <1>2, <1>3, <1>4, <1>5, <1>6, <1>7, <1>8 DEF Next

LEMMA CallsStep == Typed /\ Scalars' /\ [Next]_vars => Calls'
  <1> SUFFICES ASSUME Typed, Scalars', [Next]_vars PROVE Calls'
    OBVIOUS
  <1>0. /\ now \in Nat /\ now' \in Nat /\ now' >= now /\ 0..now \subseteq 0..now'
        /\ None \in {None} \cup (0..now')
    <2>1. now' = now \/ now' = now + 1
      BY DEF Next, Tick, BeginCheck, AddBalance, AddTraffic, Record, CheckFails, InCheck,
             dailyMaintenance, Crash, Start, ReadResult, ReadSamples, Answer, meters, vars
    <2> QED
      BY <2>1 DEF Typed, Scalars
  <1>1. CASE UNCHANGED <<check, lastResult, dash>>
    BY <1>0, <1>1 DEF Typed, Calls
  <1>2. CASE UNCHANGED <<now, dash, lastResult>> /\ (BeginCheck \/ AddBalance \/ AddTraffic)
    BY <1>0, <1>2 DEF Typed, Calls, BeginCheck, AddBalance, AddTraffic, Goto
  <1>3. NoCheck \in [at : {"idle", "balance", "traffic", "record"}, t : 0..now', full : BOOLEAN]
    BY <1>0 DEF NoCheck
  <1>4. CASE Record \/ CheckFails
    BY <1>0, <1>3, <1>4 DEF Record, CheckFails, InCheck, Typed, Calls, meters, tables
  <1>5. NoRequest \in [at : {"idle", "samples", "shown"}, t : 0..now',
                       result : {None} \cup (0..now'), updated : {None} \cup (0..now')]
    BY <1>0 DEF NoRequest
  <1>6. CASE Crash \/ Answer
    BY <1>0, <1>3, <1>5, <1>6 DEF Crash, Answer, Typed, Calls, meters, tables
  <1>7. CASE ReadResult
    BY <1>0, <1>7 DEF ReadResult, Typed, Calls, meters, tables
  <1>8. CASE ReadSamples
    <2>1. balanceSamples # <<>> => Last(balanceSamples).t \in 0..now
      <3>1. balanceSamples \in Seq(BalanceRow)
        BY DEF Typed, Tables, IsTable
      <3>2. balanceSamples # <<>> => Last(balanceSamples) \in BalanceRow
        <4>1. balanceSamples # <<>> => Len(balanceSamples) \in 1..Len(balanceSamples)
          BY <3>1, EmptySeq
        <4> QED
          BY <3>1, <4>1, ElementOfSeq DEF Last
      <3> QED
        BY <3>2 DEF BalanceRow
    <2> QED
      BY <1>0, <1>8, <2>1 DEF ReadSamples, Typed, Calls, meters, tables
  <1> QED
    BY <1>1, <1>2, <1>4, <1>6, <1>7, <1>8
       DEF Next, Tick, BeginCheck, AddBalance, AddTraffic, InCheck, dailyMaintenance, Start,
           meters, tables, vars

\* Two kinds of steps change the tables: the statements of a check and the prunes.
LEMMA TablesChange ==
    ASSUME Scalars, [Next]_vars
    PROVE  \/ UNCHANGED <<trafficSamples, balanceSamples, stopEvents>>
           \/ AddBalance \/ AddTraffic
           \/ Record /\ stopEvents' # stopEvents
           \/ (dailyMaintenance \/ Start) /\ Prune
  BY DEF Next, Tick, BeginCheck, Record, CheckFails, InCheck, dailyMaintenance, Crash, Start,
         ReadResult, ReadSamples, Answer, tables, vars

\* The cutoffs of a prune are instants.
LEMMA CutoffsAre ==
    ASSUME Scalars
    PROVE  /\ now \in Int /\ PreviousMonthStart(now) \in Int /\ now - Window * Day \in Int
  <1>1. now \in Int
    BY DEF Scalars
  <1> QED
    BY <1>1, CalendarIs, MonthIsLong

LEMMA TablesStep == Typed /\ Scalars' /\ [Next]_vars => Tables'
  <1> SUFFICES ASSUME Typed, Scalars', [Next]_vars PROVE Tables'
    OBVIOUS
  <1>0. /\ now \in Nat /\ now' \in Nat /\ Scalars /\ Tables /\ 0..now \subseteq 0..now'
        /\ Dated(TrafficRow) /\ Dated(BalanceRow) /\ Dated(StopRow)
    <2>1. now' = now \/ now' = now + 1
      BY DEF Next, Tick, BeginCheck, AddBalance, AddTraffic, Record, CheckFails, InCheck,
             dailyMaintenance, Crash, Start, ReadResult, ReadSamples, Answer, meters, vars
    <2>2. Scalars /\ Tables /\ now \in Nat
      BY DEF Typed, Scalars
    <2> QED
      BY <2>1, <2>2, RowsAreDated
  <1>1. /\ TrafficRow \subseteq TrafficRow' /\ BalanceRow \subseteq BalanceRow'
        /\ StopRow \subseteq StopRow'
    BY <1>0 DEF TrafficRow, BalanceRow, StopRow
  <1>2. /\ IsTable(trafficSamples, TrafficRow') /\ IsTable(balanceSamples, BalanceRow')
        /\ IsTable(stopEvents, StopRow')
    BY <1>0, <1>1, TableWidens DEF Tables
  <1>3. CASE UNCHANGED <<trafficSamples, balanceSamples, stopEvents>>
    BY <1>2, <1>3 DEF Tables
  <1>4. CASE AddBalance
    <2> DEFINE row == [t |-> check.t, amount |-> balance, paid |-> paid, refilled |-> refilled]
    <2>1. /\ ~Idle /\ balanceSamples' = Append(balanceSamples, row)
          /\ UNCHANGED <<now, trafficSamples, stopEvents>>
      BY <1>4 DEF AddBalance, InCheck, Idle, meters
    <2>2. row \in BalanceRow /\ row.t = check.t
      BY DEF Typed, Scalars, Calls, BalanceRow
    <2>3. NoLater(balanceSamples, row.t)
      BY <2>1, <2>2 DEF Typed, CheckIsLatest
    <2> HIDE DEF row
    <2>4. IsTable(balanceSamples', BalanceRow)
      BY <1>0, <2>1, <2>2, <2>3, TableGrows DEF Tables
    <2>5. IsTable(balanceSamples', BalanceRow')
      BY <1>1, <2>4, TableWidens
    <2> QED
      BY <1>2, <2>1, <2>5 DEF Tables
  <1>5. CASE AddTraffic
    <2> DEFINE row == [t |-> check.t, gb |-> traffic]
    <2>1. /\ ~Idle /\ trafficSamples' = Append(trafficSamples, row)
          /\ UNCHANGED <<now, balanceSamples, stopEvents>>
      BY <1>5 DEF AddTraffic, InCheck, Idle, meters
    <2>2. row \in TrafficRow /\ row.t = check.t
      BY DEF Typed, Scalars, Calls, TrafficRow
    <2>3. NoLater(trafficSamples, row.t)
      BY <2>1, <2>2 DEF Typed, CheckIsLatest
    <2> HIDE DEF row
    <2>4. IsTable(trafficSamples', TrafficRow)
      BY <1>0, <2>1, <2>2, <2>3, TableGrows DEF Tables
    <2>5. IsTable(trafficSamples', TrafficRow')
      BY <1>1, <2>4, TableWidens
    <2> QED
      BY <1>2, <2>1, <2>5 DEF Tables
  <1>6. CASE Record /\ stopEvents' # stopEvents
    <2>1. PICK kind \in Kind, t \in check.t..now :
                stopEvents' = Append(stopEvents, [t |-> t, kind |-> kind])
      BY <1>6 DEF Record, Kind
    <2>2. ~Idle /\ UNCHANGED <<now, trafficSamples, balanceSamples>>
      BY <1>6 DEF Record, InCheck, Idle, meters
    <2> DEFINE row == [t |-> t, kind |-> kind]
    <2>3. check.t \in 0..now /\ row.t = t /\ check.t <= t /\ t \in 0..now
      BY <1>0 DEF Typed, Calls
    <2>4. row \in StopRow
      BY <2>3 DEF StopRow
    <2>5. NoLater(stopEvents, row.t)
      <3>1. NoLater(stopEvents, check.t)
        BY <2>2 DEF Typed, CheckIsLatest
      <3>2. \A i \in DOMAIN stopEvents : stopEvents[i].t \in Int
        BY <1>0, LenProperties, ElementOfSeq DEF Tables, IsTable, Dated
      <3> HIDE DEF row
      <3> QED
        BY <2>3, <3>1, <3>2 DEF NoLater
    <2>6. stopEvents' = Append(stopEvents, row)
      BY <2>1
    <2> HIDE DEF row
    <2>7. IsTable(stopEvents', StopRow)
      BY <1>0, <2>4, <2>5, <2>6, TableGrows DEF Tables
    <2>8. IsTable(stopEvents', StopRow')
      BY <1>1, <2>7, TableWidens
    <2> QED
      BY <1>2, <2>2, <2>8 DEF Tables
  <1>7. CASE (dailyMaintenance \/ Start) /\ Prune
    <2>1. PreviousMonthStart(now) \in Int /\ now - Window * Day \in Int
      BY <1>0, CutoffsAre
    <2>2. /\ IsTable(trafficSamples', TrafficRow)
          /\ IsTable(balanceSamples', BalanceRow)
          /\ IsTable(stopEvents', StopRow)
      BY <1>0, <1>7, <2>1, TableKept DEF Prune, Tables
    <2> QED
      BY <1>1, <2>2, TableWidens DEF Tables
  <1> QED
    BY <1>0, <1>3, <1>4, <1>5, <1>6, <1>7, TablesChange

LEMMA LatestStep == Typed /\ Scalars' /\ Calls' /\ [Next]_vars => CheckIsLatest'
  <1> SUFFICES ASSUME Typed, Scalars', Calls', [Next]_vars PROVE CheckIsLatest'
    OBVIOUS
  <1>0. /\ now \in Nat /\ Scalars /\ Tables /\ CheckIsLatest /\ check.t \in Nat
        /\ Dated(TrafficRow) /\ Dated(BalanceRow) /\ Dated(StopRow)
    <2>1. Scalars /\ Tables /\ CheckIsLatest /\ now \in Nat /\ check.t \in Nat
      BY DEF Typed, Scalars, Calls
    <2> QED
      BY <2>1, RowsAreDated
  <1>1. CASE Tick
    <2>1. /\ now' = now + 1 /\ (Idle \/ check.t = now)
          /\ UNCHANGED <<check, trafficSamples, balanceSamples, stopEvents>>
      BY <1>1 DEF Tick, tables
    <2>2. ~Idle => now + 1 <= check.t + 1
      BY <1>0, <2>1
    <2>3. ~Idle => now' <= check.t + 1
      BY <2>1, <2>2, Zenon
    <2> QED
      BY <1>0, <2>1, <2>3, Zenon DEF CheckIsLatest, Idle
  <1>2. CASE BeginCheck
    <2>1. check'.t = now /\ UNCHANGED <<now, trafficSamples, balanceSamples, stopEvents>>
      BY <1>2 DEF BeginCheck, meters, tables
    <2>2. now <= now + 1
      BY <1>0
    <2> QED
      BY <1>0, <2>1, <2>2, RowsAreOfThePast, Zenon DEF CheckIsLatest
  <1>3. CASE AddBalance
    <2> DEFINE row == [t |-> check.t, amount |-> balance, paid |-> paid, refilled |-> refilled]
    <2>1. /\ ~Idle /\ balanceSamples' = Append(balanceSamples, row) /\ check'.t = check.t
          /\ UNCHANGED <<now, trafficSamples, stopEvents>>
      BY <1>3 DEF AddBalance, InCheck, Idle, Goto, meters, Typed, Calls
    <2>2. row \in BalanceRow /\ row.t = check.t
      BY DEF Typed, Scalars, Calls, BalanceRow
    <2>3. NoLater(balanceSamples, row.t)
      BY <1>0, <2>1, <2>2 DEF CheckIsLatest
    <2> HIDE DEF row
    <2>4. NoLater(balanceSamples', check.t)
      BY <1>0, <2>1, <2>2, <2>3, TableGrows DEF Tables
    <2> QED
      BY <1>0, <2>1, <2>4, Zenon DEF CheckIsLatest
  <1>4. CASE AddTraffic
    <2> DEFINE row == [t |-> check.t, gb |-> traffic]
    <2>1. /\ ~Idle /\ trafficSamples' = Append(trafficSamples, row) /\ check'.t = check.t
          /\ UNCHANGED <<now, balanceSamples, stopEvents>>
      BY <1>4 DEF AddTraffic, InCheck, Idle, Goto, meters, Typed, Calls
    <2>2. row \in TrafficRow /\ row.t = check.t
      BY DEF Typed, Scalars, Calls, TrafficRow
    <2>3. NoLater(trafficSamples, row.t)
      BY <1>0, <2>1, <2>2 DEF CheckIsLatest
    <2> HIDE DEF row
    <2>4. NoLater(trafficSamples', check.t)
      BY <1>0, <2>1, <2>2, <2>3, TableGrows DEF Tables
    <2> QED
      BY <1>0, <2>1, <2>4, Zenon DEF CheckIsLatest
  <1>5. CASE Record \/ CheckFails \/ Crash
    <2>1. Idle'
      BY <1>5 DEF Record, CheckFails, Crash, Idle, NoCheck
    <2> QED
      BY <2>1 DEF CheckIsLatest
  <1>6. CASE dailyMaintenance \/ Start
    <2>1. UNCHANGED <<now, check>>
      BY <1>6 DEF dailyMaintenance, Start, meters
    <2>2. CASE UNCHANGED <<trafficSamples, balanceSamples, stopEvents>>
      BY <1>0, <2>1, <2>2, Zenon DEF CheckIsLatest, Idle
    <2>3. CASE Prune
      <3>1. PreviousMonthStart(now) \in Int /\ now - Window * Day \in Int
        BY <1>0, CutoffsAre
      <3>2. ~Idle => /\ NoLater(trafficSamples', check.t)
                     /\ NoLater(balanceSamples', check.t)
                     /\ NoLater(stopEvents', check.t)
        BY <1>0, <2>3, <3>1, TableKept DEF Prune, Tables, CheckIsLatest
      <3> QED
        BY <1>0, <2>1, <3>2, Zenon DEF CheckIsLatest, Idle
    <2> QED
      BY <1>6, <2>2, <2>3 DEF dailyMaintenance, Start
  <1>7. CASE ReadResult \/ ReadSamples \/ Answer \/ UNCHANGED vars
    <2>1. UNCHANGED <<now, check, trafficSamples, balanceSamples, stopEvents>>
      BY <1>7 DEF ReadResult, ReadSamples, Answer, meters, tables, vars
    <2> QED
      BY <1>0, <2>1, Zenon DEF CheckIsLatest, Idle
  <1> QED
    BY <1>1, <1>2, <1>3, <1>4, <1>5, <1>6, <1>7 DEF Next

-----------------------------------------------------------------------------
(* The figures are defined and not negative.                               *)

LEMMA AtLeastZeroIs ==
    ASSUME NEW n \in Int
    PROVE  AtLeastZero(n) \in Nat /\ n <= AtLeastZero(n)
  BY DEF AtLeastZero

\* The last row of a table.
LEMMA LastIs ==
    ASSUME NEW Row, NEW rows, IsTable(rows, Row), rows # <<>>
    PROVE  /\ Len(rows) \in Nat \ {0} /\ DOMAIN rows = 1..Len(rows)
           /\ Len(rows) \in DOMAIN rows
           /\ Last(rows) = rows[Len(rows)] /\ Last(rows) \in Row
  <1>1. Len(rows) \in Nat \ {0} /\ DOMAIN rows = 1..Len(rows)
    BY EmptySeq, LenProperties DEF IsTable
  <1> QED
    BY <1>1, ElementOfSeq DEF IsTable, Last

LEMMA TodayTrafficNat ==
    ASSUME NEW Row, Dated(Row), \A r \in Row : r.gb \in Nat,
           NEW rows, IsTable(rows, Row), NEW at \in Int
    PROVE  TodayTraffic(rows, at) \in Nat
  <1> DEFINE today == Since(rows, DayStart(at))
             earlier == Before(rows, DayStart(at))
             baseline == IF DayOfMonth(at) = 1 \/ earlier = <<>> THEN 0 ELSE Last(earlier).gb
  <1>1. DayStart(at) \in Int
    BY CalendarIs
  <1>2. IsTable(today, Row) /\ IsTable(earlier, Row)
    BY <1>1, SinceIs, BeforeIs
  <1>3. TodayTraffic(rows, at)
           = IF today = <<>> THEN 0 ELSE AtLeastZero(Last(today).gb - baseline)
    BY DEF TodayTraffic
  <1> HIDE DEF today, earlier
  <1>4. baseline \in Nat
    <2>1. earlier # <<>> => Last(earlier).gb \in Nat
      BY <1>2, LastIs
    <2> QED
      BY <2>1
  <1>5. today # <<>> => Last(today).gb \in Nat
    BY <1>2, LastIs
  <1> HIDE DEF baseline
  <1>6. today # <<>> => Last(today).gb - baseline \in Int
    BY <1>4, <1>5
  <1> QED
    BY <1>3, <1>6, AtLeastZeroIs

\* The terms the amount spent since an instant is the total of.
Fall(rows, since, i) ==
    IF i = 1 \/ rows[i].t < since THEN 0 ELSE AtLeastZero(rows[i - 1].amount - rows[i].amount)

LEMMA SpentSinceIs ==
    ASSUME NEW Row, \A r \in Row : r.amount \in Int,
           NEW rows, IsTable(rows, Row), NEW since \in Int
    PROVE  LET falls == [i \in 1..Len(rows) |-> Fall(rows, since, i)]
           IN  /\ spentSince(rows, since) = Total(falls)
               /\ falls \in [1..Len(rows) -> Nat] /\ falls \in [1..Len(rows) -> Int]
               /\ spentSince(rows, since) \in Nat
  <1> DEFINE n == Len(rows)
             falls == [i \in 1..n |-> Fall(rows, since, i)]
  <1>1. n \in Nat /\ DOMAIN rows = 1..n /\ \A i \in 1..n : rows[i].amount \in Int
    BY LenProperties, ElementOfSeq DEF IsTable
  <1>2. spentSince(rows, since) = Total(falls)
    BY <1>1 DEF spentSince, Fall
  <1> HIDE DEF n
  <1>3. ASSUME NEW i \in 1..n PROVE Fall(rows, since, i) \in Nat
    <2>1. CASE i = 1 \/ rows[i].t < since
      BY <2>1 DEF Fall
    <2>2. CASE ~(i = 1 \/ rows[i].t < since)
      <3>1. i - 1 \in 1..n
        BY <1>1, <2>2
      <3>2. rows[i - 1].amount - rows[i].amount \in Int
        BY <1>1, <3>1
      <3> QED
        BY <2>2, <3>2, AtLeastZeroIs, Zenon DEF Fall
    <2> QED
      BY <2>1, <2>2
  <1>4. falls \in [1..n -> Nat] /\ falls \in [1..n -> Int]
    <2>1. \A i \in 1..n : Fall(rows, since, i) \in Int
      BY <1>3
    <2> QED
      BY <1>3, <2>1
  <1> HIDE DEF falls
  <1>5. Total(falls) \in Nat
    BY <1>1, <1>4, TotalNat
  <1> QED
    BY <1>2, <1>4, <1>5 DEF n, falls

\* The baseline of 24 hours is a row that no other is nearer than, to a day
\* before the last row.
LEMMA BaselineIs ==
    ASSUME NEW Row, Dated(Row), NEW rows, IsTable(rows, Row), rows # <<>>
    PROVE  LET far(i) == Distance(rows[i].t, Last(rows).t - Day)
           IN  \E b \in DOMAIN rows :
                  /\ Baseline(rows) = rows[b]
                  /\ \A j \in DOMAIN rows : far(b) < far(j) \/ (far(b) = far(j) /\ b <= j)
  <1> DEFINE far(i) == Distance(rows[i].t, Last(rows).t - Day)
             nearest(i) == \A j \in DOMAIN rows :
                              far(i) < far(j) \/ (far(i) = far(j) /\ i <= j)
             distances == {far(i) : i \in DOMAIN rows}
  <1>1. DOMAIN rows \in SUBSET Nat /\ DOMAIN rows # {} /\ \A i \in DOMAIN rows : far(i) \in Nat
    <2>1. Last(rows).t \in Int /\ Day \in Int /\ DOMAIN rows = 1..Len(rows) /\ Len(rows) \in Nat \ {0}
      BY LastIs, MonthIsLong DEF Dated
    <2>2. ASSUME NEW i \in DOMAIN rows PROVE far(i) \in Nat
      <3>1. rows[i].t \in Int
        BY <2>1, ElementOfSeq DEF IsTable, Dated
      <3> QED
        BY <2>1, <3>1 DEF Distance
    <2> QED
      BY <2>1, <2>2
  <1> HIDE DEF far
  <1>2. PICK a \in DOMAIN rows : \A j \in DOMAIN rows : far(a) <= far(j)
    <2>1. distances \in SUBSET Nat /\ distances # {}
      BY <1>1
    <2>2. PICK d \in distances : \A e \in distances : d <= e
      <3> HIDE DEF distances
      <3> QED
        BY <2>1, LeastNat
    <2>3. PICK i \in DOMAIN rows : far(i) = d
      BY <2>2
    <2> QED
      BY <2>2, <2>3
  <1> DEFINE near == {i \in DOMAIN rows : far(i) = far(a)}
  <1>3. PICK b \in near : \A j \in near : b <= j
    <2>1. near \in SUBSET Nat /\ near # {}
      BY <1>1, <1>2
    <2> HIDE DEF near
    <2> QED
      BY <2>1, LeastNat
  <1>4. b \in DOMAIN rows /\ far(b) = far(a)
    BY <1>3
  <1>5. ASSUME NEW j \in DOMAIN rows PROVE far(b) < far(j) \/ (far(b) = far(j) /\ b <= j)
    <2>1. far(b) \in Nat /\ far(j) \in Nat /\ far(b) <= far(j)
      BY <1>1, <1>2, <1>4
    <2>2. far(b) = far(j) => j \in near
      BY <1>4
    <2> HIDE DEF near
    <2> QED
      BY <1>3, <2>1, <2>2
  <1> DEFINE c == CHOOSE i \in DOMAIN rows : nearest(i)
  <1>6. c \in DOMAIN rows /\ nearest(c)
    <2>1. \E i \in DOMAIN rows : nearest(i)
      BY <1>4, <1>5
    <2> HIDE DEF nearest
    <2> QED
      BY <2>1, Zenon
  <1>7. Baseline(rows) = rows[c]
    BY Zenon DEF Baseline, far
  <1> HIDE DEF c
  <1> QED
    BY <1>6, <1>7 DEF far

LEMMA Spent24Nat ==
    ASSUME NEW Row, Dated(Row), \A r \in Row : r.amount \in Int,
           NEW rows, IsTable(rows, Row)
    PROVE  Spent24(rows) \in Nat
  <1>1. CASE rows = <<>>
    BY <1>1 DEF Spent24
  <1>2. CASE rows # <<>>
    <2>1. PICK b \in DOMAIN rows : Baseline(rows) = rows[b]
      BY <1>2, BaselineIs
    <2>2. Baseline(rows) \in Row /\ Last(rows) \in Row
      BY <1>2, <2>1, LastIs, ElementOfSeq DEF IsTable
    <2>3. Baseline(rows).amount - Last(rows).amount \in Int
      BY <2>2
    <2> QED
      BY <1>2, <2>3, AtLeastZeroIs, Zenon DEF Spent24
  <1> QED
    BY <1>1, <1>2

\* The types that every step keeps: the clock, the calls, the tables and their
\* order.
LEMMA TypedHolds == Spec => []Typed
  <1>1. Init => Typed
    <2> SUFFICES ASSUME Init PROVE Typed
      OBVIOUS
    <2>1. Scalars
      <3>1. 0 \in 0..Horizon /\ 0 \in 0..MaxMoves /\ Day \in Nat /\ 0 \in Nat /\ 0 \in Int
        BY AccountingAssumption
      <3> QED
        BY <3>1, Zenon DEF Init, Scalars
    <2>2. Calls
      BY DEF Init, Calls, NoCheck, NoRequest, None
    <2>3. \A Row : IsTable(<<>>, Row)
      BY EmptySeq DEF IsTable, InOrder
    <2>4. Tables
      BY <2>3 DEF Init, Tables
    <2>5. CheckIsLatest
      BY DEF Init, CheckIsLatest, Idle, NoCheck
    <2> QED
      BY <2>1, <2>2, <2>4, <2>5 DEF Typed
  <1>2. Typed /\ [Next]_vars => Typed'
    BY ScalarsStep, CallsStep, TablesStep, LatestStep DEF Typed
  <1> QED
    BY <1>1, <1>2, PTL DEF Spec

\* Every variable keeps its type, the tables stay ordered by time however checks,
\* prunes, failures and restarts follow one another, and no figure is negative.
THEOREM FiguresTypeCorrect == Spec => []TypeOK
  <1>1. Typed => TypeOK
    <2> SUFFICES ASSUME Typed PROVE TypeOK
      OBVIOUS
    <2>1. now \in Int /\ MonthStart(now) \in Int
      <3>1. now \in Int
        BY DEF Typed, Scalars
      <3> QED
        BY <3>1, CalendarIs
    <2>2. Dated(TrafficRow) /\ Dated(BalanceRow) /\ Tables
      BY <2>1, RowsAreDated DEF Typed
    <2>3. TodayTraffic(trafficSamples, now) \in Nat
      BY <2>1, <2>2, TodayTrafficNat DEF Tables, TrafficRow
    <2>4. /\ spentSince(balanceSamples, MonthStart(now)) \in Nat
          /\ Spent24(balanceSamples) \in Nat
      <3>1. IsTable(balanceSamples, BalanceRow) /\ \A r \in BalanceRow : r.amount \in Int
        BY <2>2 DEF Tables, BalanceRow
      <3> QED
        BY <2>1, <2>2, <3>1, SpentSinceIs, Spent24Nat
    <2> QED
      BY <2>3, <2>4 DEF Typed, Scalars, Calls, Tables, IsTable, TypeOK, TrafficRow, BalanceRow,
                        StopRow
  <1> QED
    BY <1>1, TypedHolds, PTL

-----------------------------------------------------------------------------
(* The tables are bounded.                                                 *)

NoEarlier(rows, t) == \A i \in DOMAIN rows : rows[i].t >= t

LastPrune == nextPrune - Day

\* While the process is up its last prune is at most a day back, and the tables
\* have no row that it would have deleted.
PrunedInTime ==
    up => /\ LastPrune <= now /\ now <= nextPrune
          /\ ~missed => /\ NoEarlier(trafficSamples, PreviousMonthStart(LastPrune))
                        /\ NoEarlier(balanceSamples, PreviousMonthStart(LastPrune))
                        /\ NoEarlier(stopEvents, LastPrune - Window * Day)

\* A new row that is later than the term keeps a table within the term.
LEMMA GrowsInTerm ==
    ASSUME NEW Row, Dated(Row), NEW rows, IsTable(rows, Row), NEW row \in Row,
           NoLater(rows, row.t), NEW t \in Int, NoEarlier(rows, t), row.t >= t
    PROVE  NoEarlier(Append(rows, row), t)
  <1> DEFINE n == Len(rows)
             longer == Append(rows, row)
  <1>1. /\ IsTable(longer, Row) /\ Len(longer) = n + 1
        /\ \A i \in 1..n : longer[i] = rows[i]
        /\ longer[n + 1] = row
    BY TableGrows
  <1>2. n \in Nat /\ DOMAIN longer = 1..(n + 1) /\ DOMAIN rows = 1..n
    BY <1>1, LenProperties DEF IsTable
  <1> HIDE DEF n, longer
  <1>3. ASSUME NEW i \in 1..(n + 1) PROVE longer[i].t >= t
    <2>1. CASE i \in 1..n
      BY <1>1, <1>2, <2>1 DEF NoEarlier
    <2>2. CASE i = n + 1
      BY <1>1, <2>2
    <2> QED
      BY <1>2, <2>1, <2>2
  <1> QED
    BY <1>2, <1>3 DEF NoEarlier, longer

\* What is stored now is within the terms of the last prune: a check that runs
\* began at most a tick ago.
LEMMA NewRowsInTerm ==
    ASSUME Typed, PrunedInTime, up, ~Idle, NEW t \in Int, t >= check.t
    PROVE  /\ t >= PreviousMonthStart(LastPrune) /\ t >= LastPrune - Window * Day
           /\ LastPrune \in Int /\ PreviousMonthStart(LastPrune) \in Int
           /\ LastPrune - Window * Day \in Int
  <1>1. /\ now \in Int /\ LastPrune \in Int /\ check.t \in Int /\ LastPrune <= now
        /\ now <= check.t + 1
    BY MonthIsLong DEF Typed, Scalars, Calls, CheckIsLatest, PrunedInTime, LastPrune
  <1>2. /\ PreviousMonthStart(LastPrune) \in Int
        /\ PreviousMonthStart(LastPrune) = MonthStart(LastPrune) - Month * Day
        /\ MonthStart(LastPrune) <= LastPrune /\ MonthStart(LastPrune) \in Int
    BY <1>1, CalendarIs
  <1>3. /\ Month * Day \in Nat /\ 1 <= Month * Day
        /\ Window * Day \in Nat /\ 1 <= Window * Day
    BY MonthIsLong
  <1>4. t >= LastPrune - 1
    BY <1>1
  <1> QED
    BY <1>1, <1>2, <1>3, <1>4

LEMMA PrunedStep == Typed /\ Scalars' /\ PrunedInTime /\ [Next]_vars => PrunedInTime'
  <1> SUFFICES ASSUME Typed, Scalars', PrunedInTime, [Next]_vars PROVE PrunedInTime'
    OBVIOUS
  <1>0. /\ now \in Nat /\ nextPrune \in Nat /\ Scalars /\ Tables /\ check.t \in Nat
        /\ Dated(TrafficRow) /\ Dated(BalanceRow) /\ Dated(StopRow)
    <2>1. Scalars /\ Tables /\ now \in Nat /\ nextPrune \in Nat /\ check.t \in Nat
      BY DEF Typed, Scalars, Calls
    <2> QED
      BY <2>1, RowsAreDated
  <1>1. CASE Tick
    <2>1. /\ now' = now + 1 /\ UNCHANGED <<up, missed, nextPrune>>
          /\ up => nextPrune > now
          /\ UNCHANGED <<trafficSamples, balanceSamples, stopEvents>>
      BY <1>1 DEF Tick, ticker, tables
    <2>2. up => LastPrune <= now + 1 /\ now + 1 <= nextPrune
      BY <1>0, <2>1, MonthIsLong DEF PrunedInTime, LastPrune
    <2>3. LastPrune' = LastPrune
      BY <2>1 DEF LastPrune
    <2> QED
      BY <2>1, <2>2, <2>3, Zenon DEF PrunedInTime
  <1>2. CASE /\ UNCHANGED <<now, up, missed, nextPrune>>
             /\ UNCHANGED <<trafficSamples, balanceSamples, stopEvents>>
    <2>1. LastPrune' = LastPrune
      BY <1>2 DEF LastPrune
    <2> QED
      BY <1>2, <2>1, Zenon DEF PrunedInTime
  <1>3. CASE AddBalance
    <2> DEFINE row == [t |-> check.t, amount |-> balance, paid |-> paid, refilled |-> refilled]
    <2>1. /\ ~Idle /\ balanceSamples' = Append(balanceSamples, row)
          /\ UNCHANGED <<now, trafficSamples, stopEvents, up, missed, nextPrune>>
      BY <1>3 DEF AddBalance, InCheck, Idle, meters, ticker
    <2>2. row \in BalanceRow /\ row.t = check.t
      BY DEF Typed, Scalars, Calls, BalanceRow
    <2>3. NoLater(balanceSamples, row.t) /\ IsTable(balanceSamples, BalanceRow)
      BY <1>0, <2>1, <2>2 DEF Typed, CheckIsLatest, Tables
    <2> HIDE DEF row
    <2>4. up /\ ~missed => NoEarlier(balanceSamples', PreviousMonthStart(LastPrune))
      BY <1>0, <2>1, <2>2, <2>3, NewRowsInTerm, GrowsInTerm DEF PrunedInTime
    <2>5. LastPrune' = LastPrune
      BY <2>1 DEF LastPrune
    <2> QED
      BY <2>1, <2>4, <2>5, Zenon DEF PrunedInTime
  <1>4. CASE AddTraffic
    <2> DEFINE row == [t |-> check.t, gb |-> traffic]
    <2>1. /\ ~Idle /\ trafficSamples' = Append(trafficSamples, row)
          /\ UNCHANGED <<now, balanceSamples, stopEvents, up, missed, nextPrune>>
      BY <1>4 DEF AddTraffic, InCheck, Idle, meters, ticker
    <2>2. row \in TrafficRow /\ row.t = check.t
      BY DEF Typed, Scalars, Calls, TrafficRow
    <2>3. NoLater(trafficSamples, row.t) /\ IsTable(trafficSamples, TrafficRow)
      BY <1>0, <2>1, <2>2 DEF Typed, CheckIsLatest, Tables
    <2> HIDE DEF row
    <2>4. up /\ ~missed => NoEarlier(trafficSamples', PreviousMonthStart(LastPrune))
      BY <1>0, <2>1, <2>2, <2>3, NewRowsInTerm, GrowsInTerm DEF PrunedInTime
    <2>5. LastPrune' = LastPrune
      BY <2>1 DEF LastPrune
    <2> QED
      BY <2>1, <2>4, <2>5, Zenon DEF PrunedInTime
  <1>5. CASE Record /\ stopEvents' # stopEvents
    <2>1. PICK row \in StopRow :
                stopEvents' = Append(stopEvents, row) /\ row.t >= check.t /\ row.t \in Int
      <3>1. PICK kind \in Kind, t \in check.t..now :
                  stopEvents' = Append(stopEvents, [t |-> t, kind |-> kind])
        BY <1>5 DEF Record, Kind
      <3>2. check.t \in 0..now
        BY DEF Typed, Calls
      <3>3. t \in 0..now /\ t >= check.t
        BY <1>0, <3>2
      <3>4. [t |-> t, kind |-> kind] \in StopRow
        BY <3>3 DEF StopRow
      <3> QED
        BY <3>1, <3>3, <3>4
    <2>2. ~Idle /\ UNCHANGED <<now, trafficSamples, balanceSamples, up, missed, nextPrune>>
      BY <1>5 DEF Record, InCheck, Idle, meters, ticker
    <2>3. NoLater(stopEvents, row.t) /\ IsTable(stopEvents, StopRow)
      <3>1. NoLater(stopEvents, check.t) /\ IsTable(stopEvents, StopRow)
        BY <1>0, <2>2 DEF Typed, CheckIsLatest, Tables
      <3>2. \A i \in DOMAIN stopEvents : stopEvents[i].t \in Int
        BY <1>0, <3>1, LenProperties, ElementOfSeq DEF IsTable, Dated
      <3> QED
        BY <1>0, <2>1, <3>1, <3>2 DEF NoLater
    <2>4. up /\ ~missed => NoEarlier(stopEvents', LastPrune - Window * Day)
      BY <1>0, <2>1, <2>2, <2>3, NewRowsInTerm, GrowsInTerm DEF PrunedInTime
    <2>5. LastPrune' = LastPrune
      BY <2>2 DEF LastPrune
    <2> QED
      BY <2>2, <2>4, <2>5, Zenon DEF PrunedInTime
  <1>6. CASE dailyMaintenance \/ Start
    <2>1. UNCHANGED now /\ nextPrune' = now + Day /\ (Prune \/ missed')
      BY <1>6 DEF dailyMaintenance, Start, meters
    <2>2. LastPrune' = now /\ now' <= nextPrune'
      <3>1. Day \in Nat
        BY MonthIsLong
      <3>2. (now + Day) - Day = now /\ now <= now + Day
        BY <1>0, <3>1
      <3>3. LastPrune' = (now + Day) - Day
        BY <2>1, Zenon DEF LastPrune
      <3> QED
        BY <2>1, <3>2, <3>3, Zenon
    <2>3. Prune => /\ NoEarlier(trafficSamples', PreviousMonthStart(now))
                   /\ NoEarlier(balanceSamples', PreviousMonthStart(now))
                   /\ NoEarlier(stopEvents', now - Window * Day)
      <3>1. ASSUME NEW Row, Dated(Row), NEW rows, IsTable(rows, Row), NEW cutoff \in Int
            PROVE  NoEarlier(Since(rows, cutoff), cutoff)
        BY <3>1, TableKept DEF NoEarlier
      <3>2. PreviousMonthStart(now) \in Int /\ now - Window * Day \in Int
        BY <1>0, CutoffsAre
      <3> QED
        BY <1>0, <3>1, <3>2 DEF Prune, Tables
    <2>4. now <= now
      BY <1>0
    <2> QED
      BY <2>1, <2>2, <2>3, <2>4, Zenon DEF PrunedInTime
  <1>7. CASE Crash
    BY <1>7 DEF Crash, PrunedInTime
  <1>8. CASE BeginCheck \/ CheckFails \/ ReadResult \/ ReadSamples \/ Answer \/ UNCHANGED vars
    BY <1>2, <1>8 DEF BeginCheck, CheckFails, ReadResult, ReadSamples, Answer, meters, ticker,
                      tables, vars
  <1>9. CASE Record /\ stopEvents' = stopEvents
    BY <1>2, <1>9 DEF Record, InCheck, meters, ticker
  <1> QED
    BY <1>1, <1>3, <1>4, <1>5, <1>6, <1>7, <1>8, <1>9 DEF Next

\* Nothing is kept for more than a day beyond its term while the process is up and
\* its prunes succeed, whatever checks do beside them and however long it was down.
THEOREM TablesAreBounded == Spec => []RowsAreBounded
  <1>1. Init => PrunedInTime
    <2> SUFFICES ASSUME Init PROVE PrunedInTime
      OBVIOUS
    <2>1. now = 0 /\ nextPrune = Day /\ Day \in Nat
      BY MonthIsLong DEF Init
    <2>2. LastPrune <= now /\ now <= nextPrune
      BY <2>1 DEF LastPrune
    <2>3. \A t : NoEarlier(<<>>, t)
      BY DEF NoEarlier
    <2> QED
      BY <2>2, <2>3, Zenon DEF Init, PrunedInTime
  <1>2. Typed /\ PrunedInTime => RowsAreBounded
    <2> SUFFICES ASSUME Typed, PrunedInTime, up, ~missed PROVE RowsAreBounded
      BY DEF RowsAreBounded
    <2>1. now \in Int /\ now - Day \in Int /\ LastPrune \in Int /\ now - Day <= LastPrune
      BY MonthIsLong DEF Typed, Scalars, PrunedInTime, LastPrune
    <2>2. /\ PreviousMonthStart(now - Day) <= PreviousMonthStart(LastPrune)
          /\ PreviousMonthStart(now - Day) \in Int /\ PreviousMonthStart(LastPrune) \in Int
          /\ (now - Day) - Window * Day <= LastPrune - Window * Day
          /\ (now - Day) - Window * Day \in Int /\ LastPrune - Window * Day \in Int
      <3>1. \A t, u \in Int : t <= u =>
                /\ PreviousMonthStart(t) <= PreviousMonthStart(u)
                /\ PreviousMonthStart(t) \in Int /\ PreviousMonthStart(u) \in Int
        BY CalendarIs, MonthsInOrder
      <3>2. \A t, u \in Int : t <= u =>
                /\ t - Window * Day <= u - Window * Day
                /\ t - Window * Day \in Int /\ u - Window * Day \in Int
        BY MonthIsLong
      <3> QED
        BY <2>1, <3>1, <3>2, Zenon
    <2>3. ASSUME NEW Row, Dated(Row), NEW rows, IsTable(rows, Row), NEW t \in Int, NEW u \in Int,
                 t <= u, NoEarlier(rows, u)
          PROVE  NoEarlier(rows, t)
      <3>1. \A i \in DOMAIN rows : rows[i].t \in Int
        BY <2>3, LenProperties, ElementOfSeq DEF IsTable, Dated
      <3> QED
        BY <2>3, <3>1 DEF NoEarlier
    <2>4. Dated(TrafficRow) /\ Dated(BalanceRow) /\ Dated(StopRow) /\ Tables
      BY <2>1, RowsAreDated DEF Typed
    <2>5. /\ NoEarlier(trafficSamples, PreviousMonthStart(now - Day))
          /\ NoEarlier(balanceSamples, PreviousMonthStart(now - Day))
          /\ NoEarlier(stopEvents, (now - Day) - Window * Day)
      BY <2>2, <2>3, <2>4 DEF Tables, PrunedInTime
    <2> QED
      BY <2>5, Zenon DEF RowsAreBounded, NoEarlier
  <1>3. Typed /\ Typed' /\ PrunedInTime /\ [Next]_vars => PrunedInTime'
    BY PrunedStep DEF Typed
  <1> QED
    BY <1>1, <1>2, <1>3, TypedHolds, PTL DEF Spec

-----------------------------------------------------------------------------
(* A page shows no balance older than its result.                          *)

\* The newest balance sample is at least as recent as a result, or the result is
\* older than what is kept.
Backed(result) ==
    \/ result = None \/ result < PreviousMonthStart(now)
    \/ balanceSamples # <<>> /\ Last(balanceSamples).t >= result

ResultsAreBacked ==
    /\ Backed(lastResult)
    /\ check.at \in {"traffic", "record"} /\ check.full =>
          balanceSamples # <<>> /\ Last(balanceSamples).t >= check.t
    /\ dash.at = "samples" => Backed(dash.result)
    /\ ShownIsNoOlder

\* A prune keeps the last row unless it deletes all.
LEMMA LastIsKept ==
    ASSUME NEW Row, Dated(Row), NEW rows, IsTable(rows, Row), rows # <<>>,
           NEW cutoff \in Int, Last(rows).t >= cutoff
    PROVE  Since(rows, cutoff) # <<>> /\ Last(Since(rows, cutoff)) = Last(rows)
  <1> DEFINE n == Len(rows)
             k == OlderThan(rows, cutoff)
             kept == Since(rows, cutoff)
  <1>1. n \in Nat \ {0} /\ Last(rows) = rows[n] /\ Last(rows).t \in Int
    BY LastIs DEF Dated
  <1>2. k \in 0..n /\ \A i \in 1..n : rows[i].t < cutoff <=> i <= k
    BY OlderComeFirst
  <1>3. /\ IsTable(kept, Row) /\ Len(kept) = n - k
        /\ \A i \in 1..(n - k) : kept[i] = rows[i + k]
    BY SinceIs
  <1> HIDE DEF n, k, kept
  <1>4. n - k \in 1..(n - k) /\ (n - k) + k = n
    BY <1>1, <1>2
  <1>5. kept # <<>>
    BY <1>3, <1>4, EmptySeq
  <1>6. kept[n - k] = rows[n]
    BY <1>3, <1>4
  <1> QED
    BY <1>1, <1>3, <1>5, <1>6 DEF Last, kept

\* A prune deletes no balance that a result kept needs.
LEMMA PruneKeepsBacked ==
    ASSUME Typed, Prune, UNCHANGED now
    PROVE  /\ \A result \in {None} \cup (0..now) : Backed(result) => Backed(result)'
           /\ \A t \in Int : t >= PreviousMonthStart(now)
                             /\ balanceSamples # <<>> /\ Last(balanceSamples).t >= t
                 => balanceSamples' # <<>> /\ Last(balanceSamples').t >= t
  <1> DEFINE cutoff == PreviousMonthStart(now)
  <1>1. now \in Int /\ cutoff \in Int
    BY CutoffsAre DEF Typed
  <1>2. Dated(BalanceRow) /\ IsTable(balanceSamples, BalanceRow)
    BY <1>1, RowsAreDated DEF Typed, Tables
  <1>3. balanceSamples' = Since(balanceSamples, cutoff)
    BY DEF Prune
  <1>4. balanceSamples # <<>> => Last(balanceSamples).t \in Int
    BY <1>2, LastIs DEF Dated
  <1>5. PreviousMonthStart(now)' = cutoff
    BY DEF PreviousMonthStart, MonthStart
  <1> HIDE DEF cutoff
  <1>6. balanceSamples # <<>> /\ Last(balanceSamples).t >= cutoff
           => balanceSamples' # <<>> /\ Last(balanceSamples') = Last(balanceSamples)
    BY <1>1, <1>2, <1>3, LastIsKept
  <1>7. ASSUME NEW t \in Int, t >= cutoff, balanceSamples # <<>>, Last(balanceSamples).t >= t
        PROVE  balanceSamples' # <<>> /\ Last(balanceSamples').t >= t
    <2>1. Last(balanceSamples).t >= cutoff
      BY <1>1, <1>4, <1>7
    <2> QED
      BY <1>6, <1>7, <2>1
  <1>8. ASSUME NEW result \in {None} \cup (0..now), Backed(result)
        PROVE  Backed(result)'
    <2>1. result \in Int /\ None \in Int
      BY <1>1 DEF None
    <2>2. CASE result = None \/ result < cutoff
      BY <1>5, <2>2, Zenon DEF Backed
    <2>3. CASE ~(result = None \/ result < cutoff)
      <3>1. balanceSamples # <<>> /\ Last(balanceSamples).t >= result
        BY <1>8, <2>3 DEF Backed, cutoff
      <3>2. result >= cutoff
        BY <1>1, <2>1, <2>3
      <3>3. balanceSamples' # <<>> /\ Last(balanceSamples').t >= result
        BY <1>7, <2>1, <3>1, <3>2
      <3> QED
        BY <3>3, Zenon DEF Backed
    <2> QED
      BY <2>2, <2>3
  <1> QED
    BY <1>7, <1>8 DEF cutoff

LEMMA BackedStep == Typed /\ Typed' /\ ResultsAreBacked /\ [Next]_vars => ResultsAreBacked'
  <1> SUFFICES ASSUME Typed, Typed', ResultsAreBacked, [Next]_vars PROVE ResultsAreBacked'
    OBVIOUS
  <1>0. /\ now \in Nat /\ Dated(BalanceRow) /\ IsTable(balanceSamples, BalanceRow)
        /\ lastResult \in {None} \cup (0..now) /\ dash.result \in {None} \cup (0..now)
        /\ dash.updated \in {None} \cup (0..now) /\ check.t \in 0..now
        /\ PreviousMonthStart(now) \in Int /\ MonthStart(now) \in Int
    <2>1. now \in Nat
      BY DEF Typed, Scalars
    <2>2. Dated(BalanceRow) /\ PreviousMonthStart(now) \in Int /\ MonthStart(now) \in Int
      BY <2>1, RowsAreDated, CalendarIs
    <2> QED
      BY <2>1, <2>2 DEF Typed, Calls, Tables
  <1>1. CASE Tick
    <2>1. /\ now' = now + 1 /\ UNCHANGED <<check, dash, lastResult, balanceSamples>>
      BY <1>1 DEF Tick, tables
    <2>2. PreviousMonthStart(now) <= PreviousMonthStart(now + 1)
          /\ PreviousMonthStart(now + 1) \in Int
      <3>1. now \in Int /\ now + 1 \in Int /\ now <= now + 1
        BY <1>0
      <3> QED
        BY <3>1, CalendarIs, MonthsInOrder, Zenon
    <2>3. \A result \in {None} \cup (0..now) :
             result < PreviousMonthStart(now) => result < PreviousMonthStart(now + 1)
      BY <1>0, <2>2 DEF None
    <2>4. PreviousMonthStart(now)' = PreviousMonthStart(now + 1)
      BY <2>1 DEF PreviousMonthStart, MonthStart
    <2>5. \A result \in {None} \cup (0..now) : Backed(result) => Backed(result)'
      BY <2>1, <2>3, <2>4, Zenon DEF Backed
    <2>6. ShownIsNoOlder'
      BY <1>0, <2>1, <2>3, <2>4, Zenon DEF ShownIsNoOlder, ResultsAreBacked
    <2>7. Backed(lastResult)' /\ (dash'.at = "samples" => Backed(dash.result)')
      BY <1>0, <2>1, <2>5, Zenon DEF ResultsAreBacked, Backed
    <2> QED
      BY <2>1, <2>6, <2>7, Zenon DEF ResultsAreBacked
  <1>2. CASE UNCHANGED <<now, balanceSamples>> /\ (BeginCheck \/ AddTraffic \/ CheckFails)
    <2>1. /\ UNCHANGED <<dash, lastResult>>
          /\ check'.at \in {"traffic", "record"} /\ check'.full =>
                check.at \in {"traffic", "record"} /\ check.full /\ check'.t = check.t
      BY <1>2 DEF BeginCheck, AddTraffic, CheckFails, InCheck, Goto, NoCheck, tables, Typed, Calls
    <2>2. PreviousMonthStart(now)' = PreviousMonthStart(now)
      BY <1>2 DEF PreviousMonthStart, MonthStart
    <2> QED
      BY <1>2, <2>1, <2>2, Zenon DEF ResultsAreBacked, Backed, ShownIsNoOlder
  <1>3. CASE AddBalance
    <2> DEFINE row == [t |-> check.t, amount |-> balance, paid |-> paid, refilled |-> refilled]
    <2>1. /\ ~Idle /\ balanceSamples' = Append(balanceSamples, row) /\ check'.t = check.t
          /\ UNCHANGED <<now, dash, lastResult>>
      BY <1>3 DEF AddBalance, InCheck, Idle, Goto, meters, Typed, Calls
    <2>2. row \in BalanceRow /\ row.t = check.t
      BY DEF Typed, Scalars, Calls, BalanceRow
    <2>3. NoLater(balanceSamples, row.t)
      BY <2>1, <2>2 DEF Typed, CheckIsLatest
    <2> HIDE DEF row
    <2>4. balanceSamples' # <<>> /\ Last(balanceSamples') = row
      <3>1. /\ IsTable(balanceSamples', BalanceRow)
            /\ Len(balanceSamples') = Len(balanceSamples) + 1
            /\ balanceSamples'[Len(balanceSamples) + 1] = row
        BY <1>0, <2>1, <2>2, <2>3, TableGrows
      <3>2. balanceSamples' # <<>>
        BY <1>0, <2>1, <2>2, AppendProperties DEF IsTable
      <3> QED
        BY <3>1, <3>2 DEF Last
    <2>5. Last(balanceSamples').t = check.t /\ check.t <= check.t
      BY <1>0, <2>2, <2>4
    <2>6. balanceSamples # <<>> => Last(balanceSamples).t <= check.t
      <3>1. balanceSamples # <<>> => Last(balanceSamples) = balanceSamples[Len(balanceSamples)]
                                     /\ Len(balanceSamples) \in DOMAIN balanceSamples
        BY <1>0, LastIs
      <3> QED
        BY <2>2, <2>3, <3>1, Zenon DEF NoLater
    <2>7. \A result \in {None} \cup (0..now) :
             balanceSamples # <<>> /\ Last(balanceSamples).t >= result => check.t >= result
      <3>1. balanceSamples # <<>> => Last(balanceSamples).t \in Int
        BY <1>0, LastIs DEF Dated
      <3> QED
        BY <1>0, <2>6, <3>1 DEF None
    <2>8. PreviousMonthStart(now)' = PreviousMonthStart(now)
      BY <2>1 DEF PreviousMonthStart, MonthStart
    <2>9. \A result \in {None} \cup (0..now) : Backed(result) => Backed(result)'
      BY <2>4, <2>5, <2>7, <2>8, Zenon DEF Backed
    <2>10. ShownIsNoOlder'
      BY <2>1, <2>8, Zenon DEF ShownIsNoOlder, ResultsAreBacked
    <2>11. Backed(lastResult)' /\ (dash'.at = "samples" => Backed(dash.result)')
      BY <1>0, <2>1, <2>9, Zenon DEF ResultsAreBacked, Backed
    <2>12. balanceSamples' # <<>> /\ Last(balanceSamples').t >= check'.t
      BY <1>0, <2>1, <2>4, <2>5
    <2> QED
      BY <2>10, <2>11, <2>12, Zenon DEF ResultsAreBacked
  <1>4. CASE Record
    <2>1. /\ UNCHANGED <<now, dash, balanceSamples>> /\ check.at = "record"
          /\ lastResult' = (IF check.full THEN check.t ELSE lastResult)
          /\ check'.at = "idle"
      BY <1>4 DEF Record, InCheck, NoCheck, meters
    <2>2. PreviousMonthStart(now)' = PreviousMonthStart(now)
      BY <2>1 DEF PreviousMonthStart, MonthStart
    <2>3. ShownIsNoOlder' /\ (dash'.at = "samples" => Backed(dash.result)')
      BY <2>1, <2>2, Zenon DEF ShownIsNoOlder, ResultsAreBacked, Backed
    <2>4. Backed(lastResult)'
      <3>1. CASE check.full
        BY <2>1, <3>1, Zenon DEF ResultsAreBacked, Backed
      <3>2. CASE ~check.full
        BY <2>1, <2>2, <3>2, Zenon DEF ResultsAreBacked, Backed
      <3> QED
        BY <3>1, <3>2
    <2> QED
      BY <2>1, <2>3, <2>4 DEF ResultsAreBacked
  <1>5. CASE (dailyMaintenance \/ Start) /\ Prune
    <2>1. UNCHANGED <<now, check, dash, lastResult>>
      BY <1>5 DEF dailyMaintenance, Start, meters
    <2>2. \A result \in {None} \cup (0..now) : Backed(result) => Backed(result)'
      BY <1>5, <2>1, PruneKeepsBacked
    <2>3. check.at \in {"traffic", "record"} /\ check.full =>
             balanceSamples' # <<>> /\ Last(balanceSamples').t >= check.t
      <3>1. check.at \in {"traffic", "record"} => check.t >= PreviousMonthStart(now)
        <4>1. check.at \in {"traffic", "record"} => now <= check.t + 1
          BY DEF Typed, CheckIsLatest, Idle
        <4>2. PreviousMonthStart(now) <= now - 1
          <5>1. /\ PreviousMonthStart(now) = MonthStart(now) - Month * Day
                /\ MonthStart(now) <= now /\ Month * Day \in Nat /\ 1 <= Month * Day
            BY <1>0, CalendarIs, MonthIsLong
          <5> QED
            BY <1>0, <5>1
        <4> QED
          BY <1>0, <4>1, <4>2
      <3>2. check.t \in Int
        BY <1>0
      <3> QED
        BY <1>5, <2>1, <3>1, <3>2, PruneKeepsBacked, Zenon DEF ResultsAreBacked
    <2>4. PreviousMonthStart(now)' = PreviousMonthStart(now)
      BY <2>1 DEF PreviousMonthStart, MonthStart
    <2>5. ShownIsNoOlder'
      BY <2>1, <2>4, Zenon DEF ShownIsNoOlder, ResultsAreBacked
    <2>6. Backed(lastResult)' /\ (dash'.at = "samples" => Backed(dash.result)')
      BY <1>0, <2>1, <2>2, Zenon DEF ResultsAreBacked, Backed
    <2> QED
      BY <2>1, <2>3, <2>5, <2>6, Zenon DEF ResultsAreBacked
  <1>6. CASE UNCHANGED <<now, balanceSamples, lastResult>>
             /\ (Crash \/ ReadResult \/ ReadSamples \/ Answer)
    <2>1. PreviousMonthStart(now)' = PreviousMonthStart(now)
      BY <1>6 DEF PreviousMonthStart, MonthStart
    <2>2. ASSUME NEW result, Backed(result)
          PROVE  Backed(result)'
      BY <1>6, <2>1, <2>2, Zenon DEF Backed
    <2>3. check'.at \in {"traffic", "record"} => check' = check
      BY <1>6 DEF Crash, ReadResult, ReadSamples, Answer, NoCheck
    <2>4. Backed(lastResult)'
      <3>1. Backed(lastResult)
        BY DEF ResultsAreBacked
      <3> QED
        BY <1>6, <2>1, <3>1, Zenon DEF Backed
    <2>5. dash'.at = "samples" => (Backed(dash.result))'
      <3>1. CASE ReadResult
        <4>1. dash'.result = lastResult
          BY <3>1 DEF ReadResult
        <4> QED
          BY <1>6, <2>1, <2>4, <4>1, Zenon DEF Backed
      <3>2. CASE Crash \/ Answer
        BY <3>2 DEF Crash, Answer, NoRequest
      <3>3. CASE ReadSamples
        BY <3>3 DEF ReadSamples, Typed, Calls
      <3> QED
        BY <1>6, <3>1, <3>2, <3>3
    <2>6. ShownIsNoOlder'
      <3>1. CASE ReadSamples
        <4>1. /\ dash.at = "samples" /\ dash'.result = dash.result
              /\ dash'.updated = IF balanceSamples = <<>> THEN None ELSE Last(balanceSamples).t
          BY <3>1 DEF ReadSamples, Typed, Calls
        <4>2. None >= None
          BY DEF None
        <4>3. \/ dash'.updated >= dash'.result
              \/ dash'.result < PreviousMonthStart(now)
          <5>1. Backed(dash.result)
            BY <4>1 DEF ResultsAreBacked
          <5>2. CASE dash.result < PreviousMonthStart(now)
            BY <4>1, <5>2, Zenon
          <5>3. CASE balanceSamples # <<>> /\ Last(balanceSamples).t >= dash.result
            BY <4>1, <5>3, Zenon
          <5>4. CASE dash.result = None
            <6>1. CASE balanceSamples = <<>>
              BY <4>1, <4>2, <5>4, <6>1, Zenon
            <6>2. CASE balanceSamples # <<>>
              <7>1. Last(balanceSamples) \in BalanceRow
                BY <1>0, <6>2, LastIs, Zenon
              <7>2. Last(balanceSamples).t >= None
                BY <1>0, <7>1 DEF None, BalanceRow
              <7> QED
                BY <4>1, <5>4, <6>2, <7>2, Zenon
            <6> QED
              BY <6>1, <6>2
          <5> QED
            BY <5>1, <5>2, <5>3, <5>4 DEF Backed
        <4> QED
          BY <2>1, <4>3, Zenon DEF ShownIsNoOlder
      <3>2. CASE dash'.at # "shown"
        BY <3>2 DEF ShownIsNoOlder
      <3>3. ReadSamples \/ dash'.at # "shown"
        BY <1>6 DEF Crash, ReadResult, ReadSamples, Answer, NoRequest
      <3> QED
        BY <3>1, <3>2, <3>3
    <2>7. check'.at \in {"traffic", "record"} /\ check'.full
             => balanceSamples' # <<>> /\ Last(balanceSamples').t >= check'.t
      BY <1>6, <2>3, Zenon DEF ResultsAreBacked
    <2> QED
      BY <1>6, <2>3, <2>4, <2>5, <2>6, <2>7, Zenon DEF ResultsAreBacked
  <1>7. CASE UNCHANGED <<now, check, dash, lastResult, balanceSamples>>
    <2>1. PreviousMonthStart(now)' = PreviousMonthStart(now)
      BY <1>7 DEF PreviousMonthStart, MonthStart
    <2> QED
      BY <1>7, <2>1, Zenon DEF ResultsAreBacked, Backed, ShownIsNoOlder
  <1>8. CASE dailyMaintenance \/ Start
    BY <1>5, <1>7, <1>8 DEF dailyMaintenance, Start, meters
  <1>9. CASE BeginCheck \/ AddTraffic \/ CheckFails
    BY <1>2, <1>9 DEF BeginCheck, AddTraffic, CheckFails, InCheck, meters, tables
  <1>10. CASE Crash \/ ReadResult \/ ReadSamples \/ Answer
    BY <1>6, <1>10 DEF Crash, ReadResult, ReadSamples, Answer, meters, tables
  <1>11. CASE UNCHANGED vars
    BY <1>7, <1>11 DEF vars
  <1> QED
    BY <1>1, <1>3, <1>4, <1>8, <1>9, <1>10, <1>11 DEF Next

\* A page read while checks store samples and results, and prunes delete them, shows
\* no balance older than its result.
THEOREM PagesAreConsistent == Spec => []ShownIsNoOlder
  <1>1. Init => ResultsAreBacked
    <2> SUFFICES ASSUME Init PROVE ResultsAreBacked
      OBVIOUS
    <2>1. Backed(lastResult)
      BY DEF Init, Backed
    <2>2. check.at = "idle" /\ dash.at = "idle"
      BY DEF Init, NoCheck, NoRequest
    <2> QED
      BY <2>1, <2>2 DEF ResultsAreBacked, ShownIsNoOlder
  <1>2. Typed /\ Typed' /\ ResultsAreBacked /\ [Next]_vars => ResultsAreBacked'
    BY BackedStep
  <1>3. ResultsAreBacked => ShownIsNoOlder
    BY DEF ResultsAreBacked
  <1> QED
    BY <1>1, <1>2, <1>3, TypedHolds, PTL DEF Spec

-----------------------------------------------------------------------------
(* The amounts spent are what was spent.                                   *)

\* From a sample to the next, the balance fell by what was paid and rose by what
\* was refilled.
Accounted(rows) ==
    \A i \in 2..Len(rows) :
        rows[i].amount = rows[i - 1].amount - rows[i].paid + rows[i].refilled

MoneyFlows ==
    /\ Accounted(balanceSamples)
    /\ balanceSamples # <<>> => balance = Last(balanceSamples).amount - paid + refilled

LEMMA AccountedGrows ==
    ASSUME NEW Row, Dated(Row), NEW rows, IsTable(rows, Row), Accounted(rows),
           NEW row \in Row, NoLater(rows, row.t),
           rows # <<>> => row.amount = Last(rows).amount - row.paid + row.refilled
    PROVE  Accounted(Append(rows, row))
  <1> DEFINE longer == Append(rows, row)
             n == Len(rows)
  <1>1. /\ Len(longer) = n + 1 /\ n \in Nat
        /\ (\A i \in 1..n : longer[i] = rows[i]) /\ longer[n + 1] = row
    BY TableGrows, LenProperties DEF IsTable
  <1> HIDE DEF longer
  <1> SUFFICES ASSUME NEW i \in 2..Len(longer)
               PROVE  longer[i].amount = longer[i - 1].amount - longer[i].paid
                                            + longer[i].refilled
    BY DEF Accounted, longer
  <1>2. i - 1 \in 1..n
    BY <1>1
  <1>3. CASE i \in 2..n
    <2>1. i \in 1..n
      BY <1>3
    <2>2. longer[i] = rows[i] /\ longer[i - 1] = rows[i - 1]
      BY <1>1, <1>2, <2>1
    <2> QED
      BY <1>3, <2>2 DEF Accounted
  <1>4. CASE i = n + 1
    <2>1. rows # <<>>
      BY <1>1, <1>2, <1>4, EmptySeq
    <2>2. longer[i] = row /\ longer[i - 1] = rows[n] /\ rows[n] = Last(rows)
      BY <1>1, <1>2, <1>4 DEF Last
    <2> QED
      BY <2>1, <2>2
  <1> QED
    BY <1>1, <1>3, <1>4

LEMMA AccountedKept ==
    ASSUME NEW Row, Dated(Row), NEW rows, IsTable(rows, Row), Accounted(rows),
           NEW t \in Int
    PROVE  /\ Accounted(Since(rows, t))
           /\ Since(rows, t) # <<>> => rows # <<>> /\ Last(Since(rows, t)) = Last(rows)
  <1> DEFINE k == OlderThan(rows, t)
             kept == Since(rows, t)
             n == Len(rows)
  <1>1. /\ IsTable(kept, Row) /\ Len(kept) = n - k
        /\ \A i \in 1..(n - k) : kept[i] = rows[i + k]
    BY SinceIs
  <1>2. k \in 0..n /\ n \in Nat
    BY OlderComeFirst, LenProperties DEF IsTable
  <1> HIDE DEF k, kept
  <1>3. Accounted(kept)
    <2> SUFFICES ASSUME NEW i \in 2..Len(kept)
                 PROVE  kept[i].amount = kept[i - 1].amount - kept[i].paid + kept[i].refilled
      BY DEF Accounted
    <2>1. /\ i \in 1..(n - k) /\ i - 1 \in 1..(n - k) /\ i + k \in 2..n
          /\ (i - 1) + k = (i + k) - 1
      BY <1>1, <1>2
    <2>2. kept[i] = rows[i + k] /\ kept[i - 1] = rows[(i + k) - 1]
      BY <1>1, <2>1
    <2>3. rows[i + k].amount = rows[(i + k) - 1].amount - rows[i + k].paid
                                  + rows[i + k].refilled
      BY <2>1 DEF Accounted
    <2> QED
      BY <2>2, <2>3
  <1>4. ASSUME kept # <<>> PROVE rows # <<>> /\ Last(kept) = Last(rows)
    <2>1. Len(kept) \in Nat \ {0} /\ Last(kept) = kept[Len(kept)]
      BY <1>1, <1>4, LastIs
    <2>2. n - k \in 1..(n - k) /\ (n - k) + k = n /\ n # 0
      BY <1>1, <1>2, <2>1
    <2>3. kept[n - k] = rows[n]
      BY <1>1, <2>2
    <2>4. rows # <<>>
      BY <2>2, EmptySeq
    <2> QED
      BY <1>1, <2>1, <2>3, <2>4 DEF Last
  <1> QED
    BY <1>3, <1>4 DEF kept

LEMMA MoneyFlowsStep == Typed /\ MoneyFlows /\ [Next]_vars => MoneyFlows'
  <1> SUFFICES ASSUME Typed, MoneyFlows, [Next]_vars PROVE MoneyFlows'
    OBVIOUS
  <1>1. /\ Dated(BalanceRow) /\ IsTable(balanceSamples, BalanceRow)
        /\ balance \in Int /\ paid \in Int /\ refilled \in Int
        /\ balanceSamples # <<>> => Last(balanceSamples).amount \in Int
    <2>1. now \in Int
      BY DEF Typed, Scalars
    <2>2. Dated(BalanceRow) /\ IsTable(balanceSamples, BalanceRow)
      BY <2>1, RowsAreDated DEF Typed, Tables
    <2>3. balanceSamples # <<>> => Last(balanceSamples) \in BalanceRow
      BY <2>2, LastIs
    <2> QED
      BY <2>2, <2>3 DEF Typed, Scalars, BalanceRow
  <1>2. CASE UNCHANGED balanceSamples /\ UNCHANGED <<balance, paid, refilled>>
    BY <1>2, Zenon DEF MoneyFlows, Accounted
  <1>3. CASE UNCHANGED balanceSamples /\ (Use \/ Spend \/ Refill)
    <2> DEFINE amount == Last(balanceSamples).amount
    <2>1. CASE Use
      BY <1>2, <1>3, <2>1 DEF Use
    <2>2. CASE Spend
      <3>1. balanceSamples # <<>> => balance - 1 = amount - (paid + 1) + refilled
        BY <1>1 DEF MoneyFlows
      <3>2. balance' = balance - 1 /\ paid' = paid + 1 /\ refilled' = refilled
        BY <2>2 DEF Spend
      <3> QED
        BY <1>3, <3>1, <3>2, Zenon DEF MoneyFlows, Accounted
    <2>3. CASE Refill
      <3>1. balanceSamples # <<>> => balance + 2 = amount - paid + (refilled + 2)
        BY <1>1 DEF MoneyFlows
      <3>2. balance' = balance + 2 /\ paid' = paid /\ refilled' = refilled + 2
        BY <2>3 DEF Refill
      <3> QED
        BY <1>3, <3>1, <3>2, Zenon DEF MoneyFlows, Accounted
    <2> QED
      BY <1>3, <2>1, <2>2, <2>3
  <1>4. CASE Tick
    <2>1. UNCHANGED balanceSamples /\ (NewMonth \/ Meters)
      BY <1>4 DEF Tick, tables
    <2> QED
      BY <1>2, <1>3, <2>1 DEF NewMonth, Meters
  <1>5. CASE AddBalance
    <2> DEFINE row == [t |-> check.t, amount |-> balance, paid |-> paid, refilled |-> refilled]
    <2>1. /\ ~Idle /\ balanceSamples' = Append(balanceSamples, row)
          /\ balance' = balance /\ paid' = 0 /\ refilled' = 0
      BY <1>5 DEF AddBalance, InCheck, Idle, meters
    <2>2. row \in BalanceRow /\ row.t = check.t
      BY DEF Typed, Scalars, Calls, BalanceRow
    <2>3. NoLater(balanceSamples, row.t)
      BY <2>1, <2>2 DEF Typed, CheckIsLatest
    <2>4. balanceSamples # <<>> =>
             row.amount = Last(balanceSamples).amount - row.paid + row.refilled
      BY DEF MoneyFlows
    <2>5. row.amount = balance
      OBVIOUS
    <2> HIDE DEF row
    <2>6. Accounted(Append(balanceSamples, row))
      BY <1>1, <2>2, <2>3, <2>4, AccountedGrows DEF MoneyFlows
    <2>7. Last(Append(balanceSamples, row)) = row
      <3>1. /\ Len(Append(balanceSamples, row)) = Len(balanceSamples) + 1
            /\ Append(balanceSamples, row)[Len(balanceSamples) + 1] = row
        BY <1>1, <2>2, <2>3, TableGrows
      <3> QED
        BY <3>1 DEF Last
    <2>8. balance = row.amount - 0 + 0
      BY <1>1, <2>5
    <2> QED
      BY <2>1, <2>6, <2>7, <2>8, Zenon DEF MoneyFlows, Accounted
  <1>6. CASE (dailyMaintenance \/ Start) /\ Prune
    <2> DEFINE cutoff == PreviousMonthStart(now)
    <2>1. balanceSamples' = Since(balanceSamples, cutoff) /\ cutoff \in Int
      BY <1>6, CutoffsAre DEF Prune, Typed
    <2>2. UNCHANGED <<balance, paid, refilled>>
      BY <1>6 DEF dailyMaintenance, Start, meters
    <2> HIDE DEF cutoff
    <2>3. /\ Accounted(Since(balanceSamples, cutoff))
          /\ Since(balanceSamples, cutoff) # <<>> =>
                balanceSamples # <<>>
                /\ Last(Since(balanceSamples, cutoff)) = Last(balanceSamples)
      BY <1>1, <2>1, AccountedKept DEF MoneyFlows
    <2> QED
      BY <2>1, <2>2, <2>3, Zenon DEF MoneyFlows, Accounted
  <1>7. \/ Tick \/ AddBalance
        \/ (dailyMaintenance \/ Start) /\ Prune
        \/ UNCHANGED balanceSamples /\ UNCHANGED <<balance, paid, refilled>>
    <2>1. CASE BeginCheck \/ CheckFails
      BY <2>1 DEF BeginCheck, CheckFails, tables, meters
    <2>2. CASE AddTraffic \/ Record
      BY <2>2 DEF AddTraffic, Record, InCheck, meters
    <2>3. CASE dailyMaintenance \/ Start
      BY <2>3 DEF dailyMaintenance, Start, meters
    <2>4. CASE Crash \/ ReadResult \/ ReadSamples \/ Answer
      BY <2>4 DEF Crash, ReadResult, ReadSamples, Answer, tables, meters
    <2>5. CASE UNCHANGED vars
      BY <2>5 DEF vars
    <2> QED
      BY <2>1, <2>2, <2>3, <2>4, <2>5 DEF Next
  <1> QED
    BY <1>2, <1>4, <1>5, <1>6, <1>7

LEMMA MoneyFlowsHolds == Spec => []MoneyFlows
  <1>1. Init => MoneyFlows
    BY DEF Init, MoneyFlows, Accounted
  <1>2. Typed /\ MoneyFlows /\ [Next]_vars => MoneyFlows'
    BY MoneyFlowsStep
  <1> QED
    BY <1>1, <1>2, TypedHolds, PTL DEF Spec

\* What was spent after a sample, as a total over the table.
LEMMA PaidAfterIs ==
    ASSUME Typed, NEW k \in Int
    PROVE  LET pays == [i \in 1..Len(balanceSamples) |->
                           IF i > k THEN balanceSamples[i].paid ELSE 0]
           IN  /\ PaidAfter(k) = Total(pays) /\ PaidAfter(k) \in Nat
               /\ pays \in [1..Len(balanceSamples) -> Int]
  <1> DEFINE n == Len(balanceSamples)
             pays == [i \in 1..n |-> IF i > k THEN balanceSamples[i].paid ELSE 0]
  <1>1. n \in Nat /\ DOMAIN balanceSamples = 1..n
    BY LenProperties DEF Typed, Tables, IsTable
  <1>2. \A i \in 1..n : balanceSamples[i].paid \in Nat
    <2>1. balanceSamples \in Seq(BalanceRow) /\ \A r \in BalanceRow : r.paid \in Nat
      BY DEF Typed, Tables, IsTable, BalanceRow
    <2> QED
      BY <1>1, <2>1, ElementOfSeq
  <1>3. PaidAfter(k) = Total(pays)
    BY <1>1 DEF PaidAfter
  <1> HIDE DEF n
  <1>4. pays \in [1..n -> Nat] /\ pays \in [1..n -> Int]
    BY <1>2
  <1> HIDE DEF pays
  <1>5. Total(pays) \in Nat
    BY <1>1, <1>4, TotalNat
  <1> QED
    BY <1>3, <1>4, <1>5 DEF n, pays

\* The fall from a sample to the next is no more than what was paid, and is that
\* if the same sample does not follow a refill.
LEMMA FallIsPaid ==
    ASSUME Typed, MoneyFlows, NEW i \in 2..Len(balanceSamples)
    PROVE  LET row == balanceSamples[i]
               fall == balanceSamples[i - 1].amount - row.amount
           IN  /\ row.paid \in Nat /\ fall \in Int /\ fall <= row.paid
               /\ AtLeastZero(fall) <= row.paid
               /\ ~(row.paid > 0 /\ row.refilled > 0) => AtLeastZero(fall) = row.paid
  <1> DEFINE row == balanceSamples[i]
             fall == balanceSamples[i - 1].amount - row.amount
  <1>1. row \in BalanceRow /\ balanceSamples[i - 1] \in BalanceRow
    <2>1. Len(balanceSamples) \in Nat /\ balanceSamples \in Seq(BalanceRow)
      BY LenProperties DEF Typed, Tables, IsTable
    <2>2. i \in 1..Len(balanceSamples) /\ i - 1 \in 1..Len(balanceSamples)
      BY <2>1
    <2> QED
      BY <2>1, <2>2, ElementOfSeq
  <1>2. /\ row.paid \in Nat /\ row.refilled \in Nat /\ row.amount \in Int
        /\ balanceSamples[i - 1].amount \in Int
    BY <1>1 DEF BalanceRow
  <1>3. row.amount = balanceSamples[i - 1].amount - row.paid + row.refilled
    BY DEF MoneyFlows, Accounted
  <1>4. fall = row.paid - row.refilled
    BY <1>2, <1>3
  <1> HIDE DEF fall
  <1>5. /\ AtLeastZero(fall) <= row.paid
        /\ ~(row.paid > 0 /\ row.refilled > 0) => AtLeastZero(fall) = row.paid
    BY <1>2, <1>4 DEF AtLeastZero
  <1>6. fall \in Int /\ fall <= row.paid
    BY <1>2, <1>4
  <1> QED
    BY <1>2, <1>5, <1>6 DEF fall

\* What the page shows as spent in the month was really spent since the last sample
\* before the month, and is all of it if no refill hid a payment, over any gaps of
\* the samples, failures, prunes and restarts.
THEOREM MonthIsReal == Spec => []MonthSpentIsReal
  <1>1. Typed /\ MoneyFlows => MonthSpentIsReal
    <2> SUFFICES ASSUME Typed, MoneyFlows PROVE MonthSpentIsReal
      OBVIOUS
    <2> DEFINE rows == balanceSamples
               n == Len(rows)
               since == MonthStart(now)
               k == OlderThan(rows, since)
               base == MaxOf(k, 1)
               falls == [i \in 1..n |-> Fall(rows, since, i)]
               pays == [i \in 1..n |-> IF i > base THEN rows[i].paid ELSE 0]
               mixed == \E i \in DOMAIN rows :
                           i > base /\ rows[i].paid > 0 /\ rows[i].refilled > 0
    <2>1. /\ since \in Int /\ Dated(BalanceRow) /\ IsTable(rows, BalanceRow)
          /\ \A r \in BalanceRow : r.amount \in Int
      <3>1. now \in Int
        BY DEF Typed, Scalars
      <3> QED
        BY <3>1, CalendarIs, RowsAreDated DEF Typed, Tables, BalanceRow
    <2>2. n \in Nat /\ DOMAIN rows = 1..n
      BY <2>1, LenProperties DEF IsTable
    <2>3. k \in 0..n /\ \A i \in 1..n : rows[i].t < since <=> i <= k
      BY <2>1, OlderComeFirst
    <2>4. base = MaxOf(Len(Before(rows, since)), 1)
      BY <2>1, BeforeIs
    <2>5. base \in Nat \ {0} /\ \A i \in Int : i <= base <=> i <= 1 \/ i <= k
      BY <2>3 DEF MaxOf
    <2>6. spentSince(rows, since) = Total(falls) /\ falls \in [1..n -> Int]
      BY <2>1, SpentSinceIs
    <2>7. PaidAfter(base) = Total(pays) /\ pays \in [1..n -> Int]
      BY <2>5, PaidAfterIs
    <2> HIDE DEF base
    <2>8. ASSUME NEW i \in 1..n
          PROVE  falls[i] <= pays[i] /\ (~mixed => falls[i] = pays[i])
      <3>1. falls[i] = Fall(rows, since, i)
            /\ pays[i] = IF i > base THEN rows[i].paid ELSE 0
        OBVIOUS
      <3> HIDE DEF falls, pays
      <3>2. CASE i <= base
        <4>1. i = 1 \/ rows[i].t < since
          BY <2>3, <2>5, <3>2
        <4>2. ~(i > base)
          BY <2>5, <3>2
        <4>3. falls[i] = 0 /\ pays[i] = 0
          BY <3>1, <4>1, <4>2, Zenon DEF Fall
        <4> QED
          BY <4>3
      <3>3. CASE i > base
        <4>1. ~(i = 1 \/ rows[i].t < since) /\ i \in 2..n
          BY <2>2, <2>3, <2>5, <3>3
        <4>2. /\ falls[i] = AtLeastZero(rows[i - 1].amount - rows[i].amount)
              /\ pays[i] = rows[i].paid
          BY <3>1, <3>3, <4>1, Zenon DEF Fall
        <4>3. ~mixed => ~(rows[i].paid > 0 /\ rows[i].refilled > 0)
          BY <2>2, <3>3
        <4> QED
          BY <4>1, <4>2, <4>3, FallIsPaid, Zenon
      <3> QED
        BY <2>5, <3>2, <3>3
    <2>9. Total(falls) <= Total(pays)
      <3> HIDE DEF falls, pays, n
      <3> QED
        BY <2>2, <2>6, <2>7, <2>8, TotalAtMost
    <2>10. ~mixed => falls = pays
      <3> HIDE DEF mixed
      <3> QED
        BY <2>8
    <2> HIDE DEF falls, pays, mixed
    <2>11. spentSince(rows, since) <= PaidAfter(base)
           /\ (~mixed => spentSince(rows, since) = PaidAfter(base))
      BY <2>6, <2>7, <2>9, <2>10, Zenon
    <2> QED
      BY <2>4, <2>11, Zenon DEF MonthSpentIsReal, mixed
  <1> QED
    BY <1>1, TypedHolds, MoneyFlowsHolds, PTL

\* What the page shows as spent in 24 hours was really spent since the last sample
\* that is older than 48 hours, whatever gaps the samples have.
THEOREM DayIsRecent == Spec => []DaySpentIsRecent
  <1>1. Typed /\ MoneyFlows => DaySpentIsRecent
    <2> SUFFICES ASSUME Typed, MoneyFlows, balanceSamples # <<>>
                 PROVE  Spent24(balanceSamples)
                           <= PaidAfter(MaxOf(Len(Before(balanceSamples,
                                             Last(balanceSamples).t - 2 * Day)), 1))
      BY DEF DaySpentIsRecent
    <2> DEFINE rows == balanceSamples
               n == Len(rows)
               last == Last(rows).t
               k == OlderThan(rows, last - 2 * Day)
               base == MaxOf(k, 1)
               far(i) == Distance(rows[i].t, last - Day)
               pays == [i \in 1..n |-> IF i > base THEN rows[i].paid ELSE 0]
    <2>1. /\ Dated(BalanceRow) /\ IsTable(rows, BalanceRow) /\ Day \in Nat
          /\ \A r \in BalanceRow : r.amount \in Int
      <3>1. now \in Int
        BY DEF Typed, Scalars
      <3> QED
        BY <3>1, MonthIsLong, RowsAreDated DEF Typed, Tables, BalanceRow
    <2>2. n \in Nat \ {0} /\ DOMAIN rows = 1..n /\ Last(rows) = rows[n] /\ n \in 1..n
      BY <2>1, LastIs
    <2>3. \A i \in 1..n : rows[i].t \in Int /\ rows[i].amount \in Int
      BY <2>1, <2>2, ElementOfSeq DEF IsTable, Dated
    <2>4. last \in Int /\ last - 2 * Day \in Int
      BY <2>1, <2>2, <2>3
    <2>5. k \in 0..n /\ \A i \in 1..n : rows[i].t < last - 2 * Day <=> i <= k
      BY <2>1, <2>4, OlderComeFirst
    <2>6. base = MaxOf(Len(Before(rows, last - 2 * Day)), 1)
      BY <2>1, <2>4, BeforeIs
    <2>7. base \in Nat \ {0} /\ \A i \in Int : i <= base <=> i <= 1 \/ i <= k
      BY <2>5 DEF MaxOf
    <2>8. PICK b \in 1..n : /\ Baseline(rows) = rows[b]
                            /\ far(b) < far(n) \/ (far(b) = far(n) /\ b <= n)
      BY <2>1, <2>2, BaselineIs
    <2>9. base <= b
      <3>1. Distance(last, last - Day) = Day
        BY <2>1, <2>4 DEF Distance
      <3>2. ASSUME rows[b].t < last - 2 * Day PROVE Distance(rows[b].t, last - Day) > Day
        <4>1. rows[b].t \in Int
          BY <2>3
        <4> QED
          BY <2>1, <2>4, <3>2, <4>1 DEF Distance
      <3>3. far(n) = Day
        BY <2>2, <3>1, Zenon
      <3>4. far(b) \in Int
        BY <2>1, <2>3, <2>4 DEF Distance
      <3>5. far(b) <= Day
        <4> HIDE DEF far
        <4> QED
          BY <2>1, <2>8, <3>3, <3>4
      <3>6. ~(rows[b].t < last - 2 * Day)
        BY <2>1, <3>2, <3>4, <3>5
      <3>7. ~(b <= k)
        BY <2>5, <3>6
      <3> QED
        BY <2>5, <2>7, <3>7 DEF MaxOf
    <2> HIDE DEF base, far
    <2>10. PaidAfter(base) = Total(pays) /\ pays \in [1..n -> Int] /\ PaidAfter(base) \in Nat
      BY <2>7, PaidAfterIs
    <2> DEFINE v == [i \in 0..n |-> IF i = 0 THEN 0 ELSE -rows[i].amount]
               terms == [i \in 1..n |-> IF i <= b THEN 0 ELSE v[i] - v[i - 1]]
    <2>11. v \in [0..n -> Int] /\ \A i \in 1..n : v[i] = -rows[i].amount
      BY <2>3
    <2> HIDE DEF v
    <2>12. terms \in [1..n -> Int]
      BY <2>11
    <2>13. Total(terms) = v[n] - v[b]
      <3>1. \A i \in 1..n : terms[i] = IF i <= b THEN 0 ELSE v[i] - v[i - 1]
        OBVIOUS
      <3>2. n \in Nat /\ b \in 0..n
        BY <2>2
      <3> HIDE DEF terms, n
      <3> QED
        BY <2>11, <2>12, <3>1, <3>2, TotalTelescopes
    <2>14. ASSUME NEW i \in 1..n PROVE terms[i] <= pays[i]
      <3>1. CASE i <= b
        <4>1. terms[i] = 0
          BY <3>1
        <4>2. pays[i] \in Nat
          <5>1. i > base => i \in 2..n
            BY <2>7
          <5>2. i > base => rows[i].paid \in Nat
            BY <5>1, FallIsPaid
          <5> QED
            BY <5>2
        <4> QED
          BY <4>1, <4>2
      <3>2. CASE i > b
        <4>1. i \in 2..n /\ i > base /\ i - 1 \in 1..n
          BY <2>7, <2>9, <3>2
        <4>2. terms[i] = v[i] - v[i - 1] /\ pays[i] = rows[i].paid
          BY <3>2, <4>1
        <4>3. v[i] - v[i - 1] = rows[i - 1].amount - rows[i].amount
          BY <2>3, <2>11, <4>1
        <4> HIDE DEF terms, pays
        <4> QED
          BY <4>1, <4>2, <4>3, FallIsPaid
      <3> QED
        BY <3>1, <3>2
    <2>15. Total(terms) <= Total(pays)
      <3>1. n \in Nat
        BY <2>2
      <3> HIDE DEF terms, pays, n
      <3> QED
        BY <2>10, <2>12, <2>14, <3>1, TotalAtMost
    <2> HIDE DEF terms, pays
    <2>16. Spent24(rows) = AtLeastZero(rows[b].amount - rows[n].amount)
      BY <2>2, <2>8, Zenon DEF Spent24
    <2>17. rows[b].amount - rows[n].amount <= PaidAfter(base)
      <3>1. rows[b].amount \in Int /\ rows[n].amount \in Int
        BY <2>2, <2>3
      <3>2. v[n] = -rows[n].amount /\ v[b] = -rows[b].amount
        BY <2>2, <2>11
      <3>3. rows[b].amount - rows[n].amount = v[n] - v[b]
        BY <3>1, <3>2
      <3>4. v[n] - v[b] <= PaidAfter(base)
        BY <2>10, <2>13, <2>15, Zenon
      <3> QED
        BY <3>3, <3>4
    <2>18. AtLeastZero(rows[b].amount - rows[n].amount) <= PaidAfter(base)
      BY <2>10, <2>17 DEF AtLeastZero
    <2> QED
      BY <2>6, <2>16, <2>18
  <1> QED
    BY <1>1, TypedHolds, MoneyFlowsHolds, PTL

-----------------------------------------------------------------------------
(* A prune is invisible.                                                   *)

\* The place at which the older rows end is the only one.
LEMMA OlderIs ==
    ASSUME NEW Row, Dated(Row), NEW rows, IsTable(rows, Row), NEW t \in Int,
           NEW k \in 0..Len(rows), \A i \in 1..Len(rows) : rows[i].t < t <=> i <= k
    PROVE  OlderThan(rows, t) = k
  <1> DEFINE n == Len(rows)
             e == OlderThan(rows, t)
  <1>1. e \in 0..n /\ \A i \in 1..n : rows[i].t < t <=> i <= e
    BY OlderComeFirst
  <1>2. n \in Nat
    BY LenProperties DEF IsTable
  <1> HIDE DEF e, n
  <1>3. \A i \in 1..n : i <= k <=> i <= e
    BY <1>1 DEF n
  <1>4. k \in 0..n
    BY DEF n
  <1>5. ~(e < k)
    BY <1>1, <1>2, <1>3, <1>4
  <1>6. ~(k < e)
    BY <1>1, <1>2, <1>3, <1>4
  <1>7. e = k
    BY <1>1, <1>2, <1>4, <1>5, <1>6
  <1> QED
    BY <1>7 DEF e

\* After a prune, fewer rows are older than a later instant: by those that went.
LEMMA OlderOfSince ==
    ASSUME NEW Row, Dated(Row), NEW rows, IsTable(rows, Row),
           NEW cutoff \in Int, NEW t \in Int, cutoff <= t
    PROVE  /\ OlderThan(rows, cutoff) <= OlderThan(rows, t)
           /\ OlderThan(Since(rows, cutoff), t) = OlderThan(rows, t) - OlderThan(rows, cutoff)
  <1> DEFINE n == Len(rows)
             d == OlderThan(rows, cutoff)
             k == OlderThan(rows, t)
             kept == Since(rows, cutoff)
  <1>1. n \in Nat /\ DOMAIN rows = 1..n /\ \A i \in 1..n : rows[i].t \in Int
    <2>1. rows \in Seq(Row) /\ n \in Nat /\ DOMAIN rows = 1..n
      BY LenProperties DEF IsTable
    <2> QED
      BY <2>1, ElementOfSeq DEF Dated
  <1>2. d \in 0..n /\ \A i \in 1..n : rows[i].t < cutoff <=> i <= d
    BY OlderComeFirst
  <1>3. k \in 0..n /\ \A i \in 1..n : rows[i].t < t <=> i <= k
    BY OlderComeFirst
  <1>4. /\ IsTable(kept, Row) /\ Len(kept) = n - d
        /\ \A i \in 1..(n - d) : kept[i] = rows[i + d]
    BY SinceIs
  <1> HIDE DEF n, d, k, kept
  <1>5. d <= k
    <2>1. CASE d = 0
      BY <1>1, <1>3, <2>1
    <2>2. CASE d # 0
      <3>1. d \in 1..n
        BY <1>1, <1>2, <2>2
      <3>2. rows[d].t < cutoff
        BY <1>2, <3>1
      <3>3. rows[d].t < t
        BY <1>1, <3>1, <3>2
      <3> QED
        BY <1>3, <3>1, <3>3
    <2> QED
      BY <2>1, <2>2
  <1>6. k - d \in 0..Len(kept)
    BY <1>1, <1>2, <1>3, <1>4, <1>5
  <1>7. ASSUME NEW i \in 1..Len(kept) PROVE kept[i].t < t <=> i <= k - d
    <2>1. i + d \in 1..n /\ i \in 1..(n - d)
      BY <1>1, <1>2, <1>4
    <2>2. kept[i] = rows[i + d] /\ (rows[i + d].t < t <=> i + d <= k)
      BY <1>3, <1>4, <2>1
    <2>3. i + d <= k <=> i <= k - d
      BY <1>2, <1>3, <1>4
    <2> QED
      BY <2>2, <2>3
  <1>8. OlderThan(kept, t) = k - d
    BY <1>4, <1>6, <1>7, OlderIs
  <1> QED
    BY <1>5, <1>8 DEF d, k, kept

\* The same rows are left since a later instant.
LEMMA SinceOfSince ==
    ASSUME NEW Row, Dated(Row), NEW rows, IsTable(rows, Row),
           NEW cutoff \in Int, NEW t \in Int, cutoff <= t
    PROVE  Since(Since(rows, cutoff), t) = Since(rows, t)
  <1> DEFINE n == Len(rows)
             d == OlderThan(rows, cutoff)
             k == OlderThan(rows, t)
             kept == Since(rows, cutoff)
             twice == Since(kept, t)
             once == Since(rows, t)
  <1>1. /\ IsTable(kept, Row) /\ Len(kept) = n - d
        /\ \A i \in 1..(n - d) : kept[i] = rows[i + d]
    BY SinceIs
  <1>2. d <= k /\ OlderThan(kept, t) = k - d
    BY OlderOfSince
  <1>3. d \in 0..n /\ k \in 0..n /\ n \in Nat
    BY OlderComeFirst, LenProperties DEF IsTable
  <1>4. /\ IsTable(once, Row) /\ Len(once) = n - k
        /\ \A i \in 1..(n - k) : once[i] = rows[i + k]
    BY SinceIs
  <1> HIDE DEF kept
  <1>5. /\ IsTable(twice, Row) /\ Len(twice) = Len(kept) - OlderThan(kept, t)
        /\ \A i \in 1..(Len(kept) - OlderThan(kept, t)) :
              twice[i] = kept[i + OlderThan(kept, t)]
    BY <1>1, SinceIs
  <1> HIDE DEF n, d, k, twice, once
  <1>6. Len(kept) - OlderThan(kept, t) = n - k
    BY <1>1, <1>2, <1>3
  <1>7. ASSUME NEW i \in 1..(n - k) PROVE twice[i] = once[i]
    <2>1. i + (k - d) \in 1..(n - d) /\ (i + (k - d)) + d = i + k
      BY <1>2, <1>3
    <2>2. twice[i] = kept[i + (k - d)] /\ kept[i + (k - d)] = rows[i + k]
      BY <1>1, <1>2, <1>5, <1>6, <2>1, Zenon
    <2> QED
      BY <1>4, <2>2
  <1>8. Len(twice) = Len(once)
    BY <1>4, <1>5, <1>6
  <1>9. twice \in Seq(Row) /\ once \in Seq(Row)
    BY <1>4, <1>5 DEF IsTable
  <1>10. twice = once
    BY <1>4, <1>7, <1>8, <1>9, SeqEqual
  <1> QED
    BY <1>10 DEF twice, once, kept

\* A row from between the cutoff and a later instant: the last row before the
\* instant is kept.
LEMMA LastBeforeIsKept ==
    ASSUME NEW Row, Dated(Row), NEW rows, IsTable(rows, Row),
           NEW cutoff \in Int, NEW t \in Int, cutoff <= t,
           NEW j \in DOMAIN rows, rows[j].t >= cutoff, rows[j].t < t
    PROVE  /\ OlderThan(rows, cutoff) < OlderThan(rows, t)
           /\ Before(rows, t) # <<>> /\ Before(Since(rows, cutoff), t) # <<>>
           /\ Last(Before(Since(rows, cutoff), t)) = Last(Before(rows, t))
  <1> DEFINE n == Len(rows)
             d == OlderThan(rows, cutoff)
             k == OlderThan(rows, t)
             kept == Since(rows, cutoff)
             few == Before(kept, t)
             many == Before(rows, t)
  <1>1. n \in Nat /\ DOMAIN rows = 1..n /\ rows[j].t \in Int
    <2>1. rows \in Seq(Row) /\ n \in Nat /\ DOMAIN rows = 1..n
      BY LenProperties DEF IsTable
    <2> QED
      BY <2>1, ElementOfSeq DEF Dated
  <1>2. d \in 0..n /\ (rows[j].t < cutoff <=> j <= d)
    BY <1>1, OlderComeFirst
  <1>3. k \in 0..n /\ (rows[j].t < t <=> j <= k)
    BY <1>1, OlderComeFirst
  <1>4. /\ IsTable(kept, Row) /\ Len(kept) = n - d
        /\ \A i \in 1..(n - d) : kept[i] = rows[i + d]
    BY SinceIs
  <1>5. OlderThan(kept, t) = k - d
    BY OlderOfSince
  <1>6. IsTable(many, Row) /\ Len(many) = k /\ \A i \in 1..k : many[i] = rows[i]
    BY BeforeIs
  <1> HIDE DEF kept
  <1>7. /\ IsTable(few, Row) /\ Len(few) = OlderThan(kept, t)
        /\ \A i \in 1..OlderThan(kept, t) : few[i] = kept[i]
    BY <1>4, BeforeIs
  <1> HIDE DEF n, d, k, few, many
  <1>8. d < j /\ j <= k
    BY <1>1, <1>2, <1>3
  <1>9. k \in 1..k /\ k - d \in 1..(k - d) /\ k - d \in 1..(n - d) /\ (k - d) + d = k
    BY <1>1, <1>2, <1>3, <1>8
  <1>10. many # <<>> /\ Last(many) = rows[k]
    <2>1. many # <<>>
      BY <1>6, <1>9, EmptySeq
    <2>2. Last(many) = many[k]
      BY <1>6 DEF Last
    <2> QED
      BY <1>6, <1>9, <2>1, <2>2
  <1>11. few # <<>> /\ Last(few) = rows[k]
    <2>1. few # <<>>
      BY <1>5, <1>7, <1>9, EmptySeq
    <2>2. Last(few) = few[k - d]
      BY <1>5, <1>7 DEF Last
    <2>3. few[k - d] = kept[k - d] /\ kept[k - d] = rows[k]
      BY <1>4, <1>5, <1>7, <1>9
    <2> QED
      BY <2>1, <2>2, <2>3
  <1>12. d < k
    BY <1>1, <1>2, <1>3, <1>8
  <1> QED
    BY <1>10, <1>11, <1>12 DEF d, k, few, many, kept

LEMMA TodayIsKept ==
    ASSUME NEW Row, Dated(Row), NEW rows, IsTable(rows, Row),
           NEW cutoff \in Int, NEW at \in Int, cutoff <= DayStart(at),
           NEW j \in DOMAIN rows, rows[j].t >= cutoff, rows[j].t < DayStart(at)
    PROVE  TodayTraffic(Since(rows, cutoff), at) = TodayTraffic(rows, at)
  <1>1. DayStart(at) \in Int
    BY CalendarIs
  <1>2. Since(Since(rows, cutoff), DayStart(at)) = Since(rows, DayStart(at))
    BY <1>1, SinceOfSince
  <1>3. /\ Before(rows, DayStart(at)) # <<>>
        /\ Before(Since(rows, cutoff), DayStart(at)) # <<>>
        /\ Last(Before(Since(rows, cutoff), DayStart(at))) = Last(Before(rows, DayStart(at)))
    BY <1>1, LastBeforeIsKept
  <1> QED
    BY <1>2, <1>3, Zenon DEF TodayTraffic

\* The falls before the instant do not count, nor does the fall to the first row.
LEMMA SpentSinceIsKept ==
    ASSUME NEW Row, Dated(Row), \A r \in Row : r.amount \in Int,
           NEW rows, IsTable(rows, Row),
           NEW cutoff \in Int, NEW since \in Int, cutoff <= since,
           NEW j \in DOMAIN rows, rows[j].t >= cutoff, rows[j].t < since
    PROVE  spentSince(Since(rows, cutoff), since) = spentSince(rows, since)
  <1> DEFINE n == Len(rows)
             d == OlderThan(rows, cutoff)
             kept == Since(rows, cutoff)
             falls == [i \in 1..n |-> Fall(rows, since, i)]
             keptFalls == [i \in 1..(n - d) |-> Fall(kept, since, i)]
  <1>1. n \in Nat /\ d \in 0..n
    BY OlderComeFirst, LenProperties DEF IsTable
  <1>2. /\ IsTable(kept, Row) /\ Len(kept) = n - d
        /\ \A i \in 1..(n - d) : kept[i] = rows[i + d]
    BY SinceIs
  <1>3. d < OlderThan(rows, since)
    BY LastBeforeIsKept
  <1>4. \A i \in 1..n : i <= d + 1 => rows[i].t < since
    <2>1. /\ OlderThan(rows, since) \in 0..n
          /\ \A i \in 1..n : rows[i].t < since <=> i <= OlderThan(rows, since)
      BY OlderComeFirst
    <2> HIDE DEF n, d
    <2> QED
      BY <1>1, <1>3, <2>1
  <1>5. spentSince(rows, since) = Total(falls) /\ falls \in [1..n -> Int]
    BY SpentSinceIs
  <1> HIDE DEF kept
  <1>6. spentSince(kept, since) = Total(keptFalls)
    BY <1>2, SpentSinceIs
  <1> HIDE DEF n, d
  <1>7. \A i \in 1..d : falls[i] = 0
    <2>1. ASSUME NEW i \in 1..d PROVE falls[i] = 0
      <3>1. i \in 1..n /\ rows[i].t < since
        BY <1>1, <1>4
      <3> QED
        BY <3>1 DEF Fall
    <2> QED
      BY <2>1
  <1>8. Total(falls) = Total([i \in 1..(n - d) |-> falls[i + d]])
    <2> HIDE DEF falls
    <2> QED
      BY <1>1, <1>5, <1>7, TotalOfRest
  <1>9. ASSUME NEW i \in 1..(n - d) PROVE falls[i + d] = Fall(kept, since, i)
    <2>1. i + d \in 1..n
      BY <1>1
    <2>2. falls[i + d] = Fall(rows, since, i + d) /\ kept[i] = rows[i + d]
      BY <1>2, <2>1
    <2>3. CASE i = 1
      <3>1. rows[i + d].t < since
        BY <1>1, <1>4, <2>1, <2>3
      <3> QED
        BY <2>2, <2>3, <3>1 DEF Fall
    <2>4. CASE i # 1
      <3>1. i - 1 \in 1..(n - d) /\ (i - 1) + d = (i + d) - 1 /\ i + d # 1
        BY <1>1, <2>4
      <3>2. kept[i - 1] = rows[(i + d) - 1]
        BY <1>2, <3>1
      <3> QED
        BY <2>2, <2>4, <3>1, <3>2 DEF Fall
    <2> QED
      BY <2>3, <2>4
  <1>10. [i \in 1..(n - d) |-> falls[i + d]] = keptFalls
    BY <1>9
  <1> QED
    BY <1>5, <1>6, <1>8, <1>10, Zenon DEF kept

\* A sample two days after the cutoff is nearer to the day before the last sample
\* than any before the cutoff.
LEMMA NearerThanOld ==
    ASSUME NEW old \in Int, NEW new \in Int, NEW last \in Int, NEW cutoff \in Int,
           NEW day \in Nat, old < cutoff, cutoff + 2 * day <= new, new <= last
    PROVE  Distance(new, last - day) < Distance(old, last - day)
  <1>1. last - day \in Int /\ old < last - day
    OBVIOUS
  <1>2. Distance(old, last - day) = (last - day) - old
    BY <1>1 DEF Distance
  <1>3. CASE new > last - day
    <2>1. Distance(new, last - day) = new - (last - day)
      BY <1>3 DEF Distance
    <2> QED
      BY <1>2, <2>1
  <1>4. CASE ~(new > last - day)
    <2>1. Distance(new, last - day) = (last - day) - new
      BY <1>4 DEF Distance
    <2> QED
      BY <1>2, <2>1
  <1> QED
    BY <1>3, <1>4

\* The sample of the day before stays: some sample is nearer to it than any that
\* goes.
LEMMA Spent24IsKept ==
    ASSUME NEW Row, Dated(Row), NEW rows, IsTable(rows, Row), NEW cutoff \in Int,
           NEW s \in DOMAIN rows, rows[s].t >= cutoff + 2 * Day
    PROVE  Spent24(Since(rows, cutoff)) = Spent24(rows)
  <1> DEFINE n == Len(rows)
             d == OlderThan(rows, cutoff)
             kept == Since(rows, cutoff)
             target == Last(rows).t - Day
             far(i) == Distance(rows[i].t, target)
             keptFar(i) == Distance(kept[i].t, target)
  <1>1. n \in Nat \ {0} /\ DOMAIN rows = 1..n /\ Last(rows) = rows[n] /\ Day \in Nat
        /\ rows # <<>>
    <2>1. rows # <<>> /\ Day \in Nat
      BY MonthIsLong
    <2> QED
      BY <2>1, LastIs
  <1>2. \A i \in 1..n : rows[i].t \in Int
    BY <1>1, ElementOfSeq DEF IsTable, Dated
  <1>3. d \in 0..n /\ \A i \in 1..n : rows[i].t < cutoff <=> i <= d
    BY OlderComeFirst
  <1>4. /\ IsTable(kept, Row) /\ Len(kept) = n - d
        /\ \A i \in 1..(n - d) : kept[i] = rows[i + d]
    BY SinceIs
  <1>5. rows[n].t >= rows[s].t
    <2>1. n \in DOMAIN rows /\ s \in 1..n
      BY <1>1
    <2>2. CASE s = n
      BY <1>2, <2>1, <2>2
    <2>3. CASE s # n
      <3>1. s < n
        BY <1>1, <2>1, <2>3
      <3> QED
        BY <1>2, <2>1, <3>1 DEF IsTable, InOrder
    <2> QED
      BY <2>2, <2>3
  <1>6. Last(rows).t >= cutoff /\ target \in Int
    BY <1>1, <1>2, <1>5
  <1>7. kept # <<>> /\ Last(kept) = Last(rows)
    BY <1>1, <1>6, LastIsKept
  <1>8. DOMAIN kept = 1..(n - d)
    BY <1>4, LenProperties DEF IsTable
  <1>9. PICK b \in 1..n : /\ Baseline(rows) = rows[b]
                          /\ \A j \in 1..n : far(b) < far(j) \/ (far(b) = far(j) /\ b <= j)
    <2>1. \E b \in DOMAIN rows :
             /\ Baseline(rows) = rows[b]
             /\ \A j \in DOMAIN rows : far(b) < far(j) \/ (far(b) = far(j) /\ b <= j)
      BY <1>1, BaselineIs
    <2> HIDE DEF far
    <2> QED
      BY <1>1, <2>1
  <1> HIDE DEF kept
  <1>10. PICK c \in 1..(n - d) :
            /\ Baseline(kept) = kept[c]
            /\ \A j \in 1..(n - d) :
                  keptFar(c) < keptFar(j) \/ (keptFar(c) = keptFar(j) /\ c <= j)
    <2>1. LET keptTarget == Last(kept).t - Day
              f(i) == Distance(kept[i].t, keptTarget)
          IN  \E c \in DOMAIN kept :
                 /\ Baseline(kept) = kept[c]
                 /\ \A j \in DOMAIN kept : f(c) < f(j) \/ (f(c) = f(j) /\ c <= j)
      BY <1>4, <1>7, BaselineIs
    <2> QED
      BY <1>7, <1>8, <2>1, Zenon
  <1>11. b > d
    <2> SUFFICES ASSUME b <= d PROVE FALSE
      BY <1>1, <1>3
    <2>1. rows[b].t < cutoff /\ rows[b].t \in Int /\ rows[s].t \in Int /\ rows[n].t \in Int
          /\ s \in 1..n
      BY <1>1, <1>2, <1>3
    <2>2. target = rows[n].t - Day
      BY <1>1
    <2>3. Distance(rows[s].t, rows[n].t - Day) < Distance(rows[b].t, rows[n].t - Day)
      <3> DEFINE old == rows[b].t
                 new == rows[s].t
                 last == rows[n].t
      <3>1. /\ old \in Int /\ new \in Int /\ last \in Int /\ Day \in Nat
            /\ old < cutoff /\ cutoff + 2 * Day <= new /\ new <= last
        BY <1>1, <1>5, <2>1
      <3> HIDE DEF old, new, last
      <3>2. Distance(new, last - Day) < Distance(old, last - Day)
        BY <3>1, NearerThanOld
      <3> QED
        BY <3>2 DEF old, new, last
    <2>4. far(s) < far(b) /\ far(s) \in Int /\ far(b) \in Int
      <3>1. far(s) < far(b)
        BY <2>2, <2>3, Zenon
      <3>2. \A x, y \in Int : Distance(x, y) \in Int
        BY DEF Distance
      <3> HIDE DEF target
      <3>3. far(s) \in Int /\ far(b) \in Int
        BY <1>6, <2>1, <3>2, Zenon
      <3> QED
        BY <3>1, <3>3
    <2>5. far(b) < far(s) \/ far(b) = far(s)
      <3> HIDE DEF far
      <3> QED
        BY <1>9, <2>1
    <2> HIDE DEF far
    <2> QED
      BY <2>4, <2>5
  <1>12. \A i \in 1..(n - d) : keptFar(i) = far(i + d) /\ i + d \in 1..n
    BY <1>1, <1>3, <1>4
  <1>13. \A i \in 1..n : far(i) \in Int
    BY <1>2, <1>6 DEF Distance
  <1> HIDE DEF far, keptFar, n, d, target
  <1>14. b - d \in 1..(n - d) /\ (b - d) + d = b /\ c + d \in 1..n
    BY <1>1, <1>3, <1>11
  <1>15. keptFar(c) = far(c + d) /\ keptFar(b - d) = far(b)
    BY <1>12, <1>14
  <1>16. far(b) < far(c + d) \/ (far(b) = far(c + d) /\ b <= c + d)
    BY <1>9, <1>14
  <1>17. far(c + d) < far(b) \/ (far(c + d) = far(b) /\ c <= b - d)
    BY <1>10, <1>14, <1>15, Zenon
  <1>18. b = c + d
    <2>1. far(b) \in Int /\ far(c + d) \in Int
      BY <1>13, <1>14
    <2> QED
      BY <1>1, <1>3, <1>14, <1>16, <1>17, <2>1
  <1>19. Baseline(kept) = Baseline(rows)
    BY <1>4, <1>9, <1>10, <1>18
  <1> QED
    BY <1>1, <1>7, <1>19, Zenon DEF Spent24, kept

\* The stops that are counted are kept, one for one.
LEMMA StopCountsAreKept ==
    ASSUME NEW Row, Dated(Row), NEW rows, IsTable(rows, Row),
           NEW at \in Int
    PROVE  StopCounts(Since(rows, at - Window * Day), at) = StopCounts(rows, at)
  <1> DEFINE cutoff == at - Window * Day
             n == Len(rows)
             d == OlderThan(rows, cutoff)
             kept == Since(rows, cutoff)
             counted(kind) == {i \in 1..n : rows[i].kind = kind /\ rows[i].t >= cutoff}
             keptCounted(kind) ==
                {i \in 1..(n - d) : kept[i].kind = kind /\ kept[i].t >= cutoff}
  <1>1. cutoff \in Int
    BY MonthIsLong
  <1> HIDE DEF cutoff
  <1>2. n \in Nat /\ DOMAIN rows = 1..n /\ \A i \in 1..n : rows[i].t \in Int
    <2>1. rows \in Seq(Row) /\ n \in Nat /\ DOMAIN rows = 1..n
      BY LenProperties DEF IsTable
    <2> QED
      BY <2>1, ElementOfSeq DEF Dated
  <1>3. d \in 0..n /\ \A i \in 1..n : rows[i].t < cutoff <=> i <= d
    BY <1>1, OlderComeFirst
  <1>4. /\ IsTable(kept, Row) /\ Len(kept) = n - d
        /\ \A i \in 1..(n - d) : kept[i] = rows[i + d]
    BY <1>1, SinceIs
  <1>5. DOMAIN kept = 1..(n - d)
    BY <1>4, LenProperties DEF IsTable
  <1> HIDE DEF n, d, kept
  <1>6. ASSUME NEW kind PROVE Cardinality(keptCounted(kind)) = Cardinality(counted(kind))
    <2> DEFINE T == counted(kind)
               S == keptCounted(kind)
               f == [i \in S |-> i + d]
    <2>1. \A i \in S : i \in 1..(n - d) /\ i + d \in T
      <3>1. ASSUME NEW i \in S PROVE i \in 1..(n - d) /\ i + d \in T
        <4>1. i \in 1..(n - d) /\ i + d \in 1..n
          BY <1>2, <1>3
        <4> QED
          BY <1>4, <4>1
      <3> QED
        BY <3>1
    <2>2. ASSUME NEW j \in T PROVE j - d \in S /\ (j - d) + d = j
      <3>1. j \in 1..n /\ rows[j].kind = kind /\ rows[j].t >= cutoff /\ rows[j].t \in Int
        BY <1>2
      <3>2. j > d
        BY <1>1, <1>2, <1>3, <3>1
      <3>3. j - d \in 1..(n - d) /\ (j - d) + d = j
        BY <1>2, <1>3, <3>1, <3>2
      <3>4. kept[j - d] = rows[j]
        BY <1>4, <3>3
      <3> QED
        BY <3>1, <3>3, <3>4
    <2>3. IsFiniteSet(S)
      <3>1. IsFiniteSet(1..(n - d)) /\ S \in SUBSET (1..(n - d))
        BY <1>2, <1>3, FS_Interval
      <3> HIDE DEF S
      <3> QED
        BY <3>1, FS_Subset
    <2> HIDE DEF S, T
    <2>4. f \in [S -> T] /\ \A i \in S : f[i] = i + d
      BY <2>1
    <2> HIDE DEF f
    <2>5. \A a, b \in S : f[a] = f[b] => a = b
      BY <1>2, <1>3, <2>1, <2>4
    <2>6. \A j \in T : \E i \in S : f[i] = j
      BY <2>2, <2>4
    <2>7. f \in Bijection(S, T)
      BY <2>4, <2>5, <2>6 DEF Bijection, Injection, Surjection, IsInjective
    <2>8. ExistsBijection(S, T)
      BY <2>7 DEF ExistsBijection
    <2>9. Cardinality(T) = Cardinality(S)
      BY <2>3, <2>8, FS_Bijection
    <2> QED
      BY <2>9 DEF S, T
  <1>7. /\ StopCounts(rows, at) = [kind \in {"scheduled", "unexpected"} |->
                                      Cardinality(counted(kind))]
        /\ StopCounts(kept, at) = [kind \in {"scheduled", "unexpected"} |->
                                      Cardinality(keptCounted(kind))]
    BY <1>2, <1>5, Zenon DEF StopCounts, cutoff
  <1> HIDE DEF counted, keptCounted
  <1>8. StopCounts(kept, at) = StopCounts(rows, at)
    BY <1>6, <1>7
  <1> QED
    BY <1>8 DEF kept, cutoff

LEMMA PruneKeepsFigures ==
    ASSUME Typed, [Next]_vars, dailyMaintenance \/ Start
    PROVE  /\ StopCounts(stopEvents', now) = StopCounts(stopEvents, now)
           /\ Sampled(trafficSamples) /\ Sampled(balanceSamples) => Figures' = Figures
  <1>1. now' = now
    BY DEF dailyMaintenance, Start, meters
  <1>2. /\ now \in Int /\ Dated(TrafficRow) /\ Dated(BalanceRow) /\ Dated(StopRow)
        /\ IsTable(trafficSamples, TrafficRow) /\ IsTable(balanceSamples, BalanceRow)
        /\ IsTable(stopEvents, StopRow) /\ \A r \in BalanceRow : r.amount \in Int
    <2>1. now \in Int
      BY DEF Typed, Scalars
    <2> QED
      BY <2>1, RowsAreDated DEF Typed, Tables, BalanceRow
  <1>3. CASE UNCHANGED <<trafficSamples, balanceSamples, stopEvents>>
    BY <1>1, <1>3 DEF Figures, MonthStart
  <1>4. CASE Prune
    <2> DEFINE cutoff == PreviousMonthStart(now)
               since == MonthStart(now)
               day == DayStart(now)
    <2>1. StopCounts(stopEvents', now) = StopCounts(stopEvents, now)
      BY <1>2, <1>4, StopCountsAreKept DEF Prune
    <2>2. ASSUME Sampled(trafficSamples), Sampled(balanceSamples)
          PROVE  Figures' = Figures
      <3>1. /\ cutoff \in Int /\ since \in Int /\ day \in Int /\ Day \in Nat
            /\ cutoff <= since /\ since <= day
        <4>1. /\ cutoff \in Int /\ since \in Int /\ day \in Int
              /\ cutoff = since - Month * Day
              /\ Day \in Nat /\ Month * Day \in Nat
          BY <1>2, CalendarIs, MonthIsLong
        <4>2. since <= day
          BY <1>2, DaysOfMonth
        <4> QED
          BY <4>1, <4>2
      <3>2. /\ trafficSamples' = Since(trafficSamples, cutoff)
            /\ balanceSamples' = Since(balanceSamples, cutoff)
        BY <1>4 DEF Prune
      <3>3. PICK i \in DOMAIN trafficSamples :
               trafficSamples[i].t >= cutoff + 2 * Day /\ trafficSamples[i].t < since
        BY <2>2 DEF Sampled
      <3>4. PICK j \in DOMAIN balanceSamples :
               balanceSamples[j].t >= cutoff + 2 * Day /\ balanceSamples[j].t < since
        BY <2>2 DEF Sampled
      <3>5. trafficSamples[i].t \in Int /\ balanceSamples[j].t \in Int
        BY <1>2, LenProperties, ElementOfSeq DEF IsTable, Dated
      <3> HIDE DEF cutoff, since, day
      <3>6. /\ trafficSamples[i].t >= cutoff /\ trafficSamples[i].t < day
            /\ balanceSamples[j].t >= cutoff
        BY <3>1, <3>3, <3>4, <3>5
      <3>7. TodayTraffic(Since(trafficSamples, cutoff), now) = TodayTraffic(trafficSamples, now)
        <4>1. cutoff <= DayStart(now) /\ trafficSamples[i].t < DayStart(now)
          BY <3>1, <3>6 DEF day
        <4> QED
          BY <1>2, <3>1, <3>6, <4>1, TodayIsKept
      <3>8. spentSince(Since(balanceSamples, cutoff), since) = spentSince(balanceSamples, since)
        BY <1>2, <3>1, <3>4, <3>6, SpentSinceIsKept
      <3>9. Spent24(Since(balanceSamples, cutoff)) = Spent24(balanceSamples)
        BY <1>2, <3>1, <3>4, Spent24IsKept
      <3>10. MonthStart(now)' = MonthStart(now)
        BY <1>1 DEF MonthStart
      <3>11. TodayTraffic(trafficSamples, now)' = TodayTraffic(trafficSamples, now)
        BY <1>1, <3>2, <3>7, Zenon
      <3>12. spentSince(balanceSamples, MonthStart(now))'
                = spentSince(balanceSamples, MonthStart(now))
        BY <3>2, <3>8, <3>10, Zenon DEF since
      <3>13. Spent24(balanceSamples)' = Spent24(balanceSamples)
        BY <3>2, <3>9, Zenon
      <3> QED
        BY <3>11, <3>12, <3>13, Zenon DEF Figures
    <2> QED
      BY <2>1, <2>2
  <1> QED
    BY <1>3, <1>4 DEF dailyMaintenance, Start

\* No prune, at a start or by the maintenance, changes a figure of a page, as long as
\* the month before was sampled; the counts of stops it never changes.
THEOREM PrunesAreInvisible == Spec => PruneInvisible
  <1>1. Typed /\ [Next]_vars =>
           [(\/ dailyMaintenance \/ Start) =>
               /\ StopCounts(stopEvents', now) = StopCounts(stopEvents, now)
               /\ Sampled(trafficSamples) /\ Sampled(balanceSamples)
                     => Figures' = Figures]_vars
    BY PruneKeepsFigures
  <1> QED
    BY <1>1, TypedHolds, PTL DEF Spec, PruneInvisible

-----------------------------------------------------------------------------
(* The days add up.                                                        *)

\* The readings of a month rise, up to the counter.
Rises(rows, month) ==
    \A i, j \in 1..Len(rows) : i <= j /\ rows[i].t >= month => rows[i].gb <= rows[j].gb

ReadingsRise ==
    /\ Rises(trafficSamples, MonthStart(now))
    /\ \A i \in 1..Len(trafficSamples) :
          trafficSamples[i].t >= MonthStart(now) => trafficSamples[i].gb <= traffic

LEMMA ReadingsRiseStep == Typed /\ ReadingsRise /\ [Next]_vars => ReadingsRise'
  <1> SUFFICES ASSUME Typed, ReadingsRise, [Next]_vars PROVE ReadingsRise'
    OBVIOUS
  <1> DEFINE rows == trafficSamples
             n == Len(rows)
             month == MonthStart(now)
  <1>1. /\ now \in Int /\ traffic \in Nat /\ month \in Int
        /\ Dated(TrafficRow) /\ IsTable(rows, TrafficRow) /\ NoLater(rows, now)
    <2>1. now \in Int /\ traffic \in Nat
      BY DEF Typed, Scalars
    <2> QED
      BY <2>1, CalendarIs, RowsAreDated, RowsAreOfThePast DEF Typed, Tables
  <1>2. n \in Nat /\ DOMAIN rows = 1..n /\ \A i \in 1..n : rows[i].t \in Int /\ rows[i].gb \in Nat
    <2>1. rows \in Seq(TrafficRow) /\ n \in Nat /\ DOMAIN rows = 1..n
      BY <1>1, LenProperties DEF IsTable
    <2>2. \A i \in 1..n : rows[i] \in TrafficRow
      BY <2>1, ElementOfSeq
    <2> QED
      BY <1>1, <2>1, <2>2 DEF Dated, TrafficRow
  <1>3. CASE UNCHANGED <<now, traffic, trafficSamples>>
    <2>1. MonthStart(now)' = MonthStart(now)
      BY <1>3 DEF MonthStart
    <2> QED
      BY <1>3, <2>1, Zenon DEF ReadingsRise, Rises
  <1>4. CASE Tick
    <2>1. /\ now' = now + 1 /\ trafficSamples' = trafficSamples
          /\ IF MonthStart(now') = now' THEN NewMonth ELSE Meters
      BY <1>4 DEF Tick, tables
    <2>2. MonthStart(now)' = MonthStart(now + 1)
      BY <2>1 DEF MonthStart
    <2>3. month <= MonthStart(now + 1) /\ MonthStart(now + 1) \in Int
      <3>1. now + 1 \in Int /\ now <= now + 1
        BY <1>1
      <3> QED
        BY <1>1, <3>1, CalendarIs, MonthsInOrder, Zenon
    <2>4. \A i \in 1..n : rows[i].t >= MonthStart(now + 1) => rows[i].t >= month
      <3> HIDE DEF n, month
      <3> QED
        BY <1>1, <1>2, <2>3
    <2>5. Rises(rows, MonthStart(now + 1))
      BY <2>4, Zenon DEF ReadingsRise, Rises
    <2>6. CASE MonthStart(now + 1) = now + 1
      <3>1. \A i \in 1..n : ~(rows[i].t >= MonthStart(now + 1))
        <4>1. \A i \in 1..n : rows[i].t <= now
          BY <1>1, <1>2 DEF NoLater
        <4> HIDE DEF n
        <4> QED
          BY <1>1, <1>2, <2>6, <4>1
      <3> QED
        BY <2>1, <2>2, <2>5, <3>1, Zenon DEF ReadingsRise, Rises
    <2>7. CASE MonthStart(now + 1) # now + 1
      <3>1. Meters
        BY <2>1, <2>7
      <3>2. traffic' = traffic \/ traffic' = traffic + 1
        BY <3>1 DEF Meters, Use, Spend, Refill
      <3>3. \A i \in 1..n : rows[i].t >= MonthStart(now + 1) =>
               rows[i].gb <= traffic /\ rows[i].gb <= traffic + 1
        <4>1. \A i \in 1..n : rows[i].t >= MonthStart(now + 1) => rows[i].gb <= traffic
          BY <2>4, Zenon DEF ReadingsRise
        <4> HIDE DEF n
        <4> QED
          BY <1>1, <1>2, <4>1
      <3>4. \A i \in 1..n : rows[i].t >= MonthStart(now + 1) => rows[i].gb <= traffic'
        <4>1. CASE traffic' = traffic
          BY <3>3, <4>1, Zenon
        <4>2. CASE traffic' = traffic + 1
          BY <3>3, <4>2, Zenon
        <4> QED
          BY <3>2, <4>1, <4>2
      <3> QED
        BY <2>1, <2>2, <2>5, <3>4, Zenon DEF ReadingsRise, Rises
    <2> QED
      BY <2>6, <2>7
  <1>5. CASE AddTraffic
    <2> DEFINE row == [t |-> check.t, gb |-> traffic]
               longer == Append(rows, row)
    <2>1. /\ ~Idle /\ trafficSamples' = longer /\ UNCHANGED <<now, traffic>>
      BY <1>5 DEF AddTraffic, InCheck, Idle, meters
    <2>2. row \in TrafficRow /\ row.t = check.t /\ row.gb = traffic
      BY DEF Typed, Scalars, Calls, TrafficRow
    <2>3. NoLater(rows, row.t)
      BY <2>1, <2>2 DEF Typed, CheckIsLatest
    <2> HIDE DEF row
    <2>4. /\ Len(longer) = n + 1 /\ (\A i \in 1..n : longer[i] = rows[i])
          /\ longer[n + 1] = row
      BY <1>1, <2>2, <2>3, TableGrows
    <2> HIDE DEF n, longer, month
    <2>5. ASSUME NEW i \in 1..(n + 1), longer[i].t >= month
          PROVE  longer[i].gb <= traffic
      <3>1. CASE i \in 1..n
        <4>1. longer[i] = rows[i]
          BY <2>4, <3>1
        <4> QED
          BY <2>5, <3>1, <4>1 DEF ReadingsRise, n, month
      <3>2. CASE i = n + 1
        BY <1>1, <2>2, <2>4, <3>2
      <3> QED
        BY <1>2, <3>1, <3>2
    <2>6. ASSUME NEW i \in 1..(n + 1), NEW j \in 1..(n + 1), i <= j, longer[i].t >= month
          PROVE  longer[i].gb <= longer[j].gb
      <3>1. CASE j \in 1..n
        <4>1. i \in 1..n
          BY <1>2, <2>6, <3>1
        <4>2. longer[i] = rows[i] /\ longer[j] = rows[j]
          BY <2>4, <3>1, <4>1
        <4> QED
          BY <2>6, <3>1, <4>1, <4>2 DEF ReadingsRise, Rises, n, month
      <3>2. CASE j = n + 1
        <4>1. longer[j].gb = traffic
          BY <2>2, <2>4, <3>2
        <4> QED
          BY <2>5, <2>6, <4>1
      <3> QED
        BY <1>2, <3>1, <3>2
    <2>7. MonthStart(now)' = month
      BY <2>1 DEF MonthStart, month
    <2>8. Rises(longer, month)
      BY <2>4, <2>6 DEF Rises
    <2> QED
      BY <2>1, <2>4, <2>5, <2>7, <2>8, Zenon DEF ReadingsRise, Rises
  <1>6. CASE (dailyMaintenance \/ Start) /\ Prune
    <2> DEFINE cutoff == PreviousMonthStart(now)
               kept == Since(rows, cutoff)
               d == OlderThan(rows, cutoff)
    <2>1. trafficSamples' = kept /\ UNCHANGED <<now, traffic>> /\ cutoff \in Int
      BY <1>6, CutoffsAre DEF Prune, dailyMaintenance, Start, meters, Typed
    <2> HIDE DEF cutoff
    <2>2. d \in 0..n
      BY <1>1, <2>1, OlderComeFirst
    <2>3. Len(kept) = n - d /\ \A i \in 1..(n - d) : kept[i] = rows[i + d]
      BY <1>1, <2>1, SinceIs
    <2> HIDE DEF n, d, kept, month
    <2>4. \A i \in 1..(n - d) : i + d \in 1..n
      BY <1>2, <2>2
    <2>5. \A i, j \in 1..(n - d) : i <= j => i + d <= j + d
      BY <2>2
    <2>6. Rises(kept, month)
      BY <2>3, <2>4, <2>5, Zenon DEF ReadingsRise, Rises, n, month
    <2>7. \A i \in 1..(n - d) : kept[i].t >= month => kept[i].gb <= traffic
      BY <2>3, <2>4, Zenon DEF ReadingsRise, n, month
    <2>8. MonthStart(now)' = month
      BY <2>1 DEF MonthStart, month
    <2> QED
      BY <2>1, <2>3, <2>6, <2>7, <2>8, Zenon DEF ReadingsRise, Rises
  <1>7. \/ Tick \/ AddTraffic
        \/ (dailyMaintenance \/ Start) /\ Prune
        \/ UNCHANGED <<now, traffic, trafficSamples>>
    <2>1. CASE BeginCheck \/ CheckFails
      BY <2>1 DEF BeginCheck, CheckFails, tables, meters
    <2>2. CASE AddBalance \/ Record
      BY <2>2 DEF AddBalance, Record, InCheck, meters
    <2>3. CASE dailyMaintenance \/ Start
      BY <2>3 DEF dailyMaintenance, Start, meters
    <2>4. CASE Crash \/ ReadResult \/ ReadSamples \/ Answer
      BY <2>4 DEF Crash, ReadResult, ReadSamples, Answer, tables, meters
    <2>5. CASE UNCHANGED vars
      BY <2>5 DEF vars
    <2> QED
      BY <2>1, <2>2, <2>3, <2>4, <2>5 DEF Next
  <1> QED
    BY <1>3, <1>4, <1>5, <1>6, <1>7

LEMMA ReadingsRiseHolds == Spec => []ReadingsRise
  <1>1. Init => ReadingsRise
    BY DEF Init, ReadingsRise, Rises
  <1>2. Typed /\ ReadingsRise /\ [Next]_vars => ReadingsRise'
    BY ReadingsRiseStep
  <1> QED
    BY <1>1, <1>2, TypedHolds, PTL DEF Spec

\* What was shown at the end of a day, from the last reading of that day and the last
\* one before it.
LEMMA ShownAtEndOfDay ==
    ASSUME NEW Row, Dated(Row), NEW rows, IsTable(rows, Row),
           NEW begin \in Int, DayStart(begin) = begin
    PROVE  LET k == OlderThan(rows, begin + Day)
               e == OlderThan(rows, begin)
               baseline == IF DayOfMonth(begin) = 1 \/ e = 0 THEN 0 ELSE rows[e].gb
           IN  /\ e <= k
               /\ TodayTraffic(Before(rows, begin + Day), begin)
                     = IF k = e THEN 0 ELSE AtLeastZero(rows[k].gb - baseline)
  <1> DEFINE n == Len(rows)
             end == begin + Day
             k == OlderThan(rows, end)
             e == OlderThan(rows, begin)
             first == Before(rows, end)
             today == Since(first, begin)
             earlier == Before(first, begin)
             baseline == IF DayOfMonth(begin) = 1 \/ e = 0 THEN 0 ELSE rows[e].gb
  <1>1. end \in Int /\ begin <= end
    BY MonthIsLong
  <1> HIDE DEF end
  <1>2. n \in Nat /\ k \in 0..n /\ e \in 0..n /\ \A i \in 1..n : rows[i].t < begin <=> i <= e
    BY <1>1, OlderComeFirst, LenProperties DEF IsTable
  <1>3. e <= k
    BY <1>1, OlderOfSince
  <1>4. IsTable(first, Row) /\ Len(first) = k /\ \A i \in 1..k : first[i] = rows[i]
    BY <1>1, BeforeIs
  <1> HIDE DEF n, k, e, first
  <1>5. OlderThan(first, begin) = e
    <2>1. e \in 0..Len(first) /\ \A i \in 1..Len(first) : i \in 1..n /\ first[i] = rows[i]
      BY <1>2, <1>3, <1>4
    <2>2. \A i \in 1..Len(first) : first[i].t < begin <=> i <= e
      BY <1>2, <2>1
    <2> QED
      BY <1>4, <2>1, <2>2, OlderIs
  <1>6. /\ IsTable(today, Row) /\ Len(today) = k - e
        /\ \A i \in 1..(k - e) : today[i] = first[i + e]
    BY <1>4, <1>5, SinceIs
  <1>7. IsTable(earlier, Row) /\ Len(earlier) = e /\ \A i \in 1..e : earlier[i] = first[i]
    BY <1>4, <1>5, BeforeIs
  <1>8. TodayTraffic(first, begin)
           = IF today = <<>> THEN 0
             ELSE AtLeastZero(Last(today).gb
                     - (IF DayOfMonth(begin) = 1 \/ earlier = <<>> THEN 0
                        ELSE Last(earlier).gb))
    BY Zenon DEF TodayTraffic
  <1> HIDE DEF today, earlier
  <1>9. (today = <<>> <=> k = e) /\ (k # e => Last(today) = rows[k])
    <2>1. today = <<>> => k = e
      BY <1>2, <1>6, EmptySeq
    <2>2. k = e => today = <<>>
      BY <1>2, <1>6, EmptySeq DEF IsTable
    <2>3. ASSUME k # e PROVE Last(today) = rows[k]
      <3>1. k - e \in 1..(k - e) /\ (k - e) + e = k /\ k \in 1..k
        BY <1>2, <1>3, <2>3
      <3>2. Last(today) = today[k - e]
        BY <1>6 DEF Last
      <3> QED
        BY <1>4, <1>6, <3>1, <3>2
    <2> QED
      BY <2>1, <2>2, <2>3
  <1>10. (earlier = <<>> <=> e = 0) /\ (e # 0 => Last(earlier) = rows[e])
    <2>1. earlier = <<>> => e = 0
      BY <1>7, EmptySeq
    <2>2. e = 0 => earlier = <<>>
      BY <1>7, EmptySeq DEF IsTable
    <2>3. ASSUME e # 0 PROVE Last(earlier) = rows[e]
      <3>1. e \in 1..e /\ e \in 1..k
        BY <1>2, <1>3, <2>3
      <3>2. Last(earlier) = earlier[e]
        BY <1>7 DEF Last
      <3> QED
        BY <1>4, <1>7, <3>1, <3>2
    <2> QED
      BY <2>1, <2>2, <2>3
  <1>11. TodayTraffic(first, begin) = IF k = e THEN 0 ELSE AtLeastZero(rows[k].gb - baseline)
    BY <1>8, <1>9, <1>10, Zenon
  <1> QED
    BY <1>3, <1>11 DEF k, e, first, end

\* What was shown at the end of each day of the month so far adds up to the last
\* reading of the month, over days without a reading, prunes, restarts and the change
\* of the month, if the first day of the month has one.
THEOREM DaysMakeTheMonth == Spec => []DaysAddUp
  <1>1. Typed /\ ReadingsRise => DaysAddUp
    <2> DEFINE rows == trafficSamples
               n == Len(rows)
               m == MonthStart(now)
               month == Since(rows, m)
               days == DayOfMonth(now)
               begin(d) == m + (d - 1) * Day
               shown(d) == TodayTraffic(Before(rows, begin(d) + Day), begin(d))
               terms == [d \in 1..days |-> shown(d)]
    <2> SUFFICES ASSUME Typed, ReadingsRise, month # <<>>, DayOfMonth(Head(month).t) = 1
                 PROVE  Total(terms) = Last(month).gb
      BY Zenon DEF DaysAddUp
    <2> DEFINE at(d) == OlderThan(rows, m + d * Day)
               k == OlderThan(rows, m)
    <2>1. /\ now \in Int /\ m \in Int /\ Day \in Nat \ {0} /\ days \in Nat \ {0}
          /\ Dated(TrafficRow) /\ IsTable(rows, TrafficRow) /\ NoLater(rows, now)
      <3>1. now \in Int
        BY DEF Typed, Scalars
      <3> QED
        BY <3>1, CalendarIs, DaysOfMonth, MonthIsLong, RowsAreDated, RowsAreOfThePast
           DEF Typed, Tables
    <2>2. /\ n \in Nat /\ DOMAIN rows = 1..n
          /\ \A i \in 1..n : rows[i].t \in Int /\ rows[i].gb \in Nat /\ rows[i].t <= now
      <3>1. rows \in Seq(TrafficRow) /\ n \in Nat /\ DOMAIN rows = 1..n
        BY <2>1, LenProperties DEF IsTable
      <3>2. \A i \in 1..n : rows[i] \in TrafficRow
        BY <3>1, ElementOfSeq
      <3> QED
        BY <2>1, <3>1, <3>2 DEF Dated, NoLater, TrafficRow
    <2>3. k \in 0..n /\ \A i \in 1..n : rows[i].t < m <=> i <= k
      BY <2>1, OlderComeFirst
    <2>4. /\ IsTable(month, TrafficRow) /\ Len(month) = n - k
          /\ \A i \in 1..(n - k) : month[i] = rows[i + k]
      BY <2>1, SinceIs
    <2> HIDE DEF month, shown, at, k, m, days
    <2>5. ASSUME NEW d \in 0..days
          PROVE  /\ d * Day \in Nat /\ m + d * Day \in Int
                 /\ at(d) \in 0..n /\ \A i \in 1..n : rows[i].t < m + d * Day <=> i <= at(d)
      <3>1. d * Day \in Nat
        BY <2>1
      <3>2. m + d * Day \in Int
        BY <2>1, <3>1
      <3> QED
        BY <2>1, <3>1, <3>2, OlderComeFirst DEF at
    <2>6. at(0) = k
      <3>1. m + 0 * Day = m
        BY <2>1
      <3> QED
        BY <3>1 DEF at, k
    <2>7. ASSUME NEW d \in 0..days PROVE k <= at(d)
      <3>1. m <= m + d * Day
        BY <2>1, <2>5
      <3> QED
        BY <2>1, <2>5, <3>1, OlderOfSince DEF at, k
    <2>8. k < n /\ Last(month) = rows[n] /\ Head(month) = rows[k + 1]
      <3>1. Len(month) \in Nat \ {0} /\ Last(month) = month[Len(month)]
        BY <2>4, LastIs
      <3>2. n - k \in 1..(n - k) /\ (n - k) + k = n /\ 1 \in 1..(n - k) /\ 1 + k = k + 1
        <4>1. n \in Nat /\ k \in 0..n /\ n - k \in Nat \ {0}
          BY <2>2, <2>3, <2>4, <3>1, Zenon
        <4> HIDE DEF n
        <4> QED
          BY <4>1
      <3>3. Head(month) = month[1]
        BY <2>4 DEF IsTable
      <3> QED
        BY <2>2, <2>3, <2>4, <3>1, <3>2, <3>3
    <2>9. k < at(1)
      <3>1. rows[k + 1].t \in Int /\ rows[k + 1].t <= now /\ k + 1 \in 1..n
        BY <2>2, <2>3, <2>8
      <3> DEFINE t == rows[k + 1].t
      <3> HIDE DEF t
      <3>2. t \in Int /\ t <= now /\ DayOfMonth(t) = 1
        BY <2>8, <3>1 DEF t
      <3>3. MonthStart(t) <= m /\ MonthStart(t) \in Int
        BY <2>1, <3>2, MonthsInOrder, CalendarIs DEF m
      <3>4. DayStart(t) = MonthStart(t)
        <4>1. DayStart(t) = MonthStart(t) + (1 - 1) * Day
          BY <3>2, DaysOfMonth
        <4> QED
          BY <2>1, <3>3, <4>1
      <3>5. t < DayStart(t) + Day
        BY <3>2, CalendarIs
      <3>6. t < m + 1 * Day
        BY <2>1, <3>2, <3>3, <3>4, <3>5
      <3>7. 1 \in 0..days
        BY <2>1
      <3> QED
        BY <2>3, <2>5, <3>1, <3>6, <3>7 DEF t
    <2>10. ASSUME NEW d \in 1..days PROVE at(1) <= at(d)
      <3>1. d \in 0..days /\ 1 \in 0..days
        BY <2>1
      <3>2. Day * 1 <= Day * d /\ Day * d = d * Day /\ Day * 1 = 1 * Day
        BY <2>1, TimesOrder
      <3>3. m + 1 * Day <= m + d * Day /\ m + 1 * Day \in Int /\ m + d * Day \in Int
        BY <2>1, <2>5, <3>1, <3>2
      <3> QED
        BY <2>1, <3>3, OlderOfSince DEF at
    <2> DEFINE v == [d \in 0..days |-> IF at(d) = k THEN 0 ELSE rows[at(d)].gb]
    <2>11. v \in [0..days -> Int]
      <3>1. ASSUME NEW d \in 0..days, at(d) # k PROVE rows[at(d)].gb \in Int
        <4>1. at(d) \in 1..n
          BY <2>2, <2>3, <2>5, <2>7, <3>1
        <4> QED
          BY <2>2, <4>1
      <3> QED
        BY <3>1
    <2>12. ASSUME NEW d \in 1..days PROVE shown(d) = v[d] - v[d - 1]
      <3>1. d \in 0..days /\ d - 1 \in 0..days
        BY <2>1
      <3>2. /\ v[d] = (IF at(d) = k THEN 0 ELSE rows[at(d)].gb) /\ v[d] \in Int
            /\ v[d - 1] = (IF at(d - 1) = k THEN 0 ELSE rows[at(d - 1)].gb) /\ v[d - 1] \in Int
        BY <2>11, <3>1
      <3> HIDE DEF v
      <3>3. /\ begin(d) \in Int /\ begin(d) + Day = m + d * Day
            /\ DayStart(begin(d)) = begin(d) /\ DayOfMonth(begin(d)) = d
        BY <2>1, DayOfMonthBegins DEF m, days
      <3> DEFINE baseline == IF d = 1 \/ at(d - 1) = 0 THEN 0 ELSE rows[at(d - 1)].gb
      <3>4. /\ at(d - 1) <= at(d)
            /\ shown(d) = IF at(d) = at(d - 1) THEN 0
                          ELSE AtLeastZero(rows[at(d)].gb - baseline)
        <4> DEFINE b == begin(d)
                   e == OlderThan(rows, b)
                   f == OlderThan(rows, b + Day)
        <4>1. b \in Int /\ DayStart(b) = b /\ DayOfMonth(b) = d
          BY <3>3
        <4>2. e = at(d - 1) /\ f = at(d)
          BY <3>3, Zenon DEF at
        <4>3. shown(d) = TodayTraffic(Before(rows, b + Day), b)
          BY Zenon DEF shown
        <4> HIDE DEF b
        <4>4. /\ e <= f
              /\ TodayTraffic(Before(rows, b + Day), b)
                    = IF f = e THEN 0
                      ELSE AtLeastZero(rows[f].gb
                              - (IF DayOfMonth(b) = 1 \/ e = 0 THEN 0 ELSE rows[e].gb))
          BY <2>1, <4>1, ShownAtEndOfDay
        <4> HIDE DEF e, f
        <4> QED
          BY <4>1, <4>2, <4>3, <4>4, Zenon
      <3>5. CASE at(d) = at(d - 1)
        <4>1. v[d] = v[d - 1]
          BY <3>2, <3>5, Zenon
        <4> QED
          BY <3>2, <3>4, <3>5, <4>1
      <3>6. CASE at(d) # at(d - 1)
        <4>1. at(d) \in 1..n /\ at(d) # k /\ at(d - 1) < at(d) /\ k <= at(d - 1)
          BY <2>2, <2>3, <2>5, <2>7, <3>1, <3>4, <3>6
        <4>2. v[d] = rows[at(d)].gb /\ rows[at(d)].gb \in Nat
          BY <2>2, <3>2, <4>1
        <4>3. shown(d) = AtLeastZero(v[d] - baseline)
          BY <3>4, <3>6, <4>2, Zenon
        <4>4. baseline = v[d - 1] /\ baseline <= v[d]
          <5>1. CASE d = 1
            <6>1. at(d - 1) = k
              BY <2>6, <5>1
            <6>2. baseline = 0 /\ v[d - 1] = 0
              BY <3>2, <5>1, <6>1, Zenon
            <6> QED
              BY <4>2, <6>2
          <5>2. CASE d # 1
            <6>1. d - 1 \in 1..days
              BY <2>1, <5>2
            <6>2. k < at(d - 1) /\ at(d - 1) \in 1..n
              <7>1. at(1) <= at(d - 1) /\ k < at(1) /\ at(1) \in Int
                <8>1. 1 \in 0..days
                  BY <2>1
                <8> QED
                  BY <2>5, <2>9, <2>10, <6>1, <8>1
              <7>2. at(d - 1) \in 0..n
                BY <2>5, <3>1
              <7> HIDE DEF n
              <7> QED
                BY <2>2, <2>3, <7>1, <7>2
            <6>3. at(d - 1) # 0 /\ at(d - 1) # k
              BY <2>3, <6>2
            <6>4. baseline = rows[at(d - 1)].gb /\ v[d - 1] = rows[at(d - 1)].gb
              BY <3>2, <5>2, <6>3, Zenon
            <6>5. rows[at(d - 1)].t >= m
              BY <2>1, <2>2, <2>3, <6>2
            <6>6. rows[at(d - 1)].gb <= rows[at(d)].gb
              <7>1. at(d - 1) <= at(d)
                BY <3>4
              <7> QED
                BY <4>1, <6>2, <6>5, <7>1, Zenon DEF ReadingsRise, Rises, m
            <6> QED
              BY <4>2, <6>4, <6>6
          <5> QED
            BY <5>1, <5>2
        <4>5. v[d] - v[d - 1] \in Nat
          BY <3>2, <4>4
        <4>6. AtLeastZero(v[d] - v[d - 1]) = v[d] - v[d - 1]
          <5>1. ASSUME NEW x \in Nat PROVE AtLeastZero(x) = x
            BY <5>1 DEF AtLeastZero
          <5> QED
            BY <4>5, <5>1
        <4> QED
          BY <4>3, <4>4, <4>6, Zenon
      <3> QED
        BY <3>5, <3>6
    <2>13. v[0] = 0 /\ v[days] = rows[n].gb
      <3>1. 0 \in 0..days /\ days \in 0..days
        BY <2>1
      <3>2. v[0] = 0
        BY <2>6, <3>1
      <3>3. at(days) = n
        <4>1. now < m + days * Day
          <5>1. DayStart(now) = m + (days - 1) * Day /\ now < DayStart(now) + Day
                /\ DayStart(now) \in Int
            BY <2>1, DaysOfMonth, CalendarIs DEF m, days
          <5>2. (days - 1) * Day + Day = days * Day /\ (days - 1) * Day \in Int
            BY <2>1
          <5> QED
            BY <2>1, <2>5, <3>1, <5>1, <5>2
        <4>2. \A i \in 1..n : rows[i].t < m + days * Day
          BY <2>1, <2>2, <2>5, <3>1, <4>1
        <4>3. n \in 1..n
          BY <2>2, <2>3, <2>8
        <4> QED
          BY <2>2, <2>5, <3>1, <4>2, <4>3
      <3>4. at(days) # k
        BY <2>3, <2>8, <3>3
      <3> QED
        BY <3>1, <3>2, <3>3, <3>4
    <2>14. terms \in [1..days -> Int] /\ \A d \in 1..days : terms[d] = v[d] - v[d - 1]
      <3> HIDE DEF v
      <3>1. \A d \in 1..days : v[d] - v[d - 1] \in Int
        <4>1. \A d \in 1..days : d \in 0..days /\ d - 1 \in 0..days
          BY <2>1
        <4> QED
          BY <2>11, <4>1
      <3> QED
        BY <2>12, <3>1
    <2> HIDE DEF terms, v
    <2>15. Total(terms) = v[days] - v[0]
      <3>1. 0 \in 0..days /\ days \in Nat
        BY <2>1
      <3>2. \A d \in 1..days : terms[d] = IF d <= 0 THEN 0 ELSE v[d] - v[d - 1]
        BY <2>1, <2>14
      <3> QED
        BY <2>11, <2>14, <3>1, <3>2, TotalTelescopes
    <2>16. v[days] \in Int
      BY <2>1, <2>11
    <2> QED
      BY <2>8, <2>13, <2>15, <2>16
  <1> QED
    BY <1>1, TypedHolds, ReadingsRiseHolds, PTL
=============================================================================
