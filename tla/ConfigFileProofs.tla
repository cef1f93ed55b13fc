--------------------------- MODULE ConfigFileProofs ---------------------------
(***************************************************************************)
(* Theorems about ConfigFile: that the migration of older files is right,  *)
(* for any stop windows; what no call writes into the file, however the    *)
(* calls overlap; and what the file keeps as long as they do not.          *)
(***************************************************************************)
EXTENDS ConfigFile, StartScheduleProofs, FiniteSetTheorems, SequenceTheorems

-----------------------------------------------------------------------------
(* The migration of stop windows.  An interval of a day holds the minutes  *)
(* from its start up to its end.                                           *)

Interval == {i \in (0..Minutes) \X (0..Minutes) : i[1] <= i[2]}
Holds(i, m) == i[1] <= m /\ m < i[2]
SomeHolds(s, m) == \E k \in DOMAIN s : Holds(s[k], m)

\* The intervals of a list come by their starts.
ByStart(s) == \A i, j \in DOMAIN s : i < j => s[i][1] <= s[j][1]

LEMMA IntervalIs ==
    ASSUME NEW i \in Interval
    PROVE  /\ i[1] \in Nat /\ i[2] \in Nat /\ i[1] <= i[2] /\ i[2] <= Minutes
           /\ Minutes \in Nat \ {0}
  BY ClockAssumption DEF Interval

\* There are finitely many intervals.
LEMMA IntervalsAreFinite ==
    ASSUME NEW S \in SUBSET Interval
    PROVE  IsFiniteSet(S) /\ Cardinality(S) \in Nat
  <1>1. IsFiniteSet(0..Minutes)
    BY ClockAssumption, FS_Interval
  <1>2. IsFiniteSet((0..Minutes) \X (0..Minutes))
    BY <1>1, FS_Product
  <1>3. S \in SUBSET ((0..Minutes) \X (0..Minutes))
    BY DEF Interval
  <1>4. IsFiniteSet(S)
    BY <1>2, <1>3, FS_Subset
  <1> QED
    BY <1>4, FS_CardinalityType

\* Any set of intervals can be ordered: the one with the latest start comes last.
LEMMA CanBeOrdered ==
    ASSUME NEW S \in SUBSET Interval
    PROVE  \E s \in SetToSeqs(S) : ByStart(s)
  <1> DEFINE P(n) == \A T \in SUBSET Interval :
                        Cardinality(T) = n => \E s \in SetToSeqs(T) : ByStart(s)
             bad == {n \in Nat : ~P(n)}
  <1>1. P(0)
    <2> SUFFICES ASSUME NEW T \in SUBSET Interval, Cardinality(T) = 0
                 PROVE  \E s \in SetToSeqs(T) : ByStart(s)
      OBVIOUS
    <2> DEFINE s == [k \in 1..0 |-> k]
    <2>1. s \in [1..0 -> T] /\ DOMAIN s = {}
      OBVIOUS
    <2> HIDE DEF s
    <2>2. s \in SetToSeqs(T) /\ ByStart(s)
      BY <2>1 DEF SetToSeqs, ByStart
    <2> QED
      BY <2>2
  <1>2. ASSUME NEW n \in Nat \ {0}, P(n - 1) PROVE P(n)
    <2> SUFFICES ASSUME NEW T \in SUBSET Interval, Cardinality(T) = n
                 PROVE  \E s \in SetToSeqs(T) : ByStart(s)
      OBVIOUS
    <2>1. IsFiniteSet(T) /\ T # {}
      BY IntervalsAreFinite, FS_EmptySet
    <2>2. PICK x \in T : \A y \in T : y[1] <= x[1]
      <3> DEFINE below == {Minutes - y[1] : y \in T}
      <3>1. \A y \in T : Minutes - y[1] \in Nat /\ y[1] \in Nat
        BY IntervalIs
      <3>2. below \in SUBSET Nat /\ below # {}
        BY <2>1, <3>1
      <3>3. PICK d \in below : \A e \in below : d <= e
        <4> HIDE DEF below
        <4> QED BY <3>2, LeastNat
      <3>4. PICK x \in T : d = Minutes - x[1]
        BY <3>3
      <3>5. ASSUME NEW y \in T PROVE y[1] <= x[1]
        <4>1. d <= Minutes - y[1]
          BY <3>3
        <4> QED
          BY <3>1, <3>4, <4>1, ClockAssumption
      <3> QED
        BY <3>5
    <2>3. T \ {x} \in SUBSET Interval /\ Cardinality(T \ {x}) = n - 1
      BY <2>1, FS_RemoveElement
    <2>4. PICK r \in SetToSeqs(T \ {x}) : ByStart(r)
      BY <1>2, <2>3
    <2>5. /\ r \in [1..(n - 1) -> T \ {x}] /\ \A i, j \in 1..(n - 1) : i # j => r[i] # r[j]
          /\ DOMAIN r = 1..(n - 1)
      BY <2>3, <2>4 DEF SetToSeqs
    <2> DEFINE s == [k \in 1..n |-> IF k = n THEN x ELSE r[k]]
    <2>6. ASSUME NEW k \in 1..n
          PROVE  /\ s[k] \in T
                 /\ k = n => s[k] = x
                 /\ k # n => k \in 1..(n - 1) /\ s[k] = r[k] /\ s[k] # x
      <3>1. CASE k = n
        BY <3>1
      <3>2. CASE k # n
        <4>1. k \in 1..(n - 1)
          BY <3>2
        <4>2. r[k] \in T \ {x}
          BY <2>5, <4>1
        <4> QED
          BY <3>2, <4>1, <4>2
      <3> QED
        BY <3>1, <3>2
    <2>7. s \in [1..n -> T] /\ DOMAIN s = 1..n
      <3>1. \A k \in 1..n : (IF k = n THEN x ELSE r[k]) \in T
        BY <2>6
      <3> QED
        BY <3>1
    <2> HIDE DEF s
    <2>8. s \in SetToSeqs(T)
      <3>1. \A i, j \in 1..n : i # j => s[i] # s[j]
        BY <2>5, <2>6
      <3> QED
        BY <2>7, <3>1 DEF SetToSeqs
    <2>9. ByStart(s)
      <3> SUFFICES ASSUME NEW i \in 1..n, NEW j \in 1..n, i < j PROVE s[i][1] <= s[j][1]
        BY <2>7 DEF ByStart
      <3>1. i # n /\ i \in 1..(n - 1) /\ s[i] = r[i] /\ s[i] \in T
        <4>1. i # n
          OBVIOUS
        <4> QED
          BY <2>6, <4>1
      <3>2. CASE j = n
        BY <2>2, <2>6, <3>1, <3>2
      <3>3. CASE j # n
        BY <2>4, <2>5, <2>6, <3>1, <3>3 DEF ByStart
      <3> QED
        BY <3>2, <3>3
    <2> QED
      BY <2>8, <2>9
  <1>3. ASSUME bad # {} PROVE FALSE
    <2> HIDE DEF P
    <2>1. PICK n \in bad : \A m \in bad : n <= m
      BY <1>3, LeastNat
    <2>2. n \in Nat \ {0} /\ n - 1 \in Nat /\ n - 1 \notin bad
      BY <1>1, <2>1
    <2>3. P(n - 1)
      BY <2>2
    <2>4. P(n)
      BY <1>2, <2>2, <2>3
    <2> QED
      BY <2>1, <2>4
  <1>4. P(Cardinality(S))
    <2> HIDE DEF P
    <2> QED BY <1>3, IntervalsAreFinite
  <1> QED
    BY <1>4

\* The ordered list has the intervals of the set.
LEMMA InOrderIs ==
    ASSUME NEW S \in SUBSET Interval
    PROVE  LET n == Cardinality(S)
               s == InOrder(S)
           IN  /\ n \in Nat /\ s \in [1..n -> Interval] /\ ByStart(s)
               /\ \A k \in 1..n : s[k] \in S
               /\ \A i \in S : \E k \in 1..n : s[k] = i
  <1> DEFINE n == Cardinality(S)
             s == InOrder(S)
  <1>1. IsFiniteSet(S) /\ n \in Nat
    BY IntervalsAreFinite
  <1>2. s \in SetToSeqs(S) /\ ByStart(s)
    BY CanBeOrdered, Zenon DEF InOrder, ByStart
  <1> HIDE DEF s
  <1>3. s \in [1..n -> S] /\ DOMAIN s = 1..n /\ \A i, j \in 1..n : i # j => s[i] # s[j]
    BY <1>2 DEF SetToSeqs
  <1>4. s \in Injection(1..n, S)
    BY <1>3 DEF Injection, IsInjective
  <1>5. Cardinality(1..n) = n
    <2> HIDE DEF n
    <2> QED BY <1>1, FS_Interval
  <1>6. s \in Surjection(1..n, S)
    BY <1>1, <1>4, <1>5, FS_Injection
  <1>7. \A i \in S : \E k \in 1..n : s[k] = i
    BY <1>6 DEF Surjection
  <1>8. s \in [1..n -> Interval]
    BY <1>3
  <1> QED
    BY <1>1, <1>2, <1>3, <1>7, <1>8 DEF s

\* One interval that starts no earlier than the last: the list stays ordered and
\* holds the minutes of the interval besides.
LEMMA MergedIs ==
    ASSUME NEW s \in Seq(Interval), NEW i \in Interval
    PROVE  /\ Merged(s, i) \in Seq(Interval)
           /\ ByStart(s) /\ (\A k \in 1..Len(s) : s[k][1] <= i[1]) =>
                 /\ ByStart(Merged(s, i))
                 /\ \A k \in 1..Len(Merged(s, i)) : Merged(s, i)[k][1] <= i[1]
                 /\ \A m \in Nat : SomeHolds(Merged(s, i), m) <=> SomeHolds(s, m) \/ Holds(i, m)
  <1> DEFINE n == Len(s)
             last == s[n]
             t == Merged(s, i)
             before == ByStart(s) /\ \A k \in 1..n : s[k][1] <= i[1]
  <1>1. /\ n \in Nat /\ s \in [1..n -> Interval] /\ DOMAIN s = 1..n
        /\ i[1] \in Nat /\ i[2] \in Nat
        /\ (s = <<>> <=> n = 0)
    BY LenProperties, EmptySeq, IntervalIs
  <1>2. ASSUME NEW k \in 1..n
        PROVE  s[k] \in Interval /\ s[k][1] \in Nat /\ s[k][2] \in Nat /\ s[k][1] <= s[k][2]
    BY <1>1, IntervalIs
  <1>3. CASE i[1] >= i[2]
    <2>1. t = s
      BY <1>3 DEF Merged
    <2>2. \A m \in Nat : ~Holds(i, m)
      BY <1>1, <1>3 DEF Holds
    <2> HIDE DEF t
    <2> QED
      BY <2>1, <2>2 DEF t
  <1>4. CASE i[1] < i[2] /\ (s = <<>> \/ i[1] > Last(s)[2])
    <2>1. t = Append(s, i)
      <3>1. ~(i[1] >= i[2])
        BY <1>1, <1>4
      <3> QED
        BY <1>4, <3>1, Zenon DEF Merged
    <2>2. /\ t \in Seq(Interval) /\ Len(t) = n + 1 /\ DOMAIN t = 1..(n + 1)
          /\ \A k \in 1..n : t[k] = s[k]
          /\ t[n + 1] = i
      <3>1. Append(s, i) \in Seq(Interval)
        BY AppendProperties
      <3> QED
        BY <2>1, <3>1, AppendProperties, LenProperties
    <2> HIDE DEF t
    <2>3. ASSUME before
          PROVE  ByStart(t) /\ \A k \in 1..(n + 1) : t[k][1] <= i[1]
      <3>1. ASSUME NEW k \in 1..(n + 1) PROVE t[k][1] <= i[1]
        <4>1. CASE k = n + 1
          BY <1>1, <2>2, <4>1
        <4>2. CASE k \in 1..n
          BY <2>2, <2>3, <4>2
        <4> QED
          BY <1>1, <4>1, <4>2
      <3>2. ASSUME NEW j \in 1..(n + 1), NEW k \in 1..(n + 1), j < k PROVE t[j][1] <= t[k][1]
        <4>1. CASE k = n + 1
          BY <2>2, <3>1, <4>1
        <4>2. CASE k # n + 1
          <5>1. j \in 1..n /\ k \in 1..n
            BY <1>1, <3>2, <4>2
          <5> QED
            BY <1>1, <2>2, <2>3, <3>2, <5>1 DEF ByStart
        <4> QED
          BY <4>1, <4>2
      <3> QED
        BY <2>2, <3>1, <3>2 DEF ByStart
    <2>4. ASSUME NEW m \in Nat PROVE SomeHolds(t, m) <=> SomeHolds(s, m) \/ Holds(i, m)
      <3>1. \A k \in 1..(n + 1) : k \in 1..n \/ k = n + 1
        BY <1>1
      <3>2. (1..n) \subseteq 1..(n + 1) /\ n + 1 \in 1..(n + 1)
        BY <1>1
      <3> QED
        BY <1>1, <2>2, <3>1, <3>2 DEF SomeHolds
    <2> QED
      BY <2>2, <2>3, <2>4 DEF t
  <1>5. CASE i[1] < i[2] /\ s # <<>> /\ i[1] <= Last(s)[2] /\ i[2] > Last(s)[2]
    <2> DEFINE wide == <<last[1], i[2]>>
    <2>1. Last(s) = last /\ n \in 1..n /\ n \in Nat \ {0} /\ last \in Interval
      BY <1>1, <1>2, <1>5 DEF Last
    <2>2. t = Front(s) \o <<wide>>
      <3>1. ~(i[1] > Last(s)[2])
        BY <1>1, <1>2, <1>5, <2>1
      <3> QED
        BY <1>1, <1>5, <2>1, <3>1 DEF Merged
    <2>3. wide \in Interval /\ wide[1] = last[1] /\ wide[2] = i[2]
      BY <1>1, <1>2, <1>5, <2>1, IntervalIs DEF Interval
    <2> HIDE DEF wide, last
    <2>4. /\ Front(s) \in Seq(Interval) /\ Len(Front(s)) = n - 1
          /\ \A k \in 1..(n - 1) : Front(s)[k] = s[k]
      <3>1. Front(s) = SubSeq(s, 1, n - 1)
        BY DEF Front
      <3>2. \A k \in 1..(n - 1) : s[k] \in Interval
        BY <1>1, <1>2
      <3>3. n - 1 \in Int /\ (n - 1) - 1 + 1 = n - 1
        BY <2>1
      <3> HIDE DEF n
      <3>4. /\ SubSeq(s, 1, n - 1) \in Seq(Interval)
            /\ Len(SubSeq(s, 1, n - 1)) = IF 1 <= n - 1 THEN (n - 1) - 1 + 1 ELSE 0
            /\ \A k \in 1..((n - 1) - 1 + 1) : SubSeq(s, 1, n - 1)[k] = s[1 + k - 1]
        BY <3>2, <3>3, SubSeqProperties
      <3> QED
        BY <2>1, <3>1, <3>3, <3>4
    <2>5. <<wide>> \in Seq(Interval) /\ Len(<<wide>>) = 1 /\ <<wide>>[1] = wide
      BY <2>3
    <2>6. /\ t \in Seq(Interval) /\ Len(t) = n
          /\ \A k \in 1..n : t[k] = IF k <= n - 1 THEN Front(s)[k] ELSE <<wide>>[k - (n - 1)]
      <3>1. (n - 1) + 1 = n
        BY <2>1
      <3> DEFINE c == Front(s) \o <<wide>>
      <3> HIDE DEF n
      <3>2. /\ c \in Seq(Interval) /\ Len(c) = Len(Front(s)) + Len(<<wide>>)
            /\ \A k \in 1..(Len(Front(s)) + Len(<<wide>>)) :
                  c[k] = IF k <= Len(Front(s)) THEN Front(s)[k] ELSE <<wide>>[k - Len(Front(s))]
        BY <2>4, <2>5, ConcatProperties
      <3>3. t = c
        BY <2>2
      <3> HIDE DEF c, t
      <3> QED
        BY <2>4, <2>5, <3>1, <3>2, <3>3
    <2> HIDE DEF t
    <2>7. /\ DOMAIN t = 1..n /\ t[n] = wide
          /\ \A k \in 1..(n - 1) : t[k] = s[k]
      <3>1. DOMAIN t = 1..n
        BY <2>6, LenProperties
      <3>2. ~(n <= n - 1) /\ n - (n - 1) = 1
        BY <2>1
      <3>3. \A k \in 1..(n - 1) : k \in 1..n /\ k <= n - 1
        BY <2>1
      <3> QED
        BY <2>1, <2>4, <2>5, <2>6, <3>1, <3>2, <3>3
    <2>8. ASSUME NEW k \in 1..n
          PROVE  t[k][1] = s[k][1] /\ (k # n => k \in 1..(n - 1) /\ t[k] = s[k])
      <3>1. CASE k = n
        BY <2>3, <2>7, <3>1 DEF last
      <3>2. CASE k # n
        <4>1. k \in 1..(n - 1)
          BY <2>1, <3>2
        <4> QED
          BY <2>7, <4>1
      <3> QED
        BY <3>1, <3>2
    <2>9. before => ByStart(t) /\ \A k \in 1..n : t[k][1] <= i[1]
      BY <1>1, <2>7, <2>8 DEF ByStart
    <2>10. ASSUME before, NEW m \in Nat PROVE SomeHolds(t, m) <=> SomeHolds(s, m) \/ Holds(i, m)
      <3>1. last[1] <= i[1] /\ last[1] \in Nat /\ last[2] \in Nat
            /\ i[1] <= last[2] /\ last[2] < i[2]
        BY <1>1, <1>2, <1>5, <2>1, <2>10 DEF last
      <3>2. Holds(wide, m) <=> Holds(last, m) \/ Holds(i, m)
        BY <1>1, <2>3, <3>1 DEF Holds
      <3>3. \A k \in 1..n : IF k = n THEN t[k] = wide /\ s[k] = last ELSE t[k] = s[k]
        BY <2>7, <2>8 DEF last
      <3> QED
        BY <1>1, <2>1, <2>7, <3>2, <3>3 DEF SomeHolds
    <2> QED
      BY <2>6, <2>9, <2>10 DEF t
  <1>6. CASE i[1] < i[2] /\ s # <<>> /\ i[1] <= Last(s)[2] /\ i[2] <= Last(s)[2]
    <2>1. Last(s) = last /\ n \in 1..n /\ last \in Interval
      BY <1>1, <1>2, <1>6 DEF Last
    <2>2. t = s
      <3>1. ~(i[1] > Last(s)[2]) /\ ~(i[2] > Last(s)[2])
        BY <1>1, <1>2, <1>6, <2>1
      <3> QED
        BY <1>1, <1>6, <2>1, <3>1 DEF Merged
    <2>3. ASSUME before, NEW m \in Nat, Holds(i, m) PROVE Holds(last, m)
      BY <1>1, <1>2, <1>6, <2>1, <2>3 DEF Holds
    <2>4. ASSUME before, NEW m \in Nat PROVE SomeHolds(s, m) <=> SomeHolds(s, m) \/ Holds(i, m)
      BY <1>1, <2>1, <2>3, <2>4 DEF SomeHolds
    <2> HIDE DEF t, last
    <2> QED
      BY <2>2, <2>4 DEF t
  <1>7. i[1] >= i[2] \/ i[1] < i[2]
    BY <1>1
  <1>8. s # <<>> => \/ i[1] > Last(s)[2] \/ i[1] <= Last(s)[2]
    BY <1>1, <1>2 DEF Last
  <1>9. s # <<>> => \/ i[2] > Last(s)[2] \/ i[2] <= Last(s)[2]
    BY <1>1, <1>2 DEF Last
  <1> HIDE DEF n, last, t, before
  <1> QED
    BY <1>3, <1>4, <1>5, <1>6, <1>7, <1>8, <1>9 DEF t, before, n

\* The same, for a list that is known to be ordered so far.
LEMMA MergedHolds ==
    ASSUME NEW s \in Seq(Interval), NEW i \in Interval, NEW t, t = Merged(s, i),
           ByStart(s), \A k \in 1..Len(s) : s[k][1] <= i[1]
    PROVE  /\ ByStart(t) /\ \A k \in 1..Len(t) : t[k][1] <= i[1]
           /\ \A m \in Nat : SomeHolds(t, m) <=> SomeHolds(s, m) \/ Holds(i, m)
  <1>1. /\ ByStart(Merged(s, i))
        /\ \A k \in 1..Len(Merged(s, i)) : Merged(s, i)[k][1] <= i[1]
        /\ \A m \in Nat : SomeHolds(Merged(s, i), m) <=> SomeHolds(s, m) \/ Holds(i, m)
    BY MergedIs, Zenon
  <1> QED
    BY <1>1, Zenon

\* The steps of the fold that merges.
LEMMA MergeSteps ==
    ASSUME NEW n \in Nat, NEW terms \in [1..n -> Interval]
    PROVE  \E f \in [0..n -> Seq(Interval)] :
              /\ f[0] = <<>> /\ f[n] = FoldLeft(Merged, <<>>, terms)
              /\ \A k \in 1..n : f[k] = Merged(f[k - 1], terms[k])
  <1> DEFINE IsMerge(h) == h = [s \in SUBSET (1..n) |-> IF s = {} THEN <<>>
                                  ELSE Merged(h[s \ {Max(s)}], terms[Max(s)])]
             g == CHOOSE h : IsMerge(h)
             f == [k \in 0..n |-> g[1..k]]
  <1>1. IsMerge(g)
    <2> DEFINE step == [x \in Seq(Interval) \X Interval |-> Merged(x[1], x[2])]
    <2>1. PICK h \in [SUBSET (1..n) -> Seq(Interval)] : IsFold(h, n, step, <<>>, terms)
      <3>1. step \in [Seq(Interval) \X Interval -> Seq(Interval)]
        BY MergedIs
      <3>2. <<>> \in Seq(Interval) /\ \A k \in 1..n : terms[k] \in Interval
        BY EmptySeq
      <3>3. ASSUME NEW X, NEW base, NEW fold, fold \in [X \X Interval -> X], base \in X
            PROVE  \E h \in [SUBSET (1..n) -> X] : IsFold(h, n, fold, base, terms)
        BY <3>2, <3>3, FoldExists
      <3> HIDE DEF step
      <3> QED
        BY <3>1, <3>2, <3>3, Zenon
    <2>2. ASSUME NEW s \in SUBSET (1..n), s # {}
          PROVE  step[<<h[s \ {Max(s)}], terms[Max(s)]>>] = Merged(h[s \ {Max(s)}], terms[Max(s)])
      <3>1. Max(s) \in 1..n /\ s \ {Max(s)} \in SUBSET (1..n)
        BY <2>2, MaxIsMember
      <3>2. h[s \ {Max(s)}] \in Seq(Interval) /\ terms[Max(s)] \in Interval
        BY <3>1
      <3> QED
        BY <3>2
    <2> HIDE DEF step
    <2>3. IsMerge(h)
      BY <2>1, <2>2, Zenon DEF IsFold
    <2> QED
      BY <2>3, Zenon
  <1>2. FoldLeft(Merged, <<>>, terms) = g[1..n]
    <2>1. DOMAIN terms = 1..n
      OBVIOUS
    <2>2. FoldLeft(Merged, <<>>, terms) =
             LET h[s \in SUBSET (DOMAIN terms)] ==
                    IF s = {} THEN <<>> ELSE Merged(h[s \ {Max(s)}], terms[Max(s)])
             IN  h[DOMAIN terms]
      BY DEF FoldLeft, MapThenFoldSet
    <2> QED
      BY <2>1, <2>2
  <1> HIDE DEF g
  <1>3. g[1..0] = <<>>
    <2>1. 1..0 = {} /\ {} \in SUBSET (1..n)
      OBVIOUS
    <2> QED
      BY <1>1, <2>1
  <1>4. ASSUME NEW k \in 1..n PROVE g[1..k] = Merged(g[1..(k - 1)], terms[k])
    <2>1. (1..k) \in SUBSET (1..n) /\ 1..k # {} /\ k \in 1..k /\ k \in Nat \ {0}
      OBVIOUS
    <2>2. Max(1..k) = k
      BY <2>1, MaxOfInterval
    <2>3. (1..k) \ {k} = 1..(k - 1)
      OBVIOUS
    <2> QED
      BY <1>1, <2>1, <2>2, <2>3
  <1> HIDE DEF IsMerge
  <1>5. \A k \in 0..n : g[1..k] \in Seq(Interval)
    <2> DEFINE bad == {k \in Nat : k <= n /\ g[1..k] \notin Seq(Interval)}
    <2>1. ASSUME bad # {} PROVE FALSE
      <3>1. PICK k \in bad : \A m \in bad : k <= m
        BY <2>1, LeastNat
      <3>2. k # 0
        BY <1>3, <3>1, EmptySeq
      <3>3. k \in 1..n /\ k - 1 \in Nat /\ k - 1 <= n /\ k - 1 \notin bad
        BY <3>1, <3>2
      <3>4. g[1..(k - 1)] \in Seq(Interval) /\ terms[k] \in Interval
        BY <3>3
      <3>5. g[1..k] \in Seq(Interval)
        BY <1>4, <3>3, <3>4, MergedIs
      <3> QED
        BY <3>1, <3>5
    <2> QED
      BY <2>1
  <1>6. /\ f \in [0..n -> Seq(Interval)] /\ f[0] = <<>> /\ f[n] = g[1..n]
        /\ \A k \in 1..n : f[k] = g[1..k] /\ f[k - 1] = g[1..(k - 1)]
    <2>1. f \in [0..n -> Seq(Interval)]
      BY <1>5
    <2>2. f[0] = <<>> /\ f[n] = g[1..n]
      BY <1>3
    <2>3. \A k \in 1..n : f[k] = g[1..k] /\ f[k - 1] = g[1..(k - 1)]
      OBVIOUS
    <2> HIDE DEF f
    <2> QED
      BY <2>1, <2>2, <2>3
  <1> HIDE DEF f
  <1>7. \A k \in 1..n : f[k] = Merged(f[k - 1], terms[k])
    BY <1>4, <1>6
  <1> QED
    BY <1>2, <1>6, <1>7

\* What mergeIntervals returns holds the minutes of its intervals, in order.
LEMMA MergeIs ==
    ASSUME NEW S \in SUBSET Interval
    PROVE  LET merged == mergeIntervals(S)
           IN  /\ merged \in Seq(Interval) /\ ByStart(merged)
               /\ \A m \in Nat : SomeHolds(merged, m) <=> \E i \in S : Holds(i, m)
  <1> DEFINE n == Cardinality(S)
             s == InOrder(S)
  <1>1. /\ n \in Nat /\ s \in [1..n -> Interval] /\ ByStart(s)
        /\ \A k \in 1..n : s[k] \in S
        /\ \A i \in S : \E k \in 1..n : s[k] = i
    BY InOrderIs
  <1>2. DOMAIN s = 1..n /\ s \in Seq(Interval)
    <2>1. DOMAIN s = 1..n
      BY <1>1
    <2>2. s \in Seq(Interval)
      BY <1>1, SeqDef
    <2> QED
      BY <2>1, <2>2
  <1> HIDE DEF s, n
  <1>3. \A m \in Nat : (\E k \in 1..n : Holds(s[k], m)) <=> \E i \in S : Holds(i, m)
    BY <1>1
  <1>4. CASE n < 2
    <2>1. mergeIntervals(S) = s
      BY <1>4 DEF mergeIntervals, s, n
    <2> QED
      BY <1>1, <1>2, <1>3, <2>1 DEF SomeHolds
  <1>5. CASE ~(n < 2)
    <2>1. PICK f \in [0..n -> Seq(Interval)] :
             /\ f[0] = <<>> /\ f[n] = FoldLeft(Merged, <<>>, s)
             /\ \A k \in 1..n : f[k] = Merged(f[k - 1], s[k])
      BY <1>1, MergeSteps
    <2>2. mergeIntervals(S) = f[n]
      BY <1>5, <2>1 DEF mergeIntervals, s, n
    <2> DEFINE Right(k) ==
                  /\ ByStart(f[k])
                  /\ k # 0 => \A j \in 1..Len(f[k]) : f[k][j][1] <= s[k][1]
                  /\ \A m \in Nat : SomeHolds(f[k], m) <=> \E j \in 1..k : Holds(s[j], m)
               bad == {k \in Nat : k <= n /\ ~Right(k)}
    <2>3. Right(0)
      <3>1. DOMAIN <<>> = {} /\ 1..0 = {}
        OBVIOUS
      <3> QED
        BY <2>1, <3>1 DEF ByStart, SomeHolds
    <2>4. ASSUME NEW k \in 1..n, Right(k - 1) PROVE Right(k)
      <3>1. f[k] = Merged(f[k - 1], s[k]) /\ f[k - 1] \in Seq(Interval) /\ s[k] \in Interval
        <4>1. k - 1 \in 0..n
          BY <1>1
        <4>2. f[k - 1] \in Seq(Interval)
          BY <4>1, Zenon
        <4>3. f[k] = Merged(f[k - 1], s[k])
          BY <2>1, Zenon
        <4> QED
          BY <1>1, <4>2, <4>3
      <3>2. \A j \in 1..Len(f[k - 1]) : f[k - 1][j][1] <= s[k][1]
        <4>1. CASE k = 1
          <5>1. f[k - 1] = <<>> /\ 1..Len(<<>>) = {}
            BY <2>1, <4>1
          <5> QED
            BY <5>1
        <4>2. CASE k # 1
          <5>1. k - 1 \in 1..n /\ k - 1 # 0 /\ k - 1 < k
            BY <1>1, <4>2
          <5>2. s[k - 1][1] <= s[k][1]
            BY <1>1, <1>2, <5>1 DEF ByStart
          <5>3. s[k - 1][1] \in Nat /\ s[k][1] \in Nat
            BY <1>1, <5>1, IntervalIs
          <5>4. ASSUME NEW j \in 1..Len(f[k - 1]) PROVE f[k - 1][j][1] <= s[k][1]
            <6>1. f[k - 1][j][1] <= s[k - 1][1]
              BY <2>4, <5>1
            <6>2. f[k - 1][j][1] \in Nat
              BY <3>1, ElementOfSeq, IntervalIs
            <6> QED
              BY <5>2, <5>3, <6>1, <6>2
          <5> QED
            BY <5>4
        <4> QED
          BY <4>1, <4>2
      <3>3. /\ ByStart(f[k]) /\ \A j \in 1..Len(f[k]) : f[k][j][1] <= s[k][1]
            /\ \A m \in Nat : SomeHolds(f[k], m) <=> SomeHolds(f[k - 1], m) \/ Holds(s[k], m)
        <4> DEFINE before == f[k - 1]
                   i == s[k]
        <4>1. before \in Seq(Interval) /\ i \in Interval /\ f[k] = Merged(before, i)
          BY <3>1
        <4>2. ByStart(before) /\ \A j \in 1..Len(before) : before[j][1] <= i[1]
          BY <2>4, <3>2
        <4> HIDE DEF before, i
        <4>3. /\ ByStart(f[k]) /\ \A j \in 1..Len(f[k]) : f[k][j][1] <= i[1]
              /\ \A m \in Nat : SomeHolds(f[k], m) <=> SomeHolds(before, m) \/ Holds(i, m)
          BY <4>1, <4>2, MergedHolds, Zenon
        <4> QED
          BY <4>3 DEF before, i
      <3>4. 1..k = (1..(k - 1)) \cup {k}
        BY <1>1
      <3>5. \A m \in Nat : SomeHolds(f[k], m) <=> \E j \in 1..k : Holds(s[j], m)
        BY <2>4, <3>3, <3>4
      <3> QED
        BY <3>3, <3>5
    <2>5. ASSUME bad # {} PROVE FALSE
      <3> HIDE DEF Right
      <3>1. PICK k \in bad : \A j \in bad : k <= j
        BY <2>5, LeastNat
      <3>2. k \in 1..n /\ k - 1 \in Nat /\ k - 1 <= n /\ k - 1 \notin bad
        BY <1>1, <2>3, <3>1
      <3>3. Right(k - 1)
        BY <3>2
      <3>4. Right(k)
        BY <2>4, <3>2, <3>3
      <3> QED
        BY <3>1, <3>4
    <2>6. Right(n)
      <3> HIDE DEF Right
      <3>1. n <= n
        BY <1>1
      <3> QED
        BY <1>1, <2>5, <3>1
    <2>7. f[n] \in Seq(Interval)
      BY <1>1, <2>1
    <2> QED
      BY <1>3, <2>2, <2>6, <2>7
  <1> QED
    BY <1>4, <1>5

\* What complementWindows has after some of the stops: the windows before `from`.
Gap == {w \in (0..(Minutes - 1)) \X (0..Minutes) : w[1] < w[2]}
Complement == [from : 0..Minutes, windows : SUBSET Gap]

\* The windows hold the minutes before `from` that are not stopped.
Complements(acc, stopped) ==
    /\ \A m \in stopped : m < acc.from
    /\ \A m \in Nat : (\E w \in acc.windows : Holds(w, m)) <=> m < acc.from /\ m \notin stopped

LEMMA GapIs ==
    ASSUME NEW w \in Gap
    PROVE  /\ w[1] \in 0..(Minutes - 1) /\ w[2] \in 0..Minutes /\ w[1] < w[2]
           /\ w[1] \in Nat /\ w[2] \in Nat
  BY ClockAssumption DEF Gap

\* One stop that begins no earlier than the windows so far end.
LEMMA ComplementedIs ==
    ASSUME NEW acc \in Complement, NEW i \in Interval
    PROVE  /\ Complemented(acc, i) \in Complement
           /\ Complemented(acc, i).from = IF i[2] > acc.from THEN i[2] ELSE acc.from
           /\ Complemented(acc, i).windows = acc.windows \cup Before(acc.from, i)
           /\ \A stopped \in SUBSET Nat :
                 (\A w \in acc.windows : w[2] <= i[1]) /\ Complements(acc, stopped) =>
                    /\ \A w \in Complemented(acc, i).windows : w[2] <= i[1]
                    /\ Complements(Complemented(acc, i), stopped \cup {m \in Nat : Holds(i, m)})
  <1> DEFINE from == acc.from
             windows == acc.windows
             next == IF i[2] > from THEN i[2] ELSE from
             new == acc.windows \cup Before(from, i)
             b == Complemented(acc, i)
  <1>1. /\ from \in 0..Minutes /\ from \in Nat /\ windows \in SUBSET Gap
        /\ i[1] \in Nat /\ i[2] \in Nat /\ i[1] <= i[2] /\ i[2] <= Minutes
        /\ Minutes \in Nat \ {0}
    BY IntervalIs DEF Complement
  <1>2. b = [from |-> next, windows |-> new]
    BY DEF Complemented
  <1>3. \A w \in Before(from, i) : w = <<from, i[1]>> /\ from < i[1]
    BY DEF Before
  <1>4. ASSUME from < i[1] PROVE <<from, i[1]>> \in Before(from, i)
    BY <1>4 DEF Before
  <1>5. ASSUME NEW w \in Before(from, i)
        PROVE  w \in Gap /\ w[1] = from /\ w[2] = i[1] /\ from < i[1]
    <2>1. w = <<from, i[1]>> /\ from < i[1]
      BY <1>3
    <2>2. w[1] = from /\ w[2] = i[1]
      BY <2>1
    <2>3. from \in 0..(Minutes - 1) /\ i[1] \in 0..Minutes
      BY <1>1, <2>1
    <2> QED
      BY <2>1, <2>2, <2>3 DEF Gap
  <1>6. next \in 0..Minutes /\ next \in Nat /\ new \in SUBSET Gap
    BY <1>1, <1>5
  <1>7. b \in Complement /\ b.from = next /\ b.windows = new
    BY <1>2, <1>6 DEF Complement
  <1>8. ASSUME NEW stopped \in SUBSET Nat, \A w \in windows : w[2] <= i[1],
               Complements(acc, stopped)
        PROVE  /\ \A w \in new : w[2] <= i[1]
               /\ Complements(b, stopped \cup {m \in Nat : Holds(i, m)})
    <2>1. \A w \in new : w[2] <= i[1]
      BY <1>1, <1>5, <1>8
    <2>2. /\ \A m \in stopped : m \in Nat /\ m < from
          /\ \A m \in Nat : (\E w \in windows : Holds(w, m)) <=> m < from /\ m \notin stopped
      BY <1>8 DEF Complements
    <2>3. ASSUME NEW m \in Nat
          PROVE  (\E w \in new : Holds(w, m)) <=> m < next /\ m \notin stopped /\ ~Holds(i, m)
      <3>1. (\E w \in Before(from, i) : Holds(w, m)) <=> from <= m /\ m < i[1]
        <4>1. ASSUME NEW w \in Before(from, i), Holds(w, m) PROVE from <= m /\ m < i[1]
          BY <1>5, <4>1 DEF Holds
        <4>2. ASSUME from <= m, m < i[1]
              PROVE  \E w \in Before(from, i) : Holds(w, m)
          <5>1. <<from, i[1]>> \in Before(from, i)
            BY <1>1, <1>4, <4>2
          <5>2. Holds(<<from, i[1]>>, m)
            BY <4>2 DEF Holds
          <5> QED
            BY <5>1, <5>2
        <4> QED
          BY <4>1, <4>2
      <3>2. (\E w \in windows : Holds(w, m)) => m < i[1]
        <4>1. ASSUME NEW w \in windows, Holds(w, m) PROVE m < i[1]
          <5>1. w[2] \in Nat /\ w[2] <= i[1] /\ m < w[2]
            BY <1>1, <1>8, <4>1, GapIs DEF Holds
          <5> QED
            BY <1>1, <5>1
        <4> QED
          BY <4>1
      <3>3. (\E w \in windows : Holds(w, m)) <=> m < from /\ m \notin stopped
        BY <2>2
      <3>4. m \in stopped => m < from
        BY <2>2
      <3>5. Holds(i, m) <=> i[1] <= m /\ m < i[2]
        BY DEF Holds
      <3>6. (\E w \in new : Holds(w, m)) <=>
               (\E w \in windows : Holds(w, m)) \/ \E w \in Before(from, i) : Holds(w, m)
        OBVIOUS
      <3>7. (\E w \in new : Holds(w, m)) <=> (m < from /\ m \notin stopped) \/ (from <= m /\ m < i[1])
        BY <3>1, <3>3, <3>6
      <3>8. m < from /\ m \notin stopped => m < i[1]
        BY <3>2, <3>3
      <3> HIDE DEF from, new
      <3> QED
        BY <1>1, <1>6, <3>4, <3>5, <3>7, <3>8
    <2>4. \A m \in stopped \cup {k \in Nat : Holds(i, k)} : m < next
      <3>1. ASSUME NEW m \in stopped PROVE m < next
        BY <1>1, <2>2
      <3>2. ASSUME NEW m \in Nat, Holds(i, m) PROVE m < next
        BY <1>1, <3>2 DEF Holds
      <3> HIDE DEF next
      <3> QED
        BY <3>1, <3>2
    <2> HIDE DEF next, new, b
    <2> QED
      BY <1>7, <2>1, <2>3, <2>4 DEF Complements
  <1> HIDE DEF b, next, new
  <1> QED
    BY <1>7, <1>8 DEF b, next, new

\* The same, for a known set of minutes that are stopped so far.
LEMMA ComplementedHolds ==
    ASSUME NEW acc \in Complement, NEW i \in Interval, NEW next, next = Complemented(acc, i),
           NEW stopped \in SUBSET Nat, NEW more, more = stopped \cup {m \in Nat : Holds(i, m)},
           \A w \in acc.windows : w[2] <= i[1], Complements(acc, stopped)
    PROVE  (\A w \in next.windows : w[2] <= i[1]) /\ Complements(next, more)
  <1>1. /\ \A w \in Complemented(acc, i).windows : w[2] <= i[1]
        /\ Complements(Complemented(acc, i), stopped \cup {m \in Nat : Holds(i, m)})
    BY ComplementedIs, Zenon
  <1> QED
    BY <1>1, Zenon

\* The steps of the fold over the stops.
LEMMA ComplementSteps ==
    ASSUME NEW n \in Nat, NEW terms \in [1..n -> Interval]
    PROVE  LET none == [from |-> 0, windows |-> {}]
           IN  \E f \in [0..n -> Complement] :
                  /\ f[0] = none /\ f[n] = FoldLeft(Complemented, none, terms)
                  /\ \A k \in 1..n : f[k] = Complemented(f[k - 1], terms[k])
  <1> DEFINE none == [from |-> 0, windows |-> {}]
  <1>0. none \in Complement
    BY ClockAssumption DEF Complement
  <1> DEFINE Steps(h) == h = [s \in SUBSET (1..n) |-> IF s = {} THEN none
                                ELSE Complemented(h[s \ {Max(s)}], terms[Max(s)])]
             g == CHOOSE h : Steps(h)
             f == [k \in 0..n |-> g[1..k]]
  <1> HIDE DEF none
  <1>1. Steps(g)
    <2> DEFINE step == [x \in Complement \X Interval |-> Complemented(x[1], x[2])]
    <2>1. PICK h \in [SUBSET (1..n) -> Complement] : IsFold(h, n, step, none, terms)
      <3>1. step \in [Complement \X Interval -> Complement]
        BY ComplementedIs
      <3>2. \A k \in 1..n : terms[k] \in Interval
        OBVIOUS
      <3> HIDE DEF step
      <3> QED
        BY <1>0, <3>1, <3>2, FoldExists
    <2>2. ASSUME NEW s \in SUBSET (1..n), s # {}
          PROVE  step[<<h[s \ {Max(s)}], terms[Max(s)]>>]
                    = Complemented(h[s \ {Max(s)}], terms[Max(s)])
      <3>1. Max(s) \in 1..n /\ s \ {Max(s)} \in SUBSET (1..n)
        BY <2>2, MaxIsMember
      <3>2. h[s \ {Max(s)}] \in Complement /\ terms[Max(s)] \in Interval
        BY <3>1
      <3> QED
        BY <3>2
    <2> HIDE DEF step
    <2>3. Steps(h)
      BY <2>1, <2>2, Zenon DEF IsFold
    <2> QED
      BY <2>3, Zenon
  <1>2. FoldLeft(Complemented, none, terms) = g[1..n]
    <2>1. DOMAIN terms = 1..n
      OBVIOUS
    <2>2. FoldLeft(Complemented, none, terms) =
             LET h[s \in SUBSET (DOMAIN terms)] ==
                    IF s = {} THEN none ELSE Complemented(h[s \ {Max(s)}], terms[Max(s)])
             IN  h[DOMAIN terms]
      BY DEF FoldLeft, MapThenFoldSet
    <2> QED
      BY <2>1, <2>2
  <1> HIDE DEF g
  <1>3. g[1..0] = none
    <2>1. 1..0 = {} /\ {} \in SUBSET (1..n)
      OBVIOUS
    <2> QED
      BY <1>1, <2>1
  <1>4. ASSUME NEW k \in 1..n PROVE g[1..k] = Complemented(g[1..(k - 1)], terms[k])
    <2>1. (1..k) \in SUBSET (1..n) /\ 1..k # {} /\ k \in 1..k /\ k \in Nat \ {0}
      OBVIOUS
    <2>2. Max(1..k) = k
      BY <2>1, MaxOfInterval
    <2>3. (1..k) \ {k} = 1..(k - 1)
      OBVIOUS
    <2> QED
      BY <1>1, <2>1, <2>2, <2>3
  <1> HIDE DEF Steps
  <1>5. \A k \in 0..n : g[1..k] \in Complement
    <2> DEFINE bad == {k \in Nat : k <= n /\ g[1..k] \notin Complement}
    <2>1. ASSUME bad # {} PROVE FALSE
      <3>1. PICK k \in bad : \A m \in bad : k <= m
        BY <2>1, LeastNat
      <3>2. k # 0
        BY <1>0, <1>3, <3>1
      <3>3. k \in 1..n /\ k - 1 \in Nat /\ k - 1 <= n /\ k - 1 \notin bad
        BY <3>1, <3>2
      <3>4. g[1..(k - 1)] \in Complement /\ terms[k] \in Interval
        BY <3>3
      <3>5. g[1..k] \in Complement
        BY <1>4, <3>3, <3>4, ComplementedIs
      <3> QED
        BY <3>1, <3>5
    <2> QED
      BY <2>1
  <1>6. /\ f \in [0..n -> Complement] /\ f[0] = none /\ f[n] = g[1..n]
        /\ \A k \in 1..n : f[k] = g[1..k] /\ f[k - 1] = g[1..(k - 1)]
    <2>1. f \in [0..n -> Complement]
      BY <1>5
    <2>2. f[0] = none /\ f[n] = g[1..n]
      BY <1>3
    <2>3. \A k \in 1..n : f[k] = g[1..k] /\ f[k - 1] = g[1..(k - 1)]
      OBVIOUS
    <2> HIDE DEF f
    <2> QED
      BY <2>1, <2>2, <2>3
  <1> HIDE DEF f
  <1>7. \A k \in 1..n : f[k] = Complemented(f[k - 1], terms[k])
    BY <1>4, <1>6
  <1> QED
    BY <1>2, <1>6, <1>7 DEF none

\* The windows of a day hold the minutes that no stop holds.
LEMMA ComplementIs ==
    ASSUME NEW stops \in Seq(Interval), ByStart(stops)
    PROVE  /\ complementWindows(stops) \in SUBSET Gap
           /\ \A m \in 0..(Minutes - 1) :
                 (\E w \in complementWindows(stops) : Holds(w, m)) <=> ~SomeHolds(stops, m)
  <1> DEFINE n == Len(stops)
             none == [from |-> 0, windows |-> {}]
             all == FoldLeft(Complemented, none, stops)
             end == <<Minutes, Minutes>>
  <1>1. n \in Nat /\ stops \in [1..n -> Interval] /\ DOMAIN stops = 1..n
    BY LenProperties
  <1> HIDE DEF n
  <1>2. PICK f \in [0..n -> Complement] :
           /\ f[0] = none /\ f[n] = all
           /\ \A k \in 1..n : f[k] = Complemented(f[k - 1], stops[k])
    BY <1>1, ComplementSteps
  <1>3. complementWindows(stops) = all.windows \cup Before(all.from, end)
    BY DEF complementWindows
  <1> HIDE DEF all
  <1> DEFINE held(k) == {m \in Nat : \E j \in 1..k : Holds(stops[j], m)}
             Right(k) ==
                /\ \A w \in f[k].windows : k # 0 /\ w[2] <= stops[k][1]
                /\ Complements(f[k], held(k))
             bad == {k \in Nat : k <= n /\ ~Right(k)}
  <1>4. Right(0)
    <2>1. held(0) = {}
      OBVIOUS
    <2>2. f[0].from = 0 /\ f[0].windows = {}
      BY <1>2
    <2>3. Complements(f[0], {})
      BY <2>2 DEF Complements
    <2> HIDE DEF held
    <2> QED
      BY <2>1, <2>2, <2>3
  <1>5. ASSUME NEW k \in 1..n, Right(k - 1) PROVE Right(k)
    <2>1. k - 1 \in 0..n /\ k \in Nat \ {0}
      BY <1>1
    <2>2. f[k - 1] \in Complement /\ stops[k] \in Interval
      <3>1. f[k - 1] \in Complement
        BY <2>1, Zenon
      <3> QED
        BY <1>1, <3>1
    <2>3. f[k] = Complemented(f[k - 1], stops[k])
      BY <1>2, Zenon
    <2>4. \A w \in f[k - 1].windows : w[2] <= stops[k][1]
      <3> SUFFICES ASSUME NEW w \in f[k - 1].windows PROVE w[2] <= stops[k][1]
        OBVIOUS
      <3>1. k - 1 # 0 /\ w[2] <= stops[k - 1][1]
        BY <1>5
      <3>2. k - 1 \in 1..n /\ k - 1 < k
        BY <2>1, <3>1
      <3>3. stops[k - 1][1] <= stops[k][1]
        BY <1>1, <3>2 DEF ByStart
      <3>4. stops[k - 1][1] \in Nat /\ stops[k][1] \in Nat
        BY <1>1, <3>2, IntervalIs
      <3>5. w[2] \in Nat
        BY <2>2, GapIs DEF Complement
      <3> QED
        BY <3>1, <3>3, <3>4, <3>5
    <2>5. Complements(f[k - 1], held(k - 1)) /\ held(k - 1) \in SUBSET Nat
      BY <1>5
    <2>6. held(k) = held(k - 1) \cup {m \in Nat : Holds(stops[k], m)}
      <3>1. 1..k = (1..(k - 1)) \cup {k}
        BY <2>1
      <3> QED
        BY <3>1
    <2> HIDE DEF held
    <2>7. /\ \A w \in f[k].windows : w[2] <= stops[k][1]
          /\ Complements(f[k], held(k))
      <3> DEFINE acc == f[k - 1]
                 i == stops[k]
                 stopped == held(k - 1)
      <3>1. acc \in Complement /\ i \in Interval /\ f[k] = Complemented(acc, i)
        BY <2>2, <2>3
      <3>2. /\ stopped \in SUBSET Nat /\ held(k) = stopped \cup {m \in Nat : Holds(i, m)}
            /\ \A w \in acc.windows : w[2] <= i[1]
            /\ Complements(acc, stopped)
        BY <2>4, <2>5, <2>6
      <3> HIDE DEF acc, stopped
      <3>3. (\A w \in f[k].windows : w[2] <= i[1]) /\ Complements(f[k], held(k))
        BY <3>1, <3>2, ComplementedHolds, Zenon
      <3> QED
        BY <3>3
    <2> QED
      BY <2>1, <2>7
  <1>6. ASSUME bad # {} PROVE FALSE
    <2> HIDE DEF Right
    <2>1. PICK k \in bad : \A j \in bad : k <= j
      BY <1>6, LeastNat
    <2>2. k \in 1..n /\ k - 1 \in Nat /\ k - 1 <= n /\ k - 1 \notin bad
      BY <1>1, <1>4, <2>1
    <2>3. Right(k - 1)
      BY <2>2
    <2>4. Right(k)
      BY <1>5, <2>2, <2>3
    <2> QED
      BY <2>1, <2>4
  <1>7. Right(n)
    <2> HIDE DEF Right
    <2>1. n <= n
      BY <1>1
    <2> QED
      BY <1>1, <1>6, <2>1
  <1>8. all \in Complement /\ all.windows \in SUBSET Gap /\ all.from \in 0..Minutes
    <2>1. n \in 0..n
      BY <1>1
    <2>2. f[n] \in Complement
      BY <2>1, Zenon
    <2> QED
      BY <1>2, <2>2 DEF Complement
  <1>9. /\ end \in Interval /\ end[1] = Minutes /\ end[2] = Minutes
        /\ Minutes \in Nat \ {0}
    BY ClockAssumption DEF Interval
  <1>10. \A w \in all.windows : w[2] <= end[1]
    BY <1>8, <1>9, GapIs
  <1>11. Complements(all, held(n)) /\ held(n) \in SUBSET Nat
    BY <1>2, <1>7
  <1> DEFINE c == Complemented(all, end)
  <1>12. ~\E m \in Nat : Holds(end, m)
    BY <1>9 DEF Holds
  <1>13. held(n) \cup {m \in Nat : Holds(end, m)} = held(n)
    BY <1>12
  <1> HIDE DEF held, end
  <1>14. /\ c \in Complement /\ Complements(c, held(n))
         /\ c.windows = complementWindows(stops)
         /\ c.from = IF end[2] > all.from THEN end[2] ELSE all.from
    <2>1. /\ c \in Complement /\ c.windows = all.windows \cup Before(all.from, end)
          /\ c.from = IF end[2] > all.from THEN end[2] ELSE all.from
      BY <1>8, <1>9, ComplementedIs, Zenon
    <2>2. Complements(c, held(n))
      BY <1>8, <1>9, <1>10, <1>11, <1>13, ComplementedHolds, Zenon
    <2> QED
      BY <1>3, <2>1, <2>2
  <1>15. c.from = Minutes
    BY <1>8, <1>9, <1>14
  <1> HIDE DEF c
  <1>16. \A m \in 0..(Minutes - 1) :
            (\E w \in complementWindows(stops) : Holds(w, m)) <=> m \notin held(n)
    BY <1>9, <1>14, <1>15 DEF Complements
  <1>17. \A m \in Nat : m \in held(n) <=> SomeHolds(stops, m)
    BY <1>1 DEF held, SomeHolds
  <1>18. complementWindows(stops) \in SUBSET Gap
    BY <1>14 DEF Complement
  <1> QED
    BY <1>9, <1>16, <1>17, <1>18

\* The intervals of a weekday hold the minutes its stop windows do, those of the
\* evening before included.
LEMMA StopsOfIs ==
    ASSUME NEW windows \in SUBSET StopWindow, NEW weekdays, NEW d \in 1..7
    PROVE  LET before == IF d = 1 THEN 7 ELSE d - 1
           IN  /\ StopsOf(windows, weekdays, d) \in SUBSET Interval
               /\ \A m \in 0..(Minutes - 1) :
                     (\E i \in StopsOf(windows, weekdays, d) : Holds(i, m)) <=>
                        \E w \in windows : \/ HereToday(w, m) /\ d \in weekdays
                                           \/ SinceYesterday(w, m) /\ before \in weekdays
  <1> DEFINE before == IF d = 1 THEN 7 ELSE d - 1
             today(w) == <<w[1], IF w[1] < w[2] THEN w[2] ELSE Minutes>>
             night(w) == <<0, w[2]>>
             stops == StopsOf(windows, weekdays, d)
  <1>1. ASSUME NEW w \in windows
        PROVE  /\ w[1] \in 0..(Minutes - 1) /\ w[2] \in 0..(Minutes - 1) /\ w[1] # w[2]
               /\ Minutes \in Nat \ {0}
    BY ClockAssumption DEF StopWindow
  <1>2. ASSUME NEW w \in windows
        PROVE  today(w) \in Interval /\ night(w) \in Interval
    BY <1>1 DEF Interval
  <1>3. ASSUME NEW w \in windows, NEW m \in 0..(Minutes - 1)
        PROVE  /\ Holds(today(w), m) <=> HereToday(w, m)
               /\ w[1] > w[2] /\ Holds(night(w), m) <=> SinceYesterday(w, m)
    BY <1>1 DEF Holds, HereToday, SinceYesterday
  <1>4. \A i : i \in stops <=>
           \E w \in windows : \/ d \in weekdays /\ i = today(w)
                              \/ w[1] > w[2] /\ before \in weekdays /\ i = night(w)
    BY DEF StopsOf
  <1> HIDE DEF stops, today, night, before
  <1>5. stops \in SUBSET Interval
    BY <1>2, <1>4
  <1>6. ASSUME NEW m \in 0..(Minutes - 1)
        PROVE  (\E i \in stops : Holds(i, m)) <=>
                  \E w \in windows : \/ HereToday(w, m) /\ d \in weekdays
                                     \/ SinceYesterday(w, m) /\ before \in weekdays
    BY <1>3, <1>4
  <1> QED
    BY <1>5, <1>6 DEF stops, before

\* The windows the migration gives a weekday hold the minutes its stop windows
\* leave.
LEMMA WindowsForDay ==
    ASSUME NEW windows \in SUBSET StopWindow, NEW weekdays, NEW d \in 1..7
    PROVE  LET before == IF d = 1 THEN 7 ELSE d - 1
               kept == complementWindows(mergeIntervals(StopsOf(windows, weekdays, d)))
           IN  /\ kept \in SUBSET Gap
               /\ \A m \in 0..(Minutes - 1) :
                     (\E w \in kept : Holds(w, m)) <=>
                        ~\E w \in windows : \/ HereToday(w, m) /\ d \in weekdays
                                            \/ SinceYesterday(w, m) /\ before \in weekdays
  <1> DEFINE stops == StopsOf(windows, weekdays, d)
             merged == mergeIntervals(stops)
  <1>1. stops \in SUBSET Interval
    BY StopsOfIs
  <1>2. /\ merged \in Seq(Interval) /\ ByStart(merged)
        /\ \A m \in Nat : SomeHolds(merged, m) <=> \E i \in stops : Holds(i, m)
    <2> HIDE DEF stops
    <2> QED
      BY <1>1, MergeIs
  <1>3. /\ complementWindows(merged) \in SUBSET Gap
        /\ \A m \in 0..(Minutes - 1) :
              (\E w \in complementWindows(merged) : Holds(w, m)) <=> ~SomeHolds(merged, m)
    <2> HIDE DEF merged
    <2> QED
      BY <1>2, ComplementIs
  <1>4. \A m \in 0..(Minutes - 1) : m \in Nat
    OBVIOUS
  <1>5. \A m \in 0..(Minutes - 1) :
           (\E w \in complementWindows(merged) : Holds(w, m)) <=> ~\E i \in stops : Holds(i, m)
    <2> HIDE DEF merged, stops
    <2> QED
      BY <1>2, <1>3, <1>4
  <1> QED
    BY <1>3, <1>5, StopsOfIs

\* README.md:216, config.go:328: the start schedules an older configuration is
\* migrated to are rules, and cover exactly the instants its stop windows did not,
\* for any stop windows and weekdays: within a day and across midnight, nested,
\* touching or overlapping.
THEOREM MigrationIsRight ==
    ASSUME NEW windows \in SUBSET StopWindow, NEW weekdays \in SUBSET (1..7)
    PROVE  /\ migrateStopSchedules(windows, weekdays) \in SUBSET Rule
           /\ IsComplement(windows, weekdays, migrateStopSchedules(windows, weekdays))
  <1> DEFINE day == [d \in 1..7 |->
                        complementWindows(mergeIntervals(StopsOf(windows, weekdays, d)))]
             rules == migrateStopSchedules(windows, weekdays)
             old == {[weekdays |-> weekdays, windows |-> windows]}
             before(d) == IF d = 1 THEN 7 ELSE d - 1
             stopped(d, m) == \E w \in windows : \/ HereToday(w, m) /\ d \in weekdays
                                                 \/ SinceYesterday(w, m) /\ before(d) \in weekdays
  <1>1. \A d \in 1..7 : day[d] \in SUBSET Gap
    BY WindowsForDay
  <1>2. \A d \in 1..7 : \A m \in 0..(Minutes - 1) :
           (\E w \in day[d] : Holds(w, m)) <=> ~stopped(d, m)
    <2> SUFFICES ASSUME NEW d \in 1..7, NEW m \in 0..(Minutes - 1)
                 PROVE  (\E w \in day[d] : Holds(w, m)) <=> ~stopped(d, m)
      BY Zenon
    <2> DEFINE kept == complementWindows(mergeIntervals(StopsOf(windows, weekdays, d)))
    <2>1. (\E w \in kept : Holds(w, m)) <=> ~stopped(d, m)
      BY WindowsForDay, Zenon
    <2>2. day[d] = kept
      OBVIOUS
    <2> HIDE DEF day, kept
    <2> QED
      BY <2>1, <2>2
  <1>3. \A r : r \in rules <=>
           /\ r.windows # {}
           /\ \E c \in 1..7 : r = [weekdays |-> {d \in 1..7 : day[d] = day[c]}, windows |-> day[c]]
    BY DEF migrateStopSchedules
  <1> HIDE DEF day, rules, stopped
  <1>4. ASSUME NEW r \in rules
        PROVE  /\ r \in Rule /\ r.windows \in SUBSET Gap
               /\ \A d \in r.weekdays : d \in 1..7 /\ r.windows = day[d]
    <2>1. PICK c \in 1..7 :
             r = [weekdays |-> {d \in 1..7 : day[d] = day[c]}, windows |-> day[c]]
      BY <1>3
    <2>2. r.windows \in SUBSET Gap /\ \A d \in r.weekdays : d \in 1..7 /\ r.windows = day[d]
      BY <1>1, <2>1
    <2>3. \A w \in Gap : w \in {v \in (0..(Minutes - 1)) \X (0..Minutes) : v[1] # v[2]}
      <3>1. \A w \in Gap : w \in (0..(Minutes - 1)) \X (0..Minutes) /\ w[1] # w[2]
        BY ClockAssumption DEF Gap
      <3> QED
        BY <3>1
    <2>4. r \in Rule
      BY <2>1, <2>2, <2>3 DEF Rule
    <2> QED
      BY <2>2, <2>4
  <1>5. ASSUME NEW d \in 1..7, NEW w \in day[d]
        PROVE  \E r \in rules : d \in r.weekdays /\ w \in r.windows
    <2> DEFINE r == [weekdays |-> {e \in 1..7 : day[e] = day[d]}, windows |-> day[d]]
    <2>1. d \in r.weekdays /\ w \in r.windows /\ r.windows # {}
      BY <1>5
    <2>2. r \in rules
      BY <1>3, <2>1
    <2> QED
      BY <2>1, <2>2
  <1>6. rules \in SUBSET Rule
    BY <1>4
  <1>7. old \in SUBSET Rule
    <2>1. windows \in SUBSET {v \in (0..(Minutes - 1)) \X (0..Minutes) : v[1] # v[2]}
      BY ClockAssumption DEF StopWindow
    <2> QED
      BY <2>1 DEF Rule
  <1>8. ASSUME NEW t \in 0..(7 * Day - 1)
        PROVE  Covered(rules, t) <=> ~Covered(old, t)
    <2> DEFINE q == t \div Day
               m == (t % Day) \div Minute
               d == IsoWeekday(q)
    <2>1. t \in Int /\ q \in Int
      <3>1. t \in Int
        BY DayIsLong
      <3> QED
        BY <3>1, InstantOfDay
    <2>2. m \in 0..(Minutes - 1)
      <3>1. t % Day \in 0..(Day - 1) /\ t % Day \in Nat /\ Day = Minute * Minutes
        BY <2>1, InstantOfDay, DayIsLong
      <3> DEFINE c == t % Day
      <3>2. Minutes * Minute = Day /\ 0 * Minute = 0 /\ Minutes \in Int
        BY ClockAssumption, <3>1
      <3> HIDE DEF c
      <3>3. c \div Minute \in Int /\ 0 <= c \div Minute /\ c \div Minute < Minutes
        <4>1. c \div Minute \in Int /\ (0 <= c \div Minute <=> 0 * Minute <= c)
              /\ (c \div Minute < Minutes <=> c < Minutes * Minute)
          BY <3>1, <3>2, MinuteOfDay DEF c
        <4>2. Day \in Nat
          BY DayIsLong
        <4> QED
          BY <3>1, <3>2, <4>1, <4>2 DEF c
      <3> QED
        BY <3>2, <3>3 DEF c
    <2>3. d \in 1..7 /\ IsoWeekday(q - 1) = before(d)
      <3> HIDE DEF q
      <3> QED BY <2>1 DEF IsoWeekday
    <2>4. Covered(old, t) <=> stopped(d, m)
      <3>1. Covered(old, t) <=>
               \E r \in old : \E w \in r.windows :
                   \/ HereToday(w, m) /\ d \in r.weekdays
                   \/ SinceYesterday(w, m) /\ IsoWeekday(q - 1) \in r.weekdays
        BY <1>7, <2>1, CoveredIs
      <3> HIDE DEF q, m, d
      <3> QED
        BY <2>3, <3>1 DEF stopped
    <2>5. Covered(rules, t) <=>
             \E r \in rules : \E w \in r.windows :
                 \/ HereToday(w, m) /\ d \in r.weekdays
                 \/ SinceYesterday(w, m) /\ IsoWeekday(q - 1) \in r.weekdays
      BY <1>6, <2>1, CoveredIs
    <2> HIDE DEF q, m, d
    <2>6. ASSUME NEW w \in Gap
          PROVE  (HereToday(w, m) <=> Holds(w, m)) /\ ~SinceYesterday(w, m)
      BY <2>2, GapIs DEF HereToday, SinceYesterday, Holds
    <2>7. Covered(rules, t) <=>
             \E r \in rules : \E w \in r.windows : Holds(w, m) /\ d \in r.weekdays
      BY <1>4, <2>5, <2>6
    <2>8. Covered(rules, t) <=> \E w \in day[d] : Holds(w, m)
      BY <1>4, <1>5, <2>3, <2>7
    <2> QED
      BY <1>2, <2>2, <2>3, <2>4, <2>8
  <1> QED
    BY <1>6, <1>8 DEF IsComplement, rules

-----------------------------------------------------------------------------
(* Contents.                                                               *)

LEMMA DefaultsAre ==
    /\ defaults \in Content
    /\ defaults.keys = "none" /\ defaults.mode = "auto" /\ ~defaults.hasStarts
    /\ defaults.windows = {} /\ defaults.weekdays = 1..7
BY DEF Content, Mode, defaults

\* WithStarts touches two keys (persistMigratedStartSchedules).
LEMMA WithStartsIs ==
    ASSUME NEW c \in Content, NEW starts \in SUBSET Rule
    PROVE  /\ WithStarts(c, starts) \in Content
           /\ WithStarts(c, starts).keys = c.keys
           /\ WithStarts(c, starts).mode = c.mode
           /\ WithStarts(c, starts).windows = c.windows
           /\ WithStarts(c, starts).weekdays = c.weekdays
           /\ WithStarts(c, starts).hasStarts
           /\ WithStarts(c, starts).starts = starts
BY DEF WithStarts, Content

\* The migration gives a content rules.
LEMMA MigratedIs ==
    ASSUME NEW c \in Content
    PROVE  /\ migrateStopSchedules(c.windows, c.weekdays) \in SUBSET Rule
           /\ Migrated(c) = WithStarts(c, migrateStopSchedules(c.windows, c.weekdays))
           /\ Migrated(c) \in Content
           /\ Migrated(c).keys = c.keys /\ Migrated(c).mode = c.mode
<1>1. c.windows \in SUBSET StopWindow /\ c.weekdays \in SUBSET (1..7)
  BY DEF Content
<1>2. migrateStopSchedules(c.windows, c.weekdays) \in SUBSET Rule
  BY <1>1, MigrationIsRight
<1> QED
  BY <1>2, WithStartsIs DEF Migrated

\* What the environment adds is a content.
LEMMA ApplyEnvIs ==
    ASSUME NEW c \in Content
    PROVE  applyEnv(c) \in Content
<1>1. /\ EnvMode \in Mode /\ EnvStarts \in SUBSET Rule
      /\ EnvLegacy.windows \in SUBSET StopWindow /\ EnvLegacy.weekdays \in SUBSET (1..7)
  BY ConfigAssumption
<1>2. /\ c.keys \in {"none", "file", "env"} /\ c.mode \in Mode
      /\ c.windows \in SUBSET StopWindow /\ c.weekdays \in SUBSET (1..7)
      /\ c.hasStarts \in BOOLEAN /\ c.starts \in SUBSET Rule
  BY DEF Content
<1>3. ("starts" \in env \/ c.hasStarts) \in BOOLEAN
  OBVIOUS
<1>4. /\ (IF "keys" \in env THEN "env" ELSE c.keys) \in {"none", "file", "env"}
      /\ (IF "mode" \in env THEN EnvMode ELSE c.mode) \in Mode
      /\ (IF "stops" \in env THEN EnvLegacy.windows ELSE c.windows) \in SUBSET StopWindow
      /\ (IF "weekdays" \in env THEN EnvLegacy.weekdays ELSE c.weekdays) \in SUBSET (1..7)
      /\ (IF "starts" \in env THEN EnvStarts ELSE c.starts) \in SUBSET Rule
  BY <1>1, <1>2, Zenon
<1> QED
  BY <1>3, <1>4 DEF applyEnv, Content

\* The migration that SaveSettings makes first keeps the keys and the mode.
LEMMA LoadFileOnlyIs ==
    ASSUME NEW c \in Content
    PROVE  /\ loadFileOnly(c) \in Content
           /\ loadFileOnly(c).keys = c.keys
           /\ loadFileOnly(c).mode = c.mode
BY MigratedIs DEF loadFileOnly

LEMMA StartsAreRules ==
    ASSUME NEW starts \in Starts
    PROVE  ValidateStartSchedules(starts) \in SUBSET Rule
<1>1. starts \in SUBSET Rule
  BY ConfigAssumption
<1> QED
  BY <1>1 DEF ValidateStartSchedules

-----------------------------------------------------------------------------
(* The steps, by what they are about to write.                             *)

\* Only what the goroutine p is about to write changes.
OnlyData(p) == /\ data' \in [Proc -> Content]
               /\ \A q \in Proc : q # p => data'[q] = data[q]

LEMMA DataUpdate ==
    ASSUME NEW p \in Proc, data \in [Proc -> Content],
           NEW v \in Content, data' = [data EXCEPT ![p] = v]
    PROVE  OnlyData(p) /\ data'[p] = v
BY DEF OnlyData

LEMMA ReadRawWrites ==
    ASSUME NEW p \in Proc, TypeOK, ReadRaw(p), file.is = "whole"
    PROVE  /\ OnlyData(p)
           /\ data'[p].keys = file.content.keys /\ data'[p].mode = file.content.mode
           /\ data'[p].hasStarts
<1>1. data' = [data EXCEPT ![p] = WithStarts(file.content, cfg[p].starts)]
  BY Zenon DEF ReadRaw
<1>2. file.content \in Content /\ cfg[p].starts \in SUBSET Rule /\ data \in [Proc -> Content]
  BY DEF TypeOK, Content
<1>3. /\ WithStarts(file.content, cfg[p].starts) \in Content
      /\ WithStarts(file.content, cfg[p].starts).keys = file.content.keys
      /\ WithStarts(file.content, cfg[p].starts).mode = file.content.mode
      /\ WithStarts(file.content, cfg[p].starts).hasStarts
  BY <1>2, WithStartsIs
<1>4. OnlyData(p) /\ data'[p] = WithStarts(file.content, cfg[p].starts)
  BY <1>1, <1>2, <1>3, DataUpdate
<1> QED
  BY <1>3, <1>4

LEMMA SaveSettingsWrites ==
    ASSUME NEW p \in Proc, TypeOK, SaveSettings(p)
    PROVE  /\ OnlyData(p)
           /\ data'[p].keys = file.content.keys /\ data'[p].mode \in SavedModes
           /\ data'[p].hasStarts
<1>1. PICK starts \in Starts, mode \in SavedModes :
         data' = [data EXCEPT ![p] =
                    [WithStarts(loadFileOnly(file.content), ValidateStartSchedules(starts))
                        EXCEPT !.mode = mode]]
  BY Zenon DEF SaveSettings
<1> DEFINE e == WithStarts(loadFileOnly(file.content), ValidateStartSchedules(starts))
           d == [e EXCEPT !.mode = mode]
<1>2. e \in Content /\ e.keys = file.content.keys /\ e.hasStarts
  BY LoadFileOnlyIs, StartsAreRules, WithStartsIs DEF TypeOK
<1>3. mode \in Mode
  BY ConfigAssumption
<1> HIDE DEF e
<1>4. d \in Content /\ d.mode = mode /\ d.keys = e.keys /\ d.hasStarts = e.hasStarts
  BY <1>2, <1>3 DEF Content
<1> HIDE DEF d
<1>5. data \in [Proc -> Content] /\ data' = [data EXCEPT ![p] = d]
  BY <1>1 DEF TypeOK, d, e
<1>6. OnlyData(p) /\ data'[p] = d
  BY <1>4, <1>5, DataUpdate
<1> QED
  BY <1>2, <1>4, <1>6

LEMMA InitWrites ==
    ASSUME NEW p \in Proc, TypeOK, InitConfig(p)
    PROVE  /\ OnlyData(p)
           /\ data'[p].keys = "file" /\ data'[p].mode = "auto"
           /\ data'[p].hasStarts
<1>1. PICK e \in {Migrated(defaults)} \cup
              {WithStarts(defaults, ValidateStartSchedules(starts)) : starts \in Starts} :
         data' = [data EXCEPT ![p] = [e EXCEPT !.keys = "file"]]
  BY Zenon DEF InitConfig
<1> DEFINE d == [e EXCEPT !.keys = "file"]
<1>2. PICK starts \in SUBSET Rule : e = WithStarts(defaults, starts)
  BY <1>1, DefaultsAre, MigratedIs, StartsAreRules
<1>3. e \in Content /\ e.mode = "auto" /\ e.hasStarts
  BY <1>2, WithStartsIs, DefaultsAre
<1>4. d \in Content /\ d.keys = "file" /\ d.mode = e.mode /\ d.hasStarts = e.hasStarts
  BY <1>3 DEF Content
<1> HIDE DEF d
<1>5. data \in [Proc -> Content] /\ data' = [data EXCEPT ![p] = d]
  BY <1>1 DEF TypeOK, d
<1>6. OnlyData(p) /\ data'[p] = d
  BY <1>4, <1>5, DataUpdate
<1> QED
  BY <1>3, <1>4, <1>6

LEMMA PutWrites ==
    ASSUME NEW p \in Proc, TypeOK, Put(p)
    PROVE  OnlyData(p) /\ data'[p] = defaults
<1>1. data' = [data EXCEPT ![p] = defaults]
  BY Zenon DEF Put
<1>2. data \in [Proc -> Content] /\ defaults \in Content
  BY DefaultsAre DEF TypeOK
<1> QED
  BY <1>1, <1>2, DataUpdate

-----------------------------------------------------------------------------
(* Types.                                                                  *)

LEMMA InitTypes == Init => TypeOK
<1> SUFFICES ASSUME Init PROVE TypeOK
  OBVIOUS
<1>1. file.is \in {"absent", "garbled", "whole"} /\ file.content \in Content
  <2>1. CASE file = [is |-> "absent", content |-> defaults]
    BY <2>1, DefaultsAre
  <2>2. ASSUME NEW l \in Legacy,
               file = File([defaults EXCEPT !.keys = "file", !.windows = l.windows,
                                            !.weekdays = l.weekdays])
        PROVE  file.is \in {"absent", "garbled", "whole"} /\ file.content \in Content
    <3>1. l.windows \in SUBSET StopWindow /\ l.weekdays \in SUBSET (1..7)
      BY ConfigAssumption
    <3>2. file.is = "whole" /\ file.content =
             [defaults EXCEPT !.keys = "file", !.windows = l.windows, !.weekdays = l.weekdays]
      BY <2>2 DEF File
    <3> QED
      BY <3>1, <3>2, DefaultsAre DEF Content
  <2> QED
    BY <2>1, <2>2 DEF Init
<1>2. /\ pc \in [Proc -> {"idle", "migrate", "truncate", "put"}]
      /\ op \in [Proc -> {"load", "save", "init"}]
      /\ cfg \in [Proc -> Content] /\ data \in [Proc -> Content]
      /\ overlapped \in BOOLEAN
  BY DefaultsAre DEF Init
<1>3. env \subseteq Setting
  BY ConfigAssumption DEF Init
<1>4. saved \in [known : BOOLEAN, mode : Mode, starts : SUBSET Rule]
  BY DEF Init, Mode
<1> QED
  BY <1>1, <1>2, <1>3, <1>4 DEF TypeOK

LEMMA NextTypes == TypeOK /\ [Next]_vars => TypeOK'
<1> SUFFICES ASSUME TypeOK, [Next]_vars PROVE TypeOK'
  OBVIOUS
<1>d. defaults \in Content
  BY DefaultsAre
<1>1. ASSUME NEW p \in Proc, Load(p) PROVE TypeOK'
  <2>1. Migrated(applyEnv(file.content)) \in Content
    BY ApplyEnvIs, MigratedIs DEF TypeOK
  <2>2. cfg' \in [Proc -> Content]
    BY <1>1, <2>1 DEF Load, TypeOK
  <2> QED
    BY <1>1, <2>2 DEF Load, BeginCall, Idle, Goto, TypeOK
<1>2. ASSUME NEW p \in Proc, ReadRaw(p) PROVE TypeOK'
  <2>1. data' \in [Proc -> Content]
    <3>1. CASE file.is = "whole"
      BY <1>2, <3>1, ReadRawWrites DEF OnlyData
    <3>2. CASE file.is # "whole"
      BY <1>2, <3>2 DEF ReadRaw, TypeOK
    <3> QED
      BY <3>1, <3>2
  <2>2. cfg' \in [Proc -> Content]
    BY <1>2, <1>d DEF ReadRaw, TypeOK
  <2>3. pc' \in [Proc -> {"idle", "migrate", "truncate", "put"}]
    BY <1>2 DEF ReadRaw, Goto, TypeOK
  <2> QED
    BY <1>2, <2>1, <2>2, <2>3 DEF ReadRaw, TypeOK
<1>3. ASSUME NEW p \in Proc, SaveSettings(p) PROVE TypeOK'
  <2>1. data' \in [Proc -> Content]
    BY <1>3, SaveSettingsWrites DEF OnlyData
  <2>2. BeginCall(p, "save") /\ Goto(p, "truncate") /\ UNCHANGED <<file, env, cfg, saved>>
    BY <1>3 DEF SaveSettings
  <2> QED
    BY <2>1, <2>2 DEF BeginCall, Idle, Goto, TypeOK
<1>4. ASSUME NEW p \in Proc, InitConfig(p) PROVE TypeOK'
  <2>1. data' \in [Proc -> Content]
    BY <1>4, InitWrites DEF OnlyData
  <2>2. BeginCall(p, "init") /\ Goto(p, "truncate") /\ UNCHANGED <<file, env, cfg, saved>>
    BY <1>4 DEF InitConfig
  <2> QED
    BY <2>1, <2>2 DEF BeginCall, Idle, Goto, TypeOK
<1>5. ASSUME NEW p \in Proc, Truncate(p) PROVE TypeOK'
  <2>1. file'.is = "whole" /\ file'.content \in Content
    BY <1>5, <1>d DEF Truncate, Empty, File
  <2> QED
    BY <1>5, <2>1 DEF Truncate, Goto, TypeOK
<1>6. ASSUME NEW p \in Proc, Put(p) PROVE TypeOK'
  <2>1. data' \in [Proc -> Content]
    BY <1>6, PutWrites DEF OnlyData
  <2>2. file'.is \in {"absent", "garbled", "whole"} /\ file'.content \in Content
    <3>1. CASE file' = File(data[p])
      BY <3>1 DEF File, TypeOK
    <3>2. CASE file' = [is |-> "garbled", content |-> defaults]
      BY <1>d, <3>2
    <3> QED
      BY <1>6, <3>1, <3>2 DEF Put
  <2>3. saved' \in [known : BOOLEAN, mode : Mode, starts : SUBSET Rule]
    <3>1. data[p].mode \in Mode /\ data[p].starts \in SUBSET Rule
      BY DEF TypeOK, Content
    <3>2. saved' = saved \/ saved' = [known |-> TRUE, mode |-> data[p].mode,
                                      starts |-> data[p].starts]
      BY <1>6 DEF Put
    <3>3. [known |-> TRUE, mode |-> data[p].mode, starts |-> data[p].starts]
             \in [known : BOOLEAN, mode : Mode, starts : SUBSET Rule]
      BY <3>1
    <3>4. saved \in [known : BOOLEAN, mode : Mode, starts : SUBSET Rule]
      BY DEF TypeOK
    <3> QED
      BY <3>2, <3>3, <3>4, Zenon
  <2>4. /\ pc' \in [Proc -> {"idle", "migrate", "truncate", "put"}]
        /\ op' \in [Proc -> {"load", "save", "init"}]
    BY <1>6 DEF Put, Goto, TypeOK
  <2>5. UNCHANGED <<env, cfg, overlapped>>
    BY <1>6 DEF Put
  <2> QED
    BY <2>1, <2>2, <2>3, <2>4, <2>5 DEF TypeOK
<1>7. CASE Crash
  BY <1>7, <1>d DEF Crash, TypeOK, Idle
<1>8. CASE UNCHANGED vars
  BY <1>8 DEF vars, TypeOK
<1> QED
  BY <1>1, <1>2, <1>3, <1>4, <1>5, <1>6, <1>7, <1>8 DEF Next

\* Every variable keeps its type, the schedules a migration computes included.
THEOREM ConfigTypeCorrect == Spec => []TypeOK
BY InitTypes, NextTypes, PTL DEF Spec

-----------------------------------------------------------------------------
(* What a Load is about to migrate.                                        *)

MigratesItsOwn ==
    \A p \in Proc : pc[p] = "migrate" =>
        cfg[p].starts = migrateStopSchedules(cfg[p].windows, cfg[p].weekdays)

LEMMA NextMigrates == TypeOK /\ MigratesItsOwn /\ [Next]_vars => MigratesItsOwn'
<1> SUFFICES ASSUME TypeOK, MigratesItsOwn, [Next]_vars PROVE MigratesItsOwn'
  OBVIOUS
<1>1. ASSUME NEW p \in Proc, Load(p) PROVE MigratesItsOwn'
  <2> DEFINE c == applyEnv(file.content)
  <2>1. c \in Content
    BY ApplyEnvIs DEF TypeOK
  <2>2. cfg' = [cfg EXCEPT ![p] = Migrated(c)] /\ pc' = [pc EXCEPT ![p] = "migrate"]
    BY <1>1 DEF Load, Goto
  <2> HIDE DEF c
  <2>3. Migrated(c).starts = migrateStopSchedules(Migrated(c).windows, Migrated(c).weekdays)
    BY <2>1, MigratedIs, WithStartsIs
  <2> QED
    BY <2>2, <2>3 DEF MigratesItsOwn, TypeOK
<1>2. ASSUME NEW p \in Proc, ReadRaw(p) PROVE MigratesItsOwn'
  <2>1. /\ pc'[p] # "migrate"
        /\ \A q \in Proc : q # p => pc'[q] = pc[q] /\ cfg'[q] = cfg[q]
    BY <1>2 DEF ReadRaw, Goto, TypeOK
  <2> QED
    BY <2>1 DEF MigratesItsOwn
<1>3. ASSUME NEW p \in Proc,
             SaveSettings(p) \/ InitConfig(p) \/ Truncate(p) \/ Put(p)
      PROVE  MigratesItsOwn'
  <2>1. cfg' = cfg /\ (Goto(p, "truncate") \/ Goto(p, "put") \/ Goto(p, "idle"))
    BY <1>3 DEF SaveSettings, InitConfig, Truncate, Put
  <2>2. \A q \in Proc : pc'[q] = "migrate" => pc[q] = "migrate"
    BY <2>1 DEF Goto, TypeOK
  <2> QED
    BY <2>1, <2>2 DEF MigratesItsOwn
<1>4. CASE Crash
  BY <1>4 DEF Crash, MigratesItsOwn
<1>5. CASE UNCHANGED vars
  BY <1>5 DEF vars, MigratesItsOwn
<1> QED
  BY <1>1, <1>2, <1>3, <1>4, <1>5 DEF Next

\* README.md:216: what any Load is about to write over the stop windows, those of the
\* environment included, covers exactly the instants they did not.
THEOREM MigrationsAreComplements == Spec => []MigrationIsComplement
<1>1. Init => MigratesItsOwn
  BY DEF Init, MigratesItsOwn
<1>2. TypeOK /\ MigratesItsOwn => MigrationIsComplement
  <2> SUFFICES ASSUME TypeOK, MigratesItsOwn, NEW p \in Proc, pc[p] = "migrate"
               PROVE  IsComplement(cfg[p].windows, cfg[p].weekdays, cfg[p].starts)
    BY DEF MigrationIsComplement
  <2>1. cfg[p].windows \in SUBSET StopWindow /\ cfg[p].weekdays \in SUBSET (1..7)
    BY DEF TypeOK, Content
  <2>2. cfg[p].starts = migrateStopSchedules(cfg[p].windows, cfg[p].weekdays)
    BY DEF MigratesItsOwn
  <2> QED
    BY <2>1, <2>2, MigrationIsRight
<1> QED
  BY <1>1, <1>2, NextMigrates, ConfigTypeCorrect, PTL DEF Spec

-----------------------------------------------------------------------------
(* What the environment gives stays out of the file.                       *)

Own(c) == c.keys # "env" /\ (EnvMode \notin SavedModes => c.mode # EnvMode)

OwnInv == Own(file.content) /\ \A p \in Proc : Own(data[p])

LEMMA InitOwn == EnvMode # "auto" /\ Init => OwnInv
<1> SUFFICES ASSUME EnvMode # "auto", Init PROVE OwnInv
  OBVIOUS
<1>1. Own(defaults)
  BY DefaultsAre DEF Own
<1>2. Own(file.content)
  <2>1. CASE file = [is |-> "absent", content |-> defaults]
    BY <1>1, <2>1
  <2>2. ASSUME NEW l \in Legacy,
               file = File([defaults EXCEPT !.keys = "file", !.windows = l.windows,
                                            !.weekdays = l.weekdays])
        PROVE  Own(file.content)
    BY <2>2 DEF File, Own, defaults
  <2> QED
    BY <2>1, <2>2 DEF Init
<1> QED
  BY <1>1, <1>2 DEF Init, OwnInv

LEMMA NextOwn == EnvMode # "auto" /\ TypeOK /\ OwnInv /\ [Next]_vars => OwnInv'
<1> SUFFICES ASSUME EnvMode # "auto", TypeOK, OwnInv, [Next]_vars PROVE OwnInv'
  OBVIOUS
<1>d. Own(defaults)
  BY DefaultsAre DEF Own
<1>1. ASSUME NEW p \in Proc, Load(p) PROVE OwnInv'
  BY <1>1 DEF Load, OwnInv, Own
<1>2. ASSUME NEW p \in Proc, ReadRaw(p) PROVE OwnInv'
  <2>1. CASE file.is = "whole"
    <3>1. OnlyData(p) /\ data'[p].keys = file.content.keys /\ data'[p].mode = file.content.mode
      BY <1>2, <2>1, ReadRawWrites
    <3> QED
      BY <1>2, <3>1 DEF ReadRaw, OwnInv, Own, OnlyData
  <2>2. CASE file.is # "whole"
    BY <1>2, <2>2 DEF ReadRaw, OwnInv, Own
  <2> QED
    BY <2>1, <2>2
<1>3. ASSUME NEW p \in Proc, SaveSettings(p) PROVE OwnInv'
  <2>1. OnlyData(p) /\ data'[p].keys = file.content.keys /\ data'[p].mode \in SavedModes
    BY <1>3, SaveSettingsWrites
  <2>2. UNCHANGED file
    BY <1>3 DEF SaveSettings
  <2> QED
    BY <2>1, <2>2 DEF OwnInv, Own, OnlyData
<1>4. ASSUME NEW p \in Proc, InitConfig(p) PROVE OwnInv'
  <2>1. OnlyData(p) /\ data'[p].keys = "file" /\ data'[p].mode = "auto"
    BY <1>4, InitWrites
  <2>2. UNCHANGED file
    BY <1>4 DEF InitConfig
  <2> QED
    BY <2>1, <2>2 DEF OwnInv, Own, OnlyData
<1>5. ASSUME NEW p \in Proc, Truncate(p) PROVE OwnInv'
  BY <1>5, <1>d DEF Truncate, OwnInv, Own, Empty, File
<1>6. ASSUME NEW p \in Proc, Put(p) PROVE OwnInv'
  <2>1. OnlyData(p) /\ data'[p] = defaults
    BY <1>6, PutWrites
  <2>2. file' = File(data[p]) \/ file' = [is |-> "garbled", content |-> defaults]
    BY <1>6 DEF Put
  <2>3. file'.content = data[p] \/ file'.content = defaults
    BY <2>2 DEF File
  <2> QED
    BY <1>d, <2>1, <2>3 DEF OwnInv, Own, OnlyData
<1>7. CASE Crash
  BY <1>7, <1>d DEF Crash, OwnInv, Own
<1>8. CASE UNCHANGED vars
  BY <1>8 DEF vars, OwnInv, Own
<1> QED
  BY <1>1, <1>2, <1>3, <1>4, <1>5, <1>6, <1>7, <1>8 DEF Next

\* Whatever calls overlap or are cut off by a crash, the keys and a power mode that
\* only the environment gives never reach the file.  "auto" is the mode of a file
\* without one (config.go:35), so the theorem is about the others.
THEOREM EnvironmentStaysOut ==
    ASSUME EnvMode # "auto"
    PROVE  Spec => []EnvironmentNotPersisted
<1>1. Init => OwnInv
  BY InitOwn
<1>2. TypeOK /\ OwnInv /\ [Next]_vars => OwnInv'
  BY NextOwn
<1>3. OwnInv => EnvironmentNotPersisted
  BY DEF OwnInv, Own, EnvironmentNotPersisted
<1> QED
  BY <1>1, <1>2, <1>3, ConfigTypeCorrect, PTL DEF Spec

-----------------------------------------------------------------------------
(* What the file keeps while calls do not overlap.  At most one goroutine  *)
(* is inside a call; a migration only begins on a file nobody saved,       *)
(* because what is saved has schedules.                                    *)

Whole(c) == c.keys = "file" /\ c.hasStarts

Alone ==
    /\ \A p, q \in Proc : ~Idle(p) /\ ~Idle(q) => p = q
    /\ file.is \in {"absent", "whole"}
    /\ \A p \in Proc :
          /\ pc[p] = "migrate" => op[p] = "load"
          /\ ~Idle(p) /\ op[p] = "load" => ~saved.known
          /\ pc[p] \in {"truncate", "put"} => Whole(data[p])
          /\ pc[p] = "put" => file = Empty
    /\ (\A p \in Proc : pc[p] # "put") =>
          /\ file.is = "whole" => file.content.keys = "file"
          /\ saved.known => FileIsSaved

AloneInv == ~overlapped => Alone

LEMMA InitAlone == Init => AloneInv
<1> SUFFICES ASSUME Init PROVE Alone
  BY DEF AloneInv
<1>1. file.is \in {"absent", "whole"} /\ (file.is = "whole" => file.content.keys = "file")
  <2>1. CASE file = [is |-> "absent", content |-> defaults]
    BY <2>1
  <2>2. ASSUME NEW l \in Legacy,
               file = File([defaults EXCEPT !.keys = "file", !.windows = l.windows,
                                            !.weekdays = l.weekdays])
        PROVE  file.is = "whole" /\ file.content.keys = "file"
    BY <2>2 DEF File, defaults
  <2> QED
    BY <2>1, <2>2 DEF Init
<1> QED
  BY <1>1 DEF Init, Alone, Idle

\* A call that begins and does not overlap finds every goroutine idle.
LEMMA CallAlone ==
    ASSUME NEW p \in Proc, NEW call \in {"load", "save", "init"}, NEW place,
           TypeOK, BeginCall(p, call), Goto(p, place), ~overlapped'
    PROVE  /\ ~overlapped /\ Settled
           /\ pc'[p] = place /\ op'[p] = call
           /\ \A q \in Proc : q # p => pc'[q] = "idle"
BY DEF TypeOK, BeginCall, Goto, Idle, Settled

\* A file with schedules of its own is not migrated.
LEMMA LoadNeedsOld ==
    ASSUME NEW p \in Proc, Load(p)
    PROVE  ~file.content.hasStarts
BY DEF Load, MustPersist, applyEnv

LEMMA NextAlone == TypeOK /\ AloneInv /\ [Next]_vars => AloneInv'
<1> SUFFICES ASSUME TypeOK, AloneInv, [Next]_vars, ~overlapped' PROVE Alone'
  BY DEF AloneInv
<1>1. ASSUME NEW p \in Proc, Load(p) PROVE Alone'
  <2>1. /\ ~overlapped /\ Settled
        /\ pc'[p] = "migrate" /\ op'[p] = "load"
        /\ \A q \in Proc : q # p => pc'[q] = "idle"
    BY <1>1, CallAlone DEF Load
  <2>2. UNCHANGED <<file, data, saved>>
    BY <1>1 DEF Load
  <2>3. ~saved.known
    BY <1>1, <2>1, LoadNeedsOld DEF AloneInv, Alone, Settled, Idle, FileIsSaved
  <2> QED
    BY <2>1, <2>2, <2>3 DEF AloneInv, Alone, Settled, Idle, FileIsSaved
<1>2. ASSUME NEW p \in Proc, ReadRaw(p) PROVE Alone'
  <2>1. /\ Alone /\ pc[p] = "migrate" /\ op[p] = "load" /\ ~saved.known
        /\ UNCHANGED <<file, op, saved>>
    BY <1>2 DEF ReadRaw, AloneInv, Alone, Idle
  <2>2. \A q \in Proc : q # p => pc[q] = "idle"
    BY <2>1 DEF Alone, Idle
  <2>3. CASE file.is = "whole"
    <3>1. /\ OnlyData(p) /\ data'[p].keys = file.content.keys /\ data'[p].hasStarts
      BY <1>2, <2>3, ReadRawWrites
    <3>2. pc' = [pc EXCEPT ![p] = "truncate"]
      BY <1>2, <2>3 DEF ReadRaw, Goto
    <3>3. file.content.keys = "file"
      BY <2>1, <2>2, <2>3 DEF Alone
    <3>4. Whole(data'[p])
      BY <3>1, <3>3 DEF Whole
    <3>5. pc'[p] = "truncate" /\ \A q \in Proc : q # p => pc'[q] = "idle"
      BY <2>2, <3>2 DEF TypeOK
    <3> QED
      BY <2>1, <2>2, <3>3, <3>4, <3>5 DEF Alone, Idle, FileIsSaved
  <2>4. CASE file.is # "whole"
    <3>1. pc' = [pc EXCEPT ![p] = "idle"] /\ UNCHANGED data
      BY <1>2, <2>4 DEF ReadRaw, Goto
    <3> QED
      BY <2>1, <2>2, <3>1 DEF Alone, Idle, FileIsSaved, TypeOK
  <2> QED
    BY <2>3, <2>4
<1>3. ASSUME NEW p \in Proc, SaveSettings(p) PROVE Alone'
  <2>1. /\ ~overlapped /\ Settled
        /\ pc'[p] = "truncate" /\ op'[p] = "save"
        /\ \A q \in Proc : q # p => pc'[q] = "idle"
    BY <1>3, CallAlone DEF SaveSettings
  <2>2. file.is = "whole" /\ UNCHANGED <<file, saved>>
    BY <1>3 DEF SaveSettings
  <2>3. data'[p].keys = file.content.keys /\ data'[p].hasStarts
    BY <1>3, SaveSettingsWrites
  <2>4. Whole(data'[p])
    BY <2>1, <2>2, <2>3 DEF AloneInv, Alone, Settled, Idle, Whole
  <2> QED
    BY <2>1, <2>2, <2>4 DEF AloneInv, Alone, Settled, Idle, FileIsSaved
<1>4. ASSUME NEW p \in Proc, InitConfig(p) PROVE Alone'
  <2>1. /\ ~overlapped /\ Settled
        /\ pc'[p] = "truncate" /\ op'[p] = "init"
        /\ \A q \in Proc : q # p => pc'[q] = "idle"
    BY <1>4, CallAlone DEF InitConfig
  <2>2. UNCHANGED <<file, saved>>
    BY <1>4 DEF InitConfig
  <2>3. Whole(data'[p])
    BY <1>4, InitWrites DEF Whole
  <2> QED
    BY <2>1, <2>2, <2>3 DEF AloneInv, Alone, Settled, Idle, FileIsSaved
<1>5. ASSUME NEW p \in Proc, Truncate(p) PROVE Alone'
  <2>1. Alone /\ pc[p] = "truncate" /\ file' = Empty /\ UNCHANGED <<op, data, saved>>
    BY <1>5 DEF Truncate, AloneInv
  <2>2. \A q \in Proc : q # p => pc[q] = "idle"
    BY <2>1 DEF Alone, Idle
  <2>3. pc'[p] = "put" /\ \A q \in Proc : q # p => pc'[q] = "idle"
    BY <1>5, <2>2 DEF Truncate, Goto, TypeOK
  <2>4. file'.is = "whole"
    BY <2>1 DEF Empty, File
  <2> QED
    BY <2>1, <2>3, <2>4 DEF Alone, Idle
<1>6. ASSUME NEW p \in Proc, Put(p) PROVE Alone'
  <2>1. Alone /\ pc[p] = "put" /\ file = Empty /\ Whole(data[p])
    BY <1>6 DEF Put, AloneInv, Alone
  <2>2. \A q \in Proc : q # p => pc[q] = "idle"
    BY <2>1 DEF Alone, Idle
  <2>3. \A q \in Proc : pc'[q] = "idle"
    BY <1>6, <2>2 DEF Put, Goto, TypeOK
  <2>4. file' = File(data[p])
    BY <1>6, <2>1 DEF Put
  <2>5. file'.is = "whole" /\ file'.content = data[p]
    BY <2>4 DEF File
  <2>6. CASE op[p] = "load"
    <3>1. ~saved'.known
      BY <1>6, <2>1, <2>6 DEF Put, Alone, Idle
    <3> QED
      BY <2>1, <2>3, <2>5, <3>1 DEF Alone, Idle, Whole
  <2>7. CASE op[p] # "load"
    <3>1. saved' = [known |-> TRUE, mode |-> data[p].mode, starts |-> data[p].starts]
      BY <1>6, <2>7 DEF Put
    <3>2. FileIsSaved'
      BY <2>1, <2>5, <3>1 DEF FileIsSaved, Whole
    <3> QED
      BY <2>1, <2>3, <2>5, <3>2 DEF Alone, Idle, Whole
  <2> QED
    BY <2>6, <2>7
<1>7. CASE Crash
  <2>1. ~overlapped /\ Settled
    BY <1>7 DEF Crash, Settled, TypeOK
  <2>2. \A q \in Proc : pc'[q] = "idle"
    BY <1>7 DEF Crash
  <2>3. UNCHANGED <<file, saved>>
    BY <1>7 DEF Crash
  <2> QED
    BY <2>1, <2>2, <2>3 DEF AloneInv, Alone, Settled, Idle, FileIsSaved
<1>8. CASE UNCHANGED vars
  BY <1>8 DEF vars, AloneInv, Alone, Idle, FileIsSaved, Whole
<1> QED
  BY <1>1, <1>2, <1>3, <1>4, <1>5, <1>6, <1>7, <1>8 DEF Next

\* As long as no two calls overlap and none is cut off by a crash, the file holds
\* the settings that were saved last and the keys, after any number of loads,
\* migrations and saves by any number of goroutines.
THEOREM SavedSettingsAreKept == Spec => []SavedIsKept
<1>1. AloneInv => SavedIsKept
  BY DEF AloneInv, Alone, SavedIsKept, Settled, Idle
<1> QED
  BY <1>1, InitAlone, NextAlone, ConfigTypeCorrect, PTL DEF Spec

=============================================================================
