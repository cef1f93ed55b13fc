------------------------- MODULE StartScheduleProofs -------------------------
(***************************************************************************)
(* Proofs about the calendar of StartSchedule, for any sets of rules and   *)
(* days of any length: what the service computes from the weekdays and the *)
(* windows is what the rules say, instant by instant.                      *)
(*                                                                         *)
(* The code works on days and minutes of the day, the reference on         *)
(* instants; quotients and remainders (NumberFacts) lead from one to the   *)
(* other.  That the week repeats is used once, without induction: an       *)
(* instant k weeks later is moved back by 7 * k days.                      *)
(***************************************************************************)
EXTENDS StartSchedule, NumberFacts

-----------------------------------------------------------------------------
(* Days, minutes and windows.                                              *)

\* A day has a positive number of ticks, and a minute of the day lies in it.
LEMMA DayIsLong ==
    /\ Day \in Nat \ {0} /\ Day = Minute * Minutes
    /\ \A m \in Int : Minute * m = m * Minute /\ m * Minute \in Int
    /\ \A m \in 0..(Minutes - 1) : m * Minute \in 0..(Day - 1)
    /\ \A m \in 0..Minutes : m * Minute \in 0..Day
  <1>1. Minute \in Nat \ {0} /\ Minutes \in Nat \ {0}
    BY ClockAssumption
  <1>2. Day \in Int /\ Day = Minute * Minutes /\ Minute * 0 = 0
    BY <1>1 DEF Day
  <1>3. 0 < Day
    BY <1>1, <1>2, TimesOrder
  <1>4. \A m \in Int : Minute * m = m * Minute /\ m * Minute \in Int
    BY <1>1
  <1>5. ASSUME NEW m \in 0..Minutes PROVE m * Minute \in 0..Day
    BY <1>1, <1>2, <1>4, TimesOrder
  <1>6. ASSUME NEW m \in 0..(Minutes - 1) PROVE m * Minute \in 0..(Day - 1)
    <2>1. m * Minute < Day
      BY <1>1, <1>2, <1>4, TimesOrder
    <2> QED
      BY <2>1, <1>1, <1>2, <1>5
  <1> QED
    BY <1>2, <1>3, <1>4, <1>5, <1>6

\* The minute of the day the code compares with a window's start and end.
LEMMA MinuteOfDay ==
    ASSUME NEW c \in Nat, NEW m \in Int
    PROVE  /\ c \div Minute \in Int
           /\ m <= c \div Minute <=> m * Minute <= c
           /\ c \div Minute < m <=> c < m * Minute
  <1> DEFINE q == c \div Minute
  <1>1. Minute \in Nat \ {0} /\ m * Minute = Minute * m /\ m * Minute \in Int
    BY ClockAssumption, DayIsLong
  <1>2. q \in Int /\ c % Minute \in 0..(Minute - 1) /\ c = Minute * q + (c % Minute)
    BY <1>1, DivMod
  <1>3. m <= q => m * Minute <= c
    BY <1>1, <1>2, TimesOrder
  <1>4. q < m => Minute * q + Minute <= m * Minute
    BY <1>1, <1>2, TimesMore
  <1> QED
    BY <1>1, <1>2, <1>3, <1>4

\* The day of an instant and the tick of the day.
LEMMA InstantOfDay ==
    ASSUME NEW t \in Int
    PROVE  /\ t \div Day \in Int /\ t % Day \in 0..(Day - 1)
           /\ t = Day * (t \div Day) + (t % Day)
           /\ t - (t % Day) = Day * (t \div Day)
  <1>1. Day \in Nat \ {0}
    BY DayIsLong
  <1> QED
    BY <1>1, DivMod

\* The day and the tick of the day of an instant that is given by them.
LEMMA DayPart ==
    ASSUME NEW q \in Int, NEW m \in 0..(Day - 1)
    PROVE  Day * q + m \in Int /\ (Day * q + m) \div Day = q /\ (Day * q + m) % Day = m
  <1>1. Day \in Nat \ {0}
    BY DayIsLong
  <1> QED
    BY <1>1, DivModUnique

\* The weekday of the code, Sunday being 0, and the weekday of the rules.
LEMMA WeekdayIsIso ==
    ASSUME NEW q \in Int
    PROVE  /\ Weekday(Day * q) = q % 7
           /\ IsoWeekday(q) = IF q % 7 = 0 THEN 7 ELSE q % 7
  <1>1. (Day * q + 0) \div Day = q /\ Day * q + 0 = Day * q
    BY DayIsLong, DivModUnique
  <1>2. Weekday(Day * q) = q % 7
    BY <1>1 DEF Weekday
  <1> QED
    BY <1>2 DEF IsoWeekday

\* What a window of a set of rules looks like; it lasts from one tick to a day.
LEMMA WindowShape ==
    ASSUME NEW S \in SUBSET Rule, NEW w \in Windows(S)
    PROVE  /\ w[1] \in 0..(Minutes - 1) /\ w[2] \in 0..Minutes /\ w[1] # w[2]
           /\ w[1] * Minute \in 0..(Day - 1) /\ w[2] * Minute \in 0..Day
           /\ w[1] < w[2] => /\ w[1] * Minute < w[2] * Minute
                             /\ Length(w) = w[2] * Minute - w[1] * Minute
           /\ w[1] > w[2] => /\ w[1] * Minute > w[2] * Minute
                             /\ Length(w) = w[2] * Minute - w[1] * Minute + Day
           /\ Length(w) \in 1..Day
  <1>1. /\ w[1] \in 0..(Minutes - 1) /\ w[2] \in 0..Minutes /\ w[1] # w[2]
        /\ w[1] \in Int /\ w[2] \in Int
    <2>1. w \in (0..(Minutes - 1)) \X (0..Minutes) /\ w[1] # w[2]
      BY DEF Windows, Rule
    <2> QED
      BY <2>1, ClockAssumption
  <1>2. /\ Minute \in Nat \ {0} /\ Minutes \in Nat \ {0} /\ Day \in Nat \ {0}
        /\ Day = Minute * Minutes
        /\ w[1] * Minute \in 0..(Day - 1) /\ w[2] * Minute \in 0..Day
        /\ w[1] * Minute = Minute * w[1] /\ w[2] * Minute = Minute * w[2]
    BY <1>1, ClockAssumption, DayIsLong
  <1>3. CASE w[1] < w[2]
    <2>1. Length(w) = (w[2] - w[1]) * Minute
      BY <1>3 DEF Length
    <2>2. Length(w) = w[2] * Minute - w[1] * Minute
      BY <2>1, <1>1, <1>2
    <2>3. w[1] * Minute < w[2] * Minute
      BY <1>1, <1>2, <1>3, TimesOrder
    <2> QED
      BY <2>2, <2>3, <1>1, <1>2, <1>3
  <1>4. CASE w[1] > w[2]
    <2>1. Length(w) = (w[2] - w[1] + Minutes) * Minute
      BY <1>1, <1>4 DEF Length
    <2>2. Length(w) = w[2] * Minute - w[1] * Minute + Day
      BY <2>1, <1>1, <1>2
    <2>3. w[1] * Minute > w[2] * Minute
      BY <1>1, <1>2, <1>4, TimesOrder
    <2> QED
      BY <2>2, <2>3, <1>1, <1>2, <1>4
  <1> QED
    BY <1>1, <1>3, <1>4

\* A window begins on the day whose weekday is in its rule, at its minute.
LEMMA BeginsOnDay ==
    ASSUME NEW S \in SUBSET Rule, NEW w \in Windows(S), NEW q \in Int
    PROVE  Begins(S, w, Day * q + w[1] * Minute)
              <=> \E r \in S : w \in r.windows /\ IsoWeekday(q) \in r.weekdays
  <1>1. Day \in Nat \ {0} /\ w[1] * Minute \in 0..(Day - 1)
    BY DayIsLong, WindowShape
  <1> DEFINE t == Day * q + w[1] * Minute
  <1>2. t \div Day = q /\ t % Day = w[1] * Minute
    BY <1>1, DivModUnique
  <1> HIDE DEF t
  <1>3. Begins(S, w, t)
           <=> \E r \in S : w \in r.windows /\ IsoWeekday(q) \in r.weekdays
    BY <1>2 DEF Begins
  <1> QED
    BY <1>3 DEF t

\* An instant at which a window begins, as a day and a minute.
LEMMA BeginsAt ==
    ASSUME NEW S \in SUBSET Rule, NEW w \in Windows(S), NEW t \in Int, Begins(S, w, t)
    PROVE  t = Day * (t \div Day) + w[1] * Minute
  BY InstantOfDay DEF Begins

\* An instant at which a window begins is one seven days later too, and the
\* other way round, for any number of weeks.
LEMMA WeeksRepeat ==
    ASSUME NEW S \in SUBSET Rule, NEW w \in Windows(S), NEW t \in Int, NEW k \in Int,
           Begins(S, w, t)
    PROVE  /\ Begins(S, w, t - 7 * Day * k)
           /\ (t - 7 * Day * k) \div Day = (t \div Day) - 7 * k
  <1> DEFINE q == t \div Day
             m == w[1] * Minute
  <1>1. Day \in Nat \ {0} /\ m \in 0..(Day - 1) /\ q \in Int /\ t = Day * q + m
    BY DayIsLong, WindowShape, BeginsAt, InstantOfDay
  <1>2. \E r \in S : w \in r.windows /\ IsoWeekday(q) \in r.weekdays
    BY DEF Begins
  <1>3. IsoWeekday(q - 7 * k) = IsoWeekday(q)
    BY <1>1 DEF IsoWeekday
  <1>4. t - 7 * Day * k = Day * (q - 7 * k) + m
    <2> HIDE DEF q, m
    <2> QED BY <1>1
  <1>5. q - 7 * k \in Int
    BY <1>1
  <1>6. Begins(S, w, Day * (q - 7 * k) + m)
    BY <1>2, <1>3, <1>5, BeginsOnDay
  <1>7. (Day * (q - 7 * k) + m) \div Day = q - 7 * k
    BY <1>1, <1>5, DivModUnique
  <1> QED
    BY <1>4, <1>6, <1>7

\* A day on which a rule applies, as the code asks for it.
LEMMA SelectedIsIso ==
    ASSUME NEW q \in Int, NEW days
    PROVE  stopWeekdaySelected(days, Weekday(Day * q)) <=> IsoWeekday(q) \in days
  BY WeekdayIsIso DEF stopWeekdaySelected

\* The windows the code collects for some days around an instant are those that
\* begin on these days.
LEMMA WindowsAre ==
    ASSUME NEW S \in SUBSET Rule, NEW now \in Int, NEW O \in SUBSET Int, NEW p
    PROVE  p \in WindowsAt(O, S, now)
              <=> \E o \in O, w \in Windows(S) :
                     /\ p = <<Day * ((now \div Day) + o), w>>
                     /\ Begins(S, w, Day * ((now \div Day) + o) + w[1] * Minute)
  <1> DEFINE day(o) == Day * ((now \div Day) + o)
             midnights == {(now - (now % Day)) + o * Day : o \in O}
             valid == ValidateStartSchedules(S)
             selected == {x \in midnights \X valid :
                             stopWeekdaySelected(x[2].weekdays, Weekday(x[1]))}
  <1>1. Day \in Nat \ {0} /\ now \div Day \in Int /\ now - (now % Day) = Day * (now \div Day)
    BY DayIsLong, InstantOfDay
  <1>2. ASSUME NEW o \in O PROVE (now - (now % Day)) + o * Day = day(o)
    BY <1>1
  <1>3. midnights = {day(o) : o \in O}
    BY <1>2
  <1>4. p \in WindowsAt(O, S, now)
           <=> \E x \in selected : \E w \in x[2].windows : p = <<x[1], w>>
    BY DEF WindowsAt
  <1>5. (\E x \in selected : \E w \in x[2].windows : p = <<x[1], w>>)
           <=> \E o \in O, r \in valid : \E w \in r.windows :
                  /\ p = <<day(o), w>>
                  /\ stopWeekdaySelected(r.weekdays, Weekday(day(o)))
    <2> HIDE DEF day, midnights, valid
    <2>1. ASSUME NEW x \in selected
          PROVE  \E o \in O, r \in valid :
                    x[1] = day(o) /\ x[2] = r /\ stopWeekdaySelected(r.weekdays, Weekday(day(o)))
      BY <1>3
    <2>2. ASSUME NEW o \in O, NEW r \in valid,
                 stopWeekdaySelected(r.weekdays, Weekday(day(o)))
          PROVE  <<day(o), r>> \in selected
      BY <1>3, <2>2
    <2> HIDE DEF selected
    <2>3. ASSUME NEW x \in selected, NEW w \in x[2].windows, p = <<x[1], w>>
          PROVE  \E o \in O, r \in valid : \E v \in r.windows :
                    /\ p = <<day(o), v>>
                    /\ stopWeekdaySelected(r.weekdays, Weekday(day(o)))
      BY <2>1, <2>3
    <2>4. ASSUME NEW o \in O, NEW r \in valid, NEW w \in r.windows, p = <<day(o), w>>,
                 stopWeekdaySelected(r.weekdays, Weekday(day(o)))
          PROVE  \E x \in selected : \E v \in x[2].windows : p = <<x[1], v>>
      BY <2>2, <2>4
    <2> QED
      BY <2>3, <2>4
  <1>6. ASSUME NEW o \in O, NEW w \in Windows(S)
        PROVE  Begins(S, w, day(o) + w[1] * Minute)
                 <=> \E r \in valid : /\ w \in r.windows
                                      /\ stopWeekdaySelected(r.weekdays, Weekday(day(o)))
    <2>1. (now \div Day) + o \in Int
      BY <1>1
    <2>2. Begins(S, w, day(o) + w[1] * Minute)
            <=> \E r \in S : w \in r.windows /\ IsoWeekday((now \div Day) + o) \in r.weekdays
      BY <2>1, BeginsOnDay
    <2>3. \A r \in S : stopWeekdaySelected(r.weekdays, Weekday(day(o)))
                          <=> IsoWeekday((now \div Day) + o) \in r.weekdays
      BY <2>1, SelectedIsIso
    <2>4. \A r \in S : w \in r.windows /\ IsoWeekday((now \div Day) + o) \in r.weekdays
                          => r \in valid
      BY DEF ValidateStartSchedules
    <2>5. valid \subseteq S
      BY DEF ValidateStartSchedules
    <2> HIDE DEF day, valid
    <2> QED
      BY <2>2, <2>3, <2>4, <2>5
  <1>7. \A r \in valid : r.windows \subseteq Windows(S)
    BY DEF ValidateStartSchedules, Windows
  <1> HIDE DEF midnights, valid, selected
  <1>8. (\E o \in O, r \in valid : \E w \in r.windows :
            /\ p = <<day(o), w>>
            /\ stopWeekdaySelected(r.weekdays, Weekday(day(o))))
          <=> \E o \in O, w \in Windows(S) :
                 p = <<day(o), w>> /\ Begins(S, w, day(o) + w[1] * Minute)
    <2> HIDE DEF day
    <2> QED
      BY <1>6, <1>7
  <1> QED
    BY <1>4, <1>5, <1>8

\* The starts the code collects are the instants of these days at which a window
\* begins.
LEMMA StartsAre ==
    ASSUME NEW S \in SUBSET Rule, NEW now \in Int, NEW O \in SUBSET Int
    PROVE  {StartOf(p[1], p[2]) : p \in WindowsAt(O, S, now)}
              = {t \in Int : /\ (t \div Day) - (now \div Day) \in O
                             /\ \E w \in Windows(S) : Begins(S, w, t)}
  <1> DEFINE left == {StartOf(p[1], p[2]) : p \in WindowsAt(O, S, now)}
             right == {t \in Int : /\ (t \div Day) - (now \div Day) \in O
                                   /\ \E w \in Windows(S) : Begins(S, w, t)}
             day(o) == Day * ((now \div Day) + o)
  <1> SUFFICES left = right
    OBVIOUS
  <1>1. Day \in Nat \ {0} /\ now \div Day \in Int
    BY DayIsLong, InstantOfDay
  <1>2. ASSUME NEW p \in WindowsAt(O, S, now) PROVE StartOf(p[1], p[2]) \in right
    <2>1. PICK o \in O, w \in Windows(S) :
             p = <<day(o), w>> /\ Begins(S, w, day(o) + w[1] * Minute)
      BY WindowsAre
    <2>2. w[1] * Minute \in 0..(Day - 1) /\ (now \div Day) + o \in Int
      BY <1>1, WindowShape
    <2>3. /\ (day(o) + w[1] * Minute) \div Day = (now \div Day) + o
          /\ day(o) + w[1] * Minute \in Int
      <3> DEFINE q == (now \div Day) + o
                 m == w[1] * Minute
      <3>1. q \in Int /\ m \in 0..(Day - 1)
        BY <2>2
      <3> HIDE DEF q, m
      <3>2. Day * q + m \in Int /\ (Day * q + m) \div Day = q
        BY <3>1, DayPart
      <3> QED
        BY <3>2 DEF q, m
    <2>4. StartOf(p[1], p[2]) = day(o) + w[1] * Minute
      BY <2>1 DEF StartOf
    <2>5. ((now \div Day) + o) - (now \div Day) = o
      BY <1>1
    <2> QED
      BY <2>1, <2>3, <2>4, <2>5
  <1>3. ASSUME NEW t \in right PROVE t \in left
    <2>1. PICK w \in Windows(S) : Begins(S, w, t)
      OBVIOUS
    <2> DEFINE o == (t \div Day) - (now \div Day)
    <2>2. /\ o \in O /\ t \in Int
          /\ t = Day * (t \div Day) + w[1] * Minute
      BY <2>1, BeginsAt
    <2>a. (now \div Day) + o = t \div Day
      <3>1. t \div Day \in Int
        BY <2>2, InstantOfDay
      <3> QED BY <1>1, <3>1
    <2>b. t = day(o) + w[1] * Minute
      BY <2>2, <2>a
    <2>3. <<day(o), w>> \in WindowsAt(O, S, now)
      <3>1. Begins(S, w, day(o) + w[1] * Minute) /\ o \in O
        BY <2>1, <2>2, <2>b
      <3> HIDE DEF o
      <3> QED BY <3>1, WindowsAre
    <2>4. t = StartOf(day(o), w)
      BY <2>b DEF StartOf
    <2> HIDE DEF day, o
    <2>5. <<day(o), w>>[1] = day(o) /\ <<day(o), w>>[2] = w
      OBVIOUS
    <2> QED
      BY <2>3, <2>4, <2>5
  <1> QED
    <2> HIDE DEF right
    <2> QED BY <1>2, <1>3

\* The ends the code collects are those of the windows that begin on these days.
LEMMA EndsAre ==
    ASSUME NEW S \in SUBSET Rule, NEW now \in Int, NEW O \in SUBSET Int
    PROVE  {EndOf(p[1], p[2]) : p \in WindowsAt(O, S, now)}
              = {t \in Int : \E w \in Windows(S) :
                                /\ ((t - Length(w)) \div Day) - (now \div Day) \in O
                                /\ Begins(S, w, t - Length(w))}
  <1> DEFINE left == {EndOf(p[1], p[2]) : p \in WindowsAt(O, S, now)}
             right == {t \in Int : \E w \in Windows(S) :
                                      /\ ((t - Length(w)) \div Day) - (now \div Day) \in O
                                      /\ Begins(S, w, t - Length(w))}
             day(o) == Day * ((now \div Day) + o)
  <1> SUFFICES left = right
    OBVIOUS
  <1>1. Day \in Nat \ {0} /\ now \div Day \in Int
    BY DayIsLong, InstantOfDay
  <1>2. ASSUME NEW w \in Windows(S), NEW d \in Int
        PROVE  EndOf(d, w) = d + w[1] * Minute + Length(w) /\ Length(w) \in Int
    <2> DEFINE a == w[1] * Minute
               b == w[2] * Minute
    <2>1. /\ a \in Int /\ b \in Int /\ Length(w) \in Int
          /\ w[1] \in Int /\ w[2] \in Int /\ w[1] # w[2]
          /\ w[1] < w[2] => Length(w) = b - a
          /\ w[1] > w[2] => Length(w) = b - a + Day
      BY <1>1, WindowShape, ClockAssumption
    <2>2. EndOf(d, w) = (IF w[1] > w[2] THEN d + Day ELSE d) + b
      BY DEF EndOf
    <2> HIDE DEF a, b
    <2>3. EndOf(d, w) = d + a + Length(w)
      BY <1>1, <2>1, <2>2
    <2> QED
      BY <2>1, <2>3 DEF a
  <1>3. ASSUME NEW p \in WindowsAt(O, S, now) PROVE EndOf(p[1], p[2]) \in right
    <2>1. PICK o \in O, w \in Windows(S) :
             p = <<day(o), w>> /\ Begins(S, w, day(o) + w[1] * Minute)
      BY WindowsAre
    <2>2. w[1] * Minute \in 0..(Day - 1) /\ (now \div Day) + o \in Int /\ day(o) \in Int
      BY <1>1, WindowShape
    <2> DEFINE begin == day(o) + w[1] * Minute
    <2>3. begin \div Day = (now \div Day) + o /\ begin \in Int
      <3> DEFINE q == (now \div Day) + o
                 m == w[1] * Minute
      <3>1. q \in Int /\ m \in 0..(Day - 1)
        BY <2>2
      <3> HIDE DEF q, m
      <3>2. Day * q + m \in Int /\ (Day * q + m) \div Day = q
        BY <3>1, DayPart
      <3> QED
        BY <3>2 DEF q, m
    <2>4. EndOf(p[1], p[2]) = begin + Length(w) /\ Length(w) \in Int
      BY <2>1, <2>2, <1>2
    <2>5. ((now \div Day) + o) - (now \div Day) = o
      BY <1>1
    <2>6. Begins(S, w, begin)
      BY <2>1
    <2> HIDE DEF begin, day
    <2>7. EndOf(p[1], p[2]) \in Int /\ EndOf(p[1], p[2]) - Length(w) = begin
      BY <2>3, <2>4
    <2> QED
      BY <2>3, <2>5, <2>6, <2>7
  <1>4. ASSUME NEW t \in right PROVE t \in left
    <2>1. PICK w \in Windows(S) : /\ ((t - Length(w)) \div Day) - (now \div Day) \in O
                                  /\ Begins(S, w, t - Length(w))
      OBVIOUS
    <2> DEFINE begin == t - Length(w)
               o == (begin \div Day) - (now \div Day)
    <2>2. begin \in Int /\ Length(w) \in Int /\ t \in Int
      BY WindowShape, DayIsLong
    <2>a. Begins(S, w, begin) /\ o \in O
      BY <2>1
    <2> HIDE DEF begin
    <2>b. begin \div Day \in Int /\ begin = Day * (begin \div Day) + w[1] * Minute
      BY <2>2, <2>a, BeginsAt, InstantOfDay
    <2>3. (now \div Day) + o = begin \div Day
      BY <1>1, <2>b
    <2>5. day(o) + w[1] * Minute = begin /\ day(o) \in Int
      BY <1>1, <2>3, <2>b
    <2>4. <<day(o), w>> \in WindowsAt(O, S, now)
      <3> HIDE DEF o
      <3> QED BY <2>a, <2>5, WindowsAre
    <2>6. EndOf(day(o), w) = begin + Length(w)
      BY <1>2, <2>5
    <2>7. begin + Length(w) = t
      BY <2>2 DEF begin
    <2> HIDE DEF day, o
    <2>8. <<day(o), w>>[1] = day(o) /\ <<day(o), w>>[2] = w
      OBVIOUS
    <2> QED
      BY <2>4, <2>6, <2>7, <2>8
  <1> QED
    <2> HIDE DEF right
    <2> QED BY <1>3, <1>4

-----------------------------------------------------------------------------
(* The next start and the next boundary.                                   *)

\* FirstAfter is the first of the instants after now, or Unset if there is none.
LEMMA FirstAfterIs ==
    ASSUME NEW T \in SUBSET Int, NEW now \in Nat
    PROVE  LET f == FirstAfter(T, now)
           IN  \/ f = Unset /\ \A t \in T : t <= now
               \/ f \in T /\ f \in Nat /\ f > now /\ \A t \in T : t > now => f <= t
  <1> DEFINE later == {t \in T : t > now}
  <1>1. CASE later = {}
    BY <1>1 DEF FirstAfter
  <1>2. CASE later # {}
    <2>1. \A t \in later : t \in Nat
      OBVIOUS
    <2>2. PICK n \in later : \A m \in later : n <= m
      BY <1>2, <2>1, LeastNat
    <2>3. Min(later) \in later /\ \A m \in later : Min(later) <= m
      BY <2>2 DEF Min
    <2>4. FirstAfter(T, now) = Min(later)
      BY <1>2 DEF FirstAfter
    <2> QED
      BY <2>1, <2>3, <2>4
  <1> QED
    BY <1>1, <1>2

\* Two sets of instants with the same first instants after now.
LEMMA SameFirst ==
    ASSUME NEW T \in SUBSET Int, NEW U \in SUBSET Int, NEW now \in Nat,
           \A t \in T : t > now => \E u \in U : u > now /\ u <= t,
           \A u \in U : u > now => \E t \in T : t > now /\ t <= u
    PROVE  FirstAfter(T, now) = FirstAfter(U, now)
  <1> DEFINE f == FirstAfter(T, now)
             g == FirstAfter(U, now)
  <1>1. \/ f = Unset /\ \A t \in T : t <= now
        \/ f \in T /\ f \in Nat /\ f > now /\ \A t \in T : t > now => f <= t
    BY FirstAfterIs
  <1>2. \/ g = Unset /\ \A t \in U : t <= now
        \/ g \in U /\ g \in Nat /\ g > now /\ \A t \in U : t > now => g <= t
    BY FirstAfterIs
  <1> HIDE DEF f, g
  <1>3. f = g
    BY <1>1, <1>2
  <1> QED
    BY <1>3 DEF f, g

\* The days of two instants are as far apart as the instants, to the day.
LEMMA DaysApart ==
    ASSUME NEW t \in Int, NEW u \in Int, NEW k \in Int
    PROVE  /\ t <= u => t \div Day <= u \div Day
           /\ u <= t + Day * k => u \div Day <= (t \div Day) + k
  <1> DEFINE p == t \div Day
             q == u \div Day
  <1>1. /\ Day \in Nat \ {0} /\ p \in Int /\ q \in Int
        /\ t = Day * p + (t % Day) /\ t % Day \in 0..(Day - 1)
        /\ u = Day * q + (u % Day) /\ u % Day \in 0..(Day - 1)
    BY DayIsLong, InstantOfDay
  <1> HIDE DEF p, q
  <1>2. ASSUME NEW j \in Int, u <= t + Day * j PROVE q <= p + j
    <2>1. ~(p + j < q)
      <3> SUFFICES ASSUME p + j < q PROVE FALSE
        OBVIOUS
      <3>1. Day * (p + j) + Day <= Day * q
        BY <1>1, TimesMore
      <3>2. Day * (p + j) = Day * p + Day * j
        BY <1>1
      <3>3. Day * p \in Int /\ Day * q \in Int /\ Day * j \in Int
        BY <1>1
      <3> HIDE <1>1
      <3>4. /\ Day \in Nat \ {0}
            /\ t = Day * p + (t % Day) /\ t % Day \in 0..(Day - 1)
            /\ u = Day * q + (u % Day) /\ u % Day \in 0..(Day - 1)
        BY <1>1
      <3> QED
        BY <3>1, <3>2, <3>3, <3>4, <1>2
    <2> QED
      BY <2>1, <1>1
  <1>3. t <= u => p <= q
    <2> SUFFICES ASSUME t <= u PROVE p <= q
      OBVIOUS
    <2>1. ~(q < p)
      <3> SUFFICES ASSUME q < p PROVE FALSE
        OBVIOUS
      <3>1. Day * q + Day <= Day * p
        BY <1>1, TimesMore
      <3> QED
        BY <3>1, <1>1
    <2> QED
      BY <2>1, <1>1
  <1> QED
    BY <1>2, <1>3 DEF p, q

\* An instant after another, moved back by whole weeks, comes within a week of it.
LEMMA WithinAWeek ==
    ASSUME NEW now \in Int, NEW t \in Int, t > now
    PROVE  \E k \in Nat : /\ t - 7 * Day * k > now
                          /\ t - 7 * Day * k <= now + Day * 7
                          /\ t - 7 * Day * k <= t
  <1> DEFINE week == 7 * Day
             gap == t - (now + 1)
             k == gap \div week
  <1>1. Day \in Nat \ {0} /\ week \in Nat \ {0} /\ gap \in Nat /\ week = Day * 7
    BY DayIsLong
  <1>2. k \in Int /\ gap % week \in 0..(week - 1) /\ gap = week * k + (gap % week)
    <2> HIDE DEF week, gap
    <2>1. gap \in Int
      BY <1>1
    <2>2. /\ gap \div week \in Int /\ gap % week \in 0..(week - 1)
          /\ gap = week * (gap \div week) + (gap % week)
      BY <1>1, <2>1, DivMod
    <2> QED
      BY <2>2
  <1>3. k \in Nat
    <2> SUFFICES ASSUME k < 0 PROVE FALSE
      BY <1>2
    <2> HIDE DEF week, gap, k
    <2>1. week * k + week <= week * 0
      BY <1>1, <1>2, TimesMore
    <2> QED
      BY <2>1, <1>1, <1>2
  <1>4. week * k \in Nat
    <2> HIDE DEF week, gap, k
    <2> QED BY <1>1, <1>3
  <1>5. 7 * Day * k = week * k
    OBVIOUS
  <1>6. gap = t - (now + 1)
    OBVIOUS
  <1>7. /\ t - week * k > now
        /\ t - week * k <= now + week
        /\ t - week * k <= t
    <2> HIDE DEF week, gap, k
    <2> QED BY <1>1, <1>2, <1>4, <1>6
  <1> HIDE DEF gap, k
  <1> QED
    BY <1>1, <1>3, <1>5, <1>7

\* What the console shows as the next start is the first instant of the next eight
\* days at which a window begins; and if there is none, no window ever begins.
THEOREM NextStartIsRight ==
    ASSUME NEW S \in SUBSET Rule, NEW now \in Nat
    PROVE  LET starts == {t \in (now + 1)..(now + 8 * Day) :
                             \E w \in Windows(S) : Begins(S, w, t)}
           IN  /\ NextStartScheduleTime(S, now) = FirstAfter(starts, now)
               /\ \A t \in Int : (t > now /\ \E w \in Windows(S) : Begins(S, w, t))
                                    => starts # {}
  <1> DEFINE starts == {t \in (now + 1)..(now + 8 * Day) :
                           \E w \in Windows(S) : Begins(S, w, t)}
             found == {t \in Int : /\ (t \div Day) - (now \div Day) \in 0..8
                                   /\ \E w \in Windows(S) : Begins(S, w, t)}
  <1>1. /\ Day \in Nat \ {0} /\ now \in Int /\ now \div Day \in Int
        /\ Day * 8 \in Int /\ 8 * Day = Day * 8 /\ Day * 7 \in Int /\ Day * 7 <= Day * 8
    <2>1. now \in Int
      OBVIOUS
    <2>2. Day \in Nat \ {0} /\ now \div Day \in Int
      BY <2>1, DayIsLong, InstantOfDay
    <2> QED
      BY <2>1, <2>2
  <1>2. NextStartScheduleTime(S, now) = FirstAfter(found, now)
    <2>1. 0..8 \in SUBSET Int
      OBVIOUS
    <2>2. {StartOf(p[1], p[2]) : p \in WindowsAt(0..8, S, now)} = found
      BY <1>1, <2>1, StartsAre
    <2> QED
      BY <2>2 DEF NextStartScheduleTime
  <1>3. ASSUME NEW t \in starts PROVE t \in found
    <2>1. t \in Int /\ now <= t /\ t <= now + Day * 8
      BY <1>1
    <2>2. now \div Day <= t \div Day /\ t \div Day <= (now \div Day) + 8 /\ t \div Day \in Int
      BY <2>1, DaysApart, InstantOfDay
    <2>3. (t \div Day) - (now \div Day) \in 0..8
      BY <1>1, <2>2
    <2> QED
      BY <2>1, <2>3
  <1>4. ASSUME NEW t \in Int, t > now, NEW w \in Windows(S), Begins(S, w, t)
        PROVE  \E u \in starts : u <= t
    <2>1. PICK k \in Nat : /\ t - 7 * Day * k > now
                           /\ t - 7 * Day * k <= now + Day * 7
                           /\ t - 7 * Day * k <= t
      BY <1>4, WithinAWeek
    <2>2. Begins(S, w, t - 7 * Day * k) /\ t - 7 * Day * k \in Int
      <3>1. k \in Int /\ t - 7 * Day * k \in Int
        BY <1>1
      <3> QED
        BY <3>1, <1>4, WeeksRepeat
    <2> DEFINE u == t - 7 * Day * k
    <2> HIDE DEF u
    <2>3. u \in (now + 1)..(now + 8 * Day) /\ u <= t
      BY <1>1, <2>1, <2>2 DEF u
    <2> QED
      BY <2>2, <2>3 DEF u
  <1>5. FirstAfter(found, now) = FirstAfter(starts, now)
    <2>1. found \in SUBSET Int /\ starts \in SUBSET Int
      BY <1>1
    <2>2. \A t \in found : t > now => \E u \in starts : u > now /\ u <= t
      BY <1>1, <1>4
    <2>3. \A u \in starts : u > now => \E t \in found : t > now /\ t <= u
      BY <1>3, <2>1
    <2> HIDE DEF found, starts
    <2> QED
      BY <2>1, <2>2, <2>3, SameFirst
  <1> QED
    BY <1>2, <1>4, <1>5

\* The boundary the loop waits for is the first instant ahead at which a window
\* begins or ends; without one, no window ever does.
THEOREM NextBoundaryIsRight ==
    ASSUME NEW S \in SUBSET Rule, NEW now \in Nat
    PROVE  LET b == NextStartScheduleBoundary(S, now)
           IN  \/ /\ b = Unset
                  /\ \A t \in Int : t > now => ~Edge(S, t)
               \/ /\ b \in Nat /\ b > now /\ Edge(S, b)
                  /\ \A t \in Int : t > now /\ t < b => ~Edge(S, t)
  <1> DEFINE begins == {t \in Int : /\ (t \div Day) - (now \div Day) \in -1..8
                                    /\ \E w \in Windows(S) : Begins(S, w, t)}
             ends == {t \in Int : \E w \in Windows(S) :
                                     /\ ((t - Length(w)) \div Day) - (now \div Day) \in -1..8
                                     /\ Begins(S, w, t - Length(w))}
             found == begins \cup ends
  <1>1. Day \in Nat \ {0} /\ now \in Int /\ now \div Day \in Int
    <2>1. now \in Int
      OBVIOUS
    <2> QED
      BY <2>1, DayIsLong, InstantOfDay
  <1>2. NextStartScheduleBoundary(S, now) = FirstAfter(found, now)
    <2>1. -1..8 \in SUBSET Int
      OBVIOUS
    <2>2. {StartOf(p[1], p[2]) : p \in WindowsAt(-1..8, S, now)} = begins
      BY <1>1, <2>1, StartsAre
    <2>3. {EndOf(p[1], p[2]) : p \in WindowsAt(-1..8, S, now)} = ends
      BY <1>1, <2>1, EndsAre
    <2> QED
      BY <2>2, <2>3 DEF NextStartScheduleBoundary
  <1>3. ASSUME NEW t \in found PROVE t \in Int /\ Edge(S, t)
    BY DEF Edge
  <1>4. ASSUME NEW t \in Int, NEW w \in Windows(S), NEW l \in 0..Day, t > now,
               Begins(S, w, t - l)
        PROVE  \E u \in Int : /\ u > now /\ u <= t /\ Begins(S, w, u - l)
                              /\ ((u - l) \div Day) - (now \div Day) \in -1..8
    <2>1. PICK k \in Nat : /\ t - 7 * Day * k > now
                           /\ t - 7 * Day * k <= now + Day * 7
                           /\ t - 7 * Day * k <= t
      BY <1>1, <1>4, WithinAWeek
    <2> DEFINE u == t - 7 * Day * k
    <2>2. k \in Int /\ u \in Int /\ t - l \in Int /\ u - l = (t - l) - 7 * Day * k
      BY <1>1
    <2>3. Begins(S, w, u - l)
      BY <1>4, <2>2, WeeksRepeat
    <2>4. u > now /\ u <= now + Day * 7 /\ u <= t
      BY <2>1
    <2> HIDE DEF u
    <2>5. u - l \in Int /\ u - l <= now + Day * 7 /\ now <= (u - l) + Day * 1
      <3>1. Day * 7 \in Int /\ Day * 1 = Day
        BY <1>1
      <3> QED
        BY <1>1, <2>2, <2>4, <3>1
    <2>6. /\ (u - l) \div Day \in Int
          /\ (u - l) \div Day <= (now \div Day) + 7
          /\ now \div Day <= ((u - l) \div Day) + 1
      <3> DEFINE x == u - l
      <3>1. x \in Int /\ x <= now + Day * 7 /\ now <= x + Day * 1
        BY <2>5
      <3> HIDE DEF x
      <3>2. x \div Day \in Int /\ x \div Day <= (now \div Day) + 7
        BY <1>1, <3>1, DaysApart, InstantOfDay
      <3>3. now \div Day <= (x \div Day) + 1
        BY <1>1, <3>1, DaysApart
      <3> QED
        BY <3>2, <3>3 DEF x
    <2>7. ((u - l) \div Day) - (now \div Day) \in -1..8
      BY <1>1, <2>6
    <2> QED
      BY <2>2, <2>3, <2>4, <2>7
  <1>5. ASSUME NEW t \in Int, t > now, Edge(S, t)
        PROVE  \E u \in found : u > now /\ u <= t
    <2>1. PICK w \in Windows(S) : Begins(S, w, t) \/ Begins(S, w, t - Length(w))
      BY <1>5 DEF Edge
    <2>2. CASE Begins(S, w, t)
      <3>1. t - 0 = t /\ 0 \in 0..Day
        BY <1>1
      <3>2. PICK u \in Int : /\ u > now /\ u <= t /\ Begins(S, w, u - 0)
                             /\ ((u - 0) \div Day) - (now \div Day) \in -1..8
        BY <1>4, <1>5, <2>2, <3>1
      <3>3. u - 0 = u
        BY <3>2
      <3>4. u \in begins
        BY <3>2, <3>3
      <3> QED
        BY <3>2, <3>4
    <2>3. CASE Begins(S, w, t - Length(w))
      <3>1. Length(w) \in 0..Day
        BY <1>1, WindowShape
      <3>2. PICK u \in Int : /\ u > now /\ u <= t /\ Begins(S, w, u - Length(w))
                             /\ ((u - Length(w)) \div Day) - (now \div Day) \in -1..8
        BY <1>4, <1>5, <2>3, <3>1
      <3>3. u \in ends
        BY <3>2
      <3> QED
        BY <3>2, <3>3
    <2> QED
      BY <2>1, <2>2, <2>3
  <1>6. found \in SUBSET Int
    BY <1>3
  <1> HIDE DEF found
  <1> DEFINE b == FirstAfter(found, now)
  <1>7. \/ b = Unset /\ \A t \in found : t <= now
        \/ b \in found /\ b \in Nat /\ b > now /\ \A t \in found : t > now => b <= t
    BY <1>6, FirstAfterIs
  <1> HIDE DEF b
  <1>8. \/ b = Unset /\ \A t \in Int : t > now => ~Edge(S, t)
        \/ /\ b \in Nat /\ b > now /\ Edge(S, b)
           /\ \A t \in Int : t > now /\ t < b => ~Edge(S, t)
    BY <1>3, <1>5, <1>6, <1>7
  <1> QED
    BY <1>2, <1>8 DEF b

-----------------------------------------------------------------------------
(* What a check is told about the schedules.                               *)

\* The condition under which the code's weekday before a Sunday does not matter: no
\* window that begins on a Saturday lasts beyond midnight.
NoSaturdayNight(S) ==
    \A r \in S : 6 \in r.weekdays => \A w \in r.windows : w[1] > w[2] => w[2] = 0

\* A window that covers an instant began on the day of the instant or the day before.
LEMMA CoveredSince ==
    ASSUME NEW S \in SUBSET Rule, NEW w \in Windows(S), NEW t \in Int
    PROVE  LET q == t \div Day
               c == t % Day
               m == w[1] * Minute
           IN  (\E age \in 0..(Length(w) - 1) : Begins(S, w, t - age))
                 <=> \/ m <= c /\ c < m + Length(w) /\ Begins(S, w, Day * q + m)
                     \/ c + Day < m + Length(w) /\ Begins(S, w, Day * (q - 1) + m)
  <1> DEFINE q == t \div Day
             c == t % Day
             m == w[1] * Minute
             l == Length(w)
  <1>1. /\ Day \in Nat \ {0} /\ q \in Int /\ c \in 0..(Day - 1) /\ t = Day * q + c
        /\ m \in 0..(Day - 1) /\ l \in 1..Day
        /\ Day * q \in Int /\ Day * (q - 1) = Day * q - Day
    <2>1. /\ Day \in Nat \ {0} /\ q \in Int /\ c \in 0..(Day - 1) /\ t = Day * q + c
          /\ m \in 0..(Day - 1) /\ l \in 1..Day
      BY DayIsLong, InstantOfDay, WindowShape
    <2>2. Day * q \in Int /\ Day * (q - 1) = Day * q - Day
      <3> HIDE DEF q
      <3> QED BY <2>1
    <2> QED
      BY <2>1, <2>2
  <1> HIDE DEF q, c, m, l
  <1>2. ASSUME NEW age \in 0..(l - 1), Begins(S, w, t - age)
        PROVE  \/ m <= c /\ c < m + l /\ Begins(S, w, Day * q + m)
               \/ c + Day < m + l /\ Begins(S, w, Day * (q - 1) + m)
    <2> DEFINE p == (t - age) \div Day
    <2>1. t - age \in Int
      BY <1>1
    <2>2. t - age = Day * p + m /\ p \in Int
      BY <1>2, <2>1, BeginsAt, InstantOfDay DEF m
    <2>3. Begins(S, w, Day * p + m)
      BY <1>2, <2>2
    <2> HIDE DEF p
    <2>4. ~(q < p)
      <3> SUFFICES ASSUME q < p PROVE FALSE
        OBVIOUS
      <3>1. Day * q + Day <= Day * p /\ Day * p \in Int
        BY <1>1, <2>2, TimesMore
      <3> QED
        BY <1>1, <2>2, <3>1
    <2>5. ~(p < q - 1)
      <3> SUFFICES ASSUME p < q - 1 PROVE FALSE
        OBVIOUS
      <3>1. q - 1 \in Int
        BY <1>1
      <3>2. Day * p + Day <= Day * (q - 1) /\ Day * p \in Int
        BY <1>1, <2>2, <3>1, TimesMore
      <3> QED
        BY <1>1, <2>2, <3>2
    <2>6. p = q \/ p = q - 1
      BY <1>1, <2>2, <2>4, <2>5
    <2>7. CASE p = q
      BY <1>1, <2>2, <2>3, <2>7
    <2>8. CASE p = q - 1
      <3>1. t - age = Day * (q - 1) + m /\ Begins(S, w, Day * (q - 1) + m)
        BY <2>2, <2>3, <2>8
      <3>2. t - age = Day * q - Day + m
        BY <1>1, <3>1
      <3> QED
        BY <1>1, <3>1, <3>2
    <2> QED
      BY <2>6, <2>7, <2>8
  <1>3. ASSUME m <= c, c < m + l, Begins(S, w, Day * q + m)
        PROVE  \E age \in 0..(l - 1) : Begins(S, w, t - age)
    <2>1. c - m \in 0..(l - 1) /\ t - (c - m) = Day * q + m
      BY <1>1, <1>3
    <2> QED
      BY <1>3, <2>1
  <1>4. ASSUME c + Day < m + l, Begins(S, w, Day * (q - 1) + m)
        PROVE  \E age \in 0..(l - 1) : Begins(S, w, t - age)
    <2>1. c + Day - m \in 0..(l - 1)
      BY <1>1, <1>4
    <2>2. t - (c + Day - m) = Day * (q - 1) + m
      BY <1>1
    <2> QED
      BY <1>4, <2>1, <2>2
  <1> QED
    BY <1>2, <1>3, <1>4 DEF q, c, m, l

\* A window lies on a minute of the day it begins on, or of the day after.
HereToday(w, minute) ==
    \/ /\ w[1] < w[2] /\ w[1] <= minute /\ minute < w[2]
    \/ /\ w[1] > w[2] /\ w[1] <= minute
SinceYesterday(w, minute) == w[1] > w[2] /\ minute < w[2]

\* The instants the rules cover, by their day and their minute.
LEMMA CoveredIs ==
    ASSUME NEW S \in SUBSET Rule, NEW now \in Int
    PROVE  LET q == now \div Day
               cur == (now % Day) \div Minute
           IN  Covered(S, now) <=>
                  \E r \in S : \E w \in r.windows :
                      \/ HereToday(w, cur) /\ IsoWeekday(q) \in r.weekdays
                      \/ SinceYesterday(w, cur) /\ IsoWeekday(q - 1) \in r.weekdays
  <1> DEFINE q == now \div Day
             c == now % Day
             cur == c \div Minute
             here(w) == HereToday(w, cur)
             past(w) == SinceYesterday(w, cur)
             true(r, w) == \/ here(w) /\ IsoWeekday(q) \in r.weekdays
                           \/ past(w) /\ IsoWeekday(q - 1) \in r.weekdays
  <1>1. /\ Day \in Nat \ {0} /\ q \in Int /\ q - 1 \in Int /\ c \in 0..(Day - 1)
        /\ c \in Nat /\ cur \in Int
    <2>1. Day \in Nat \ {0} /\ q \in Int /\ c \in 0..(Day - 1)
      BY DayIsLong, InstantOfDay
    <2>2. q - 1 \in Int /\ c \in Nat
      BY <2>1
    <2>3. cur \in Int
      <3> HIDE DEF c
      <3> QED BY <2>2, MinuteOfDay, ClockAssumption
    <2> QED
      BY <2>1, <2>2, <2>3
  <1>2. ASSUME NEW w \in Windows(S)
        PROVE  (\E age \in 0..(Length(w) - 1) : Begins(S, w, now - age))
                  <=> \E r \in S : w \in r.windows /\ true(r, w)
    <2> DEFINE m == w[1] * Minute
               n == w[2] * Minute
    <2>1. /\ w[1] \in Int /\ w[2] \in Int /\ w[1] # w[2]
          /\ m \in 0..(Day - 1) /\ n \in 0..Day
          /\ w[1] < w[2] => Length(w) = n - m
          /\ w[1] > w[2] => Length(w) = n - m + Day
      BY WindowShape, ClockAssumption
    <2>2. /\ w[1] <= cur <=> m <= c
          /\ cur < w[2] <=> c < n
      <3> HIDE DEF c
      <3> QED BY <1>1, <2>1, MinuteOfDay
    <2>3. m <= c /\ c < m + Length(w) <=> here(w)
      <3> HIDE DEF m, n, c, cur
      <3> QED BY <1>1, <2>1, <2>2 DEF HereToday, SinceYesterday
    <2>4. c + Day < m + Length(w) <=> past(w)
      <3> HIDE DEF m, n, c, cur
      <3> QED BY <1>1, <2>1, <2>2 DEF HereToday, SinceYesterday
    <2>5. (\E age \in 0..(Length(w) - 1) : Begins(S, w, now - age))
             <=> \/ m <= c /\ c < m + Length(w) /\ Begins(S, w, Day * q + m)
                 \/ c + Day < m + Length(w) /\ Begins(S, w, Day * (q - 1) + m)
      BY CoveredSince
    <2>6. /\ Begins(S, w, Day * q + m)
               <=> \E r \in S : w \in r.windows /\ IsoWeekday(q) \in r.weekdays
          /\ Begins(S, w, Day * (q - 1) + m)
               <=> \E r \in S : w \in r.windows /\ IsoWeekday(q - 1) \in r.weekdays
      <3> HIDE DEF q
      <3> QED BY <1>1, BeginsOnDay
    <2> HIDE DEF m, c, q, here, past
    <2> QED
      BY <2>3, <2>4, <2>5, <2>6
  <1>3. Covered(S, now) <=> \E r \in S : \E w \in r.windows : true(r, w)
    <2>1. Covered(S, now) <=> \E w \in Windows(S) : \E r \in S : w \in r.windows /\ true(r, w)
      <3> HIDE DEF true
      <3> QED BY <1>2 DEF Covered
    <2> HIDE DEF true
    <2> QED
      BY <2>1 DEF Windows
  <1> QED
    BY <1>3

\* The weekday the code takes for the day before: right but for a Sunday, for which
\* it finds no rule at all.
LEMMA DayBefore ==
    ASSUME NEW q \in Int, NEW days \in SUBSET (1..7)
    PROVE  stopWeekdaySelected(days, previousWeekday(q % 7))
              <=> IsoWeekday(q - 1) \in days /\ IsoWeekday(q - 1) # 6
  <1>1. q % 7 \in 0..6
    OBVIOUS
  <1>2. IsoWeekday(q - 1) = IF q % 7 = 0 THEN 6 ELSE IF q % 7 = 1 THEN 7 ELSE (q % 7) - 1
    BY DEF IsoWeekday
  <1>3. -1 \notin days
    OBVIOUS
  <1> HIDE DEF IsoWeekday
  <1> QED
    BY <1>1, <1>2, <1>3 DEF stopWeekdaySelected, previousWeekday

\* A check is told that the instance is to run at the instants the rules cover, but
\* for the part of a window after a Saturday's midnight.
THEOREM WithinIsCovered ==
    ASSUME NEW S \in SUBSET Rule, NEW now \in Int
    PROVE  /\ withinStartSchedule(S, now) => Covered(S, now)
           /\ NoSaturdayNight(S) => (withinStartSchedule(S, now) <=> Covered(S, now))
  <1> DEFINE q == now \div Day
             c == now % Day
             cur == c \div Minute
             here(w) == HereToday(w, cur)
             past(w) == SinceYesterday(w, cur)
             told(r, w) == \/ here(w) /\ IsoWeekday(q) \in r.weekdays
                           \/ past(w) /\ IsoWeekday(q - 1) \in r.weekdays
                                      /\ IsoWeekday(q - 1) # 6
             true(r, w) == \/ here(w) /\ IsoWeekday(q) \in r.weekdays
                           \/ past(w) /\ IsoWeekday(q - 1) \in r.weekdays
  <1>1. /\ Day \in Nat \ {0} /\ q \in Int /\ q - 1 \in Int /\ c \in 0..(Day - 1)
        /\ c \in Nat /\ cur \in Int /\ cur >= 0
    <2>1. Day \in Nat \ {0} /\ q \in Int /\ c \in 0..(Day - 1)
      BY DayIsLong, InstantOfDay
    <2>2. q - 1 \in Int /\ c \in Nat
      BY <2>1
    <2>3. cur \in Int /\ (0 <= cur <=> 0 * Minute <= c) /\ 0 * Minute = 0
      <3> HIDE DEF c
      <3> QED BY <2>2, MinuteOfDay, ClockAssumption
    <2> QED
      BY <2>1, <2>2, <2>3
  <1>2. ASSUME NEW r \in S, NEW w \in r.windows
        PROVE  /\ w \in Windows(S) /\ r.weekdays \in SUBSET (1..7)
               /\ w[1] \in Int /\ w[2] \in Int /\ w[1] \in Nat /\ w[2] \in Nat
    <2>1. w \in Windows(S) /\ r.weekdays \in SUBSET (1..7)
      BY DEF Windows, Rule
    <2> QED
      BY <2>1, WindowShape, ClockAssumption
  <1>3. withinStartSchedule(S, now) <=> \E r \in S : \E w \in r.windows : told(r, w)
    <2>1. ASSUME NEW r \in S, NEW w \in r.windows
          PROVE  told(r, w)
                   <=> \/ w[1] < w[2] /\ cur \in w[1]..(w[2] - 1)
                                      /\ stopWeekdaySelected(r.weekdays, q % 7)
                       \/ w[1] > w[2] /\ cur >= w[1]
                                      /\ stopWeekdaySelected(r.weekdays, q % 7)
                       \/ w[1] > w[2] /\ cur < w[2]
                                      /\ stopWeekdaySelected(r.weekdays, previousWeekday(q % 7))
      <3>1. stopWeekdaySelected(r.weekdays, q % 7) <=> IsoWeekday(q) \in r.weekdays
        <4> HIDE DEF q
        <4> QED BY <1>1, WeekdayIsIso DEF stopWeekdaySelected
      <3>2. stopWeekdaySelected(r.weekdays, previousWeekday(q % 7))
               <=> IsoWeekday(q - 1) \in r.weekdays /\ IsoWeekday(q - 1) # 6
        <4> HIDE DEF q
        <4> QED BY <1>1, <1>2, DayBefore
      <3>3. w[1] \in Int /\ w[2] \in Int /\ cur \in Int
        BY <1>1, <1>2
      <3> HIDE DEF cur, q
      <3> QED
        BY <3>1, <3>2, <3>3 DEF HereToday, SinceYesterday
    <2> HIDE DEF told
    <2> QED
      BY <2>1 DEF withinStartSchedule, Weekday
  <1>5. Covered(S, now) <=> \E r \in S : \E w \in r.windows : true(r, w)
    BY CoveredIs
  <1>6. ASSUME NoSaturdayNight(S), NEW r \in S, NEW w \in r.windows, true(r, w)
        PROVE  told(r, w)
    <2>1. CASE past(w) /\ IsoWeekday(q - 1) \in r.weekdays
      <3>1. ~(IsoWeekday(q - 1) = 6)
        <4> SUFFICES ASSUME IsoWeekday(q - 1) = 6 PROVE FALSE
          OBVIOUS
        <4>1. w[1] > w[2] /\ cur < w[2] /\ 6 \in r.weekdays
          BY <2>1 DEF SinceYesterday
        <4>2. w[2] = 0
          BY <1>6, <4>1 DEF NoSaturdayNight
        <4> QED
          BY <1>1, <4>1, <4>2
      <3> QED
        BY <2>1, <3>1
    <2> QED
      BY <1>6, <2>1
  <1>7. ASSUME NEW r \in S, NEW w \in r.windows, told(r, w)
        PROVE  true(r, w)
    BY <1>7
  <1> HIDE DEF told, true
  <1> QED
    BY <1>3, <1>5, <1>6, <1>7

\* Between two instants of which the rules cover one, a window begins or ends.
THEOREM CoveredChangesAtEdges ==
    ASSUME NEW S \in SUBSET Rule, NEW t \in Int, NEW u \in Int, t < u,
           ~(Covered(S, t) <=> Covered(S, u))
    PROVE  \E e \in (t + 1)..u : Edge(S, e)
  <1>1. CASE Covered(S, t) /\ ~Covered(S, u)
    <2>1. PICK w \in Windows(S) :
             \E age \in 0..(Length(w) - 1) : Begins(S, w, t - age)
      BY <1>1 DEF Covered
    <2>2. PICK age \in 0..(Length(w) - 1) : Begins(S, w, t - age)
      BY <2>1
    <2>3. Length(w) \in Nat
      BY DayIsLong, WindowShape
    <2> DEFINE e == (t - age) + Length(w)
    <2>4. u - (t - age) \notin 0..(Length(w) - 1)
      <3>1. u - (u - (t - age)) = t - age
        BY <2>3
      <3> QED
        BY <1>1, <2>2, <3>1 DEF Covered
    <2>5. e \in (t + 1)..u /\ e - Length(w) = t - age
      BY <2>3, <2>4
    <2> QED
      BY <2>2, <2>5 DEF Edge
  <1>2. CASE ~Covered(S, t) /\ Covered(S, u)
    <2>1. PICK w \in Windows(S) :
             \E age \in 0..(Length(w) - 1) : Begins(S, w, u - age)
      BY <1>2 DEF Covered
    <2>2. PICK age \in 0..(Length(w) - 1) : Begins(S, w, u - age)
      BY <2>1
    <2>3. Length(w) \in Nat
      BY DayIsLong, WindowShape
    <2>4. t - (u - age) \notin 0..(Length(w) - 1)
      <3>1. t - (t - (u - age)) = u - age
        BY <2>3
      <3> QED
        BY <1>2, <2>2, <3>1 DEF Covered
    <2>5. u - age \in (t + 1)..u
      BY <2>3, <2>4
    <2> QED
      BY <2>2, <2>5 DEF Edge
  <1> QED
    BY <1>1, <1>2
=============================================================================
