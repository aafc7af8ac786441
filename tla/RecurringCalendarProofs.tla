---------------------- MODULE RecurringCalendarProofs ----------------------
(***************************************************************************)
(* Proofs about RecurringCalendar, for any recurring day, times, leap      *)
(* years and ticks of a day: the types; that payAt is on its day; that no  *)
(* month is skipped or paid twice; and that the guard on the last success  *)
(* is over in time for the next payment, and not before this one's         *)
(* validity is.  The last needs validities of less than half a month.      *)
(*                                                                         *)
(* First the calendar itself: that each month starts where the one before  *)
(* it ends, so that a day is in one month, and that the recurring days of  *)
(* consecutive months are at least four weeks apart.                       *)
(***************************************************************************)
EXTENDS RecurringCalendar, FiniteSetTheorems, WellFoundedInduction, TLAPS

----------------------------------------------------------------------------
(* Numbers.                                                                *)

\* A set of numbers has a least one.
LEMMA LeastNat ==
  ASSUME NEW S \in SUBSET Nat, S # {}
  PROVE  \E m \in S : \A n \in S : m <= n
<1> DEFINE R == OpToRel(<, Nat)
<1>1. IsWellFoundedOn(R, Nat)
  BY NatLessThanWellFounded
<1>2. R = {ss \in Nat \X Nat : ss[1] < ss[2]}
  BY DEF OpToRel
<1> HIDE DEF R
<1>3. PICK m \in S : \A n \in S : ~(<<n, m>> \in R)
  BY <1>1, WFMin
<1>4. ASSUME NEW n \in S PROVE m <= n
  <2>1. <<n, m>> \in Nat \X Nat /\ <<n, m>> \notin R
    BY <1>3
  <2>2. ~(<<n, m>>[1] < <<n, m>>[2])
    BY <1>2, <2>1
  <2>3. ~(n < m)
    BY <2>2
  <2> QED BY <2>3
<1> QED BY <1>4

LEMMA TicksOfDays ==
  ASSUME NEW a \in Int, NEW b \in Int, a <= b
  PROVE  /\ a * TicksInDay \in Int /\ b * TicksInDay \in Int /\ a * TicksInDay <= b * TicksInDay
         /\ (b - a) * TicksInDay = b * TicksInDay - a * TicksInDay /\ (a + b) * TicksInDay = a * TicksInDay + b * TicksInDay
<1>1. TicksInDay \in Nat \ {0}
  BY CalendarAssumption
<1>2. b - a \in Nat
  OBVIOUS
<1>3. (b - a) * TicksInDay \in Nat
  BY <1>1, <1>2
<1>4. (b - a) * TicksInDay = b * TicksInDay - a * TicksInDay
  BY <1>1
<1> QED BY <1>1, <1>3, <1>4

\* The day and the time of day of an instant.
LEMMA DayAndTime ==
  ASSUME NEW t \in Nat
  PROVE  /\ t \div TicksInDay \in Nat /\ t % TicksInDay \in Nat /\ t % TicksInDay < TicksInDay
         /\ t = (t \div TicksInDay) * TicksInDay + (t % TicksInDay)
<1>1. TicksInDay \in Nat \ {0}
  BY CalendarAssumption
<1> QED BY <1>1

LEMMA InstantOf ==
  ASSUME NEW d \in Nat, NEW time \in Nat, time < TicksInDay
  PROVE  /\ d * TicksInDay + time \in Nat
         /\ (d * TicksInDay + time) \div TicksInDay = d /\ (d * TicksInDay + time) % TicksInDay = time
<1>1. TicksInDay \in Nat \ {0} /\ d * TicksInDay \in Nat
  BY CalendarAssumption
<1>2. PICK t \in Nat : t = d * TicksInDay + time
  BY <1>1
<1>3. PICK q \in Nat, r \in Nat : /\ q = t \div TicksInDay /\ r = t % TicksInDay /\ r < TicksInDay
                                  /\ t = q * TicksInDay + r
  BY DayAndTime
<1>4. q * TicksInDay \in Nat
  BY <1>1
<1>5. ~(q < d)
  <2> SUFFICES ASSUME q < d PROVE FALSE
    OBVIOUS
  <2>1. (q + 1) * TicksInDay <= d * TicksInDay
    BY TicksOfDays
  <2>2. (q + 1) * TicksInDay = q * TicksInDay + TicksInDay
    BY <1>1
  <2> QED BY <1>1, <1>2, <1>3, <1>4, <2>1, <2>2
<1>6. ~(d < q)
  <2> SUFFICES ASSUME d < q PROVE FALSE
    OBVIOUS
  <2>1. (d + 1) * TicksInDay <= q * TicksInDay
    BY TicksOfDays
  <2>2. (d + 1) * TicksInDay = d * TicksInDay + TicksInDay
    BY <1>1
  <2> QED BY <1>1, <1>2, <1>3, <1>4, <2>1, <2>2
<1>7. q = d
  BY <1>5, <1>6
<1> QED BY <1>1, <1>2, <1>3, <1>4, <1>7

\* An instant of an earlier day is earlier.
LEMMA EarlierDay ==
  ASSUME NEW t \in Nat, NEW u \in Nat, t \div TicksInDay < u \div TicksInDay
  PROVE  t < u
<1>1. TicksInDay \in Nat \ {0} /\ t \div TicksInDay \in Nat /\ u \div TicksInDay \in Nat
  BY CalendarAssumption, DayAndTime
<1>2. (t \div TicksInDay + 1) * TicksInDay <= (u \div TicksInDay) * TicksInDay
  BY <1>1, TicksOfDays
<1>3. (t \div TicksInDay + 1) * TicksInDay = (t \div TicksInDay) * TicksInDay + TicksInDay
  BY <1>1
<1>4. (t \div TicksInDay) * TicksInDay \in Nat /\ (u \div TicksInDay) * TicksInDay \in Nat
  BY <1>1
<1>5. /\ t = (t \div TicksInDay) * TicksInDay + (t % TicksInDay) /\ t % TicksInDay < TicksInDay /\ t % TicksInDay \in Nat
      /\ u = (u \div TicksInDay) * TicksInDay + (u % TicksInDay) /\ u % TicksInDay \in Nat
  BY DayAndTime
<1> QED BY <1>1, <1>2, <1>3, <1>4, <1>5

----------------------------------------------------------------------------
(* Months.                                                                 *)

LeapsBefore(m) == {l \in LeapMonths : l < m}

LEMMA Tables ==
  ASSUME NEW r \in 0..11
  PROVE  /\ DaysBefore[r + 1] \in Nat /\ DaysBefore[r + 1] <= 334
         /\ LengthOf[r + 1] \in 28..31
         /\ r = 1 => LengthOf[r + 1] = 28
         /\ r < 11 => DaysBefore[r + 2] = DaysBefore[r + 1] + LengthOf[r + 1]
         /\ r = 11 => DaysBefore[r + 1] + LengthOf[r + 1] = 365
         /\ DaysBefore[1] = 0
<1>1. \/ r = 0 \/ r = 1 \/ r = 2 \/ r = 3 \/ r = 4 \/ r = 5 \/ r = 6 \/ r = 7
      \/ r = 8 \/ r = 9 \/ r = 10 \/ r = 11
  OBVIOUS
<1> QED BY <1>1 DEF DaysBefore, LengthOf

LEMMA TableGrows ==
  ASSUME NEW r \in 0..11, NEW s \in 0..11, r <= s
  PROVE  DaysBefore[r + 1] <= DaysBefore[s + 1]
<1>1. \/ r = 0 \/ r = 1 \/ r = 2 \/ r = 3 \/ r = 4 \/ r = 5 \/ r = 6 \/ r = 7
      \/ r = 8 \/ r = 9 \/ r = 10 \/ r = 11
  OBVIOUS
<1>2. \/ s = 0 \/ s = 1 \/ s = 2 \/ s = 3 \/ s = 4 \/ s = 5 \/ s = 6 \/ s = 7
      \/ s = 8 \/ s = 9 \/ s = 10 \/ s = 11
  OBVIOUS
<1> QED BY <1>1, <1>2 DEF DaysBefore

LEMMA Leaps ==
  ASSUME NEW m \in Nat
  PROVE  /\ Cardinality(LeapsBefore(m)) \in Nat
         /\ \A n \in Nat : m <= n => Cardinality(LeapsBefore(m)) <= Cardinality(LeapsBefore(n))
         /\ Cardinality(LeapsBefore(m + 1)) =
              Cardinality(LeapsBefore(m)) + (IF m \in LeapMonths THEN 1 ELSE 0)
         /\ Cardinality(LeapsBefore(0)) = 0
<1>1. \A l \in LeapMonths : l \in Nat /\ l <= LastMonth
  BY CalendarAssumption
<1>2. IsFiniteSet(LeapMonths)
  <2>1. IsFiniteSet(0..LastMonth)
    BY CalendarAssumption, FS_Interval
  <2>2. LeapMonths \subseteq 0..LastMonth
    BY CalendarAssumption
  <2> QED BY <2>1, <2>2, FS_Subset
<1>3. \A n : IsFiniteSet(LeapsBefore(n))
  <2>1. \A n : LeapsBefore(n) \subseteq LeapMonths
    BY DEF LeapsBefore
  <2> QED BY <1>2, <2>1, FS_Subset
<1>4. \A n : Cardinality(LeapsBefore(n)) \in Nat
  BY <1>3, FS_CardinalityType
<1>5. ASSUME NEW n \in Nat, m <= n
      PROVE  Cardinality(LeapsBefore(m)) <= Cardinality(LeapsBefore(n))
  <2>1. \A l \in LeapMonths : l < m => l < n
    BY <1>1, <1>5
  <2>2. LeapsBefore(m) \subseteq LeapsBefore(n)
    BY <2>1 DEF LeapsBefore
  <2> QED BY <1>3, <2>2, FS_Subset
<1>6. Cardinality(LeapsBefore(0)) = 0
  <2>1. \A l \in LeapMonths : ~(l < 0)
    BY <1>1
  <2>2. LeapsBefore(0) = {}
    BY <2>1 DEF LeapsBefore
  <2> QED BY <2>2, FS_EmptySet
<1>7. \A l \in LeapMonths : l < m + 1 <=> l < m \/ l = m
  BY <1>1
<1>8. CASE m \in LeapMonths
  <2>1. \A l : l \in LeapsBefore(m + 1) <=> l \in LeapsBefore(m) \/ l = m
    BY <1>7, <1>8 DEF LeapsBefore
  <2>2. LeapsBefore(m + 1) = LeapsBefore(m) \cup {m}
    BY <2>1
  <2>3. m \notin LeapsBefore(m)
    BY DEF LeapsBefore
  <2>4. Cardinality(LeapsBefore(m + 1)) = Cardinality(LeapsBefore(m)) + 1
    BY <1>3, <2>2, <2>3, FS_AddElement
  <2> QED BY <1>4, <1>5, <1>6, <1>8, <2>4
<1>9. CASE m \notin LeapMonths
  <2>1. \A l : l \in LeapsBefore(m + 1) <=> l \in LeapsBefore(m)
    BY <1>7, <1>9 DEF LeapsBefore
  <2>2. LeapsBefore(m + 1) = LeapsBefore(m)
    BY <2>1
  <2>3. Cardinality(LeapsBefore(m + 1)) = Cardinality(LeapsBefore(m)) + 0
    BY <1>4, <2>2
  <2> QED BY <1>4, <1>5, <1>6, <1>9, <2>3
<1> QED BY <1>8, <1>9

LEMMA YearAndMonth ==
  ASSUME NEW m \in Nat
  PROVE  /\ m \div 12 \in Nat /\ m % 12 \in 0..11
         /\ m % 12 < 11 => (m + 1) \div 12 = m \div 12 /\ (m + 1) % 12 = (m % 12) + 1
         /\ m % 12 = 11 => (m + 1) \div 12 = m \div 12 + 1 /\ (m + 1) % 12 = 0
OBVIOUS

\* A month is followed by the next.
LEMMA NextMonth ==
  ASSUME NEW m \in Nat
  PROVE  /\ FirstOf(m) \in Nat /\ DaysInMonth(m) \in 28..31
         /\ FirstOf(m + 1) = FirstOf(m) + DaysInMonth(m)
<1>1. PICK y \in Nat, r \in 0..11 :
        /\ y = m \div 12 /\ r = m % 12
        /\ r < 11 => (m + 1) \div 12 = y /\ (m + 1) % 12 = r + 1
        /\ r = 11 => (m + 1) \div 12 = y + 1 /\ (m + 1) % 12 = 0
  BY YearAndMonth
<1>2. PICK c \in Nat :
        /\ c = Cardinality(LeapsBefore(m))
        /\ Cardinality(LeapsBefore(m + 1)) = c + (IF m \in LeapMonths THEN 1 ELSE 0)
  BY Leaps
<1>3. m \in LeapMonths => r = 1
  BY <1>1, CalendarAssumption
<1>4. /\ DaysBefore[r + 1] \in Nat /\ LengthOf[r + 1] \in 28..31
      /\ r = 1 => LengthOf[r + 1] = 28 /\ DaysBefore[1] = 0
      /\ r < 11 => DaysBefore[r + 2] = DaysBefore[r + 1] + LengthOf[r + 1]
      /\ r = 11 => DaysBefore[r + 1] + LengthOf[r + 1] = 365
      /\ DaysBefore[1] = 0
  BY Tables
<1>5. FirstOf(m) = 365 * y + DaysBefore[r + 1] + c
  BY <1>1, <1>2 DEF FirstOf, LeapsBefore
<1>6. DaysInMonth(m) = LengthOf[r + 1] + (IF m \in LeapMonths THEN 1 ELSE 0)
  BY <1>1, <1>3, <1>4 DEF DaysInMonth
<1>7. FirstOf(m + 1) = 365 * ((m + 1) \div 12) + DaysBefore[((m + 1) % 12) + 1]
                         + (c + (IF m \in LeapMonths THEN 1 ELSE 0))
  BY <1>2 DEF FirstOf, LeapsBefore
<1>8. CASE r < 11
  <2>1. FirstOf(m + 1) = 365 * y + DaysBefore[r + 2] + (c + (IF m \in LeapMonths THEN 1 ELSE 0))
    BY <1>1, <1>7, <1>8
  <2> QED BY <1>3, <1>4, <1>5, <1>6, <1>8, <2>1
<1>9. CASE r = 11
  <2>1. FirstOf(m + 1) = 365 * (y + 1) + 0 + c /\ m \notin LeapMonths
    BY <1>1, <1>3, <1>4, <1>7, <1>9
  <2> QED BY <1>4, <1>5, <1>6, <1>9, <2>1
<1> QED BY <1>8, <1>9

\* Months are in order.
LEMMA MonthsInOrder ==
  ASSUME NEW m \in Nat, NEW n \in Nat, m <= n
  PROVE  FirstOf(m) <= FirstOf(n) /\ FirstOf(0) = 0
<1>1. /\ m \div 12 \in Nat /\ m % 12 \in 0..11 /\ n \div 12 \in Nat /\ n % 12 \in 0..11
      /\ m \div 12 < n \div 12 \/ (m \div 12 = n \div 12 /\ m % 12 <= n % 12)
  OBVIOUS
<1>2. /\ DaysBefore[(m % 12) + 1] \in Nat /\ DaysBefore[(m % 12) + 1] <= 334
      /\ DaysBefore[(n % 12) + 1] \in Nat
      /\ m % 12 <= n % 12 => DaysBefore[(m % 12) + 1] <= DaysBefore[(n % 12) + 1]
  BY <1>1, Tables, TableGrows
<1>3. /\ Cardinality(LeapsBefore(m)) \in Nat /\ Cardinality(LeapsBefore(n)) \in Nat
      /\ Cardinality(LeapsBefore(m)) <= Cardinality(LeapsBefore(n))
      /\ Cardinality(LeapsBefore(0)) = 0
  BY Leaps
<1>4. FirstOf(m) <= FirstOf(n)
  BY <1>1, <1>2, <1>3 DEF FirstOf, LeapsBefore
<1>5. 0 \div 12 = 0 /\ 0 % 12 = 0
  OBVIOUS
<1>6. DaysBefore[0 + 1] = 0
  BY Tables
<1> QED BY <1>3, <1>4, <1>5, <1>6 DEF FirstOf, LeapsBefore

\* Each day of the calendar is in a month.
LEMMA SomeMonth ==
  ASSUME NEW t \in Nat, t \div TicksInDay < FirstOf(LastMonth + 1)
  PROVE  /\ MonthOf(t) \in 0..LastMonth
         /\ FirstOf(MonthOf(t)) <= t \div TicksInDay /\ t \div TicksInDay < FirstOf(MonthOf(t) + 1)
<1>1. PICK d \in Nat : d = t \div TicksInDay
  BY DayAndTime
<1> DEFINE S == {n \in Nat : d < FirstOf(n + 1)}
<1>2. S \in SUBSET Nat /\ LastMonth \in S /\ LastMonth \in Nat
  BY <1>1, CalendarAssumption
<1>3. PICK m \in S : \A n \in S : m <= n
  BY <1>2, LeastNat
<1>4. m \in 0..LastMonth
  BY <1>2, <1>3
<1>5. FirstOf(m) <= d
  <2>1. CASE m = 0
    BY <2>1, MonthsInOrder
  <2>2. CASE m # 0
    <3>1. m - 1 \in Nat /\ m - 1 \notin S /\ (m - 1) + 1 = m
      BY <1>3, <1>4, <2>2
    <3>2. FirstOf(m) \in Nat
      BY <1>4, NextMonth
    <3> QED BY <3>1, <3>2
  <2> QED BY <2>1, <2>2
<1>6. \E n \in 0..LastMonth : FirstOf(n) <= t \div TicksInDay /\ t \div TicksInDay < FirstOf(n + 1)
  BY <1>1, <1>3, <1>4, <1>5
<1> QED BY <1>6 DEF MonthOf

\* ... and in one only.
LEMMA OneMonth ==
  ASSUME NEW t \in Nat, NEW m \in 0..LastMonth,
         FirstOf(m) <= t \div TicksInDay, t \div TicksInDay < FirstOf(m + 1)
  PROVE  MonthOf(t) = m
<1>1. PICK d \in Nat : d = t \div TicksInDay
  BY DayAndTime
<1>2. LastMonth \in Nat /\ m \in Nat /\ m + 1 <= LastMonth + 1
  BY CalendarAssumption
<1>3. FirstOf(m) \in Nat /\ FirstOf(m + 1) \in Nat /\ FirstOf(LastMonth + 1) \in Nat
  BY <1>2, NextMonth
<1>4. FirstOf(m + 1) <= FirstOf(LastMonth + 1)
  BY <1>2, MonthsInOrder
<1>5. PICK n \in 0..LastMonth : n = MonthOf(t) /\ FirstOf(n) <= d /\ d < FirstOf(n + 1)
  BY <1>1, <1>3, <1>4, SomeMonth
<1>6. n \in Nat /\ FirstOf(n) \in Nat /\ FirstOf(n + 1) \in Nat
  BY <1>5, NextMonth
<1>7. n + 1 <= m => FirstOf(n + 1) <= FirstOf(m)
  BY <1>2, <1>6, MonthsInOrder
<1>8. m + 1 <= n => FirstOf(m + 1) <= FirstOf(n)
  BY <1>2, <1>6, MonthsInOrder
<1> QED BY <1>1, <1>2, <1>3, <1>5, <1>6, <1>7, <1>8

----------------------------------------------------------------------------
(* Recurring days.                                                         *)

\* OnDay for the recurring day d.
RecurringDay(d, m, t) == Instant(m, Least(d, DaysInMonth(m)), t % TicksInDay)

LEMMA InItsMonth ==
  ASSUME NEW d \in 1..31, NEW m \in Nat, NEW t \in Nat
  PROVE  /\ RecurringDay(d, m, t) \in Nat
         /\ RecurringDay(d, m, t) \div TicksInDay = FirstOf(m) + Least(d, DaysInMonth(m)) - 1
         /\ RecurringDay(d, m, t) % TicksInDay = t % TicksInDay
         /\ FirstOf(m) <= RecurringDay(d, m, t) \div TicksInDay
         /\ RecurringDay(d, m, t) \div TicksInDay < FirstOf(m + 1)
         /\ m <= LastMonth =>
              /\ MonthOf(RecurringDay(d, m, t)) = m
              /\ DateOf(RecurringDay(d, m, t)) = Least(d, DaysInMonth(m))
<1>1. PICK n \in 28..31, f \in Nat :
        n = DaysInMonth(m) /\ f = FirstOf(m) /\ FirstOf(m + 1) = f + n
  BY NextMonth
<1>2. PICK k \in 1..31 : k = Least(d, DaysInMonth(m)) /\ k <= n
  BY <1>1 DEF Least
<1>3. PICK r \in Nat : r = t % TicksInDay /\ r < TicksInDay
  BY DayAndTime
<1>4. f + k - 1 \in Nat
  BY <1>1, <1>2
<1>5. PICK u : u = RecurringDay(d, m, t)
  OBVIOUS
<1>6. u = (f + k - 1) * TicksInDay + r
  BY <1>1, <1>2, <1>3, <1>5 DEF RecurringDay, Instant
<1>7. u \in Nat /\ u \div TicksInDay = f + k - 1 /\ u % TicksInDay = r
  BY <1>3, <1>4, <1>6, InstantOf
<1>8. f <= f + k - 1 /\ f + k - 1 < f + n
  BY <1>1, <1>2
<1>9. m <= LastMonth => MonthOf(u) = m
  <2> SUFFICES ASSUME m <= LastMonth PROVE MonthOf(u) = m
    OBVIOUS
  <2>1. m \in 0..LastMonth
    BY CalendarAssumption
  <2> QED BY <1>1, <1>7, <1>8, <2>1, OneMonth
<1>10. m <= LastMonth => DateOf(u) = k
  <2> SUFFICES ASSUME m <= LastMonth PROVE DateOf(u) = k
    OBVIOUS
  <2>1. DateOf(u) = (f + k - 1) - f + 1
    BY <1>1, <1>7, <1>9 DEF DateOf
  <2> QED BY <1>1, <1>2, <2>1
<1> QED BY <1>1, <1>2, <1>3, <1>5, <1>7, <1>8, <1>9, <1>10

\* Two months' recurring days are 28 days apart, at the least.
LEMMA FourWeeks ==
  ASSUME NEW d \in 1..31, NEW m \in Nat, NEW t \in Nat
  PROVE  RecurringDay(d, m, t) + 28 * TicksInDay <= RecurringDay(d, m + 1, t)
<1>1. PICK n \in 28..31, f \in Nat :
        n = DaysInMonth(m) /\ f = FirstOf(m) /\ FirstOf(m + 1) = f + n
  BY NextMonth
<1>2. PICK p \in 28..31 : p = DaysInMonth(m + 1)
  BY NextMonth
<1>3. PICK k \in 1..31 : k = Least(d, DaysInMonth(m)) /\ k <= n /\ (k = d \/ k = n)
                         /\ k <= d
  BY <1>1 DEF Least
<1>4. PICK l \in 1..31 : l = Least(d, DaysInMonth(m + 1)) /\ (l = d \/ l = p)
  BY <1>2 DEF Least
<1>5. PICK r \in Nat : r = t % TicksInDay
  BY DayAndTime
<1>6. TicksInDay \in Nat \ {0}
  BY CalendarAssumption
<1>7. PICK a \in Nat, b \in Nat : a = f + k - 1 /\ b = f + n + l - 1 /\ a + 28 <= b
  <2>1. f + k - 1 \in Nat /\ f + n + l - 1 \in Nat
    BY <1>3, <1>4
  <2>2. k + 28 <= n + l
    BY <1>3, <1>4
  <2> QED BY <2>1, <2>2
<1>8. RecurringDay(d, m, t) = a * TicksInDay + r
  BY <1>1, <1>3, <1>5, <1>7 DEF RecurringDay, Instant
<1>9. RecurringDay(d, m + 1, t) = b * TicksInDay + r
  BY <1>1, <1>4, <1>5, <1>7 DEF RecurringDay, Instant
<1>10. (a + 28) * TicksInDay <= b * TicksInDay
  BY <1>7, TicksOfDays
<1>11. (a + 28) * TicksInDay = a * TicksInDay + 28 * TicksInDay
  BY <1>6, <1>7
<1>12. a * TicksInDay \in Nat /\ b * TicksInDay \in Nat /\ 28 * TicksInDay \in Nat
  BY <1>6, <1>7
<1> QED BY <1>5, <1>8, <1>9, <1>10, <1>11, <1>12

\* A later month's is later.
LEMMA LaterMonth ==
  ASSUME NEW d \in 1..31, NEW m \in Nat, NEW n \in Nat, m < n, NEW t \in Nat
  PROVE  RecurringDay(d, m, t) < RecurringDay(d, n, t)
<1>1. PICK u \in Nat : u = RecurringDay(d, m, t) /\ u \div TicksInDay < FirstOf(m + 1)
  BY InItsMonth
<1>2. PICK v \in Nat : v = RecurringDay(d, n, t) /\ FirstOf(n) <= v \div TicksInDay
  BY InItsMonth
<1>3. FirstOf(m + 1) <= FirstOf(n) /\ FirstOf(m + 1) \in Nat /\ FirstOf(n) \in Nat
  BY MonthsInOrder, NextMonth
<1>4. u \div TicksInDay \in Nat /\ v \div TicksInDay \in Nat
  BY DayAndTime
<1> QED BY <1>1, <1>2, <1>3, <1>4, EarlierDay

\* What is not after a day of the calendar is in one of its months.
LEMMA InCalendar ==
  ASSUME NEW d \in 1..31, NEW m \in Nat, NEW t \in Nat,
         NEW u \in Nat, u \div TicksInDay < FirstOf(LastMonth + 1), RecurringDay(d, m, t) <= u
  PROVE  m \in 0..LastMonth /\ MonthOf(RecurringDay(d, m, t)) = m
<1>1. PICK v \in Nat : v = RecurringDay(d, m, t) /\ FirstOf(m) <= v \div TicksInDay /\ v <= u
  BY InItsMonth
<1>2. v \div TicksInDay \in Nat /\ u \div TicksInDay \in Nat
  BY DayAndTime
<1>3. v \div TicksInDay <= u \div TicksInDay
  BY <1>1, <1>2, EarlierDay
<1>4. LastMonth \in Nat /\ FirstOf(m) \in Nat /\ FirstOf(LastMonth + 1) \in Nat
  BY CalendarAssumption, NextMonth
<1>5. LastMonth + 1 <= m => FirstOf(LastMonth + 1) <= FirstOf(m)
  BY <1>4, MonthsInOrder
<1>6. m <= LastMonth
  BY <1>1, <1>2, <1>3, <1>4, <1>5
<1>7. m \in 0..LastMonth
  BY <1>4, <1>6
<1>8. MonthOf(RecurringDay(d, m, t)) = m
  BY <1>6, InItsMonth
<1> QED BY <1>7, <1>8

\* The month of the first recurring day from t on, which may be t's own.
FirstMonthOf(d, t) == IF d >= DateOf(t) THEN MonthOf(t) ELSE MonthOf(t) + 1

\* The recurring days from that month to month n.
DaysTo(n, d, t) == {RecurringDay(d, m, t) : m \in FirstMonthOf(d, t)..n}

LEMMA FirstDay ==
  ASSUME NEW d \in 1..31, NEW t \in Nat, t \div TicksInDay < FirstOf(LastMonth + 1)
  PROVE  /\ FirstMonthOf(d, t) \in Nat
         /\ t <= RecurringDay(d, FirstMonthOf(d, t), t)
         /\ \A m \in Nat : m < FirstMonthOf(d, t) => RecurringDay(d, m, t) < t
<1>1. PICK m \in 0..LastMonth :
        m = MonthOf(t) /\ FirstOf(m) <= t \div TicksInDay /\ t \div TicksInDay < FirstOf(m + 1)
  BY SomeMonth
<1>2. m \in Nat
  BY <1>1
<1>3. PICK n \in 28..31, f \in Nat :
        n = DaysInMonth(m) /\ f = FirstOf(m) /\ FirstOf(m + 1) = f + n
  BY <1>2, NextMonth
<1>4. PICK c \in Nat : c = t \div TicksInDay
  BY DayAndTime
<1>5. DateOf(t) = c - f + 1 /\ f <= c /\ c < f + n
  BY <1>1, <1>3, <1>4 DEF DateOf
<1>6. PICK k \in 1..31 : k = Least(d, n) /\ k <= d /\ (k = d \/ k = n)
  BY <1>3 DEF Least
<1>7. PICK u \in Nat : /\ u = RecurringDay(d, m, t) /\ u \div TicksInDay = f + k - 1
                       /\ u % TicksInDay = t % TicksInDay
  <2>1. /\ RecurringDay(d, m, t) \in Nat /\ RecurringDay(d, m, t) % TicksInDay = t % TicksInDay
        /\ RecurringDay(d, m, t) \div TicksInDay = FirstOf(m) + Least(d, DaysInMonth(m)) - 1
    BY <1>2, InItsMonth
  <2> QED BY <1>3, <1>6, <2>1
<1>8. ASSUME NEW l \in Nat, l < m PROVE RecurringDay(d, l, t) < t
  <2>1. PICK v \in Nat : v = RecurringDay(d, l, t) /\ v \div TicksInDay < FirstOf(l + 1)
    BY InItsMonth
  <2>2. FirstOf(l + 1) <= f /\ FirstOf(l + 1) \in Nat
    <3>1. l + 1 \in Nat /\ l + 1 <= m
      BY <1>2, <1>8
    <3> QED BY <1>2, <1>3, <3>1, MonthsInOrder, NextMonth
  <2>3. v \div TicksInDay \in Nat
    BY DayAndTime
  <2>4. v \div TicksInDay < t \div TicksInDay
    BY <1>4, <1>5, <2>1, <2>2, <2>3
  <2> QED BY <2>1, <2>4, EarlierDay
<1>9. CASE d >= DateOf(t)
  <2>1. FirstMonthOf(d, t) = m
    BY <1>1, <1>9 DEF FirstMonthOf
  <2>2. c <= f + k - 1
    BY <1>5, <1>6, <1>9
  <2>3. t <= u
    <3>1. CASE c < f + k - 1
      BY <1>4, <1>7, <3>1, EarlierDay
    <3>2. CASE c = f + k - 1
      <4>1. t = c * TicksInDay + (t % TicksInDay) /\ u = c * TicksInDay + (t % TicksInDay)
        BY <1>4, <1>7, <3>2, DayAndTime
      <4> QED BY <4>1
    <3> QED BY <2>2, <3>1, <3>2
  <2> QED BY <1>2, <1>7, <1>8, <2>1, <2>3
<1>10. CASE ~(d >= DateOf(t))
  <2>1. FirstMonthOf(d, t) = m + 1
    BY <1>1, <1>10 DEF FirstMonthOf
  <2>2. f + k - 1 < c
    BY <1>5, <1>6, <1>10
  <2>3. u < t
    BY <1>4, <1>7, <2>2, EarlierDay
  <2>4. PICK v \in Nat : v = RecurringDay(d, m + 1, t) /\ f + n <= v \div TicksInDay
    <3>1. m + 1 \in Nat
      BY <1>2
    <3>2. PICK l \in Nat : l = m + 1 /\ FirstOf(l) = f + n
      BY <1>3, <3>1
    <3>3. /\ RecurringDay(d, l, t) \in Nat
          /\ FirstOf(l) <= RecurringDay(d, l, t) \div TicksInDay
      BY InItsMonth
    <3> QED BY <3>2, <3>3
  <2>5. t < v
    <3>1. v \div TicksInDay \in Nat
      BY DayAndTime
    <3>2. t \div TicksInDay < v \div TicksInDay
      BY <1>4, <1>5, <2>4, <3>1
    <3> QED BY <3>2, EarlierDay
  <2>6. \A l \in Nat : l < m + 1 => l < m \/ l = m
    BY <1>2
  <2> QED BY <1>2, <1>7, <1>8, <2>1, <2>3, <2>4, <2>5, <2>6
<1> QED BY <1>9, <1>10

----------------------------------------------------------------------------
(* The inductive invariant.                                                *)

FirstMonth == FirstMonthOf(day, created)
PaidTo(n) == DaysTo(n, day, created)

\* payAt is the recurring day of a month, of which all before are paid and that one
\* possibly.  The last success was in its payment's validity, so that it is either payAt's
\* or four weeks older.
CalendarInv ==
  /\ CalendarTypeOK
  /\ FirstMonth <= MonthOf(payAt)
  /\ payAt = RecurringDay(day, MonthOf(payAt), created)
  /\ \/ /\ paidFor = PaidTo(MonthOf(payAt) - 1)
        /\ paidFor # {} => last + 28 * TicksInDay < payAt + valid * TicksInDay + TicksInDay
     \/ /\ paidFor = PaidTo(MonthOf(payAt))
        /\ payAt <= last /\ last < payAt + valid * TicksInDay + TicksInDay

LEMMA Types ==
  ASSUME CalendarTypeOK
  PROVE  /\ day \in 1..31 /\ valid \in Nat \ {0} /\ created \in Nat /\ until \in Nat
         /\ payAt \in Nat /\ payAt <= until /\ clock \in Nat /\ last \in Nat
         /\ TicksInDay \in Nat \ {0} /\ LastMonth \in Nat
         /\ valid * TicksInDay \in Nat /\ valid * TicksInDay >= TicksInDay
         /\ created \div TicksInDay < FirstOf(LastMonth + 1) /\ until \div TicksInDay < FirstOf(LastMonth + 1)
<1>1. /\ day \in 1..31 /\ valid \in Nat \ {0} /\ created \in Nat /\ until \in Nat
      /\ TicksInDay \in Nat \ {0} /\ LastMonth \in Nat
  BY CalendarAssumption DEF CalendarTypeOK
<1>2. valid * TicksInDay \in Nat /\ (valid - 1) * TicksInDay \in Nat /\ (valid - 1) * TicksInDay = valid * TicksInDay - TicksInDay
  BY <1>1
<1>3. created \div TicksInDay < FirstOf(LastMonth + 1) /\ until \div TicksInDay < FirstOf(LastMonth + 1)
  BY CalendarCovers DEF CalendarTypeOK
<1> QED BY <1>1, <1>2, <1>3 DEF CalendarTypeOK

\* What CalendarInv says of payAt.
LEMMA PayAt ==
  ASSUME CalendarInv
  PROVE  /\ MonthOf(payAt) \in 0..LastMonth /\ FirstMonth \in Nat
         /\ payAt % TicksInDay = created % TicksInDay
         /\ DateOf(payAt) = Least(day, DaysInMonth(MonthOf(payAt)))
         /\ InAMonth(payAt) = RecurringDay(day, MonthOf(payAt) + 1, created)
         /\ \A t \in PaidTo(MonthOf(payAt) - 1) : t < payAt
         /\ payAt \in PaidTo(MonthOf(payAt))
         /\ PaidTo(MonthOf(payAt)) = PaidTo(MonthOf(payAt) - 1) \cup {payAt}
<1>1. /\ day \in 1..31 /\ created \in Nat /\ until \in Nat /\ payAt \in Nat /\ payAt <= until
      /\ until \div TicksInDay < FirstOf(LastMonth + 1) /\ created \div TicksInDay < FirstOf(LastMonth + 1)
      /\ LastMonth \in Nat
  BY Types DEF CalendarInv
<1>2. PICK f \in Nat : f = FirstMonth
  BY <1>1, FirstDay DEF FirstMonth
<1>3. payAt \div TicksInDay \in Nat /\ until \div TicksInDay \in Nat /\ FirstOf(LastMonth + 1) \in Nat
  <2>1. payAt \div TicksInDay \in Nat /\ until \div TicksInDay \in Nat
    BY <1>1, DayAndTime
  <2>2. FirstOf(LastMonth + 1) \in Nat
    BY <1>1, NextMonth
  <2> QED BY <2>1, <2>2
<1>4. payAt \div TicksInDay < FirstOf(LastMonth + 1)
  BY <1>1, <1>3, EarlierDay
<1>5. PICK m \in 0..LastMonth : m = MonthOf(payAt)
  BY <1>1, <1>4, SomeMonth
<1>6. m \in Nat /\ f <= m /\ payAt = RecurringDay(day, m, created)
  BY <1>2, <1>5 DEF CalendarInv
<1>7. payAt % TicksInDay = created % TicksInDay /\ DateOf(payAt) = Least(day, DaysInMonth(m))
  <2>1. RecurringDay(day, m, created) % TicksInDay = created % TicksInDay
    BY <1>1, <1>6, InItsMonth
  <2>2. m <= LastMonth
    BY <1>1, <1>5
  <2>3. DateOf(RecurringDay(day, m, created)) = Least(day, DaysInMonth(m))
    BY <1>1, <1>6, <2>2, InItsMonth
  <2> QED BY <1>6, <2>1, <2>3
<1>8. InAMonth(payAt) = RecurringDay(day, m + 1, created)
  BY <1>5, <1>7 DEF InAMonth, OnDay, RecurringDay
<1>9. ASSUME NEW l \in f..m - 1 PROVE RecurringDay(day, l, created) < payAt
  <2>1. l \in Nat /\ l < m
    BY <1>6
  <2> QED BY <1>1, <1>6, <2>1, LaterMonth
<1>10. f..m = (f..m - 1) \cup {m}
  BY <1>6
<1>11. PaidTo(m) = PaidTo(m - 1) \cup {payAt}
  BY <1>2, <1>6, <1>10 DEF PaidTo, DaysTo, FirstMonth
<1> QED BY <1>2, <1>5, <1>7, <1>8, <1>9, <1>11 DEF PaidTo, DaysTo, FirstMonth

LEMMA CalendarStarts == CalendarInit => CalendarInv
<1> SUFFICES ASSUME CalendarInit PROVE CalendarInv
  OBVIOUS
<1>1. /\ day \in 1..31 /\ created \in Nat /\ until \in Nat
      /\ until \div TicksInDay < FirstOf(LastMonth + 1) /\ created \div TicksInDay < FirstOf(LastMonth + 1)
  BY CalendarAssumption, CalendarCovers DEF CalendarInit
<1>2. PICK f \in Nat : f = FirstMonth
  BY <1>1, FirstDay DEF FirstMonth
<1>3. payAt = RecurringDay(day, f, created)
  BY <1>2 DEF CalendarInit, FirstPayDay, InAMonth, OnDay, RecurringDay, FirstMonth, FirstMonthOf
<1>4. payAt \in Nat
  BY <1>1, <1>2, <1>3, InItsMonth
<1>5. payAt <= until
  BY DEF CalendarInit
<1>6. MonthOf(payAt) = f
  BY <1>1, <1>2, <1>3, <1>5, InCalendar
<1>7. f..f - 1 = {}
  OBVIOUS
<1>8. PaidTo(f - 1) = {} /\ paidFor = {}
  BY <1>2, <1>7 DEF PaidTo, DaysTo, FirstMonth, CalendarInit
<1>9. CalendarTypeOK
  BY <1>1, <1>4, <1>5 DEF CalendarInit, CalendarTypeOK
<1> QED BY <1>2, <1>3, <1>6, <1>8, <1>9 DEF CalendarInv

\* An execution is in the validity, to the end of its last day.
LEMMA InValidity ==
  ASSUME CalendarTypeOK, Due
  PROVE  payAt <= clock /\ clock < payAt + valid * TicksInDay + TicksInDay
<1>1. clock % TicksInDay \in Nat /\ clock % TicksInDay < TicksInDay /\ clock \in Nat /\ payAt \in Nat /\ TicksInDay \in Nat \ {0}
      /\ valid * TicksInDay \in Nat
  BY Types, DayAndTime
<1> QED BY <1>1 DEF Due, StartOfDay

\* After payAt is paid, whether it moves or not.
LEMMA Paying ==
  ASSUME CalendarInv, Due
  PROVE  /\ paidFor \cup {payAt} = PaidTo(MonthOf(payAt))
         /\ PaidTo(MonthOf(payAt)) \in SUBSET Nat
<1>1. paidFor \cup {payAt} = PaidTo(MonthOf(payAt))
  BY PayAt DEF CalendarInv
<1>2. paidFor \in SUBSET Nat /\ payAt \in Nat
  BY Types DEF CalendarInv, CalendarTypeOK
<1> QED BY <1>1, <1>2

\* payAt moves to the next month.
LEMMA MoveKeeps ==
  ASSUME CalendarInv, Due, last' = clock, paidFor' = paidFor \cup {payAt},
         payAt' = InAMonth(payAt), InAMonth(payAt) <= until, UNCHANGED <<terms, clock>>
  PROVE  CalendarInv'
<1>1. /\ day \in 1..31 /\ created \in Nat /\ until \in Nat /\ clock \in Nat /\ payAt \in Nat
      /\ until \div TicksInDay < FirstOf(LastMonth + 1) /\ TicksInDay \in Nat \ {0} /\ valid * TicksInDay \in Nat
  BY Types DEF CalendarInv
<1>2. PICK m \in 0..LastMonth : m = MonthOf(payAt)
  BY PayAt
<1>3. m \in Nat /\ m + 1 \in Nat /\ (m + 1) - 1 = m
  BY <1>2
<1>4. payAt' = RecurringDay(day, m + 1, created)
  BY <1>2, PayAt
<1>5. payAt' <= until /\ payAt' \in Nat
  <2>1. PICK n \in Nat : n = m + 1
    BY <1>3
  <2>2. RecurringDay(day, n, created) \in Nat
    BY <1>1, InItsMonth
  <2> QED BY <1>4, <2>1, <2>2
<1>6. MonthOf(RecurringDay(day, m + 1, created)) = m + 1
  <2>1. PICK n \in Nat : n = m + 1
    BY <1>3
  <2>2. RecurringDay(day, n, created) <= until
    BY <1>4, <1>5, <2>1
  <2>3. MonthOf(RecurringDay(day, n, created)) = n
    BY <1>1, <2>2, InCalendar
  <2> QED BY <2>1, <2>3
<1>7. MonthOf(payAt') = m + 1
  BY <1>4, <1>6
<1>8. paidFor' = PaidTo(m) /\ PaidTo(m) \in SUBSET Nat
  BY <1>2, Paying
<1>9. day' = day /\ created' = created /\ until' = until /\ valid' = valid /\ clock' = clock
  BY DEF terms
<1>10. CalendarTypeOK'
  BY <1>1, <1>5, <1>8, <1>9 DEF CalendarInv, CalendarTypeOK
<1>11. FirstMonth <= m /\ FirstMonth \in Nat
  BY <1>2, PayAt DEF CalendarInv
<1>12. FirstMonthOf(day', created') <= MonthOf(payAt')
  BY <1>3, <1>7, <1>9, <1>11 DEF FirstMonth
<1>13. last' + 28 * TicksInDay < payAt' + valid' * TicksInDay + TicksInDay
  <2>1. clock < payAt + valid * TicksInDay + TicksInDay
    BY InValidity DEF CalendarInv
  <2>2. payAt = RecurringDay(day, m, created)
    BY <1>2 DEF CalendarInv
  <2>3. payAt + 28 * TicksInDay <= payAt'
    BY <1>1, <1>3, <1>4, <2>2, FourWeeks
  <2> QED BY <1>1, <1>5, <1>9, <2>1, <2>3
<1>14. paidFor' = DaysTo(MonthOf(payAt') - 1, day', created')
  BY <1>3, <1>7, <1>8, <1>9 DEF PaidTo
<1>15. payAt' = RecurringDay(day', MonthOf(payAt'), created')
  BY <1>4, <1>7, <1>9
<1> QED BY <1>10, <1>12, <1>13, <1>14, <1>15 DEF CalendarInv, FirstMonth, PaidTo

\* payAt stays, and is paid.
LEMMA StayKeeps ==
  ASSUME CalendarInv, Due, last' = clock, paidFor' = paidFor \cup {payAt},
         payAt' = payAt, UNCHANGED <<terms, clock>>
  PROVE  CalendarInv'
<1>1. day' = day /\ created' = created /\ until' = until /\ valid' = valid /\ clock' = clock
  BY DEF terms
<1>2. PICK m : m = MonthOf(payAt) /\ m = MonthOf(payAt')
  OBVIOUS
<1>3. paidFor' = PaidTo(m) /\ PaidTo(m) \in SUBSET Nat
  BY <1>2, Paying
<1>4. CalendarTypeOK'
  BY <1>1, <1>3 DEF CalendarInv, CalendarTypeOK
<1>5. FirstMonthOf(day', created') <= MonthOf(payAt')
  BY <1>1, <1>2 DEF FirstMonth, CalendarInv
<1>6. paidFor' = DaysTo(MonthOf(payAt'), day', created')
  BY <1>1, <1>2, <1>3 DEF PaidTo
<1>7. payAt' <= last' /\ last' < payAt' + valid' * TicksInDay + TicksInDay
  BY <1>1, InValidity DEF CalendarInv
<1>8. payAt' = RecurringDay(day', MonthOf(payAt'), created')
  BY <1>1, <1>2 DEF CalendarInv
<1> QED BY <1>4, <1>5, <1>6, <1>7, <1>8 DEF CalendarInv, FirstMonth, PaidTo

LEMMA WaitKeeps ==
  ASSUME CalendarInv, UNCHANGED <<terms, payAt, last, paidFor>>, clock' \in Nat
  PROVE  CalendarInv'
<1>1. /\ day' = day /\ created' = created /\ until' = until /\ valid' = valid
      /\ payAt' = payAt /\ last' = last /\ paidFor' = paidFor
  BY DEF terms
<1>2. CalendarTypeOK'
  BY <1>1 DEF CalendarInv, CalendarTypeOK
<1>3. PICK m : m = MonthOf(payAt) /\ m = MonthOf(payAt')
  BY <1>1
<1>4. /\ FirstMonthOf(day', created') <= MonthOf(payAt')
      /\ payAt' = RecurringDay(day', MonthOf(payAt'), created')
  BY <1>1, <1>3 DEF CalendarInv, FirstMonth
<1>5. \/ /\ paidFor' = DaysTo(MonthOf(payAt') - 1, day', created')
         /\ paidFor' # {} => last' + 28 * TicksInDay < payAt' + valid' * TicksInDay + TicksInDay
      \/ /\ paidFor' = DaysTo(MonthOf(payAt'), day', created')
         /\ payAt' <= last' /\ last' < payAt' + valid' * TicksInDay + TicksInDay
  BY <1>1, <1>3 DEF CalendarInv, PaidTo
<1> QED BY <1>2, <1>4, <1>5 DEF CalendarInv, FirstMonth, PaidTo

LEMMA CalendarStep == CalendarInv /\ [CalendarNext]_calendarVars => CalendarInv'
<1> SUFFICES ASSUME CalendarInv, [CalendarNext]_calendarVars PROVE CalendarInv'
  OBVIOUS
<1>1. clock \in Nat /\ payAt \in Nat
  BY Types DEF CalendarInv
<1>2. CASE Execute
  <2>1. CASE InAMonth(payAt) <= until
    BY <1>2, <2>1, MoveKeeps DEF Execute
  <2>2. CASE ~(InAMonth(payAt) <= until)
    BY <1>2, <2>2, StayKeeps DEF Execute
  <2> QED BY <2>1, <2>2
<1>3. CASE ExecuteAndDie
  <2>1. UNCHANGED <<terms, clock>> /\ payAt' = payAt
    BY <1>3 DEF ExecuteAndDie
  <2> QED BY <1>3, <2>1, StayKeeps DEF ExecuteAndDie
<1>4. CASE Wait
  <2>1. clock' \in Nat
    BY <1>1, <1>4, CalendarAssumption DEF Wait
  <2> QED BY <1>4, <2>1, WaitKeeps DEF Wait
<1>5. CASE UNCHANGED calendarVars
  <2>1. UNCHANGED <<terms, payAt, last, paidFor>> /\ clock' \in Nat
    BY <1>1, <1>5 DEF calendarVars
  <2> QED BY <2>1, WaitKeeps
<1> QED BY <1>2, <1>3, <1>4, <1>5 DEF CalendarNext

LEMMA CalendarAlways == CalendarSpec => []CalendarInv
<1>1. CalendarInit => CalendarInv
  BY CalendarStarts
<1>2. CalendarInv /\ [CalendarNext]_calendarVars => CalendarInv'
  BY CalendarStep
<1> QED BY <1>1, <1>2, PTL DEF CalendarSpec

----------------------------------------------------------------------------
(* Theorems.                                                               *)

\* Terms, times and payments keep their types; payAt does not pass the end.
THEOREM CalendarTyped == CalendarSpec => []CalendarTypeOK
<1>1. CalendarInv => CalendarTypeOK
  BY DEF CalendarInv
<1> QED BY <1>1, CalendarAlways, PTL

\* For any recurring day, payAt is that day or the last of its month, at the time of day at
\* which the payment was created.
THEOREM AlwaysOnItsDay == CalendarSpec => []OnRecurringDay
<1>1. CalendarInv => OnRecurringDay
  BY PayAt DEF OnRecurringDay
<1> QED BY <1>1, CalendarAlways, PTL

\* For any recurring day and time of creation, the payments made are those of consecutive
\* months from the first recurring day on, one a month.
THEOREM NoMonthSkipped == CalendarSpec => []EveryMonthOnce
<1>1. ASSUME CalendarInv PROVE EveryMonthOnce
  <2>1. /\ day \in 1..31 /\ created \in Nat /\ until \in Nat /\ LastMonth \in Nat
        /\ created \div TicksInDay < FirstOf(LastMonth + 1)
    BY <1>1, Types DEF CalendarInv
  <2>2. PICK m \in 0..LastMonth : m = MonthOf(payAt) /\ FirstMonth <= m
    BY <1>1, PayAt DEF CalendarInv
  <2>3. PICK f \in Nat : f = FirstMonth
    BY <1>1, PayAt
  <2>4. f \in 0..LastMonth /\ f <= m /\ m \in Nat
    BY <2>1, <2>2, <2>3
  <2>5. FirstPayDay(created) = RecurringDay(day, f, created)
    BY <2>3 DEF FirstPayDay, InAMonth, OnDay, RecurringDay, FirstMonth, FirstMonthOf
  <2>6. \A l \in 0..LastMonth : MonthOf(RecurringDay(day, l, created)) = l
    <3>1. \A l \in 0..LastMonth : l \in Nat /\ l <= LastMonth
      BY <2>1
    <3> QED BY <2>1, <3>1, InItsMonth
  <2>7. PICK first : first = FirstPayDay(created) /\ MonthOf(first) = f
    BY <2>4, <2>5, <2>6
  <2>8. created <= first
    BY <2>1, <2>3, <2>5, <2>7, FirstDay DEF FirstMonth
  <2>9. ASSUME NEW l \in 0..LastMonth, OnDay(l, created) >= created PROVE f <= l
    <3>1. l \in Nat
      BY <2>1
    <3>2. l \in Nat /\ RecurringDay(day, l, created) \in Nat
      BY <2>1, <3>1, InItsMonth
    <3>3. RecurringDay(day, l, created) >= created
      BY <2>9 DEF OnDay, RecurringDay
    <3>4. l < f => RecurringDay(day, l, created) < created
      BY <2>1, <2>3, <3>2, FirstDay DEF FirstMonth
    <3> QED BY <2>1, <3>2, <3>3, <3>4
  <2>10. PICK n : (n = m - 1 \/ n = m) /\ paidFor = DaysTo(n, day, created)
    BY <1>1, <2>2 DEF CalendarInv, PaidTo
  <2>11. \A t : t \in paidFor <=> \E l \in f..n : t = RecurringDay(day, l, created)
    BY <2>3, <2>10 DEF DaysTo, FirstMonth
  <2>12. \A l \in f..n : l \in 0..LastMonth
    BY <2>1, <2>2, <2>4, <2>10
  <2>13. \A t \in paidFor : t = OnDay(MonthOf(t), created) /\ MonthOf(t) \in f..n
    <3>1. \A l \in f..n : OnDay(l, created) = RecurringDay(day, l, created)
      BY DEF OnDay, RecurringDay
    <3> QED BY <2>6, <2>11, <2>12, <3>1
  <2> DEFINE months == {MonthOf(t) : t \in paidFor}
             before == {l \in 0..LastMonth : f <= l /\ l < m}
  <2>14. months = f..n
    <3>1. \A l \in f..n : \E t \in paidFor : MonthOf(t) = l
      BY <2>6, <2>11, <2>12
    <3>2. \A l \in f..n : l \in months
      BY <3>1
    <3>3. \A l \in months : l \in f..n
      BY <2>13
    <3> QED BY <3>2, <3>3
  <2>15. before = f..m - 1
    <3>1. \A l : l \in before <=> l \in f..m - 1
      BY <2>1, <2>4
    <3> QED BY <3>1
  <2>16. f..m = (f..m - 1) \cup {m}
    BY <2>4
  <2> HIDE DEF months, before
  <2>17. months = before \/ months = before \cup {m}
    BY <2>10, <2>14, <2>15, <2>16
  <2> QED BY <2>2, <2>7, <2>8, <2>9, <2>13, <2>17 DEF EveryMonthOnce, months, before
<1> QED BY <1>1, CalendarAlways, PTL

\* For any days of validity, the guard on the last success is over before the validity of
\* the next payment is.
THEOREM GuardIsShort == CalendarSpec => []GuardLeavesTime
<1>1. ASSUME CalendarInv PROVE GuardLeavesTime
  <2> SUFFICES ASSUME payAt \notin paidFor, clock = payAt + valid * TicksInDay, paidFor # {}
               PROVE  last < clock - (28 - valid) * TicksInDay
    BY DEF GuardLeavesTime, TooSoon
  <2>1. /\ payAt \in Nat /\ last \in Nat /\ valid \in Nat \ {0} /\ TicksInDay \in Nat \ {0}
        /\ valid * TicksInDay \in Nat /\ valid * TicksInDay >= TicksInDay
    BY <1>1, Types DEF CalendarInv
  <2>2. last + 28 * TicksInDay < payAt + valid * TicksInDay + TicksInDay
    BY <1>1, PayAt DEF CalendarInv
  <2>3. (28 - valid) * TicksInDay = 28 * TicksInDay - valid * TicksInDay
    BY <2>1
  <2>4. 28 * TicksInDay \in Nat
    BY <2>1
  <2> QED BY <2>1, <2>2, <2>3, <2>4
<1> QED BY <1>1, CalendarAlways, PTL

\* The contracts' validity is less than half of the shortest month.
ShortValidity == \A v \in Validities : v <= 13

\* With such a validity, nothing is executed for a payAt that was paid.
THEOREM GuardIsLong ==
  ASSUME ShortValidity
  PROVE  CalendarSpec => NotPaidTwice
<1>1. ASSUME CalendarInv, [CalendarNext]_calendarVars, last' # last PROVE payAt \notin paidFor
  <2>1. Due /\ ~TooSoon
    BY <1>1 DEF CalendarNext, Execute, ExecuteAndDie, Wait, calendarVars
  <2> SUFFICES ASSUME payAt \in paidFor PROVE FALSE
    OBVIOUS
  <2>2. /\ payAt \in Nat /\ last \in Nat /\ clock \in Nat /\ valid \in Nat \ {0} /\ valid <= 13
        /\ TicksInDay \in Nat \ {0} /\ valid * TicksInDay \in Nat
    BY <1>1, Types DEF CalendarInv, CalendarTypeOK, ShortValidity
  <2>3. payAt <= last
    <3>1. paidFor = PaidTo(MonthOf(payAt) - 1) => payAt < payAt
      BY <1>1, PayAt
    <3>2. paidFor # PaidTo(MonthOf(payAt) - 1)
      BY <2>2, <3>1
    <3> QED BY <1>1, <3>2 DEF CalendarInv
  <2>4. last < clock - (28 - valid) * TicksInDay
    BY <2>1 DEF TooSoon
  <2>5. clock < payAt + valid * TicksInDay + TicksInDay
    BY <1>1, <2>1, InValidity DEF CalendarInv
  <2>6. (28 - valid) * TicksInDay = 28 * TicksInDay - valid * TicksInDay
    BY <2>2
  <2>7. valid * TicksInDay <= 13 * TicksInDay
    BY <2>2, TicksOfDays
  <2> QED BY <2>2, <2>3, <2>4, <2>5, <2>6, <2>7
<1> DEFINE Once == last' # last => payAt \notin paidFor
<1>2. CalendarInv /\ [CalendarNext]_calendarVars => Once
  BY <1>1
<1> HIDE DEF Once
<1>3. CalendarSpec => [][Once]_calendarVars
  BY <1>2, CalendarAlways, PTL DEF CalendarSpec
<1> QED BY <1>3 DEF Once, NotPaidTwice
==============================================================================
