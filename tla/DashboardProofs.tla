--------------------------- MODULE DashboardProofs ---------------------------
(***************************************************************************)
(* Proofs about module Dashboard: the calendar of its date operators, and  *)
(* the three invariants of its runs for any items, orders and days.        *)
(***************************************************************************)
EXTENDS Dashboard, SumTheorems, TLAPS

-----------------------------------------------------------------------------
(* The calendar.                                                           *)

Years == FirstYear..LastYear
Calendar == YearStart(FirstYear)..(YearStart(LastYear + 1) - 1)
Leap(y) == IF y % 4 = 0 THEN 1 ELSE 0
MonthStart(y, m) == DayOf(y, m, 1)

\* A year has 365 days, and a leap year one more.
LEMMA YearLength ==
  ASSUME NEW y \in Int
  PROVE  YearStart(y) \in Int /\ YearStart(y + 1) = YearStart(y) + 365 + Leap(y)
BY DEF YearStart, Leap

\* The years follow each other.
LEMMA YearsInOrder ==
  ASSUME NEW y \in Int, NEW z \in Int, y < z
  PROVE  YearStart(y + 1) <= YearStart(z)
BY DEF YearStart

\* The first days of the twelve months, of the month before and of the one after.
LEMMA MonthStarts ==
  ASSUME NEW y \in Int
  PROVE  /\ MonthStart(y, 0) = YearStart(y) - 31
         /\ MonthStart(y, 1) = YearStart(y)
         /\ MonthStart(y, 2) = YearStart(y) + 31
         /\ MonthStart(y, 3) = YearStart(y) + 59 + Leap(y)
         /\ MonthStart(y, 4) = YearStart(y) + 90 + Leap(y)
         /\ MonthStart(y, 5) = YearStart(y) + 120 + Leap(y)
         /\ MonthStart(y, 6) = YearStart(y) + 151 + Leap(y)
         /\ MonthStart(y, 7) = YearStart(y) + 181 + Leap(y)
         /\ MonthStart(y, 8) = YearStart(y) + 212 + Leap(y)
         /\ MonthStart(y, 9) = YearStart(y) + 243 + Leap(y)
         /\ MonthStart(y, 10) = YearStart(y) + 273 + Leap(y)
         /\ MonthStart(y, 11) = YearStart(y) + 304 + Leap(y)
         /\ MonthStart(y, 12) = YearStart(y) + 334 + Leap(y)
         /\ MonthStart(y, 13) = YearStart(y + 1)
<1>1. /\ DaysBefore[1] = 0 /\ DaysBefore[2] = 31 /\ DaysBefore[3] = 59
      /\ DaysBefore[4] = 90 /\ DaysBefore[5] = 120 /\ DaysBefore[6] = 151
      /\ DaysBefore[7] = 181 /\ DaysBefore[8] = 212 /\ DaysBefore[9] = 243
      /\ DaysBefore[10] = 273 /\ DaysBefore[11] = 304 /\ DaysBefore[12] = 334
  BY DEF DaysBefore
<1> HIDE DEF DaysBefore
<1>2. YearStart(y) \in Int /\ YearStart(y - 1) \in Int /\ YearStart(y + 1) \in Int
  BY DEF YearStart
<1>3. MonthStart(y, 0) = YearStart(y) - 31
  <2>1. (0 - 1) \div 12 = -1 /\ (0 - 1) % 12 = 11
    <3>1. \A k \in Int : -12 <= k /\ k < 0 => k \div 12 = -1 /\ k % 12 = k + 12
      OBVIOUS
    <3> DEFINE k == 0 - 1
    <3>2. k \in Int /\ -12 <= k /\ k < 0 /\ k + 12 = 11
      OBVIOUS
    <3>3. k \div 12 = -1 /\ k % 12 = k + 12
      <4> HIDE DEF k
      <4> QED
        BY <3>1, <3>2
    <3>4. QED
      BY <3>2, <3>3
  <2>2. MonthStart(y, 0) = YearStart(y - 1) + DaysBefore[12]
                              + (IF (y - 1) % 4 = 0 /\ 12 > 2 THEN 1 ELSE 0) + 1 - 1
    <3>1. y + (-1) = y - 1 /\ 11 + 1 = 12
      OBVIOUS
    <3>2. QED
      BY <2>1, <3>1, Zenon DEF MonthStart, DayOf
  <2>3. YearStart(y) = YearStart(y - 1) + 365 + Leap(y - 1)
    BY YearLength, (y - 1) + 1 = y
  <2>4. QED
    BY <1>1, <1>2, <2>2, <2>3 DEF Leap
<1>4. MonthStart(y, 13) = YearStart(y + 1)
  <2>1. (13 - 1) \div 12 = 1 /\ (13 - 1) % 12 = 0
    OBVIOUS
  <2>2. MonthStart(y, 13) = YearStart(y + 1) + DaysBefore[1]
                              + (IF (y + 1) % 4 = 0 /\ 1 > 2 THEN 1 ELSE 0) + 1 - 1
    BY <2>1 DEF MonthStart, DayOf
  <2>3. QED
    BY <1>1, <1>2, <2>2
<1>5. ASSUME NEW m \in 1..12
      PROVE  MonthStart(y, m) = YearStart(y) + DaysBefore[m]
                                  + (IF m > 2 THEN Leap(y) ELSE 0)
  <2>1. (m - 1) \div 12 = 0 /\ (m - 1) % 12 = m - 1 /\ y + 0 = y /\ (m - 1) + 1 = m
    BY <1>5
  <2>2. MonthStart(y, m) = YearStart(y) + DaysBefore[m]
                              + (IF y % 4 = 0 /\ m > 2 THEN 1 ELSE 0) + 1 - 1
    BY <2>1 DEF MonthStart, DayOf
  <2>3. DaysBefore[m] \in Int
    BY <1>1, <1>5
  <2>4. QED
    BY <1>2, <2>2, <2>3 DEF Leap
<1>6. QED
  BY <1>1, <1>2, <1>3, <1>4, <1>5 DEF Leap

\* A day of a month counts from the first one.
LEMMA DaysCount ==
  ASSUME NEW y \in Int, NEW m \in 0..13, NEW d \in Int
  PROVE  DayOf(y, m, d) = MonthStart(y, m) + d - 1 /\ MonthStart(y, m) \in Int
<1> DEFINE z == y + ((m - 1) \div 12)
           k == ((m - 1) % 12) + 1
           leap == IF z % 4 = 0 /\ k > 2 THEN 1 ELSE 0
<1>1. z \in Int /\ k \in 1..12
  OBVIOUS
<1>2. DaysBefore[k] \in Int
  BY <1>1 DEF DaysBefore
<1>3. YearStart(z) \in Int
  BY <1>1 DEF YearStart
<1>4. /\ DayOf(y, m, d) = YearStart(z) + DaysBefore[k] + leap + d - 1
      /\ MonthStart(y, m) = YearStart(z) + DaysBefore[k] + leap + 1 - 1
  BY DEF DayOf, MonthStart
<1>5. leap \in Int
  OBVIOUS
<1> HIDE DEF z, k, leap
<1>6. QED
  BY <1>2, <1>3, <1>4, <1>5

\* A month has 28 to 31 days, and the months follow each other.
LEMMA MonthsInOrder ==
  ASSUME NEW y \in Int, NEW m \in 0..12
  PROVE  /\ MonthStart(y, m) \in Int /\ MonthStart(y, m + 1) \in Int
         /\ MonthStart(y, m) + 28 <= MonthStart(y, m + 1)
         /\ MonthStart(y, m + 1) <= MonthStart(y, m) + 31
         /\ \A k \in 0..12 : m < k => MonthStart(y, m + 1) <= MonthStart(y, k)
<1>1. Leap(y) \in 0..1 /\ YearStart(y) \in Int /\ YearStart(y + 1) = YearStart(y) + 365 + Leap(y)
  BY YearLength DEF Leap
<1> HIDE DEF YearStart, Leap, MonthStart
<1>2. m + 1 \in 1..13
  OBVIOUS
<1>3. QED
  BY <1>1, <1>2, MonthStarts

\* A day of the calendar is in one of its years and in one of the months.
LEMMA YearOfDay ==
  ASSUME NEW n \in Calendar
  PROVE  \E y \in Years : YearStart(y) <= n /\ n < YearStart(y + 1)
<1>1. FirstYear \in Int /\ LastYear \in Int
  BY YearAssumption
<1>2. n \in Int /\ YearStart(FirstYear) <= n /\ n < YearStart(LastYear + 1)
  BY <1>1 DEF Calendar, YearStart
<1> DEFINE k == 4 * (n + 1095) + 3
           j == k \div 1461
           y == j + 2021
<1>3. k \in Int /\ j \in Int /\ 1461 * j <= k /\ k < 1461 * (j + 1)
  BY <1>2
<1>4. y \in Int /\ YearStart(y) = 365 * (j - 3) + (j \div 4)
                /\ YearStart(y + 1) = 365 * (j - 2) + ((j + 1) \div 4)
  <2>1. /\ y - 2024 = j - 3 /\ y - 2021 = j
        /\ (y + 1) - 2024 = j - 2 /\ (y + 1) - 2021 = j + 1
    BY <1>3
  <2>2. QED
    BY <1>3, <2>1 DEF YearStart
<1>5. YearStart(y) <= n /\ n < YearStart(y + 1)
  <2> HIDE DEF j, y
  <2>1. QED
    BY <1>2, <1>3, <1>4
<1>6. y \in Years
  <2>1. y < FirstYear => YearStart(y + 1) <= YearStart(FirstYear)
    BY <1>1, <1>4, YearsInOrder
  <2>2. LastYear < y => YearStart(LastYear + 1) <= YearStart(y)
    BY <1>1, <1>4, YearsInOrder
  <2>3. /\ YearStart(y) \in Int /\ YearStart(y + 1) \in Int
        /\ YearStart(FirstYear) \in Int /\ YearStart(LastYear + 1) \in Int
    BY <1>1, <1>4, YearLength
  <2> HIDE DEF y
  <2>4. QED
    BY <1>1, <1>2, <1>4, <1>5, <2>1, <2>2, <2>3 DEF Years
<1>7. QED
  BY <1>5, <1>6

LEMMA MonthOfDay ==
  ASSUME NEW y \in Int, NEW n \in Int, YearStart(y) <= n, n < YearStart(y + 1)
  PROVE  \E m \in 1..12 : MonthStart(y, m) <= n /\ n < MonthStart(y, m + 1)
<1>1. Leap(y) \in 0..1 /\ YearStart(y) \in Int /\ YearStart(y + 1) \in Int
  BY YearLength DEF Leap
<1>2. \A m \in 1..13 : MonthStart(y, m) \in Int
  BY <1>1, MonthStarts
<1>3. MonthStart(y, 1) <= n /\ n < MonthStart(y, 13)
  BY MonthStarts
<1> HIDE DEF MonthStart
<1>4. QED
  BY <1>2, <1>3

\* The date of a day is the only one: year, month and day of the month.
LEMMA DateOfDay ==
  ASSUME NEW n \in Calendar, NEW y \in Years, NEW m \in 1..12,
         MonthStart(y, m) <= n, n < MonthStart(y, m + 1)
  PROVE  Year(n) = y /\ Month(n) = m /\ DayOfMonth(n) = n - MonthStart(y, m) + 1
<1>1. y \in Int /\ n \in Int /\ Years \subseteq Int /\ 1..12 \subseteq 0..12
  BY YearAssumption DEF Calendar, Years, YearStart
<1>2. YearStart(y) <= n /\ n < YearStart(y + 1)
  <2>1. Leap(y) \in 0..1 /\ YearStart(y) \in Int /\ YearStart(y + 1) \in Int
    BY <1>1, YearLength DEF Leap
  <2>2. \A k \in 1..12 : YearStart(y) <= MonthStart(y, k)
    BY <1>1, <2>1, MonthStarts
  <2>3. \A k \in 1..12 : MonthStart(y, k + 1) <= YearStart(y + 1)
    <3>1. YearStart(y + 1) = YearStart(y) + 365 + Leap(y)
      BY <1>1, YearLength
    <3> HIDE DEF MonthStart
    <3>2. QED
      BY <1>1, <2>1, <3>1, MonthStarts
  <2>4. MonthStart(y, m) \in Int /\ MonthStart(y, m + 1) \in Int
    BY <1>1, MonthsInOrder, Zenon
  <2>5. QED
    BY <1>1, <2>1, <2>2, <2>3, <2>4
<1>3. \A z \in Years : YearStart(z) <= n /\ n < YearStart(z + 1) => z = y
  <2> SUFFICES ASSUME NEW z \in Years, YearStart(z) <= n, n < YearStart(z + 1)
               PROVE  z = y
    OBVIOUS
  <2>1. z \in Int
    BY <1>1
  <2>2. (z < y => YearStart(z + 1) <= YearStart(y)) /\ (y < z => YearStart(y + 1) <= YearStart(z))
    BY <1>1, <2>1, YearsInOrder
  <2>3. /\ YearStart(z) \in Int /\ YearStart(z + 1) \in Int
        /\ YearStart(y) \in Int /\ YearStart(y + 1) \in Int
    BY <1>1, <2>1, YearLength
  <2>4. QED
    BY <1>1, <1>2, <2>1, <2>2, <2>3
<1>4. \A k \in 1..12 : MonthStart(y, k) <= n /\ n < MonthStart(y, k + 1) => k = m
  <2> SUFFICES ASSUME NEW k \in 1..12, MonthStart(y, k) <= n, n < MonthStart(y, k + 1)
               PROVE  k = m
    OBVIOUS
  <2>1. /\ k < m => MonthStart(y, k + 1) <= MonthStart(y, m)
        /\ m < k => MonthStart(y, m + 1) <= MonthStart(y, k)
    BY <1>1, MonthsInOrder, Zenon
  <2>2. /\ MonthStart(y, k) \in Int /\ MonthStart(y, k + 1) \in Int
        /\ MonthStart(y, m) \in Int /\ MonthStart(y, m + 1) \in Int
    BY <1>1, MonthsInOrder, Zenon
  <2>3. QED
    BY <1>1, <2>1, <2>2
<1>5. (CHOOSE z \in FirstYear..LastYear : YearStart(z) <= n /\ n < YearStart(z + 1)) = y
  BY <1>2, <1>3 DEF Years
<1>6. (CHOOSE k \in 1..12 : DayOf(y, k, 1) <= n /\ n < DayOf(y, k + 1, 1)) = m
  BY <1>4 DEF MonthStart
<1>7. Date[n] = [year |-> y, month |-> m, day |-> n - DayOf(y, m, 1) + 1]
  BY <1>5, <1>6, Zenon DEF Date, Calendar
<1>8. QED
  BY <1>7 DEF Year, Month, DayOfMonth, MonthStart

LEMMA DateIs ==
  ASSUME NEW n \in Calendar
  PROVE  /\ n \in Int /\ Year(n) \in Int /\ Month(n) \in Int /\ DayOfMonth(n) \in Int
         /\ Year(n) \in Years /\ Month(n) \in 1..12 /\ DayOfMonth(n) \in 1..31
         /\ n = MonthStart(Year(n), Month(n)) + DayOfMonth(n) - 1
         /\ MonthStart(Year(n), Month(n)) <= n
         /\ n < MonthStart(Year(n), Month(n) + 1)
         /\ YearStart(Year(n)) <= n /\ n < YearStart(Year(n) + 1)
<1>1. n \in Int /\ Years \subseteq Int
  BY YearAssumption DEF Calendar, Years, YearStart
<1>2. PICK y \in Years : YearStart(y) <= n /\ n < YearStart(y + 1)
  BY YearOfDay
<1>3. PICK m \in 1..12 : MonthStart(y, m) <= n /\ n < MonthStart(y, m + 1)
  BY <1>1, <1>2, MonthOfDay
<1>4. Year(n) = y /\ Month(n) = m /\ DayOfMonth(n) = n - MonthStart(y, m) + 1
  BY <1>3, DateOfDay
<1>5. /\ MonthStart(y, m) \in Int /\ MonthStart(y, m + 1) \in Int
      /\ MonthStart(y, m + 1) <= MonthStart(y, m) + 31
  <2>1. y \in Int /\ m \in 0..12
    BY <1>1
  <2>2. QED
    BY <2>1, MonthsInOrder, Zenon
<1>6. y \in Int /\ m \in Int /\ DayOfMonth(n) \in 1..31
  BY <1>1, <1>3, <1>4, <1>5
<1>7. n = MonthStart(y, m) + DayOfMonth(n) - 1
  BY <1>1, <1>4, <1>5
<1>8. QED
  BY <1>1, <1>2, <1>3, <1>4, <1>6, <1>7

-----------------------------------------------------------------------------
(* The ranges of getDashboardData.                                         *)

\* From the first to the last day of a month are the days of that month.
LEMMA DaysOfMonth ==
  ASSUME NEW y \in Years, NEW m \in 1..12, NEW c \in Calendar
  PROVE  /\ DayOf(y, m, 1) <= c /\ c <= DayOf(y, m + 1, 0)
            <=> 12 * Year(c) + Month(c) = 12 * y + m
         /\ DayOf(y, m, 1) <= c /\ c <= DayOf(y, m + 1, 0)
            <=> Year(c) = y /\ Month(c) = m
<1>1. y \in Int /\ m \in 0..13 /\ m + 1 \in 0..13 /\ m \in Int
  BY YearAssumption DEF Years
<1>2. /\ DayOf(y, m, 1) = MonthStart(y, m)
      /\ DayOf(y, m + 1, 0) = MonthStart(y, m + 1) + 0 - 1
      /\ MonthStart(y, m + 1) \in Int
  <2>1. DayOf(y, m, 1) = MonthStart(y, m)
    BY DEF MonthStart
  <2>2. 0 \in Int
    OBVIOUS
  <2>3. QED
    BY <1>1, <2>1, <2>2, DaysCount, Zenon
<1>3. /\ c \in Int /\ Year(c) \in Int /\ Month(c) \in 1..12
      /\ MonthStart(Year(c), Month(c)) <= c /\ c < MonthStart(Year(c), Month(c) + 1)
  BY DateIs
<1>4. DayOf(y, m, 1) <= c /\ c <= DayOf(y, m + 1, 0)
        <=> MonthStart(y, m) <= c /\ c < MonthStart(y, m + 1)
  BY <1>2, <1>3
<1>5. MonthStart(y, m) <= c /\ c < MonthStart(y, m + 1) <=> Year(c) = y /\ Month(c) = m
  BY <1>3, DateOfDay
<1>6. 12 * Year(c) + Month(c) = 12 * y + m <=> Year(c) = y /\ Month(c) = m
  BY <1>1, <1>3
<1>7. QED
  BY <1>4, <1>5, <1>6

\* From 1 January to 31 December are the days of the year.
LEMMA DaysOfYear ==
  ASSUME NEW y \in Years, NEW c \in Calendar
  PROVE  DayOf(y, 1, 1) <= c /\ c <= DayOf(y, 12, 31) <=> Year(c) = y
<1>1. y \in Int
  BY YearAssumption DEF Years
<1>2. Leap(y) \in 0..1 /\ YearStart(y) \in Int /\ YearStart(y + 1) = YearStart(y) + 365 + Leap(y)
  BY <1>1, YearLength DEF Leap
<1>3. DayOf(y, 1, 1) = YearStart(y)
  BY <1>1, MonthStarts DEF MonthStart
<1>4. DayOf(y, 12, 31) = YearStart(y + 1) - 1
  <2>1. DayOf(y, 12, 31) = MonthStart(y, 12) + 31 - 1
    BY <1>1, DaysCount
  <2>2. MonthStart(y, 12) = YearStart(y) + 334 + Leap(y)
    BY <1>1, MonthStarts
  <2>3. QED
    BY <1>2, <2>1, <2>2
<1>5. /\ c \in Int /\ Year(c) \in Int
      /\ YearStart(Year(c)) <= c /\ c < YearStart(Year(c) + 1)
  BY DateIs
<1>6. /\ Year(c) < y => YearStart(Year(c) + 1) <= YearStart(y)
      /\ y < Year(c) => YearStart(y + 1) <= YearStart(Year(c))
  BY <1>1, <1>5, YearsInOrder
<1>7. /\ YearStart(Year(c)) \in Int /\ YearStart(Year(c) + 1) \in Int
      /\ YearStart(y + 1) \in Int
  BY <1>1, <1>5, YearLength
<1> DEFINE x == Year(c)
<1> HIDE DEF x
<1>8. x = Year(c)
  BY DEF x
<1>9. QED
  BY <1>1, <1>2, <1>3, <1>4, <1>5, <1>6, <1>7, <1>8

\* The days that go by, and the year before them, are in the calendar.
LEMMA DaysInCalendar ==
  ASSUME NEW n \in Days
  PROVE  n \in Calendar /\ Year(n) - 1 \in Years
<1>1. FirstYear \in Int /\ LastYear \in Int
  BY YearAssumption
<1>2. /\ YearStart(FirstYear) \in Int /\ YearStart(FirstYear + 1) \in Int
      /\ YearStart(LastYear + 1) \in Int
      /\ YearStart(FirstYear) <= YearStart(FirstYear + 1)
  BY <1>1, YearLength DEF Leap
<1>3. n \in Int /\ YearStart(FirstYear + 1) <= n /\ n < YearStart(LastYear + 1)
  BY <1>1, <1>2, DayAssumption
<1>4. n \in Calendar
  BY <1>2, <1>3 DEF Calendar
<1>5. Year(n) \in Years /\ n < YearStart(Year(n) + 1)
  BY <1>4, DateIs
<1>6. Year(n) # FirstYear
  BY <1>2, <1>3, <1>5
<1>7. QED
  BY <1>1, <1>4, <1>5, <1>6 DEF Years

\* The day before a month is in the calendar.
LEMMA DayBeforeMonth ==
  ASSUME NEW n \in Days
  PROVE  StartOfMonth(n) - 1 \in Calendar
<1> DEFINE y == Year(n)
           m == Month(n)
<1>1. n \in Calendar /\ y - 1 \in Years
  BY DaysInCalendar
<1>2. y \in Int /\ m \in 1..12 /\ n \in Int /\ MonthStart(y, m) <= n
  BY <1>1, DateIs
<1> HIDE DEF y, m
<1>3. StartOfMonth(n) = MonthStart(y, m)
  BY DEF StartOfMonth, MonthStart, y, m
<1>4. FirstYear \in Int /\ LastYear \in Int /\ FirstYear < y
  BY <1>1, <1>2, YearAssumption DEF Years
<1>5. /\ YearStart(FirstYear) \in Int /\ YearStart(LastYear + 1) \in Int
      /\ YearStart(FirstYear + 1) = YearStart(FirstYear) + 365 + Leap(FirstYear)
      /\ Leap(FirstYear) \in 0..1 /\ Leap(y) \in 0..1 /\ YearStart(y) \in Int
      /\ YearStart(FirstYear + 1) <= YearStart(y)
  BY <1>2, <1>4, YearLength, YearsInOrder DEF Leap
<1>6. YearStart(y) <= MonthStart(y, m) /\ MonthStart(y, m) \in Int
  BY <1>2, <1>5, MonthStarts
<1>7. QED
  BY <1>1, <1>2, <1>3, <1>5, <1>6 DEF Calendar

\* setMonth(getMonth() - 1) reaches the month before when that month has the day,
\* and stays in the present month when it does not.
LEMMA MonthBefore ==
  ASSUME NEW n \in Days
  PROVE  \E y \in Years, m \in 1..12 :
           /\ 12 * y + m = 12 * Year(n) + Month(n) - 1
           /\ DayOfMonth(n) <= DayOfMonth(StartOfMonth(n) - 1) =>
                /\ SetMonth(n, Month(n) - 1) \in Calendar
                /\ Year(SetMonth(n, Month(n) - 1)) = y
                /\ Month(SetMonth(n, Month(n) - 1)) = m
           /\ DayOfMonth(n) > DayOfMonth(StartOfMonth(n) - 1) =>
                /\ Year(SetMonth(n, Month(n) - 1)) = Year(n)
                /\ Month(SetMonth(n, Month(n) - 1)) = Month(n)
<1> DEFINE y == Year(n)
           m == Month(n)
           d == DayOfMonth(n)
           z == IF m = 1 THEN y - 1 ELSE y
           k == IF m = 1 THEN 12 ELSE m - 1
<1>1. n \in Calendar /\ y - 1 \in Years
  BY DaysInCalendar
<1>2. y \in Years /\ m \in 1..12 /\ d \in 1..31 /\ y \in Int /\ n \in Int
      /\ MonthStart(y, m) <= n /\ n = MonthStart(y, m) + d - 1
  BY <1>1, DateIs
<1> HIDE DEF y, m, d
<1>3. z \in Years /\ k \in 1..12 /\ 12 * z + k = 12 * y + m - 1 /\ z \in Int
  BY <1>1, <1>2
<1>4. MonthStart(z, k) = MonthStart(y, m - 1) /\ MonthStart(z, k + 1) = MonthStart(y, m)
  <2>1. CASE m = 1
    <3>1. /\ MonthStart(y, 0) = YearStart(y) - 31 /\ MonthStart(y, 1) = YearStart(y)
          /\ MonthStart(y - 1, 12) = YearStart(y - 1) + 334 + Leap(y - 1)
          /\ MonthStart(y - 1, 13) = YearStart((y - 1) + 1)
      BY <1>2, MonthStarts
    <3>2. /\ YearStart((y - 1) + 1) = YearStart(y - 1) + 365 + Leap(y - 1)
          /\ YearStart(y - 1) \in Int /\ Leap(y - 1) \in 0..1
      BY <1>2, YearLength DEF Leap
    <3>3. (y - 1) + 1 = y /\ 12 + 1 = 13 /\ m - 1 = 0 /\ z = y - 1 /\ k = 12
      BY <1>2, <2>1
    <3> HIDE DEF z, k
    <3>4. QED
      BY <2>1, <3>1, <3>2, <3>3
  <2>2. CASE m # 1
    BY <1>2, <2>2
  <2>3. QED
    BY <2>1, <2>2
<1> DEFINE t == SetMonth(n, m - 1)
           u == StartOfMonth(n) - 1
<1>5. StartOfMonth(n) = MonthStart(y, m)
  BY DEF StartOfMonth, MonthStart, y, m
<1>6. t = MonthStart(y, m - 1) + d - 1
  <2>1. m - 1 \in 0..13
    BY <1>2
  <2>2. QED
    <3>1. t = DayOf(y, m - 1, d) /\ d \in Int
      BY <1>2 DEF SetMonth, y, d
    <3>2. QED
      BY <1>2, <2>1, <3>1, DaysCount, Zenon
<1> HIDE DEF z, k, t, u
<1>7. /\ MonthStart(z, k) \in Int /\ MonthStart(z, k + 1) \in Int
      /\ MonthStart(z, k) + 28 <= MonthStart(z, k + 1)
  <2>1. z \in Int /\ k \in 0..12
    BY <1>3
  <2>2. QED
    BY <2>1, MonthsInOrder, Zenon
<1>8. \A v \in Int : MonthStart(z, k) <= v /\ v < MonthStart(z, k + 1) => v \in Calendar
  <2>1. FirstYear \in Int /\ LastYear \in Int /\ y <= LastYear /\ FirstYear <= y - 1
    BY <1>1, <1>2, YearAssumption DEF Years
  <2>2. z >= FirstYear
    BY <1>3, <2>1 DEF Years
  <2>3. YearStart(FirstYear) <= YearStart(z)
    <3>1. YearStart(FirstYear) \in Int /\ YearStart(FirstYear + 1) = YearStart(FirstYear) + 365 + Leap(FirstYear)
      BY <2>1, YearLength
    <3>2. FirstYear < z => YearStart(FirstYear + 1) <= YearStart(z)
      BY <1>3, <2>1, YearsInOrder
    <3>3. Leap(FirstYear) \in 0..1 /\ YearStart(z) \in Int
      BY <1>3, YearLength DEF Leap
    <3>4. QED
      BY <1>3, <2>1, <2>2, <3>1, <3>2, <3>3
  <2>4. YearStart(z) <= MonthStart(z, k)
    <3>1. Leap(z) \in 0..1 /\ YearStart(z) \in Int
      BY <1>3, YearLength DEF Leap
    <3>2. QED
      BY <1>3, <3>1, MonthStarts
  <2>5. YearStart(FirstYear) \in Int /\ YearStart(LastYear + 1) \in Int /\ YearStart(z) \in Int
    BY <1>3, <2>1, YearLength
  <2>6. n < YearStart(LastYear + 1)
    BY <1>1, <1>2, <2>5 DEF Calendar
  <2>7. QED
    BY <1>2, <1>4, <1>7, <2>3, <2>4, <2>5, <2>6 DEF Calendar
<1>9. DayOfMonth(u) = MonthStart(z, k + 1) - MonthStart(z, k)
  <2>1. u = MonthStart(z, k + 1) - 1
    BY <1>4, <1>5 DEF u
  <2>2. u \in Int /\ MonthStart(z, k) <= u /\ u < MonthStart(z, k + 1)
    BY <1>7, <2>1
  <2>3. DayOfMonth(u) = u - MonthStart(z, k) + 1
    BY <1>3, <1>8, <2>2, DateOfDay
  <2>4. QED
    BY <1>7, <2>1, <2>3
<1>10. ASSUME d <= DayOfMonth(u)
       PROVE  t \in Calendar /\ Year(t) = z /\ Month(t) = k
  <2>1. t \in Int /\ MonthStart(z, k) <= t /\ t < MonthStart(z, k + 1)
    BY <1>2, <1>4, <1>6, <1>7, <1>9, <1>10
  <2>2. QED
    BY <1>3, <1>8, <2>1, DateOfDay
<1>11. ASSUME d > DayOfMonth(u)
       PROVE  Year(t) = y /\ Month(t) = m
  <2>1. /\ MonthStart(y, m) \in Int /\ MonthStart(y, m + 1) \in Int
        /\ MonthStart(y, m) + 28 <= MonthStart(y, m + 1)
    <3>1. m \in 0..12
      BY <1>2
    <3>2. QED
      BY <1>2, <3>1, MonthsInOrder, Zenon
  <2>2. t \in Int /\ MonthStart(y, m) <= t /\ t < MonthStart(y, m + 1) /\ t <= n
    BY <1>2, <1>4, <1>6, <1>7, <1>9, <1>11, <2>1
  <2>3. YearStart(FirstYear) <= MonthStart(z, k)
    <3>1. MonthStart(z, k) \in Calendar
      BY <1>7, <1>8
    <3>2. YearStart(FirstYear) \in Int /\ YearStart(LastYear + 1) \in Int
      BY YearAssumption DEF YearStart
    <3>3. QED
      BY <3>1, <3>2 DEF Calendar
  <2>4. t \in Calendar
    <3>1. YearStart(FirstYear) \in Int /\ YearStart(LastYear + 1) \in Int
      BY YearAssumption DEF YearStart
    <3>2. MonthStart(z, k) <= t
      BY <1>4, <1>7, <2>2
    <3>3. QED
      BY <1>1, <1>2, <1>7, <2>2, <2>3, <3>1, <3>2 DEF Calendar
  <2>5. QED
    BY <1>2, <2>2, <2>4, DateOfDay
<1>12. QED
  BY <1>3, <1>10, <1>11 DEF t, u, y, m, d

\* setFullYear(getFullYear() - 1) reaches the year before, on 29 February too.
LEMMA YearBefore ==
  ASSUME NEW n \in Days
  PROVE  /\ SetFullYear(n, Year(n) - 1) \in Calendar
         /\ Year(SetFullYear(n, Year(n) - 1)) = Year(n) - 1
<1> DEFINE y == Year(n) - 1
           m == Month(n)
           d == DayOfMonth(n)
           t == SetFullYear(n, y)
<1>1. n \in Calendar /\ y \in Years
  BY DaysInCalendar
<1>2. /\ m \in 1..12 /\ d \in 1..31 /\ Year(n) \in Int /\ n \in Int
      /\ n = MonthStart(Year(n), m) + d - 1 /\ n < MonthStart(Year(n), m + 1)
  BY <1>1, DateIs
<1>3. y \in Int /\ m \in 0..13
  BY <1>2
<1>4. t = MonthStart(y, m) + d - 1
  <2>1. t = DayOf(y, m, d) /\ d \in Int
    BY <1>2 DEF SetFullYear
  <2> HIDE DEF t, m, d, y
  <2>2. QED
    BY <1>3, <2>1, DaysCount, Zenon
<1> HIDE DEF y, m, d, t
<1>5. Leap(y) \in 0..1 /\ YearStart(y) \in Int /\ YearStart(y + 1) = YearStart(y) + 365 + Leap(y)
  BY <1>3, YearLength DEF Leap
<1>6. YearStart(y) <= MonthStart(y, m) /\ MonthStart(y, m) + 30 <= YearStart(y + 1) - 1
      /\ MonthStart(y, m) \in Int
  BY <1>2, <1>3, <1>5, MonthStarts
<1>7. t \in Int /\ YearStart(y) <= t /\ t < YearStart(y + 1)
  BY <1>2, <1>4, <1>5, <1>6
<1>8. t \in Calendar
  <2>1. FirstYear \in Int /\ LastYear \in Int /\ FirstYear <= y /\ y <= LastYear
    BY <1>1, <1>3, YearAssumption DEF Years
  <2>2. /\ FirstYear < y => YearStart(FirstYear + 1) <= YearStart(y)
        /\ y < LastYear => YearStart(y + 1) <= YearStart(LastYear)
    BY <1>3, <2>1, YearsInOrder
  <2>3. /\ YearStart(FirstYear) \in Int /\ YearStart(LastYear) \in Int
        /\ YearStart(FirstYear + 1) = YearStart(FirstYear) + 365 + Leap(FirstYear)
        /\ YearStart(LastYear + 1) = YearStart(LastYear) + 365 + Leap(LastYear)
        /\ Leap(FirstYear) \in 0..1 /\ Leap(LastYear) \in 0..1
    BY <2>1, YearLength DEF Leap
  <2>4. YearStart(FirstYear) <= YearStart(y) /\ YearStart(y + 1) <= YearStart(LastYear + 1)
    BY <1>3, <1>5, <2>1, <2>2, <2>3
  <2>5. QED
    BY <1>5, <1>7, <2>3, <2>4 DEF Calendar
<1>9. PICK k \in 1..12 : MonthStart(y, k) <= t /\ t < MonthStart(y, k + 1)
  BY <1>3, <1>7, MonthOfDay
<1>10. Year(t) = y
  BY <1>1, <1>8, <1>9, DateOfDay
<1>11. QED
  BY <1>8, <1>10 DEF t, y

Inside(c, range) == c >= range[1] /\ c <= range[2]

\* Each current range holds the days of the present period, and each previous one
\* those of the period before, of the month on the days the month before has.
LEMMA RangesFollow ==
  ASSUME today \in Days, NEW c \in Days, NEW kind \in Kinds
  PROVE  /\ Inside(c, Current(kind)) <=> Period(kind, c) = Period(kind, today)
         /\ (kind # "month" \/ LastMonthHasToday) =>
              (Inside(c, Previous(kind)) <=> Period(kind, c) = Period(kind, today) - 1)
<1> DEFINE y == Year(today)
           m == Month(today)
<1>1. today \in Calendar /\ y - 1 \in Years /\ c \in Calendar
  BY DaysInCalendar
<1>2. /\ today \in Int /\ y \in Years /\ y \in Int /\ m \in 1..12
      /\ c \in Int /\ Year(c) \in Int /\ Month(c) \in 1..12
  BY <1>1, DateIs
<1>3. CASE kind = "day"
  <2>1. /\ Current(kind) = <<today, today>>
        /\ Previous(kind) = <<today - 1, today - 1>>
        /\ Period(kind, c) = c /\ Period(kind, today) = today
    BY <1>3 DEF Current, Previous, Period
  <2>2. QED
    BY <1>2, <2>1 DEF Inside
<1>4. CASE kind = "week"
  <2>1. /\ Current(kind) = <<StartOfWeek(today), EndOfWeek(today)>>
        /\ Previous(kind) = <<StartOfWeek(today) - 7, EndOfWeek(today) - 7>>
        /\ Period(kind, c) = (c + 1) \div 7 /\ Period(kind, today) = (today + 1) \div 7
    BY <1>4 DEF Current, Previous, Period
  <2>2. \A a \in Int, b \in Int :
          /\ a >= b - ((b + 1) % 7) /\ a <= b - ((b + 1) % 7) + 6
               <=> (a + 1) \div 7 = (b + 1) \div 7
          /\ a >= b - ((b + 1) % 7) - 7 /\ a <= b - ((b + 1) % 7) + 6 - 7
               <=> (a + 1) \div 7 = ((b + 1) \div 7) - 1
    OBVIOUS
  <2>3. /\ Inside(c, Current(kind))
             <=> c >= today - ((today + 1) % 7) /\ c <= today - ((today + 1) % 7) + 6
        /\ Inside(c, Previous(kind))
             <=> c >= today - ((today + 1) % 7) - 7 /\ c <= today - ((today + 1) % 7) + 6 - 7
    BY <1>2, <2>1 DEF Inside, StartOfWeek, EndOfWeek, DayOfWeek
  <2>4. QED
    BY <1>2, <2>1, <2>2, <2>3
<1>5. CASE kind = "month"
  <2> DEFINE t == SetMonth(today, m - 1)
  <2>1. /\ Current(kind) = <<DayOf(y, m, 1), DayOf(y, m + 1, 0)>>
        /\ Previous(kind) = <<DayOf(Year(t), Month(t), 1), DayOf(Year(t), Month(t) + 1, 0)>>
        /\ Period(kind, c) = 12 * Year(c) + Month(c)
        /\ Period(kind, today) = 12 * y + m
    BY <1>5 DEF Current, Previous, Period, StartOfMonth, EndOfMonth
  <2>2. PICK z \in Years, k \in 1..12 :
          /\ 12 * z + k = 12 * y + m - 1
          /\ LastMonthHasToday => Year(t) = z /\ Month(t) = k
    BY MonthBefore, Zenon DEF LastMonthHasToday
  <2> HIDE DEF y, m, t
  <2>3. DayOf(y, m, 1) <= c /\ c <= DayOf(y, m + 1, 0)
          <=> 12 * Year(c) + Month(c) = 12 * y + m
    BY <1>1, <1>2, DaysOfMonth
  <2>4. DayOf(z, k, 1) <= c /\ c <= DayOf(z, k + 1, 0)
          <=> 12 * Year(c) + Month(c) = 12 * z + k
    BY <1>1, DaysOfMonth
  <2>5. Inside(c, Current(kind)) <=> Period(kind, c) = Period(kind, today)
    <3>1. Inside(c, Current(kind)) <=> DayOf(y, m, 1) <= c /\ c <= DayOf(y, m + 1, 0)
      BY <2>1 DEF Inside
    <3>2. QED
      BY <2>1, <2>3, <3>1
  <2>6. ASSUME LastMonthHasToday
        PROVE  Inside(c, Previous(kind)) <=> Period(kind, c) = Period(kind, today) - 1
    <3>1. Inside(c, Previous(kind)) <=> DayOf(z, k, 1) <= c /\ c <= DayOf(z, k + 1, 0)
      BY <2>1, <2>2, <2>6 DEF Inside
    <3>2. QED
      BY <1>2, <2>1, <2>2, <2>4, <3>1
  <2>7. QED
    BY <1>5, <2>5, <2>6
<1>6. CASE kind = "year"
  <2> DEFINE t == SetFullYear(today, y - 1)
  <2>1. /\ Current(kind) = <<DayOf(y, 1, 1), DayOf(y, 12, 31)>>
        /\ Previous(kind) = <<DayOf(Year(t), 1, 1), DayOf(Year(t), 12, 31)>>
        /\ Period(kind, c) = Year(c)
        /\ Period(kind, today) = y
    BY <1>6 DEF Current, Previous, Period, StartOfYear, EndOfYear
  <2>2. Year(t) = y - 1
    BY YearBefore
  <2> HIDE DEF y, t
  <2>3. DayOf(y, 1, 1) <= c /\ c <= DayOf(y, 12, 31) <=> Year(c) = y
    BY <1>1, <1>2, DaysOfYear
  <2>4. DayOf(y - 1, 1, 1) <= c /\ c <= DayOf(y - 1, 12, 31) <=> Year(c) = y - 1
    BY <1>1, DaysOfYear
  <2>5. /\ Inside(c, Current(kind)) <=> DayOf(y, 1, 1) <= c /\ c <= DayOf(y, 12, 31)
        /\ Inside(c, Previous(kind)) <=> DayOf(y - 1, 1, 1) <= c /\ c <= DayOf(y - 1, 12, 31)
    BY <2>1, <2>2 DEF Inside
  <2>6. QED
    BY <2>1, <2>3, <2>4, <2>5
<1>7. QED
  BY <1>3, <1>4, <1>5, <1>6 DEF Kinds

-----------------------------------------------------------------------------
(* The columns, by induction over the steps.                               *)

\* An order that is there was placed on a day that went by.
Columns ==
  /\ today \in Days
  /\ createdAt \in [Orders -> Days \cup {NoDay}]
  /\ status \in [Orders -> AnyStatus \cup {"none"}]
  /\ \A o \in Orders : status[o] # "none" => createdAt[o] \in Days

LEMMA ColumnsStep == Columns /\ [Next]_vars => Columns'
<1> SUFFICES ASSUME Columns, [Next]_vars PROVE Columns'
  OBVIOUS
<1> USE DEF Columns, AnyStatus
<1>1. CASE NextDay
  BY <1>1 DEF NextDay
<1>2. ASSUME NEW o \in Orders, Place(o) PROVE Columns'
  BY <1>2 DEF Place
<1>3. ASSUME NEW o \in Orders, Settle(o) PROVE Columns'
  BY <1>3 DEF Settle
<1>4. ASSUME NEW o \in Orders, Remove(o) PROVE Columns'
  BY <1>4 DEF Remove
<1>5. CASE UNCHANGED vars
  BY <1>5 DEF vars
<1>6. QED
  BY <1>1, <1>2, <1>3, <1>4, <1>5 DEF Next

LEMMA ColumnsInvariant == Spec => []Columns
<1>1. Init => Columns
  BY DEF Init, Columns, AnyStatus
<1>2. QED
  BY <1>1, ColumnsStep, PTL DEF Spec

-----------------------------------------------------------------------------
(* FollowsCalendar.                                                        *)

LEMMA FiguresFollow == Columns => FollowsCalendar
<1> SUFFICES ASSUME Columns, NEW kind \in Kinds
             PROVE  /\ Summary(Current(kind)) = SalesOf(kind, Period(kind, today))
                    /\ (kind # "month" \/ LastMonthHasToday) =>
                         Summary(Previous(kind)) = SalesOf(kind, Period(kind, today) - 1)
  BY DEF FollowsCalendar
<1>1. today \in Days
  BY DEF Columns
<1>2. ASSUME NEW i \in Items
      PROVE  i \in Completed <=> i.mine /\ status[i.order] = "CompletedPayment"
  <2>1. i.order \in Orders
    BY <1>2, ItemAssumption
  <2>2. status[i.order] # "Delivered"
    BY <2>1 DEF Columns, AnyStatus
  <2>3. QED
    BY <1>2, <2>2 DEF Completed, CompletedStatus
<1>3. ASSUME NEW i \in Completed
      PROVE  createdAt[i.order] \in Days
  <2>1. i \in Items /\ status[i.order] = "CompletedPayment"
    BY <1>2, <1>3 DEF Completed
  <2>2. QED
    BY <2>1, ItemAssumption DEF Columns
<1> DEFINE Sold(p) == {i \in Items : /\ i.mine /\ status[i.order] = "CompletedPayment"
                                     /\ Period(kind, createdAt[i.order]) = p}
<1>4. ASSUME NEW range, NEW p,
             \A c \in Days : Inside(c, range) <=> Period(kind, c) = p
      PROVE  Summary(range) = SalesOf(kind, p)
  <2>1. Within(range) = {i \in Completed : Inside(createdAt[i.order], range)}
    BY DEF Within, Inside
  <2>2. ASSUME NEW i \in Items PROVE i \in Within(range) <=> i \in Sold(p)
    <3>1. CASE i \in Completed
      BY <1>2, <1>3, <1>4, <2>1, <3>1
    <3>2. CASE i \notin Completed
      BY <1>2, <2>1, <3>2
    <3>3. QED
      BY <3>1, <3>2
  <2>3. Within(range) \subseteq Items /\ Sold(p) \subseteq Items
    BY DEF Within, Completed
  <2>4. Within(range) = Sold(p)
    BY <2>2, <2>3
  <2>5. QED
    BY <2>4 DEF Summary, SalesOf
<1>5. QED
  BY <1>1, <1>4, RangesFollow

\* For any days of the calendar, orders and items: the current figures are those
\* of the present period, and the previous ones those of the period before.
THEOREM CalendarFollowed == Spec => []FollowsCalendar
BY ColumnsInvariant, FiguresFollow, PTL

\* For any days of the calendar: on a day the month before does not have, the range
\* called the previous month is the present one (dashboard.service.ts:68), so the
\* overflow that run LastMonth shows has no other outcome.
THEOREM OverflowIsThisMonth ==
  Spec => [](~LastMonthHasToday => Previous("month") = Current("month"))
<1>1. Columns => (~LastMonthHasToday => Previous("month") = Current("month"))
  <2> SUFFICES ASSUME Columns, ~LastMonthHasToday
               PROVE  Previous("month") = Current("month")
    OBVIOUS
  <2> DEFINE t == SetMonth(today, Month(today) - 1)
  <2>1. today \in Days
    BY DEF Columns
  <2>2. DayOfMonth(today) > DayOfMonth(StartOfMonth(today) - 1)
    <3>1. today \in Calendar /\ StartOfMonth(today) - 1 \in Calendar
      BY <2>1, DaysInCalendar, DayBeforeMonth
    <3>2. DayOfMonth(today) \in Int /\ DayOfMonth(StartOfMonth(today) - 1) \in Int
      BY <3>1, DateIs
    <3>3. QED
      BY <3>2 DEF LastMonthHasToday
  <2>3. Year(t) = Year(today) /\ Month(t) = Month(today)
    BY <2>1, <2>2, MonthBefore
  <2>4. QED
    BY <2>3 DEF Previous, Current, StartOfMonth, EndOfMonth
<1>2. QED
  BY <1>1, ColumnsInvariant, PTL

-----------------------------------------------------------------------------
(* RateIsNearest.                                                          *)

\* Math.round is within a half of the quotient.
LEMMA RoundedIsNear ==
  ASSUME NEW x \in Int, NEW y \in Nat, y > 0
  PROVE  /\ Rounded(x, y) \in Int
         /\ 2 * (Rounded(x, y) * y - x) <= y
         /\ 2 * (x - Rounded(x, y) * y) < y
<1> DEFINE a == 2 * x + y
           d == 2 * y
           q == a \div d
<1>1. a \in Int /\ d \in Nat /\ d > 0
  OBVIOUS
<1> HIDE DEF a, d
<1>2. q \in Int /\ d * q <= a /\ a < d * (q + 1)
  BY <1>1
<1> HIDE DEF q
<1>3. d * q = 2 * (q * y) /\ d * (q + 1) = 2 * (q * y) + 2 * y
  BY <1>2 DEF d
<1>4. Rounded(x, y) = q
  BY DEF Rounded, q, a, d
<1> DEFINE p == q * y
<1>5. p \in Int
  BY <1>2
<1> HIDE DEF p
<1>6. 2 * p <= 2 * x + y /\ 2 * x + y < 2 * p + 2 * y
  BY <1>2, <1>3 DEF a, p
<1>7. 2 * (p - x) <= y /\ 2 * (x - p) < y
  BY <1>5, <1>6
<1>8. QED
  BY <1>2, <1>4, <1>7 DEF p

\* What an item is sold for, and the sales of a set of items.
Worth == [i \in Items |-> i.price * i.quantity]

LEMMA SalesAreNat ==
  ASSUME NEW I \in SUBSET Items
  PROVE  /\ IsFiniteSet(I) /\ \A i \in I : Worth[i] \in Nat
         /\ Sales(I) = SumFunctionOnSet(Worth, I)
         /\ Sales(I) \in Nat
<1>1. IsFiniteSet(I)
  BY ItemsFinite, FS_Subset
<1>2. \A i \in I : i.price \in Nat /\ i.quantity \in Nat
  BY ItemAssumption
<1>3. \A i \in I : Worth[i] = i.price * i.quantity /\ i.price * i.quantity \in Nat
  BY <1>2 DEF Worth
<1> DEFINE f == [i \in I |-> i.price * i.quantity]
<1>4. \A i \in I : f[i] = Worth[i]
  BY <1>3
<1>5. Sales(I) = SumFunctionOnSet(f, I)
  BY DEF Sales
<1> HIDE DEF f
<1>6. SumFunctionOnSet(f, I) = SumFunctionOnSet(Worth, I)
  BY <1>1, <1>4, SumAgrees
<1>7. SumFunctionOnSet(Worth, I) \in Nat
  BY <1>1, <1>3, SumIsNat
<1>8. QED
  BY <1>1, <1>3, <1>5, <1>6, <1>7

\* calculateChangeRate is the nearest whole number to the exact rate.
LEMMA RateIsNear ==
  ASSUME NEW c \in Nat, NEW p \in Nat
  PROVE  IF p = 0 THEN ChangeRate(c, p) = (IF c = 0 THEN 0 ELSE Infinite)
         ELSE /\ 2 * (ChangeRate(c, p) * p - 100 * (c - p)) <= p
              /\ 2 * (100 * (c - p) - ChangeRate(c, p) * p) <= p
<1>1. CASE p = 0
  BY <1>1 DEF ChangeRate
<1>2. CASE p # 0
  <2> DEFINE x == (c - p) * 100
             rate == ChangeRate(c, p)
             w == rate * p
  <2>1. rate = Rounded(x, p)
    BY <1>2 DEF ChangeRate
  <2>2. x \in Int /\ x = 100 * (c - p) /\ p > 0
    BY <1>2
  <2> HIDE DEF x, rate
  <2>3. rate \in Int /\ 2 * (w - x) <= p /\ 2 * (x - w) < p
    BY <2>1, <2>2, RoundedIsNear
  <2>4. w \in Int
    BY <2>3
  <2> HIDE DEF w
  <2>5. 2 * (w - 100 * (c - p)) <= p /\ 2 * (100 * (c - p) - w) <= p
    BY <2>2, <2>3, <2>4
  <2>6. QED
    BY <1>2, <2>5 DEF w, rate
<1>3. QED
  BY <1>1, <1>2

LEMMA RatesAreNearest == RateIsNearest
<1> DEFINE Figures == {"totalOrders", "totalSales"}
<1>1. ASSUME NEW range, NEW figure \in Figures PROVE Summary(range)[figure] \in Nat
  <2> DEFINE I == Within(range)
  <2>1. I \in SUBSET Items
    BY DEF Within, Completed
  <2>2. IsFiniteSet(I) /\ Sales(I) \in Nat
    BY <2>1, SalesAreNat
  <2>3. Cardinality({i.order : i \in I}) \in Nat
    <3> DEFINE T == {i.order : i \in I}
               f == [i \in I |-> i.order]
    <3> HIDE DEF I
    <3>1. f \in Surjection(I, T)
      BY DEF Surjection
    <3>2. IsFiniteSet(T)
      <4> HIDE DEF f, T
      <4> QED
        BY <2>2, <3>1, FS_Surjection
    <3>3. QED
      BY <3>2, FS_CardinalityType
  <2>4. Summary(range) = [totalOrders |-> Cardinality({i.order : i \in I}), totalSales |-> Sales(I)]
    BY DEF Summary
  <2> HIDE DEF I
  <2>5. QED
    BY <2>2, <2>3, <2>4
<1>2. ASSUME NEW kind \in Kinds, NEW figure \in Figures
      PROVE  /\ Summary(Current(kind))[figure] \in Nat
             /\ Summary(Previous(kind))[figure] \in Nat
  BY <1>1
<1> DEFINE Near(c, p) ==
             IF p = 0 THEN ChangeRate(c, p) = (IF c = 0 THEN 0 ELSE Infinite)
             ELSE /\ 2 * (ChangeRate(c, p) * p - 100 * (c - p)) <= p
                  /\ 2 * (100 * (c - p) - ChangeRate(c, p) * p) <= p
<1>3. \A c \in Nat, p \in Nat : Near(c, p)
  BY RateIsNear
<1> HIDE DEF Near
<1>4. \A kind \in Kinds, figure \in Figures :
        Near(Summary(Current(kind))[figure], Summary(Previous(kind))[figure])
  BY <1>2, <1>3, Zenon
<1>5. QED
  BY <1>4, Zenon DEF RateIsNearest, Near

\* For any sales, each change rate is the nearest whole number.
THEOREM RatesRounded == Spec => []RateIsNearest
BY RatesAreNearest, PTL

-----------------------------------------------------------------------------
(* TypeOK: the price ranges divide the sales.                              *)

LEMMA SumOfFive ==
  ASSUME NEW f, \A r \in PriceRanges : f[r] \in Int
  PROVE  SumFunctionOnSet(f, PriceRanges) = f[1] + f[2] + f[3] + f[4] + f[5]
<1>1. PriceRanges = {1, 2, 3, 4, 5}
  BY DEF PriceRanges
<1>2. f[1] \in Int /\ f[2] \in Int /\ f[3] \in Int /\ f[4] \in Int /\ f[5] \in Int
  BY <1>1
<1> DEFINE Sum(S) == SumFunctionOnSet(f, S)
<1>3. ASSUME NEW S \in SUBSET PriceRanges, NEW x \in PriceRanges, x \notin S
      PROVE  Sum(S \cup {x}) = f[x] + Sum(S)
  <2>1. IsFiniteSet(S)
    <3>1. 1 \in Int /\ 5 \in Int
      OBVIOUS
    <3>2. IsFiniteSet(PriceRanges)
      BY <3>1, FS_Interval, Zenon DEF PriceRanges
    <3>3. QED
      BY <3>2, FS_Subset
  <2>2. f[x] \in Int /\ \A y \in S : f[y] \in Int
    OBVIOUS
  <2>3. QED
    BY <1>3, <2>1, <2>2, SumInsert
<1>4. Sum({}) = 0
  BY SumEmpty
<1> HIDE DEF Sum
<1>5. Sum({1}) = f[1] + Sum({})
  <2>1. {} \in SUBSET PriceRanges /\ 1 \in PriceRanges /\ 1 \notin {} /\ {} \cup {1} = {1}
    BY <1>1
  <2>2. QED
    BY <1>3, <2>1, Zenon
<1>6. Sum({1, 2}) = f[2] + Sum({1})
  <2>1. {1} \in SUBSET PriceRanges /\ 2 \in PriceRanges /\ 2 \notin {1} /\ {1} \cup {2} = {1, 2}
    BY <1>1
  <2>2. QED
    BY <1>3, <2>1, Zenon
<1>7. Sum({1, 2, 3}) = f[3] + Sum({1, 2})
  <2>1. {1, 2} \in SUBSET PriceRanges /\ 3 \in PriceRanges /\ 3 \notin {1, 2}
          /\ {1, 2} \cup {3} = {1, 2, 3}
    BY <1>1
  <2>2. QED
    BY <1>3, <2>1, Zenon
<1>8. Sum({1, 2, 3, 4}) = f[4] + Sum({1, 2, 3})
  <2>1. {1, 2, 3} \in SUBSET PriceRanges /\ 4 \in PriceRanges /\ 4 \notin {1, 2, 3}
          /\ {1, 2, 3} \cup {4} = {1, 2, 3, 4}
    BY <1>1
  <2>2. QED
    BY <1>3, <2>1, Zenon
<1>9. Sum({1, 2, 3, 4, 5}) = f[5] + Sum({1, 2, 3, 4})
  <2>1. {1, 2, 3, 4} \in SUBSET PriceRanges /\ 5 \in PriceRanges /\ 5 \notin {1, 2, 3, 4}
          /\ {1, 2, 3, 4} \cup {5} = {1, 2, 3, 4, 5}
    BY <1>1
  <2>2. QED
    BY <1>3, <2>1, Zenon
<1>10. Sum({1, 2, 3, 4, 5}) = f[1] + f[2] + f[3] + f[4] + f[5]
  BY <1>2, <1>4, <1>5, <1>6, <1>7, <1>8, <1>9
<1>11. QED
  BY <1>1, <1>10 DEF Sum

\* A price is in one of the five ranges and in one only.
LEMMA OneRange ==
  ASSUME NEW p \in Nat
  PROVE  \E r \in PriceRanges : InRange(p, r) /\ \A q \in PriceRanges : InRange(p, q) => q = r
<1>1. /\ FirstPrice[1] = 0 /\ FirstPrice[2] = 10001 /\ FirstPrice[3] = 30001
      /\ FirstPrice[4] = 50001 /\ FirstPrice[5] = 100001
      /\ LastPrice[1] = 10000 /\ LastPrice[2] = 30000
      /\ LastPrice[3] = 50000 /\ LastPrice[4] = 100000
  BY DEF FirstPrice, LastPrice
<1>2. /\ InRange(p, 1) <=> p <= 10000
      /\ InRange(p, 2) <=> p >= 10001 /\ p <= 30000
      /\ InRange(p, 3) <=> p >= 30001 /\ p <= 50000
      /\ InRange(p, 4) <=> p >= 50001 /\ p <= 100000
      /\ InRange(p, 5) <=> p >= 100001
  BY <1>1 DEF InRange, UpTo
<1>3. \A q \in PriceRanges : q = 1 \/ q = 2 \/ q = 3 \/ q = 4 \/ q = 5
  BY DEF PriceRanges
<1>4. 1 \in PriceRanges /\ 2 \in PriceRanges /\ 3 \in PriceRanges /\ 4 \in PriceRanges /\ 5 \in PriceRanges
  BY DEF PriceRanges
<1>5. CASE p <= 10000
  BY <1>2, <1>3, <1>4, <1>5
<1>6. CASE p >= 10001 /\ p <= 30000
  BY <1>2, <1>3, <1>4, <1>6
<1>7. CASE p >= 30001 /\ p <= 50000
  BY <1>2, <1>3, <1>4, <1>7
<1>8. CASE p >= 50001 /\ p <= 100000
  BY <1>2, <1>3, <1>4, <1>8
<1>9. CASE p >= 100001
  BY <1>2, <1>3, <1>4, <1>9
<1>10. QED
  BY <1>5, <1>6, <1>7, <1>8, <1>9

LEMMA RangesDivide ==
  /\ \A r \in PriceRanges : RangeSales(r) \in Nat
  /\ RangeTotal = RangeSales(1) + RangeSales(2) + RangeSales(3) + RangeSales(4) + RangeSales(5)
  /\ RangeTotal = Sales(Completed)
<1> DEFINE C(r) == {i \in Completed : InRange(i.price, r)}
           Sum(I) == SumFunctionOnSet(Worth, I)
<1>1. Completed \subseteq Items /\ \A r \in PriceRanges : C(r) \in SUBSET Completed
  BY DEF Completed
<1>2. \A I \in SUBSET Completed :
        /\ IsFiniteSet(I) /\ \A i \in I : Worth[i] \in Int
        /\ Sales(I) = Sum(I) /\ Sum(I) \in Nat
  BY <1>1, SalesAreNat
<1>3. \A r \in PriceRanges : RangeSales(r) = Sum(C(r)) /\ RangeSales(r) \in Nat
  <2> SUFFICES ASSUME NEW r \in PriceRanges
               PROVE  RangeSales(r) = Sum(C(r)) /\ RangeSales(r) \in Nat
    OBVIOUS
  <2>1. RangeSales(r) = Sales(C(r))
    BY DEF RangeSales
  <2> HIDE DEF C, Sum
  <2>2. QED
    BY <1>1, <1>2, <2>1
<1>4. /\ 1 \in PriceRanges /\ 2 \in PriceRanges /\ 3 \in PriceRanges
      /\ 4 \in PriceRanges /\ 5 \in PriceRanges
  BY DEF PriceRanges
<1>5. RangeTotal = RangeSales(1) + RangeSales(2) + RangeSales(3) + RangeSales(4) + RangeSales(5)
  <2> DEFINE f == [r \in PriceRanges |-> RangeSales(r)]
  <2>1. \A r \in PriceRanges : f[r] = RangeSales(r) /\ f[r] \in Int
    <3>1. \A r \in PriceRanges : RangeSales(r) \in Int
      <4> HIDE DEF C, Sum
      <4> QED
        BY <1>3
    <3>2. QED
      BY <3>1
  <2>2. RangeTotal = SumFunctionOnSet(f, PriceRanges)
    BY DEF RangeTotal
  <2> HIDE DEF f
  <2>3. SumFunctionOnSet(f, PriceRanges) = f[1] + f[2] + f[3] + f[4] + f[5]
    BY <2>1, SumOfFive
  <2>4. QED
    BY <1>4, <2>1, <2>2, <2>3
<1>6. \A i \in Completed : \E r \in PriceRanges :
        i \in C(r) /\ \A q \in PriceRanges : i \in C(q) => q = r
  <2>1. \A i \in Completed : i.price \in Nat
    BY <1>1, ItemAssumption
  <2>2. QED
    BY <2>1, OneRange
<1>7. \A r \in PriceRanges : r = 1 \/ r = 2 \/ r = 3 \/ r = 4 \/ r = 5
  BY DEF PriceRanges
<1> HIDE DEF C
<1> DEFINE R1 == Completed \ C(1)
           R2 == R1 \ C(2)
           R3 == R2 \ C(3)
           R4 == R3 \ C(4)
<1>8. C(2) \subseteq R1 /\ C(3) \subseteq R2 /\ C(4) \subseteq R3 /\ C(5) = R4
  <2>1. \A q \in PriceRanges, r \in PriceRanges : q # r => C(q) \cap C(r) = {}
    BY <1>1, <1>6
  <2>2. Completed \subseteq C(1) \cup C(2) \cup C(3) \cup C(4) \cup C(5)
    BY <1>6, <1>7
  <2>3. /\ C(1) \cap C(2) = {} /\ C(1) \cap C(3) = {} /\ C(1) \cap C(4) = {}
        /\ C(1) \cap C(5) = {} /\ C(2) \cap C(3) = {} /\ C(2) \cap C(4) = {}
        /\ C(2) \cap C(5) = {} /\ C(3) \cap C(4) = {} /\ C(3) \cap C(5) = {}
        /\ C(4) \cap C(5) = {}
    BY <1>4, <2>1
  <2>4. /\ C(1) \subseteq Completed /\ C(2) \subseteq Completed /\ C(3) \subseteq Completed
        /\ C(4) \subseteq Completed /\ C(5) \subseteq Completed
    BY <1>1, <1>4
  <2>5. QED
    BY <2>2, <2>3, <2>4
<1>9. ASSUME NEW S \in SUBSET Completed, NEW T \in SUBSET S
      PROVE  Sum(S) = Sum(T) + Sum(S \ T)
  BY <1>2, SumSplits
<1>10. R1 \in SUBSET Completed /\ R2 \in SUBSET Completed /\ R3 \in SUBSET Completed
         /\ R4 \in SUBSET Completed
  OBVIOUS
<1>11. Sum(Completed) = Sum(C(1)) + Sum(R1)
  BY <1>1, <1>4, <1>9
<1>12. Sum(R1) = Sum(C(2)) + Sum(R2) /\ Sum(R2) = Sum(C(3)) + Sum(R3)
         /\ Sum(R3) = Sum(C(4)) + Sum(R4)
  BY <1>8, <1>9, <1>10
<1>13. /\ Sum(Completed) \in Nat /\ Sum(R1) \in Nat /\ Sum(R2) \in Nat
       /\ Sum(R3) \in Nat /\ Sum(R4) \in Nat /\ Sales(Completed) = Sum(Completed)
  BY <1>2, <1>10
<1>14. /\ Sum(C(1)) = RangeSales(1) /\ Sum(C(2)) = RangeSales(2) /\ Sum(C(3)) = RangeSales(3)
       /\ Sum(C(4)) = RangeSales(4) /\ Sum(R4) = RangeSales(5)
       /\ RangeSales(1) \in Nat /\ RangeSales(2) \in Nat /\ RangeSales(3) \in Nat
       /\ RangeSales(4) \in Nat /\ RangeSales(5) \in Nat
  BY <1>3, <1>4, <1>8
<1> HIDE DEF Sum, R1, R2, R3, R4
<1>15. RangeTotal = Sales(Completed)
  BY <1>5, <1>11, <1>12, <1>13, <1>14
<1>16. QED
  BY <1>3, <1>5, <1>15

\* Five shares, each within half a tenth, add up to all within two tenths.
LEMMA SharesAddUp ==
  ASSUME RangeTotal > 0
  PROVE  SumFunctionOnSet([r \in PriceRanges |-> Share(r)], PriceRanges)
           \in (1000 - 2)..(1000 + 2)
<1> DEFINE T == RangeTotal
           x(r) == RangeSales(r) * 1000
           q(r) == Share(r)
           w(r) == q(r) * T
<1>1. /\ 1 \in PriceRanges /\ 2 \in PriceRanges /\ 3 \in PriceRanges
      /\ 4 \in PriceRanges /\ 5 \in PriceRanges
  BY DEF PriceRanges
<1>2. \A r \in PriceRanges : RangeSales(r) \in Nat
  BY RangesDivide
<1>3. T \in Nat /\ T > 0
  BY <1>1, <1>2, RangesDivide
<1>4. x(1) + x(2) + x(3) + x(4) + x(5) = 1000 * T
  BY <1>1, <1>2, RangesDivide
<1>5. ASSUME NEW r \in PriceRanges
      PROVE  /\ q(r) \in Int /\ w(r) \in Int /\ x(r) \in Int
             /\ 2 * (w(r) - x(r)) <= T /\ 2 * (x(r) - w(r)) < T
  <2>1. x(r) \in Int
    BY <1>2, <1>5
  <2>2. q(r) = Rounded(x(r), T)
    BY <1>3 DEF Share
  <2> HIDE DEF x, q, T
  <2>3. /\ q(r) \in Int /\ 2 * (q(r) * T - x(r)) <= T /\ 2 * (x(r) - q(r) * T) < T
    BY <1>3, <2>1, <2>2, RoundedIsNear
  <2>4. q(r) * T \in Int
    BY <1>3, <2>3
  <2>5. QED
    BY <2>1, <2>3, <2>4
<1> DEFINE f == [r \in PriceRanges |-> Share(r)]
           Q == q(1) + q(2) + q(3) + q(4) + q(5)
<1>6. SumFunctionOnSet(f, PriceRanges) = Q
  <2>1. \A r \in PriceRanges : f[r] = q(r) /\ f[r] \in Int
    BY <1>5
  <2> HIDE DEF f, q
  <2>2. SumFunctionOnSet(f, PriceRanges) = f[1] + f[2] + f[3] + f[4] + f[5]
    BY <2>1, SumOfFive
  <2>3. QED
    BY <1>1, <2>1, <2>2
<1> HIDE DEF x, q, T, f
<1>7. /\ q(1) \in Int /\ q(2) \in Int /\ q(3) \in Int /\ q(4) \in Int /\ q(5) \in Int
  BY <1>1, <1>5
<1>8. Q \in Int /\ Q * T = w(1) + w(2) + w(3) + w(4) + w(5)
  BY <1>3, <1>7
<1> HIDE DEF w, Q
<1>9. 2 * (Q * T - 1000 * T) <= 5 * T /\ 2 * (1000 * T - Q * T) < 5 * T
  <2>1. /\ 2 * (w(1) - x(1)) <= T /\ 2 * (w(2) - x(2)) <= T /\ 2 * (w(3) - x(3)) <= T
        /\ 2 * (w(4) - x(4)) <= T /\ 2 * (w(5) - x(5)) <= T
    BY <1>1, <1>5
  <2>2. /\ 2 * (x(1) - w(1)) < T /\ 2 * (x(2) - w(2)) < T /\ 2 * (x(3) - w(3)) < T
        /\ 2 * (x(4) - w(4)) < T /\ 2 * (x(5) - w(5)) < T
    BY <1>1, <1>5
  <2>3. /\ w(1) \in Int /\ w(2) \in Int /\ w(3) \in Int /\ w(4) \in Int /\ w(5) \in Int
        /\ x(1) \in Int /\ x(2) \in Int /\ x(3) \in Int /\ x(4) \in Int /\ x(5) \in Int
    BY <1>1, <1>5
  <2>4. QED
    BY <1>3, <1>4, <1>8, <2>1, <2>2, <2>3
<1>10. Q <= 1002
  <2> SUFFICES ASSUME Q >= 1003 PROVE FALSE
    BY <1>8
  <2>1. 1003 * T <= Q * T
    BY <1>3, <1>8
  <2>2. Q * T \in Int
    BY <1>3, <1>8
  <2>3. QED
    BY <1>3, <1>9, <2>1, <2>2
<1>11. Q >= 998
  <2> SUFFICES ASSUME Q <= 997 PROVE FALSE
    BY <1>8
  <2>1. Q * T <= 997 * T
    BY <1>3, <1>8
  <2>2. Q * T \in Int
    BY <1>3, <1>8
  <2>3. QED
    BY <1>3, <1>9, <2>1, <2>2
<1>12. QED
  BY <1>6, <1>8, <1>10, <1>11 DEF f

\* For any items: the price ranges divide the sales, and their rounded shares add
\* up to all of them within half a tenth each.
THEOREM RangesDivideSales == Spec => []TypeOK
<1>1. Columns => TypeOK
  BY RangesDivide, SharesAddUp DEF Columns, TypeOK
<1>2. QED
  BY <1>1, ColumnsInvariant, PTL
=============================================================================
