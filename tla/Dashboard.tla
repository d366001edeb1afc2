------------------------------- MODULE Dashboard -------------------------------
(***************************************************************************)
(* The sales figures of a seller: DashboardService, DashboardRepository    *)
(* (src/src/domains/dashboard) and common/utils/date.util.ts, while orders *)
(* are placed, paid and cancelled and days go by.                          *)
(*                                                                         *)
(* A day is the number of days since Monday 2024-01-01, in the time zone   *)
(* of the server; a range of times is a pair of days, its first and last.  *)
(***************************************************************************)
EXTENDS Integers, Sequences, FiniteSets, Functions

CONSTANTS
  Orders,
  Items,     \* order items [order, mine, price, quantity, n] (mine: of this seller)
  FirstYear, \* the years of the calendar, from the first to the last (a bound)
  LastYear,
  Days,      \* the days of the calendar that go by (a bound)
  NoDay

ASSUME ItemAssumption ==
  Items \subseteq [order : Orders, mine : BOOLEAN, price : Nat,
                   quantity : Nat \ {0}, n : Nat]
ASSUME ItemsFinite == IsFiniteSet(Items)

\* In these years every fourth one is a leap year.
ASSUME YearAssumption == FirstYear \in 1901..2099 /\ LastYear \in 1901..2099

VARIABLES
  today,
  createdAt,  \* of an order: the day it was placed, or NoDay
  status      \* of an order: its status, or "none"

vars == <<today, createdAt, status>>

-----------------------------------------------------------------------------
(* Date of JavaScript, for the years of the calendar: a month or a day out *)
(* of its range counts on into the months before and after.                *)

YearStart(y) == 365 * (y - 2024) + ((y - 2021) \div 4)
DaysBefore == <<0, 31, 59, 90, 120, 151, 181, 212, 243, 273, 304, 334>>

DayOf(year, month, d) ==
  LET y == year + ((month - 1) \div 12)
      m == ((month - 1) % 12) + 1
      leap == IF y % 4 = 0 /\ m > 2 THEN 1 ELSE 0
  IN  YearStart(y) + DaysBefore[m] + leap + d - 1

\* getFullYear, getMonth (from 1) and getDate of a day.
Date == [n \in YearStart(FirstYear)..(YearStart(LastYear + 1) - 1) |->
  LET y == CHOOSE y \in FirstYear..LastYear : YearStart(y) <= n /\ n < YearStart(y + 1)
      m == CHOOSE m \in 1..12 : DayOf(y, m, 1) <= n /\ n < DayOf(y, m + 1, 1)
  IN  [year |-> y, month |-> m, day |-> n - DayOf(y, m, 1) + 1]]
Year(n) == Date[n].year
Month(n) == Date[n].month
DayOfMonth(n) == Date[n].day
DayOfWeek(n) == (n + 1) % 7  \* getDay: Sunday is 0

\* The figures of a day look back to the year before.
ASSUME DayAssumption ==
  /\ Days \subseteq YearStart(FirstYear + 1)..(YearStart(LastYear + 1) - 1)
  /\ NoDay \notin Days

SetMonth(n, m) == DayOf(Year(n), m, DayOfMonth(n))
SetFullYear(n, y) == DayOf(y, Month(n), DayOfMonth(n))

\* date.util.ts
MondayWeek(n) == n - (n % 7)                    \* faulty: another week
StartOfWeek(n) == n - DayOfWeek(n)
EndOfWeek(n) == n - DayOfWeek(n) + 6
StartOfMonth(n) == DayOf(Year(n), Month(n), 1)
EndOfMonth(n) == DayOf(Year(n), Month(n) + 1, 0)
StartOfYear(n) == DayOf(Year(n), 1, 1)
EndOfYear(n) == DayOf(Year(n), 12, 31)

\* getDashboardData, its eight ranges.
Kinds == {"day", "week", "month", "year"}
Current(kind) ==
  CASE kind = "day"   -> <<today, today>>
    [] kind = "week"  -> <<StartOfWeek(today), EndOfWeek(today)>>
    [] kind = "month" -> <<StartOfMonth(today), EndOfMonth(today)>>
    [] kind = "year"  -> <<StartOfYear(today), EndOfYear(today)>>

Previous(kind) ==
  LET lastMonth == SetMonth(today, Month(today) - 1)
      lastYear == SetFullYear(today, Year(today) - 1)
  IN CASE kind = "day"   -> <<today - 1, today - 1>>
       [] kind = "week"  -> <<StartOfWeek(today) - 7, EndOfWeek(today) - 7>>
       [] kind = "month" -> <<StartOfMonth(lastMonth), EndOfMonth(lastMonth)>>
       [] kind = "year"  -> <<StartOfYear(lastYear), EndOfYear(lastYear)>>

-----------------------------------------------------------------------------
(* The figures.                                                            *)

AnyStatus == {"WaitingPayment", "CompletedPayment", "Cancelled"}
CompletedStatus == {"CompletedPayment", "Delivered"}
Completed == {i \in Items : i.mine /\ status[i.order] \in CompletedStatus}

Sales(I) == SumFunctionOnSet([i \in I |-> i.price * i.quantity], I)

\* getSalesSummary
Within(range) == {i \in Completed : /\ createdAt[i.order] >= range[1]
                                    /\ createdAt[i.order] <= range[2]}
Summary(range) == [totalOrders |-> Cardinality({i.order : i \in Within(range)}),
                   totalSales |-> Sales(Within(range))]

\* Math.round(x / y), y > 0: ties go up.
Truncated(x, y) == x \div y                     \* faulty: no rounding
Rounded(x, y) == (2 * x + y) \div (2 * y)

\* calculateChangeRate; Infinite stands for null.
Infinite == "null"
ChangeRate(current, previous) ==
  IF previous = 0 THEN IF current > 0 THEN Infinite ELSE 0
                  ELSE Rounded((current - previous) * 100, previous)

\* getSalesByPriceRange: PRICE_RANGES, the last one without an end.
PriceRanges == 1..5
FirstPrice == <<0, 10001, 30001, 50001, 100001>>
LastPrice == <<10000, 30000, 50000, 100000>>
Below(p, r) == r = 5 \/ p < LastPrice[r]        \* faulty: the limit is left out
UpTo(p, r) == r = 5 \/ p <= LastPrice[r]
InRange(p, r) == p >= FirstPrice[r] /\ UpTo(p, r)
RangeSales(r) == Sales({i \in Completed : InRange(i.price, r)})
RangeTotal == SumFunctionOnSet([r \in PriceRanges |-> RangeSales(r)], PriceRanges)

\* In tenths of a per cent.
Share(r) == IF RangeTotal = 0 THEN 0 ELSE Rounded(RangeSales(r) * 1000, RangeTotal)

-----------------------------------------------------------------------------
Init ==
  /\ today \in Days
  /\ createdAt = [o \in Orders |-> NoDay]
  /\ status = [o \in Orders |-> "none"]

Place(o) ==
  /\ status[o] = "none"
  /\ status' = [status EXCEPT ![o] = "WaitingPayment"]
  /\ createdAt' = [createdAt EXCEPT ![o] = today]
  /\ UNCHANGED today

\* Confirmed or expired, some day; the time of placing stays.
Settle(o) ==
  /\ status[o] = "WaitingPayment"
  /\ \E s \in {"CompletedPayment", "Cancelled"} : status' = [status EXCEPT ![o] = s]
  /\ UNCHANGED <<today, createdAt>>

\* deleteOrder of a paid order: the row and its items go.
Remove(o) ==
  /\ status[o] = "CompletedPayment"
  /\ status' = [status EXCEPT ![o] = "none"]
  /\ createdAt' = [createdAt EXCEPT ![o] = NoDay]
  /\ UNCHANGED today

NextDay ==
  /\ today + 1 \in Days
  /\ today' = today + 1
  /\ UNCHANGED <<createdAt, status>>

Next == NextDay \/ \E o \in Orders : Place(o) \/ Settle(o) \/ Remove(o)

Spec == Init /\ [][Next]_vars

-----------------------------------------------------------------------------
(* Properties.  The reference counts periods: days, weeks that begin on    *)
(* Sunday, months and years have consecutive numbers.                      *)

Period(kind, n) ==
  CASE kind = "day"   -> n
    [] kind = "week"  -> (n + 1) \div 7
    [] kind = "month" -> 12 * Year(n) + Month(n)
    [] kind = "year"  -> Year(n)
SalesOf(kind, p) ==
  LET I == {i \in Items : /\ i.mine /\ status[i.order] = "CompletedPayment"
                          /\ Period(kind, createdAt[i.order]) = p}
  IN  [totalOrders |-> Cardinality({i.order : i \in I}), totalSales |-> Sales(I)]

\* Statuses and days are of their columns, and the shares of the five price
\* ranges, each rounded to a tenth, add up to all sales within half a tenth each:
\* no price falls between two ranges or in two (dashboard.repository.ts:129-138).
TypeOK ==
  /\ today \in Days
  /\ createdAt \in [Orders -> Days \cup {NoDay}]
  /\ status \in [Orders -> AnyStatus \cup {"none"}]
  /\ RangeTotal = Sales(Completed)
  /\ RangeTotal > 0 =>
       SumFunctionOnSet([r \in PriceRanges |-> Share(r)], PriceRanges)
         \in (1000 - 2)..(1000 + 2)

LastMonthHasToday ==
  DayOfMonth(today) <= DayOfMonth(StartOfMonth(today) - 1)

\* The current figures are those of the present day, week, month and year, and
\* the previous ones those of the period right before, across the ends of months
\* and years and on 29 February, and an order counts for the day it was placed on,
\* whenever it was paid (dashboard.service.ts:52-88).  The previous month is
\* left out on the days it does not have.
FollowsCalendar ==
  \A kind \in Kinds :
    /\ Summary(Current(kind)) = SalesOf(kind, Period(kind, today))
    /\ (kind # "month" \/ LastMonthHasToday) =>
         Summary(Previous(kind)) = SalesOf(kind, Period(kind, today) - 1)

\* The change rate of both figures is the nearest whole number to the exact rate:
\* multiplied back, it gives the current figure to within half a per cent of the
\* previous one; null is kept for a first sale and zero for none
\* (dashboard.service.ts:23-30, 42-45).
RateIsNearest ==
  \A kind \in Kinds, figure \in {"totalOrders", "totalSales"} :
    LET c == Summary(Current(kind))[figure]
        p == Summary(Previous(kind))[figure]
        rate == ChangeRate(c, p)
    IN  IF p = 0 THEN rate = (IF c = 0 THEN 0 ELSE Infinite)
        ELSE /\ 2 * (rate * p - 100 * (c - p)) <= p
             /\ 2 * (100 * (c - p) - rate * p) <= p

\* "previous" of the month is the month before (dashboard.swagger.yaml:44), on
\* every day of the month.
PreviousIsLastMonth ==
  Summary(Previous("month")) = SalesOf("month", Period("month", today) - 1)
=============================================================================
