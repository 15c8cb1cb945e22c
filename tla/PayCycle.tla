------------------------------ MODULE PayCycle ------------------------------
(***************************************************************************)
(* buildCycleDates() of AttendanceManagementService: the pay cycle a date   *)
(* falls in.  Dates are day numbers; the calendar is the function FirstDay  *)
(* from a range of months, numbered on across the years, to the date each   *)
(* begins with.                                                            *)
(***************************************************************************)
EXTENDS Integers

CONSTANTS
    LastMonth,    \* the months are 0..LastMonth
    FirstDay      \* FirstDay[m] is the first date of month m

ASSUME CalendarAssumption ==
    /\ LastMonth \in Nat
    /\ FirstDay \in [0..LastMonth -> Int]
    /\ \A m, n \in 0..LastMonth : m < n => FirstDay[m] < FirstDay[n]

MonthOf(date) == CHOOSE m \in 0..(LastMonth - 1) : FirstDay[m] <= date /\ date < FirstDay[m + 1]

DaysIn(m) == FirstDay[m + 1] - FirstDay[m]

\* The start day of the cycle, clamped to the month.
StartIn(m, startDay) ==
    FirstDay[m] + (IF startDay <= DaysIn(m) THEN startDay ELSE DaysIn(m)) - 1

\* The previous month is taken up to and with the start itself.
CycleMonthLate(date, startDay) ==
    LET m == MonthOf(date) IN IF date <= StartIn(m, startDay) THEN m - 1 ELSE m

\* month_to_select is the month the cycle starts in.
CycleMonth(date, startDay) ==
    LET m == MonthOf(date) IN IF date < StartIn(m, startDay) THEN m - 1 ELSE m

CycleStart(date, startDay) == StartIn(CycleMonth(date, startDay), startDay)

CycleEnd(date, startDay) == StartIn(CycleMonth(date, startDay) + 1, startDay) - 1
=============================================================================
