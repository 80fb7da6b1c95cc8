------------------------------ MODULE Calendar ------------------------------
(***************************************************************************)
(* Cadence.Advance of internal/domain/domain.go over a calendar of whole   *)
(* UTC days: day 1 is the first day of the first month.                    *)
(***************************************************************************)
EXTENDS Naturals, Sequences

CONSTANT MonthLengths   \* bound: the months of the calendar, by their days

ASSUME CalendarAssumption ==
    MonthLengths \in Seq(28..31) /\ Len(MonthLengths) >= 2

Cadences == {"daily", "weekly", "monthly"}

(* The first day of each month, and of the one after the last.             *)
MonthStart[m \in 1..Len(MonthLengths) + 1] ==
    IF m = 1 THEN 1 ELSE MonthStart[m - 1] + MonthLengths[m - 1]

MonthOf(t) ==
    CHOOSE m \in 1..Len(MonthLengths) : MonthStart[m] <= t /\ t < MonthStart[m + 1]

(* AddDate: the next month's day of the same number, counted on into the   *)
(* month after it when that month is too short.                            *)
Advance(cadence, t) ==
    CASE cadence = "daily"   -> t + 1
      [] cadence = "weekly"  -> t + 7
      [] cadence = "monthly" -> MonthStart[MonthOf(t) + 1] + (t - MonthStart[MonthOf(t)])

=============================================================================
