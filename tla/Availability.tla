----------------------------- MODULE Availability -----------------------------
(***************************************************************************)
(* calculateAvailability of internal/api/v2/v2.go: the hours of each month *)
(* of the last year in which a component was available.                    *)
(*                                                                         *)
(* Time is counted in hours from the first hour of a calendar whose months *)
(* have the lengths MonthLength.  Percentages are the hours, divided by    *)
(* the length of the month and rounded.                                    *)
(***************************************************************************)
EXTENDS Integers, FiniteSets, FiniteSetsExt, Sequences

CONSTANTS
    MonthLength,    \* the lengths of the months, in hours
    MonthsInYear    \* months of a year, and of a report (12 in the code)

ASSUME CalendarAssumption ==
    /\ MonthsInYear \in Nat \ {0}
    /\ MonthLength \in Seq(Nat \ {0}) /\ Len(MonthLength) > MonthsInYear

Months == 1..Len(MonthLength)

\* The first hour of each month, and the end of the last.
MonthStart[m \in 1..Len(MonthLength) + 1] ==
    IF m = 1 THEN 0 ELSE MonthStart[m - 1] + MonthLength[m - 1]

Hours == 0..MonthStart[Len(MonthLength) + 1] - 1

MonthAt(t) == CHOOSE m \in Months : MonthStart[m] <= t /\ t < MonthStart[m + 1]
Year(m) == (m - 1) \div MonthsInYear
MonthOfYear(m) == (m - 1) % MonthsInYear

Open == -1           \* SQL NULL, the end date of an incident that goes on
OutageImpact == 3

minTime(a, b) == IF a < b THEN a ELSE b
maxTime(a, b) == IF a > b THEN a ELSE b

\* The month the report begins with, at the time now.
PeriodStart(now) == MonthAt(now) - (MonthsInYear - 1)

\* adjustIncidentPeriod, of a period [start, end].
Valid(o, from, to) == ~(o.end < from) /\ ~(o.start > to)
Adjust(o, from, to) == [start |-> maxTime(o.start, from), end |-> minTime(o.end, to)]

\* The months the loop visits, and the downtime it adds in each.
MonthsOf(a) == {MonthAt(t) : t \in a.start..a.end - 1}
DowntimeIn(a, m) == minTime(a.end, MonthStart[m + 1]) - maxTime(a.start, MonthStart[m])

\* Mutant: the index of the month forgets the year.
MonthOnly(m, first) == MonthOfYear(m) - MonthOfYear(first)

\* monthIndex, from 0.
MonthIndex(m, first) ==
    (Year(m) - Year(first)) * MonthsInYear + MonthOfYear(m) - MonthOfYear(first)

\* monthlyDowntime[i], over the closed incidents of the highest impact.
Downtime(ids, inc, now, i) ==
    LET first   == PeriodStart(now)
        from    == MonthStart[first]
        counted == {o \in ids : /\ inc[o].end # Open /\ inc[o].impact = OutageImpact
                                /\ Valid(inc[o], from, now)}
        Of(o) == LET a == Adjust(inc[o], from, now)
                 IN  MapThenSumSet(LAMBDA m : DowntimeIn(a, m),
                                   {m \in MonthsOf(a) : MonthIndex(m, first) = i})
    IN  MapThenSumSet(Of, counted)

\* The report on the incidents ids, as sortComponentAvailability leaves it:
\* the last month first; without any incident it is empty.
calculateAvailability(ids, inc, now) ==
    IF ids = {} THEN <<>>
    ELSE [k \in 1..MonthsInYear |->
            LET i == MonthsInYear - k
                m == PeriodStart(now) + i
            IN  [year |-> Year(m), month |-> MonthOfYear(m),
                 hours |-> MonthLength[m] - Downtime(ids, inc, now, i)]]
===============================================================================
