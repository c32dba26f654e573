------------------------------- MODULE Pages -------------------------------
(***************************************************************************)
(* What the FLICA parsers read from the portal's tables                    *)
(* (adapters/flica.py), in a small calendar.  The portal writes the date   *)
(* of a pairing without its year, its report and arrival times, and a      *)
(* number of days; the parsers turn them back into instants.  A page is a  *)
(* list of rows that each stand for a trip, well written or not, and       *)
(* reading one is a step: `parsed` is what the agent works with, `trip`    *)
(* what the portal meant.                                                  *)
(***************************************************************************)
EXTENDS Integers, FiniteSets, FiniteSetsExt

CONSTANTS
  Lengths,   \* days of the months of an ordinary year
  LeapMonth, \* the month that is a day longer in a leap year
  LeapYears, \* the leap years
  Years,     \* 1..n
  DayTicks,  \* ticks of a day
  Slack,     \* days a date may have passed and still be meant: 7
  MaxLength  \* the longest trip, in ticks

VARIABLES
  now,       \* the date and tick at which the page is read
  trip,      \* what the row stands for: date, report tick, ticks it lasts
  page,      \* where it stands: "none", "opentime", "schedule"
  parsed     \* what the parser makes of it

vars == <<now, trip, page, parsed>>

NoTrip == [date |-> <<0, 0, 0>>, report |-> 0, length |-> 0]

-----------------------------------------------------------------------------
(* The calendar                                                            *)

Months == DOMAIN Lengths
DaysIn(y, m) == Lengths[m] + IF m = LeapMonth /\ y \in LeapYears THEN 1 ELSE 0
MonthOf(y, m) == {y} \X {m} \X (1..DaysIn(y, m))
Dates == UNION {MonthOf(y, m) : y \in Years, m \in Months}
Earlier(a, b) ==
  \/ a[1] < b[1]
  \/ a[1] = b[1] /\ a[2] < b[2]
  \/ a[1] = b[1] /\ a[2] = b[2] /\ a[3] < b[3]
\* The first instant of a date.
Midnight(date) == Cardinality({y \in Dates : Earlier(y, date)}) * DayTicks

Start(t) == Midnight(t.date) + t.report
End(t) == Start(t) + t.length

\* What the portal writes: month and day, times of day, and the number of
\* calendar days the trip touches.
DDMon(date) == <<date[2], date[3]>>
Release(t) == (t.report + t.length) % DayTicks
Days(t) == (t.report + t.length) \div DayTicks + 1

-----------------------------------------------------------------------------
(* The parsers                                                             *)

\* _parse_ddmon: of this year and the next, the first in which the date
\* exists and has not passed by more than a week; none if neither.
ThisYear(token, at) == {y \in {at[1][1]} : <<y, token[1], token[2]>> \in Dates}
NextOccurrence(token, at) ==
  {y \in {at[1][1], at[1][1] + 1} :
     /\ <<y, token[1], token[2]>> \in Dates
     /\ Midnight(<<y, token[1], token[2]>>) >= Midnight(at[1]) + at[2] - Slack * DayTicks}
ParseEither(token, at) ==
  {Midnight(<<y, token[1], token[2]>>) : y \in NextOccurrence(token, at)}
ParseDDMon(token, at) ==
  {Midnight(<<y, token[1], token[2]>>) :
     y \in {x \in NextOccurrence(token, at) : \A z \in NextOccurrence(token, at) : x <= z}}

\* What ends before it starts has crossed midnight.
Closed(start, end) == [start |-> start, end |-> IF end <= start THEN end + DayTicks ELSE end]

\* parse_open_shifts: the days of the pairing carry the arrival over.  A row
\* whose date cannot be placed is left out.
AllDays(n) == n
Nights(n) == n - 1
OpenRow(dates, n, report, arrive) ==
  {Closed(day + report, day + arrive + Nights(Max({1, n})) * DayTicks) : day \in dates}

\* parse_schedule: one duty.
ScheduleRow(dates, report, release) == {Closed(day + report, day + release) : day \in dates}

-----------------------------------------------------------------------------
Ticks == 0..DayTicks - 1
Trips == [date : Dates, report : Ticks, length : 1..MaxLength]

TypeOK ==
  /\ now \in Dates \X Ticks /\ trip \in Trips \cup {NoTrip}
  /\ page \in {"none", "opentime", "schedule"}
  /\ parsed \subseteq [start : Int, end : Int] /\ Cardinality(parsed) <= 1

\* The next year of the last one is not in the calendar.
Init ==
  /\ now \in Dates \X Ticks /\ now[1][1] + 1 \in Years
  /\ trip = NoTrip /\ page = "none" /\ parsed = {}

\* A pairing of the open list.
ReadOpen(t) ==
  /\ page = "none" /\ page' = "opentime" /\ trip' = t /\ now' = now
  /\ parsed' = OpenRow(ParseDDMon(DDMon(t.date), now), Days(t), t.report, Release(t))

\* A duty of her schedule, with or without its year.
ReadSchedule(t) ==
  /\ page = "none" /\ page' = "schedule" /\ trip' = t /\ now' = now
  /\ t.length <= DayTicks
  /\ \E dates \in {ParseDDMon(DDMon(t.date), now), {Midnight(t.date)}} :
       parsed' = ScheduleRow(dates, t.report, Release(t))

Next == \E t \in Trips : ReadOpen(t) \/ ReadSchedule(t)

Spec == Init /\ [][Next]_vars

-----------------------------------------------------------------------------
(* Properties                                                              *)

\* The dates a page without years can be about: not passed by more than a
\* week, this year's or the next's, and the first of their kind.
TooOld(date) == Midnight(date) < Midnight(now[1]) + now[2] - Slack * DayTicks
Ahead(date) ==
  /\ ~TooOld(date)
  /\ date[1] \in {now[1][1], now[1][1] + 1}
  /\ \A y \in now[1][1]..date[1] - 1 :
       <<y, date[2], date[3]>> \in Dates => TooOld(<<y, date[2], date[3]>>)

\* Every date ahead, and every length, over month and year ends and leap
\* days, is read as the instants the portal meant (flica.py:166-191,
\* 220-232, 329-344).
TimesExact ==
  page # "none" /\ Ahead(trip.date) => parsed = {[start |-> Start(trip), end |-> End(trip)]}

=============================================================================
