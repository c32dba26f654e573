------------------------------ MODULE Schedule ------------------------------
(***************************************************************************)
(* The schedule engine (schedule.py) and the schedule that grows out of    *)
(* its verdicts: a shift is added when `evaluate` answers MATCH for it.    *)
(*                                                                         *)
(* Time is counted in ticks.  A wall-clock time is the number of ticks     *)
(* from the midnight that begins day 0, a Monday; an instant is what the   *)
(* wall clock of the first offset shows.  The zone changes its offset once,*)
(* at the instant Change, by `delta` ticks: forward, back or not at all.   *)
(*                                                                         *)
(* The portal's shifts carry the wall clock of her own zone, and Python    *)
(* subtracts and compares two datetimes of one zone by the wall clock;     *)
(* what has been through astimezone(UTC) is an instant.  Both appear       *)
(* below where the code uses them.                                         *)
(***************************************************************************)
EXTENDS Integers, Sequences, FiniteSets, SequencesExt

CONSTANTS
  DayTicks,     \* ticks of a day
  WeekDays,     \* days of a week
  Change,       \* the instant the offset of the zone changes
  Deltas,       \* by how many ticks it may
  SlotSets,     \* availability.slots, the configurations tried
  ExcludedSets, \* availability.excluded_dates
  RuleSets,     \* the rules tried: rest, and the weekly caps, 0 for none
  Shifts,       \* the shifts a portal may list: wall-clock start and end
  MaxAssigned   \* bound: shifts on her schedule

ASSUME CalendarAssumption ==
  /\ DayTicks \in Nat \ {0} /\ WeekDays \in Nat \ {0}
  /\ Change \in Int /\ Deltas \subseteq Int
ASSUME ShiftAssumption ==
  Shifts \subseteq [start : Int, end : Int] /\ \A s \in Shifts : s.start < s.end
\* A slot is from one time of day to another.
ASSUME SlotAssumption ==
  \A c \in SlotSets :
    IsFiniteSet(c) /\ c \subseteq [day : Nat, start : 0..DayTicks - 1, end : 0..DayTicks - 1]
ASSUME RuleAssumption ==
  RuleSets \subseteq [min_rest : Nat, max_hours : Nat, max_shifts : Nat]

VARIABLES slots, excluded, rules, delta, assigned

config == <<slots, excluded, rules, delta>>
vars   == <<config, assigned>>

Larger(a, b) == IF a >= b THEN a ELSE b

-----------------------------------------------------------------------------
(* The zone                                                                *)

\* datetime(..., tzinfo=tz).astimezone(UTC), with fold = 0: a wall-clock
\* time that comes twice is the first, one that is skipped keeps the offset
\* of before.
ToUtc(w) == IF w < Change + Larger(0, delta) THEN w ELSE w - delta

\* .astimezone(tz)
ToWall(t) == IF t < Change THEN t ELSE t + delta

Date(w) == w \div DayTicks
Weekday(d) == d % WeekDays

-----------------------------------------------------------------------------
(* Windows                                                                 *)

CrossesMidnight(slot) == slot.end <= slot.start

\* One slot on one date, in instants.
Window(slot, d) ==
  [start |-> ToUtc(d * DayTicks + slot.start),
   end   |-> ToUtc((IF CrossesMidnight(slot) THEN d + 1 ELSE d) * DayTicks + slot.end)]

Earlier(a, b) == a.start < b.start \/ (a.start = b.start /\ a.end < b.end)

JoinOverlapping(merged, iv) ==
  IF merged # <<>> /\ iv.start < Last(merged).end
  THEN Front(merged) \o <<[Last(merged) EXCEPT !.end = Larger(@, iv.end)]>>
  ELSE Append(merged, iv)

\* Joins an interval that overlaps the last one or is adjacent to it.
Join(merged, iv) ==
  IF merged # <<>> /\ iv.start <= Last(merged).end
  THEN Front(merged) \o <<[Last(merged) EXCEPT !.end = Larger(@, iv.end)]>>
  ELSE Append(merged, iv)

\* One by one, the latest last.
Latest(ivs) == CHOOSE iv \in ivs : \A other \in ivs : ~Earlier(iv, other)
Merge(ivs) ==
  MapThenFoldSet(LAMBDA iv, merged : Join(merged, iv), <<>>, LAMBDA iv : iv, Latest, ivs)

\* The windows around the instants start..end, a day of slack on each side.
WindowsCovering(start, end) ==
  LET days == Date(ToWall(start)) - 1 .. Date(ToWall(end)) + 1
  IN  Merge({Window(w[1], w[2]) : w \in {w \in slots \X days : w[1].day = Weekday(w[2])}})

IsWithinAvailability(s) ==
  LET start == ToUtc(s.start)
      end   == ToUtc(s.end)
  IN  \E w \in ToSet(WindowsCovering(start, end)) : w.start <= start /\ end <= w.end

TouchesStart(s) == Date(ToWall(ToUtc(s.start))) \in excluded
\* Any local date the shift touches is excluded, the last one included.
TouchesExcludedDate(s) ==
  \E d \in Date(s.start)..Date(s.end) : d \in excluded

-----------------------------------------------------------------------------
(* Rest and caps, by the wall clock                                        *)

Overlaps(s, o) == s.start < o.end /\ o.start < s.end

RestGapBefore(s, o) == IF s.start >= o.end THEN s.start - o.end ELSE rules.min_rest
\* Idle time between two shifts that do not overlap, whichever comes first.
RestGap(s, o) == IF s.start >= o.end THEN s.start - o.end ELSE o.start - s.end

\* The week, Monday to Monday, that the shift starts in, in instants.
WeekBounds(s) ==
  LET monday == Date(s.start) - Weekday(Date(s.start))
  IN  [start |-> ToUtc(monday * DayTicks), end |-> ToUtc((monday + WeekDays) * DayTicks)]

InWeek(s, others) ==
  {o \in others : WeekBounds(s).start <= ToUtc(o.start) /\ ToUtc(o.start) < WeekBounds(s).end}

Duration(s) == s.end - s.start
Hours(others) == MapThenSumSet(Duration, others)

ExceedsWithoutCandidate(s, others) ==
  \/ rules.max_shifts > 0 /\ Cardinality(InWeek(s, others)) > rules.max_shifts
  \/ rules.max_hours > 0 /\ Hours(InWeek(s, others)) > rules.max_hours
\* The candidate counts too.
ExceedsWeeklyCap(s, others) ==
  \/ rules.max_shifts > 0 /\ Cardinality(InWeek(s, others)) + 1 > rules.max_shifts
  \/ rules.max_hours > 0 /\ Hours(InWeek(s, others)) + Duration(s) > rules.max_hours

Evaluate(s, others) ==
  IF TouchesExcludedDate(s) THEN "excluded_date"
  ELSE IF ~IsWithinAvailability(s) THEN "outside_availability"
  ELSE IF \E o \in others : Overlaps(s, o) THEN "conflicts_assigned"
  ELSE IF \E o \in others : RestGap(s, o) < rules.min_rest THEN "insufficient_rest"
  ELSE IF ExceedsWeeklyCap(s, others) THEN "exceeds_weekly_cap"
  ELSE "match"

-----------------------------------------------------------------------------
(* Her schedule                                                            *)

Init ==
  /\ slots \in SlotSets /\ excluded \in ExcludedSets
  /\ rules \in RuleSets /\ delta \in Deltas
  /\ assigned = {}

\* An open shift that matches is claimed and awarded.
Claim(s) ==
  /\ s \notin assigned /\ Cardinality(assigned) < MaxAssigned
  /\ Evaluate(s, assigned) = "match"
  /\ assigned' = assigned \cup {s}
  /\ UNCHANGED config

\* A shift is worked, traded away or taken off her.
Leaves(s) ==
  /\ s \in assigned /\ assigned' = assigned \ {s}
  /\ UNCHANGED config

Next == \E s \in Shifts : Claim(s) \/ Leaves(s)

Spec == Init /\ [][Next]_vars

-----------------------------------------------------------------------------
(* Properties                                                              *)

\* The real time of a shift, instant by instant, and whether she is free
\* then by one of her slots, on the calendar that has no beginning or end.
Instants(s) == ToUtc(s.start)..(ToUtc(s.end) - 1)
Calendar == -2 .. 2 + Date(CHOOSE e \in {s.end : s \in Shifts} : \A s \in Shifts : s.end <= e)
Free(t) ==
  \E slot \in slots, d \in Calendar :
    Weekday(d) = slot.day /\ Window(slot, d).start <= t /\ t < Window(slot, d).end

\* The windows, materialised around a shift and merged, accept exactly the
\* shifts during all of which she is free: across midnight, across the seam
\* of two slots and across a change of the zone (schedule.py:26-75).
AvailabilityExact ==
  assigned = {} =>
    \A s \in Shifts :
      Instants(s) # {} => (IsWithinAvailability(s) <=> \A t \in Instants(s) : Free(t))

\* No shift on her schedule has her at work on a date she excluded.
ExcludedDatesOff ==
  \A s \in assigned : \A t \in Instants(s) : Date(ToWall(t)) \notin excluded

\* Any two shifts on her schedule leave the minimum rest between them, in
\* whatever order they were claimed (schedule.py:94-148).
RealGap(s, o) ==
  Larger(ToUtc(s.start) - ToUtc(o.end), ToUtc(o.start) - ToUtc(s.end))
RestIsReal ==
  \A s, o \in assigned : s # o => RealGap(s, o) >= rules.min_rest

\* It does as long as no clock is put forward in between.
RestKept == delta <= 0 => RestIsReal

\* No week of her schedule has more shifts, or, as long as no clock is put
\* back, more hours than the caps allow, whatever the order of the claims
\* (schedule.py:158-184).
RealHours(s) == ToUtc(s.end) - ToUtc(s.start)
WeeklyCapsKept ==
  \A s \in assigned :
    /\ rules.max_shifts > 0 => Cardinality(InWeek(s, assigned)) <= rules.max_shifts
    /\ rules.max_hours > 0 /\ delta >= 0
         => MapThenSumSet(RealHours, InWeek(s, assigned)) <= rules.max_hours

\* Her schedule keeps her rules, whatever was claimed, in whatever order, and
\* whatever has been taken off it since (schedule.py:78-184).
RulesKept == ExcludedDatesOff /\ RestKept /\ WeeklyCapsKept

=============================================================================
