----------------------------- MODULE Dashboard -----------------------------
(***************************************************************************)
(* What the dashboard makes of the claim rows (dashboard/data.py, ical.py, *)
(* __init__.py): the page, the calendar feed and the table are built from  *)
(* the store at any moment of the life of ClaimCycle, and show one row per *)
(* shift, the last.  Titles, times and verdict labels are left out.        *)
(***************************************************************************)
EXTENDS ClaimCycle, FiniteSets

\* build_shifts: of the rows of a shift the last by id is left in the dict.
HasRow(s) == claims[s] # <<>>
Latest(s) == claims[s][Len(claims[s])]
Claimed(s) == HasRow(s) /\ Latest(s).outcome = "claimed"
LabelLost(s) == FALSE
DryRun(s) == HasRow(s) /\ Latest(s).dry

\* build_metrics: the three counts that come from rows.
Metrics ==
  [claimed        |-> Cardinality({s \in Shifts : Claimed(s) /\ ~DryRun(s)}),
   dry_run_claims |-> Cardinality({s \in Shifts : Claimed(s) /\ DryRun(s)}),
   lost           |-> Cardinality({s \in Shifts : HasRow(s) /\ Latest(s).outcome = "lost_race"})]

\* build_event: the STATUS of the entry her calendar subscribes to.
Status(s) == IF Claimed(s) /\ ~DryRun(s) THEN "CONFIRMED" ELSE "TENTATIVE"

\* build_markdown: the status column.
Cell(s) ==
  IF ~Claimed(s) THEN "verdict" ELSE IF DryRun(s) THEN "Claimed (dry run)" ELSE "Claimed"

\* Whatever was simulated before or after, through changes of mode, kills and
\* decisions read late, a calendar entry is confirmed only for a shift the
\* portal was really asked for and holds for her, or whose outcome the agent
\* has still to read from a portal that decides later; and one that she was
\* given and the agent recorded is confirmed.  The count above it agrees
\* (data.py:10-13, 127-186; ical.py:76-104).
CalendarTruth ==
  /\ \A s \in Shifts :
       /\ Status(s) = "CONFIRMED" =>
            submits[s] > 0 /\ (Held(s) \/ (deferred /\ s \in queue))
       /\ Held(s) /\ RealRows(s) # {} => Status(s) = "CONFIRMED" /\ Cell(s) = "Claimed"
       /\ Cell(s) = "Claimed (dry run)" => request[s] = "none"
  /\ Metrics.claimed = Cardinality({s \in Shifts : Status(s) = "CONFIRMED"})

=============================================================================
