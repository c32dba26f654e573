----------------------------- MODULE MCSchedule -----------------------------
(* Days of four ticks and weeks of two days, over four days.               *)
EXTENDS Schedule

MCDayTicks == 4
MCWeekDays == 2
MCSlots == [day : 0..1, start : 0..3, end : 0..3]
\* Every pair of slots: adjacent, overlapping, nested, overnight, all day.
MCSlotSets == {{a, b} : a \in {slot \in MCSlots : slot.day = 0}, b \in MCSlots}
MCShifts == {s \in [start : 0..13, end : 1..14] : s.start < s.end /\ s.end - s.start <= 5}
MCRuleSets == {[min_rest |-> 2, max_hours |-> 6, max_shifts |-> 0],
                [min_rest |-> 0, max_hours |-> 0, max_shifts |-> 1]}
MCDeltas == {-1, 0, 1}

=============================================================================
