SPECIFICATION Spec
CONSTANTS
  DayTicks <- MCDayTicks
  WeekDays <- MCWeekDays
  Change = 6
  Deltas <- MCDeltas
  SlotSets <- MCSlotSets
  ExcludedSets = {{3}}
  RuleSets <- MCRuleSets
  Shifts <- MCShifts
  MaxAssigned = 2
CHECK_DEADLOCK FALSE
INVARIANT RestIsReal
