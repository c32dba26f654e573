SPECIFICATION Spec
CONSTANTS
  m1 = m1
  Pairings = {m1}
  MaxTroubles = 1
CHECK_DEADLOCK FALSE
INVARIANT UnreadableScheduleIsAnError
