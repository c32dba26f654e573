SPECIFICATION FairSpec
CONSTANTS
  s1 = s1
  s2 = s2
  Shifts = {s1, s2}
  NoShift = NoShift
  Conflict = {{s1, s2}}
  MaxAttempts = 2
  Modes = {"notify_only", "confirm", "auto"}
  DryRuns = {TRUE, FALSE}
  Copies = 1
  Deferrals = {TRUE, FALSE}
  ClaimLossy = FALSE
  PageLossy = FALSE
  Torn = {"settle"}
  MaxKills = 2
INVARIANT NoFalseFailure
INVARIANT ProvisionalIsQueued
INVARIANT NoConflictingClaims
INVARIANT CalendarTruth
PROPERTY ImplementsContract
PROPERTY DecisionsArrive
