SPECIFICATION Spec
CONSTANTS
  s1 = s1
  s2 = s2
  Shifts = {s1, s2}
  NoShift = NoShift
  Conflict = {}
  MaxAttempts = 2
  Modes = {"notify_only", "confirm", "auto"}
  DryRuns = {TRUE, FALSE}
  Copies = 2
  Deferrals = {TRUE}
  ClaimLossy = TRUE
  PageLossy = FALSE
  Torn = {"settle", "record"}
  MaxKills = 1
SYMMETRY Symmetry
INVARIANT SubmittedOnce
INVARIANT ToldOnce
PROPERTY ConsentFirst
