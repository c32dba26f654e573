SPECIFICATION Spec
CONSTANTS
  s1 = s1
  s2 = s2
  Shifts = {s1, s2}
  NoShift = NoShift
  Conflict = {}
  MaxAttempts = 2
  Modes = {"auto"}
  DryRuns = {FALSE}
  Copies = 1
  Deferrals = {TRUE}
  ClaimLossy = FALSE
  PageLossy = TRUE
  Torn = {"settle", "record"}
  MaxKills = 0
SYMMETRY Symmetry
INVARIANT NoFalseFailure
