SPECIFICATION FairSpec
CONSTANTS
  s1 = s1
  MaxLoginFailures = 2
  ProbeStart = 1
  ProbeMax = 2
  Commands = {"tg_pause", "tg_resume"}
  FailCap = 3
  Shifts = {s1}
  NoShift = NoShift
  Conflict = {}
  MaxAttempts = 2
  Modes = {"auto"}
  DryRuns = {FALSE}
  Copies = 1
  Deferrals = {TRUE}
  ClaimLossy = FALSE
  PageLossy = FALSE
  MaxKills = 1
PROPERTY PausesStopClaims
PROPERTY DecisionsSurviveChallenges
