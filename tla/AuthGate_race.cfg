SPECIFICATION Spec
CONSTANTS
  MaxLoginFailures = 3
  ProbeStart = 1
  ProbeMax = 4
  Commands = {"tg_pause", "tg_resume"}
  FailCap = 5
  Torn = {}
  MaxKills = 0
INVARIANT HumanPauseHolds
