SPECIFICATION FairSpec
CONSTANTS
  MaxLoginFailures = 3
  ProbeStart = 1
  ProbeMax = 15
  Commands = {"tg_pause", "tg_resume", "chat_pause", "chat_resume"}
  FailCap = 5
  Torn = {"recover", "tg", "chat"}
  MaxKills = 3
INVARIANT IdlePauseHolds
INVARIANT LockoutBound
PROPERTY SignInPauseIsFinal
PROPERTY SelfResume
