SPECIFICATION FairSpec
CONSTANTS
  d1 = d1
  d2 = d2
  t1 = t1
  Typed = {d1, d2}
  Texted = {t1}
  Pause = pause
  NoTurn = NoTurn
  MaxRounds = 2
  m1 = m1
  Pairings = {m1}
  MaxTroubles = 3
  MaxSteps = 3
  StepTimeout = 1
  BrowserTimeout = 2
  TotalTimeout = 4
  Window = 3
  Timeout = 7
  Interval = 3
  MaxMail = 2
  MaxClock = 8
  MaxPages = 2
  MaxShots = 3
  ProfileNames = {"Ana", "ana", "Bo", "?"}
  Slug <- MCSlug
  NoSlug = NoSlug
  p1 = p1
  p2 = p2
  Tabs = {p1, p2}
  MaxDeaths = 1
INVARIANTS
  TypeOK
  WholeTurns
  RunBounded
  FreshestCode
  FramesWithDocument
  ProfilesStayWhole
PROPERTIES
  EveryTurnEnds
  NewShiftsSeen
  ChallengeHandedOver
  RunEnds
  SetupEnds
CHECK_DEADLOCK FALSE
