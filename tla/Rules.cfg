SPECIFICATION PartsSpec
CONSTANTS
  DayTicks <- MCDayTicks
  WeekDays <- MCWeekDays
  Change = 6
  Deltas <- MCDeltas
  SlotSets <- MCSlotSets
  ExcludedSets = {{3}}
  RuleSets <- MCRuleSets
  Shifts <- MCShifts
  MaxAssigned = 2
  Polls <- MCPolls
  MaxBackoff = 900
  AlertAt = 3
  MaxExponent = 9
  MaxDays = 2
  telegram_token = telegram_token
  telegram_link_code = telegram_link_code
  Names = {telegram_token, telegram_link_code}
  Token = telegram_token
  LinkCode = telegram_link_code
  w1 = w1
  w2 = w2
  Writers = {w1, w2}
  Backends = {"file", "os"}
  x1 = x1
  Ids = {x1}
  Copies = 2
  Letters = {"A", "D"}
  NoGrade = NoGrade
  MaxAttempts = 2
  Lengths <- MCLengths
  LeapMonth = 2
  LeapYears = {2}
  Years = {1, 2, 3, 4}
  Slack = 1
  MaxLength = 8
  MaxKills = 1
  TableTicks = 3
INVARIANTS
  TypeOK
  AvailabilityExact
  RulesKept
  OneMessageEach
  BacksOff
  LossIsLoud
  AlertIsFinal
  TimesExact
PROPERTIES
  NoTokenForgotten
  OnlyWantedSeats
CHECK_DEADLOCK FALSE
