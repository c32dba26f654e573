------------------------------ MODULE MCRules ------------------------------
(***************************************************************************)
(* The parts of the agent that decide and keep books, side by side for     *)
(* TLC: the schedule engine, the loop, the secret store, the choice of     *)
(* shifts and the parsers.  They share no state: each behaviour runs one   *)
(* of them and leaves the others as they began.                            *)
(***************************************************************************)
EXTENDS MCSchedule

CONSTANTS
  \* PollLoop
  Polls, MaxBackoff, AlertAt, MaxExponent, MaxDays,
  \* Secrets
  Names, Token, LinkCode, Writers, Backends,
  \* Classify
  Ids, Copies, Letters, NoGrade, MaxAttempts,
  \* Pages
  Lengths, LeapMonth, LeapYears, Years, TableTicks, Slack, MaxLength,
  \* PollLoop and Secrets
  MaxKills

ASSUME LoopAssumption == AlertAt \in Nat \ {0} /\ MaxDays \in Nat \ {0} /\ MaxKills \in Nat
ASSUME StoreAssumption == Token \in Names /\ LinkCode \in Names /\ Backends \subseteq {"file", "os"}
ASSUME ChoiceAssumption ==
  /\ NoGrade \notin Letters /\ MaxAttempts \in Nat /\ Copies \in Nat \ {0}
\* The validators of PollConfig (config.py:209-219).
ASSUME PollAssumption ==
  /\ \A p \in Polls : p.interval \in Nat \ {0} /\ p.jitter \in Nat /\ p.jitter <= p.interval
  /\ MaxBackoff \in Nat \ {0} /\ MaxExponent \in Nat \ {0}
ASSUME TableAssumption ==
  /\ IsFiniteSet(Years) /\ Years \subseteq Nat /\ Lengths \in Seq(Nat)
  /\ TableTicks \in Nat \ {0} /\ Slack \in Nat /\ MaxLength \in Nat

VARIABLES
  part,  \* the part that runs
  poll, loopStage, failures, alerts, delay, paused, day, late, lastDigest, digests, kills,
  file, keychain, writer, agent, ledger, overlapped, used, secretKills,
  settings, seat, cache, offered, alerted, pursued, attempts,
  busy, snap, left, cands, choiceAlerts, twice,
  now, trip, page, parsed

\* An hour between polls with little jitter, the default, and a poll so fast
\* that its jitter reaches down to nothing.
MCPolls ==
  {[interval |-> 45, jitter |-> 15], [interval |-> 5, jitter |-> 5], [interval |-> 3600, jitter |-> 600]}

\* Two months, the second with a leap day.
MCLengths == <<3, 2>>

Loop    == INSTANCE PollLoop WITH stage <- loopStage
Store   == INSTANCE Secrets
Choice  == INSTANCE Classify WITH config <- settings, alerts <- choiceAlerts
Tables  == INSTANCE Pages WITH DayTicks <- TableTicks

Parts == {"schedule", "loop", "store", "choice", "tables"}

scheduleVars == <<slots, excluded, rules, delta, assigned>>
loopVars == <<poll, loopStage, failures, alerts, delay, paused, day, late, lastDigest, digests, kills>>
storeVars == <<file, keychain, writer, agent, ledger, overlapped, used, secretKills>>
choiceVars == <<settings, seat, cache, offered, alerted, pursued, attempts,
                busy, snap, left, cands, choiceAlerts, twice>>
tablesVars == <<now, trip, page, parsed>>
partsVars == <<part, scheduleVars, loopVars, storeVars, choiceVars, tablesVars>>

\* What a part's own Init leaves open is fixed where another part runs.
PartsInit ==
  /\ part \in Parts
  /\ IF part = "schedule" THEN Init
     ELSE slots = {} /\ excluded = {} /\ assigned = {} /\ delta = 0
          /\ rules = [min_rest |-> 0, max_hours |-> 0, max_shifts |-> 0]
  /\ Store!Init
  /\ Loop!Init /\ (part # "loop" => poll.interval = 45)
  /\ Choice!Init
  /\ part # "choice" => /\ ~settings.locked /\ ~settings.premium_only
                        /\ settings.pursue = {} /\ settings.notify_only = {}
                        /\ seat = [id \in Ids |-> CHOOSE l \in Letters : TRUE]
  /\ Tables!Init /\ (part # "tables" => now = <<<<1, 1, 1>>, 0>>)

\* Every part but p keeps its state.
Runs(p) ==
  /\ part = p /\ part' = part
  /\ IF p = "schedule" THEN TRUE ELSE UNCHANGED scheduleVars
  /\ IF p = "loop" THEN TRUE ELSE UNCHANGED loopVars
  /\ IF p = "store" THEN TRUE ELSE UNCHANGED storeVars
  /\ IF p = "choice" THEN TRUE ELSE UNCHANGED choiceVars
  /\ IF p = "tables" THEN TRUE ELSE UNCHANGED tablesVars

PartsNext ==
  \/ Runs("schedule") /\ Next
  \/ Runs("loop") /\ Loop!Next
  \/ Runs("store") /\ Store!Next
  \/ Runs("choice") /\ Choice!Next
  \/ Runs("tables") /\ Tables!Next

PartsSpec == PartsInit /\ [][PartsNext]_partsVars

-----------------------------------------------------------------------------
(* Properties: each part's, as its module states them.                     *)

\* Every variable keeps its type.
TypeOK ==
  /\ part \in Parts /\ assigned \subseteq Shifts
  /\ Loop!TypeOK /\ Store!TypeOK /\ Choice!TypeOK /\ Tables!TypeOK

\* One message for an outage, one digest for a day (poller.py:316-345, 526-539).
OneMessageEach == Loop!OneMessageEach
\* A failing loop never polls faster than a healthy one, and ends only where
\* the doubling leaves the floats (poller.py:488-494, 542).
BacksOff == Loop!BacksOff
\* A kill never costs a secret silently (secrets.py:92-119).
LossIsLoud == Store!LossIsLoud
\* An agent that says it has no token has none (main.py:90-125, 178-185).
NoTokenForgotten == Store!NoTokenForgotten
\* The agent goes only after seats she pursues (config.py:147-195).
OnlyWantedSeats == Choice!OnlyWantedSeats
\* A shift she was alerted of is never claimed, unless it stood twice in the
\* list (poller.py:245, 268-289).
AlertIsFinal == Choice!AlertIsFinal
\* Dates without years are read as they were meant (flica.py:166-191).
TimesExact == Tables!TimesExact

=============================================================================
