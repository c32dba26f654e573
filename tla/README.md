# A formal model of the shift agent

The shift agent polls a crew portal for open shifts, decides which of them
suit one flight attendant, asks her over Telegram and claims them.  It is one
asyncio process with a SQLite store, a dashboard with a chat panel, a setup
wizard and a toolkit for the portal's obstacles.  The portal defers its
decisions, the process may be killed between any two writes, and a human may
give a command while the agent is waiting for the portal.  The TLA+ modules of
this directory model that system, the `.cfg` files check it with TLC on small
instances, and the `*Proofs` modules prove its safety properties with TLAPS for
every value of the constants; liveness is left to TLC.  Paths below are relative
to `src/src/shift_agent/` unless they begin with `docs/`, `tests/` or `scripts/`.

## The system

| Component | State it keeps | Operations | Talks to |
|---|---|---|---|
| Gate of the poll loop (`poller.py`) | pause, its reason, challenge flag, failed sign-ins (all in the store); probe interval and deadline (in memory) | `run_once` up to the sign-in, `pause`, `resume`, `_try_self_resume`, `login_failures` | adapter (session check, sign-in), store, notifier |
| Claim cycle (`poller.py`) | locals of `run_once`; seat cache; offered marks, claims table, queue of pending claims (in the store) | `_reconcile_claims`, `_classify`, alerts, `_should_claim`, `_attempt_claim` | adapter, store, notifier, schedule engine, configuration |
| Poll loop (`poller.py`) | consecutive failures (memory), digest date (store) | `_loop`, `next_delay`, `_maybe_send_digest`, heartbeat | the two above, notifier |
| Store (`store.py`) | `kv`, `claims`, `seen_shifts`, `offered`, chat messages; one transaction per method | getters and setters | everything |
| Telegram (`notify/telegram.py`) | update offset and linked chat (store); pending offer, link code, pacing of sends (memory) | `offer`, `consume`, commands, linking, `_send` | the Bot API, store, poller, chat hub |
| Chat assistant (`chat/agent.py`, `chat/hub.py`) | conversation (store), a lock (memory) | tools `pause` and `resume`, `post` | store, notifier, a language model |
| Schedule engine (`schedule.py`) | none: pure | windows, rest, overlap, weekly caps, `evaluate` | configuration |
| Configuration (`config.py`) | none after loading | validators, home base, grades | a YAML file |
| FLICA adapter (`adapters/flica.py`) | one browser page and its frames | `is_authenticated`, `login`, `fetch_*`, `enrich`, `claim`, `check_outcome`, HTML parsers | the portal, a person at the window |
| Mock adapter (`adapters/mock.py`) | scripted shifts | the adapter interface | tests and demo |
| Dashboard (`dashboard/*`) | none of its own | payload, HTTP server, calendar feed | store, chat hub |
| Setup wizard (`setup/*`) | profile directories; the choice of one window | its HTTP API, the wait for a choice | files, the process that opens it |
| Secrets (`secrets.py`) | the keyring, or a file | `get`, `put`, `delete` | the OS, the start of the agent |
| Friction toolkit (`friction/*`) | none shared with the agent | a vision loop, one-time codes by mail | a browser, a model, a mailbox |
| Recon (`recon.py`) | the files of one capture | timer, navigations, final snapshot, cookie replay | a browser |
| Command line, paths, logging (`main.py`, ...) | none | the start of the process | all of the above |

What is hard here: commands are handled at every `await` of a cycle; the pause
is three keys written by three transactions and by three different writers; a
claim is a mark, a click, a row and a queue entry written one after the other,
with a kill possible between any two; the portal decides hours later and its
requests page is sometimes unreadable; a supervisor restarts the process
(`scripts/setup-vps.sh:250`, `Restart=always`), perhaps with another
configuration; an answer of hers may come after the timeout, twice, or after a
restart; two front doors lead into one conversation; files are rewritten in
place by processes that do not know of each other; frames keep what they last
showed; dates come without years.

## What makes each component correct

- **Gate.** A pause a human asked for lasts until a human lifts it, and stops
  the claims behind it.  The portal never refuses more sign-ins than the breaker
  allows, over restarts.  Only a human lifts the breaker's pause.  A challenge
  pause ends by itself.
- **Claim cycle.** A shift is presented, told of and submitted once per list
  entry, never without the consent its mode asks for.  The claims table agrees
  with the portal, and a decision reaches it.  She never holds two shifts that
  cannot both be worked.  A shift she was alerted of is not claimed after all,
  unless it stood twice in the list, and only seats she wants are.
- **Poll loop.** One message for an outage, one digest for a day, and a failing
  loop is never faster than a healthy one and goes on until its doubled delay
  leaves the floats.
- **Telegram.** An offer is confirmed only by a first press of Confirm while it
  is open; no update is handled twice and no more are lost than the process was
  killed; one chat is linked for good.
- **Chat hub.** The dashboard and Telegram see one conversation of whole turns,
  and every message taken in is dealt with.
- **Schedule engine.** A shift matches exactly when she is free throughout, and
  a schedule grown from matches keeps rest, caps and excluded dates.
- **FLICA adapter.** A new shift is seen, a challenge is handed over, and dates
  without a year, times without a date and day spans become the instants meant.
- **Dashboard.** The calendar confirms what the portal was asked for and holds,
  or has still to be read about, and nothing that was only simulated.
- **Secrets.** A kill never costs a secret silently, and the start does not take
  an unreadable store for an empty one.
- **Setup.** A profile is on disk whole before it is chosen, and the process
  that opened the window gets an answer.
- **Friction toolkit, recon.** A vision run is over in bounded time; a code is
  in its window and the newest that was read; a capture ends with its frames
  filed under the page they belong to.

## The modules

| Module | Models | Reads as |
|---|---|---|
| `AuthGate` | the gate, the two human interfaces to the pause, the session | one action per piece of code between two awaits; `gate` is the await `run_once` is suspended at |
| `ClaimCycle` | `run_once` past the gate, the claims table, the marks, the queue, the portal's requests | `pc` is the phase of the cycle, the other locals are variables that `Leave` resets |
| `ClaimContract` | what the agent promises about a shift | abstract specification, implemented by `ClaimCycle` |
| `Dashboard` | what page, metrics, calendar and table say of the claims | operators over `ClaimCycle`'s state |
| `Agent` | gate and cycle in one process | composes the two by `INSTANCE`; the gate opens in the step that begins the cycle |
| `Telegram` | the offer, the listener, linking | `offer()` and the listener are two tasks of one loop, updates a log with a stored offset |
| `OfferContract` | what `offer()` promises the cycle | abstract specification, implemented by `Telegram` |
| `Schedule` | the schedule engine and a schedule that grows from its verdicts | pure operators, one per method; two actions |
| `PollLoop` | the loop around a cycle: failures, back-off, outage message, digest | `stage` is where the loop is; a day is two halves |
| `Classify` | what a cycle makes of the open list: base, premium, seat, attempts, the marks | every row is classified first, then the alerts, then the candidates |
| `Pages` | dates and times in the portal's tables | a small calendar; reading a row is a step |
| `FlicaSession` | the browser page with its frames, session test, reload, hand-over | the portal and the person are the environment |
| `ChatHub` | the conversation behind the dashboard and the bot | a turn is a row of awaits under one lock |
| `Secrets` | the keychain and the file, jobs that change them, the start | a job is a read, a truncation and a write |
| `Setup` | the start without a command, the setup and picker window | every POST is a thread of its own |
| `VisionLoop`, `OneTimeCode` | the friction toolkit's two loops | time passes in the awaits |
| `Recon` | one capture with its timer, navigations and end | snapshots of several awaits under a lock, but for the last |
| `MCClaimCycle`, `MCSchedule` | nothing | symmetry and small calendars for TLC |
| `MCRules`, `MCSessions` | nothing | the smaller parts side by side for TLC |
| `*Proofs` | nothing | the theorems and their proofs |

`MCRules` holds `Schedule`, `PollLoop`, `Secrets`, `Classify` and `Pages`,
`MCSessions` holds `ChatHub`, `FlicaSession`, `VisionLoop`, `OneTimeCode`,
`Recon` and `Setup`.  These share no state with each other: a behaviour picks
one part at the start, runs it and leaves the others as they began, so the
states explored are the sum of the parts' and not their product, and nothing
is lost, since every step of a behaviour of a part is a step of the whole.
Where components do interact, a module composes them: `Agent` for gate and
cycle, `MCClaimCycle` for the cycle and what the dashboard makes of it,
`ChatHub` for the HTTP threads and the listener, `Secrets` for the jobs and the
start, `Setup` for the pages and the process that waits.

Conventions, the same everywhere:

- *Granularity.* The agent is one asyncio loop: what happens between two awaits
  is one step, and anything else may happen at an await.  Handler threads of
  the dashboard's server (`Setup`) and separate processes (`Secrets`)
  interleave between any two file operations.
- *Kills.* A store method is one transaction (`store.py:160-175, 369-377`).  A
  step that makes k writes takes a number n: the first n reach the disk, and
  with n < k the process died.  `Cut(step, k)` is the set of such n; the
  constant `Torn` names the steps for which a kill may fall between two writes,
  for the others it is all or nothing.  `Kill` strikes between steps.
- *History.* Variables read by no step of the agent record what happened
  (`asked`, `rejections`, `submits`, `told`, `handled`, `alerted`, `ledger`,
  ...), so that a property can speak of the past.
- *Names* are the code's where it has one: `paused`, `login_failures`,
  `offered`, `cands`, `_pending` (`asking`), `page_count`, `chosen`.

### How state and actions correspond to the code

**AuthGate.** `paused`, `reason`, `challenge`, `login_failures` are the four
store keys, `backoff` and `probeIn` the poller's `_probe_backoff` and the time
left to `_probe_after`.  `BeginProbe`, `ProbeRecovers`, `ProbeFails` are
`_try_self_resume` cut at its await; `AfterResume` the notice that follows
(quiet hours end the cycle there, a choice).  `BeginCheck` to `LoginOk` are
`run_once` up to the sign-in, `LoginRejected` with its one or four writes.
`TgPause`, `TgResume` are Telegram's commands, with three writes;
`ChatPause`, `ChatResume` the assistant's tools, which write two.  The portal
is whatever it would answer now and changes at any time.

**ClaimCycle, Dashboard.** `Check*` are the branches of `_reconcile_claims`,
`Classify` is phase 1, which reads and decides but does not write what the
properties can see: which copies of a shift match is a choice, bounded by the
attempt limit and by conflict and rest (`Fits`).  `Alert*` is phase 1.5.
`Skip`, `Offer`, `Answer`, `DryClaim`, `Submit`, `SubmitRaises`, `Record`,
`ActDone` are phase 2.  `offered` is the offered mark, `claims[s]` the rows of a
shift with the effect of the partial unique index, `queue` the pending-claims
list.  The portal's `request[s]` changes by `Submit` and `Decide`.  `Takes` says
whether the portal took what `claim()` answered for: where it decides later,
`CLAIMED` only says that two clicks did not raise (`adapters/flica.py:691-696`),
and the portal may hold nothing, which the "no request found" of
`adapters/flica.py:735-737` then reports (`Decided` with `request[s] = "none"`).
`Dashboard` adds no action: `Latest`, `Metrics`, `Status` and `Cell` are
`build_shifts`, `build_metrics`, `build_event` and `build_markdown` on the rows
as they are in any state.

**Agent.** `Enter` joins the gate's last step to the cycle's first, since
`run_once` goes from a live session straight into `_reconcile_claims`;
`Return` joins the cycle's end to the gate's; a kill takes both.

**Telegram.** `Offer`, `SendOk`, `SendFails`, `Answered`, `TimeOut`, `Missed`
are `offer()` cut at its awaits; the timeout may win over a press that has
already set the future.  `Fetch` is `getUpdates`, `HandlePress` and
`HandleStart` are `consume`, whose first write is the offset.  `Links` is the
condition of `_try_link`, `StartWrites` its two further writes.  A message may
reach her although the request for it failed (`Deliver`, then `SendFails`).

**Schedule.** One operator per method of `ScheduleEngine`.  Wall-clock times and
instants are both integers; `ToUtc` and `ToWall` convert, with Python's choice
for a time that comes twice or never.  Where the code compares or subtracts two
datetimes of one zone the model uses the wall clock, as Python does.

**PollLoop.** `Launch` is the start of `_loop`, `Fail` its `except` with the
message at `FAILURES_BEFORE_ALERT`, `Delays` is `next_delay`, `Rest` the sleep at
the end of an iteration or, from `MaxExponent` failures on, the `OverflowError` of
`next_delay`, which leaves the loop and ends the process, `Skip` an early
return of `run_once`, `Complete` the reset of the count, `MarkDigest` and
`SendDigest` the two halves of `_maybe_send_digest`.  `lastDigest` is stored,
`failures` is not.

**Classify.** `Cheap` is `_classify_cheap`, `Positions` is `enrich` with its
cache, `Verdict` the rest of `_classify`; `Refuse`, `Fetch`, `NoDetail`,
`FetchFails` are the ways through it.  `Begin` reads the marks into `snap`, `Read`
and `Sort` are phase 1, `AlertNext` phase 1.5 and `PursueNext` phase 2, which both
test `snap`; `End` is the end of the cycle, be it the first claim that succeeds
or a call that raises.  Rows of the open list are chosen anew at each look: what
was readable may become unreadable and back, and two rows of one id may differ.

**Pages.** `ParseDDMon` is `_parse_ddmon`, `OpenRow` and `ScheduleRow` the
arithmetic of `parse_open_shifts` and `parse_schedule`.  `trip` is what the
portal meant, `parsed` what the agent works with.

**FlicaSession.** `frame` is what each frame shows, `Loaded` what the portal
would put there now.  `IsAuthenticated` looks at the open-time frame and the
top-level document; `Login` never does more than look; `FetchOpenShifts`
reloads or fails to (`Reloaded`), `FetchMySchedule` reads as it stands.

**ChatHub.** `Submit`, `GiveUp` are the HTTP thread and its two-minute wait,
`TakeText` the listener, which waits for a whole turn; `Acquire` to `Echoed`
are `post` cut at its awaits.  `heard` is the length of the conversation the
model was given.

**Secrets.** `Read`, `Truncate`, `Write` are `_read_file` and `_write_file` as a
process does them; `OnKeychain` is one call.  `LoadPortal`, `LoadToken`,
`LoadCode` are the three places where the start reads the store, with their
different answers to an unreadable one.

**Setup.** `FirstRun` is `main._first_run`, `OpenWindow` `open_setup_window`,
`Save` and `Saved` the two halves of `save_profile` around its validation and
write, `Choose` the picker, `Return` the end of the wait.

**VisionLoop, OneTimeCode, Recon.** `Check`, `Screenshot`, `Ask`, `Execute` are
one turn of `run`; `Accepted` is `parse_action`.  `Connect`, `Search`, `Fetch` and
`Empty` are the calls of `fetch_latest_otp` to the mail server, each as long as it
takes (`Pass`) and each may raise (`Break`); `view` is what the last search
listed, `Newest` the order of the loop, `IsRecent` the filter by date, `Retry` the
look at the deadline and the wait.  `Take`, `Frames`, `Cookies` are
`_snapshot_page` and `_dump_cookies`, each an await; `lock` is
`snapshot_lock`, which the final snapshot does not take.

## What is checked

| Run | Shows | Instance |
|---|---|---|
| `authgate_gate` | `IdlePauseHolds`, `LockoutBound`, `SignInPauseIsFinal`, `SelfResume` | limit 3, probe intervals 1 to 15 minutes, all commands, three kills, torn recoveries and human commands |
| `authgate_race` | `HumanPauseHolds` is violated | no kills |
| `claims_once` | `SubmittedOnce`, `ToldOnce`, `ConsentFirst` | two shifts, two copies of each, every mode, one kill, all steps torn |
| `claims_contract` | `NoFalseFailure`, `ProvisionalIsQueued`, `NoConflictingClaims`, `CalendarTruth`, `ImplementsContract`, `DecisionsArrive` | two conflicting shifts, portals that decide at once and later, every mode, two kills, the settling of a claim torn, fair loop |
| `claims_conflict` | `NoConflictingRequests` is violated | two conflicting shifts, automatic mode |
| `claims_blip` | `NoFalseFailure` is violated | an unreadable requests page |
| `agent_live` | `PausesStopClaims`, `DecisionsSurviveChallenges` | one shift, limit 2, one kill, fair loop |
| `telegram_offers` | `HandledOnce`, `LossBound`, `ImplementsContract`, `UpdatesTaken` | two offers, two chats, three updates, one kill |
| `rules` | `AvailabilityExact`, `RulesKept`; `OneMessageEach`, `BacksOff`; `LossIsLoud`, `NoTokenForgotten`; `AlertIsFinal`, `OnlyWantedSeats`; `TimesExact` | the five parts of `MCRules`: see below |
| `sessions` | `WholeTurns`, `EveryTurnEnds`; `NewShiftsSeen`, `ChallengeHandedOver`; `RunBounded`; `FreshestCode`; `FramesWithDocument`, `RunEnds`; `ProfilesStayWhole`, `SetupEnds` | the six parts of `MCSessions`: see below |
| `schedule_rest` | `RestIsReal` is violated | the calendar of `rules` |
| `flica_blind` | `UnreadableScheduleIsAnError` is violated | one pairing, one trouble |

`rules` and `sessions` also check the conjunction of their parts' type
invariants, which is proved too, as those of `AuthGate`, `ClaimCycle` and
`Telegram` are.

The parts of `rules`: days of four ticks, weeks of two days, every pair of
slots, shifts of up to five ticks over four days, the zone going forward, back
or not; three poll settings (an hour, the default, and one whose jitter reaches
down to nothing), nine failures up to the overflow, two days; two secrets, two
jobs, both stores; one shift, listed up to twice, with every configuration of two
seats; two months, the second with a
leap day, in four years.  The parts of `sessions`: two turns from the dashboard,
one from the bot and a `/pause`; one pairing and three troubles; three steps
of a vision run with limits of 1, 2 and 4 units; two mails, a timeout of seven
units and calls that end by the eighth or not at all; two pages and three
snapshots; four names, two of them with one slug and one with none, two pages,
one kill.

Why these bounds are enough to be interesting.  *Kills*: what a second kill can
do that one cannot is strike the recovery from the first; the runs about pauses
and rows have two or three, the larger ones have one, and the theorems hold for
any number.  *Shifts*: conflicts need two, everything else concerns one shift
and its copies; `SYMMETRY` is used only in `claims_once`, which checks
invariants and an action property, and in `claims_conflict` and `claims_blip`.
*Copies*: two entries under one id in one list, in `claims_once` and, with rows
that differ, in `rules`.  *FailCap* stops the refusals two above the limit,
which a human resume after the breaker needs.  *Probe intervals*: from 1 to 15
they widen four times and hit the ceiling.  *Updates*: a press, a second press
and one on the other offer, or a press with a `/start` before and after it.
*Schedule*: a day of four ticks has an evening, a night and a morning; a change
of the zone falls inside a window, inside a shift, between two shifts, and
before or after all of them.  *Failures*: `MaxExponent` is 1024 in the code,
where 2 ** 1024 is no float; nine pass the message at the third and reach the
ceiling of the delay from every setting before the loop ends.  *Mail*: two
messages are an older and a newer that would do, of which either may come late,
be skipped or have no date; `MaxClock` is beyond the deadline.  *Turns*: three
are one that holds the lock and two that wait for it, from either door.
*Troubles*: a challenge, a lost frame and a failed start in one behaviour.
*Pages and snapshots*: a timer and a navigation that overlap, and the end of the
run across both.  *Calendar*: month ends, a year end and a leap day are all
within a trip's length.  Deadlock is checked in `authgate_gate`, `claims_once`,
`claims_contract` and `agent_live`, whose loops never end.  It is not in
`telegram_offers`, `rules`, `sessions`, `schedule_rest` and `flica_blind`, where
nothing need ever happen again: the updates are used up, no shift fits, a run is
over, a window is closed.

Fairness.  The loop runs cycle after cycle, a call to the portal, to Telegram or
to the model ends (every HTTP call and every browser wait has a timeout; the
calls to the mail server have none, and nothing is assumed of them), minutes
pass, a timeout fires, the listener goes on polling after any exception
(`telegram.py:206-225`), frames attach in the end, the capture's stop is pressed
and the supervisor restarts the process (`scripts/setup-vps.sh:250`).  Those are
weak.  Two assumptions are strong, since what they are about is retried in every
cycle until it works: a portal asked again and again about a request it has
decided, or never took, answers in the end, and the reload of the open-time frame does not fail
every time.  A person helps only where the agent waits for her by design: she
answers a hand-over in the end (`ChallengeHandedOver` does not use it), and
closes the setup window.  Humans otherwise, kills, sessions, new mail and the
portal's decisions owe nothing.

## What is proved

TLAPS proves these for every value of the constants, from the assumptions named
in the modules; a further condition is given where there is one.  *Dependable*
says that an id stands once in the list, that a `claim()` that answers with an
error has not gone through, and that the requests page can be read: each is
necessary, and `claims_blip` shows what the last one's absence does.  It says
nothing of a `claim()` that answers `CLAIMED`: on a portal that decides later the
request may be there or not, and the theorems hold for both.

| Theorem | Says | If | By the inductive invariant |
|---|---|---|---|
| `AuthGateProofs!TypeCorrect` | `[]TypeOK` | | itself |
| `AuthGateProofs!IdlePauseIsKept` | `[]IdlePauseHolds` | | `IdlePauseHeld` |
| `AuthGateProofs!AccountNotLocked` | `[]LockoutBound` | | `LockoutBudget` |
| `AuthGateProofs!SignInPauseNeedsHuman` | `SignInPauseIsFinal` | `"refusal" \notin Torn` | `SignInPauseHeld` |
| `AgentProofs!PausesAreObeyed` | `PausesStopClaims` | | `PausesHeld` with `Aligned` |
| `AgentProofs!AgentRunsGate` | `Gate!Spec` | | none: every step of `Agent` is one of the gate |
| `AgentProofs!AgentRunsCycle` | `Claims!Spec` | | none: every step of `Agent` is one of the cycle |
| `ClaimCycleProofs!TypeCorrect` | `[]TypeOK` | | itself |
| `ClaimCycleProofs!NeverSubmittedTwice` | `[]SubmittedOnce` | | `SubmitBudget` |
| `ClaimCycleProofs!NothingWithoutConsent` | `ConsentFirst` | | `ConsentBudget` with `SubmitBudget` |
| `ClaimCycleProofs!NeverToldTwice` | `[]ToldOnce` | | `TellBudget` with `SubmitBudget` |
| `ClaimRowsProofs!FailuresAreReal` | `[]NoFalseFailure` | Dependable | `RowTruth` with `RowBudget` |
| `ClaimRowsProofs!ProvisionalRowsAreQueued` | `[]ProvisionalIsQueued` | Dependable, `"record" \notin Torn` | `WaitsInQueue` with `RowTruth` |
| `ClaimRowsProofs!ConflictsAreAvoided` | `[]NoConflictingClaims` | `~ClaimLossy` | `CandidatesFit` |
| `ClaimRowsProofs!KeepsContract` | `ImplementsContract` | Dependable, `"record" \notin Torn` | `RowTruth`, `WaitsInQueue` and `QueuedHasRow` with `RowBudget` |
| `ClaimRowsProofs!CalendarIsTrue` | `[]CalendarTruth` | Dependable, `"record" \notin Torn` | `DryRowsUnasked` with those of `ClaimRowsProofs` |
| `TelegramProofs!TypeCorrect` | `[]TypeOK` | | itself |
| `TelegramProofs!NothingReplayed` | `[]HandledOnce` | | `HandledBudget` |
| `TelegramProofs!KillsCostOneEach` | `[]LossBound` | | `LogBounded` with `HandledBudget` |
| `TelegramProofs!KeepsContract` | the safety part of `OfferContract` | | `FirstKept` with `AnswerKept` |
| `RulesProofs!MessagesAreSingle` | `[]OneMessageEach` | | `LoopBooks` |
| `RulesProofs!LossesAreLoud` | `[]LossIsLoud` | | `StoreBooks` with `StoreType` |
| `RulesProofs!StartsKnowTheToken` | `NoTokenForgotten` | | the same |
| `RulesProofs!AlertsAreFinal` | `[]AlertIsFinal` | | `MarkBooks` |
| `RulesProofs!SeatsAreWanted` | `OnlyWantedSeats` | | `SeatBooks` |
| `RulesProofs!FailuresSlowDown` | `[]BacksOff` | | `DelayBooks` |
| `RulesProofs!TimesAreExact` | `[]TimesExact` | | `TablesBooks` |
| `RulesProofs!RulesAreTyped` | `[]TypeOK` | | the above, and the types themselves |
| `ScheduleProofs!RestIsKept` | `[]RestKept`, a part of `RulesKept` | | `RestBooks` |
| `ScheduleProofs!RulesAreKept`, `RulesProofs!PartsKeepRules` | `[]RulesKept` | `Calm` | `CapBooks` with `RestBooks` |
| `ScheduleProofs!WhatFitsIsAccepted` | `[]AcceptsWhatFits` | `Calm` | `SettingsHold` |
| `ScheduleProofs!AvailabilityIsExact`, `RulesProofs!PartsAcceptExactly` | `[]AvailabilityExact` | `Calm`, `ShiftsOnCalendar` | `SettingsHold` |
| `SessionsProofs!SessionsAreTyped` | `[]TypeOK` | | the types, with the invariants below |
| `SessionsProofs!RunsAreBounded` | `[]RunBounded` | | `VisionBooks` |
| `SessionsProofs!CodesAreFresh` | `[]FreshestCode` | | `CodeBooks` |
| `SessionsProofs!FramesAreFiled` | `[]FramesWithDocument` | | `CaptureBooks` |
| `SessionsProofs!TurnsAreWhole` | `[]WholeTurns` | | `HubBooks` with `HubType` |
| `SessionsProofs!ProfilesAreWhole` | `[]ProfilesStayWhole` | | `WizardBooks` |

The theorems of `RulesProofs` and `SessionsProofs` are about the specifications
of `MCRules` and `MCSessions`, in which a behaviour of any one part is included;
their assumptions (`AlertAt` and `MaxDays` at least 1, poll settings the
validators let through, a calendar of finitely many years, the token and the link
code among the names, a seat that is not "no seat", positive limits and bounds,
a turn that is not the pause or nobody, a name to save) are named there.  Those
of `ScheduleProofs` are about `Schedule` alone, and three of them are carried
over to `MCRules`.  `Schedule` assumes that a shift ends after it starts, that a
set of slots is finite and that a slot is a day and two times of day.

*Calm* says that the zone does not change its offset around midnight: the
times a change skips or shows twice, with as much after a skip as was skipped,
are of one date.  The calendar of `rules` is calm, and so is every zone that
changes at two in the morning.  It is necessary: with `Change = 7` in the
instance of `rules`, a clock put forward over midnight, TLC finds `RulesKept`
violated under a cap of one shift a week, since a shift that starts at a time
that never was is checked against the week before the one its first instant is
in.
`AcceptsWhatFits` is about all days, past and future; `AvailabilityExact`, which
TLC can evaluate, is about the days `Calendar` lists, hence `ShiftsOnCalendar`:
no shift starts before its first day, and one of the shifts ends last.

Why the properties alone are not inductive, and what the invariants add:

- *IdlePauseHeld.* That a pause is in force now does not keep it in force: a
  probe in flight would overwrite it, and so would a later probe if the
  challenge flag were set.  The invariant adds that after an idle `/pause` the
  flag is clear and nothing is in flight, which every action then preserves
  because no cycle passes the pause.
- *LockoutBudget.* The stored count must cover the refusals of the period;
  whenever the agent can still come to a sign-in by itself one refusal must be
  left.  A torn `pause()` is the hard case: the count is on disk before the
  pause is, and after the restart the next refusal stops the agent anew.
- *SignInPauseHeld.* The breaker's pause never carries the challenge flag and
  nothing is in flight.  A torn refusal breaks it, hence the condition.
- *Aligned, PausesHeld.* The gate is open exactly while a cycle runs, so that
  what the two invariants above say of the gate is said of the submissions.
- *SubmitBudget.* A shift without the mark was never submitted.  Within the
  cycle that presents it, what was submitted, what is being decided and what is
  still listed add up to its copies; in later cycles the cycle read the mark.
  `TellBudget` and `ConsentBudget` have the same form.
- *RowBudget, RowTruth.* A shift has at most one real row, written by the step
  that follows its only submission.  So the row `replace_claim_outcome` updates
  is the row of the request it was read for, and a row and a request can be
  compared at all.  `WaitsInQueue` adds the queue, which the row enters in the
  same step - also where the portal took nothing, which only a later look at the
  requests page tells - `QueuedHasRow` that what is queued has a row to replace,
  and `DryRowsUnasked` that a simulated row stands alone.
- *CandidatesFit.* Between the check against her schedule and the submission
  nothing is awarded, on a portal that decides at once, but by this cycle,
  which ends with its first success.
- *HandledBudget.* An update behind the offset was handled at most once, one
  beyond it never.  For `LossBound` the updates that were passed and not
  handled are counted against the kills, and the one in hand is still to come.
- *FirstKept, AnswerKept.* Updates are taken in order, so the press that sets an
  open future is the first on its offer; a future that is set holds that press.
- *LoopBooks.* A day later than the mark has no digest, and the one being sent
  is of a day that has none yet, though midnight may pass meanwhile.
- *StoreBooks.* What the one job inside the file holds is what the ledger will
  say when it has written; while it has not, the file is torn or unchanged.
- *MarkBooks, SeatBooks.* Both phases test the marks the cycle began with, so a
  mark made meanwhile stops nothing: what keeps an alerted shift from being
  pursued in the same cycle is that a shift that stands once in the list is in one
  place, a row, an alert or a candidate (`OnePlace`), and in later cycles that
  everything alerted or pursued is marked.  The cache says of a pairing its seat
  or nothing, and every candidate is wanted.
- *DelayBooks.* What the loop sleeps is one of the delays its failures call
  for, and while it lives they are fewer than `MaxExponent`; `BacksOff` is then
  about `Delays`, whose powers of two grow with the failures and are cut at the
  cap.
- *TablesBooks.* What was read is what was meant.  The work is in the calendar:
  of a day and a month in this year and the next, the first that is not too old
  is the one meant if that lies ahead (`DateIsMeant`), and the days of a trip
  and its time of release give its end back (`DaysAddUp`).
- *RestBooks.* The rest is kept by the shifts already there, and a clock put
  back only lengthens a gap measured by the wall clock.
- *CapBooks.* The check of the caps is about the week of the shift that comes,
  by its start on the wall clock; the property is about each week of her
  schedule and about real hours.  The invariant says of each shift there that
  the week it starts in is within the caps, which a claim in another week does
  not touch, and a shift that leaves only improves (`HoursTake`); real hours
  are no more than hours by the clock (`RealHoursAreFewer`).
- *SettingsHold* only says that the configuration stays as it was loaded; that
  windows accept what fits is a fact about the operators.  `Merge` keeps a row
  of disjoint windows in the order of their starts that holds the same instants
  as what was merged (`JoinUnites`, `MergeUnites`), so a shift that lies in the
  union lies in one of them, whatever seams it spans; and no window that
  covers an instant of the shift is of a date the engine does not look at
  (`OnlyDatesAround`).
- *HubBooks.* Only the holder of the lock has spoken and not been answered, and
  its row is the last; *CaptureBooks*: a snapshot under way under the lock has
  the number given out last; *VisionBooks*: each await adds at most its own
  limit to the time the check before it allowed; *CodeBooks*: what was listed and
  is not still to be fetched came back empty or would not do, so the one whose
  code is the answer is the newest that would; *WizardBooks*: a profile offered
  or chosen is on disk whole, or was edited by hand.

`Hours` and `Merge` are folds over finite sets, which are defined by choosing a
recursive function.  `ScheduleProofs` shows first that there is one and only one
such function over the subsets of a finite set (`RecursionExists`,
`RecursionUnique`), by taking a smallest subset for which there were none or two
(`SmallestSubset`); the sums and the merged windows are then followed through
their recursion in the same way.

Only model-checked: liveness under fairness (`SelfResume`, `DecisionsArrive`,
`DecisionsSurviveChallenges`, `UpdatesTaken`, that every offer comes back,
`EveryTurnEnds`, `NewShiftsSeen`, `ChallengeHandedOver`, `RunEnds`, `SetupEnds`),
which is out of the prover's reach.  Every safety property that a passing run
checks is stated by a theorem.

## Where the code and its documents part

Five have a run that shows them:

- `authgate_race`: a `/pause` during a probe, or during a sign-in that ends in
  a challenge, is overwritten (`poller.py:162-172, 198-215`), though
  `docs/CAPTCHA.md:49-50` says a human pause always outranks the recovery.
- `claims_conflict`: her schedule lacks requests still pending
  (`poller.py:244`), so the next cycle may request a conflicting shift.
- `claims_blip`: an unreadable requests page becomes a final error
  (`adapters/flica.py:732`), though `poller.py:445-446` says a blip must not.
- `schedule_rest`: rest is measured by the wall clock (`schedule.py:99-100`), an
  hour too much across the change to summer time, though `schedule.py:3-6` says
  everything is compared in UTC.
- `flica_blind`: an absent schedule frame is read as an empty schedule
  (`adapters/flica.py:653`), though `tests/fixtures/flica/cmschedules.html:4-7`
  says an unreadable schedule is an error and not "no trips".

Others were met while modelling; the modules follow the code in each.  On the
pause and the sign-in:

- The assistant's pause tool keeps the challenge flag (`chat/agent.py:149`),
  which Telegram's clears for a reason it states (`telegram.py:325-327`).
- A kill between the writes of `pause()` (`poller.py:129`) can leave the
  breaker's pause with an old challenge flag, so that it recovers by itself
  (against `docs/SECURITY.md:253`), or a challenge pause without its flag, so
  that it never does (against `docs/CAPTCHA.md:41-43`).  That is why
  `authgate_gate` has "refusal" and "challenge" outside `Torn`.
- The probe interval is not reset by a human resume (`poller.py:174`), so a
  later challenge starts at the widened interval (against `poller.py:42-44`).
- `/pause` during a cycle does not stop the claim that cycle is about to make,
  though the answer says nothing will be claimed (`telegram.py:329`); and a
  `/pause` sent behind a question waits for the question's whole turn
  (`telegram.py:270-271`).
- The page is not rebuilt while the agent is paused, so it goes on showing the
  last state (against `docs/SECURITY.md:134-135`).

On claims:

- A kill between recording a claim and queueing it (`poller.py:433-438`) leaves
  a provisional row nobody re-reads: `claims_contract` has "record" outside
  `Torn`, and the two theorems that need it say so.
- The attempt limit is read while the list is classified, and the offered mark
  ends retries after the first attempt anyway, so "three failed attempts"
  (`README.md:35` of the repository, `docs/PARSING.md:100`) is not what stops
  it, and the alert meant for a shift at its limit is never sent.
- A `claim()` whose two clicks do not raise answers `CLAIMED` and is recorded as a
  success (`adapters/flica.py:691-696`, `poller.py:433`); where the portal took
  nothing, page and calendar show it so until the requests page is read.
- An id that stands twice in the list is alerted as "not claiming this one" for
  one row, say because its detail page failed, and claimed for the other: both
  phases test the marks read before them (`poller.py:245, 270, 282`), though
  `poller.py:268` says the agent must not claim it.  `AlertIsFinal` leaves such
  ids out.
- A dry run sets the offered mark (`poller.py:285`), so the live agent skips
  what the dry run evaluated (`store.py:56-58` means to avoid it;
  `tests/test_poller.py:141` clears the mark by hand).
- A press that finds its future already set or cancelled is answered
  "Claiming..." (`telegram.py:410-412`) and nothing is claimed.
- The page and the calendar show a request as claimed and CONFIRMED while the
  portal has not decided it: `CalendarTruth` counts a pending request as held.

On times and delays:

- A shift over the autumn change counts an hour less towards the weekly cap
  than it lasts; `WeeklyCapsKept` excludes that night for the hours, as
  `RestKept` excludes the spring night.
- A date of last December, read in the first days of January and less than a
  week past, is taken for the next December's (`adapters/flica.py:166-191`).
- A row of her schedule has no number of days: a trip of several is read as at
  most one (`adapters/flica.py:329-344`), which `docs/PARSING.md:180` lists as a
  known gap.  `Pages` reads only duties of up to a day there.
- The back-off is capped at 900 seconds (`poller.py:488-494`) while the poll
  interval may be 3600: above the cap a failing loop polls faster than a healthy
  one, which is why `BacksOff` speaks of settings below it.
- At 1024 failures in a row, some ten days at that cap, the power of two is no
  float any more (`poller.py:491`), and `next_delay` is called outside the try
  (`poller.py:542`): the process prints "Stopped" and returns 1
  (`main.py:235-241`).  A supervisor starts it anew, with no failure counted and
  another message at the third.
- The wait for a one-time code reads its deadline only between looks, and no call
  to the mail server has a socket timeout (`friction/imap_otp.py:71-104`): a call
  that hangs outlasts `timeout_s`, and a code may be returned after it.  A fetch
  that comes back empty is passed over (`friction/imap_otp.py:85-86`), so the code
  of an older message may be returned.

On files and windows:

- `load_portal_secrets` stops the start when the store cannot be read, before
  the handler that would have gone on without a bot (`main.py:178-185` and
  `90-100`).
- Two jobs inside the secrets file at once lose one of the changes, and a
  shorter text written over a longer one leaves the file unreadable.
- Two names with one slug overwrite each other's profile without a question.
- A setup window closed without a choice keeps the process waiting up to half an
  hour, though `setup/__init__.py:25-30` says closing it returns at once.
- A navigation that settles while a snapshot is under way takes none
  (`recon.py:329-330`), and the final snapshot, which does not take the lock,
  moves the number under which another one files its frames.

## Not modelled, and why

- Launching and driving the browser, HTTP, the cells of an HTML table, logging,
  scrubbing, crash reports, paths: input and output.
- The page's other fields, its escaping and the serving of files: pure output.
- Message wording, pacing, retry and formatting: no property is about them.
- The language model: its answers are choices, of its tools those that change
  state are modelled.
- The heuristics, redaction and summary of recon, and the benchmark of the
  friction toolkit: text processing, used by no other part.
- The heartbeat, which reads nothing and changes nothing, and the demo.
- The validators of the configuration but for the bounds they put on the values
  the models use; schema upgrades of the store.
- Two agents on one store: nothing in the repository starts two.
- Stale schedules inside a cycle: `ClaimCycle` takes the fetched schedule to be
  the portal's; `FlicaSession` shows how it may not be.

## What could be added

A composition of `Telegram` with `ClaimCycle` in place of the contract between
them, larger calendars for `Pages`, and a theorem about zones that do change at
midnight, with what the weekly caps still promise there.
