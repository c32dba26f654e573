------------------------------ MODULE AuthGate ------------------------------
(***************************************************************************)
(* The gate in front of every poll cycle (poller.py): the persisted pause, *)
(* the sign-in with its circuit breaker, the challenge hand-off and the    *)
(* self-resume probe, together with the two human interfaces that write    *)
(* the same store keys (Telegram commands and the chat assistant's tools). *)
(*                                                                         *)
(* The agent is one asyncio loop.  A step below is the code between two    *)
(* `await`s, so a command may be handled while a probe, a session check or *)
(* a sign-in is in flight.  Every store write is a transaction of its own: *)
(* the process may be killed between two of them, which each writing step  *)
(* takes as its parameter n, the number of its writes that reach the disk. *)
(***************************************************************************)
EXTENDS Integers

CONSTANTS
  MaxLoginFailures,  \* rules.max_login_failures: refusals before the breaker
  ProbeStart,        \* CHALLENGE_PROBE_START, in minutes
  ProbeMax,          \* CHALLENGE_PROBE_MAX, in minutes
  Commands,          \* the human commands in use, a subset of AllCommands
  Torn,              \* the steps between whose writes a kill may fall
  MaxKills,          \* bound: how often the process is killed
  FailCap            \* bound: the portal refuses while login_failures < FailCap

AllCommands == {"tg_pause", "tg_resume", "chat_pause", "chat_resume"}

TearableSteps == {"recover", "challenge", "refusal", "tg", "chat"}

ASSUME LimitAssumption == MaxLoginFailures \in Nat /\ MaxLoginFailures >= 1
ASSUME ProbeAssumption ==
  /\ ProbeStart \in Nat /\ ProbeMax \in Nat
  /\ 1 <= ProbeStart /\ ProbeStart <= ProbeMax
ASSUME CommandAssumption == Commands \subseteq AllCommands
ASSUME TornAssumption == Torn \subseteq TearableSteps
ASSUME BoundAssumption == MaxKills \in Nat /\ FailCap \in Nat

VARIABLES
  \* persisted in the store's kv table
  paused,          \* PAUSED_KEY
  reason,          \* PAUSE_REASON_KEY, by its author
  challenge,       \* CHALLENGE_PAUSE_KEY: the pause is self-recoverable
  login_failures,  \* LOGIN_FAILURES_KEY
  \* the running process
  gate,            \* the await run_once is suspended at, see Gates
  backoff,         \* _probe_backoff, in minutes
  probeIn,         \* minutes until _probe_after
  \* the environment
  portal,          \* what the portal would answer now
  \* history, read by no step of the agent
  kills,           \* kills so far
  asked,           \* the last human command, see Asked
  rejections,      \* refusals handled since the last success or human resume
  granted          \* refusals that period had left when it began

stored   == <<paused, reason, challenge, login_failures>>
volatile == <<gate, backoff, probeIn>>
history  == <<kills, asked, rejections, granted>>
vars     == <<stored, volatile, portal, history>>

Reasons == {"none", "human", "challenge", "breaker"}

\* idle: sleeping between cycles.  probe: awaiting is_authenticated() in
\* _try_self_resume.  resumed: awaiting the notice that it recovered.
\* check, login: awaiting is_authenticated() and login().  open: past the
\* gate, inside the rest of the cycle.  down: no process.
Gates == {"idle", "probe", "resumed", "check", "login", "open", "down"}

\* session: signed in.  signedout: sign-in needed.  challenge: captcha.
\* rejecting: login() answers FAILED.  unreachable: the calls raise.
Portals == {"session", "signedout", "challenge", "rejecting", "unreachable"}

\* none: no pause is asked for.  idle, busy: /pause, handled with no cycle in
\* flight or during one.
Asked == {"none", "idle", "busy"}

TypeOK ==
  /\ paused \in BOOLEAN /\ reason \in Reasons /\ challenge \in BOOLEAN
  /\ login_failures \in Nat
  /\ gate \in Gates
  /\ backoff \in ProbeStart..ProbeMax
  /\ probeIn \in 0..ProbeMax
  /\ portal \in Portals
  /\ kills \in 0..MaxKills /\ asked \in Asked
  /\ rejections \in Nat /\ granted \in Nat

Init ==
  /\ paused = FALSE /\ reason = "none" /\ challenge = FALSE
  /\ login_failures = 0
  /\ gate = "idle" /\ backoff = ProbeStart /\ probeIn = 0
  /\ portal \in Portals
  /\ kills = 0 /\ asked = "none" /\ rejections = 0
  /\ granted = MaxLoginFailures

Lesser(a, b) == IF a <= b THEN a ELSE b

-----------------------------------------------------------------------------
(* Writes and kills                                                        *)

\* The prefixes of a step's k writes after which the process may die.
Cut(step, k) == IF kills = MaxKills THEN {k} ELSE IF step \in Torn THEN 0..k ELSE {0, k}

\* The step goes on to g after its k-th write; after fewer it was killed.
Ends(n, k, g) ==
  /\ gate' = IF n = k THEN g ELSE "down"
  /\ kills' = IF n = k THEN kills ELSE kills + 1

\* The first n of the three writes of pause() and resume(), in their order.
WritePause(n, p, r, c) ==
  /\ paused'    = IF n >= 1 THEN p ELSE paused
  /\ reason'    = IF n >= 2 THEN r ELSE reason
  /\ challenge' = IF n >= 3 THEN c ELSE challenge

\* Poller.pause(recoverable=True) on a challenge, and its bare form, the
\* breaker's.  _probe_after = 0 follows in the same step.
ChallengePause(n) == WritePause(n, TRUE, "challenge", TRUE)
SignInPauseRecoverable(n) == WritePause(n, TRUE, "breaker", TRUE)
SignInPause(n) == WritePause(n, TRUE, "breaker", FALSE)
Resume(n) == WritePause(n, FALSE, "none", FALSE)

-----------------------------------------------------------------------------
(* The self-resume probe                                                   *)

MayProbeBelowCeiling == challenge /\ probeIn = 0 /\ backoff < ProbeMax
WidenUncapped(b) == 2 * b

\* The two early returns of _try_self_resume, and its widening interval.
MayProbe == challenge /\ probeIn = 0
Widen(b) == Lesser(2 * b, ProbeMax)

\* run_once finds the pause, and _try_self_resume that it may probe it.
BeginProbe ==
  /\ gate = "idle" /\ paused /\ MayProbe
  /\ gate' = "probe"
  /\ UNCHANGED <<stored, backoff, probeIn, portal, history>>

\* The probe answers that the session lives.  Neither `paused` nor the
\* challenge flag is read again before resume() overwrites them.
ProbeRecovers(n) ==
  /\ gate = "probe" /\ portal = "session"
  /\ Resume(n) /\ Ends(n, 3, "resumed")
  /\ backoff' = IF n = 3 THEN ProbeStart ELSE backoff
  /\ UNCHANGED <<login_failures, probeIn, portal, asked, rejections, granted>>

\* It answers no, or raises: wait twice as long before the next one.
ProbeFails ==
  /\ gate = "probe" /\ portal # "session"
  /\ gate' = "idle"
  /\ backoff' = Widen(backoff)
  /\ probeIn' = backoff'
  /\ UNCHANGED <<stored, portal, kills, asked, rejections, granted>>

\* The notice is sent: into the cycle, or out of it during quiet hours.
AfterResume(quiet) ==
  /\ gate = "resumed"
  /\ gate' = IF quiet THEN "idle" ELSE "check"
  /\ UNCHANGED <<stored, backoff, probeIn, portal, history>>

-----------------------------------------------------------------------------
(* Session check and sign-in                                               *)

BeginCheckAnyway ==
  /\ gate = "idle"
  /\ gate' = "check"
  /\ UNCHANGED <<stored, backoff, probeIn, portal, history>>

BeginCheck ==
  /\ gate = "idle" /\ ~paused
  /\ gate' = "check"
  /\ UNCHANGED <<stored, backoff, probeIn, portal, history>>

Authenticated ==
  /\ gate = "check" /\ portal = "session"
  /\ gate' = "open"
  /\ UNCHANGED <<stored, backoff, probeIn, portal, history>>

NotAuthenticated ==
  /\ gate = "check" /\ portal \notin {"session", "unreachable"}
  /\ gate' = "login"
  /\ UNCHANGED <<stored, backoff, probeIn, portal, history>>

\* is_authenticated() or login() raises: the cycle fails in _loop.
CheckRaises ==
  /\ gate \in {"check", "login"} /\ portal = "unreachable"
  /\ gate' = "idle"
  /\ UNCHANGED <<stored, backoff, probeIn, portal, history>>

\* NEEDS_HUMAN: a challenge, or a sign-in only she can do.
LoginNeedsHuman(n) ==
  /\ gate = "login" /\ portal \in {"challenge", "signedout"}
  /\ ChallengePause(n) /\ Ends(n, 3, "idle")
  /\ probeIn' = IF n = 3 THEN 0 ELSE probeIn
  /\ UNCHANGED <<login_failures, backoff, portal, asked, rejections, granted>>

\* FAILED: count it, and at the limit pause for good.  One write below the
\* limit, four at it.
RefusalWrites == IF login_failures + 1 >= MaxLoginFailures THEN 4 ELSE 1

LoginRejected(n) ==
  /\ gate = "login" /\ portal = "rejecting" /\ login_failures < FailCap
  /\ login_failures' = IF n >= 1 THEN login_failures + 1 ELSE login_failures
  /\ IF RefusalWrites = 4
     THEN SignInPause(n - 1) /\ probeIn' = IF n = 4 THEN 0 ELSE probeIn
     ELSE UNCHANGED <<paused, reason, challenge, probeIn>>
  /\ Ends(n, RefusalWrites, "idle")
  /\ rejections' = IF n = RefusalWrites THEN rejections + 1 ELSE rejections
  /\ UNCHANGED <<backoff, portal, asked, granted>>

\* OK: only a sign-in resets the count, a live session does not.
LoginOk ==
  /\ gate = "login" /\ portal \in {"session", "signedout"}
  /\ login_failures' = 0 /\ portal' = "session" /\ gate' = "open"
  /\ rejections' = 0 /\ granted' = MaxLoginFailures
  /\ UNCHANGED <<paused, reason, challenge, backoff, probeIn, kills, asked>>

\* The rest of the cycle ends, well or in an exception.
CycleDone ==
  /\ gate = "open" /\ gate' = "idle"
  /\ UNCHANGED <<stored, backoff, probeIn, portal, history>>

-----------------------------------------------------------------------------
(* The humans                                                              *)

\* What the account can still bear once a human starts the agent again: the
\* count is kept, so after the breaker a single refusal stops it anew.
Remaining ==
  IF login_failures < MaxLoginFailures THEN MaxLoginFailures - login_failures ELSE 1

HumanPauseKeepingFlag(n) == WritePause(n, TRUE, "human", challenge)
HumanPause(n) == WritePause(n, TRUE, "human", FALSE)

\* /pause: clears the challenge flag, leaves the cycle in flight alone.
TgPause(n) ==
  /\ "tg_pause" \in Commands /\ gate # "down"
  /\ HumanPause(n) /\ Ends(n, 3, gate)
  /\ asked' = IF n < 3 THEN asked ELSE IF gate = "idle" THEN "idle" ELSE "busy"
  /\ UNCHANGED <<login_failures, backoff, probeIn, portal, rejections, granted>>

\* A human resume begins a new period of sign-in attempts.
HumanResumed(n) ==
  /\ asked' = IF n >= 1 THEN "none" ELSE asked
  /\ rejections' = IF n >= 1 THEN 0 ELSE rejections
  /\ granted' = IF n >= 1 THEN Remaining ELSE granted
  /\ UNCHANGED <<login_failures, backoff, probeIn, portal>>

\* /resume: three writes.
TgResume(n) ==
  /\ "tg_resume" \in Commands /\ gate # "down"
  /\ Resume(n) /\ Ends(n, 3, gate) /\ HumanResumed(n)

\* The chat tools write the first two keys only.
ChatPause(n) ==
  /\ "chat_pause" \in Commands /\ gate # "down"
  /\ WritePause(n, TRUE, "human", challenge) /\ Ends(n, 2, gate)
  /\ UNCHANGED <<login_failures, backoff, probeIn, portal, asked, rejections, granted>>

ChatResume(n) ==
  /\ "chat_resume" \in Commands /\ gate # "down"
  /\ WritePause(n, FALSE, "none", challenge) /\ Ends(n, 2, gate) /\ HumanResumed(n)

-----------------------------------------------------------------------------
(* The environment                                                         *)

PortalChanges ==
  /\ portal' \in Portals \ {portal}
  /\ UNCHANGED <<stored, volatile, history>>

\* A minute passes.  `now` is read before the probe's await.
Tick ==
  /\ probeIn > 0 /\ gate \notin {"probe", "down"}
  /\ probeIn' = probeIn - 1
  /\ UNCHANGED <<stored, gate, backoff, portal, history>>

Kill ==
  /\ gate # "down" /\ kills < MaxKills
  /\ gate' = "down" /\ kills' = kills + 1
  /\ UNCHANGED <<stored, backoff, probeIn, portal, asked, rejections, granted>>

FailuresForgotten == login_failures' = 0
\* The count of failed sign-ins is read from the store, not from memory.
FailuresKept == login_failures' = login_failures

\* The supervisor starts it again: __init__ on the stored state.
Restart ==
  /\ gate = "down"
  /\ gate' = "idle" /\ backoff' = ProbeStart /\ probeIn' = 0
  /\ FailuresKept
  /\ UNCHANGED <<paused, reason, challenge, portal, history>>

-----------------------------------------------------------------------------
Probing   == BeginProbe \/ ProbeFails \/ \E n \in Cut("recover", 3) : ProbeRecovers(n)
Resuming  == \E quiet \in BOOLEAN : AfterResume(quiet)
SigningIn ==
  \/ Authenticated \/ NotAuthenticated \/ CheckRaises \/ LoginOk
  \/ \E n \in Cut("challenge", 3) : LoginNeedsHuman(n)
  \/ \E n \in Cut("refusal", RefusalWrites) : LoginRejected(n)
HumanSays ==
  \/ \E n \in Cut("tg", 3) : TgPause(n) \/ TgResume(n)
  \/ \E n \in Cut("chat", 2) : ChatPause(n) \/ ChatResume(n)

Next ==
  \/ Probing \/ Resuming \/ BeginCheck \/ SigningIn \/ CycleDone
  \/ HumanSays
  \/ PortalChanges \/ Tick \/ Kill \/ Restart

Spec == Init /\ [][Next]_vars

\* The loop keeps running its cycles, a call to the portal ends, time passes
\* and the supervisor restarts the process; humans, kills and the portal owe
\* nothing.
Fairness ==
  /\ WF_vars(Probing) /\ WF_vars(Resuming) /\ WF_vars(BeginCheck)
  /\ WF_vars(SigningIn) /\ WF_vars(CycleDone)
  /\ WF_vars(Tick) /\ WF_vars(Restart)

FairSpec == Spec /\ Fairness

-----------------------------------------------------------------------------
(* Properties                                                              *)

\* A /pause handled between cycles stays in force until a human resumes,
\* whatever probes, challenges, kills in the middle of a write and chat
\* commands come after it: a stale challenge flag must not undo it
\* (telegram.py:325-328).
IdlePauseHolds == asked = "idle" => paused

\* What the documentation says of every /pause, also of one that arrives
\* while a probe or a sign-in is in flight.
HumanPauseHolds == asked \in {"idle", "busy"} => paused

\* Why it does: such a pause is not self-recoverable and nothing that could
\* overwrite it is in flight.  (Inductive.)
IdlePauseHeld ==
  asked = "idle" => paused /\ ~challenge /\ gate \in {"idle", "down"}

\* The pause after too many refused sign-ins is lifted by a human and by
\* nothing else (SECURITY.md: "never self-recovers"), unless a kill tears the
\* very step that sets it.
SignInPauseIsFinal ==
  [][paused /\ reason = "breaker" /\ ~paused' => HumanSays]_vars

\* Why, if the step that sets it is not torn: the reason, also one that a
\* torn resume left behind, goes with a cleared flag, and with the pause
\* nothing that could lift it is in flight.  (Inductive.)
SignInPauseHeld ==
  reason = "breaker" => ~challenge /\ (paused => gate \in {"idle", "down"})

\* Between two successes or human resumes the portal is never refused more
\* often than the breaker had left, across restarts: the account is not
\* locked (poller.py:112-121, 216-229).  A refusal whose handling a kill cut
\* short is not counted.
LockoutBound == rejections <= granted

\* Why it does, whatever the process forgets: the stored count covers all
\* the refusals of the period, and whenever the agent can still come to a
\* sign-in by itself there is one refusal left.  (Inductive.)
CanSignIn == ~paused \/ challenge \/ gate \notin {"idle", "down"}
LockoutBudget ==
  /\ rejections <= granted
  /\ (CanSignIn => rejections < granted)
  /\ (login_failures < MaxLoginFailures =>
        rejections + (MaxLoginFailures - login_failures) <= granted)

\* Once the session is live for good, no challenge pause lasts: the agent
\* resumes with no human's help (poller.py:142-176; CAPTCHA.md:41-43, "you
\* just no longer have to answer for the agent to recover").
SelfResume ==
  <>[](portal = "session") =>
    ((paused /\ reason = "challenge") ~> ~(paused /\ reason = "challenge"))

=============================================================================
