------------------------------- MODULE Agent -------------------------------
(***************************************************************************)
(* The agent as it runs: AuthGate in front of ClaimCycle in one process.   *)
(* run_once goes from a live session straight into _reconcile_claims, so   *)
(* the gate opens in the step that begins the cycle and leaves "open" in   *)
(* the step that ends it; a kill takes both down and a restart brings both *)
(* back.  Between these, a step of one component leaves the other alone:   *)
(* a command is handled while the cycle awaits something, and the cycle    *)
(* never looks at the pause again.                                         *)
(***************************************************************************)
EXTENDS Integers, Sequences

CONSTANTS
  MaxLoginFailures, ProbeStart, ProbeMax, Commands, FailCap,
  Shifts, NoShift, Conflict, MaxAttempts, Modes, DryRuns, Copies,
  Deferrals, ClaimLossy, PageLossy,
  MaxKills

VARIABLES
  \* the gate's
  paused, reason, challenge, login_failures, gate, backoff, probeIn, portal,
  asked, rejections, granted,
  \* the cycle's
  offered, claims, queue, mode, dry, deferred, pc, checks, snap, cands, alerts, cur, res,
  request, told, confirms, submits,
  \* both components count the same kills
  kills

\* A kill falls between two steps here, never between two writes of one.
Gate   == INSTANCE AuthGate WITH Torn <- {}
Claims == INSTANCE ClaimCycle WITH Torn <- {}

\* All of a component's variables but the shared count of kills.
gateOwn == <<paused, reason, challenge, login_failures, gate, backoff, probeIn,
             portal, asked, rejections, granted>>
claimsOwn == <<offered, claims, queue, mode, dry, deferred, pc, checks, snap, cands, alerts,
               cur, res, request, told, confirms, submits>>
vars == <<gateOwn, claimsOwn, kills>>

Init == Gate!Init /\ Claims!Init

-----------------------------------------------------------------------------
\* The session is live: past the gate and into the cycle, with no await.
Enter == (Gate!Authenticated \/ Gate!LoginOk) /\ Claims!Begin

\* run_once returns or raises.
Return ==
  /\ Gate!CycleDone
  /\ Claims!Reconcile \/ Claims!Act
  /\ pc' = "idle"

\* A step inside the cycle, or of the portal on its requests.
CycleStep ==
  /\ Claims!Reconcile \/ Claims!Fetch \/ Claims!Alerts \/ Claims!Act
       \/ \E s \in Shifts, r \in Claims!Requests : Claims!Decide(s, r)
  /\ (pc' = "idle" <=> pc = "idle") /\ (pc' = "down" <=> pc = "down")
  /\ UNCHANGED gateOwn /\ kills' = kills

\* A step of the gate, of a human or of the session.
GateStep ==
  /\ Gate!Probing \/ Gate!Resuming \/ Gate!BeginCheck \/ Gate!SigningIn
       \/ Gate!HumanSays \/ Gate!PortalChanges \/ Gate!Tick
  /\ (gate' = "open" <=> gate = "open") /\ (gate' = "down" <=> gate = "down")
  /\ UNCHANGED claimsOwn

\* The process is killed, between two steps or between two writes of one.
Killed ==
  \/ Gate!Kill /\ Claims!Kill
  \/ Gate!Kill /\ (Claims!Reconcile \/ Claims!Act) /\ pc' = "down"
  \/ (Gate!Probing \/ Gate!SigningIn \/ Gate!HumanSays) /\ gate' = "down" /\ Claims!Kill

Restarted == Gate!Restart /\ \E m \in Modes, d \in DryRuns : Claims!Restart(m, d)

Next == Enter \/ Return \/ CycleStep \/ GateStep \/ Killed \/ Restarted

Spec == Init /\ [][Next]_vars

\* The loop keeps running, calls end, time passes, the supervisor restarts,
\* and a portal that keeps being asked gives its decision in the end.  The
\* human, the kills and the portal's moods owe nothing.
Working ==
  \/ Enter \/ Return
  \/ GateStep /\ (Gate!Probing \/ Gate!Resuming \/ Gate!BeginCheck \/ Gate!SigningIn)
  \/ CycleStep /\ UNCHANGED request
Reads(s) ==
  CycleStep /\ \E o \in Claims!Decided(s), n \in Claims!Cut("settle", 2) : Claims!CheckDecided(s, o, n)

Fairness ==
  /\ WF_vars(Working) /\ WF_vars(GateStep /\ Gate!Tick) /\ WF_vars(Restarted)
  /\ \A s \in Shifts : SF_vars(Reads(s))

FairSpec == Spec /\ Fairness

-----------------------------------------------------------------------------
(* Properties                                                              *)

\* After a /pause handled between cycles, and while the sign-in breaker has
\* the agent stopped, nothing goes to the portal until a human resumes, over
\* every kill, challenge and stale flag in between; and the breaker's pause
\* has no further sign-in refused (poller.py:216-229; telegram.py:325-328).
PausesStopClaims ==
  [][/\ asked = "idle" => UNCHANGED submits
     /\ paused /\ reason = "breaker" => UNCHANGED submits /\ rejections' <= rejections]_vars

\* A denied request, or one the portal never took, is reported even if
\* challenges keep interrupting the agent, as long as in the end the session
\* stays live and no human and no breaker keeps it stopped: a challenge pause
\* strands no request.
DecisionsSurviveChallenges ==
  (<>[](portal = "session") /\ <>[](paused => reason = "challenge")) =>
    \A s \in Shifts :
      (s \in queue /\ Claims!Refused(s)) ~> (Claims!Reported(s) = "failed")

=============================================================================
