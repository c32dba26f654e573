---------------------------- MODULE AgentProofs ----------------------------
(***************************************************************************)
(* Proofs about the composition of gate and cycle, for every set of        *)
(* shifts, limit, configuration and bound: what the gate promises about a  *)
(* pause holds for the submissions of the cycle behind it, and each of the *)
(* two still behaves as its own module says.  The first argument joins     *)
(* three facts: the gate is open exactly while a cycle runs, a pause asked *)
(* for between cycles cannot be undone by the agent, and neither can the   *)
(* breaker's.                                                              *)
(***************************************************************************)
EXTENDS Agent, TLAPS

\* The gate is open exactly while a cycle runs, and both are down together.
Aligned ==
  /\ gate = "open" <=> pc \notin {"idle", "down"}
  /\ gate = "down" <=> pc = "down"

\* What the gate has to keep for a pause to stop the cycle.  (Inductive,
\* with Aligned.)
PausesHeld ==
  /\ Gate!IdlePauseHeld /\ Gate!SignInPauseHeld
  /\ rejections \in Nat

\* Every step is one of the gate or leaves its variables alone.
LEMMA GateMoves == [Next]_vars => Gate!Next \/ UNCHANGED gateOwn
  <1> SUFFICES ASSUME [Next]_vars PROVE Gate!Next \/ UNCHANGED gateOwn
    OBVIOUS
  <1>1. CASE Enter
    BY <1>1 DEF Enter, Gate!Next, Gate!SigningIn
  <1>2. CASE Return
    BY <1>2 DEF Return, Gate!Next
  <1>3. CASE CycleStep
    BY <1>3 DEF CycleStep
  <1>4. CASE GateStep
    BY <1>4 DEF GateStep, Gate!Next
  <1>5. CASE Killed
    BY <1>5 DEF Killed, Gate!Next
  <1>6. CASE Restarted
    BY <1>6 DEF Restarted, Gate!Next
  <1>7. CASE UNCHANGED vars
    BY <1>7 DEF vars
  <1> QED BY <1>1, <1>2, <1>3, <1>4, <1>5, <1>6, <1>7 DEF Next

\* The gate opens and closes with the cycle.
LEMMA AlignedStep == Aligned /\ [Next]_vars => Aligned'
  <1> SUFFICES ASSUME Aligned, [Next]_vars PROVE Aligned'
    OBVIOUS
  <1> USE DEF Aligned
  <1>1. CASE Enter
    BY <1>1 DEF Enter, Gate!Authenticated, Gate!LoginOk, Claims!Begin
  <1>2. CASE Return
    BY <1>2 DEF Return, Gate!CycleDone
  <1>3. CASE CycleStep
    BY <1>3 DEF CycleStep, gateOwn
  <1>4. CASE GateStep
    BY <1>4 DEF GateStep, claimsOwn
  <1>5. CASE Killed
    BY <1>5 DEF Killed, Gate!Kill, Claims!Kill, Claims!Leave
  <1>6. CASE Restarted
    BY <1>6 DEF Restarted, Gate!Restart, Claims!Restart
  <1>7. CASE UNCHANGED vars
    BY <1>7 DEF vars, gateOwn, claimsOwn
  <1> QED BY <1>1, <1>2, <1>3, <1>4, <1>5, <1>6, <1>7 DEF Next

\* Here a step makes all its writes or none.
LEMMA CutWhole == \A step, k : Gate!Cut(step, k) \subseteq {0, k}
  BY DEF Gate!Cut

\* A pause or resume that is not the breaker's leaves nothing behind that a
\* probe could lift, whole or not begun.
LEMMA OtherWrite ==
  ASSUME PausesHeld, NEW k \in {2, 3}, NEW n \in {0, k}, NEW p, NEW r, NEW c,
         Gate!WritePause(n, p, r, c), r # "breaker",
         NEW g, Gate!Ends(n, k, g)
  PROVE  Gate!SignInPauseHeld'
  <1>1. CASE n = 0
    <2>1. UNCHANGED <<paused, reason, challenge>> /\ gate' = "down"
      BY <1>1 DEF Gate!WritePause, Gate!Ends
    <2> QED BY <2>1 DEF PausesHeld, Gate!SignInPauseHeld
  <1>2. CASE n = k
    <2>1. reason' = r
      BY <1>2 DEF Gate!WritePause
    <2> QED BY <2>1 DEF Gate!SignInPauseHeld
  <1> QED BY <1>1, <1>2

\* Every step of the gate keeps its pauses.
LEMMA GateKeepsPauses == PausesHeld /\ Gate!Next => PausesHeld'
  <1> SUFFICES ASSUME PausesHeld, Gate!Next PROVE PausesHeld'
    OBVIOUS
  <1>1. ASSUME Gate!Probing PROVE PausesHeld'
    <2>1. CASE Gate!BeginProbe \/ Gate!ProbeFails
      BY <2>1 DEF Gate!BeginProbe, Gate!MayProbe, Gate!ProbeFails, Gate!stored, Gate!history,
                  PausesHeld, Gate!IdlePauseHeld, Gate!SignInPauseHeld
    <2>2. ASSUME NEW n \in Gate!Cut("recover", 3), Gate!ProbeRecovers(n) PROVE PausesHeld'
      <3>1. n \in {0, 3}
        BY CutWhole
      <3>2. Gate!SignInPauseHeld'
        <4>1. Gate!WritePause(n, FALSE, "none", FALSE) /\ Gate!Ends(n, 3, "resumed")
          BY <2>2 DEF Gate!ProbeRecovers, Gate!Resume
        <4> QED BY <3>1, <4>1, OtherWrite
      <3>3. asked' = asked /\ rejections' = rejections /\ gate = "probe"
        BY <2>2 DEF Gate!ProbeRecovers
      <3> QED BY <3>2, <3>3 DEF PausesHeld, Gate!IdlePauseHeld
    <2> QED BY <1>1, <2>1, <2>2 DEF Gate!Probing
  <1>2. ASSUME Gate!Resuming \/ Gate!BeginCheck \/ Gate!CycleDone PROVE PausesHeld'
    BY <1>2 DEF Gate!Resuming, Gate!AfterResume, Gate!BeginCheck, Gate!CycleDone, Gate!stored,
                Gate!history, PausesHeld, Gate!IdlePauseHeld, Gate!SignInPauseHeld
  <1>3. ASSUME Gate!SigningIn PROVE PausesHeld'
    <2>1. CASE Gate!Authenticated \/ Gate!NotAuthenticated \/ Gate!CheckRaises \/ Gate!LoginOk
      BY <2>1 DEF Gate!Authenticated, Gate!NotAuthenticated, Gate!CheckRaises, Gate!LoginOk,
                  Gate!stored, Gate!history, PausesHeld, Gate!IdlePauseHeld,
                  Gate!SignInPauseHeld
    <2>2. ASSUME NEW n \in Gate!Cut("challenge", 3), Gate!LoginNeedsHuman(n)
          PROVE  PausesHeld'
      <3>1. n \in {0, 3}
        BY CutWhole
      <3>2. Gate!SignInPauseHeld'
        <4>1. Gate!WritePause(n, TRUE, "challenge", TRUE) /\ Gate!Ends(n, 3, "idle")
          BY <2>2 DEF Gate!LoginNeedsHuman, Gate!ChallengePause
        <4> QED BY <3>1, <4>1, OtherWrite
      <3>3. asked' = asked /\ rejections' = rejections /\ gate = "login"
        BY <2>2 DEF Gate!LoginNeedsHuman
      <3> QED BY <3>2, <3>3 DEF PausesHeld, Gate!IdlePauseHeld
    <2>3. ASSUME NEW n \in Gate!Cut("refusal", Gate!RefusalWrites), Gate!LoginRejected(n)
          PROVE  PausesHeld'
      <3>1. Gate!RefusalWrites \in {1, 4} /\ n \in {0, Gate!RefusalWrites}
        BY CutWhole DEF Gate!RefusalWrites
      <3>2. gate = "login" /\ asked' = asked /\ gate' \in {"idle", "down"}
        BY <2>3 DEF Gate!LoginRejected, Gate!Ends
      <3>3. rejections' \in Nat
        BY <2>3 DEF Gate!LoginRejected, PausesHeld
      <3>4. UNCHANGED <<paused, reason, challenge>> \/ ~challenge'
        <4>1. CASE Gate!RefusalWrites = 1
          BY <2>3, <4>1 DEF Gate!LoginRejected
        <4>2. CASE Gate!RefusalWrites = 4
          <5>1. Gate!WritePause(n - 1, TRUE, "breaker", FALSE)
            BY <2>3, <4>2 DEF Gate!LoginRejected, Gate!SignInPause
          <5>2. CASE n = 0
            BY <5>1, <5>2 DEF Gate!WritePause
          <5>3. CASE n = 4
            BY <5>1, <5>3 DEF Gate!WritePause
          <5> QED BY <3>1, <4>2, <5>2, <5>3
        <4> QED BY <3>1, <4>1, <4>2
      <3>5. Gate!SignInPauseHeld'
        BY <3>2, <3>4 DEF PausesHeld, Gate!SignInPauseHeld
      <3> QED BY <3>2, <3>3, <3>5 DEF PausesHeld, Gate!IdlePauseHeld
    <2> QED BY <1>3, <2>1, <2>2, <2>3 DEF Gate!SigningIn
  <1>4. ASSUME Gate!HumanSays PROVE PausesHeld'
    <2>1. ASSUME NEW n \in Gate!Cut("tg", 3), Gate!TgPause(n) PROVE PausesHeld'
      <3>1. n \in {0, 3}
        BY CutWhole
      <3>2. Gate!WritePause(n, TRUE, "human", FALSE) /\ Gate!Ends(n, 3, gate)
        BY <2>1 DEF Gate!TgPause, Gate!HumanPause
      <3>3. Gate!SignInPauseHeld'
        BY <3>1, <3>2, OtherWrite
      <3>4. Gate!IdlePauseHeld'
        BY <2>1, <3>1 DEF Gate!TgPause, Gate!HumanPause, Gate!WritePause, Gate!Ends,
                          PausesHeld, Gate!IdlePauseHeld
      <3> QED BY <2>1, <3>3, <3>4 DEF Gate!TgPause, PausesHeld
    <2>2. ASSUME NEW n \in Gate!Cut("tg", 3), Gate!TgResume(n) PROVE PausesHeld'
      <3>1. n \in {0, 3}
        BY CutWhole
      <3>2. Gate!WritePause(n, FALSE, "none", FALSE) /\ Gate!Ends(n, 3, gate)
        BY <2>2 DEF Gate!TgResume, Gate!Resume
      <3>3. Gate!SignInPauseHeld'
        BY <3>1, <3>2, OtherWrite
      <3>4. Gate!IdlePauseHeld' /\ rejections' \in Nat
        BY <2>2, <3>1 DEF Gate!TgResume, Gate!HumanResumed, Gate!Resume, Gate!WritePause,
                          Gate!Ends, PausesHeld, Gate!IdlePauseHeld
      <3> QED BY <3>3, <3>4 DEF PausesHeld
    <2>3. ASSUME NEW n \in Gate!Cut("chat", 2), Gate!ChatPause(n) PROVE PausesHeld'
      <3>1. n \in {0, 2}
        BY CutWhole
      <3>2. Gate!WritePause(n, TRUE, "human", challenge) /\ Gate!Ends(n, 2, gate)
        BY <2>3 DEF Gate!ChatPause
      <3>3. Gate!SignInPauseHeld'
        BY <3>1, <3>2, OtherWrite
      <3>4. Gate!IdlePauseHeld'
        BY <2>3, <3>1 DEF Gate!ChatPause, Gate!WritePause, Gate!Ends,
                          PausesHeld, Gate!IdlePauseHeld
      <3> QED BY <2>3, <3>3, <3>4 DEF Gate!ChatPause, PausesHeld
    <2>4. ASSUME NEW n \in Gate!Cut("chat", 2), Gate!ChatResume(n) PROVE PausesHeld'
      <3>1. n \in {0, 2}
        BY CutWhole
      <3>2. Gate!WritePause(n, FALSE, "none", challenge) /\ Gate!Ends(n, 2, gate)
        BY <2>4 DEF Gate!ChatResume
      <3>3. Gate!SignInPauseHeld'
        BY <3>1, <3>2, OtherWrite
      <3>4. Gate!IdlePauseHeld' /\ rejections' \in Nat
        BY <2>4, <3>1 DEF Gate!ChatResume, Gate!HumanResumed, Gate!WritePause, Gate!Ends,
                          PausesHeld, Gate!IdlePauseHeld
      <3> QED BY <3>3, <3>4 DEF PausesHeld
    <2> QED BY <1>4, <2>1, <2>2, <2>3, <2>4 DEF Gate!HumanSays
  <1>5. CASE Gate!PortalChanges \/ Gate!Tick \/ Gate!Kill \/ Gate!Restart
    BY <1>5 DEF Gate!PortalChanges, Gate!Tick, Gate!Kill, Gate!Restart, Gate!stored,
                Gate!volatile, Gate!history, PausesHeld, Gate!IdlePauseHeld,
                Gate!SignInPauseHeld
  <1> QED BY <1>1, <1>2, <1>3, <1>4, <1>5 DEF Gate!Next

\* Whatever the cycle does, the pauses stay.
LEMMA PausesStep == PausesHeld /\ [Next]_vars => PausesHeld'
  <1>1. PausesHeld /\ UNCHANGED gateOwn => PausesHeld'
    BY DEF PausesHeld, Gate!IdlePauseHeld, Gate!SignInPauseHeld, gateOwn
  <1> QED BY <1>1, GateMoves, GateKeepsPauses

-----------------------------------------------------------------------------
(* Nothing goes to the portal behind a closed gate                         *)

\* Only a cycle about to claim submits.
LEMMA SubmitsInCycle == [Next]_vars /\ pc \in {"idle", "down"} => UNCHANGED submits
  <1> SUFFICES ASSUME [Next]_vars, pc \in {"idle", "down"} PROVE UNCHANGED submits
    OBVIOUS
  <1>1. Claims!Reconcile => UNCHANGED submits
    BY DEF Claims!Reconcile, Claims!FetchFails, Claims!CheckRaises, Claims!CheckPending,
           Claims!CheckDecided
  <1>2. ~Claims!Fetch /\ ~Claims!Alerts
    BY DEF Claims!Fetch, Claims!Classify, Claims!Alerts, Claims!AlertsDone, Claims!AlertSeen,
           Claims!Alert
  <1>3. ~Claims!Act
    BY DEF Claims!Act, Claims!ActDone, Claims!DryClaim, Claims!Skip, Claims!Offer,
           Claims!Answer, Claims!Submit, Claims!SubmitRaises, Claims!Record
  <1>4. \A s \in Shifts, r \in Claims!Requests : Claims!Decide(s, r) => UNCHANGED submits
    BY DEF Claims!Decide, Claims!history
  <1>5. CASE Enter
    BY <1>5 DEF Enter, Claims!Begin, Claims!history
  <1>6. CASE Return
    BY <1>6, <1>1, <1>3 DEF Return
  <1>7. CASE CycleStep
    BY <1>7, <1>1, <1>2, <1>3, <1>4 DEF CycleStep
  <1>8. CASE GateStep
    BY <1>8 DEF GateStep, claimsOwn
  <1>9. CASE Killed
    <2>1. Claims!Kill => UNCHANGED submits
      BY DEF Claims!Kill
    <2> QED BY <1>9, <2>1, <1>1, <1>3 DEF Killed
  <1>10. CASE Restarted
    BY <1>10 DEF Restarted, Claims!Restart, Claims!history
  <1>11. CASE UNCHANGED vars
    BY <1>11 DEF vars, claimsOwn
  <1> QED BY <1>5, <1>6, <1>7, <1>8, <1>9, <1>10, <1>11 DEF Next

\* With no sign-in in flight the portal refuses none.
LEMMA RefusalsAtLogin ==
  PausesHeld /\ [Next]_vars /\ gate \in {"idle", "down"} => rejections' <= rejections
  <1> SUFFICES ASSUME PausesHeld, [Next]_vars, gate \in {"idle", "down"}
               PROVE  rejections' \in {0, rejections}
    BY DEF PausesHeld
  <1>1. CASE UNCHANGED gateOwn
    BY <1>1 DEF gateOwn
  <1>2. CASE Gate!Next
    <2>1. Gate!Probing => rejections' = rejections
      BY DEF Gate!Probing, Gate!BeginProbe, Gate!ProbeFails, Gate!ProbeRecovers, Gate!history
    <2>2. Gate!Resuming \/ Gate!BeginCheck \/ Gate!CycleDone => rejections' = rejections
      BY DEF Gate!Resuming, Gate!AfterResume, Gate!BeginCheck, Gate!CycleDone, Gate!history
    <2>3. ~Gate!SigningIn
      BY DEF Gate!SigningIn, Gate!Authenticated, Gate!NotAuthenticated, Gate!CheckRaises,
             Gate!LoginOk, Gate!LoginNeedsHuman, Gate!LoginRejected
    <2>4. Gate!HumanSays => rejections' \in {0, rejections}
      BY DEF Gate!HumanSays, Gate!TgPause, Gate!TgResume, Gate!ChatPause, Gate!ChatResume,
             Gate!HumanResumed
    <2>5. Gate!PortalChanges \/ Gate!Tick \/ Gate!Kill \/ Gate!Restart => rejections' = rejections
      BY DEF Gate!PortalChanges, Gate!Tick, Gate!Kill, Gate!Restart, Gate!history
    <2> QED BY <1>2, <2>1, <2>2, <2>3, <2>4, <2>5 DEF Gate!Next
  <1> QED BY <1>1, <1>2, GateMoves

\* A /pause handled between cycles, and the breaker's pause, stop the claims:
\* until a human resumes nothing goes to the portal, over every kill,
\* challenge, probe and stale flag, for every set of shifts and limit.
THEOREM PausesAreObeyed == Spec => PausesStopClaims
  <1>1. Init => Aligned /\ PausesHeld
    BY DEF Init, Gate!Init, Claims!Init, Aligned, PausesHeld, Gate!IdlePauseHeld,
           Gate!SignInPauseHeld
  <1>2. Aligned /\ PausesHeld /\ [Next]_vars => (Aligned /\ PausesHeld)'
    BY AlignedStep, PausesStep
  <1>3. Aligned /\ PausesHeld /\ [Next]_vars =>
          [/\ asked = "idle" => UNCHANGED submits
           /\ paused /\ reason = "breaker" => UNCHANGED submits /\ rejections' <= rejections]_vars
    <2> SUFFICES ASSUME Aligned, PausesHeld, [Next]_vars
                 PROVE  /\ asked = "idle" => UNCHANGED submits
                        /\ paused /\ reason = "breaker" =>
                             UNCHANGED submits /\ rejections' <= rejections
      OBVIOUS
    <2>1. asked = "idle" \/ (paused /\ reason = "breaker") => gate \in {"idle", "down"}
      BY DEF PausesHeld, Gate!IdlePauseHeld, Gate!SignInPauseHeld
    <2>2. gate \in {"idle", "down"} => pc \in {"idle", "down"}
      BY DEF Aligned
    <2> QED BY <2>1, <2>2, SubmitsInCycle, RefusalsAtLogin
  <1> QED BY <1>1, <1>2, <1>3, PTL DEF Spec, PausesStopClaims

-----------------------------------------------------------------------------
(* The parts in the whole                                                  *)

\* A step of the gate that does not end the process is no kill.
LEMMA GateLives ==
  ASSUME GateStep
  PROVE  kills' = kills
  <1>1. gate' = "down" <=> gate = "down"
    BY DEF GateStep
  <1>2. ASSUME Gate!Probing \/ Gate!HumanSays PROVE kills' = kills
    <2>1. gate # "down"
      BY <1>2 DEF Gate!Probing, Gate!BeginProbe, Gate!ProbeFails, Gate!ProbeRecovers, Gate!HumanSays,
                  Gate!TgPause, Gate!TgResume, Gate!ChatPause, Gate!ChatResume
    <2>2. \A n, k, g : Gate!Ends(n, k, g) => kills' = kills
      BY <1>1, <2>1 DEF Gate!Ends
    <2> QED BY <1>2, <2>2 DEF Gate!Probing, Gate!BeginProbe, Gate!ProbeFails, Gate!ProbeRecovers,
                Gate!HumanSays, Gate!TgPause, Gate!TgResume, Gate!ChatPause, Gate!ChatResume, Gate!history
  <1>3. ASSUME Gate!SigningIn PROVE kills' = kills
    <2>1. gate # "down"
      BY <1>3 DEF Gate!SigningIn, Gate!Authenticated, Gate!NotAuthenticated, Gate!CheckRaises,
                  Gate!LoginOk, Gate!LoginNeedsHuman, Gate!LoginRejected
    <2>2. \A n, k, g : Gate!Ends(n, k, g) => kills' = kills
      BY <1>1, <2>1 DEF Gate!Ends
    <2> QED BY <1>3, <2>2 DEF Gate!SigningIn, Gate!Authenticated, Gate!NotAuthenticated,
                Gate!CheckRaises, Gate!LoginOk, Gate!LoginNeedsHuman, Gate!LoginRejected, Gate!history
  <1>4. ASSUME Gate!Resuming \/ Gate!BeginCheck \/ Gate!PortalChanges \/ Gate!Tick PROVE kills' = kills
    BY <1>4 DEF Gate!Resuming, Gate!AfterResume, Gate!BeginCheck, Gate!PortalChanges, Gate!Tick,
                Gate!history
  <1> QED BY <1>2, <1>3, <1>4 DEF GateStep

\* Every step of the whole is one of the gate or leaves it and the kills alone.
LEMMA GateFollows == [Next]_vars => [Gate!Next]_(Gate!vars)
  <1> SUFFICES ASSUME [Next]_vars, UNCHANGED gateOwn PROVE Gate!Next \/ UNCHANGED Gate!vars
    BY GateMoves
  <1>1. CASE kills' = kills
    BY <1>1 DEF gateOwn, Gate!vars, Gate!stored, Gate!volatile, Gate!history
  <1>2. CASE Enter \/ Return \/ Killed \/ Restarted \/ GateStep
    BY <1>2 DEF Enter, Return, Killed, Restarted, GateStep, Gate!Next, Gate!SigningIn
  <1>3. CASE CycleStep \/ UNCHANGED vars
    BY <1>1, <1>3 DEF CycleStep, vars
  <1> QED BY <1>2, <1>3 DEF Next

\* Every step of the whole is one of the cycle or leaves it and the kills alone.
LEMMA CycleFollows == [Next]_vars => [Claims!Next]_(Claims!vars)
  <1> SUFFICES ASSUME [Next]_vars PROVE Claims!Next \/ UNCHANGED Claims!vars
    OBVIOUS
  <1>1. CASE Enter \/ Return \/ Killed \/ Restarted
    BY <1>1 DEF Enter, Return, Killed, Restarted, Claims!Next, Claims!Environment
  <1>2. CASE CycleStep
    BY <1>2 DEF CycleStep, Claims!Next, Claims!Environment
  <1>3. CASE GateStep
    <2>1. UNCHANGED claimsOwn /\ kills' = kills
      BY <1>3, GateLives DEF GateStep
    <2> QED BY <2>1 DEF claimsOwn, Claims!vars, Claims!stored, Claims!config, Claims!locals,
                Claims!lists, Claims!history
  <1>4. CASE UNCHANGED vars
    BY <1>4 DEF vars, claimsOwn, Claims!vars, Claims!stored, Claims!config, Claims!locals,
                Claims!lists, Claims!history
  <1> QED BY <1>1, <1>2, <1>3, <1>4 DEF Next

\* The gate of the composed agent is the gate of AuthGate, where no kill tears
\* a step: run_once past its sign-in, and a kill there, do nothing to the pause
\* or the session that AuthGate does not allow (poller.py:128-235).
THEOREM AgentRunsGate == Spec => Gate!Spec
  <1>1. Init => Gate!Init
    BY DEF Init
  <1> QED BY <1>1, GateFollows, PTL DEF Spec, Gate!Spec

\* The cycle of the composed agent is the cycle of ClaimCycle: what happens at
\* the gate, a probe or a command, touches none of its state, and a kill there
\* is a kill between two cycles (poller.py:240-314, 417-468).
THEOREM AgentRunsCycle == Spec => Claims!Spec
  <1>1. Init => Claims!Init
    BY DEF Init
  <1> QED BY <1>1, CycleFollows, PTL DEF Spec, Claims!Spec

=============================================================================
