--------------------------- MODULE AuthGateProofs ---------------------------
(***************************************************************************)
(* Proofs about AuthGate, for every limit, probe interval, set of commands *)
(* and bound.  Each safety property needs an inductive strengthening: what *)
(* it says of the pause, together with what the stored flags say of the    *)
(* await the cycle is suspended at.                                        *)
(***************************************************************************)
EXTENDS AuthGate, TLAPS

\* How many writes reach the disk: never more than the step makes.
LEMMA CutRange == \A step, k : k \in Nat => Cut(step, k) \subseteq 0..k
  BY DEF Cut

\* Without torn writes it is none or all of them.
LEMMA CutWhole == \A step, k : k \in Nat /\ step \notin Torn => Cut(step, k) \subseteq {0, k}
  BY DEF Cut

\* A pause and a resume keep the types of the keys they write.
LEMMA WritePauseType ==
  ASSUME TypeOK, NEW n, NEW p \in BOOLEAN, NEW r \in Reasons, NEW c \in BOOLEAN,
         WritePause(n, p, r, c)
  PROVE  paused' \in BOOLEAN /\ reason' \in Reasons /\ challenge' \in BOOLEAN
  BY DEF WritePause, TypeOK

\* The await a step ends in is one of the gate's, and a kill is counted.
LEMMA EndsType ==
  ASSUME TypeOK, NEW k \in Nat, NEW step, NEW n \in Cut(step, k), NEW g \in Gates, Ends(n, k, g)
  PROVE  gate' \in Gates /\ kills' \in 0..MaxKills
  BY BoundAssumption DEF Ends, TypeOK, Gates, Cut

\* Every step keeps the types.
LEMMA TypeStep == TypeOK /\ [Next]_vars => TypeOK'
  <1> SUFFICES ASSUME TypeOK, [Next]_vars PROVE TypeOK'
    OBVIOUS
  <1> USE LimitAssumption, ProbeAssumption, BoundAssumption
  <1>1. ASSUME Probing PROVE TypeOK'
    <2>1. CASE BeginProbe
      BY <2>1 DEF BeginProbe, TypeOK, Gates, stored, history
    <2>2. CASE ProbeFails
      BY <2>2 DEF ProbeFails, TypeOK, Gates, Widen, Lesser, stored
    <2>3. ASSUME NEW n \in Cut("recover", 3), ProbeRecovers(n) PROVE TypeOK'
      <3>1. paused' \in BOOLEAN /\ reason' \in Reasons /\ challenge' \in BOOLEAN
        BY <2>3, WritePauseType DEF ProbeRecovers, Resume, Reasons
      <3>2. gate' \in Gates /\ kills' \in 0..MaxKills
        BY <2>3, EndsType DEF ProbeRecovers, Gates
      <3> QED BY <2>3, <3>1, <3>2 DEF ProbeRecovers, TypeOK
    <2> QED BY <1>1, <2>1, <2>2, <2>3 DEF Probing
  <1>2. ASSUME Resuming PROVE TypeOK'
    BY <1>2 DEF Resuming, AfterResume, TypeOK, Gates, stored, history
  <1>3. ASSUME BeginCheck \/ CycleDone PROVE TypeOK'
    BY <1>3 DEF BeginCheck, CycleDone, TypeOK, Gates, stored, history
  <1>4. ASSUME SigningIn PROVE TypeOK'
    <2>1. CASE Authenticated \/ NotAuthenticated \/ CheckRaises
      BY <2>1 DEF Authenticated, NotAuthenticated, CheckRaises, TypeOK, Gates, stored, history
    <2>2. CASE LoginOk
      BY <2>2 DEF LoginOk, TypeOK, Gates, Portals
    <2>3. ASSUME NEW n \in Cut("challenge", 3), LoginNeedsHuman(n) PROVE TypeOK'
      <3>1. paused' \in BOOLEAN /\ reason' \in Reasons /\ challenge' \in BOOLEAN
        BY <2>3, WritePauseType DEF LoginNeedsHuman, ChallengePause, Reasons
      <3>2. gate' \in Gates /\ kills' \in 0..MaxKills
        BY <2>3, EndsType DEF LoginNeedsHuman, Gates
      <3> QED BY <2>3, <3>1, <3>2 DEF LoginNeedsHuman, TypeOK
    <2>4. ASSUME NEW n \in Cut("refusal", RefusalWrites), LoginRejected(n) PROVE TypeOK'
      <3>1. paused' \in BOOLEAN /\ reason' \in Reasons /\ challenge' \in BOOLEAN
        BY <2>4, WritePauseType DEF LoginRejected, SignInPause, Reasons, TypeOK
      <3>2. gate' \in Gates /\ kills' \in 0..MaxKills
        BY <2>4, EndsType DEF LoginRejected, RefusalWrites, Gates
      <3> QED BY <2>4, <3>1, <3>2 DEF LoginRejected, TypeOK
    <2> QED BY <1>4, <2>1, <2>2, <2>3, <2>4 DEF SigningIn
  <1>5. ASSUME HumanSays PROVE TypeOK'
    <2>1. ASSUME NEW n \in Cut("tg", 3), TgPause(n) PROVE TypeOK'
      <3>1. paused' \in BOOLEAN /\ reason' \in Reasons /\ challenge' \in BOOLEAN
        BY <2>1, WritePauseType DEF TgPause, HumanPause, Reasons
      <3>2. gate' \in Gates /\ kills' \in 0..MaxKills
        BY <2>1, EndsType DEF TgPause, TypeOK
      <3> QED BY <2>1, <3>1, <3>2 DEF TgPause, TypeOK, Asked
    <2>2. ASSUME NEW n \in Cut("tg", 3), TgResume(n) PROVE TypeOK'
      <3>1. paused' \in BOOLEAN /\ reason' \in Reasons /\ challenge' \in BOOLEAN
        BY <2>2, WritePauseType DEF TgResume, Resume, Reasons
      <3>2. gate' \in Gates /\ kills' \in 0..MaxKills
        BY <2>2, EndsType DEF TgResume, TypeOK
      <3> QED BY <2>2, <3>1, <3>2 DEF TgResume, HumanResumed, Remaining, TypeOK, Asked
    <2>3. ASSUME NEW n \in Cut("chat", 2), ChatPause(n) PROVE TypeOK'
      <3>1. paused' \in BOOLEAN /\ reason' \in Reasons /\ challenge' \in BOOLEAN
        BY <2>3, WritePauseType DEF ChatPause, Reasons, TypeOK
      <3>2. gate' \in Gates /\ kills' \in 0..MaxKills
        BY <2>3, EndsType DEF ChatPause, TypeOK
      <3> QED BY <2>3, <3>1, <3>2 DEF ChatPause, TypeOK, Asked
    <2>4. ASSUME NEW n \in Cut("chat", 2), ChatResume(n) PROVE TypeOK'
      <3>1. paused' \in BOOLEAN /\ reason' \in Reasons /\ challenge' \in BOOLEAN
        BY <2>4, WritePauseType DEF ChatResume, Reasons, TypeOK
      <3>2. gate' \in Gates /\ kills' \in 0..MaxKills
        BY <2>4, EndsType DEF ChatResume, TypeOK
      <3> QED BY <2>4, <3>1, <3>2 DEF ChatResume, HumanResumed, Remaining, TypeOK, Asked
    <2> QED BY <1>5, <2>1, <2>2, <2>3, <2>4 DEF HumanSays
  <1>6. CASE PortalChanges
    BY <1>6 DEF PortalChanges, TypeOK, stored, volatile, history
  <1>7. CASE Tick
    BY <1>7 DEF Tick, TypeOK, stored, history
  <1>8. CASE Kill
    BY <1>8 DEF Kill, TypeOK, Gates, stored
  <1>9. CASE Restart
    BY <1>9 DEF Restart, FailuresKept, TypeOK, Gates, history
  <1>10. CASE UNCHANGED vars
    BY <1>10 DEF TypeOK, vars, stored, volatile, history
  <1> QED BY <1>1, <1>2, <1>3, <1>4, <1>5, <1>6, <1>7, <1>8, <1>9, <1>10 DEF Next

\* Every state of the gate has the types the code's values have: in
\* particular the probe interval never leaves its bounds (poller.py:174).
THEOREM TypeCorrect == Spec => []TypeOK
  <1>1. ASSUME Init PROVE TypeOK
    <2>1. paused \in BOOLEAN /\ challenge \in BOOLEAN /\ reason \in Reasons
      BY <1>1 DEF Init, Reasons
    <2>2. gate \in Gates /\ asked \in Asked /\ portal \in Portals
      BY <1>1 DEF Init, Gates, Asked
    <2>3. backoff \in ProbeStart..ProbeMax /\ probeIn \in 0..ProbeMax
      BY <1>1, ProbeAssumption DEF Init
    <2>4. kills \in 0..MaxKills
      BY <1>1, BoundAssumption DEF Init
    <2>5. login_failures \in Nat /\ rejections \in Nat /\ granted \in Nat
      BY <1>1, LimitAssumption DEF Init
    <2> QED BY <2>1, <2>2, <2>3, <2>4, <2>5 DEF TypeOK
  <1> QED BY <1>1, TypeStep, PTL DEF Spec

-----------------------------------------------------------------------------
(* A pause asked for between cycles                                        *)

\* Every step keeps the pause and what protects it.
LEMMA IdlePauseStep == TypeOK /\ IdlePauseHeld /\ [Next]_vars => IdlePauseHeld'
  <1> SUFFICES ASSUME TypeOK, IdlePauseHeld, [Next]_vars PROVE IdlePauseHeld'
    OBVIOUS
  <1>1. ASSUME Probing PROVE IdlePauseHeld'
    <2>1. CASE BeginProbe
      BY <2>1 DEF BeginProbe, MayProbe, IdlePauseHeld, stored, history
    <2>2. CASE ProbeFails
      BY <2>2 DEF ProbeFails, IdlePauseHeld, stored
    <2>3. ASSUME NEW n \in Cut("recover", 3), ProbeRecovers(n) PROVE IdlePauseHeld'
      BY <2>3 DEF ProbeRecovers, IdlePauseHeld
    <2> QED BY <1>1, <2>1, <2>2, <2>3 DEF Probing
  <1>2. ASSUME Resuming PROVE IdlePauseHeld'
    BY <1>2 DEF Resuming, AfterResume, IdlePauseHeld, stored, history
  <1>3. ASSUME BeginCheck \/ CycleDone PROVE IdlePauseHeld'
    BY <1>3 DEF BeginCheck, CycleDone, IdlePauseHeld, stored, history
  <1>4. ASSUME SigningIn PROVE IdlePauseHeld'
    <2>1. CASE Authenticated \/ NotAuthenticated \/ CheckRaises \/ LoginOk
      BY <2>1 DEF Authenticated, NotAuthenticated, CheckRaises, LoginOk, IdlePauseHeld,
                  stored, history
    <2>2. ASSUME NEW n \in Cut("challenge", 3), LoginNeedsHuman(n) PROVE IdlePauseHeld'
      BY <2>2 DEF LoginNeedsHuman, IdlePauseHeld
    <2>3. ASSUME NEW n \in Cut("refusal", RefusalWrites), LoginRejected(n) PROVE IdlePauseHeld'
      BY <2>3 DEF LoginRejected, IdlePauseHeld
    <2> QED BY <1>4, <2>1, <2>2, <2>3 DEF SigningIn
  <1>5. ASSUME HumanSays PROVE IdlePauseHeld'
    <2>1. ASSUME NEW n \in Cut("tg", 3), TgPause(n) PROVE IdlePauseHeld'
      <3>1. n \in 0..3
        BY CutRange
      <3> QED BY <2>1, <3>1 DEF TgPause, HumanPause, WritePause, Ends, IdlePauseHeld
    <2>2. ASSUME NEW n \in Cut("tg", 3), TgResume(n) PROVE IdlePauseHeld'
      <3>1. n \in 0..3
        BY CutRange
      <3> QED BY <2>2, <3>1 DEF TgResume, Resume, WritePause, HumanResumed, Ends, IdlePauseHeld
    <2>3. ASSUME NEW n \in Cut("chat", 2), ChatPause(n) PROVE IdlePauseHeld'
      <3>1. n \in 0..2
        BY CutRange
      <3> QED BY <2>3, <3>1 DEF ChatPause, WritePause, Ends, IdlePauseHeld
    <2>4. ASSUME NEW n \in Cut("chat", 2), ChatResume(n) PROVE IdlePauseHeld'
      <3>1. n \in 0..2
        BY CutRange
      <3> QED BY <2>4, <3>1 DEF ChatResume, WritePause, HumanResumed, Ends, IdlePauseHeld
    <2> QED BY <1>5, <2>1, <2>2, <2>3, <2>4 DEF HumanSays
  <1>6. CASE PortalChanges \/ Tick \/ Kill \/ Restart \/ UNCHANGED vars
    BY <1>6 DEF PortalChanges, Tick, Kill, Restart, IdlePauseHeld, vars, stored, volatile, history
  <1> QED BY <1>1, <1>2, <1>3, <1>4, <1>5, <1>6 DEF Next

\* A /pause handled between cycles lasts until a human resumes, whatever
\* flag an earlier challenge left behind and wherever the process is killed.
THEOREM IdlePauseIsKept == Spec => []IdlePauseHolds
  <1>1. Init => IdlePauseHeld
    BY DEF Init, IdlePauseHeld
  <1>2. IdlePauseHeld => IdlePauseHolds
    BY DEF IdlePauseHeld, IdlePauseHolds
  <1> QED BY <1>1, <1>2, IdlePauseStep, TypeCorrect, PTL DEF Spec

-----------------------------------------------------------------------------
(* The account is not locked                                               *)

\* Every step keeps the account of the refusals left.
LEMMA LockoutStep == TypeOK /\ LockoutBudget /\ [Next]_vars => LockoutBudget'
  <1> SUFFICES ASSUME TypeOK, LockoutBudget, [Next]_vars PROVE LockoutBudget'
    OBVIOUS
  <1> USE LimitAssumption DEF LockoutBudget, CanSignIn, TypeOK
  <1>1. ASSUME Probing PROVE LockoutBudget'
    <2>1. CASE BeginProbe \/ ProbeFails
      BY <2>1 DEF BeginProbe, MayProbe, ProbeFails, stored, history
    <2>2. ASSUME NEW n \in Cut("recover", 3), ProbeRecovers(n) PROVE LockoutBudget'
      BY <2>2 DEF ProbeRecovers
    <2> QED BY <1>1, <2>1, <2>2 DEF Probing
  <1>2. ASSUME Resuming PROVE LockoutBudget'
    BY <1>2 DEF Resuming, AfterResume, stored, history
  <1>3. ASSUME BeginCheck \/ CycleDone PROVE LockoutBudget'
    BY <1>3 DEF BeginCheck, CycleDone, stored, history
  <1>4. ASSUME SigningIn PROVE LockoutBudget'
    <2>1. CASE Authenticated \/ NotAuthenticated \/ CheckRaises
      BY <2>1 DEF Authenticated, NotAuthenticated, CheckRaises, stored, history
    <2>2. CASE LoginOk
      BY <2>2 DEF LoginOk
    <2>3. ASSUME NEW n \in Cut("challenge", 3), LoginNeedsHuman(n) PROVE LockoutBudget'
      BY <2>3 DEF LoginNeedsHuman
    <2>4. ASSUME NEW n \in Cut("refusal", RefusalWrites), LoginRejected(n) PROVE LockoutBudget'
      <3>1. n \in 0..RefusalWrites
        BY CutRange DEF RefusalWrites
      <3>2. CASE n < RefusalWrites
        BY <2>4, <3>1, <3>2 DEF LoginRejected, RefusalWrites
      <3>3. CASE n = RefusalWrites /\ login_failures + 1 < MaxLoginFailures
        BY <2>4, <3>3 DEF LoginRejected, RefusalWrites
      <3>4. CASE n = RefusalWrites /\ login_failures + 1 >= MaxLoginFailures
        <4>1. n = 4 /\ paused' /\ ~challenge' /\ gate' = "idle"
          BY <2>4, <3>4 DEF LoginRejected, RefusalWrites, SignInPause, WritePause, Ends
        <4> QED BY <2>4, <3>4, <4>1 DEF LoginRejected, RefusalWrites
      <3> QED BY <3>1, <3>2, <3>3, <3>4 DEF RefusalWrites
    <2> QED BY <1>4, <2>1, <2>2, <2>3, <2>4 DEF SigningIn
  <1>5. ASSUME HumanSays PROVE LockoutBudget'
    <2>1. ASSUME NEW n \in Cut("tg", 3), TgPause(n) PROVE LockoutBudget'
      BY <2>1, CutRange DEF TgPause, HumanPause, WritePause, Ends
    <2>2. ASSUME NEW n \in Cut("tg", 3), TgResume(n) PROVE LockoutBudget'
      BY <2>2, CutRange DEF TgResume, Resume, WritePause, HumanResumed, Remaining, Ends
    <2>3. ASSUME NEW n \in Cut("chat", 2), ChatPause(n) PROVE LockoutBudget'
      BY <2>3, CutRange DEF ChatPause, WritePause, Ends
    <2>4. ASSUME NEW n \in Cut("chat", 2), ChatResume(n) PROVE LockoutBudget'
      BY <2>4, CutRange DEF ChatResume, WritePause, HumanResumed, Remaining, Ends
    <2> QED BY <1>5, <2>1, <2>2, <2>3, <2>4 DEF HumanSays
  <1>6. CASE PortalChanges \/ Tick \/ Kill \/ Restart \/ UNCHANGED vars
    BY <1>6 DEF PortalChanges, Tick, Kill, Restart, FailuresKept, vars, stored, volatile, history
  <1> QED BY <1>1, <1>2, <1>3, <1>4, <1>5, <1>6 DEF Next

\* No sequence of refusals, restarts, challenges, probes and pauses has the
\* portal refuse more sign-ins than the breaker allows between two successes
\* or human resumes, for every limit.
THEOREM AccountNotLocked == Spec => []LockoutBound
  <1>1. Init => LockoutBudget
    BY LimitAssumption DEF Init, LockoutBudget, CanSignIn
  <1>2. LockoutBudget => LockoutBound
    BY DEF LockoutBudget, LockoutBound
  <1> QED BY <1>1, <1>2, LockoutStep, TypeCorrect, PTL DEF Spec

-----------------------------------------------------------------------------
(* The sign-in pause is final                                              *)

\* A prefix of a pause or a resume that is not the breaker's keeps the reason
\* and the flag apart: the flag is set only after the reason was changed.
LEMMA OtherWrite ==
  ASSUME SignInPauseHeld, NEW n \in 0..3, NEW p, NEW r, NEW c, WritePause(n, p, r, c),
         r # "breaker", n # 3 => gate' = "down"
  PROVE  SignInPauseHeld'
  <1>1. CASE n = 0
    BY <1>1 DEF WritePause, SignInPauseHeld
  <1>2. CASE n = 1
    BY <1>2 DEF WritePause, SignInPauseHeld
  <1>3. CASE n \in {2, 3}
    BY <1>3 DEF WritePause, SignInPauseHeld
  <1> QED BY <1>1, <1>2, <1>3

\* If the breaker's own step is never torn, every step keeps its pause out of
\* reach of a probe.
LEMMA SignInPauseStep ==
  ASSUME "refusal" \notin Torn
  PROVE  TypeOK /\ SignInPauseHeld /\ [Next]_vars => SignInPauseHeld'
  <1> SUFFICES ASSUME TypeOK, SignInPauseHeld, [Next]_vars PROVE SignInPauseHeld'
    OBVIOUS
  <1>1. ASSUME Probing PROVE SignInPauseHeld'
    <2>1. CASE BeginProbe \/ ProbeFails
      BY <2>1 DEF BeginProbe, MayProbe, ProbeFails, stored, history, SignInPauseHeld
    <2>2. ASSUME NEW n \in Cut("recover", 3), ProbeRecovers(n) PROVE SignInPauseHeld'
      <3>1. n \in 0..3
        BY CutRange
      <3>2. WritePause(n, FALSE, "none", FALSE)
        BY <2>2 DEF ProbeRecovers, Resume
      <3>3. n # 3 => gate' = "down"
        BY <2>2 DEF ProbeRecovers, Ends
      <3> QED BY <3>1, <3>2, <3>3, OtherWrite
    <2> QED BY <1>1, <2>1, <2>2 DEF Probing
  <1>2. ASSUME Resuming PROVE SignInPauseHeld'
    BY <1>2 DEF Resuming, AfterResume, stored, history, SignInPauseHeld
  <1>3. ASSUME BeginCheck \/ CycleDone PROVE SignInPauseHeld'
    BY <1>3 DEF BeginCheck, CycleDone, stored, history, SignInPauseHeld
  <1>4. ASSUME SigningIn PROVE SignInPauseHeld'
    <2>1. CASE Authenticated \/ NotAuthenticated \/ CheckRaises \/ LoginOk
      BY <2>1 DEF Authenticated, NotAuthenticated, CheckRaises, LoginOk, stored, history,
                  SignInPauseHeld
    <2>2. ASSUME NEW n \in Cut("challenge", 3), LoginNeedsHuman(n) PROVE SignInPauseHeld'
      <3>1. n \in 0..3
        BY CutRange
      <3>2. WritePause(n, TRUE, "challenge", TRUE)
        BY <2>2 DEF LoginNeedsHuman, ChallengePause
      <3>3. n # 3 => gate' = "down"
        BY <2>2 DEF LoginNeedsHuman, Ends
      <3> QED BY <3>1, <3>2, <3>3, OtherWrite
    <2>3. ASSUME NEW n \in Cut("refusal", RefusalWrites), LoginRejected(n) PROVE SignInPauseHeld'
      <3>1. RefusalWrites \in {1, 4}
        BY DEF RefusalWrites
      <3>2. n \in {0, RefusalWrites}
        BY <3>1, CutWhole
      <3>3. gate' \in {"idle", "down"}
        BY <2>3 DEF LoginRejected, Ends
      <3>4. CASE RefusalWrites = 4 /\ n = 4
        <4>1. WritePause(n - 1, TRUE, "breaker", FALSE)
          BY <2>3, <3>4 DEF LoginRejected, SignInPause
        <4>2. ~challenge'
          BY <3>4, <4>1 DEF WritePause
        <4> QED BY <3>3, <4>2 DEF SignInPauseHeld
      <3>5. CASE RefusalWrites = 4 /\ n = 0
        <4>1. WritePause(n - 1, TRUE, "breaker", FALSE)
          BY <2>3, <3>5 DEF LoginRejected, SignInPause
        <4>2. UNCHANGED <<paused, reason, challenge>>
          BY <3>5, <4>1 DEF WritePause
        <4> QED BY <3>3, <4>2 DEF SignInPauseHeld
      <3>6. CASE RefusalWrites = 1
        <4>1. UNCHANGED <<paused, reason, challenge>>
          BY <2>3, <3>6 DEF LoginRejected
        <4> QED BY <3>3, <4>1 DEF SignInPauseHeld
      <3> QED BY <3>1, <3>2, <3>4, <3>5, <3>6
    <2> QED BY <1>4, <2>1, <2>2, <2>3 DEF SigningIn
  <1>5. ASSUME HumanSays PROVE SignInPauseHeld'
    <2>1. ASSUME NEW n \in Cut("tg", 3), TgPause(n) PROVE SignInPauseHeld'
      <3>1. n \in 0..3
        BY CutRange
      <3>2. WritePause(n, TRUE, "human", FALSE)
        BY <2>1 DEF TgPause, HumanPause
      <3>3. n # 3 => gate' = "down"
        BY <2>1 DEF TgPause, Ends
      <3> QED BY <3>1, <3>2, <3>3, OtherWrite
    <2>2. ASSUME NEW n \in Cut("tg", 3), TgResume(n) PROVE SignInPauseHeld'
      <3>1. n \in 0..3
        BY CutRange
      <3>2. WritePause(n, FALSE, "none", FALSE)
        BY <2>2 DEF TgResume, Resume
      <3>3. n # 3 => gate' = "down"
        BY <2>2 DEF TgResume, Ends
      <3> QED BY <3>1, <3>2, <3>3, OtherWrite
    <2>3. ASSUME NEW n \in Cut("chat", 2), ChatPause(n) PROVE SignInPauseHeld'
      <3>1. n \in 0..2
        BY CutRange
      <3>2. WritePause(n, TRUE, "human", challenge)
        BY <2>3 DEF ChatPause
      <3>3. n # 2 => gate' = "down"
        BY <2>3 DEF ChatPause, Ends
      <3>4. CASE n = 2
        <4>1. reason' = "human"
          BY <3>2, <3>4 DEF WritePause
        <4> QED BY <4>1 DEF SignInPauseHeld
      <3>5. CASE n # 2
        <4>1. n \in 0..3
          BY <3>1
        <4> QED BY <4>1, <3>2, <3>3, <3>5, OtherWrite
      <3> QED BY <3>4, <3>5
    <2>4. ASSUME NEW n \in Cut("chat", 2), ChatResume(n) PROVE SignInPauseHeld'
      <3>1. n \in 0..2
        BY CutRange
      <3>2. WritePause(n, FALSE, "none", challenge)
        BY <2>4 DEF ChatResume
      <3>3. n # 2 => gate' = "down"
        BY <2>4 DEF ChatResume, Ends
      <3>4. CASE n = 2
        <4>1. reason' = "none"
          BY <3>2, <3>4 DEF WritePause
        <4> QED BY <4>1 DEF SignInPauseHeld
      <3>5. CASE n # 2
        <4>1. n \in 0..3
          BY <3>1
        <4> QED BY <4>1, <3>2, <3>3, <3>5, OtherWrite
      <3> QED BY <3>4, <3>5
    <2> QED BY <1>5, <2>1, <2>2, <2>3, <2>4 DEF HumanSays
  <1>6. CASE PortalChanges \/ Tick \/ Kill \/ Restart \/ UNCHANGED vars
    BY <1>6 DEF PortalChanges, Tick, Kill, Restart, vars, stored, volatile, history,
                SignInPauseHeld
  <1> QED BY <1>1, <1>2, <1>3, <1>4, <1>5, <1>6 DEF Next

\* A step that lifts the pause is the agent's own, from a probe it could not
\* have begun, or a human's.
LEMMA SignInPauseLifted ==
  ASSUME "refusal" \notin Torn
  PROVE  TypeOK /\ SignInPauseHeld /\ [Next]_vars =>
           [paused /\ reason = "breaker" /\ ~paused' => HumanSays]_vars
  <1> SUFFICES ASSUME TypeOK, SignInPauseHeld, Next,
                      paused, reason = "breaker", ~paused'
               PROVE  HumanSays
    OBVIOUS
  <1>0. gate \in {"idle", "down"}
    BY DEF SignInPauseHeld
  <1>1. ~Probing
    <2>1. ~BeginProbe /\ ~ProbeFails
      BY <1>0 DEF BeginProbe, ProbeFails, stored
    <2>2. \A n \in Cut("recover", 3) : ~ProbeRecovers(n)
      BY <1>0 DEF ProbeRecovers
    <2> QED BY <2>1, <2>2 DEF Probing
  <1>2. ~Resuming /\ ~BeginCheck /\ ~CycleDone
    BY <1>0 DEF Resuming, AfterResume, BeginCheck, CycleDone
  <1>3. ~SigningIn
    <2>1. ~Authenticated /\ ~NotAuthenticated /\ ~CheckRaises /\ ~LoginOk
      BY <1>0 DEF Authenticated, NotAuthenticated, CheckRaises, LoginOk
    <2>2. \A n \in Cut("challenge", 3) : ~LoginNeedsHuman(n)
      BY <1>0 DEF LoginNeedsHuman
    <2>3. \A n \in Cut("refusal", RefusalWrites) : ~LoginRejected(n)
      BY <1>0 DEF LoginRejected
    <2> QED BY <2>1, <2>2, <2>3 DEF SigningIn
  <1>4. ~PortalChanges /\ ~Tick /\ ~Kill /\ ~Restart
    BY DEF PortalChanges, Tick, Kill, Restart, stored
  <1> QED BY <1>1, <1>2, <1>3, <1>4 DEF Next

\* If no kill falls between the writes of the step that sets it, the pause
\* after too many refused sign-ins is lifted by a human and by nothing else,
\* wherever else kills fall.
THEOREM SignInPauseNeedsHuman == ASSUME "refusal" \notin Torn PROVE Spec => SignInPauseIsFinal
  <1>1. Init => SignInPauseHeld
    BY DEF Init, SignInPauseHeld
  <1>2. TypeOK /\ SignInPauseHeld /\ [Next]_vars => SignInPauseHeld'
    BY SignInPauseStep
  <1>3. TypeOK /\ SignInPauseHeld /\ [Next]_vars =>
          [paused /\ reason = "breaker" /\ ~paused' => HumanSays]_vars
    BY SignInPauseLifted
  <1> QED BY <1>1, <1>2, <1>3, TypeCorrect, PTL DEF Spec, SignInPauseIsFinal

=============================================================================
