----------------------------- MODULE MCSessions -----------------------------
(***************************************************************************)
(* The parts of the agent that wait for people, pages and models, side by  *)
(* side for TLC.  They share no state: each behaviour runs one of them,    *)
(* chosen at the start, and leaves the others as they began, so that the   *)
(* states explored are the sum of the parts' and not their product.        *)
(***************************************************************************)
EXTENDS Integers, Sequences, FiniteSets

CONSTANTS
  \* ChatHub
  Typed, Texted, Pause, NoTurn, MaxRounds,
  \* FlicaSession
  Pairings, MaxTroubles,
  \* VisionLoop
  MaxSteps, StepTimeout, BrowserTimeout, TotalTimeout,
  \* OneTimeCode
  Window, Timeout, Interval, MaxMail, MaxClock,
  \* Recon
  MaxPages, MaxShots,
  \* Setup
  ProfileNames, Slug, NoSlug, Tabs, MaxDeaths

ASSUME TurnAssumption == NoTurn \notin Typed \cup Texted /\ Pause \notin Typed \cup Texted
ASSUME LimitAssumption ==
  /\ MaxSteps \in Nat /\ StepTimeout \in Nat /\ BrowserTimeout \in Nat /\ TotalTimeout \in Nat \ {0}
  /\ Window \in Nat /\ Timeout \in Nat \ {0} /\ Interval \in Nat
ASSUME BoundAssumption ==
  /\ MaxTroubles \in Nat /\ MaxMail \in Nat /\ MaxClock \in Nat /\ MaxShots \in Nat /\ MaxDeaths \in Nat
  /\ MaxPages \in Nat \ {0}
ASSUME NameAssumption == ProfileNames # {} /\ {"absent", "empty", "broken"} \cap ProfileNames = {}

VARIABLES
  part,  \* the part that runs
  thread, turnStage, holder, waiters, heard, rounds, http, inbox, listener,
  flicaPage, top, frame, pot, roster, troubles, flicaAt, seen, assigned, told,
  visionAt, step, elapsed, reply, performed, result,
  clock, mailbox, status, view, left, skipped, answer,
  main, looping, visited, open, settling, snap, lock, page_count, shots, frames, cookies, verdict,
  disk, edited, setupStage, blocking, visible, listed, job, chosen, done, opened, deaths

\* Two names that become one directory, one that becomes none.
MCSlug ==
  [n \in ProfileNames |-> CASE n \in {"Ana", "ana"} -> "ana" [] n = "?" -> NoSlug [] OTHER -> n]

Hub     == INSTANCE ChatHub WITH stage <- turnStage
Flica   == INSTANCE FlicaSession WITH page <- flicaPage, at <- flicaAt
Vision  == INSTANCE VisionLoop WITH at <- visionAt
Code    == INSTANCE OneTimeCode
Capture == INSTANCE Recon
Wizard  == INSTANCE Setup WITH stage <- setupStage, Names <- ProfileNames, Pages <- Tabs

Parts == {"hub", "flica", "vision", "code", "capture", "wizard"}

hubVars == <<thread, turnStage, holder, waiters, heard, rounds, http, inbox, listener>>
flicaVars == <<flicaPage, top, frame, pot, roster, troubles, flicaAt, seen, assigned, told>>
visionVars == <<visionAt, step, elapsed, reply, performed, result>>
codeVars == <<clock, mailbox, status, view, left, skipped, answer>>
captureVars == <<main, looping, visited, open, settling, snap, lock, page_count, shots, frames, cookies, verdict>>
wizardVars == <<disk, edited, setupStage, blocking, visible, listed, job, chosen, done, opened, deaths>>
vars == <<part, hubVars, flicaVars, visionVars, codeVars, captureVars, wizardVars>>

Init ==
  /\ part \in Parts
  /\ Hub!Init /\ Flica!Init /\ Vision!Init /\ Code!Init /\ Capture!Init /\ Wizard!Init

\* Every part but p keeps its state.
Runs(p) ==
  /\ part = p /\ part' = part
  /\ IF p = "hub" THEN TRUE ELSE UNCHANGED hubVars
  /\ IF p = "flica" THEN TRUE ELSE UNCHANGED flicaVars
  /\ IF p = "vision" THEN TRUE ELSE UNCHANGED visionVars
  /\ IF p = "code" THEN TRUE ELSE UNCHANGED codeVars
  /\ IF p = "capture" THEN TRUE ELSE UNCHANGED captureVars
  /\ IF p = "wizard" THEN TRUE ELSE UNCHANGED wizardVars

Next ==
  \/ Runs("hub") /\ Hub!Next
  \/ Runs("flica") /\ Flica!Next
  \/ Runs("vision") /\ Vision!Next
  \/ Runs("code") /\ Code!Next
  \/ Runs("capture") /\ Capture!Next
  \/ Runs("wizard") /\ Wizard!Next

Spec == Init /\ [][Next]_vars

\* The fairness of each part's own specification, for the part that runs.
FairSpec ==
  /\ Spec
  /\ WF_hubVars(Runs("hub") /\ Hub!TakeText) /\ WF_hubVars(Runs("hub") /\ Hub!TakePause)
  /\ \A t \in Typed \cup Texted : WF_hubVars(Runs("hub") /\ Hub!Post(t))
  /\ WF_flicaVars(Runs("flica") /\ Flica!Start) /\ WF_flicaVars(Runs("flica") /\ Flica!Cycle) /\ WF_flicaVars(Runs("flica") /\ Flica!Help)
  /\ SF_flicaVars(Runs("flica") /\ Flica!Refreshed)
  /\ \A f \in Flica!Frames : WF_flicaVars(Runs("flica") /\ Flica!Attach(f))
  /\ WF_captureVars(Runs("capture") /\ Capture!Finish) /\ WF_captureVars(Runs("capture") /\ Capture!LastTick)
  /\ WF_captureVars(Runs("capture") /\ Capture!Final)
  /\ \A t \in Capture!Tasks : WF_captureVars(Runs("capture") /\ (Capture!Frames(t) \/ Capture!Cookies(t)))
  /\ WF_wizardVars(Runs("wizard") /\ Wizard!ShowReturns) /\ WF_wizardVars(Runs("wizard") /\ Wizard!Return)

-----------------------------------------------------------------------------
(* Properties: each part's, as its module states them.  What must happen   *)
(* in every behaviour of a part is said of the behaviours in which it runs.*)

\* Every variable keeps its type.
TypeOK ==
  /\ part \in Parts
  /\ Hub!TypeOK /\ Flica!TypeOK /\ Vision!TypeOK /\ Code!TypeOK /\ Capture!TypeOK /\ Wizard!TypeOK

\* The chat thread is a sequence of whole turns (hub.py:74-105).
WholeTurns == Hub!WholeTurns
\* Every message the hub takes in is dealt with (hub.py:74-105).
EveryTurnEnds == Hub!EveryTurnEnds
\* A shift posted after start-up is seen (flica.py:575-597, 644-646).
NewShiftsSeen == Flica!NewShiftsSeen
\* A challenge over the page is handed to her (flica.py:599-640).
ChallengeHandedOver == Flica!ChallengeHandedOver
\* A vision run is over in bounded time (vision_loop.py:67-106).
RunBounded == Vision!RunBounded
\* A code that is returned is in its window and the newest that was read
\* (imap_otp.py:71-118).
FreshestCode == Code!FreshestCode
\* Frames are filed with their document (recon.py:424-483).
FramesWithDocument == Capture!FramesWithDocument
\* However a capture ends, its summary is written (recon.py:369-392).
RunEnds == part = "capture" => Capture!RunEnds
\* A config nobody edited loads (setup/api.py:38-53, 122-151).
ProfilesStayWhole == Wizard!ProfilesStayWhole
\* The setup window's caller gets an answer (setup/__init__.py:31-69).
SetupEnds == Wizard!SetupEnds

=============================================================================
