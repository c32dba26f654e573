----------------------------- MODULE ClaimCycle -----------------------------
(***************************************************************************)
(* One poll cycle past the gate (poller.py: run_once from _reconcile_claims*)
(* on), the claim rows, the offered marks and the queue of undecided       *)
(* requests it keeps in the store, and the requests the portal holds.      *)
(*                                                                         *)
(* A step is the code between two awaits.  Every store write is a          *)
(* transaction of its own and the process may be killed before any step;   *)
(* the steps with more than one write take the number n of those that      *)
(* reach the disk before a kill.  Classification only reads (but for the   *)
(* record of what was seen) and is one step.                               *)
(***************************************************************************)
EXTENDS Integers, Sequences

CONSTANTS
  Shifts,       \* ids of the open shifts
  NoShift,      \* no shift is being decided
  Conflict,     \* pairs {s, t} that overlap or leave too little rest
  MaxAttempts,  \* rules.max_claim_attempts
  Modes,        \* the claim modes the config may name
  DryRuns,      \* the values of dry_run the config may have
  Copies,       \* how often one id may stand in the open-time list
  Deferrals,    \* the kinds of portal: TRUE if it accepts and decides later
  ClaimLossy,   \* TRUE if claim() may fail after the request went through
  PageLossy,    \* TRUE if the requests page may be unavailable
  Torn,         \* the steps between whose two writes a kill may fall
  MaxKills      \* bound: how often the process is killed

ASSUME ShiftAssumption == NoShift \notin Shifts
ASSUME ConflictAssumption == Conflict \subseteq SUBSET Shifts
ASSUME CountAssumption ==
  /\ MaxAttempts \in Nat \ {0} /\ Copies \in Nat \ {0} /\ MaxKills \in Nat
ASSUME ModeAssumption ==
  /\ Modes \subseteq {"notify_only", "confirm", "auto"} /\ DryRuns \subseteq BOOLEAN
ASSUME SwitchAssumption ==
  /\ Deferrals \subseteq BOOLEAN /\ ClaimLossy \in BOOLEAN
  /\ PageLossy \in BOOLEAN /\ Torn \subseteq {"settle", "record"}

VARIABLES
  \* persisted in the store
  offered,   \* shifts whose offered_at is set
  claims,    \* per shift its rows of the claims table, oldest first
  queue,     \* PENDING_CLAIMS_KEY: submitted, outcome still to be read
  \* the configuration the process was started with
  mode, dry,
  deferred,  \* the kind of portal, always the same
  \* locals of the running cycle
  pc,        \* where the cycle is, see Phases
  checks,    \* queued ids _reconcile_claims has still to read
  snap,      \* `offered` as run_once read it
  cands,     \* per shift, copies in `candidates` still to come
  alerts,    \* per shift, copies in `alerts` still to come
  cur,       \* the shift being decided or claimed
  res,       \* outcome claim() returned
  \* the portal
  request,   \* her request for the shift
  \* history, read by no step
  kills,
  told,      \* how often she was told of a shift
  confirms,  \* how often she confirmed it
  submits    \* how often it was submitted to the portal

stored  == <<offered, claims, queue>>
config  == <<mode, dry, deferred>>
lists   == <<checks, snap, cands, alerts>>
locals  == <<lists, cur, res>>
history == <<kills, told, confirms, submits>>
vars    == <<stored, config, pc, locals, request, history>>

\* idle: no cycle.  reconcile: in _reconcile_claims, then awaiting the lists.
\* alerts: phase 1.5.  act: phase 2.  asking: awaiting notifier.offer.
\* submit: about to claim.  record: its result is in hand.  down: no process.
Phases   == {"idle", "reconcile", "alerts", "act", "asking", "submit", "record", "down"}
Outcomes == {"claimed", "lost_race", "rejected", "error"}
Requests == {"none", "pending", "awarded", "denied"}
Row      == [outcome : Outcomes, dry : BOOLEAN]
Zero     == [s \in Shifts |-> 0]

TypeOK ==
  /\ offered \subseteq Shifts /\ claims \in [Shifts -> Seq(Row)] /\ queue \subseteq Shifts
  /\ mode \in Modes /\ dry \in DryRuns /\ deferred \in Deferrals
  /\ pc \in Phases /\ checks \subseteq Shifts /\ snap \subseteq Shifts
  /\ cands \in [Shifts -> Nat] /\ alerts \in [Shifts -> Nat]
  /\ cur \in Shifts \cup {NoShift} /\ res \in Outcomes \cup {"none"}
  /\ (pc \in {"asking", "submit", "record"} => cur \in Shifts)
  /\ (pc = "record" => res \in Outcomes)
  /\ request \in [Shifts -> Requests]
  /\ kills \in 0..MaxKills
  /\ told \in [Shifts -> Nat] /\ confirms \in [Shifts -> Nat] /\ submits \in [Shifts -> Nat]

Init ==
  /\ offered = {} /\ claims = [s \in Shifts |-> <<>>] /\ queue = {}
  /\ mode \in Modes /\ dry \in DryRuns /\ deferred \in Deferrals
  /\ pc = "idle" /\ checks = {} /\ snap = {} /\ cands = Zero /\ alerts = Zero
  /\ cur = NoShift /\ res = "none"
  /\ request = [s \in Shifts |-> "none"]
  /\ kills = 0 /\ told = Zero /\ confirms = Zero /\ submits = Zero

-----------------------------------------------------------------------------
(* The store                                                               *)

\* failed_attempts: real rows that are no claim.
Failed(s) == Len(SelectSeq(claims[s], LAMBDA r : r.outcome # "claimed" /\ ~r.dry))

\* already_claimed: a real row that is one.
AlreadyClaimed(s) == \E i \in DOMAIN claims[s] : claims[s][i] = [outcome |-> "claimed", dry |-> FALSE]

\* The rows replace_claim_outcome may update, and the one it does.
RealRows(s) == {i \in DOMAIN claims[s] : ~claims[s][i].dry}
LastReal(s) == CHOOSE i \in RealRows(s) : \A j \in RealRows(s) : j <= i

ReplaceOutcome(s, o) ==
  IF RealRows(s) = {} THEN claims ELSE [claims EXCEPT ![s][LastReal(s)].outcome = o]

\* record_claim: the unique index silently refuses a second real claim.
RecordClaim(s, o) ==
  IF o = "claimed" /\ ~dry /\ AlreadyClaimed(s) THEN claims
  ELSE [claims EXCEPT ![s] = Append(@, [outcome |-> o, dry |-> dry])]

OfferedIdsForgotten == {}
\* offered_ids, and the mark it selects by.
OfferedIds == offered

MarkOfferedLost(s) == offered' = offered
MarkOffered(s) == offered' = offered \cup {s}

\* The prefixes of a step's k writes after which the process may die.
Cut(step, k) == IF kills = MaxKills THEN {k} ELSE IF step \in Torn THEN 0..k ELSE {0, k}

-----------------------------------------------------------------------------
(* The start and the end of a cycle                                        *)

Begin ==
  /\ pc = "idle" /\ pc' = "reconcile" /\ checks' = queue
  /\ UNCHANGED <<stored, config, snap, cands, alerts, cur, res, request, history>>

\* The locals go out of scope.
Leave(p) ==
  /\ pc' = p
  /\ checks' = {} /\ snap' = {} /\ cands' = Zero /\ alerts' = Zero
  /\ cur' = NoShift /\ res' = "none"

\* The step goes on as `after` says after its k-th write, else it was killed.
Ends(n, k, after) ==
  IF n = k THEN after /\ kills' = kills ELSE Leave("down") /\ kills' = kills + 1

-----------------------------------------------------------------------------
(* _reconcile_claims                                                       *)

Checked(s) ==
  /\ checks' = checks \ {s}
  /\ UNCHANGED <<pc, snap, cands, alerts, cur, res>>

\* check_outcome raises: left queued.
CheckRaises(s) ==
  /\ pc = "reconcile" /\ s \in checks /\ Checked(s)
  /\ UNCHANGED <<stored, config, request, history>>

\* It answers None: undecided, or a portal that never defers.
CheckPending(s) ==
  /\ pc = "reconcile" /\ s \in checks /\ Checked(s)
  /\ ~deferred \/ request[s] = "pending"
  /\ UNCHANGED <<stored, config, request, history>>

\* What FLICA's check_outcome makes of the requests page: an undecided
\* request is None, an absent one an error, and so is an unavailable page.
DecidedEagerly(s) ==
  CASE request[s] = "awarded" -> {"claimed"}
    [] request[s] = "denied"  -> {"rejected"}
    [] request[s] \in {"none", "pending"} -> {"error"}
Decided(s) ==
  CASE request[s] = "awarded" -> {"claimed"}
    [] request[s] = "denied"  -> {"rejected"}
    [] request[s] = "none"    -> {"error"}
    [] request[s] = "pending" -> {}
Answers(s) == Decided(s) \cup (IF PageLossy THEN {"error"} ELSE {})

SettleClearingFirst(s, o, n) ==
  /\ queue'  = IF n >= 1 THEN queue \ {s} ELSE queue
  /\ claims' = IF n >= 2 THEN ReplaceOutcome(s, o) ELSE claims

\* Replace the provisional row, then take the shift off the queue.
Settle(s, o, n) ==
  /\ claims' = IF n >= 1 THEN ReplaceOutcome(s, o) ELSE claims
  /\ queue'  = IF n >= 2 THEN queue \ {s} ELSE queue

\* A decision is read.
CheckDecided(s, o, n) ==
  /\ pc = "reconcile" /\ s \in checks /\ deferred /\ o \in Answers(s)
  /\ Settle(s, o, n)
  /\ Ends(n, 2, Checked(s))
  /\ UNCHANGED <<offered, config, request, told, confirms, submits>>

\* fetch_open_shifts or fetch_my_schedule raises.
FetchFails ==
  /\ pc = "reconcile" /\ checks = {} /\ Leave("idle")
  /\ UNCHANGED <<stored, config, request, history>>

-----------------------------------------------------------------------------
(* Phase 1: fetch and classify                                             *)

\* Her schedule lists what the portal has awarded, not what she requested.
Assigned == {s \in Shifts : request[s] = "awarded"}

Fits(s) == s \notin Assigned /\ \A t \in Assigned : {s, t} \notin Conflict

\* m[s] copies of s pass every check before the attempt limit, a[s] copies
\* pass the cheap ones but have an unwanted or unreadable grade; the others
\* are refused silently.
Classify(m, a) ==
  /\ pc = "reconcile" /\ checks = {}
  /\ \A s \in Shifts : m[s] + a[s] <= Copies /\ (m[s] + a[s] > 0 => Fits(s))
  /\ cands'  = [s \in Shifts |-> IF Failed(s) < MaxAttempts THEN m[s] ELSE 0]
  /\ alerts' = [s \in Shifts |-> IF Failed(s) < MaxAttempts THEN a[s] ELSE a[s] + m[s]]
  /\ snap' = OfferedIds /\ pc' = "alerts"
  /\ UNCHANGED <<stored, config, checks, cur, res, request, history>>

-----------------------------------------------------------------------------
(* Phase 1.5: alerts                                                       *)

\* An alert sent before is passed over; a new one is marked, then sent.
AlertSeen(s) ==
  /\ pc = "alerts" /\ alerts[s] > 0 /\ s \in snap
  /\ alerts' = [alerts EXCEPT ![s] = @ - 1]
  /\ UNCHANGED <<stored, config, pc, checks, snap, cands, cur, res, request, history>>

Alert(s) ==
  /\ pc = "alerts" /\ alerts[s] > 0 /\ s \notin snap
  /\ alerts' = [alerts EXCEPT ![s] = @ - 1]
  /\ MarkOffered(s)
  /\ told' = [told EXCEPT ![s] = @ + 1]
  /\ UNCHANGED <<claims, queue, config, pc, checks, snap, cands, cur, res, request, kills, confirms, submits>>

AlertsDone ==
  /\ pc = "alerts" /\ alerts = Zero /\ pc' = "act"
  /\ UNCHANGED <<stored, config, locals, request, history>>

-----------------------------------------------------------------------------
(* Phase 2: act                                                            *)

Skip(s) ==
  /\ pc = "act" /\ cands[s] > 0 /\ (s \in snap \/ AlreadyClaimed(s))
  /\ cands' = [cands EXCEPT ![s] = @ - 1]
  /\ UNCHANGED <<stored, config, pc, checks, snap, alerts, cur, res, request, history>>

AskForgetting(s) ==
  pc' = (CASE mode = "notify_only" -> "act" [] mode = "confirm" -> "asking" [] mode = "auto" -> "submit")
  /\ cur' = NoShift

\* _should_claim by mode: tell her only, ask her first, or go ahead.
Ask(s) ==
  CASE mode = "notify_only" -> pc' = "act" /\ cur' = NoShift
    [] mode = "confirm"     -> pc' = "asking" /\ cur' = s
    [] mode = "auto"        -> pc' = "submit" /\ cur' = s

\* The mark is on disk before she is asked and before anything is submitted.
Offer(s) ==
  /\ pc = "act" /\ cands[s] > 0 /\ s \notin snap /\ ~AlreadyClaimed(s)
  /\ cands' = [cands EXCEPT ![s] = @ - 1]
  /\ MarkOffered(s)
  /\ Ask(s)
  /\ told' = IF mode = "auto" THEN told ELSE [told EXCEPT ![s] = @ + 1]
  /\ UNCHANGED <<claims, queue, config, checks, snap, alerts, res, request, kills, confirms, submits>>

ConsentBySilence(yes) == TRUE
\* A timeout and a failed send are a no.
Consent(yes) == yes

\* notifier.offer returns.
Answer(yes) ==
  /\ pc = "asking"
  /\ IF Consent(yes) THEN pc' = "submit" /\ cur' = cur ELSE pc' = "act" /\ cur' = NoShift
  /\ confirms' = IF yes THEN [confirms EXCEPT ![cur] = @ + 1] ELSE confirms
  /\ UNCHANGED <<stored, config, lists, res, request, kills, told, submits>>

DryClaim ==
  /\ pc = "submit" /\ dry
  /\ res' = "claimed" /\ pc' = "record"
  /\ UNCHANGED <<stored, config, lists, cur, request, history>>

\* The portal takes a request it holds none for.
Reaches(s, taken) ==
  /\ submits' = [submits EXCEPT ![s] = @ + 1]
  /\ request' = IF taken /\ request[s] \in {"none", "denied"}
                THEN [request EXCEPT ![s] = IF deferred THEN "pending" ELSE "awarded"]
                ELSE request

\* Whether the portal took the request when claim() answers o.  Where the
\* portal decides later, "claimed" says that two clicks did not raise, and the
\* requests page may turn out to hold no request.
Takes(o) ==
  CASE o = "claimed" -> IF deferred THEN BOOLEAN ELSE {TRUE}
    [] o = "error"   -> IF ClaimLossy THEN BOOLEAN ELSE {FALSE}
    [] OTHER         -> {FALSE}

\* adapter.claim answers o.
Submit(o, taken) ==
  /\ pc = "submit" /\ ~dry
  /\ taken \in Takes(o)
  /\ Reaches(cur, taken)
  /\ res' = o /\ pc' = "record"
  /\ UNCHANGED <<stored, config, lists, cur, kills, told, confirms>>

\* It raises: the cycle fails and nothing is recorded.
SubmitRaises(taken) ==
  /\ pc = "submit" /\ ~dry /\ (taken => ClaimLossy)
  /\ Reaches(cur, taken) /\ Leave("idle")
  /\ UNCHANGED <<stored, config, kills, told, confirms>>

AfterClaimGoingOn ==
  pc' = "act" /\ cur' = NoShift /\ res' = "none" /\ UNCHANGED lists

\* A success ends the cycle, `assigned` being stale.
AfterClaim ==
  IF res = "claimed" THEN Leave("idle")
  ELSE pc' = "act" /\ cur' = NoShift /\ res' = "none" /\ UNCHANGED lists

MarkPendingLost(n) == queue' = queue
\* The second of the two writes: queue a real success for its outcome.
MarkPending(n) == queue' = IF n >= 2 THEN queue \cup {cur} ELSE queue

\* Record the row, and queue a real success for its outcome.
RecordWrites == IF res = "claimed" /\ ~dry THEN 2 ELSE 1

Record(n) ==
  /\ pc = "record"
  /\ claims' = IF n >= 1 THEN RecordClaim(cur, res) ELSE claims
  /\ MarkPending(n)
  /\ Ends(n, RecordWrites, AfterClaim)
  /\ UNCHANGED <<offered, config, request, told, confirms, submits>>

ActDone ==
  /\ pc = "act" /\ cands = Zero /\ Leave("idle")
  /\ UNCHANGED <<stored, config, request, history>>

-----------------------------------------------------------------------------
(* The environment                                                         *)

\* The portal decides a request it had deferred.
Decide(s, r) ==
  /\ deferred /\ request[s] = "pending" /\ r \in {"awarded", "denied"}
  /\ request' = [request EXCEPT ![s] = r]
  /\ UNCHANGED <<stored, config, pc, locals, history>>

Kill ==
  /\ pc # "down" /\ kills < MaxKills
  /\ Leave("down") /\ kills' = kills + 1
  /\ UNCHANGED <<stored, config, request, told, confirms, submits>>

\* Started again, perhaps with another configuration.
Restart(m, d) ==
  /\ pc = "down" /\ pc' = "idle" /\ mode' = m /\ dry' = d /\ deferred' = deferred
  /\ UNCHANGED <<stored, locals, request, history>>

-----------------------------------------------------------------------------
Lists == [Shifts -> 0..Copies]

Reconcile ==
  \/ FetchFails
  \/ \E s \in Shifts :
       \/ CheckRaises(s) \/ CheckPending(s)
       \/ \E o \in Outcomes, n \in Cut("settle", 2) : CheckDecided(s, o, n)
Fetch  == \E m, a \in Lists : Classify(m, a)
Alerts == AlertsDone \/ \E s \in Shifts : AlertSeen(s) \/ Alert(s)
Act ==
  \/ ActDone \/ DryClaim
  \/ \E s \in Shifts : Skip(s) \/ Offer(s)
  \/ \E yes \in BOOLEAN : Answer(yes)
  \/ \E o \in Outcomes, taken \in BOOLEAN : Submit(o, taken)
  \/ \E taken \in BOOLEAN : SubmitRaises(taken)
  \/ \E n \in Cut("record", RecordWrites) : Record(n)
Environment ==
  \/ Kill
  \/ \E s \in Shifts, r \in Requests : Decide(s, r)
  \/ \E m \in Modes, d \in DryRuns : Restart(m, d)

Next == Begin \/ Reconcile \/ Fetch \/ Alerts \/ Act \/ Environment

Spec == Init /\ [][Next]_vars

\* The loop keeps cycling, calls end, the process is restarted, and a portal
\* asked again and again for an outcome it has decided gives it in the end.
Fairness ==
  /\ WF_vars(Begin \/ Reconcile \/ Fetch \/ Alerts \/ Act)
  /\ WF_vars(\E m \in Modes, d \in DryRuns : Restart(m, d))
  /\ \A s \in Shifts : SF_vars(\E o \in Decided(s), n \in Cut("settle", 2) : CheckDecided(s, o, n))

FairSpec == Spec /\ Fairness

-----------------------------------------------------------------------------
(* Properties                                                              *)

\* A shift goes to the portal at most once for each time it stood in the
\* one list that first presented it, over all later cycles, kills, restarts
\* and configuration changes (poller.py:282-285): once, where ids are unique.
SubmittedOnce == \A s \in Shifts : submits[s] <= Copies

\* Why: a shift whose mark is not yet set was never submitted; within the
\* cycle that presents it, what was submitted, what is being decided and what
\* is still listed add up to its copies; in later cycles the mark was there
\* when the cycle read it.  (Inductive.)
InCycle == pc \in {"alerts", "act", "asking", "submit", "record"}
Deciding(s) == cur = s /\ pc \in {"asking", "submit"}
Turn(s) == IF Deciding(s) THEN 1 ELSE 0
SubmitBudget ==
  /\ snap \subseteq offered
  /\ \A s \in Shifts :
       /\ submits[s] <= Copies
       /\ (s \notin offered => submits[s] = 0)
       /\ (Deciding(s) => s \in offered /\ s \notin snap)
       /\ (InCycle /\ s \notin snap => submits[s] + cands[s] + Turn(s) <= Copies)

\* She is told of a shift at most once, by the same mark.
ToldOnce == \A s \in Shifts : told[s] <= Copies

\* Why: what she was told and what is still listed add up to the copies of
\* the list that first presented the shift.  (Inductive, with SubmitBudget.)
TellBudget ==
  \A s \in Shifts :
    /\ told[s] <= Copies
    /\ (s \notin offered => told[s] = 0)
    /\ (InCycle /\ s \notin snap => told[s] + cands[s] + alerts[s] <= Copies)

\* In confirm mode nothing is submitted without an explicit yes of its own,
\* in notify_only mode or a dry run nothing at all: whatever another
\* configuration decided before a restart does not carry over.
ConsentFirst ==
  [][\A s \in Shifts : submits'[s] > submits[s] =>
       /\ ~dry /\ mode # "notify_only"
       /\ (mode = "confirm" => submits[s] < confirms[s] /\ cur = s)]_vars

\* Why: in a cycle that asks, a shift whose mark was not set when the cycle
\* read it has a yes for each submission and for the one about to be made.
\* (Inductive, with SubmitBudget.)
Consented(s) == IF cur = s /\ pc = "submit" THEN 1 ELSE 0
ConsentBudget ==
  /\ (pc = "asking" => mode = "confirm")
  /\ (pc = "submit" => mode # "notify_only")
  /\ \A s \in Shifts :
       InCycle /\ mode = "confirm" /\ s \notin snap => submits[s] + Consented(s) <= confirms[s]

\* Two shifts that cannot both be worked are never both held or requested:
\* the conflict check of one is never made on a schedule that lacks the
\* other (README.md:31-32, "Filters every shift against your availability,
\* existing trips, minimum rest").
Held(s) == request[s] \in {"pending", "awarded"}
NoConflictingRequests ==
  \A s, t \in Shifts : Held(s) /\ Held(t) /\ s # t => {s, t} \notin Conflict

\* The same on a portal that decides at once, where ending the cycle after a
\* success is enough (poller.py:278-280).
NoConflictingClaims == ~deferred => NoConflictingRequests

\* A row that says a request failed is never that of a request the portal
\* still holds (poller.py:445-446).
NoFalseFailure ==
  \A s \in Shifts : RealRows(s) # {} /\ Held(s)
                      => claims[s][LastReal(s)].outcome = "claimed"

\* What the claims table says became of a shift: its last real row, the one
\* replace_claim_outcome keeps up to date.
Reported(s) ==
  IF RealRows(s) = {} THEN "none"
  ELSE IF claims[s][LastReal(s)].outcome = "claimed" THEN "claimed" ELSE "failed"

\* The cycle keeps the contract: what ClaimContract promises of each shift
\* is what the marks, the submissions, the portal and the rows say of it.
Contract ==
  INSTANCE ClaimContract WITH
    presented <- offered, requested <- {s \in Shifts : submits[s] > 0},
    report <- [s \in Shifts |-> Reported(s)], awaited <- queue
ImplementsContract == Contract!Spec

\* On a portal that decides later, a row that says "claimed" of a shift she
\* was not awarded - undecided, denied, or never taken by the portal for all
\* that claim() answered - is queued for its outcome (poller.py:434-436).
ProvisionalIsQueued ==
  \A s \in Shifts : deferred /\ AlreadyClaimed(s) /\ request[s] # "awarded" => s \in queue

\* A queued request that the portal denies, or never took, reaches the claims
\* table as a failure, across kills between the two writes and checks that
\* raise.
Refused(s) == request[s] = "denied" \/ (deferred /\ request[s] = "none")
DecisionsArrive ==
  \A s \in Shifts : (s \in queue /\ Refused(s)) ~> (s \notin queue /\ Reported(s) = "failed")

=============================================================================
