-------------------------- MODULE ClaimCycleProofs --------------------------
(***************************************************************************)
(* Proofs about ClaimCycle, for every set of shifts, number of copies,     *)
(* portal behaviour, configuration and number of kills.                    *)
(***************************************************************************)
EXTENDS ClaimCycle, TLAPS

USE ShiftAssumption, CountAssumption, ModeAssumption, SwitchAssumption

\* How many writes reach the disk: never more than the step makes.
LEMMA CutRange == \A step, k : k \in Nat => Cut(step, k) \subseteq 0..k
  BY DEF Cut

-----------------------------------------------------------------------------
(* Types                                                                   *)

\* What each step leaves to prove once its untouched variables are set aside.
StoreType  == offered \subseteq Shifts /\ claims \in [Shifts -> Seq(Row)] /\ queue \subseteq Shifts
ConfigType == mode \in Modes /\ dry \in DryRuns /\ deferred \in Deferrals
LocalType ==
  /\ pc \in Phases /\ checks \subseteq Shifts /\ snap \subseteq Shifts
  /\ cands \in [Shifts -> Nat] /\ alerts \in [Shifts -> Nat]
  /\ cur \in Shifts \cup {NoShift} /\ res \in Outcomes \cup {"none"}
  /\ (pc \in {"asking", "submit", "record"} => cur \in Shifts)
  /\ (pc = "record" => res \in Outcomes)
PortalType == request \in [Shifts -> Requests]
HistoryType ==
  /\ kills \in 0..MaxKills
  /\ told \in [Shifts -> Nat] /\ confirms \in [Shifts -> Nat] /\ submits \in [Shifts -> Nat]

\* The type invariant in the parts a step treats separately.
LEMMA TypeParts == TypeOK <=> StoreType /\ ConfigType /\ LocalType /\ PortalType /\ HistoryType
  BY DEF TypeOK, StoreType, ConfigType, LocalType, PortalType, HistoryType

\* The end of a cycle leaves the locals well typed, whatever they were.
LEMMA LeaveType ==
  ASSUME NEW p \in {"idle", "down"}, Leave(p)
  PROVE  LocalType'
  BY DEF Leave, LocalType, Zero, Phases

\* So does the end of one check of _reconcile_claims.
LEMMA CheckedType ==
  ASSUME LocalType, NEW s \in Shifts, Checked(s)
  PROVE  LocalType'
  BY DEF Checked, LocalType

\* record_claim appends a row or refuses it, and keeps the table a table.
LEMMA RecordClaimType ==
  ASSUME StoreType, ConfigType, NEW s \in Shifts, NEW o \in Outcomes
  PROVE  RecordClaim(s, o) \in [Shifts -> Seq(Row)]
  <1>1. [outcome |-> o, dry |-> dry] \in Row
    BY DEF Row, ConfigType
  <1>2. Append(claims[s], [outcome |-> o, dry |-> dry]) \in Seq(Row)
    BY <1>1 DEF StoreType
  <1> QED BY <1>2 DEF RecordClaim, StoreType

\* replace_claim_outcome changes the outcome of one row it finds, and no
\* other field.
LEMMA ReplaceOutcomeType ==
  ASSUME StoreType, NEW s \in Shifts, NEW o \in Outcomes
  PROVE  ReplaceOutcome(s, o) \in [Shifts -> Seq(Row)]
  <1> DEFINE i == LastReal(s)
             t == [claims[s] EXCEPT ![i].outcome = o]
  <1>1. claims[s] \in Seq(Row)
    BY DEF StoreType
  <1>2. DOMAIN t = 1..Len(claims[s])
    BY <1>1
  <1>3. ASSUME NEW j \in 1..Len(claims[s]) PROVE t[j] \in Row
    <2>1. claims[s][j] \in Row
      BY <1>1
    <2>2. [claims[s][j] EXCEPT !.outcome = o] \in Row
      BY <2>1 DEF Row
    <2> QED BY <1>1, <2>1, <2>2
  <1>4. t \in Seq(Row)
    <2>1. t = [j \in 1..Len(claims[s]) |-> t[j]]
      BY <1>1
    <2>2. Len(claims[s]) \in Nat
      BY <1>1
    <2>3. t \in [1..Len(claims[s]) -> Row]
      BY <2>1, <1>3
    <2> HIDE DEF t
    <2> QED BY <2>2, <2>3
  <1>5. [claims EXCEPT ![s] = t] \in [Shifts -> Seq(Row)]
    BY <1>4 DEF StoreType
  <1> QED BY <1>5 DEF ReplaceOutcome, StoreType

\* Every step keeps the types.
LEMMA TypeStep == TypeOK /\ [Next]_vars => TypeOK'
  <1> SUFFICES ASSUME StoreType, ConfigType, LocalType, PortalType, HistoryType, [Next]_vars
               PROVE  StoreType' /\ ConfigType' /\ LocalType' /\ PortalType' /\ HistoryType'
    BY TypeParts, TypeParts' DEF TypeOK, StoreType, ConfigType, LocalType, PortalType, HistoryType
  <1> DEFINE Goal == StoreType' /\ ConfigType' /\ LocalType' /\ PortalType' /\ HistoryType'
  <1>0. ASSUME UNCHANGED <<stored, config>> PROVE StoreType' /\ ConfigType'
    BY <1>0 DEF stored, config, StoreType, ConfigType
  <1>1. CASE Begin
    <2>1. LocalType'
      BY <1>1 DEF Begin, LocalType, StoreType, Phases
    <2> QED BY <1>0, <1>1, <2>1 DEF Begin, history, PortalType, HistoryType
  <1>2. CASE Reconcile
    <2>1. CASE FetchFails
      <3>1. LocalType'
        BY <2>1, LeaveType DEF FetchFails
      <3> QED BY <1>0, <2>1, <3>1 DEF FetchFails, history, PortalType, HistoryType
    <2>2. ASSUME NEW s \in Shifts, CheckRaises(s) \/ CheckPending(s) PROVE Goal
      <3>1. LocalType'
        BY <2>2, CheckedType DEF CheckRaises, CheckPending
      <3> QED BY <1>0, <2>2, <3>1 DEF CheckRaises, CheckPending, history, PortalType, HistoryType
    <2>3. ASSUME NEW s \in Shifts, NEW o \in Outcomes, NEW n \in Cut("settle", 2), CheckDecided(s, o, n)
          PROVE  Goal
      <3>1. StoreType' /\ ConfigType'
        BY <2>3, ReplaceOutcomeType DEF CheckDecided, Settle, config, StoreType, ConfigType
      <3>2. LocalType'
        BY <2>3, LeaveType, CheckedType DEF CheckDecided, Ends
      <3>3. kills' \in 0..MaxKills
        BY <2>3 DEF CheckDecided, Ends, Cut, HistoryType
      <3> QED BY <2>3, <3>1, <3>2, <3>3 DEF CheckDecided, PortalType, HistoryType
    <2> QED BY <1>2, <2>1, <2>2, <2>3 DEF Reconcile
  <1>3. CASE Fetch
    <2>1. PICK m \in Lists, a \in Lists : Classify(m, a)
      BY <1>3 DEF Fetch
    <2>2. cands' \in [Shifts -> Nat] /\ alerts' \in [Shifts -> Nat]
      BY <2>1 DEF Classify, Lists
    <2>3. LocalType'
      BY <2>1, <2>2 DEF Classify, OfferedIds, LocalType, StoreType, Phases
    <2> QED BY <1>0, <2>1, <2>3 DEF Classify, history, PortalType, HistoryType
  <1>4. CASE Alerts
    <2>1. CASE AlertsDone
      <3>1. LocalType'
        BY <2>1 DEF AlertsDone, locals, lists, LocalType, Phases
      <3> QED BY <1>0, <2>1, <3>1 DEF AlertsDone, history, PortalType, HistoryType
    <2>2. ASSUME NEW s \in Shifts, AlertSeen(s) PROVE Goal
      <3>1. LocalType'
        BY <2>2 DEF AlertSeen, LocalType
      <3> QED BY <1>0, <2>2, <3>1 DEF AlertSeen, history, PortalType, HistoryType
    <2>3. ASSUME NEW s \in Shifts, Alert(s) PROVE Goal
      <3>1. LocalType'
        BY <2>3 DEF Alert, LocalType
      <3>2. StoreType' /\ ConfigType'
        BY <2>3 DEF Alert, MarkOffered, StoreType, ConfigType, config
      <3> QED BY <2>3, <3>1, <3>2 DEF Alert, PortalType, HistoryType
    <2> QED BY <1>4, <2>1, <2>2, <2>3 DEF Alerts
  <1>5. CASE Act
    <2>1. CASE ActDone
      <3>1. LocalType'
        BY <2>1, LeaveType DEF ActDone
      <3> QED BY <1>0, <2>1, <3>1 DEF ActDone, history, PortalType, HistoryType
    <2>2. CASE DryClaim
      <3>1. LocalType'
        BY <2>2 DEF DryClaim, lists, LocalType, Phases, Outcomes
      <3> QED BY <1>0, <2>2, <3>1 DEF DryClaim, history, PortalType, HistoryType
    <2>3. ASSUME NEW s \in Shifts, Skip(s) PROVE Goal
      <3>1. LocalType'
        BY <2>3 DEF Skip, LocalType
      <3> QED BY <1>0, <2>3, <3>1 DEF Skip, history, PortalType, HistoryType
    <2>4. ASSUME NEW s \in Shifts, Offer(s) PROVE Goal
      <3>1. mode \in {"notify_only", "confirm", "auto"}
        BY DEF ConfigType
      <3>2. pc' \in {"act", "asking", "submit"} /\ cur' \in Shifts \cup {NoShift}
            /\ (pc' # "act" => cur' = s)
        BY <2>4, <3>1 DEF Offer, Ask
      <3>3. LocalType'
        BY <2>4, <3>2 DEF Offer, LocalType, Phases
      <3>4. StoreType' /\ ConfigType'
        BY <2>4 DEF Offer, MarkOffered, StoreType, ConfigType, config
      <3> QED BY <2>4, <3>3, <3>4 DEF Offer, PortalType, HistoryType
    <2>5. ASSUME NEW yes \in BOOLEAN, Answer(yes) PROVE Goal
      <3>1. LocalType'
        BY <2>5 DEF Answer, lists, LocalType, Phases
      <3>2. confirms' \in [Shifts -> Nat]
        BY <2>5 DEF Answer, LocalType, HistoryType
      <3> QED BY <1>0, <2>5, <3>1, <3>2 DEF Answer, PortalType, HistoryType
    <2>6. ASSUME NEW o \in Outcomes, NEW taken \in BOOLEAN, Submit(o, taken) PROVE Goal
      <3>1. cur \in Shifts
        BY <2>6 DEF Submit, LocalType
      <3>2. LocalType'
        BY <2>6 DEF Submit, lists, LocalType, Phases
      <3>3. PortalType' /\ submits' \in [Shifts -> Nat]
        BY <2>6, <3>1 DEF Submit, Reaches, PortalType, Requests, HistoryType
      <3> QED BY <1>0, <2>6, <3>2, <3>3 DEF Submit, HistoryType
    <2>7. ASSUME NEW taken \in BOOLEAN, SubmitRaises(taken) PROVE Goal
      <3>1. cur \in Shifts
        BY <2>7 DEF SubmitRaises, LocalType
      <3>2. LocalType'
        BY <2>7, LeaveType DEF SubmitRaises
      <3>3. PortalType' /\ submits' \in [Shifts -> Nat]
        BY <2>7, <3>1 DEF SubmitRaises, Reaches, PortalType, Requests, HistoryType
      <3> QED BY <1>0, <2>7, <3>2, <3>3 DEF SubmitRaises, HistoryType
    <2>8. ASSUME NEW n \in Cut("record", RecordWrites), Record(n) PROVE Goal
      <3>1. cur \in Shifts /\ res \in Outcomes
        BY <2>8 DEF Record, LocalType
      <3>2. StoreType' /\ ConfigType'
        BY <2>8, <3>1, RecordClaimType DEF Record, MarkPending, config, StoreType, ConfigType
      <3>3. AfterClaim => LocalType'
        BY LeaveType DEF AfterClaim, lists, LocalType, Phases
      <3>4. LocalType'
        BY <2>8, <3>3, LeaveType DEF Record, Ends
      <3>5. kills' \in 0..MaxKills
        <4>1. RecordWrites \in 1..2
          BY DEF RecordWrites
        <4> QED BY <2>8, <4>1 DEF Record, Ends, Cut, HistoryType
      <3> QED BY <2>8, <3>2, <3>4, <3>5 DEF Record, PortalType, HistoryType
    <2> QED BY <1>5, <2>1, <2>2, <2>3, <2>4, <2>5, <2>6, <2>7, <2>8 DEF Act
  <1>6. CASE Environment
    <2>1. CASE Kill
      <3>1. LocalType'
        BY <2>1, LeaveType DEF Kill
      <3>2. kills' \in 0..MaxKills
        BY <2>1 DEF Kill, HistoryType
      <3> QED BY <1>0, <2>1, <3>1, <3>2 DEF Kill, PortalType, HistoryType
    <2>2. ASSUME NEW s \in Shifts, NEW r \in Requests, Decide(s, r) PROVE Goal
      <3>1. LocalType'
        BY <2>2 DEF Decide, locals, lists, LocalType
      <3>2. PortalType'
        BY <2>2 DEF Decide, PortalType
      <3> QED BY <1>0, <2>2, <3>1, <3>2 DEF Decide, history, HistoryType
    <2>3. ASSUME NEW m \in Modes, NEW d \in DryRuns, Restart(m, d) PROVE Goal
      <3>1. LocalType'
        BY <2>3 DEF Restart, locals, lists, LocalType, Phases
      <3>2. StoreType' /\ ConfigType'
        BY <2>3 DEF Restart, stored, StoreType, ConfigType
      <3> QED BY <2>3, <3>1, <3>2 DEF Restart, history, PortalType, HistoryType
    <2> QED BY <1>6, <2>1, <2>2, <2>3 DEF Environment
  <1>7. CASE UNCHANGED vars
    BY <1>7 DEF vars, stored, config, locals, lists, history, StoreType, ConfigType, LocalType,
                PortalType, HistoryType
  <1> QED BY <1>1, <1>2, <1>3, <1>4, <1>5, <1>6, <1>7 DEF Next

\* The store, the locals of the cycle and the history keep their types: in
\* particular a claim in flight always knows its shift and its outcome.
THEOREM TypeCorrect == Spec => []TypeOK
  <1>1. ASSUME Init PROVE TypeOK
    <2>1. StoreType
      BY <1>1 DEF Init, StoreType
    <2>2. LocalType
      BY <1>1 DEF Init, LocalType, Phases, Zero
    <2>3. PortalType /\ HistoryType /\ ConfigType
      BY <1>1 DEF Init, PortalType, HistoryType, ConfigType, Requests, Zero
    <2> QED BY <2>1, <2>2, <2>3, TypeParts
  <1> QED BY <1>1, TypeStep, PTL DEF Spec

-----------------------------------------------------------------------------
(* A shift is submitted once                                               *)

\* Outside a cycle, and at its end, only the bound and the marks remain.
LEMMA BudgetOutside ==
  ASSUME SubmitBudget, offered' = offered, submits' = submits,
         NEW p \in {"idle", "down"}, Leave(p), TypeOK
  PROVE  SubmitBudget'
  BY DEF Leave, SubmitBudget, InCycle, Deciding, Turn, TypeOK

\* A step in the cycle that takes nothing up and submits nothing.
LEMMA BudgetKept ==
  ASSUME TypeOK, SubmitBudget, offered' = offered, submits' = submits, snap' = snap,
         InCycle' => InCycle,
         \A s \in Shifts : cands'[s] <= cands[s],
         \A s \in Shifts : Deciding(s)' => Deciding(s),
         cands' \in [Shifts -> Nat]
  PROVE  SubmitBudget'
  BY DEF SubmitBudget, Turn, TypeOK

\* Every step keeps the balance of submissions and list entries.
LEMMA BudgetStep == TypeOK /\ SubmitBudget /\ [Next]_vars => SubmitBudget'
  <1> SUFFICES ASSUME TypeOK, TypeOK', SubmitBudget, [Next]_vars PROVE SubmitBudget'
    BY TypeStep
  <1>0. cands' \in [Shifts -> Nat] /\ cands \in [Shifts -> Nat] /\ submits \in [Shifts -> Nat]
    BY DEF TypeOK
  <1>1. CASE Begin
    BY <1>0, <1>1, BudgetKept DEF Begin, stored, history, InCycle, Deciding
  <1>2. CASE Reconcile
    <2>1. CASE FetchFails
      BY <2>1, BudgetOutside DEF FetchFails, stored, history
    <2>2. ASSUME NEW s \in Shifts, CheckRaises(s) \/ CheckPending(s) PROVE SubmitBudget'
      BY <1>0, <2>2, BudgetKept
      DEF CheckRaises, CheckPending, Checked, stored, history, InCycle, Deciding
    <2>3. ASSUME NEW s \in Shifts, NEW o \in Outcomes, NEW n \in Cut("settle", 2), CheckDecided(s, o, n)
          PROVE  SubmitBudget'
      <3>1. Checked(s) \/ Leave("down")
        BY <2>3 DEF CheckDecided, Ends
      <3>2. CASE Checked(s)
        BY <1>0, <2>3, <3>2, BudgetKept DEF CheckDecided, Checked, InCycle, Deciding
      <3>3. CASE Leave("down")
        BY <2>3, <3>3, BudgetOutside DEF CheckDecided
      <3> QED BY <3>1, <3>2, <3>3
    <2> QED BY <1>2, <2>1, <2>2, <2>3 DEF Reconcile
  <1>3. CASE Fetch
    <2>1. PICK m \in Lists, a \in Lists : Classify(m, a)
      BY <1>3 DEF Fetch
    <2>2. snap' = offered /\ offered' = offered /\ submits' = submits /\ pc' = "alerts"
      BY <2>1 DEF Classify, OfferedIds, stored, history
    <2>3. \A s \in Shifts : cands'[s] <= Copies
      BY <2>1 DEF Classify, Lists
    <2> QED BY <1>0, <2>2, <2>3 DEF SubmitBudget, Deciding, Turn, TypeOK
  <1>4. CASE Alerts
    <2>1. CASE AlertsDone
      BY <1>0, <2>1, BudgetKept
      DEF AlertsDone, stored, locals, lists, history, InCycle, Deciding
    <2>2. ASSUME NEW s \in Shifts, AlertSeen(s) PROVE SubmitBudget'
      BY <1>0, <2>2, BudgetKept DEF AlertSeen, stored, history, InCycle, Deciding
    <2>3. ASSUME NEW s \in Shifts, Alert(s) PROVE SubmitBudget'
      BY <2>3 DEF Alert, MarkOffered, SubmitBudget, InCycle, Deciding, Turn
    <2> QED BY <1>4, <2>1, <2>2, <2>3 DEF Alerts
  <1>5. CASE Act
    <2>1. CASE ActDone
      BY <2>1, BudgetOutside DEF ActDone, stored, history
    <2>2. CASE DryClaim
      BY <1>0, <2>2, BudgetKept DEF DryClaim, stored, lists, history, InCycle, Deciding
    <2>3. ASSUME NEW s \in Shifts, Skip(s) PROVE SubmitBudget'
      <3>1. \A t \in Shifts : cands'[t] <= cands[t]
        BY <1>0, <2>3 DEF Skip
      <3> QED BY <1>0, <2>3, <3>1, BudgetKept DEF Skip, stored, history, InCycle, Deciding
    <2>4. ASSUME NEW s \in Shifts, Offer(s) PROVE SubmitBudget'
      <3>1. /\ pc = "act" /\ cands[s] > 0 /\ s \notin snap /\ snap' = snap
            /\ offered' = offered \cup {s} /\ submits' = submits
            /\ cands' = [cands EXCEPT ![s] = @ - 1]
        BY <2>4 DEF Offer, MarkOffered
      <3>2. \A t \in Shifts : Deciding(t)' => t = s
        BY <2>4, ShiftAssumption DEF Offer, Ask, Deciding, TypeOK
      <3>3. \A t \in Shifts : t # s => cands'[t] = cands[t]
        BY <1>0, <3>1
      <3>4. cands'[s] = cands[s] - 1
        BY <1>0, <3>1
      <3>5. submits[s] + cands[s] <= Copies
        BY <1>0, <3>1 DEF SubmitBudget, InCycle, Turn, Deciding
      <3>6. ASSUME NEW t \in Shifts, t # s, t \notin snap
            PROVE  submits[t] + cands[t] <= Copies
        BY <1>0, <3>1, <3>6 DEF SubmitBudget, InCycle, Turn, Deciding
      <3> QED BY <1>0, <3>1, <3>2, <3>3, <3>4, <3>5, <3>6 DEF SubmitBudget, Turn
    <2>5. ASSUME NEW yes \in BOOLEAN, Answer(yes) PROVE SubmitBudget'
      BY <1>0, <2>5, BudgetKept DEF Answer, stored, lists, InCycle, Deciding, TypeOK
    <2>6. ASSUME NEW o \in Outcomes, NEW taken \in BOOLEAN, Submit(o, taken) PROVE SubmitBudget'
      <3>1. /\ cur \in Shifts /\ pc = "submit" /\ pc' = "record" /\ cur' = cur /\ snap' = snap
            /\ cands' = cands /\ offered' = offered
            /\ submits' = [submits EXCEPT ![cur] = @ + 1]
        BY <2>6 DEF Submit, Reaches, stored, lists, TypeOK
      <3>2. cur \in offered /\ cur \notin snap /\ submits[cur] + cands[cur] + 1 <= Copies
        BY <3>1 DEF SubmitBudget, InCycle, Deciding, Turn
      <3> QED BY <1>0, <3>1, <3>2 DEF SubmitBudget, InCycle, Deciding, Turn
    <2>7. ASSUME NEW taken \in BOOLEAN, SubmitRaises(taken) PROVE SubmitBudget'
      <3>1. /\ cur \in Shifts /\ pc = "submit" /\ offered' = offered
            /\ submits' = [submits EXCEPT ![cur] = @ + 1] /\ Leave("idle")
        BY <2>7 DEF SubmitRaises, Reaches, stored, TypeOK
      <3>2. cur \in offered /\ cur \notin snap /\ submits[cur] + cands[cur] + 1 <= Copies
        BY <3>1 DEF SubmitBudget, InCycle, Deciding, Turn
      <3> QED BY <1>0, <3>1, <3>2 DEF Leave, SubmitBudget, InCycle, Deciding, Turn
    <2>8. ASSUME NEW n \in Cut("record", RecordWrites), Record(n) PROVE SubmitBudget'
      <3>1. offered' = offered /\ submits' = submits /\ pc = "record"
        BY <2>8 DEF Record
      <3>2. \/ Leave("idle") \/ Leave("down")
            \/ pc' = "act" /\ cur' = NoShift /\ UNCHANGED lists
        BY <2>8 DEF Record, Ends, AfterClaim
      <3>3. CASE Leave("idle") \/ Leave("down")
        BY <3>1, <3>3, BudgetOutside
      <3>4. CASE pc' = "act" /\ cur' = NoShift /\ UNCHANGED lists
        BY <1>0, <3>1, <3>4, BudgetKept DEF lists, InCycle, Deciding
      <3> QED BY <3>2, <3>3, <3>4
    <2> QED BY <1>5, <2>1, <2>2, <2>3, <2>4, <2>5, <2>6, <2>7, <2>8 DEF Act
  <1>6. CASE Environment
    <2>1. CASE Kill
      BY <2>1, BudgetOutside DEF Kill, stored
    <2>2. ASSUME NEW s \in Shifts, NEW r \in Requests, Decide(s, r) PROVE SubmitBudget'
      BY <1>0, <2>2, BudgetKept DEF Decide, stored, locals, lists, history, InCycle, Deciding
    <2>3. ASSUME NEW m \in Modes, NEW d \in DryRuns, Restart(m, d) PROVE SubmitBudget'
      BY <1>0, <2>3, BudgetKept DEF Restart, stored, locals, lists, history, InCycle, Deciding
    <2> QED BY <1>6, <2>1, <2>2, <2>3 DEF Environment
  <1>7. CASE UNCHANGED vars
    BY <1>0, <1>7, BudgetKept DEF vars, stored, locals, lists, history, InCycle, Deciding
  <1> QED BY <1>1, <1>2, <1>3, <1>4, <1>5, <1>6, <1>7 DEF Next

\* The balance holds in every reachable state.
LEMMA BudgetInvariant == Spec => []SubmitBudget
  <1>1. Init => SubmitBudget
    BY DEF Init, SubmitBudget, InCycle, Deciding, Turn, Zero
  <1> QED BY <1>1, BudgetStep, TypeCorrect, PTL DEF Spec

\* Over all cycles, kills, restarts and changes of configuration the portal
\* gets a shift at most as often as it stood in the list that presented it.
THEOREM NeverSubmittedTwice == Spec => []SubmittedOnce
  <1>1. SubmitBudget => SubmittedOnce
    BY DEF SubmitBudget, SubmittedOnce
  <1> QED BY <1>1, BudgetInvariant, PTL

-----------------------------------------------------------------------------
(* Nothing is submitted without consent                                    *)

\* A step that asks nothing, submits nothing and hears no answer.
LEMMA ConsentKept ==
  ASSUME TypeOK, ConsentBudget, submits' = submits, confirms' = confirms,
         mode' = mode, snap' = snap, InCycle' => InCycle,
         pc' # "asking", pc' = "submit" => pc = "submit" /\ cur' = cur
  PROVE  ConsentBudget'
  BY DEF ConsentBudget, Consented, TypeOK

\* Outside a cycle there is nothing to keep.
LEMMA ConsentOutside ==
  ASSUME NEW p \in {"idle", "reconcile", "down"}, pc' = p
  PROVE  ConsentBudget'
  BY DEF ConsentBudget, InCycle

\* Every step keeps the balance of answers and submissions.
LEMMA ConsentStep == TypeOK /\ SubmitBudget /\ ConsentBudget /\ [Next]_vars => ConsentBudget'
  <1> SUFFICES ASSUME TypeOK, TypeOK', SubmitBudget, ConsentBudget, [Next]_vars
               PROVE  ConsentBudget'
    BY TypeStep
  <1>0. /\ submits \in [Shifts -> Nat] /\ confirms \in [Shifts -> Nat]
        /\ mode \in {"notify_only", "confirm", "auto"}
    BY DEF TypeOK
  <1>1. CASE Begin
    BY <1>1, ConsentOutside DEF Begin
  <1>2. CASE Reconcile
    <2>1. pc = "reconcile" /\ (pc' = pc \/ pc' = "idle" \/ pc' = "down")
      BY <1>2 DEF Reconcile, FetchFails, CheckRaises, CheckPending, CheckDecided, Checked,
                  Ends, Leave
    <2> QED BY <2>1, ConsentOutside
  <1>3. CASE Fetch
    <2>1. /\ snap' = offered /\ pc' = "alerts"
          /\ UNCHANGED <<submits, confirms, mode>>
      BY <1>3 DEF Fetch, Classify, OfferedIds, config, history
    <2>2. \A s \in Shifts : s \notin offered => submits[s] = 0
      BY DEF SubmitBudget
    <2> QED BY <1>0, <2>1, <2>2 DEF ConsentBudget, Consented
  <1>4. CASE Alerts
    <2>1. /\ pc = "alerts" /\ pc' \in {"alerts", "act"}
          /\ UNCHANGED <<submits, confirms, mode, snap>>
      BY <1>4 DEF Alerts, AlertsDone, AlertSeen, Alert, config, locals, lists, history
    <2> QED BY <2>1, ConsentKept DEF InCycle
  <1>5. CASE Act
    <2>1. CASE ActDone
      BY <2>1, ConsentOutside DEF ActDone, Leave
    <2>2. CASE DryClaim
      BY <2>2, ConsentKept DEF DryClaim, config, lists, history, InCycle
    <2>3. ASSUME NEW s \in Shifts, Skip(s) PROVE ConsentBudget'
      BY <2>3, ConsentKept DEF Skip, config, history, InCycle
    <2>4. ASSUME NEW s \in Shifts, Offer(s) PROVE ConsentBudget'
      <3>1. /\ pc = "act" /\ UNCHANGED <<submits, confirms, mode, snap>>
            /\ (pc' = "asking" => mode = "confirm") /\ (pc' = "submit" => mode = "auto")
        BY <1>0, <2>4 DEF Offer, Ask, config
      <3> QED BY <1>0, <3>1 DEF ConsentBudget, Consented, InCycle
    <2>5. ASSUME NEW yes \in BOOLEAN, Answer(yes) PROVE ConsentBudget'
      <3>1. /\ pc = "asking" /\ mode = "confirm" /\ cur \in Shifts
            /\ UNCHANGED <<submits, mode, snap>>
        BY <2>5 DEF Answer, config, lists, ConsentBudget, TypeOK
      <3>2. CASE yes
        <4>1. /\ confirms' = [confirms EXCEPT ![cur] = @ + 1] /\ pc' = "submit" /\ cur' = cur
          BY <2>5, <3>2 DEF Answer, Consent
        <4> QED BY <1>0, <3>1, <4>1 DEF ConsentBudget, Consented, InCycle
      <3>3. CASE ~yes
        <4>1. confirms' = confirms /\ pc' = "act"
          BY <2>5, <3>3 DEF Answer, Consent
        <4> QED BY <3>1, <4>1, ConsentKept DEF InCycle
      <3> QED BY <3>2, <3>3
    <2>6. ASSUME NEW o \in Outcomes, NEW taken \in BOOLEAN, Submit(o, taken) PROVE ConsentBudget'
      <3>1. /\ cur \in Shifts /\ pc = "submit" /\ pc' = "record" /\ cur' = cur
            /\ submits' = [submits EXCEPT ![cur] = @ + 1]
            /\ UNCHANGED <<confirms, mode, snap>>
        BY <2>6 DEF Submit, Reaches, config, lists, TypeOK
      <3> QED BY <1>0, <3>1 DEF ConsentBudget, Consented, InCycle
    <2>7. ASSUME NEW taken \in BOOLEAN, SubmitRaises(taken) PROVE ConsentBudget'
      BY <2>7, ConsentOutside DEF SubmitRaises, Leave
    <2>8. ASSUME NEW n \in Cut("record", RecordWrites), Record(n) PROVE ConsentBudget'
      <3>1. \/ pc' = "idle" \/ pc' = "down"
            \/ pc' = "act" /\ UNCHANGED lists
        BY <2>8 DEF Record, Ends, AfterClaim, Leave
      <3>2. CASE pc' = "act" /\ UNCHANGED lists
        BY <2>8, <3>2, ConsentKept DEF Record, config, lists, InCycle
      <3> QED BY <3>1, <3>2, ConsentOutside
    <2> QED BY <1>5, <2>1, <2>2, <2>3, <2>4, <2>5, <2>6, <2>7, <2>8 DEF Act
  <1>6. CASE Environment
    <2>1. CASE Kill
      BY <2>1, ConsentOutside DEF Kill, Leave
    <2>2. ASSUME NEW s \in Shifts, NEW r \in Requests, Decide(s, r) PROVE ConsentBudget'
      BY <2>2 DEF Decide, config, locals, lists, history, ConsentBudget, Consented, InCycle
    <2>3. ASSUME NEW m \in Modes, NEW d \in DryRuns, Restart(m, d) PROVE ConsentBudget'
      BY <2>3, ConsentOutside DEF Restart
    <2> QED BY <1>6, <2>1, <2>2, <2>3 DEF Environment
  <1>7. CASE UNCHANGED vars
    BY <1>7 DEF vars, config, locals, lists, history, ConsentBudget, Consented, InCycle
  <1> QED BY <1>1, <1>2, <1>3, <1>4, <1>5, <1>6, <1>7 DEF Next

\* In confirm mode each submission has a yes of its own, in the other modes
\* that may not claim there is none, whatever the configurations before a
\* restart were.
THEOREM NothingWithoutConsent == Spec => ConsentFirst
  <1>1. Init => ConsentBudget
    BY DEF Init, ConsentBudget, InCycle
  <1>2. TypeOK /\ SubmitBudget /\ ConsentBudget /\ [Next]_vars =>
          [\A s \in Shifts : submits'[s] > submits[s] =>
             /\ ~dry /\ mode # "notify_only"
             /\ (mode = "confirm" => submits[s] < confirms[s] /\ cur = s)]_vars
    <2> SUFFICES ASSUME TypeOK, SubmitBudget, ConsentBudget, Next,
                        NEW s \in Shifts, submits'[s] > submits[s]
                 PROVE  /\ ~dry /\ mode # "notify_only"
                        /\ (mode = "confirm" => submits[s] < confirms[s] /\ cur = s)
      OBVIOUS
    <2>0. submits \in [Shifts -> Nat] /\ confirms \in [Shifts -> Nat]
      BY DEF TypeOK
    <2>1. PICK o \in Outcomes, taken \in BOOLEAN : Submit(o, taken) \/ SubmitRaises(taken)
      <3>1. submits' # submits
        BY <2>0
      <3>2. ~Begin /\ ~Reconcile /\ ~Fetch /\ ~Alerts /\ ~Environment
        <4>1. ~Begin /\ ~Fetch
          BY <3>1 DEF Begin, Fetch, Classify, history
        <4>2. ~Reconcile
          BY <3>1 DEF Reconcile, FetchFails, CheckRaises, CheckPending, CheckDecided, history
        <4>3. ~Alerts
          BY <3>1 DEF Alerts, AlertsDone, AlertSeen, Alert, history
        <4>4. ~Environment
          BY <3>1 DEF Environment, Kill, Decide, Restart, history
        <4> QED BY <4>1, <4>2, <4>3, <4>4
      <3>3. ~ActDone /\ ~DryClaim /\ (\A t \in Shifts : ~Skip(t) /\ ~Offer(t))
        BY <3>1 DEF ActDone, DryClaim, Skip, Offer, history
      <3>4. (\A yes \in BOOLEAN : ~Answer(yes)) /\ (\A n \in Cut("record", RecordWrites) : ~Record(n))
        BY <3>1 DEF Answer, Record
      <3>5. Act
        BY <3>2 DEF Next
      <3> QED BY <3>3, <3>4, <3>5 DEF Act, Outcomes
    <2>2. /\ pc = "submit" /\ ~dry /\ cur \in Shifts
          /\ submits' = [submits EXCEPT ![cur] = @ + 1]
      BY <2>1 DEF Submit, SubmitRaises, Reaches, TypeOK
    <2>3. cur = s
      BY <2>0, <2>2
    <2>4. s \notin snap
      BY <2>2, <2>3 DEF SubmitBudget, Deciding
    <2> QED BY <2>0, <2>2, <2>3, <2>4 DEF ConsentBudget, Consented, InCycle
  <1> QED BY <1>1, <1>2, ConsentStep, TypeCorrect, BudgetInvariant, PTL DEF Spec, ConsentFirst

-----------------------------------------------------------------------------
(* She is told of a shift once                                             *)

\* A step that tells her nothing.
LEMMA TellKept ==
  ASSUME TypeOK, TypeOK', TellBudget, offered' = offered, told' = told, snap' = snap,
         InCycle' => InCycle,
         \A s \in Shifts : cands'[s] <= cands[s] /\ alerts'[s] <= alerts[s]
  PROVE  TellBudget'
  BY DEF TellBudget, TypeOK

\* Outside a cycle only the bound and the marks remain.
LEMMA TellOutside ==
  ASSUME TellBudget, offered' = offered, told' = told,
         NEW p \in {"idle", "reconcile", "down"}, pc' = p
  PROVE  TellBudget'
  BY DEF TellBudget, InCycle

\* A step that tells her of t what the list held, and marks it.
LEMMA TellOne ==
  ASSUME TypeOK, TypeOK', TellBudget, InCycle, NEW t \in Shifts, t \notin snap,
         offered' = offered \cup {t}, snap' = snap,
         \A s \in Shifts :
           /\ told'[s] + cands'[s] + alerts'[s] <= told[s] + cands[s] + alerts[s]
           /\ s # t => told'[s] = told[s]
  PROVE  TellBudget'
  <1>0. /\ told \in [Shifts -> Nat] /\ cands \in [Shifts -> Nat] /\ alerts \in [Shifts -> Nat]
        /\ told' \in [Shifts -> Nat] /\ cands' \in [Shifts -> Nat] /\ alerts' \in [Shifts -> Nat]
    BY DEF TypeOK
  <1>1. ASSUME NEW s \in Shifts, s \notin snap
        PROVE  told'[s] + cands'[s] + alerts'[s] <= Copies
    BY <1>0, <1>1 DEF TellBudget
  <1>2. told'[t] <= Copies
    BY <1>0, <1>1
  <1> QED BY <1>0, <1>1, <1>2 DEF TellBudget

\* Every step keeps the balance of messages and list entries.
LEMMA TellStep == TypeOK /\ SubmitBudget /\ TellBudget /\ [Next]_vars => TellBudget'
  <1> SUFFICES ASSUME TypeOK, TypeOK', SubmitBudget, TellBudget, [Next]_vars PROVE TellBudget'
    BY TypeStep
  <1>0. /\ cands \in [Shifts -> Nat] /\ alerts \in [Shifts -> Nat] /\ told \in [Shifts -> Nat]
        /\ cands' \in [Shifts -> Nat] /\ alerts' \in [Shifts -> Nat]
    BY DEF TypeOK
  <1>1. CASE Begin
    BY <1>1, TellOutside DEF Begin, stored, history
  <1>2. CASE Reconcile
    <2>1. /\ pc = "reconcile" /\ (pc' = pc \/ pc' = "idle" \/ pc' = "down")
          /\ UNCHANGED <<offered, told>>
      BY <1>2 DEF Reconcile, FetchFails, CheckRaises, CheckPending, CheckDecided, Checked,
                  Ends, Leave, stored, history
    <2> QED BY <2>1, TellOutside
  <1>3. CASE Fetch
    <2>1. PICK m \in Lists, a \in Lists : Classify(m, a)
      BY <1>3 DEF Fetch
    <2>2. snap' = offered /\ offered' = offered /\ told' = told
      BY <2>1 DEF Classify, OfferedIds, stored, history
    <2>3. \A s \in Shifts : cands'[s] + alerts'[s] <= Copies
      BY <2>1 DEF Classify, Lists
    <2> QED BY <1>0, <2>2, <2>3 DEF TellBudget
  <1>4. CASE Alerts
    <2>1. CASE AlertsDone
      BY <1>0, <2>1, TellKept DEF AlertsDone, stored, locals, lists, history, InCycle
    <2>2. ASSUME NEW s \in Shifts, AlertSeen(s) PROVE TellBudget'
      <3>1. \A t \in Shifts : cands'[t] <= cands[t] /\ alerts'[t] <= alerts[t]
        BY <1>0, <2>2 DEF AlertSeen
      <3> QED BY <2>2, <3>1, TellKept DEF AlertSeen, stored, history, InCycle
    <2>3. ASSUME NEW s \in Shifts, Alert(s) PROVE TellBudget'
      <3>1. \A t \in Shifts :
              /\ told'[t] + cands'[t] + alerts'[t] <= told[t] + cands[t] + alerts[t]
              /\ t # s => told'[t] = told[t]
        BY <1>0, <2>3 DEF Alert
      <3> QED BY <2>3, <3>1, TellOne DEF Alert, MarkOffered, InCycle
    <2> QED BY <1>4, <2>1, <2>2, <2>3 DEF Alerts
  <1>5. CASE Act
    <2>1. CASE ActDone
      BY <2>1, TellOutside DEF ActDone, Leave, stored, history
    <2>2. CASE DryClaim
      BY <1>0, <2>2, TellKept DEF DryClaim, stored, lists, history, InCycle
    <2>3. ASSUME NEW s \in Shifts, Skip(s) PROVE TellBudget'
      <3>1. \A t \in Shifts : cands'[t] <= cands[t] /\ alerts'[t] <= alerts[t]
        BY <1>0, <2>3 DEF Skip
      <3> QED BY <2>3, <3>1, TellKept DEF Skip, stored, history, InCycle
    <2>4. ASSUME NEW s \in Shifts, Offer(s) PROVE TellBudget'
      <3>1. \A t \in Shifts :
              /\ told'[t] + cands'[t] + alerts'[t] <= told[t] + cands[t] + alerts[t]
              /\ t # s => told'[t] = told[t]
        BY <1>0, <2>4 DEF Offer
      <3> QED BY <2>4, <3>1, TellOne DEF Offer, MarkOffered, InCycle
    <2>5. ASSUME NEW yes \in BOOLEAN, Answer(yes) PROVE TellBudget'
      BY <1>0, <2>5, TellKept DEF Answer, stored, lists, InCycle
    <2>6. ASSUME NEW o \in Outcomes, NEW taken \in BOOLEAN, Submit(o, taken) PROVE TellBudget'
      BY <1>0, <2>6, TellKept DEF Submit, stored, lists, InCycle
    <2>7. ASSUME NEW taken \in BOOLEAN, SubmitRaises(taken) PROVE TellBudget'
      BY <2>7, TellOutside DEF SubmitRaises, Leave, stored
    <2>8. ASSUME NEW n \in Cut("record", RecordWrites), Record(n) PROVE TellBudget'
      <3>1. /\ offered' = offered /\ told' = told /\ pc = "record"
            /\ \/ pc' = "idle" \/ pc' = "down"
               \/ pc' = "act" /\ UNCHANGED lists
        BY <2>8 DEF Record, Ends, AfterClaim, Leave
      <3>2. CASE pc' = "act" /\ UNCHANGED lists
        BY <1>0, <3>1, <3>2, TellKept DEF lists, InCycle
      <3> QED BY <3>1, <3>2, TellOutside
    <2> QED BY <1>5, <2>1, <2>2, <2>3, <2>4, <2>5, <2>6, <2>7, <2>8 DEF Act
  <1>6. CASE Environment
    <2>1. CASE Kill
      BY <2>1, TellOutside DEF Kill, Leave, stored
    <2>2. ASSUME NEW s \in Shifts, NEW r \in Requests, Decide(s, r) PROVE TellBudget'
      BY <1>0, <2>2, TellKept DEF Decide, stored, locals, lists, history, InCycle
    <2>3. ASSUME NEW m \in Modes, NEW d \in DryRuns, Restart(m, d) PROVE TellBudget'
      BY <2>3, TellOutside DEF Restart, stored, history
    <2> QED BY <1>6, <2>1, <2>2, <2>3 DEF Environment
  <1>7. CASE UNCHANGED vars
    BY <1>0, <1>7, TellKept DEF vars, stored, locals, lists, history, InCycle
  <1> QED BY <1>1, <1>2, <1>3, <1>4, <1>5, <1>6, <1>7 DEF Next

\* However often the process is restarted and the shift listed again, she is
\* told of it at most as often as it stood in the list that presented it.
THEOREM NeverToldTwice == Spec => []ToldOnce
  <1>1. ASSUME Init PROVE TellBudget
    <2>1. ~InCycle
      BY <1>1 DEF Init, InCycle
    <2>2. \A s \in Shifts : told[s] = 0
      BY <1>1 DEF Init, Zero
    <2>3. 0 <= Copies
      BY CountAssumption
    <2> QED BY <2>1, <2>2, <2>3 DEF TellBudget
  <1>2. TellBudget => ToldOnce
    BY DEF TellBudget, ToldOnce
  <1> QED BY <1>1, <1>2, TellStep, TypeCorrect, BudgetInvariant, PTL DEF Spec

=============================================================================
