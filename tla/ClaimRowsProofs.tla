--------------------------- MODULE ClaimRowsProofs ---------------------------
(***************************************************************************)
(* Proofs about what ClaimCycle's claims table says of the portal, about   *)
(* what the dashboard and the calendar feed make of it, and about          *)
(* conflicts, for every set of shifts, configuration and number of kills.  *)
(* What a theorem needs of the portal is its own assumption: that ids are  *)
(* unique in its list, that a claim that is answered with an error did not *)
(* go through, that its requests page can be read.                         *)
(***************************************************************************)
EXTENDS Dashboard, ClaimCycleProofs, SequenceTheorems

USE ShiftAssumption, CountAssumption, ModeAssumption, SwitchAssumption

-----------------------------------------------------------------------------
(* What the store's two operations do to the real rows of a shift          *)

\* The first real row of a shift.
LEMMA FirstRealRow ==
  ASSUME StoreType, NEW s \in Shifts, NEW o \in Outcomes, RealRows(s) = {},
         claims' = [claims EXCEPT ![s] = Append(@, [outcome |-> o, dry |-> FALSE])]
  PROVE  /\ RealRows(s)' = {Len(claims[s]) + 1}
         /\ claims'[s][Len(claims[s]) + 1].outcome = o
  <1> DEFINE n == Len(claims[s])
  <1>1. claims[s] \in Seq(Row) /\ n \in Nat
    BY DEF StoreType
  <1>2. claims'[s] = Append(claims[s], [outcome |-> o, dry |-> FALSE])
    BY DEF StoreType
  <1>3. DOMAIN claims'[s] = 1..n + 1 /\ claims'[s][n + 1] = [outcome |-> o, dry |-> FALSE]
    BY <1>1, <1>2
  <1>4. \A i \in 1..n : claims'[s][i] = claims[s][i] /\ claims[s][i].dry
    BY <1>1, <1>2 DEF RealRows
  <1> QED BY <1>1, <1>3, <1>4 DEF RealRows

\* A row of a dry run is no real row, and hides none.
LEMMA DryRow ==
  ASSUME StoreType, NEW s \in Shifts, NEW o \in Outcomes,
         claims' = [claims EXCEPT ![s] = Append(@, [outcome |-> o, dry |-> TRUE])]
  PROVE  RealRows(s)' = RealRows(s) /\ \A i \in RealRows(s) : claims'[s][i] = claims[s][i]
  <1> DEFINE n == Len(claims[s])
  <1>1. claims[s] \in Seq(Row) /\ n \in Nat
    BY DEF StoreType
  <1>2. claims'[s] = Append(claims[s], [outcome |-> o, dry |-> TRUE])
    BY DEF StoreType
  <1>3. DOMAIN claims'[s] = 1..n + 1 /\ claims'[s][n + 1] = [outcome |-> o, dry |-> TRUE]
    BY <1>1, <1>2
  <1>4. DOMAIN claims[s] = 1..n /\ \A i \in 1..n : claims'[s][i] = claims[s][i]
    BY <1>1, <1>2
  <1> QED BY <1>1, <1>3, <1>4 DEF RealRows

\* replace_claim_outcome on a shift with one real row changes that row's
\* outcome and nothing else.
LEMMA ReplacedRow ==
  ASSUME StoreType, NEW s \in Shifts, NEW o \in Outcomes,
         \A i, j \in RealRows(s) : i = j,
         claims' = ReplaceOutcome(s, o)
  PROVE  /\ \A t \in Shifts \ {s} : claims'[t] = claims[t]
         /\ RealRows(s)' = RealRows(s)
         /\ \A i \in RealRows(s) : claims'[s][i].outcome = o
  <1>1. CASE RealRows(s) = {}
    BY <1>1 DEF ReplaceOutcome, RealRows
  <1>2. CASE RealRows(s) # {}
    <2>1. PICK i \in RealRows(s) : RealRows(s) = {i}
      BY <1>2
    <2>2. claims[s] \in Seq(Row) /\ i \in 1..Len(claims[s])
      BY <2>1 DEF StoreType, RealRows
    <2>3. i <= i
      BY <2>2
    <2>4. LastReal(s) = i
      BY <2>1, <2>3 DEF LastReal
    <2>5. claims' = [claims EXCEPT ![s] = [claims[s] EXCEPT ![i].outcome = o]]
      BY <1>2, <2>4 DEF ReplaceOutcome
    <2>6. claims'[s] = [claims[s] EXCEPT ![i] = [claims[s][i] EXCEPT !.outcome = o]]
      BY <2>5 DEF StoreType
    <2>7. claims[s][i] \in Row
      BY <2>2
    <2>8. claims'[s][i] = [claims[s][i] EXCEPT !.outcome = o] /\ DOMAIN claims'[s] = DOMAIN claims[s]
      BY <2>2, <2>6
    <2>9. claims'[s][i].outcome = o /\ claims'[s][i].dry = claims[s][i].dry
      BY <2>7, <2>8 DEF Row
    <2>10. \A j \in DOMAIN claims[s] : claims'[s][j].dry = claims[s][j].dry
      BY <2>2, <2>6, <2>9
    <2>11. RealRows(s)' = RealRows(s)
      BY <2>8, <2>10 DEF RealRows
    <2>12. \A t \in Shifts \ {s} : claims'[t] = claims[t]
      BY <2>5 DEF StoreType
    <2> QED BY <2>1, <2>9, <2>11, <2>12
  <1> QED BY <1>1, <1>2

-----------------------------------------------------------------------------
(* A shift has a row for each copy that was decided                        *)

\* What is recorded and what can still be recorded add up to the copies of
\* the list that presented the shift.
InHand(s) == cur = s /\ pc \in {"asking", "submit", "record"}
ToRecord(s) == IF InHand(s) THEN 1 ELSE 0
RowBudget ==
  \A s \in Shifts :
    /\ Len(claims[s]) <= Copies
    /\ (s \notin offered => Len(claims[s]) = 0)
    /\ (InHand(s) => s \in offered /\ s \notin snap)
    /\ (InCycle /\ s \notin snap => Len(claims[s]) + cands[s] + ToRecord(s) <= Copies)

\* How many rows a shift has is a number.
LEMMA RowCounts == TypeOK => \A s \in Shifts : Len(claims[s]) \in Nat
  <1> SUFFICES ASSUME TypeOK, NEW s \in Shifts PROVE Len(claims[s]) \in Nat
    OBVIOUS
  <1>1. claims[s] \in Seq(Row)
    BY DEF TypeOK
  <1> QED BY <1>1

\* A step that records nothing and takes nothing up.
LEMMA RowsKept ==
  ASSUME TypeOK, TypeOK', RowBudget, offered' = offered, snap' = snap, claims' = claims,
         InCycle' => InCycle,
         \A s \in Shifts : cands'[s] <= cands[s],
         \A s \in Shifts : InHand(s)' => InHand(s)
  PROVE  RowBudget'
  <1>1. /\ cands \in [Shifts -> Nat] /\ cands' \in [Shifts -> Nat]
        /\ \A s \in Shifts : Len(claims[s]) \in Nat
    BY RowCounts DEF TypeOK
  <1> QED BY <1>1 DEF RowBudget, ToRecord

\* Outside a cycle only the bound and the marks remain.
LEMMA RowsOutside ==
  ASSUME RowBudget, offered' = offered, \A s \in Shifts : Len(claims'[s]) = Len(claims[s]),
         NEW p \in {"idle", "reconcile", "down"}, pc' = p
  PROVE  RowBudget'
  BY DEF RowBudget, InCycle, InHand

\* replace_claim_outcome adds no row.
LEMMA ReplaceKeepsLength ==
  ASSUME StoreType, NEW s \in Shifts, NEW o \in Outcomes, claims' = ReplaceOutcome(s, o),
         NEW t \in Shifts
  PROVE  Len(claims'[t]) = Len(claims[t])
  <1>1. CASE RealRows(s) = {}
    BY <1>1 DEF ReplaceOutcome
  <1>2. CASE RealRows(s) # {}
    <2> DEFINE r == [claims[s] EXCEPT ![LastReal(s)].outcome = o]
    <2>1. claims' = [claims EXCEPT ![s] = r]
      BY <1>2 DEF ReplaceOutcome
    <2>2. DOMAIN r = DOMAIN claims[s] /\ claims[s] \in Seq(Row)
      BY DEF StoreType
    <2>3. claims' \in [Shifts -> Seq(Row)]
      BY ReplaceOutcomeType
    <2>4. claims'[t] = IF t = s THEN r ELSE claims[t]
      BY <2>1 DEF StoreType
    <2>5. claims'[t] \in Seq(Row) /\ claims[t] \in Seq(Row) /\ DOMAIN claims'[t] = DOMAIN claims[t]
      BY <2>2, <2>3, <2>4 DEF StoreType
    <2> HIDE DEF r
    <2>6. \A x, y \in Seq(Row) : DOMAIN x = DOMAIN y => Len(x) = Len(y)
      OBVIOUS
    <2> QED BY <2>5, <2>6
  <1> QED BY <1>1, <1>2

\* Every step keeps the balance of rows and list entries.
LEMMA RowStep == TypeOK /\ RowBudget /\ [Next]_vars => RowBudget'
  <1> SUFFICES ASSUME TypeOK, TypeOK', RowBudget, [Next]_vars PROVE RowBudget'
    BY TypeStep
  <1>0. /\ cands \in [Shifts -> Nat] /\ cands' \in [Shifts -> Nat]
        /\ \A s \in Shifts : Len(claims[s]) \in Nat
        /\ StoreType /\ ConfigType
    BY TypeParts, RowCounts DEF TypeOK
  <1>1. CASE Begin
    BY <1>1, RowsOutside DEF Begin, stored
  <1>2. CASE Reconcile
    <2>1. /\ pc = "reconcile" /\ (pc' = pc \/ pc' = "idle" \/ pc' = "down") /\ offered' = offered
      BY <1>2 DEF Reconcile, FetchFails, CheckRaises, CheckPending, CheckDecided, Checked,
                  Ends, Leave, stored
    <2>2. \/ claims' = claims
          \/ \E s \in Shifts, o \in Outcomes : claims' = ReplaceOutcome(s, o)
      BY <1>2 DEF Reconcile, FetchFails, CheckRaises, CheckPending, CheckDecided, Settle, stored
    <2>3. \A t \in Shifts : Len(claims'[t]) = Len(claims[t])
      BY <1>0, <2>2, ReplaceKeepsLength
    <2> QED BY <2>1, <2>3, RowsOutside
  <1>3. CASE Fetch
    <2>1. PICK m \in Lists, a \in Lists : Classify(m, a)
      BY <1>3 DEF Fetch
    <2>2. snap' = offered /\ offered' = offered /\ claims' = claims /\ pc' = "alerts"
      BY <2>1 DEF Classify, OfferedIds, stored
    <2>3. \A s \in Shifts : cands'[s] <= Copies
      BY <2>1 DEF Classify, Lists
    <2> QED BY <1>0, <2>2, <2>3 DEF RowBudget, InHand, ToRecord
  <1>4. CASE Alerts
    <2>1. CASE AlertsDone
      BY <1>0, <2>1, RowsKept DEF AlertsDone, stored, locals, lists, InCycle, InHand
    <2>2. ASSUME NEW s \in Shifts, AlertSeen(s) PROVE RowBudget'
      BY <1>0, <2>2, RowsKept DEF AlertSeen, stored, InCycle, InHand
    <2>3. ASSUME NEW s \in Shifts, Alert(s) PROVE RowBudget'
      BY <1>0, <2>3 DEF Alert, MarkOffered, RowBudget, InCycle, InHand, ToRecord
    <2> QED BY <1>4, <2>1, <2>2, <2>3 DEF Alerts
  <1>5. CASE Act
    <2>1. CASE ActDone
      BY <2>1, RowsOutside DEF ActDone, Leave, stored
    <2>2. CASE DryClaim
      BY <1>0, <2>2, RowsKept DEF DryClaim, stored, lists, InCycle, InHand
    <2>3. ASSUME NEW s \in Shifts, Skip(s) PROVE RowBudget'
      <3>1. \A t \in Shifts : cands'[t] <= cands[t]
        BY <1>0, <2>3 DEF Skip
      <3> QED BY <2>3, <3>1, RowsKept DEF Skip, stored, InCycle, InHand
    <2>4. ASSUME NEW s \in Shifts, Offer(s) PROVE RowBudget'
      <3>1. /\ pc = "act" /\ cands[s] > 0 /\ s \notin snap /\ snap' = snap
            /\ offered' = offered \cup {s} /\ claims' = claims
            /\ cands' = [cands EXCEPT ![s] = @ - 1]
        BY <2>4 DEF Offer, MarkOffered
      <3>2. \A t \in Shifts : InHand(t)' => t = s
        BY <2>4 DEF Offer, Ask, InHand, TypeOK
      <3>3. cands'[s] = cands[s] - 1 /\ \A t \in Shifts : t # s => cands'[t] = cands[t]
        BY <1>0, <3>1
      <3>4. \A t \in Shifts : t \notin snap => Len(claims[t]) + cands[t] <= Copies
        BY <1>0, <3>1 DEF RowBudget, InCycle, ToRecord, InHand
      <3> QED BY <1>0, <3>1, <3>2, <3>3, <3>4 DEF RowBudget, ToRecord
    <2>5. ASSUME NEW yes \in BOOLEAN, Answer(yes) PROVE RowBudget'
      <3>1. /\ pc = "asking" /\ pc' \in {"submit", "act"} /\ (pc' = "submit" => cur' = cur)
            /\ offered' = offered /\ snap' = snap /\ claims' = claims /\ cands' = cands
        BY <2>5 DEF Answer, stored, lists
      <3>2. \A s \in Shifts : cands'[s] <= cands[s]
        BY <1>0, <3>1
      <3>3. (InCycle' => InCycle) /\ \A s \in Shifts : InHand(s)' => InHand(s)
        BY <3>1 DEF InCycle, InHand
      <3> QED BY <3>1, <3>2, <3>3, RowsKept
    <2>6. ASSUME NEW o \in Outcomes, NEW taken \in BOOLEAN, Submit(o, taken) PROVE RowBudget'
      <3>1. /\ pc = "submit" /\ pc' = "record" /\ cur' = cur
            /\ offered' = offered /\ snap' = snap /\ claims' = claims /\ cands' = cands
        BY <2>6 DEF Submit, stored, lists
      <3>2. \A s \in Shifts : cands'[s] <= cands[s]
        BY <1>0, <3>1
      <3>3. (InCycle' => InCycle) /\ \A s \in Shifts : InHand(s)' => InHand(s)
        BY <3>1 DEF InCycle, InHand
      <3> QED BY <3>1, <3>2, <3>3, RowsKept
    <2>7. ASSUME NEW taken \in BOOLEAN, SubmitRaises(taken) PROVE RowBudget'
      BY <2>7, RowsOutside DEF SubmitRaises, Leave, stored
    <2>8. ASSUME NEW n \in Cut("record", RecordWrites), Record(n) PROVE RowBudget'
      <3>1. /\ offered' = offered /\ pc = "record" /\ cur \in Shifts
            /\ (claims' = claims \/ claims' = RecordClaim(cur, res))
        BY <2>8 DEF Record, TypeOK
      <3>2. \/ pc' = "idle" \/ pc' = "down"
            \/ pc' = "act" /\ cur' = NoShift /\ UNCHANGED lists
        BY <2>8 DEF Record, Ends, AfterClaim, Leave
      <3>3. \A t \in Shifts : Len(claims'[t]) <= Len(claims[t]) + ToRecord(t)
        <4>1. ASSUME NEW x PROVE Len(Append(claims[cur], x)) = Len(claims[cur]) + 1
          BY <1>0, <3>1 DEF StoreType
        <4>2. RecordClaim(cur, res) \in
                {claims, [claims EXCEPT ![cur] = Append(@, [outcome |-> res, dry |-> dry])]}
          BY DEF RecordClaim
        <4>3. \A t \in Shifts :
                claims'[t] = claims[t] \/ (t = cur /\ Len(claims'[t]) = Len(claims[t]) + 1)
          BY <1>0, <3>1, <4>1, <4>2 DEF StoreType
        <4>4. ToRecord(cur) = 1 /\ \A t \in Shifts : ToRecord(t) \in {0, 1}
          BY <3>1 DEF ToRecord, InHand
        <4> QED BY <1>0, <3>1, <4>3, <4>4
      <3>4. \A t \in Shifts : Len(claims'[t]) \in Nat
        <4>1. ASSUME NEW t \in Shifts PROVE claims'[t] \in Seq(Row)
          BY DEF TypeOK
        <4> QED BY <4>1
      <3>5. \A t \in Shifts : ToRecord(t) = (IF cur = t THEN 1 ELSE 0) /\ ~InHand(t)'
        BY <3>1, <3>2 DEF ToRecord, InHand, TypeOK
      <3>6. \A t \in Shifts : t \notin snap => Len(claims[t]) + cands[t] + ToRecord(t) <= Copies
        BY <3>1 DEF RowBudget, InCycle
      <3>7. cur \notin snap /\ cur \in offered
        BY <3>1 DEF RowBudget, InHand
      <3>8. \A t \in Shifts : Len(claims'[t]) <= Copies /\ (t \notin offered => Len(claims'[t]) = 0)
        BY <1>0, <3>3, <3>4, <3>5, <3>6, <3>7 DEF RowBudget
      <3>9. CASE pc' = "act" /\ UNCHANGED lists
        <4>1. cands' = cands /\ snap' = snap
          BY <3>9 DEF lists
        <4>2. \A t \in Shifts : t \notin snap' => Len(claims'[t]) + cands'[t] <= Copies
          BY <1>0, <3>3, <3>4, <3>5, <3>6, <4>1
        <4> QED BY <1>0, <3>1, <3>4, <3>5, <3>8, <4>2 DEF RowBudget, ToRecord
      <3>10. CASE pc' = "idle" \/ pc' = "down"
        BY <3>1, <3>5, <3>8, <3>10 DEF RowBudget, InCycle
      <3> QED BY <3>2, <3>9, <3>10
    <2> QED BY <1>5, <2>1, <2>2, <2>3, <2>4, <2>5, <2>6, <2>7, <2>8 DEF Act
  <1>6. CASE Environment
    <2>1. CASE Kill
      BY <2>1, RowsOutside DEF Kill, Leave, stored
    <2>2. ASSUME NEW s \in Shifts, NEW r \in Requests, Decide(s, r) PROVE RowBudget'
      BY <1>0, <2>2, RowsKept DEF Decide, stored, locals, lists, InCycle, InHand
    <2>3. ASSUME NEW m \in Modes, NEW d \in DryRuns, Restart(m, d) PROVE RowBudget'
      BY <2>3, RowsOutside DEF Restart, stored
    <2> QED BY <1>6, <2>1, <2>2, <2>3 DEF Environment
  <1>7. CASE UNCHANGED vars
    BY <1>0, <1>7, RowsKept DEF vars, stored, locals, lists, InCycle, InHand
  <1> QED BY <1>1, <1>2, <1>3, <1>4, <1>5, <1>6, <1>7 DEF Next

\* The balance holds in every reachable state.
LEMMA RowInvariant == Spec => []RowBudget
  <1>1. ASSUME Init PROVE RowBudget
    <2>1. ~InCycle /\ offered = {} /\ \A s \in Shifts : Len(claims[s]) = 0 /\ ~InHand(s)
      BY <1>1 DEF Init, InCycle, InHand
    <2>2. 0 <= Copies
      BY CountAssumption
    <2> QED BY <2>1, <2>2 DEF RowBudget
  <1> QED BY <1>1, RowStep, TypeCorrect, PTL DEF Spec

-----------------------------------------------------------------------------
(* The claims table tells the truth                                        *)

\* A portal whose list names each shift once, which has taken nothing if
\* claim() answers with an error, and whose requests page can be read.  What
\* it has taken if claim() answers "claimed" is left open where it decides
\* later.
Dependable == Copies = 1 /\ ~ClaimLossy /\ ~PageLossy

\* What the rows say agrees with the request behind them, and an answer that
\* is about to be recorded with what the portal has just done.
Recording(s) == pc = "record" /\ cur = s /\ ~dry
RowTruth ==
  \A s \in Shifts :
    /\ (submits[s] = 0 => RealRows(s) = {} /\ request[s] = "none")
    /\ \A i \in RealRows(s) : claims[s][i].outcome = "claimed" \/ request[s] \in {"none", "denied"}
    /\ (Recording(s) => /\ submits[s] # 0
                        /\ res # "claimed" => request[s] = "none"
                        /\ res = "claimed" => deferred \/ request[s] = "awarded")

\* With unique ids a shift has one row at most, and none while it is decided.
LEMMA OneRow ==
  ASSUME TypeOK, RowBudget, Copies = 1, NEW s \in Shifts
  PROVE  /\ \A i, j \in RealRows(s) : i = j
         /\ InHand(s) => RealRows(s) = {} /\ claims[s] = <<>>
  <1>1. claims[s] \in Seq(Row) /\ Len(claims[s]) \in Nat /\ cands[s] \in Nat
    BY DEF TypeOK
  <1>2. Len(claims[s]) <= 1 /\ (InHand(s) => Len(claims[s]) = 0)
    BY <1>1 DEF RowBudget, InHand, InCycle, ToRecord
  <1>3. RealRows(s) \subseteq 1..Len(claims[s])
    BY <1>1 DEF RealRows
  <1> QED BY <1>1, <1>2, <1>3

\* With unique ids a shift that is about to be submitted never was.
LEMMA FirstSubmission ==
  ASSUME TypeOK, SubmitBudget, Copies = 1, pc = "submit"
  PROVE  cur \in Shifts /\ submits[cur] = 0
  <1>1. cur \in Shifts /\ submits[cur] \in Nat /\ cands[cur] \in Nat
    BY DEF TypeOK
  <1> QED BY <1>1 DEF SubmitBudget, InCycle, Deciding, Turn

\* A step that touches no row and no request, and does not come to record.
LEMMA TruthKept ==
  ASSUME RowTruth, claims' = claims, request' = request, submits' = submits, deferred' = deferred,
         \A s \in Shifts : Recording(s)' => Recording(s) /\ res' = res
  PROVE  RowTruth'
  BY DEF RowTruth, RealRows

\* Every step keeps the rows true.
LEMMA TruthStep ==
  ASSUME Dependable PROVE TypeOK /\ SubmitBudget /\ RowBudget /\ RowTruth /\ [Next]_vars => RowTruth'
  <1> SUFFICES ASSUME TypeOK, TypeOK', SubmitBudget, RowBudget, RowTruth, [Next]_vars PROVE RowTruth'
    BY TypeStep
  <1>0. /\ submits \in [Shifts -> Nat] /\ request \in [Shifts -> Requests]
        /\ StoreType /\ ConfigType
    BY TypeParts DEF TypeOK
  <1>1. CASE Begin
    BY <1>1, TruthKept DEF Begin, stored, config, history, Recording
  <1>2. CASE Reconcile
    <2>1. CASE FetchFails
      BY <2>1, TruthKept DEF FetchFails, Leave, stored, config, history, Recording
    <2>2. ASSUME NEW s \in Shifts, CheckRaises(s) \/ CheckPending(s) PROVE RowTruth'
      BY <2>2, TruthKept DEF CheckRaises, CheckPending, Checked, stored, config, history, Recording
    <2>3. ASSUME NEW s \in Shifts, NEW o \in Outcomes, NEW n \in Cut("settle", 2), CheckDecided(s, o, n)
          PROVE  RowTruth'
      <3>1. /\ request' = request /\ submits' = submits /\ deferred' = deferred /\ o \in Decided(s)
            /\ pc = "reconcile" /\ pc' # "record"
            /\ (claims' = claims \/ claims' = ReplaceOutcome(s, o))
        BY <2>3 DEF CheckDecided, Settle, Ends, Checked, Leave, Answers, config, Dependable
      <3>2. CASE claims' = claims
        BY <3>1, <3>2, TruthKept DEF Recording
      <3>3. CASE claims' = ReplaceOutcome(s, o)
        <4>1. o = "claimed" \/ request[s] \in {"none", "denied"}
          BY <1>0, <3>1 DEF Decided, Requests
        <4>2. \A i, j \in RealRows(s) : i = j
          BY OneRow DEF Dependable
        <4>3. /\ \A t \in Shifts \ {s} : claims'[t] = claims[t]
              /\ RealRows(s)' = RealRows(s)
              /\ \A i \in RealRows(s) : claims'[s][i].outcome = o
          BY <1>0, <3>3, <4>2, ReplacedRow
        <4>4. \A t \in Shifts \ {s} : RealRows(t)' = RealRows(t)
          BY <4>3 DEF RealRows
        <4> QED BY <3>1, <4>1, <4>3, <4>4 DEF RowTruth, Recording
      <3> QED BY <3>1, <3>2, <3>3
    <2> QED BY <1>2, <2>1, <2>2, <2>3 DEF Reconcile
  <1>3. CASE Fetch
    BY <1>3, TruthKept DEF Fetch, Classify, stored, config, history, Recording
  <1>4. CASE Alerts
    BY <1>4, TruthKept
    DEF Alerts, AlertsDone, AlertSeen, Alert, stored, config, locals, history, Recording
  <1>5. CASE Act
    <2>1. CASE ActDone
      BY <2>1, TruthKept DEF ActDone, Leave, stored, config, history, Recording
    <2>2. CASE DryClaim
      BY <2>2, TruthKept DEF DryClaim, stored, config, history, Recording
    <2>3. ASSUME NEW s \in Shifts, Skip(s) \/ Offer(s) PROVE RowTruth'
      <3>1. pc' # "record"
        BY <1>0, <2>3 DEF Skip, Offer, Ask, ConfigType
      <3> QED BY <2>3, <3>1, TruthKept DEF Skip, Offer, stored, config, history, Recording
    <2>5. ASSUME NEW yes \in BOOLEAN, Answer(yes) PROVE RowTruth'
      BY <2>5, TruthKept DEF Answer, stored, config, Recording
    <2>6. ASSUME NEW o \in Outcomes, NEW taken \in BOOLEAN, Submit(o, taken) PROVE RowTruth'
      <3>1. cur \in Shifts /\ submits[cur] = 0 /\ RealRows(cur) = {} /\ request[cur] = "none"
        BY <2>6, FirstSubmission DEF Submit, RowTruth, Dependable
      <3>2. /\ claims' = claims /\ submits' = [submits EXCEPT ![cur] = @ + 1]
            /\ pc = "submit" /\ cur' = cur /\ res' = o /\ deferred' = deferred
            /\ (taken => o = "claimed") /\ (o = "claimed" => taken \/ deferred)
        BY <2>6 DEF Submit, Reaches, Takes, stored, config, Dependable
      <3>3. request' = IF taken THEN [request EXCEPT ![cur] = IF deferred THEN "pending" ELSE "awarded"]
                       ELSE request
        BY <2>6, <3>1, <3>2 DEF Submit, Reaches
      <3>4. \A t \in Shifts \ {cur} : request'[t] = request[t] /\ submits'[t] = submits[t]
        BY <1>0, <3>1, <3>2, <3>3
      <3>5. /\ (o # "claimed" => request'[cur] = "none") /\ submits'[cur] # 0
            /\ (o = "claimed" => deferred \/ request'[cur] = "awarded")
        BY <1>0, <3>1, <3>2, <3>3
      <3>6. \A t \in Shifts : RealRows(t)' = RealRows(t)
        BY <3>2 DEF RealRows
      <3> QED BY <3>1, <3>2, <3>4, <3>5, <3>6 DEF RowTruth, Recording
    <2>7. ASSUME NEW taken \in BOOLEAN, SubmitRaises(taken) PROVE RowTruth'
      <3>1. cur \in Shifts /\ submits[cur] = 0 /\ RealRows(cur) = {} /\ request[cur] = "none"
        BY <2>7, FirstSubmission DEF SubmitRaises, RowTruth, Dependable
      <3>2. /\ claims' = claims /\ submits' = [submits EXCEPT ![cur] = @ + 1] /\ pc' = "idle"
            /\ request' = request
        BY <2>7 DEF SubmitRaises, Reaches, Leave, stored, Dependable
      <3>3. submits'[cur] # 0 /\ \A t \in Shifts \ {cur} : submits'[t] = submits[t]
        BY <1>0, <3>1, <3>2
      <3>4. \A t \in Shifts : RealRows(t)' = RealRows(t)
        BY <3>2 DEF RealRows
      <3> QED BY <3>1, <3>2, <3>3, <3>4 DEF RowTruth, Recording
    <2>8. ASSUME NEW n \in Cut("record", RecordWrites), Record(n) PROVE RowTruth'
      <3>0. PICK c \in Shifts : c = cur
        BY <2>8 DEF Record, TypeOK
      <3>1. /\ pc = "record" /\ res \in Outcomes /\ InHand(c)
            /\ request' = request /\ submits' = submits /\ deferred' = deferred /\ pc' # "record"
            /\ (claims' = claims \/ claims' = RecordClaim(c, res))
        BY <2>8, <3>0 DEF Record, TypeOK, Ends, AfterClaim, Leave, InHand, config
      <3>2. CASE claims' = claims
        BY <3>1, <3>2, TruthKept DEF Recording
      <3>3. CASE claims' = [claims EXCEPT ![c] = Append(@, [outcome |-> res, dry |-> dry])]
        <4>1. RealRows(c) = {}
          BY <3>1, OneRow DEF Dependable
        <4>2. \A t \in Shifts \ {c} : claims'[t] = claims[t] /\ RealRows(t)' = RealRows(t)
          BY <1>0, <3>3 DEF StoreType, RealRows
        <4>3. CASE dry
          <5>1. dry = TRUE
            BY <1>0, <4>3 DEF ConfigType
          <5>2. claims' = [claims EXCEPT ![c] = Append(@, [outcome |-> res, dry |-> TRUE])]
            BY <3>3, <5>1
          <5>3. RealRows(c)' = {}
            BY <1>0, <3>1, <4>1, <5>2, DryRow
          <5>4. ASSUME NEW t \in Shifts \ {c}, NEW i \in RealRows(t)'
                PROVE  claims'[t][i].outcome = "claimed" \/ request[t] \in {"none", "denied"}
            BY <4>2, <5>4 DEF RowTruth
          <5> QED BY <3>1, <4>1, <4>2, <5>3, <5>4 DEF RowTruth, Recording
        <4>4. CASE ~dry
          <5>1. dry = FALSE
            BY <1>0, <4>4 DEF ConfigType
          <5>4. claims' = [claims EXCEPT ![c] = Append(@, [outcome |-> res, dry |-> FALSE])]
            BY <3>3, <5>1
          <5>2. /\ RealRows(c)' = {Len(claims[c]) + 1}
                /\ claims'[c][Len(claims[c]) + 1].outcome = res
            BY <1>0, <3>1, <4>1, <5>4, FirstRealRow
          <5>3. submits[c] # 0 /\ (res # "claimed" => request[c] = "none")
            BY <3>0, <3>1, <4>4 DEF RowTruth, Recording
          <5>5. ASSUME NEW t \in Shifts, NEW i \in RealRows(t)'
                PROVE  claims'[t][i].outcome = "claimed" \/ request[t] \in {"none", "denied"}
            <6>1. CASE t = c
              BY <1>0, <3>1, <5>2, <5>3, <5>5, <6>1 DEF Requests
            <6>2. CASE t # c
              BY <4>2, <5>5, <6>2 DEF RowTruth
            <6> QED BY <6>1, <6>2
          <5> QED BY <3>1, <4>2, <5>3, <5>5 DEF RowTruth, Recording
        <4> QED BY <4>3, <4>4
      <3> QED BY <3>1, <3>2, <3>3 DEF RecordClaim
    <2> QED BY <1>5, <2>1, <2>2, <2>3, <2>5, <2>6, <2>7, <2>8 DEF Act
  <1>6. CASE Environment
    <2>1. CASE Kill
      BY <2>1, TruthKept DEF Kill, Leave, stored, config, Recording
    <2>2. ASSUME NEW s \in Shifts, NEW r \in Requests, Decide(s, r) PROVE RowTruth'
      <3>1. /\ claims' = claims /\ submits' = submits /\ res' = res /\ deferred' = deferred
            /\ request[s] = "pending" /\ r \in {"awarded", "denied"}
            /\ request' = [request EXCEPT ![s] = r]
        BY <2>2 DEF Decide, stored, config, locals, history
      <3>2. \A t \in Shifts : RealRows(t)' = RealRows(t) /\ Recording(t)' = Recording(t)
        BY <2>2 DEF Decide, stored, config, locals, RealRows, Recording
      <3>3. request'[s] = r /\ \A t \in Shifts \ {s} : request'[t] = request[t]
        BY <1>0, <3>1
      <3> QED BY <3>1, <3>2, <3>3 DEF RowTruth
    <2>3. ASSUME NEW m \in Modes, NEW d \in DryRuns, Restart(m, d) PROVE RowTruth'
      BY <2>3, TruthKept DEF Restart, stored, config, history, Recording
    <2> QED BY <1>6, <2>1, <2>2, <2>3 DEF Environment
  <1>7. CASE UNCHANGED vars
    BY <1>7, TruthKept DEF vars, stored, config, locals, history, Recording
  <1> QED BY <1>1, <1>2, <1>3, <1>4, <1>5, <1>6, <1>7 DEF Next

\* The rows are true in every reachable state.
LEMMA TruthInvariant == ASSUME Dependable PROVE Spec => []RowTruth
  <1>1. ASSUME Init PROVE RowTruth
    <2>1. \A s \in Shifts : claims[s] = <<>> /\ request[s] = "none"
      BY <1>1 DEF Init
    <2>2. ASSUME NEW s \in Shifts PROVE DOMAIN claims[s] = {}
      <3>1. <<>> \in Seq(Row) /\ Len(<<>>) = 0
        OBVIOUS
      <3>2. DOMAIN <<>> = 1..0
        BY <3>1
      <3>3. DOMAIN claims[s] = 1..0
        BY <2>1, <3>2
      <3> QED BY <3>3
    <2>4. \A s \in Shifts : RealRows(s) = {}
      BY <2>2 DEF RealRows
    <2>3. pc # "record"
      BY <1>1 DEF Init
    <2> QED BY <2>1, <2>4, <2>3 DEF RowTruth, Recording
  <1> QED BY <1>1, TruthStep, TypeCorrect, BudgetInvariant, RowInvariant, PTL DEF Spec

\* On a dependable portal no row ever says that a request failed which the
\* portal still holds, whatever kills strike between submitting, recording
\* and settling it (poller.py:428-446).
THEOREM FailuresAreReal == ASSUME Dependable PROVE Spec => []NoFalseFailure
  <1>1. TypeOK /\ RowBudget /\ RowTruth => NoFalseFailure
    <2> SUFFICES ASSUME TypeOK, RowBudget, RowTruth, NEW s \in Shifts, RealRows(s) # {}, Held(s)
                 PROVE  claims[s][LastReal(s)].outcome = "claimed"
      BY DEF NoFalseFailure
    <2>1. \A i, j \in RealRows(s) : i = j
      BY OneRow DEF Dependable
    <2>2. PICK i \in RealRows(s) : RealRows(s) = {i}
      BY <2>1
    <2>3. i \in Int
      BY <2>2 DEF RealRows, TypeOK
    <2>4. LastReal(s) = i
      BY <2>2, <2>3 DEF LastReal
    <2> QED BY <2>2, <2>4 DEF RowTruth, Held
  <1> QED BY <1>1, TruthInvariant, TypeCorrect, RowInvariant, PTL

-----------------------------------------------------------------------------
(* A provisional row is queued                                             *)

\* Where a kill cannot fall between recording a claim and queueing it, a row
\* that says "claimed" is the portal's award, or its outcome will be read.
Awaited(s) == deferred /\ s \in queue
WaitsInQueue ==
  \A s \in Shifts : \A i \in RealRows(s) :
    claims[s][i].outcome = "claimed" => request[s] = "awarded" \/ Awaited(s)

\* A step that touches neither row nor queue, and at most decides a request.
LEMMA QueueKept ==
  ASSUME WaitsInQueue, claims' = claims, queue' = queue, deferred' = deferred,
         \A s \in Shifts :
           \/ request'[s] = request[s]
           \/ request[s] = "pending" /\ request'[s] \in {"awarded", "denied"}
  PROVE  WaitsInQueue'
  BY DEF WaitsInQueue, Awaited, RealRows

\* Every step keeps the provisional rows in the queue.
LEMMA QueueStep ==
  ASSUME Dependable, "record" \notin Torn
  PROVE  TypeOK /\ SubmitBudget /\ RowBudget /\ RowTruth /\ WaitsInQueue /\ [Next]_vars => WaitsInQueue'
  <1> SUFFICES ASSUME TypeOK, TypeOK', SubmitBudget, RowBudget, RowTruth, WaitsInQueue, [Next]_vars
               PROVE  WaitsInQueue'
    BY TypeStep
  <1>0. /\ submits \in [Shifts -> Nat] /\ request \in [Shifts -> Requests]
        /\ StoreType /\ ConfigType
    BY TypeParts DEF TypeOK
  <1>1. CASE Begin
    BY <1>1, QueueKept DEF Begin, stored, config
  <1>2. CASE Reconcile
    <2>1. CASE FetchFails
      BY <2>1, QueueKept DEF FetchFails, stored, config
    <2>2. ASSUME NEW s \in Shifts, CheckRaises(s) \/ CheckPending(s) PROVE WaitsInQueue'
      BY <2>2, QueueKept DEF CheckRaises, CheckPending, stored, config
    <2>3. ASSUME NEW s \in Shifts, NEW o \in Outcomes, NEW n \in Cut("settle", 2), CheckDecided(s, o, n)
          PROVE  WaitsInQueue'
      <3>1. /\ request' = request /\ deferred' = deferred /\ o \in Decided(s)
            /\ (claims' = claims \/ claims' = ReplaceOutcome(s, o))
            /\ (queue' = queue \/ queue' = queue \ {s})
        BY <2>3 DEF CheckDecided, Settle, Answers, config, Dependable
      <3>2. o = "claimed" => request[s] = "awarded"
        BY <1>0, <3>1 DEF Decided, Requests
      <3>3. \A i, j \in RealRows(s) : i = j
        BY OneRow DEF Dependable
      <3>4. \A t \in Shifts \ {s} : claims'[t] = claims[t]
        BY <1>0, <3>1, <3>3, ReplacedRow
      <3>5. \A t \in Shifts \ {s} : RealRows(t)' = RealRows(t)
        BY <3>4 DEF RealRows
      <3>6. CASE claims' = claims /\ queue' = queue
        BY <3>1, <3>6, QueueKept
      <3>7. CASE claims' = ReplaceOutcome(s, o)
        <4>1. RealRows(s)' = RealRows(s) /\ \A i \in RealRows(s) : claims'[s][i].outcome = o
          BY <1>0, <3>3, <3>7, ReplacedRow
        <4> QED BY <3>1, <3>2, <3>4, <3>5, <4>1 DEF WaitsInQueue, Awaited
      <3>8. n \in Nat /\ (n >= 2 => n >= 1)
        BY CutRange
      <3> QED BY <2>3, <3>1, <3>6, <3>7, <3>8 DEF CheckDecided, Settle
    <2> QED BY <1>2, <2>1, <2>2, <2>3 DEF Reconcile
  <1>3. CASE Fetch
    BY <1>3, QueueKept DEF Fetch, Classify, stored, config
  <1>4. CASE Alerts
    BY <1>4, QueueKept DEF Alerts, AlertsDone, AlertSeen, Alert, stored, config
  <1>5. CASE Act
    <2>1. CASE ActDone \/ DryClaim \/ (\E s \in Shifts : Skip(s) \/ Offer(s)) \/ (\E yes \in BOOLEAN : Answer(yes))
      BY <2>1, QueueKept DEF ActDone, DryClaim, Skip, Offer, Answer, stored, config
    <2>2. ASSUME NEW o \in Outcomes, NEW taken \in BOOLEAN, Submit(o, taken) \/ SubmitRaises(taken)
          PROVE  WaitsInQueue'
      <3>0. PICK c \in Shifts : c = cur
        BY <2>2 DEF Submit, SubmitRaises, TypeOK
      <3>1. RealRows(c) = {}
        BY <2>2, <3>0, FirstSubmission DEF Submit, SubmitRaises, RowTruth, Dependable
      <3>2. /\ claims' = claims /\ queue' = queue /\ deferred' = deferred
            /\ request' \in {request, [request EXCEPT ![c] = IF deferred THEN "pending" ELSE "awarded"]}
        BY <2>2, <3>0 DEF Submit, SubmitRaises, Reaches, stored, config
      <3>3. \A t \in Shifts \ {c} : request'[t] = request[t]
        BY <1>0, <3>2
      <3>4. \A t \in Shifts : RealRows(t)' = RealRows(t)
        BY <3>2 DEF RealRows
      <3> QED BY <3>1, <3>2, <3>3, <3>4 DEF WaitsInQueue, Awaited
    <2>3. ASSUME NEW n \in Cut("record", RecordWrites), Record(n) PROVE WaitsInQueue'
      <3>0. PICK c \in Shifts : c = cur
        BY <2>3 DEF Record, TypeOK
      <3>1. /\ pc = "record" /\ res \in Outcomes /\ InHand(c) /\ request' = request /\ deferred' = deferred
            /\ queue' = (IF n >= 2 THEN queue \cup {c} ELSE queue)
            /\ claims' = (IF n >= 1 THEN RecordClaim(c, res) ELSE claims)
        BY <2>3, <3>0 DEF Record, MarkPending, TypeOK, InHand, config
      <3>2. n = 0 \/ n = RecordWrites
        BY DEF Cut
      <3>3. CASE claims' = claims
        BY <3>1, <3>3 DEF WaitsInQueue, Awaited, RealRows
      <3>4. CASE claims' # claims
        <4>1. n = RecordWrites
          BY <3>1, <3>2, <3>4
        <4>2. claims' = [claims EXCEPT ![c] = Append(@, [outcome |-> res, dry |-> dry])]
          BY <3>1, <3>4 DEF RecordClaim
        <4>3. RealRows(c) = {}
          BY <3>1, OneRow DEF Dependable
        <4>4. \A t \in Shifts \ {c} : claims'[t] = claims[t] /\ RealRows(t)' = RealRows(t)
          BY <1>0, <4>2 DEF StoreType, RealRows
        <4>5. CASE dry
          <5>1. claims' = [claims EXCEPT ![c] = Append(@, [outcome |-> res, dry |-> TRUE])]
            BY <1>0, <4>2, <4>5 DEF ConfigType
          <5>2. RealRows(c)' = {}
            BY <1>0, <3>1, <4>3, <5>1, DryRow
          <5> QED BY <3>1, <4>4, <5>2 DEF WaitsInQueue, Awaited
        <4>6. CASE ~dry /\ res = "claimed"
          <5>1. c \in queue'
            BY <3>1, <4>1, <4>6 DEF RecordWrites
          <5>2. deferred \/ request[c] = "awarded"
            BY <3>0, <3>1, <4>6 DEF RowTruth, Recording
          <5> QED BY <3>1, <4>4, <5>1, <5>2 DEF WaitsInQueue, Awaited
        <4>7. CASE ~dry /\ res # "claimed"
          <5>1. claims' = [claims EXCEPT ![c] = Append(@, [outcome |-> res, dry |-> FALSE])]
            BY <1>0, <4>2, <4>7 DEF ConfigType
          <5>2. \A i \in RealRows(c)' : claims'[c][i].outcome = res
            BY <1>0, <3>1, <4>3, <5>1, FirstRealRow
          <5> QED BY <3>1, <4>4, <4>7, <5>2 DEF WaitsInQueue, Awaited
        <4> QED BY <4>5, <4>6, <4>7
      <3> QED BY <3>3, <3>4
    <2> QED BY <1>5, <2>1, <2>2, <2>3 DEF Act, Outcomes
  <1>6. CASE Environment
    <2>1. CASE Kill \/ (\E m \in Modes, d \in DryRuns : Restart(m, d))
      BY <2>1, QueueKept DEF Kill, Restart, stored, config
    <2>2. ASSUME NEW s \in Shifts, NEW r \in Requests, Decide(s, r) PROVE WaitsInQueue'
      BY <1>0, <2>2, QueueKept DEF Decide, stored, config
    <2> QED BY <1>6, <2>1, <2>2 DEF Environment
  <1>7. CASE UNCHANGED vars
    BY <1>7, QueueKept DEF vars, stored, config
  <1> QED BY <1>1, <1>2, <1>3, <1>4, <1>5, <1>6, <1>7 DEF Next

\* The provisional rows wait in the queue in every reachable state.
LEMMA QueueInvariant ==
  ASSUME Dependable, "record" \notin Torn PROVE Spec => []WaitsInQueue
  <1>1. ASSUME Init PROVE WaitsInQueue
    <2>1. \A s \in Shifts : claims[s] = <<>>
      BY <1>1 DEF Init
    <2>2. DOMAIN <<>> = {}
      OBVIOUS
    <2> QED BY <2>1, <2>2 DEF WaitsInQueue, RealRows
  <1> QED BY <1>1, QueueStep, TypeCorrect, BudgetInvariant, RowInvariant, TruthInvariant, PTL DEF Spec

\* A shift whose row says "claimed" and which a portal that decides later has
\* not awarded - it may not even hold the request - is in the queue, so that
\* its outcome will be read, over any number of kills that do not fall between
\* the two writes that record it (poller.py:433-438).
THEOREM ProvisionalRowsAreQueued ==
  ASSUME Dependable, "record" \notin Torn PROVE Spec => []ProvisionalIsQueued
  <1>1. WaitsInQueue => ProvisionalIsQueued
    <2> SUFFICES ASSUME WaitsInQueue, NEW s \in Shifts, request[s] # "awarded",
                        NEW i \in DOMAIN claims[s], claims[s][i] = [outcome |-> "claimed", dry |-> FALSE]
                 PROVE  s \in queue
      BY DEF ProvisionalIsQueued, AlreadyClaimed
    <2>1. claims[s][i].outcome = "claimed" /\ claims[s][i].dry = FALSE
      OBVIOUS
    <2> QED BY <2>1 DEF WaitsInQueue, Awaited, RealRows
  <1> QED BY <1>1, QueueInvariant, PTL

-----------------------------------------------------------------------------
(* Conflicts on a portal that decides at once                              *)

\* Every candidate still to come fits the trips the portal has her on, until
\* a success is in hand and the cycle is about to end.
Choosing == pc \in {"alerts", "act", "asking", "submit"} \/ (pc = "record" /\ res # "claimed")
CandidatesFit ==
  ~deferred =>
    /\ NoConflictingRequests
    /\ \A s \in Shifts : request[s] \in {"none", "awarded"}
    /\ Choosing => \A s \in Shifts : cands[s] > 0 \/ Deciding(s) => Fits(s)

\* A step that leaves the requests alone and takes nothing up.
LEMMA FitKept ==
  ASSUME CandidatesFit, deferred' = deferred, request' = request,
         Choosing' => Choosing,
         \A s \in Shifts : Choosing' /\ cands'[s] > 0 => cands[s] > 0,
         \A s \in Shifts : Deciding(s)' => Deciding(s) \/ cands[s] > 0
  PROVE  CandidatesFit'
  BY DEF CandidatesFit, NoConflictingRequests, Held, Fits, Assigned

\* Every step keeps the candidates free of conflicts.
LEMMA FitStep ==
  ASSUME ~ClaimLossy PROVE TypeOK /\ CandidatesFit /\ [Next]_vars => CandidatesFit'
  <1> SUFFICES ASSUME TypeOK, TypeOK', CandidatesFit, [Next]_vars PROVE CandidatesFit'
    BY TypeStep
  <1>0. /\ request \in [Shifts -> Requests] /\ cands \in [Shifts -> Nat]
        /\ mode \in {"notify_only", "confirm", "auto"}
    BY DEF TypeOK
  <1>1. CASE Begin
    BY <1>1, FitKept DEF Begin, config, Choosing, Deciding
  <1>2. CASE Reconcile
    <2>1. /\ pc' \in {"reconcile", "idle", "down"} /\ deferred' = deferred /\ request' = request
      BY <1>2 DEF Reconcile, FetchFails, CheckRaises, CheckPending, CheckDecided, Checked,
                  Ends, Leave, config
    <2> QED BY <2>1, FitKept DEF Choosing, Deciding
  <1>3. CASE Fetch
    <2>1. PICK m \in Lists, a \in Lists : Classify(m, a)
      BY <1>3 DEF Fetch
    <2>2. /\ request' = request /\ deferred' = deferred /\ pc' = "alerts"
          /\ \A s \in Shifts : cands'[s] > 0 => m[s] > 0
      BY <2>1 DEF Classify, config
    <2>3. \A s \in Shifts : m[s] \in 0..Copies /\ a[s] \in 0..Copies
      BY <2>1 DEF Lists
    <2>4. \A s \in Shifts : m[s] > 0 => Fits(s)
      BY <2>1, <2>3 DEF Classify
    <2>5. \A s \in Shifts : cands'[s] > 0 \/ Deciding(s)' => Fits(s)'
      BY <2>2, <2>4 DEF Deciding, Fits, Assigned
    <2> QED BY <2>2, <2>5 DEF CandidatesFit, NoConflictingRequests, Held
  <1>4. CASE Alerts
    <2>1. /\ pc = "alerts" /\ pc' \in {"alerts", "act"} /\ deferred' = deferred /\ request' = request
          /\ cands' = cands
      BY <1>4 DEF Alerts, AlertsDone, AlertSeen, Alert, config, locals, lists
    <2> QED BY <2>1, FitKept DEF Choosing, Deciding
  <1>5. CASE Act
    <2>1. CASE ActDone
      BY <2>1, FitKept DEF ActDone, Leave, config, Choosing, Deciding
    <2>2. CASE DryClaim
      BY <2>2, FitKept DEF DryClaim, config, lists, Choosing, Deciding
    <2>3. ASSUME NEW s \in Shifts, Skip(s) PROVE CandidatesFit'
      <3>1. \A t \in Shifts : cands'[t] > 0 => cands[t] > 0
        BY <1>0, <2>3 DEF Skip
      <3> QED BY <2>3, <3>1, FitKept DEF Skip, config, Choosing, Deciding
    <2>4. ASSUME NEW s \in Shifts, Offer(s) PROVE CandidatesFit'
      <3>1. \A t \in Shifts : cands'[t] > 0 => cands[t] > 0
        BY <1>0, <2>4 DEF Offer
      <3>2. \A t \in Shifts : Deciding(t)' => t = s
        BY <1>0, <2>4 DEF Offer, Ask, Deciding
      <3>3. pc = "act" /\ cands[s] > 0 /\ deferred' = deferred /\ request' = request
        BY <2>4 DEF Offer, config
      <3> QED BY <3>1, <3>2, <3>3, FitKept DEF Choosing
    <2>5. ASSUME NEW yes \in BOOLEAN, Answer(yes) PROVE CandidatesFit'
      <3>1. /\ pc = "asking" /\ cur' \in {cur, NoShift} /\ deferred' = deferred /\ request' = request
            /\ cands' = cands
        BY <2>5 DEF Answer, config, lists
      <3>2. \A t \in Shifts : Deciding(t)' => Deciding(t)
        BY <3>1 DEF Deciding
      <3> QED BY <3>1, <3>2, FitKept DEF Choosing
    <2>6. ASSUME NEW o \in Outcomes, NEW taken \in BOOLEAN, Submit(o, taken) PROVE CandidatesFit'
      <3>0. PICK c \in Shifts : c = cur
        BY <2>6 DEF Submit, TypeOK
      <3>1. /\ pc = "submit" /\ pc' = "record" /\ res' = o /\ cur' = cur /\ cands' = cands
            /\ deferred' = deferred /\ (taken => o = "claimed") /\ Deciding(c)
        BY <2>6, <3>0 DEF Submit, Takes, config, lists, Deciding
      <3>2. CASE request' = request
        BY <3>1, <3>2, FitKept DEF Choosing, Deciding
      <3>3. CASE request' # request
        <4>1. o = "claimed" /\ request' = [request EXCEPT ![c] = IF deferred THEN "pending" ELSE "awarded"]
          BY <2>6, <3>0, <3>1, <3>3 DEF Submit, Reaches
        <4>2. SUFFICES ASSUME ~deferred PROVE CandidatesFit'
          BY <3>1 DEF CandidatesFit
        <4>3. Fits(c)
          BY <3>1, <4>2 DEF CandidatesFit, Choosing
        <4>4. \A t \in Shifts : request'[t] = IF t = c THEN "awarded" ELSE request[t]
          BY <1>0, <4>1, <4>2
        <4>5. \A t \in Shifts : Held(t) => t \in Assigned
          BY <4>2 DEF CandidatesFit, Held, Assigned
        <4>6. \A t \in Shifts : Held(t)' => t = c \/ Held(t)
          BY <4>4 DEF Held
        <4>7. ASSUME NEW s \in Shifts, NEW t \in Shifts, Held(s)', Held(t)', s # t
              PROVE  {s, t} \notin Conflict
          <5>1. CASE s = c
            <6>1. t \in Assigned
              BY <4>5, <4>6, <4>7, <5>1
            <6> QED BY <4>3, <5>1, <6>1 DEF Fits
          <5>2. CASE t = c
            <6>1. s \in Assigned /\ {s, t} = {t, s}
              BY <4>5, <4>6, <4>7, <5>2
            <6> QED BY <4>3, <5>2, <6>1 DEF Fits
          <5>3. CASE s # c /\ t # c
            BY <4>2, <4>6, <4>7, <5>3 DEF CandidatesFit, NoConflictingRequests
          <5> QED BY <5>1, <5>2, <5>3
        <4>8. NoConflictingRequests'
          BY <4>7 DEF NoConflictingRequests
        <4>9. ~Choosing'
          BY <3>1, <4>1 DEF Choosing
        <4> QED BY <4>2, <4>4, <4>8, <4>9 DEF CandidatesFit
      <3> QED BY <3>2, <3>3
    <2>7. ASSUME NEW taken \in BOOLEAN, SubmitRaises(taken) PROVE CandidatesFit'
      <3>1. request' = request /\ deferred' = deferred /\ pc' = "idle"
        BY <2>7 DEF SubmitRaises, Reaches, Leave, config
      <3> QED BY <3>1, FitKept DEF Choosing, Deciding
    <2>8. ASSUME NEW n \in Cut("record", RecordWrites), Record(n) PROVE CandidatesFit'
      <3>1. /\ pc = "record" /\ request' = request /\ deferred' = deferred
            /\ \/ pc' = "idle" \/ pc' = "down"
               \/ pc' = "act" /\ cur' = NoShift /\ cands' = cands /\ res # "claimed"
        BY <2>8 DEF Record, Ends, AfterClaim, Leave, config, lists
      <3> QED BY <3>1, FitKept DEF Choosing, Deciding
    <2> QED BY <1>5, <2>1, <2>2, <2>3, <2>4, <2>5, <2>6, <2>7, <2>8 DEF Act
  <1>6. CASE Environment
    <2>1. CASE Kill
      BY <2>1, FitKept DEF Kill, Leave, config, Choosing, Deciding
    <2>2. ASSUME NEW s \in Shifts, NEW r \in Requests, Decide(s, r) PROVE CandidatesFit'
      BY <2>2 DEF Decide, config, CandidatesFit
    <2>3. ASSUME NEW m \in Modes, NEW d \in DryRuns, Restart(m, d) PROVE CandidatesFit'
      BY <2>3, FitKept DEF Restart, Choosing, Deciding
    <2> QED BY <1>6, <2>1, <2>2, <2>3 DEF Environment
  <1>7. CASE UNCHANGED vars
    BY <1>7, FitKept DEF vars, config, locals, lists, Choosing, Deciding
  <1> QED BY <1>1, <1>2, <1>3, <1>4, <1>5, <1>6, <1>7 DEF Next

\* On a portal that decides at once, and has taken nothing if claim() answers
\* with an error, she never holds two shifts that cannot both be worked:
\* ending the cycle after a success is enough (poller.py:278-280).
THEOREM ConflictsAreAvoided == ASSUME ~ClaimLossy PROVE Spec => []NoConflictingClaims
  <1>1. Init => CandidatesFit
    BY DEF Init, CandidatesFit, NoConflictingRequests, Held, Choosing
  <1>2. CandidatesFit => NoConflictingClaims
    BY DEF CandidatesFit, NoConflictingClaims
  <1> QED BY <1>1, <1>2, FitStep, TypeCorrect, PTL DEF Spec

-----------------------------------------------------------------------------
(* The cycle keeps the contract                                            *)

\* The report of a shift whose rows a step leaves alone stays what it was.
LEMMA ReportSame ==
  ASSUME NEW s \in Shifts, claims'[s] = claims[s] PROVE Reported(s)' = Reported(s)
  <1>1. RealRows(s)' = RealRows(s)
    BY DEF RealRows
  <1>2. LastReal(s)' = LastReal(s)
    BY <1>1 DEF LastReal
  <1> QED BY <1>1, <1>2 DEF Reported

\* The report of a shift with one real row is that row's, before and after a
\* step.
LEMMA ReportOne ==
  ASSUME NEW s \in Shifts, NEW i \in Nat, RealRows(s) = {i}
  PROVE  Reported(s) = IF claims[s][i].outcome = "claimed" THEN "claimed" ELSE "failed"
  <1>1. LastReal(s) = i
    BY DEF LastReal
  <1> QED BY <1>1 DEF Reported

\* The same of the row a step leaves.
LEMMA ReportOneAfter ==
  ASSUME NEW s \in Shifts, NEW i \in Nat, RealRows(s)' = {i}
  PROVE  Reported(s)' = IF claims'[s][i].outcome = "claimed" THEN "claimed" ELSE "failed"
  <1>1. LastReal(s)' = i
    BY DEF LastReal
  <1> QED BY <1>1 DEF Reported

\* A step that changes neither marks, submissions, requests, rows nor queue is
\* none of the contract's.
LEMMA ContractStutters ==
  ASSUME offered' = offered, submits' = submits, request' = request, claims' = claims,
         deferred' = deferred, queue' = queue
  PROVE  UNCHANGED Contract!vars
  <1>1. \A s \in Shifts : Reported(s)' = Reported(s)
    BY ReportSame
  <1>2. [s \in Shifts |-> Reported(s)]' = [s \in Shifts |-> Reported(s)]
    BY <1>1
  <1>3. {s \in Shifts : submits[s] > 0}' = {s \in Shifts : submits[s] > 0}
    OBVIOUS
  <1> QED BY <1>2, <1>3 DEF Contract!vars

\* A step that only marks a shift presents it, if it was not presented before.
LEMMA ContractPresents ==
  ASSUME NEW s \in Shifts, offered' = offered \cup {s},
         submits' = submits, request' = request, claims' = claims,
         deferred' = deferred, queue' = queue
  PROVE  [Contract!Next]_Contract!vars
  <1>1. \A t \in Shifts : Reported(t)' = Reported(t)
    BY ReportSame
  <1>2. [t \in Shifts |-> Reported(t)]' = [t \in Shifts |-> Reported(t)]
    BY <1>1
  <1>3. {t \in Shifts : submits[t] > 0}' = {t \in Shifts : submits[t] > 0}
    OBVIOUS
  <1>4. CASE s \in offered
    <2>1. offered' = offered
      BY <1>4
    <2> QED BY <2>1, ContractStutters
  <1>5. CASE s \notin offered
    <2>1. Contract!Present(s)
      BY <1>2, <1>3, <1>5 DEF Contract!Present
    <2> QED BY <2>1 DEF Contract!Next
  <1> QED BY <1>4, <1>5

\* What a step that changes the rows of one shift may do to its report: leave
\* it, make the first one, or put the outcome in its place.
FirstClaim(s) ==
  /\ submits[s] > 0 /\ Reported(s) = "none" /\ (deferred \/ request[s] = "awarded")
  /\ Reported(s)' = "claimed" /\ queue' = queue \cup {s}
FirstFailure(s) ==
  /\ submits[s] > 0 /\ Reported(s) = "none" /\ request[s] = "none"
  /\ Reported(s)' = "failed" /\ queue' = queue
OutcomeRead(s) ==
  /\ s \in queue /\ deferred /\ request[s] # "pending"
  /\ Reported(s)' = (IF request[s] = "awarded" THEN "claimed" ELSE "failed")
  /\ queue' \in {queue, queue \ {s}}

\* Each of these is a step of the contract, or none.
LEMMA ContractReports ==
  ASSUME NEW s \in Shifts, offered' = offered, submits' = submits, request' = request,
         deferred' = deferred, \A t \in Shifts \ {s} : claims'[t] = claims[t],
         \/ Reported(s)' = Reported(s) /\ queue' = queue
         \/ FirstClaim(s) \/ FirstFailure(s) \/ OutcomeRead(s)
  PROVE  [Contract!Next]_Contract!vars
  <1> DEFINE report == [t \in Shifts |-> Reported(t)]
             requested == {t \in Shifts : submits[t] > 0}
  <1>1. \A t \in Shifts \ {s} : Reported(t)' = Reported(t)
    BY ReportSame
  <1>2. requested' = requested
    OBVIOUS
  <1>3. CASE Reported(s)' = Reported(s) /\ queue' = queue
    <2>1. report' = report
      BY <1>1, <1>3
    <2> QED BY <1>2, <1>3, <2>1 DEF Contract!vars
  <1>4. CASE FirstClaim(s)
    <2>1. report' = [report EXCEPT ![s] = "claimed"]
      BY <1>1, <1>4 DEF FirstClaim
    <2>2. Contract!ReportClaimed(s)
      BY <1>2, <1>4, <2>1 DEF FirstClaim, Contract!ReportClaimed
    <2> QED BY <2>2 DEF Contract!Next
  <1>5. CASE FirstFailure(s)
    <2>1. report' = [report EXCEPT ![s] = "failed"]
      BY <1>1, <1>5 DEF FirstFailure
    <2>2. Contract!ReportFailed(s)
      BY <1>2, <1>5, <2>1 DEF FirstFailure, Contract!ReportFailed
    <2> QED BY <2>2 DEF Contract!Next
  <1>6. CASE OutcomeRead(s)
    <2>1. report' = [report EXCEPT ![s] = IF request[s] = "awarded" THEN "claimed" ELSE "failed"]
      BY <1>1, <1>6 DEF OutcomeRead
    <2>2. Contract!ReportOutcome(s)
      BY <1>2, <1>6, <2>1 DEF OutcomeRead, Contract!ReportOutcome
    <2> QED BY <2>2 DEF Contract!Next
  <1> QED BY <1>3, <1>4, <1>5, <1>6

\* A queued shift has the row its outcome will replace, and what a cycle has
\* still to ask for is in the queue.
QueuedHasRow ==
  /\ checks \subseteq queue
  /\ \A s \in Shifts : s \in queue => RealRows(s) # {}

\* A step that touches neither rows nor queue and asks for no more.
LEMMA QueuedKept ==
  ASSUME QueuedHasRow, claims' = claims, queue' = queue, checks' \subseteq queue
  PROVE  QueuedHasRow'
  BY DEF QueuedHasRow, RealRows

\* Every step keeps the rows of the queue.
LEMMA QueuedStep ==
  ASSUME Dependable, "record" \notin Torn
  PROVE  TypeOK /\ RowBudget /\ QueuedHasRow /\ [Next]_vars => QueuedHasRow'
  <1> SUFFICES ASSUME TypeOK, RowBudget, QueuedHasRow, [Next]_vars PROVE QueuedHasRow'
    OBVIOUS
  <1>0. StoreType /\ ConfigType
    BY TypeParts
  <1>1. CASE Begin
    BY <1>1, QueuedKept DEF Begin, stored
  <1>2. CASE Reconcile
    <2>1. CASE FetchFails
      BY <2>1, QueuedKept DEF FetchFails, Leave, stored
    <2>2. ASSUME NEW s \in Shifts, CheckRaises(s) \/ CheckPending(s) PROVE QueuedHasRow'
      BY <2>2, QueuedKept DEF CheckRaises, CheckPending, Checked, stored, QueuedHasRow
    <2>3. ASSUME NEW s \in Shifts, NEW o \in Outcomes, NEW n \in Cut("settle", 2), CheckDecided(s, o, n)
          PROVE  QueuedHasRow'
      <3>1. /\ (claims' = claims \/ claims' = ReplaceOutcome(s, o))
            /\ \/ queue' = queue /\ checks' = {}
               \/ queue' = queue \ {s} /\ checks' = checks \ {s}
        BY <2>3, CutRange DEF CheckDecided, Settle, Ends, Checked, Leave
      <3>2. \A i, j \in RealRows(s) : i = j
        BY OneRow DEF Dependable
      <3>3. \A t \in Shifts : RealRows(t)' = RealRows(t)
        BY <1>0, <3>1, <3>2, ReplacedRow DEF RealRows
      <3> QED BY <3>1, <3>3 DEF QueuedHasRow
    <2> QED BY <1>2, <2>1, <2>2, <2>3 DEF Reconcile
  <1>3. CASE Fetch
    BY <1>3, QueuedKept DEF Fetch, Classify, stored, QueuedHasRow
  <1>4. CASE Alerts
    BY <1>4, QueuedKept DEF Alerts, AlertsDone, AlertSeen, Alert, stored, locals, lists, QueuedHasRow
  <1>5. CASE Act
    <2>1. CASE ActDone \/ DryClaim \/ (\E s \in Shifts : Skip(s) \/ Offer(s)) \/ (\E yes \in BOOLEAN : Answer(yes))
      BY <2>1, QueuedKept DEF ActDone, DryClaim, Skip, Offer, Answer, Leave, stored, lists, QueuedHasRow
    <2>2. ASSUME NEW o \in Outcomes, NEW taken \in BOOLEAN, Submit(o, taken) \/ SubmitRaises(taken)
          PROVE  QueuedHasRow'
      BY <2>2, QueuedKept DEF Submit, SubmitRaises, Leave, stored, lists, QueuedHasRow
    <2>3. ASSUME NEW n \in Cut("record", RecordWrites), Record(n) PROVE QueuedHasRow'
      <3>0. PICK c \in Shifts : c = cur
        BY <2>3 DEF Record, TypeOK
      <3>1. /\ res \in Outcomes /\ InHand(c)
            /\ queue' = (IF n >= 2 THEN queue \cup {c} ELSE queue)
            /\ claims' = (IF n >= 1 THEN RecordClaim(c, res) ELSE claims)
            /\ (checks' = checks \/ checks' = {})
        BY <2>3, <3>0 DEF Record, MarkPending, TypeOK, InHand, Ends, AfterClaim, Leave, lists
      <3>2. n = 0 \/ n = RecordWrites
        BY DEF Cut
      <3>3. RealRows(c) = {}
        BY <3>1, OneRow DEF Dependable
      <3>4. CASE n = 0
        <4>1. claims' = claims /\ queue' = queue /\ checks' \subseteq queue
          BY <3>1, <3>4 DEF QueuedHasRow
        <4> QED BY <4>1, QueuedKept
      <3>5. CASE n = RecordWrites
        <4>1. claims' = [claims EXCEPT ![c] = Append(@, [outcome |-> res, dry |-> dry])]
          BY <3>1, <3>3, <3>5 DEF RecordWrites, RecordClaim, AlreadyClaimed, RealRows
        <4>2. \A t \in Shifts \ {c} : claims'[t] = claims[t] /\ RealRows(t)' = RealRows(t)
          BY <1>0, <4>1 DEF StoreType, RealRows
        <4>3. c \notin queue
          BY <3>3 DEF QueuedHasRow
        <4>4. CASE res = "claimed" /\ ~dry
          <5>1. claims' = [claims EXCEPT ![c] = Append(@, [outcome |-> res, dry |-> FALSE])]
            BY <1>0, <4>1, <4>4 DEF ConfigType
          <5>2. RealRows(c)' # {}
            BY <1>0, <3>1, <3>3, <5>1, FirstRealRow
          <5> QED BY <3>1, <4>2, <5>2 DEF QueuedHasRow
        <4>5. CASE ~(res = "claimed" /\ ~dry)
          <5>1. queue' = queue
            BY <3>1, <3>5, <4>5 DEF RecordWrites
          <5> QED BY <3>1, <4>2, <4>3, <5>1 DEF QueuedHasRow
        <4> QED BY <4>4, <4>5
      <3> QED BY <3>2, <3>4, <3>5
    <2> QED BY <1>5, <2>1, <2>2, <2>3 DEF Act, Outcomes
  <1>6. CASE Environment
    BY <1>6, QueuedKept DEF Environment, Kill, Decide, Restart, Leave, stored, locals, lists, QueuedHasRow
  <1>7. CASE UNCHANGED vars
    BY <1>7, QueuedKept DEF vars, stored, locals, lists, QueuedHasRow
  <1> QED BY <1>1, <1>2, <1>3, <1>4, <1>5, <1>6, <1>7 DEF Next

\* Every step of the cycle is one of the contract's, or none.
LEMMA ContractStep ==
  ASSUME Dependable, "record" \notin Torn
  PROVE  TypeOK /\ SubmitBudget /\ RowBudget /\ RowTruth /\ QueuedHasRow /\ [Next]_vars
           => [Contract!Next]_Contract!vars
  <1> SUFFICES ASSUME TypeOK, SubmitBudget, RowBudget, RowTruth, QueuedHasRow, [Next]_vars
               PROVE  [Contract!Next]_Contract!vars
    OBVIOUS
  <1>0. /\ submits \in [Shifts -> Nat] /\ request \in [Shifts -> Requests]
        /\ StoreType /\ ConfigType
    BY TypeParts DEF TypeOK
  <1>1. CASE Begin
    BY <1>1, ContractStutters DEF Begin, stored, history, config
  <1>2. CASE Reconcile
    <2>1. CASE FetchFails
      BY <2>1, ContractStutters DEF FetchFails, stored, history, config
    <2>2. ASSUME NEW s \in Shifts, CheckRaises(s) \/ CheckPending(s) PROVE [Contract!Next]_Contract!vars
      BY <2>2, ContractStutters DEF CheckRaises, CheckPending, stored, history, config
    <2>3. ASSUME NEW s \in Shifts, NEW o \in Outcomes, NEW n \in Cut("settle", 2), CheckDecided(s, o, n)
          PROVE  [Contract!Next]_Contract!vars
      <3>1. /\ offered' = offered /\ request' = request /\ submits' = submits /\ deferred' = deferred
            /\ deferred /\ o \in Decided(s) /\ s \in queue /\ n \in Nat
            /\ claims' = (IF n >= 1 THEN ReplaceOutcome(s, o) ELSE claims)
            /\ queue' = (IF n >= 2 THEN queue \ {s} ELSE queue)
        BY <2>3, CutRange DEF CheckDecided, Settle, Answers, config, Dependable, QueuedHasRow
      <3>2. CASE ~(n >= 1)
        <4>1. claims' = claims /\ queue' = queue
          BY <3>1, <3>2
        <4> QED BY <3>1, <4>1, ContractStutters
      <3>3. CASE n >= 1
        <4>1. \A i, j \in RealRows(s) : i = j
          BY OneRow DEF Dependable
        <4>2. /\ \A t \in Shifts \ {s} : claims'[t] = claims[t]
              /\ RealRows(s)' = RealRows(s)
              /\ \A i \in RealRows(s) : claims'[s][i].outcome = o
          BY <1>0, <3>1, <3>3, <4>1, ReplacedRow
        <4>3. PICK i \in RealRows(s) : RealRows(s) = {i}
          BY <3>1, <4>1 DEF QueuedHasRow
        <4>4. i \in Nat
          <5>1. claims[s] \in Seq(Row)
            BY DEF TypeOK
          <5> QED BY <4>3, <5>1 DEF RealRows
        <4>5. Reported(s)' = IF o = "claimed" THEN "claimed" ELSE "failed"
          <5>1. RealRows(s)' = {i} /\ claims'[s][i].outcome = o
            BY <4>2, <4>3
          <5> QED BY <4>4, <5>1, ReportOneAfter
        <4>6. request[s] # "pending" /\ (o = "claimed" <=> request[s] = "awarded")
          BY <1>0, <3>1 DEF Decided, Requests
        <4>7. OutcomeRead(s)
          BY <3>1, <4>5, <4>6 DEF OutcomeRead
        <4> QED BY <3>1, <4>2, <4>7, ContractReports
      <3> QED BY <3>2, <3>3
    <2> QED BY <1>2, <2>1, <2>2, <2>3 DEF Reconcile
  <1>3. CASE Fetch
    BY <1>3, ContractStutters DEF Fetch, Classify, stored, history, config
  <1>4. CASE Alerts
    <2>1. CASE AlertsDone \/ \E s \in Shifts : AlertSeen(s)
      BY <2>1, ContractStutters DEF AlertsDone, AlertSeen, stored, history, config
    <2>2. ASSUME NEW s \in Shifts, Alert(s) PROVE [Contract!Next]_Contract!vars
      BY <2>2, ContractPresents DEF Alert, MarkOffered, config
    <2> QED BY <1>4, <2>1, <2>2 DEF Alerts
  <1>5. CASE Act
    <2>1. CASE ActDone \/ DryClaim \/ (\E s \in Shifts : Skip(s)) \/ (\E yes \in BOOLEAN : Answer(yes))
      BY <2>1, ContractStutters DEF ActDone, DryClaim, Skip, Answer, stored, history, config
    <2>2. ASSUME NEW s \in Shifts, Offer(s) PROVE [Contract!Next]_Contract!vars
      BY <2>2, ContractPresents DEF Offer, MarkOffered, config
    <2>3. ASSUME NEW o \in Outcomes, NEW taken \in BOOLEAN, Submit(o, taken) \/ SubmitRaises(taken)
          PROVE  [Contract!Next]_Contract!vars
      <3>0. PICK c \in Shifts : c = cur
        BY <2>3 DEF Submit, SubmitRaises, TypeOK
      <3>1. /\ pc = "submit" /\ claims' = claims /\ offered' = offered /\ queue' = queue
            /\ deferred' = deferred
            /\ submits' = [submits EXCEPT ![c] = @ + 1]
        BY <2>3, <3>0 DEF Submit, SubmitRaises, Reaches, stored, config
      <3>2. submits[c] = 0 /\ request[c] = "none" /\ c \in offered
        BY <3>0, <3>1, FirstSubmission DEF RowTruth, SubmitBudget, Deciding, Dependable
      <3>3. request' \in {request, [request EXCEPT ![c] = IF deferred THEN "pending" ELSE "awarded"]}
        BY <2>3, <3>0 DEF Submit, SubmitRaises, Reaches
      <3>4. PICK r \in {"none", IF deferred THEN "pending" ELSE "awarded"} : request' = [request EXCEPT ![c] = r]
        <4>1. request = [request EXCEPT ![c] = "none"]
          BY <1>0, <3>2
        <4> QED BY <3>3, <4>1
      <3>5. [t \in Shifts |-> Reported(t)]' = [t \in Shifts |-> Reported(t)]
        <4>1. \A t \in Shifts : Reported(t)' = Reported(t)
          BY <3>1, ReportSame
        <4> QED BY <4>1
      <3>6. {t \in Shifts : submits[t] > 0}' = {t \in Shifts : submits[t] > 0} \cup {c}
        <4>1. \A t \in Shifts : submits'[t] > 0 <=> submits[t] > 0 \/ t = c
          BY <1>0, <3>1, <3>2
        <4> QED BY <4>1
      <3>7. c \notin {t \in Shifts : submits[t] > 0}
        BY <3>2
      <3>8. Contract!Request(c)
        BY <3>1, <3>2, <3>4, <3>5, <3>6, <3>7 DEF Contract!Request
      <3> QED BY <3>8 DEF Contract!Next
    <2>4. ASSUME NEW n \in Cut("record", RecordWrites), Record(n) PROVE [Contract!Next]_Contract!vars
      <3>0. PICK c \in Shifts : c = cur
        BY <2>4 DEF Record, TypeOK
      <3>1. /\ pc = "record" /\ res \in Outcomes /\ InHand(c)
            /\ offered' = offered /\ request' = request /\ submits' = submits /\ deferred' = deferred
            /\ claims' = (IF n >= 1 THEN RecordClaim(c, res) ELSE claims)
            /\ queue' = (IF n >= 2 THEN queue \cup {c} ELSE queue)
        BY <2>4, <3>0 DEF Record, MarkPending, TypeOK, InHand, config
      <3>2. n = 0 \/ n = RecordWrites
        BY DEF Cut
      <3>3. CASE n = 0
        BY <3>1, <3>3, ContractStutters
      <3>4. CASE n = RecordWrites
        <4>1. RealRows(c) = {}
          BY <3>1, OneRow DEF Dependable
        <4>2. claims' = [claims EXCEPT ![c] = Append(@, [outcome |-> res, dry |-> dry])]
          BY <3>1, <3>4, <4>1 DEF RecordWrites, RecordClaim, AlreadyClaimed, RealRows
        <4>3. \A t \in Shifts \ {c} : claims'[t] = claims[t]
          BY <1>0, <4>2 DEF StoreType
        <4>4. Reported(c) = "none"
          BY <4>1 DEF Reported
        <4>5. CASE dry
          <5>1. claims' = [claims EXCEPT ![c] = Append(@, [outcome |-> res, dry |-> TRUE])]
            BY <1>0, <4>2, <4>5 DEF ConfigType
          <5>2. RealRows(c)' = {}
            BY <1>0, <3>1, <4>1, <5>1, DryRow
          <5>3. Reported(c)' = "none" /\ queue' = queue
            BY <3>1, <3>4, <4>5, <5>2 DEF Reported, RecordWrites
          <5> QED BY <3>1, <4>3, <4>4, <5>3, ContractReports
        <4>6. CASE ~dry
          <5>1. claims' = [claims EXCEPT ![c] = Append(@, [outcome |-> res, dry |-> FALSE])]
            BY <1>0, <4>2, <4>6 DEF ConfigType
          <5>2. /\ RealRows(c)' = {Len(claims[c]) + 1}
                /\ claims'[c][Len(claims[c]) + 1].outcome = res
            BY <1>0, <3>1, <4>1, <5>1, FirstRealRow
          <5>3. Len(claims[c]) + 1 \in Nat
            BY RowCounts
          <5>4. Reported(c)' = IF res = "claimed" THEN "claimed" ELSE "failed"
            <6> DEFINE k == Len(claims[c]) + 1
            <6>1. RealRows(c)' = {k} /\ claims'[c][k].outcome = res /\ k \in Nat
              BY <5>2, <5>3
            <6>2. PICK i \in Nat : i = k
              BY <6>1
            <6>3. RealRows(c)' = {i} /\ claims'[c][i].outcome = res
              BY <6>1, <6>2
            <6> QED BY <6>3, ReportOneAfter
          <5>5. /\ submits[c] > 0 /\ (res # "claimed" => request[c] = "none")
                /\ (res = "claimed" => deferred \/ request[c] = "awarded")
            BY <1>0, <3>0, <3>1, <4>6 DEF RowTruth, Recording
          <5>6. queue' = IF res = "claimed" THEN queue \cup {c} ELSE queue
            BY <3>1, <3>4, <4>6 DEF RecordWrites
          <5>7. FirstClaim(c) \/ FirstFailure(c)
            BY <4>4, <5>4, <5>5, <5>6 DEF FirstClaim, FirstFailure
          <5> QED BY <3>1, <4>3, <5>7, ContractReports
        <4> QED BY <4>5, <4>6
      <3> QED BY <3>2, <3>3, <3>4
    <2> QED BY <1>5, <2>1, <2>2, <2>3, <2>4 DEF Act, Outcomes
  <1>6. CASE Environment
    <2>1. CASE Kill \/ (\E m \in Modes, d \in DryRuns : Restart(m, d))
      BY <2>1, ContractStutters DEF Kill, Restart, stored, history, config
    <2>2. ASSUME NEW s \in Shifts, NEW r \in Requests, Decide(s, r) PROVE [Contract!Next]_Contract!vars
      <3>1. /\ claims' = claims /\ submits' = submits /\ offered' = offered /\ queue' = queue
            /\ deferred' = deferred /\ request[s] = "pending" /\ r \in {"awarded", "denied"}
            /\ request' = [request EXCEPT ![s] = r]
        BY <2>2 DEF Decide, stored, config, history
      <3>2. [t \in Shifts |-> Reported(t)]' = [t \in Shifts |-> Reported(t)]
        <4>1. \A t \in Shifts : Reported(t)' = Reported(t)
          BY <3>1, ReportSame
        <4> QED BY <4>1
      <3>3. {t \in Shifts : submits[t] > 0}' = {t \in Shifts : submits[t] > 0}
        BY <3>1
      <3>4. Contract!Decide(s)
        BY <3>1, <3>2, <3>3 DEF Contract!Decide
      <3> QED BY <3>4 DEF Contract!Next
    <2> QED BY <1>6, <2>1, <2>2 DEF Environment
  <1>7. CASE UNCHANGED vars
    BY <1>7, ContractStutters DEF vars, stored, history, config
  <1> QED BY <1>1, <1>2, <1>3, <1>4, <1>5, <1>6, <1>7 DEF Next

\* The cycle implements ClaimContract: a shift is presented before it is
\* requested, requested once, and reported as the portal holds it or with its
\* outcome still awaited - also where claim() answered "claimed" and the portal
\* took nothing - whatever kills strike in between, but for one between the
\* two writes that record a claim (poller.py:268-289, 428-469).
THEOREM KeepsContract ==
  ASSUME Dependable, "record" \notin Torn PROVE Spec => ImplementsContract
  <1>1. Init => Contract!Init
    <2> SUFFICES ASSUME Init PROVE Contract!Init
      OBVIOUS
    <2>1. \A s \in Shifts : claims[s] = <<>> /\ submits[s] = 0
      BY DEF Init, Zero
    <2>2. DOMAIN <<>> = {}
      OBVIOUS
    <2>3. \A s \in Shifts : Reported(s) = "none"
      BY <2>1, <2>2 DEF Reported, RealRows
    <2>4. {s \in Shifts : submits[s] > 0} = {}
      BY <2>1
    <2> QED BY <2>3, <2>4 DEF Contract!Init, Init
  <1>2. Init => QueuedHasRow
    BY DEF Init, QueuedHasRow
  <1> QED BY <1>1, <1>2, ContractStep, QueuedStep, TypeCorrect, BudgetInvariant, RowInvariant,
             TruthInvariant, PTL DEF Spec, ImplementsContract, Contract!Spec

-----------------------------------------------------------------------------
(* The dashboard and the calendar feed                                     *)

\* A row that only a dry run wrote is that of a shift nobody asked for.
Simulated(s) == pc = "record" /\ cur = s /\ dry
DryRowsUnasked ==
  \A s \in Shifts : (claims[s] # <<>> /\ RealRows(s) = {}) \/ Simulated(s) => submits[s] = 0

\* A step that touches no row, submits nothing and does not come to record.
LEMMA DryKept ==
  ASSUME DryRowsUnasked, claims' = claims, submits' = submits,
         \A s \in Shifts : Simulated(s)' => Simulated(s)
  PROVE  DryRowsUnasked'
  BY DEF DryRowsUnasked, RealRows

\* Every step keeps simulated shifts unasked.
LEMMA DryStep ==
  ASSUME Dependable
  PROVE  TypeOK /\ SubmitBudget /\ RowBudget /\ DryRowsUnasked /\ [Next]_vars => DryRowsUnasked'
  <1> SUFFICES ASSUME TypeOK, SubmitBudget, RowBudget, DryRowsUnasked, [Next]_vars
               PROVE  DryRowsUnasked'
    OBVIOUS
  <1>0. submits \in [Shifts -> Nat] /\ StoreType /\ ConfigType
    BY TypeParts DEF TypeOK
  <1>1. CASE Begin
    BY <1>1, DryKept DEF Begin, stored, history, Simulated
  <1>2. CASE Reconcile
    <2>1. CASE FetchFails
      BY <2>1, DryKept DEF FetchFails, Leave, stored, history, Simulated
    <2>2. ASSUME NEW s \in Shifts, CheckRaises(s) \/ CheckPending(s) PROVE DryRowsUnasked'
      BY <2>2, DryKept DEF CheckRaises, CheckPending, Checked, stored, history, Simulated
    <2>3. ASSUME NEW s \in Shifts, NEW o \in Outcomes, NEW n \in Cut("settle", 2), CheckDecided(s, o, n)
          PROVE  DryRowsUnasked'
      <3>1. /\ submits' = submits /\ pc' # "record"
            /\ (claims' = claims \/ claims' = ReplaceOutcome(s, o))
        BY <2>3 DEF CheckDecided, Settle, Ends, Checked, Leave
      <3>2. CASE claims' = claims
        BY <3>1, <3>2, DryKept DEF Simulated
      <3>3. CASE claims' = ReplaceOutcome(s, o)
        <4>1. \A i, j \in RealRows(s) : i = j
          BY OneRow DEF Dependable
        <4>2. /\ \A t \in Shifts \ {s} : claims'[t] = claims[t]
              /\ RealRows(s)' = RealRows(s)
          BY <1>0, <3>3, <4>1, ReplacedRow
        <4>3. RealRows(s) = {} => claims' = claims
          BY <3>3 DEF ReplaceOutcome
        <4>4. \A t \in Shifts \ {s} : RealRows(t)' = RealRows(t)
          BY <4>2 DEF RealRows
        <4> QED BY <3>1, <4>2, <4>3, <4>4 DEF DryRowsUnasked, Simulated
      <3> QED BY <3>1, <3>2, <3>3
    <2> QED BY <1>2, <2>1, <2>2, <2>3 DEF Reconcile
  <1>3. CASE Fetch
    BY <1>3, DryKept DEF Fetch, Classify, stored, history, Simulated
  <1>4. CASE Alerts
    BY <1>4, DryKept
    DEF Alerts, AlertsDone, AlertSeen, Alert, stored, locals, history, Simulated
  <1>5. CASE Act
    <2>1. CASE ActDone
      BY <2>1, DryKept DEF ActDone, Leave, stored, history, Simulated
    <2>2. CASE DryClaim
      <3>1. cur \in Shifts /\ submits[cur] = 0
        BY <2>2, FirstSubmission DEF DryClaim, Dependable
      <3>2. /\ claims' = claims /\ submits' = submits /\ cur' = cur
        BY <2>2 DEF DryClaim, stored, history
      <3>3. \A t \in Shifts : RealRows(t)' = RealRows(t)
        BY <3>2 DEF RealRows
      <3> QED BY <3>1, <3>2, <3>3 DEF DryRowsUnasked, Simulated
    <2>3. ASSUME NEW s \in Shifts, Skip(s) \/ Offer(s) PROVE DryRowsUnasked'
      <3>1. pc' # "record"
        BY <1>0, <2>3 DEF Skip, Offer, Ask, ConfigType
      <3> QED BY <2>3, <3>1, DryKept DEF Skip, Offer, stored, history, Simulated
    <2>4. ASSUME NEW yes \in BOOLEAN, Answer(yes) PROVE DryRowsUnasked'
      BY <2>4, DryKept DEF Answer, stored, Simulated
    <2>5. ASSUME NEW o \in Outcomes, NEW taken \in BOOLEAN, Submit(o, taken) \/ SubmitRaises(taken)
          PROVE  DryRowsUnasked'
      <3>0. PICK c \in Shifts : c = cur
        BY <2>5 DEF Submit, SubmitRaises, TypeOK
      <3>1. claims[c] = <<>>
        BY <2>5, <3>0, OneRow DEF Submit, SubmitRaises, InHand, Dependable
      <3>2. /\ claims' = claims /\ submits' = [submits EXCEPT ![c] = @ + 1] /\ ~(\E t \in Shifts : Simulated(t)')
        BY <2>5, <3>0 DEF Submit, SubmitRaises, Reaches, Leave, stored, config, Simulated
      <3>3. \A t \in Shifts \ {c} : submits'[t] = submits[t]
        BY <1>0, <3>2
      <3>4. \A t \in Shifts : RealRows(t)' = RealRows(t)
        BY <3>2 DEF RealRows
      <3> QED BY <3>1, <3>2, <3>3, <3>4 DEF DryRowsUnasked
    <2>6. ASSUME NEW n \in Cut("record", RecordWrites), Record(n) PROVE DryRowsUnasked'
      <3>0. PICK c \in Shifts : c = cur
        BY <2>6 DEF Record, TypeOK
      <3>1. /\ pc = "record" /\ res \in Outcomes /\ InHand(c) /\ submits' = submits /\ pc' # "record"
            /\ (claims' = claims \/ claims' = RecordClaim(c, res))
        BY <2>6, <3>0 DEF Record, TypeOK, InHand, Ends, AfterClaim, Leave
      <3>2. CASE claims' = claims
        BY <3>1, <3>2, DryKept DEF Simulated
      <3>3. CASE claims' = [claims EXCEPT ![c] = Append(@, [outcome |-> res, dry |-> dry])]
        <4>1. RealRows(c) = {}
          BY <3>1, OneRow DEF Dependable
        <4>2. \A t \in Shifts \ {c} : claims'[t] = claims[t] /\ RealRows(t)' = RealRows(t)
          BY <1>0, <3>3 DEF StoreType, RealRows
        <4>3. CASE dry
          <5>1. submits[c] = 0
            BY <3>0, <3>1, <4>3 DEF DryRowsUnasked, Simulated
          <5> QED BY <3>1, <4>2, <5>1 DEF DryRowsUnasked, Simulated
        <4>4. CASE ~dry
          <5>1. claims' = [claims EXCEPT ![c] = Append(@, [outcome |-> res, dry |-> FALSE])]
            BY <1>0, <3>3, <4>4 DEF ConfigType
          <5>2. RealRows(c)' # {}
            BY <1>0, <3>1, <4>1, <5>1, FirstRealRow
          <5> QED BY <3>1, <4>2, <5>2 DEF DryRowsUnasked, Simulated
        <4> QED BY <4>3, <4>4
      <3> QED BY <3>1, <3>2, <3>3 DEF RecordClaim
    <2> QED BY <1>5, <2>1, <2>2, <2>3, <2>4, <2>5, <2>6 DEF Act, Outcomes
  <1>6. CASE Environment
    <2>1. CASE Kill
      BY <2>1, DryKept DEF Kill, Leave, stored, Simulated
    <2>2. ASSUME NEW s \in Shifts, NEW r \in Requests, Decide(s, r) PROVE DryRowsUnasked'
      BY <2>2, DryKept DEF Decide, stored, config, locals, history, Simulated
    <2>3. ASSUME NEW m \in Modes, NEW d \in DryRuns, Restart(m, d) PROVE DryRowsUnasked'
      BY <2>3, DryKept DEF Restart, stored, history, Simulated
    <2> QED BY <1>6, <2>1, <2>2, <2>3 DEF Environment
  <1>7. CASE UNCHANGED vars
    BY <1>7, DryKept DEF vars, stored, config, locals, history, Simulated
  <1> QED BY <1>1, <1>2, <1>3, <1>4, <1>5, <1>6, <1>7 DEF Next

\* Simulated shifts are unasked in every reachable state.
LEMMA DryInvariant == ASSUME Dependable PROVE Spec => []DryRowsUnasked
  <1>1. ASSUME Init PROVE DryRowsUnasked
    BY <1>1 DEF Init, DryRowsUnasked, Simulated, Zero
  <1> QED BY <1>1, DryStep, TypeCorrect, BudgetInvariant, RowInvariant, PTL DEF Spec

-----------------------------------------------------------------------------
\* The row the dashboard shows is the only one there is.
LEMMA LatestRow ==
  ASSUME TypeOK, RowBudget, Dependable, NEW s \in Shifts, HasRow(s)
  PROVE  /\ Latest(s) \in Row /\ Latest(s) = claims[s][1]
         /\ RealRows(s) = IF Latest(s).dry THEN {} ELSE {1}
  <1>1. claims[s] \in Seq(Row)
    BY DEF TypeOK
  <1>2. Len(claims[s]) = 1
    <2>1. Len(claims[s]) # 0
      BY <1>1, EmptySeq DEF HasRow
    <2>2. Len(claims[s]) \in Nat /\ Len(claims[s]) <= 1
      BY <1>1 DEF RowBudget, Dependable
    <2>3. \A n \in Nat : n # 0 /\ n <= 1 => n = 1
      OBVIOUS
    <2> QED BY <2>1, <2>2, <2>3
  <1>3. Latest(s) = claims[s][1] /\ Latest(s) \in Row /\ DOMAIN claims[s] = {1}
    BY <1>1, <1>2 DEF Latest
  <1> QED BY <1>3 DEF RealRows

\* A calendar entry is confirmed only for a shift the portal was asked for and
\* either holds for her or, deciding later, has still to be asked the outcome
\* of, whatever it made of the request; what she was given and the agent
\* recorded is confirmed, and a simulated claim is never more than that, over
\* any number of changes of mode and kills (data.py:127-186, ical.py:76-104).
THEOREM CalendarIsTrue ==
  ASSUME Dependable, "record" \notin Torn PROVE Spec => []CalendarTruth
  <1>1. TypeOK /\ RowBudget /\ RowTruth /\ WaitsInQueue /\ DryRowsUnasked => CalendarTruth
    <2> SUFFICES ASSUME TypeOK, RowBudget, RowTruth, WaitsInQueue, DryRowsUnasked
                 PROVE  CalendarTruth
      OBVIOUS
    <2>1. Metrics.claimed = Cardinality({s \in Shifts : Status(s) = "CONFIRMED"})
      <3>1. \A s \in Shifts : Status(s) = "CONFIRMED" <=> Claimed(s) /\ ~DryRun(s)
        BY DEF Status
      <3>2. {s \in Shifts : Claimed(s) /\ ~DryRun(s)} = {s \in Shifts : Status(s) = "CONFIRMED"}
        BY <3>1
      <3> QED BY <3>2 DEF Metrics
    <2>2. ASSUME NEW s \in Shifts, Status(s) = "CONFIRMED"
          PROVE  submits[s] > 0 /\ (Held(s) \/ (deferred /\ s \in queue))
      <3>1. HasRow(s) /\ Latest(s).outcome = "claimed" /\ ~Latest(s).dry
        BY <2>2 DEF Status, Claimed, DryRun
      <3>2. RealRows(s) = {1} /\ claims[s][1].outcome = "claimed"
        BY <3>1, LatestRow
      <3>3. submits[s] # 0 /\ submits[s] \in Nat
        BY <3>2 DEF RowTruth, TypeOK
      <3>4. request[s] = "awarded" \/ Awaited(s)
        BY <3>2 DEF WaitsInQueue
      <3> QED BY <3>3, <3>4 DEF Held, Awaited
    <2>3. ASSUME NEW s \in Shifts, Held(s), RealRows(s) # {}
          PROVE  Status(s) = "CONFIRMED" /\ Cell(s) = "Claimed"
      <3>1. HasRow(s)
        <4>1. DOMAIN <<>> = {}
          OBVIOUS
        <4> QED BY <2>3, <4>1 DEF HasRow, RealRows
      <3>2. ~Latest(s).dry /\ RealRows(s) = {1} /\ Latest(s) = claims[s][1]
        BY <2>3, <3>1, LatestRow
      <3>3. Latest(s).outcome = "claimed"
        BY <2>3, <3>2 DEF RowTruth, Held
      <3> QED BY <3>1, <3>2, <3>3 DEF Status, Cell, Claimed, DryRun
    <2>4. ASSUME NEW s \in Shifts, Cell(s) = "Claimed (dry run)" PROVE request[s] = "none"
      <3>1. HasRow(s) /\ Latest(s).dry
        BY <2>4 DEF Cell, DryRun
      <3>2. RealRows(s) = {} /\ claims[s] # <<>>
        BY <3>1, LatestRow DEF HasRow
      <3> QED BY <3>2 DEF DryRowsUnasked, RowTruth
    <2> QED BY <2>1, <2>2, <2>3, <2>4 DEF CalendarTruth
  <1> QED BY <1>1, TypeCorrect, RowInvariant, TruthInvariant, QueueInvariant, DryInvariant, PTL

=============================================================================
