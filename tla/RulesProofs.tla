---------------------------- MODULE RulesProofs ----------------------------
(***************************************************************************)
(* Proofs about the parts of MCRules, for every value of their constants:  *)
(* every variable keeps its type; the loop sends one message for an outage *)
(* and one digest for a day, and waits longer the longer it fails; the     *)
(* secret store loses nothing silently; the choice of shifts is final and  *)
(* only for seats she wants; the times of the tables are the ones that     *)
(* were meant.  What is proved of her schedule holds beside them.          *)
(***************************************************************************)
EXTENDS MCRules, ScheduleProofs

USE LoopAssumption, StoreAssumption, ChoiceAssumption

-----------------------------------------------------------------------------
(* Numbers                                                                 *)

\* What is less than twice the divisor goes once at most.
LEMMA SmallQuotient ==
  ASSUME NEW b \in Nat \ {0}, NEW q \in Nat, NEW r \in 0..b - 1, q * b + r < 2 * b
  PROVE  q = 0 \/ q = 1
  <1>1. q >= 2 => q * b >= 2 * b
    OBVIOUS
  <1> QED BY <1>1

\* The larger and the smaller of two numbers.
LEMMA LargerOfTwo ==
  ASSUME NEW a \in Int, NEW b \in Int, NEW m \in {Loop!Max({a, b}), Tables!Max({a, b})}
  PROVE  m \in {a, b} /\ m >= a /\ m >= b
  <1>1. \E x \in {a, b} : \A y \in {a, b} : x >= y
    OBVIOUS
  <1> QED BY <1>1 DEF Loop!Max, Tables!Max
LEMMA SmallerOfTwo ==
  ASSUME NEW a \in Int, NEW b \in Int
  PROVE  Loop!Min({a, b}) \in {a, b} /\ Loop!Min({a, b}) <= a /\ Loop!Min({a, b}) <= b
  <1>1. \E x \in {a, b} : \A y \in {a, b} : x <= y
    OBVIOUS
  <1> QED BY <1>1 DEF Loop!Min

-----------------------------------------------------------------------------
\* A step of the whole is a step of each part, or leaves it alone.
LEMMA LoopAlone == [PartsNext]_partsVars => [Loop!Next]_loopVars
  <1>1. UNCHANGED partsVars => UNCHANGED loopVars
    BY DEF partsVars
  <1>2. ASSUME NEW p \in Parts \ {"loop"}, Runs(p) PROVE UNCHANGED loopVars
    BY <1>2 DEF Runs, Parts
  <1> QED BY <1>1, <1>2 DEF PartsNext, Parts

\* The same of the secret store ...
LEMMA StoreAlone == [PartsNext]_partsVars => [Store!Next]_storeVars
  <1>1. UNCHANGED partsVars => UNCHANGED storeVars
    BY DEF partsVars
  <1>2. ASSUME NEW p \in Parts \ {"store"}, Runs(p) PROVE UNCHANGED storeVars
    BY <1>2 DEF Runs, Parts
  <1> QED BY <1>1, <1>2 DEF PartsNext, Parts

\* ... and of the choice of shifts.
LEMMA ChoiceAlone == [PartsNext]_partsVars => [Choice!Next]_choiceVars
  <1>1. UNCHANGED partsVars => UNCHANGED choiceVars
    BY DEF partsVars
  <1>2. ASSUME NEW p \in Parts \ {"choice"}, Runs(p) PROVE UNCHANGED choiceVars
    BY <1>2 DEF Runs, Parts
  <1> QED BY <1>1, <1>2 DEF PartsNext, Parts

-----------------------------------------------------------------------------
(* The loop                                                                *)

\* The message count follows the failure count; no digest of a day is sent
\* before that day is marked, nor while the send that marked it is under way.
LoopBooks ==
  /\ failures \in Nat /\ alerts = IF failures >= AlertAt THEN 1 ELSE 0
  /\ day \in 1..MaxDays /\ lastDigest \in 0..day
  /\ digests \in [1..MaxDays -> {0, 1}]
  /\ \A d \in 1..MaxDays : d > lastDigest => digests[d] = 0
  /\ loopStage = "sending" => lastDigest # 0 /\ digests[lastDigest] = 0

\* Every step of the loop keeps its books.
LEMMA LoopStep == LoopBooks /\ [Loop!Next]_loopVars => LoopBooks'
  <1> SUFFICES ASSUME LoopBooks, [Loop!Next]_loopVars PROVE LoopBooks'
    OBVIOUS
  <1>1. ASSUME Loop!Launch \/ Loop!Complete PROVE LoopBooks'
    BY <1>1 DEF Loop!Launch, Loop!Complete, LoopBooks
  <1>2. ASSUME Loop!Kill PROVE LoopBooks'
    BY <1>2 DEF Loop!Kill, LoopBooks
  <1>3. ASSUME Loop!Skip \/ Loop!Enter \/ Loop!NoDigest \/ Loop!Wake PROVE LoopBooks'
    BY <1>3 DEF Loop!Skip, Loop!Enter, Loop!NoDigest, Loop!Wake, Loop!Rest, LoopBooks
  <1>4. ASSUME Loop!Fail PROVE LoopBooks'
    <2>1. /\ failures' = failures + 1 /\ loopStage' \in {"asleep", "ended"}
          /\ alerts' = alerts + IF failures + 1 = AlertAt THEN 1 ELSE 0
          /\ UNCHANGED <<day, lastDigest, digests>>
      BY <1>4 DEF Loop!Fail, Loop!MessageAt, Loop!Rest
    <2>2. failures \in Nat /\ alerts = IF failures >= AlertAt THEN 1 ELSE 0
      BY DEF LoopBooks
    <2>3. failures' \in Nat /\ alerts' = IF failures' >= AlertAt THEN 1 ELSE 0
      BY <2>1, <2>2
    <2> QED BY <2>1, <2>3 DEF LoopBooks
  <1>5. ASSUME Loop!MarkDigest PROVE LoopBooks'
    <2>1. /\ loopStage' = "sending" /\ lastDigest # day /\ lastDigest' = day
          /\ UNCHANGED <<failures, alerts, day, digests>>
      BY <1>5 DEF Loop!MarkDigest, Loop!DigestDue
    <2>2. day \in 1..MaxDays /\ day > lastDigest /\ digests[day] = 0
      BY <2>1 DEF LoopBooks
    <2>3. \A d \in 1..MaxDays : d > day => digests[d] = 0
      BY <2>2 DEF LoopBooks
    <2> QED BY <2>1, <2>2, <2>3 DEF LoopBooks
  <1>6. ASSUME Loop!SendDigest PROVE LoopBooks'
    <2>1. /\ loopStage = "sending" /\ loopStage' \in {"asleep", "ended"}
          /\ digests' = [digests EXCEPT ![lastDigest] = @ + 1]
          /\ UNCHANGED <<failures, alerts, day, lastDigest>>
      BY <1>6 DEF Loop!SendDigest, Loop!Rest
    <2>2. lastDigest \in 1..MaxDays /\ digests[lastDigest] = 0 /\ digests \in [1..MaxDays -> {0, 1}]
      BY <2>1 DEF LoopBooks
    <2>3. digests' = [digests EXCEPT ![lastDigest] = 1]
      BY <2>1, <2>2
    <2>4. digests' \in [1..MaxDays -> {0, 1}]
      BY <2>2, <2>3
    <2>5. \A d \in 1..MaxDays : d > lastDigest => digests'[d] = 0
      BY <2>2, <2>3 DEF LoopBooks
    <2> QED BY <2>1, <2>4, <2>5 DEF LoopBooks
  <1>7. ASSUME Loop!SetPaused PROVE LoopBooks'
    BY <1>7 DEF Loop!SetPaused, LoopBooks
  <1>8. ASSUME Loop!Clock PROVE LoopBooks'
    <2>1. /\ day' \in {day, day + 1} /\ (day' # day => day < MaxDays)
          /\ UNCHANGED <<loopStage, failures, alerts, lastDigest, digests>>
      BY <1>8 DEF Loop!Clock
    <2>2. day' \in 1..MaxDays /\ lastDigest' \in 0..day'
      BY <2>1 DEF LoopBooks
    <2> QED BY <2>1, <2>2 DEF LoopBooks
  <1>9. ASSUME UNCHANGED loopVars PROVE LoopBooks'
    BY <1>9 DEF loopVars, LoopBooks
  <1> QED
    BY <1>1, <1>2, <1>3, <1>4, <1>5, <1>6, <1>7, <1>8, <1>9 DEF Loop!Next, Loop!Loop

\* One message for an outage and one digest for a day, for any number of
\* failures, days, kills and pauses (poller.py:316-345, 526-539).
THEOREM MessagesAreSingle == PartsSpec => []OneMessageEach
  <1>1. PartsInit => LoopBooks
    BY DEF PartsInit, Loop!Init, Loop!Days, LoopBooks
  <1>2. LoopBooks => OneMessageEach
    BY DEF LoopBooks, OneMessageEach, Loop!OneMessageEach, Loop!Days
  <1> QED BY <1>1, <1>2, LoopAlone, LoopStep, PTL DEF PartsSpec

\* Powers of two, counted as the subsets of a set.
LEMMA PowersOfTwo ==
  \A n \in Nat : 2^n \in Nat /\ (n > 0 => 2^n >= 2) /\ \A m \in 0..n : 2^m <= 2^n
  <1> DEFINE Sets(n) == SUBSET (1..n)
  <1>1. \A n \in Nat : IsFiniteSet(1..n) /\ Cardinality(1..n) = n
    BY FS_Interval
  <1>2. \A n \in Nat : IsFiniteSet(Sets(n)) /\ Cardinality(Sets(n)) = 2^n
    BY <1>1, FS_SUBSET
  <1>3. \A n \in Nat : 2^n \in Nat
    BY <1>2, FS_CardinalityType
  <1>4. ASSUME NEW n \in Nat, NEW m \in 0..n PROVE 2^m <= 2^n
    <2>1. Sets(m) \in SUBSET Sets(n)
      OBVIOUS
    <2> HIDE DEF Sets
    <2>2. Cardinality(Sets(m)) <= Cardinality(Sets(n))
      BY <2>1, <1>2, FS_Subset
    <2> QED BY <2>2, <1>2
  <1>5. ASSUME NEW n \in Nat, n > 0 PROVE 2^n >= 2
    <2>1. {{}, {1}} \in SUBSET Sets(n)
      BY <1>5
    <2>2. Cardinality({{}, {1}}) = 2
      <3>1. IsFiniteSet({{}}) /\ Cardinality({{}}) = 1
        BY FS_Singleton
      <3>2. {{}} \cup {{1}} = {{}, {1}} /\ {1} \notin {{}}
        OBVIOUS
      <3>3. Cardinality({{}} \cup {{1}}) = Cardinality({{}}) + 1
        BY <3>1, <3>2, FS_AddElement
      <3>4. Cardinality({{}, {1}}) = 1 + 1
        BY <3>1, <3>2, <3>3, Zenon
      <3> QED BY <3>4
    <2> HIDE DEF Sets
    <2>3. Cardinality({{}, {1}}) <= Cardinality(Sets(n))
      BY <2>1, <1>2, FS_Subset
    <2> QED BY <2>2, <2>3, <1>2
  <1> QED BY <1>3, <1>4, <1>5

\* The settings the validators let through.
LEMMA PollType ==
  ASSUME poll \in Polls
  PROVE  poll.interval \in Nat /\ poll.interval >= 1 /\ poll.jitter \in Nat /\ poll.jitter <= poll.interval
         /\ MaxBackoff \in Nat /\ MaxBackoff >= 1
  BY PollAssumption

\* What the loop may sleep after n failures, and what when all is well.
LEMMA DelayAfterFailures ==
  ASSUME poll \in Polls, NEW n \in Nat, n > 0
  PROVE  \E d \in Nat : /\ Loop!Delays(n) = {d} /\ d >= 1
                        /\ (d = poll.interval * 2^n \/ d = MaxBackoff)
                        /\ d <= poll.interval * 2^n /\ d <= MaxBackoff
  <1> DEFINE b == poll.interval * 2^n
  <1>1. 2^n \in Nat /\ 2^n >= 2
    BY PowersOfTwo
  <1>2. b \in Nat /\ b >= 1
    BY <1>1, PollType
  <1>3. Loop!Delays(n) = {Loop!Min({b, MaxBackoff})}
    BY DEF Loop!Delays
  <1> HIDE DEF b
  <1>4. b \in Int /\ MaxBackoff \in Int
    BY <1>2, PollType
  <1>5. /\ Loop!Min({b, MaxBackoff}) \in {b, MaxBackoff}
        /\ Loop!Min({b, MaxBackoff}) <= b /\ Loop!Min({b, MaxBackoff}) <= MaxBackoff
    BY <1>4, SmallerOfTwo
  <1> QED BY <1>2, <1>3, <1>5, PollType DEF b

LEMMA HealthyDelay ==
  ASSUME poll \in Polls, NEW d \in Loop!Delays(0)
  PROVE  d \in Nat /\ d >= 1 /\ d <= poll.interval + poll.jitter
  <1>0. Loop!Delays(0) = {Loop!Max({1, poll.interval + j}) : j \in Loop!Jitters}
    BY DEF Loop!Delays
  <1>1. PICK j \in Loop!Jitters : d = Loop!Max({1, poll.interval + j})
    BY <1>0
  <1>2. j \in Int /\ j <= poll.jitter
    BY PollType DEF Loop!Jitters
  <1>3. 1 \in Int /\ poll.interval + j \in Int
    BY <1>2, PollType
  <1>4. d \in {1, poll.interval + j} /\ d >= 1
    BY <1>1, <1>3, LargerOfTwo
  <1> QED BY <1>2, <1>4, PollType

\* The loop sleeps what its failures call for, while a float holds the power
\* of two, and has ended by itself at the first that none holds.
DelayBooks ==
  /\ poll \in Polls /\ failures \in Nat
  /\ loopStage = "asleep" => delay \in Loop!Delays(failures)
  /\ loopStage # "ended" => failures < MaxExponent
  /\ loopStage = "ended" => failures = MaxExponent

\* Every step of the loop keeps to that.
LEMMA DelayStep == DelayBooks /\ [Loop!Next]_loopVars => DelayBooks'
  <1> SUFFICES ASSUME DelayBooks, [Loop!Next]_loopVars PROVE DelayBooks'
    OBVIOUS
  <1>1. poll' = poll
    BY DEF Loop!Next, Loop!Loop, Loop!Launch, Loop!Skip, Loop!Enter, Loop!Fail, Loop!Complete,
           Loop!NoDigest, Loop!MarkDigest, Loop!SendDigest, Loop!Wake, Loop!Kill, Loop!SetPaused,
           Loop!Clock, loopVars
  <1>2. \A n : Loop!Delays(n)' = Loop!Delays(n)
    BY <1>1 DEF Loop!Delays, Loop!Jitters
  <1>3. ASSUME NEW n \in 0..MaxExponent, Loop!Rest(n), failures' = n PROVE DelayBooks'
    <2>1. poll' \in Polls /\ failures' \in Nat
      BY <1>1, <1>3 DEF DelayBooks
    <2>2. CASE n < MaxExponent /\ loopStage' = "asleep" /\ delay' \in Loop!Delays(n)
      BY <1>2, <1>3, <2>1, <2>2 DEF DelayBooks
    <2>3. CASE n >= MaxExponent /\ loopStage' = "ended" /\ delay' = delay
      BY <1>3, <2>1, <2>3, PollAssumption DEF DelayBooks
    <2> QED BY <1>3, <2>2, <2>3 DEF Loop!Rest
  <1>4. ASSUME Loop!Skip \/ Loop!NoDigest \/ Loop!SendDigest PROVE DelayBooks'
    <2>1. Loop!Rest(failures) /\ failures' = failures /\ loopStage # "ended"
      BY <1>4 DEF Loop!Skip, Loop!NoDigest, Loop!SendDigest
    <2> QED BY <1>3, <2>1, PollAssumption DEF DelayBooks
  <1>5. ASSUME Loop!Fail PROVE DelayBooks'
    <2>1. failures' = failures + 1 /\ Loop!Rest(failures') /\ loopStage # "ended"
      BY <1>5 DEF Loop!Fail, Loop!Working
    <2> QED BY <1>3, <2>1, PollAssumption DEF DelayBooks
  <1>6. ASSUME Loop!Launch \/ Loop!Enter \/ Loop!Complete \/ Loop!MarkDigest \/ Loop!Wake \/ Loop!Kill
        PROVE  DelayBooks'
    BY <1>1, <1>6, PollAssumption
    DEF Loop!Launch, Loop!Enter, Loop!Complete, Loop!MarkDigest, Loop!Wake, Loop!Kill, Loop!Gone,
        DelayBooks
  <1>7. ASSUME Loop!SetPaused \/ Loop!Clock \/ UNCHANGED loopVars PROVE DelayBooks'
    BY <1>1, <1>2, <1>7 DEF Loop!SetPaused, Loop!Clock, loopVars, DelayBooks
  <1> QED BY <1>4, <1>5, <1>6, <1>7 DEF Loop!Next, Loop!Loop

\* While the cap is above every healthy delay a failing loop never polls
\* faster than a healthy one, and its delay never shrinks as failures mount;
\* no delay is nothing; and the loop ends by itself at the first power of two
\* no float holds and at no failure before; for every setting the validators
\* let through, every cap and every range of floats (poller.py:488-494, 542).
THEOREM FailuresSlowDown == PartsSpec => []BacksOff
  <1>1. PartsInit => DelayBooks
    BY PollAssumption DEF PartsInit, Loop!Init, DelayBooks
  <1>2. DelayBooks => BacksOff
    <2>0. DelayBooks => (loopStage = "ended" <=> failures = MaxExponent)
      BY PollAssumption DEF DelayBooks
    <2> SUFFICES ASSUME DelayBooks, loopStage = "asleep"
                 PROVE  /\ delay >= 1
                        /\ poll.interval + poll.jitter <= MaxBackoff /\ failures > 0 =>
                             /\ \A healthy \in Loop!Delays(0) : delay >= healthy
                             /\ \A n \in 1..failures : \A d \in Loop!Delays(n) : delay >= d
      BY <2>0 DEF BacksOff, Loop!BacksOff
    <2>1. poll \in Polls /\ failures \in Nat /\ delay \in Loop!Delays(failures)
      BY DEF DelayBooks
    <2>2. CASE failures = 0
      BY <2>1, <2>2, HealthyDelay
    <2>3. CASE failures > 0
      <3> DEFINE b == poll.interval * 2^failures
      <3>1. delay \in Nat /\ delay >= 1 /\ (delay = b \/ delay = MaxBackoff)
        BY <2>1, <2>3, DelayAfterFailures
      <3>2. 2^failures \in Nat /\ 2^failures >= 2
        BY <2>1, <2>3, PowersOfTwo
      <3>3. b >= 2 * poll.interval /\ b \in Nat
        BY <2>1, <3>2, PollType
      <3>4. ASSUME poll.interval + poll.jitter <= MaxBackoff, NEW healthy \in Loop!Delays(0)
            PROVE  delay >= healthy
        <4> HIDE DEF b
        <4> QED BY <2>1, <3>1, <3>3, <3>4, HealthyDelay, PollType
      <3>5. ASSUME NEW n \in 1..failures, NEW d \in Loop!Delays(n) PROVE delay >= d
        <4>1. n \in Nat /\ n > 0 /\ 2^n \in Nat /\ 2^n <= 2^failures
          BY <2>1, PowersOfTwo
        <4>2. poll.interval * 2^n <= b
          BY <2>1, <3>2, <4>1, PollType
        <4>3. d \in Nat /\ d <= poll.interval * 2^n /\ d <= MaxBackoff
          BY <2>1, <4>1, DelayAfterFailures
        <4>4. poll.interval * 2^n \in Nat
          BY <2>1, <4>1, PollType
        <4> HIDE DEF b
        <4> QED BY <2>1, <3>1, <3>3, <4>2, <4>3, <4>4, PollType
      <3>6. \A n \in 1..failures : \A d \in Loop!Delays(n) : delay >= d
        BY <3>5
      <3> HIDE DEF b
      <3> QED BY <3>1, <3>4, <3>6
    <2> QED BY <2>1, <2>2, <2>3
  <1> QED BY <1>1, <1>2, LoopAlone, DelayStep, PTL DEF PartsSpec

-----------------------------------------------------------------------------
(* The secret store                                                        *)

\* Every variable of the store keeps its type, and a process that has started
\* has found a store.
StoreType ==
  /\ Store!TypeOK
  /\ agent.at # "down" => agent.store \in used
  /\ \A w \in Writers : writer[w].step # "idle" => "file" \in used

\* Two jobs are inside the file at once only if the history says so; a store
\* nobody found is empty; and while nobody found the keychain, what the file
\* says, or what the job inside it is about to write, is the ledger.
StoreBooks ==
  /\ ~overlapped => \A v, w \in Writers : v # w => writer[v].step = "idle" \/ writer[w].step = "idle"
  /\ "file" \notin used => file = Store!Missing /\ keychain = ledger
  /\ "os" \notin used => keychain = {}
  /\ ~overlapped /\ "os" \notin used =>
       /\ file.state # "torn" => file.names = ledger
       /\ \A w \in Writers :
            LET j == writer[w] IN
              /\ j.step = "read" =>
                   file.state # "torn" /\ j.holds = Store!Applied(j.op, j.name, file.names)
              /\ j.step = "truncated" =>
                   file.state = "torn" /\ j.holds = Store!Applied(j.op, j.name, ledger)

\* What an operation leaves is a set of names.
LEMMA AppliedType ==
  ASSUME NEW op, NEW name \in Names, NEW names \in SUBSET Names
  PROVE  Store!Applied(op, name, names) \in SUBSET Names
  BY DEF Store!Applied

\* Every step of the store keeps the types.
LEMMA StoreTypeStep == StoreType /\ [Store!Next]_storeVars => StoreType'
  <1> SUFFICES ASSUME StoreType, [Store!Next]_storeVars PROVE StoreType'
    OBVIOUS
  <1> USE DEF StoreType
  <1>1. ASSUME Store!Start PROVE StoreType'
    <2>1. PICK b \in Backends : agent' = [at |-> "portal", store |-> b] /\ used' = used \cup {b}
      BY <1>1 DEF Store!Start
    <2>2. UNCHANGED <<file, keychain, writer, ledger, overlapped, secretKills>>
      BY <1>1 DEF Store!Start
    <2> QED BY <2>1, <2>2 DEF Store!TypeOK, Store!Ends
  <1>2. ASSUME NEW at \in {"portal", "notifier", "code"} \cup Store!Ends, Store!AgentAt(at), agent.at # "down",
               UNCHANGED <<file, keychain, writer, ledger, overlapped, used, secretKills>>
        PROVE  StoreType'
    BY <1>2 DEF Store!TypeOK, Store!AgentAt
  <1>3. ASSUME Store!LoadPortal PROVE StoreType'
    <2>1. PICK at \in {"portal", "notifier", "code"} \cup Store!Ends : Store!AgentAt(at)
      BY <1>3 DEF Store!LoadPortal, Store!Ends
    <2> QED BY <1>2, <1>3, <2>1 DEF Store!LoadPortal
  <1>4. ASSUME Store!LoadToken PROVE StoreType'
    <2>1. PICK at \in {"portal", "notifier", "code"} \cup Store!Ends : Store!AgentAt(at)
      BY <1>4 DEF Store!LoadToken, Store!Ends
    <2> QED BY <1>2, <1>4, <2>1 DEF Store!LoadToken
  <1>5. ASSUME Store!LoadCode PROVE StoreType'
    <2>1. PICK at \in {"portal", "notifier", "code"} \cup Store!Ends : Store!AgentAt(at)
      BY <1>5 DEF Store!LoadCode, Store!Ends
    <2> QED BY <1>2, <1>5, <2>1 DEF Store!LoadCode
  <1>6. ASSUME Store!Remove PROVE StoreType'
    BY <1>6 DEF Store!Remove, Store!TypeOK, Store!Missing
  <1>7. ASSUME NEW w \in Writers, NEW op \in {"put", "delete"}, NEW name \in Names,
               Store!OnKeychain(w, op, name)
        PROVE  StoreType'
    <2>1. keychain' \in SUBSET Names /\ ledger' \in SUBSET Names
      BY <1>7, AppliedType DEF Store!OnKeychain, Store!TypeOK
    <2> QED BY <1>7, <2>1 DEF Store!OnKeychain, Store!TypeOK
  <1>8. ASSUME NEW w \in Writers, NEW op \in {"put", "delete"}, NEW name \in Names,
               Store!Read(w, op, name)
        PROVE  StoreType'
    <2> DEFINE held == Store!Applied(op, name, file.names)
    <2>1. held \in SUBSET Names
      BY AppliedType DEF Store!TypeOK
    <2>2. writer' = [writer EXCEPT ![w] = [step |-> "read", op |-> op, name |-> name, holds |-> held]]
      BY <1>8 DEF Store!Read
    <2> HIDE DEF held
    <2>3. overlapped' \in BOOLEAN
      BY <1>8 DEF Store!Read, Store!TypeOK
    <2> QED BY <1>8, <2>1, <2>2, <2>3 DEF Store!Read, Store!TypeOK, Store!Steps
  <1>9. ASSUME NEW w \in Writers, Store!Truncate(w) PROVE StoreType'
    BY <1>9 DEF Store!Truncate, Store!TypeOK, Store!Torn, Store!Steps
  <1>10. ASSUME NEW w \in Writers, Store!Refuse(w) \/ Store!Kill(w) PROVE StoreType'
    <2>1. /\ writer' = [writer EXCEPT ![w] = Store!Idle]
          /\ UNCHANGED <<file, keychain, agent, ledger, overlapped, used>>
      BY <1>10 DEF Store!Refuse, Store!Kill
    <2>2. Store!Idle \in [step : Store!Steps, op : {"put", "delete"}, name : Names, holds : SUBSET Names]
          /\ Store!Idle.step = "idle"
      BY DEF Store!Idle, Store!Steps
    <2>3. secretKills' \in 0..MaxKills
      BY <1>10 DEF Store!Refuse, Store!Kill, Store!TypeOK
    <2> QED BY <2>1, <2>2, <2>3 DEF Store!TypeOK
  <1>11. ASSUME NEW w \in Writers, Store!Write(w) PROVE StoreType'
    <2>1. writer[w].holds \in SUBSET Names /\ writer[w].name \in Names
      BY DEF Store!TypeOK
    <2>2. ledger' \in SUBSET Names
      BY <1>11, <2>1, AppliedType DEF Store!Write, Store!TypeOK
    <2>3. file' \in [state : {"missing", "torn", "whole"}, names : SUBSET Names]
      BY <1>11, <2>1 DEF Store!Write, Store!Written, Store!Whole, Store!Torn
    <2> QED BY <1>11, <2>2, <2>3 DEF Store!Write, Store!TypeOK, Store!Idle, Store!Steps
  <1>12. ASSUME UNCHANGED storeVars PROVE StoreType'
    BY <1>12 DEF storeVars, Store!TypeOK
  <1> QED
    BY <1>1, <1>3, <1>4, <1>5, <1>6, <1>7, <1>8, <1>9, <1>10, <1>11, <1>12 DEF Store!Next, Store!Job

\* A step that leaves the file, the keychain, the jobs and the ledger alone
\* keeps the books, whatever stores it finds.
LEMMA BooksKept ==
  ASSUME StoreBooks, UNCHANGED <<file, keychain, writer, ledger, overlapped>>, used \subseteq used'
  PROVE  StoreBooks'
  BY DEF StoreBooks

\* Every step of the store keeps the books.
LEMMA StoreStep == StoreType /\ StoreBooks /\ [Store!Next]_storeVars => StoreBooks'
  <1> SUFFICES ASSUME StoreType, StoreBooks, [Store!Next]_storeVars PROVE StoreBooks'
    OBVIOUS
  <1>0. Store!TypeOK
    BY DEF StoreType
  <1>1. ASSUME Store!Start \/ Store!LoadPortal \/ Store!LoadToken \/ Store!LoadCode PROVE StoreBooks'
    BY <1>1, BooksKept DEF Store!Start, Store!LoadPortal, Store!LoadToken, Store!LoadCode
  <1>2. ASSUME Store!Remove PROVE StoreBooks'
    <2>1. file' = Store!Missing /\ ledger' = ledger \cap keychain /\ file.state = "torn"
          /\ UNCHANGED <<keychain, writer, overlapped, used>>
          /\ \A w \in Writers : writer[w].step = "idle"
      BY <1>2 DEF Store!Remove
    <2>2. file # Store!Missing
      BY <2>1 DEF Store!Missing
    <2> QED BY <2>1, <2>2 DEF StoreBooks, Store!Missing
  <1>3. ASSUME NEW w \in Writers, NEW op \in {"put", "delete"}, NEW name \in Names,
               Store!OnKeychain(w, op, name)
        PROVE  StoreBooks'
    <2>1. /\ used' = used \cup {"os"}
          /\ keychain' = Store!Applied(op, name, keychain) /\ ledger' = Store!Applied(op, name, ledger)
          /\ UNCHANGED <<file, writer, overlapped>>
      BY <1>3 DEF Store!OnKeychain
    <2> QED BY <2>1 DEF StoreBooks
  <1>4. ASSUME NEW w \in Writers, NEW op \in {"put", "delete"}, NEW name \in Names,
               Store!Read(w, op, name)
        PROVE  StoreBooks'
    <2> DEFINE read == [step |-> "read", op |-> op, name |-> name,
                        holds |-> Store!Applied(op, name, file.names)]
    <2>1. /\ used' = used \cup {"file"} /\ file.state # "torn"
          /\ writer' = [writer EXCEPT ![w] = read]
          /\ (~overlapped' => ~overlapped /\ \A v \in Writers \ {w} : writer[v].step = "idle")
          /\ UNCHANGED <<file, keychain, ledger>>
      BY <1>4 DEF Store!Read, Store!Readable
    <2>2. writer'[w] = read /\ \A v \in Writers \ {w} : writer'[v] = writer[v]
      BY <1>0, <2>1 DEF Store!TypeOK
    <2> HIDE DEF read
    <2>3. /\ read.step = "read" /\ read.op = op /\ read.name = name
          /\ read.holds = Store!Applied(op, name, file.names)
      BY DEF read
    <2> QED BY <2>1, <2>2, <2>3 DEF StoreBooks
  <1>5. ASSUME NEW w \in Writers, Store!Truncate(w) PROVE StoreBooks'
    <2> DEFINE j == writer[w]
    <2>1. /\ j.step = "read" /\ file' = Store!Torn
          /\ writer' = [writer EXCEPT ![w].step = "truncated"]
          /\ UNCHANGED <<keychain, ledger, overlapped, used>>
      BY <1>5 DEF Store!Truncate
    <2>2. /\ writer'[w].step = "truncated" /\ writer'[w].op = j.op
          /\ writer'[w].name = j.name /\ writer'[w].holds = j.holds
          /\ \A v \in Writers \ {w} : writer'[v] = writer[v]
      BY <1>0, <2>1 DEF Store!TypeOK
    <2>3. "file" \in used
      BY <2>1 DEF StoreType
    <2>4. file'.state = "torn"
      BY <2>1 DEF Store!Torn
    <2>5. ~overlapped => \A v \in Writers \ {w} : writer[v].step = "idle"
      BY <2>1 DEF StoreBooks
    <2>6. ~overlapped /\ "os" \notin used => j.holds = Store!Applied(j.op, j.name, ledger)
      BY <2>1 DEF StoreBooks
    <2> HIDE DEF j
    <2>7. ~overlapped => \A u, v \in Writers : u # v => writer'[u].step = "idle" \/ writer'[v].step = "idle"
      BY <2>2, <2>5
    <2>8. "os" \notin used => keychain = {}
      BY DEF StoreBooks
    <2>9. ASSUME ~overlapped, "os" \notin used, NEW v \in Writers
          PROVE  /\ writer'[v].step # "read"
                 /\ writer'[v].step = "truncated" =>
                      writer'[v].holds = Store!Applied(writer'[v].op, writer'[v].name, ledger)
      BY <2>2, <2>5, <2>6, <2>9
    <2> QED BY <2>1, <2>3, <2>4, <2>7, <2>8, <2>9 DEF StoreBooks
  <1>6. ASSUME NEW w \in Writers, Store!Refuse(w) \/ Store!Kill(w) PROVE StoreBooks'
    <2>1. /\ writer' = [writer EXCEPT ![w] = Store!Idle]
          /\ UNCHANGED <<file, keychain, ledger, overlapped, used>>
      BY <1>6 DEF Store!Refuse, Store!Kill
    <2>2. writer'[w].step = "idle" /\ \A v \in Writers \ {w} : writer'[v] = writer[v]
      BY <1>0, <2>1 DEF Store!TypeOK, Store!Idle
    <2> QED BY <2>1, <2>2 DEF StoreBooks
  <1>7. ASSUME NEW w \in Writers, Store!Write(w) PROVE StoreBooks'
    <2> DEFINE j == writer[w]
    <2>1. /\ j.step = "truncated"
          /\ file' \in {Store!Whole(j.holds)} \cup (IF file.state = "torn" THEN {} ELSE {Store!Torn})
          /\ ledger' = Store!Applied(j.op, j.name, ledger)
          /\ writer' = [writer EXCEPT ![w] = Store!Idle]
          /\ UNCHANGED <<keychain, overlapped, used>>
      BY <1>7 DEF Store!Write, Store!Written
    <2>2. writer'[w].step = "idle" /\ \A v \in Writers \ {w} : writer'[v] = writer[v]
      BY <1>0, <2>1 DEF Store!TypeOK, Store!Idle
    <2>3. "file" \in used
      BY <2>1 DEF StoreType
    <2>4. ~overlapped => \A v \in Writers : writer'[v].step = "idle"
      BY <2>1, <2>2 DEF StoreBooks
    <2>5. ~overlapped /\ "os" \notin used => file'.names = ledger'
      BY <2>1 DEF StoreBooks, Store!Whole
    <2>6. "os" \notin used => keychain = {}
      BY DEF StoreBooks
    <2> QED BY <2>1, <2>3, <2>4, <2>5, <2>6 DEF StoreBooks
  <1>8. ASSUME UNCHANGED storeVars PROVE StoreBooks'
    BY <1>8, BooksKept DEF storeVars
  <1> QED
    BY <1>1, <1>2, <1>3, <1>4, <1>5, <1>6, <1>7, <1>8 DEF Store!Next, Store!Job

\* Types and books are kept in every behaviour.
LEMMA StoreInvariant == PartsSpec => [](StoreType /\ StoreBooks)
  <1>1. PartsInit => StoreType /\ StoreBooks
    <2> SUFFICES ASSUME Store!Init PROVE StoreType /\ StoreBooks
      BY DEF PartsInit
    <2>1. \A w \in Writers : writer[w] = Store!Idle
      BY DEF Store!Init
    <2>2. Store!TypeOK
      <3>1. Store!Idle \in [step : Store!Steps, op : {"put", "delete"}, name : Names, holds : SUBSET Names]
        BY DEF Store!Idle, Store!Steps
      <3>2. writer \in [Writers -> [step : Store!Steps, op : {"put", "delete"}, name : Names, holds : SUBSET Names]]
        BY <3>1 DEF Store!Init
      <3>3. file \in [state : {"missing", "torn", "whole"}, names : SUBSET Names]
        BY DEF Store!Init, Store!Missing
      <3>4. secretKills \in 0..MaxKills
        BY DEF Store!Init
      <3> QED BY <3>2, <3>3, <3>4 DEF Store!Init, Store!TypeOK
    <2> QED BY <2>1, <2>2 DEF Store!Init, StoreType, StoreBooks, Store!Missing, Store!Idle
  <1> QED BY <1>1, StoreAlone, StoreTypeStep, StoreStep, PTL DEF PartsSpec

\* A kill at any step of any job never costs a secret silently, for any
\* number of jobs, names and kills (secrets.py:92-119).
THEOREM LossesAreLoud == PartsSpec => []LossIsLoud
  <1>1. StoreBooks => LossIsLoud
    BY DEF StoreBooks, LossIsLoud, Store!LossIsLoud
  <1> QED BY <1>1, StoreInvariant, PTL

\* An agent that starts says it has no token only if it has none, and comes
\* up with a bot only if it has one (main.py:90-125, 178-185).
THEOREM StartsKnowTheToken == PartsSpec => NoTokenForgotten
  <1> DEFINE Told ==
        ~overlapped' /\ used' \in {{b} : b \in Backends} =>
          /\ (agent'.at = "no_token" /\ agent.at # "no_token" => Token \notin ledger)
          /\ (agent'.at = "code" /\ agent.at # "code" => Token \in ledger)
  <1>1. StoreType /\ StoreBooks /\ [Store!Next]_storeVars => Told
    <2> SUFFICES ASSUME StoreType, StoreBooks, [Store!Next]_storeVars PROVE Told
      OBVIOUS
    <2>0. Store!TypeOK /\ (agent.at # "down" => agent.store \in used)
      BY DEF StoreType
    <2>1. ASSUME Store!LoadToken PROVE Told
      <3>1. SUFFICES ASSUME ~overlapped, used \in {{b} : b \in Backends}, agent'.at \in {"no_token", "code"}
                     PROVE  agent'.at = "code" <=> Token \in ledger
        BY <2>1 DEF Store!LoadToken
      <3>2. used = {agent.store} /\ agent.store \in {"file", "os"}
        BY <2>0, <2>1, <3>1 DEF Store!TypeOK, Store!LoadToken
      <3>3. agent'.at = (IF ~Store!Opens THEN "unreadable" ELSE IF Store!Holds(Token) THEN "code" ELSE "no_token")
        BY <2>0, <2>1 DEF Store!LoadToken, Store!AgentAt, Store!TypeOK
      <3>4. Store!Opens /\ (agent'.at = "code" <=> Store!Holds(Token))
        BY <3>1, <3>3
      <3>5. CASE agent.store = "os"
        BY <3>2, <3>4, <3>5 DEF StoreBooks, Store!Holds
      <3>6. CASE agent.store = "file"
        BY <3>1, <3>2, <3>4, <3>6 DEF StoreBooks, Store!Holds, Store!Opens, Store!Readable
      <3> QED BY <3>2, <3>5, <3>6
    <2>2. ASSUME Store!Start \/ Store!LoadPortal \/ Store!LoadCode PROVE agent'.at \notin {"no_token", "code"}
      BY <2>0, <2>2 DEF Store!Start, Store!LoadPortal, Store!LoadCode, Store!AgentAt, Store!TypeOK
    <2>3. ASSUME Store!Remove \/ UNCHANGED storeVars PROVE agent' = agent
      BY <2>3 DEF Store!Remove, storeVars
    <2>4. ASSUME NEW w \in Writers, Store!Job(w) PROVE agent' = agent
      BY <2>4 DEF Store!Job, Store!OnKeychain, Store!Read, Store!Truncate, Store!Refuse, Store!Write, Store!Kill
    <2> QED BY <2>1, <2>2, <2>3, <2>4 DEF Store!Next
  <1>2. StoreType /\ StoreBooks /\ [PartsNext]_partsVars
          => [~overlapped' /\ used' \in {{b} : b \in Backends} =>
                /\ (agent'.at = "no_token" /\ agent.at # "no_token" => Token \notin ledger)
                /\ (agent'.at = "code" /\ agent.at # "code" => Token \in ledger)]_(Store!vars)
    BY <1>1, StoreAlone
  <1> QED BY <1>2, StoreInvariant, PTL DEF PartsSpec, NoTokenForgotten, Store!NoTokenForgotten

-----------------------------------------------------------------------------
(* The choice of shifts                                                    *)

\* What a cycle knows of a seat is that seat or that it found none; and every
\* candidate is one of its configuration's.
SeatBooks ==
  /\ settings \in Choice!Configs /\ seat \in [Ids -> Letters]
  /\ cache \in [Ids -> Letters \cup {NoGrade, Choice!Uncached}]
  /\ \A id \in Ids : cache[id] \in {Choice!Uncached, seat[id], NoGrade}
  /\ \A c \in cands : c.id \in Ids /\ Choice!Wanted(c)

\* She is alerted of, and the agent pursues, only what is marked offered.  In
\* a cycle, a shift that was not marked when it began and stands in its list
\* once is in at most one place: still to be classified, an alert, a
\* candidate, or one of the two already.
Candidate(id) == \E c \in cands : c.id = id
OnePlace(id) ==
  /\ left[id] = 0 \/ (left[id] = 1 /\ ~Candidate(id) /\ id \notin choiceAlerts /\ id \notin offered)
  /\ Candidate(id) => id \notin choiceAlerts /\ id \notin alerted
  /\ id \in choiceAlerts => id \notin pursued
MarkBooks ==
  /\ left \in [Ids -> Nat]
  /\ alerted \subseteq offered /\ pursued \subseteq offered
  /\ snap \subseteq offered /\ offered \subseteq Ids
  /\ alerted \cap pursued \subseteq twice
  /\ ~busy => left = Choice!Zero /\ cands = {} /\ choiceAlerts = {}
  /\ \A c \in cands : c.id \in Ids
  /\ busy => \A id \in Ids \ (snap \cup twice) : OnePlace(id)

\* What is known of a seat, and Wanted, hold of what a row is sorted by.
LEMMA SortWanted ==
  ASSUME SeatBooks, NEW id \in Ids, NEW row, NEW grade \in {seat[id], NoGrade},
         Choice!Cheap(row) = "match", Choice!Sort(id, row, Choice!Verdict(id, grade))
  PROVE  \A c \in cands' : c.id \in Ids /\ Choice!Wanted(c)
  <1>1. CASE Choice!Verdict(id, grade) = "match"
    <2> DEFINE d == [id |-> id, base |-> row.base, premium |-> row.premium]
    <2>1. cands' = cands \cup {d}
      BY <1>1 DEF Choice!Sort
    <2>2. settings.pursue \subseteq Letters /\ seat[id] \in Letters
      BY DEF SeatBooks, Choice!Configs
    <2>3. settings.pursue \cup settings.notify_only # {} => seat[id] \in settings.pursue
      BY <1>1, <2>2 DEF Choice!Verdict, Choice!ShouldPursue
    <2>4. Choice!Allows(row.base) /\ (settings.premium_only => Choice!Premium(row.premium))
      BY DEF Choice!Cheap
    <2>5. d.id = id /\ d.base = row.base /\ d.premium = row.premium
      OBVIOUS
    <2>6. Choice!Wanted(d)
      BY <2>3, <2>4, <2>5 DEF Choice!Wanted, Choice!Allows, Choice!Premium
    <2> QED BY <2>1, <2>5, <2>6 DEF SeatBooks
  <1>2. CASE Choice!Verdict(id, grade) # "match"
    BY <1>2 DEF Choice!Sort, SeatBooks
  <1> QED BY <1>1, <1>2

\* Every step of the choice keeps what is known of the seats.
LEMMA SeatStep == SeatBooks /\ [Choice!Next]_choiceVars => SeatBooks'
  <1> SUFFICES ASSUME SeatBooks, [Choice!Next]_choiceVars PROVE SeatBooks'
    OBVIOUS
  <1>1. CASE Choice!Restart
    BY <1>1 DEF Choice!Restart, Choice!Leave, Choice!stored, SeatBooks
  <1>2. ASSUME UNCHANGED <<settings, seat, cache>>, cands' \subseteq cands PROVE SeatBooks'
    BY <1>2 DEF SeatBooks, Choice!Wanted
  <1>3. CASE Choice!End \/ \E list \in [Ids -> 0..Copies] : Choice!Begin(list)
    BY <1>2, <1>3 DEF Choice!End, Choice!Leave, Choice!Begin, Choice!stored
  <1>4. ASSUME NEW id \in Ids, Choice!AlertNext(id) \/ Choice!Fail(id) PROVE SeatBooks'
    BY <1>2, <1>4 DEF Choice!AlertNext, Choice!Fail, Choice!locals
  <1>5. ASSUME NEW c \in cands, Choice!PursueNext(c) PROVE SeatBooks'
    BY <1>2, <1>5 DEF Choice!PursueNext
  <1>6. ASSUME NEW id \in Ids, NEW row, Choice!Look(id, row) PROVE SeatBooks'
    <2>1. UNCHANGED <<settings, seat>>
      BY <1>6 DEF Choice!Look, Choice!Refuse, Choice!Fetch, Choice!NoDetail, Choice!FetchFails, Choice!stored
    <2>2. ASSUME NEW c, Choice!Wanted(c) PROVE Choice!Wanted(c)'
      BY <2>1, <2>2 DEF Choice!Wanted
    <2>3. CASE Choice!Refuse(id, row)
      BY <1>2, <2>1, <2>3 DEF Choice!Refuse
    <2>4. CASE Choice!Fetch(id, row)
      <3>1. PICK grade \in Choice!Positions(id) :
              cache' = [cache EXCEPT ![id] = grade] /\ Choice!Sort(id, row, Choice!Verdict(id, grade))
        BY <2>4 DEF Choice!Fetch
      <3>2. grade \in {seat[id], NoGrade} /\ seat[id] \in Letters
        BY DEF Choice!Positions, SeatBooks
      <3>3. \A c \in cands' : c.id \in Ids /\ Choice!Wanted(c)
        BY <2>4, <3>1, <3>2, SortWanted DEF Choice!Fetch
      <3> QED BY <2>1, <2>2, <3>1, <3>2, <3>3 DEF SeatBooks
    <2>5. CASE Choice!NoDetail(id, row)
      <3>1. \A c \in cands' : c.id \in Ids /\ Choice!Wanted(c)
        BY <2>5, SortWanted DEF Choice!NoDetail
      <3> QED BY <2>1, <2>2, <2>5, <3>1 DEF Choice!NoDetail, SeatBooks
    <2>6. CASE Choice!FetchFails(id, row)
      BY <1>2, <2>1, <2>6 DEF Choice!FetchFails, Choice!Sort
    <2> QED BY <1>6, <2>3, <2>4, <2>5, <2>6 DEF Choice!Look
  <1>7. CASE UNCHANGED choiceVars
    BY <1>2, <1>7 DEF choiceVars
  <1> QED BY <1>1, <1>3, <1>4, <1>5, <1>6, <1>7 DEF Choice!Next

\* A row that is classified leaves the list for one of the two others, or
\* for neither.
LEMMA RowMoves ==
  ASSUME MarkBooks, NEW id \in Ids, NEW row, Choice!Read(id),
         UNCHANGED <<offered, alerted, pursued, snap, busy, twice>>,
         \/ cands' = cands /\ choiceAlerts' = choiceAlerts
         \/ \E verdict : Choice!Sort(id, row, verdict)
  PROVE  MarkBooks'
  <1> DEFINE d == [id |-> id, base |-> row.base, premium |-> row.premium]
  <1>1. /\ busy /\ left[id] > 0 /\ left' = [left EXCEPT ![id] = @ - 1] /\ left \in [Ids -> Nat]
        /\ left[id] \in Nat
    BY DEF Choice!Read, MarkBooks
  <1>2. left' \in [Ids -> Nat] /\ left'[id] = left[id] - 1 /\ \A x \in Ids \ {id} : left'[x] = left[x]
    BY <1>1
  <1>3. \/ cands' = cands /\ choiceAlerts' = choiceAlerts
        \/ cands' = cands \cup {d} /\ choiceAlerts' = choiceAlerts
        \/ cands' = cands /\ choiceAlerts' = choiceAlerts \cup {id}
    BY DEF Choice!Sort
  <1>4. d.id = id
    OBVIOUS
  <1> HIDE DEF d
  <1>5. \A x : Candidate(x)' => Candidate(x) \/ x = id
    BY <1>3, <1>4 DEF Candidate
  <1>6. \A c \in cands' : c.id \in Ids
    BY <1>3, <1>4 DEF MarkBooks
  <1>7. ASSUME NEW x \in Ids \ (snap \cup twice), x # id PROVE OnePlace(x)'
    <2>1. OnePlace(x)
      BY <1>1, <1>7 DEF MarkBooks
    <2>2. (Candidate(x)' => Candidate(x)) /\ (x \in choiceAlerts' => x \in choiceAlerts) /\ left'[x] = left[x]
      BY <1>2, <1>3, <1>5, <1>7
    <2> QED BY <2>1, <2>2 DEF OnePlace
  <1>8. ASSUME id \notin snap \cup twice PROVE OnePlace(id)'
    <2>1. OnePlace(id)
      BY <1>1, <1>8 DEF MarkBooks
    <2>2. left[id] = 1 /\ ~Candidate(id) /\ id \notin choiceAlerts /\ id \notin offered
      BY <1>1, <2>1 DEF OnePlace
    <2>3. left'[id] = 0
      BY <1>2, <2>2
    <2>4. id \notin alerted /\ id \notin pursued
      BY <2>2 DEF MarkBooks
    <2>5. Candidate(id)' => choiceAlerts' = choiceAlerts
      BY <1>3, <2>2 DEF Candidate
    <2> QED BY <2>2, <2>3, <2>4, <2>5 DEF OnePlace
  <1> QED BY <1>1, <1>2, <1>6, <1>7, <1>8 DEF MarkBooks

\* Every step of the choice keeps the marks.
LEMMA MarkStep == MarkBooks /\ [Choice!Next]_choiceVars => MarkBooks'
  <1> SUFFICES ASSUME MarkBooks, [Choice!Next]_choiceVars PROVE MarkBooks'
    OBVIOUS
  <1>0. Choice!Zero \in [Ids -> Nat]
    BY DEF Choice!Zero
  <1>1. CASE Choice!Restart \/ Choice!End
    <2>1. /\ busy' = FALSE /\ snap' = {} /\ left' = Choice!Zero /\ cands' = {} /\ choiceAlerts' = {}
          /\ UNCHANGED <<offered, alerted, pursued, twice>>
      BY <1>1 DEF Choice!Restart, Choice!End, Choice!Leave, Choice!stored
    <2> QED BY <1>0, <2>1 DEF MarkBooks, Choice!Zero
  <1>2. ASSUME NEW list \in [Ids -> 0..Copies], Choice!Begin(list) PROVE MarkBooks'
    <2>1. /\ busy' = TRUE /\ snap' = offered /\ left' = list /\ cands' = {} /\ choiceAlerts' = {}
          /\ twice' = (twice \cap offered) \cup {id \in Ids \ offered : list[id] > 1}
          /\ UNCHANGED <<offered, alerted, pursued>>
      BY <1>2 DEF Choice!Begin, Choice!stored, MarkBooks
    <2>2. list \in [Ids -> Nat]
      OBVIOUS
    <2>3. ASSUME NEW id \in Ids \ (snap' \cup twice') PROVE OnePlace(id)'
      <3>1. list[id] \in Nat /\ ~(list[id] > 1) /\ id \notin offered
        BY <2>1, <2>2, <2>3
      <3>2. list[id] = 0 \/ list[id] = 1
        BY <3>1
      <3> QED BY <2>1, <3>1, <3>2 DEF OnePlace, Candidate
    <2> QED BY <2>1, <2>2, <2>3 DEF MarkBooks
  <1>3. ASSUME NEW id \in Ids, NEW row, Choice!Look(id, row) PROVE MarkBooks'
    <2>1. /\ Choice!Read(id) /\ UNCHANGED <<offered, alerted, pursued, snap, busy, twice>>
          /\ \/ cands' = cands /\ choiceAlerts' = choiceAlerts
             \/ \E verdict : Choice!Sort(id, row, verdict)
      BY <1>3 DEF Choice!Look, Choice!Refuse, Choice!Fetch, Choice!NoDetail, Choice!FetchFails, Choice!stored
    <2> QED BY <2>1, RowMoves
  <1>4. ASSUME NEW id \in Ids, Choice!AlertNext(id) PROVE MarkBooks'
    <2>1. /\ left = Choice!Zero /\ id \in choiceAlerts /\ choiceAlerts' = choiceAlerts \ {id}
          /\ UNCHANGED <<pursued, busy, snap, left, cands, twice>>
          /\ \/ id \in snap /\ UNCHANGED <<offered, alerted>>
             \/ id \notin snap /\ alerted' = alerted \cup {id} /\ offered' = offered \cup {id}
      BY <1>4 DEF Choice!AlertNext, Choice!Alert
    <2>2. busy /\ \A x \in Ids : left[x] = 0
      BY <2>1 DEF MarkBooks, Choice!Zero
    <2>3. ASSUME NEW x \in Ids \ (snap \cup twice) PROVE OnePlace(x)' /\ (x \in choiceAlerts => x \notin pursued)
      <3>1. OnePlace(x)
        BY <2>2, <2>3 DEF MarkBooks
      <3>2. Candidate(x)' <=> Candidate(x)
        BY <2>1 DEF Candidate
      <3> QED BY <2>1, <2>2, <3>1, <3>2 DEF OnePlace
    <2>4. alerted' \cap pursued' \subseteq twice'
      BY <2>1, <2>3 DEF MarkBooks
    <2> QED BY <2>1, <2>2, <2>3, <2>4 DEF MarkBooks
  <1>5. ASSUME NEW c \in cands, Choice!PursueNext(c) PROVE MarkBooks'
    <2>1. /\ left = Choice!Zero /\ choiceAlerts = {} /\ cands' = cands \ {c}
          /\ UNCHANGED <<alerted, busy, snap, left, choiceAlerts, twice>>
          /\ \/ c.id \in snap /\ UNCHANGED <<offered, pursued>>
             \/ c.id \notin snap /\ pursued' = pursued \cup {c.id} /\ offered' = offered \cup {c.id}
      BY <1>5 DEF Choice!PursueNext, Choice!Pursue
    <2>2. busy /\ c.id \in Ids /\ \A x \in Ids : left[x] = 0
      BY <2>1 DEF MarkBooks, Choice!Zero
    <2>3. ASSUME NEW x \in Ids \ (snap \cup twice) PROVE OnePlace(x)' /\ (x = c.id => x \notin alerted)
      <3>1. OnePlace(x)
        BY <2>2, <2>3 DEF MarkBooks
      <3>2. (Candidate(x)' => Candidate(x)) /\ (x = c.id => Candidate(x))
        BY <2>1 DEF Candidate
      <3> QED BY <2>1, <2>2, <3>1, <3>2 DEF OnePlace
    <2>4. alerted' \cap pursued' \subseteq twice'
      BY <2>1, <2>2, <2>3 DEF MarkBooks
    <2> QED BY <2>1, <2>2, <2>3, <2>4 DEF MarkBooks
  <1>6. CASE (\E id \in Ids : Choice!Fail(id)) \/ UNCHANGED choiceVars
    <2>1. UNCHANGED <<offered, alerted, pursued, busy, snap, left, cands, choiceAlerts, twice>>
      BY <1>6 DEF Choice!Fail, Choice!locals, choiceVars
    <2> QED BY <2>1 DEF MarkBooks, OnePlace, Candidate
  <1> QED BY <1>1, <1>2, <1>3, <1>4, <1>5, <1>6 DEF Choice!Next

\* The books are kept in every behaviour.
LEMMA ChoiceInvariant == PartsSpec => [](SeatBooks /\ MarkBooks)
  <1>1. ASSUME PartsInit PROVE SeatBooks /\ MarkBooks
    <2>1. Choice!Init
      BY <1>1 DEF PartsInit
    <2>2. SeatBooks
      BY <2>1 DEF Choice!Init, SeatBooks
    <2>3. MarkBooks
      BY <2>1 DEF Choice!Init, Choice!Zero, MarkBooks
    <2> QED BY <2>2, <2>3
  <1> QED BY <1>1, ChoiceAlone, SeatStep, MarkStep, PTL DEF PartsSpec

\* A shift she was told the agent does not claim is never gone after, through
\* restarts, other configurations, pages that become readable and cycles that
\* end half way, unless it stood twice in the list that first presented it
\* (poller.py:245, 268-289).
THEOREM AlertsAreFinal == PartsSpec => []AlertIsFinal
  <1>1. MarkBooks => AlertIsFinal
    BY DEF MarkBooks, AlertIsFinal, Choice!AlertIsFinal
  <1> QED BY <1>1, ChoiceInvariant, PTL

\* The agent goes only after seats she pursues, in her base and premium where
\* she asks for that, though the seat may be known from an earlier cycle and
\* base and flag may be unreadable (config.py:147-195; poller.py:281-289,
\* 347-402).
THEOREM SeatsAreWanted == PartsSpec => OnlyWantedSeats
  <1> DEFINE Gone == \A id \in pursued' \ pursued : \E c \in cands \ cands' : c.id = id /\ Choice!Wanted(c)
  <1>1. SeatBooks /\ [Choice!Next]_choiceVars => Gone
    <2> SUFFICES ASSUME SeatBooks, [Choice!Next]_choiceVars PROVE Gone
      OBVIOUS
    <2>1. ASSUME NEW c \in cands, Choice!PursueNext(c) PROVE Gone
      <3>1. c \notin cands' /\ pursued' \subseteq pursued \cup {c.id} /\ Choice!Wanted(c)
        BY <2>1 DEF Choice!PursueNext, Choice!Pursue, SeatBooks
      <3> QED BY <3>1
    <2>2. ASSUME NEW id \in Ids, NEW row,
                 Choice!AlertNext(id) \/ Choice!Fail(id) \/ Choice!Look(id, row)
          PROVE  pursued' = pursued
      BY <2>2 DEF Choice!AlertNext, Choice!Fail, Choice!Look, Choice!Refuse, Choice!Fetch, Choice!NoDetail,
                  Choice!FetchFails, Choice!stored
    <2>3. ASSUME \/ Choice!Restart \/ Choice!End \/ UNCHANGED choiceVars
                 \/ \E list \in [Ids -> 0..Copies] : Choice!Begin(list)
          PROVE  pursued' = pursued
      BY <2>3 DEF Choice!Restart, Choice!End, Choice!Begin, Choice!stored, choiceVars
    <2> QED BY <2>1, <2>2, <2>3 DEF Choice!Next
  <1>2. SeatBooks /\ [PartsNext]_partsVars
          => [\A id \in pursued' \ pursued : \E c \in cands \ cands' : c.id = id /\ Choice!Wanted(c)]_(Choice!vars)
    BY <1>1, ChoiceAlone
  <1> QED BY <1>2, ChoiceInvariant, PTL DEF PartsSpec, OnlyWantedSeats, Choice!OnlyWantedSeats

-----------------------------------------------------------------------------
(* The portal's tables                                                     *)

\* A step of the whole is a step of reading the tables, or leaves it alone.
LEMMA TablesAlone == [PartsNext]_partsVars => [Tables!Next]_tablesVars
  <1>1. UNCHANGED partsVars => UNCHANGED tablesVars
    BY DEF partsVars
  <1>2. ASSUME NEW p \in Parts \ {"tables"}, Runs(p) PROVE UNCHANGED tablesVars
    BY <1>2 DEF Runs, Parts
  <1> QED BY <1>1, <1>2 DEF PartsNext, Parts

\* The dates are the days of the months of the years.
LEMMA WhatIsADate ==
  \A y, m, d :
    <<y, m, d>> \in Tables!Dates
      <=> y \in Years /\ m \in Tables!Months /\ d \in 1..Tables!DaysIn(y, m)
  <1> TAKE y, m, d
  <1>1. \A a, b :
          <<y, m, d>> \in Tables!MonthOf(a, b) <=> a = y /\ b = m /\ d \in 1..Tables!DaysIn(y, m)
    BY DEF Tables!MonthOf
  <1> QED BY <1>1 DEF Tables!Dates

\* A date is written with its year, month and day.
LEMMA DateParts ==
  ASSUME NEW date \in Tables!Dates
  PROVE  date = <<date[1], date[2], date[3]>> /\ date[1] \in Nat
  <1>1. PICK y \in Years, m \in Tables!Months : date \in Tables!MonthOf(y, m)
    BY DEF Tables!Dates
  <1> QED BY <1>1, TableAssumption DEF Tables!MonthOf

\* There are finitely many, so that the days before one can be counted.
LEMMA DatesAreFinite == IsFiniteSet(Tables!Dates)
  <1> DEFINE Pairs == Years \X Tables!Months
             Month == [p \in Pairs |-> Tables!MonthOf(p[1], p[2])]
             All == {Tables!MonthOf(y, m) : y \in Years, m \in Tables!Months}
  <1>1. IsFiniteSet(Pairs)
    <2>1. Tables!Months = 1..Len(Lengths) /\ Len(Lengths) \in Nat
      BY TableAssumption DEF Tables!Months
    <2>2. IsFiniteSet(Tables!Months)
      BY <2>1, FS_Interval
    <2> QED BY <2>2, TableAssumption, FS_Product
  <1>2. Month \in Surjection(Pairs, All)
    <2>1. Month \in [Pairs -> All]
      OBVIOUS
    <2>2. ASSUME NEW t \in All PROVE \E p \in Pairs : Month[p] = t
      <3>1. PICK y \in Years, m \in Tables!Months : t = Tables!MonthOf(y, m)
        OBVIOUS
      <3>2. <<y, m>> \in Pairs /\ Month[<<y, m>>] = t
        BY <3>1
      <3> QED BY <3>2
    <2> QED BY <2>1, <2>2 DEF Surjection
  <1>3. IsFiniteSet(All)
    <2> HIDE DEF Month, All, Pairs
    <2> QED BY <1>1, <1>2, FS_Surjection
  <1>4. ASSUME NEW y \in Years, NEW m \in Tables!Months PROVE IsFiniteSet(Tables!MonthOf(y, m))
    <2>1. Tables!DaysIn(y, m) \in Int
      BY TableAssumption DEF Tables!DaysIn, Tables!Months
    <2> DEFINE D == 1..Tables!DaysIn(y, m)
               Day == [d \in D |-> <<y, m, d>>]
    <2>2. IsFiniteSet(D)
      BY <2>1, FS_Interval
    <2>3. Day \in Surjection(D, Tables!MonthOf(y, m))
      BY DEF Surjection, Tables!MonthOf
    <2> HIDE DEF Day, D
    <2> QED BY <2>2, <2>3, FS_Surjection
  <1>5. Tables!Dates = UNION All /\ \A t \in All : IsFiniteSet(t)
    BY <1>4 DEF Tables!Dates
  <1> HIDE DEF All
  <1> QED BY <1>3, <1>5, FS_UNION

\* So midnight is an instant.
LEMMA MidnightType == \A date : Tables!Midnight(date) \in Int
  <1> TAKE date
  <1> DEFINE Before == {y \in Tables!Dates : Tables!Earlier(y, date)}
  <1>1. IsFiniteSet(Before)
    BY DatesAreFinite, FS_Subset
  <1>2. Cardinality(Before) \in Nat
    BY <1>1, FS_CardinalityType
  <1>3. Tables!Cardinality(Before) = Cardinality(Before)
    BY DEF Cardinality, Tables!Cardinality
  <1>4. Tables!Cardinality(Before) * TableTicks \in Int
    BY <1>2, <1>3, TableAssumption
  <1> QED BY <1>4 DEF Tables!Midnight

\* Of two years the first that is left is the least.
LEMMA FirstYear ==
  ASSUME NEW y \in Int, NEW k \in {y, y + 1}, NEW years \in SUBSET {y, y + 1}, k \in years,
         \A x \in y..k - 1 : x \notin years
  PROVE  {x \in years : \A z \in years : x <= z} = {k}
  <1>1. \A x \in years : k <= x
    <2> SUFFICES ASSUME NEW x \in years, x < k PROVE FALSE
      OBVIOUS
    <2>1. x = y /\ k = y + 1
      OBVIOUS
    <2> QED BY <2>1
  <1>2. \A x \in years : k >= x => x = k
    BY <1>1
  <1> QED BY <1>1, <1>2

\* A date without its year is read as the first of its kind that has not
\* passed by more than a week.
LEMMA DateIsMeant ==
  ASSUME now \in Tables!Dates \X Tables!Ticks, NEW date \in Tables!Dates, Tables!Ahead(date)
  PROVE  Tables!ParseDDMon(Tables!DDMon(date), now) = {Tables!Midnight(date)}
  <1> DEFINE y == now[1][1]
             years == Tables!NextOccurrence(Tables!DDMon(date), now)
  <1>1. date = <<date[1], date[2], date[3]>> /\ date[1] \in {y, y + 1} /\ y \in Int
    <2>1. now[1] \in Tables!Dates
      OBVIOUS
    <2> QED BY <2>1, DateParts DEF Tables!Ahead
  <1>2. \A x : x \in years <=>
                 /\ x \in {y, y + 1} /\ <<x, date[2], date[3]>> \in Tables!Dates
                 /\ ~Tables!TooOld(<<x, date[2], date[3]>>)
    <2>1. Tables!Midnight(now[1]) \in Int
      BY MidnightType
    <2>2. \A x : Tables!Midnight(<<x, date[2], date[3]>>) \in Int
      BY MidnightType
    <2>3. \A a, b : a \in Int /\ b \in Int => (a >= b <=> ~(a < b))
      OBVIOUS
    <2>4. Tables!Midnight(now[1]) + now[2] - Slack * TableTicks \in Int
      BY <2>1, TableAssumption DEF Tables!Ticks
    <2> QED BY <2>2, <2>3, <2>4 DEF Tables!NextOccurrence, Tables!DDMon, Tables!TooOld
  <1>3. date[1] \in years
    BY <1>1, <1>2 DEF Tables!Ahead
  <1>4. \A x \in y..date[1] - 1 : x \notin years
    BY <1>2 DEF Tables!Ahead
  <1>5. years \subseteq {y, y + 1}
    BY <1>2
  <1> HIDE DEF years
  <1>6. {x \in years : \A z \in years : x <= z} = {date[1]}
    BY <1>1, <1>3, <1>4, <1>5, FirstYear
  <1> QED BY <1>1, <1>6 DEF Tables!ParseDDMon, Tables!DDMon, years

\* Whatever is written, no two dates are read.
LEMMA AtMostOneDate ==
  ASSUME now \in Tables!Dates \X Tables!Ticks, NEW token
  PROVE  Tables!ParseDDMon(token, now) = {}
         \/ \E d \in Int : Tables!ParseDDMon(token, now) = {d}
  <1> DEFINE y == now[1][1]
             years == Tables!NextOccurrence(token, now)
             least == {x \in years : \A z \in years : x <= z}
  <1>1. y \in Int
    <2>1. now[1] \in Tables!Dates
      OBVIOUS
    <2> QED BY <2>1, DateParts
  <1>2. years \subseteq {y, y + 1}
    BY DEF Tables!NextOccurrence
  <1>3. Tables!ParseDDMon(token, now)
          = {Tables!Midnight(<<x, token[1], token[2]>>) : x \in least}
    BY DEF Tables!ParseDDMon
  <1> HIDE DEF y, years
  <1>4. \A a, b \in least : a = b
    BY <1>1, <1>2
  <1>5. CASE least = {}
    BY <1>3, <1>5
  <1>6. CASE least # {}
    <2>1. PICK x : least = {x}
      <3> HIDE DEF least
      <3> QED BY <1>4, <1>6
    <2>2. Tables!ParseDDMon(token, now) = {Tables!Midnight(<<x, token[1], token[2]>>)}
      BY <1>3, <2>1
    <2> QED BY <2>2, MidnightType
  <1> QED BY <1>5, <1>6

\* The days and the times of day give back the length of the trip.
LEMMA DaysAddUp ==
  ASSUME NEW d \in Int, NEW t, t.report \in Tables!Ticks, t.length \in 1..MaxLength
  PROVE  /\ Tables!OpenRow({d}, Tables!Days(t), t.report, Tables!Release(t))
              = {[start |-> d + t.report, end |-> d + t.report + t.length]}
         /\ t.length <= TableTicks =>
              Tables!ScheduleRow({d}, t.report, Tables!Release(t))
                = {[start |-> d + t.report, end |-> d + t.report + t.length]}
  <1> DEFINE a == t.report + t.length
             q == a \div TableTicks
             r == a % TableTicks
  <1>1. t.report \in Int /\ 0 <= t.report /\ t.report < TableTicks /\ t.length \in Int /\ t.length > 0
    BY TableAssumption DEF Tables!Ticks
  <1>2. a \in Nat /\ a = t.report + t.length
    BY <1>1
  <1>3. Tables!Release(t) = r /\ Tables!Days(t) = q + 1
    BY DEF Tables!Release, Tables!Days
  <1> HIDE DEF a
  <1>4. q \in Nat /\ r \in 0..TableTicks - 1 /\ a = q * TableTicks + r
    <2>1. a \in Int /\ TableTicks \in Nat \ {0}
      BY <1>2, TableAssumption
    <2>2. q \in Int /\ r \in 0..TableTicks - 1 /\ a = q * TableTicks + r /\ (a >= 0 => q >= 0)
      BY <2>1, Division
    <2> QED BY <1>2, <2>2
  <1> HIDE DEF q, r
  <1> DEFINE meant == [start |-> d + t.report, end |-> d + t.report + t.length]
  <1>5. Tables!OpenRow({d}, q + 1, t.report, r) = {meant}
    <2>1. Tables!Max({1, q + 1}) = q + 1
      <3>1. 1 \in Int /\ q + 1 \in Int
        BY <1>4
      <3>2. Tables!Max({1, q + 1}) \in {1, q + 1} /\ Tables!Max({1, q + 1}) >= q + 1
            /\ Tables!Max({1, q + 1}) >= 1
        BY <3>1, LargerOfTwo
      <3> QED BY <1>4, <3>2
    <2>2. Tables!Nights(q + 1) = q
      BY <1>4 DEF Tables!Nights
    <2>3. q * TableTicks \in Int
      BY <1>4, TableAssumption
    <2>4. d + r + q * TableTicks = d + t.report + t.length
      BY <1>1, <1>2, <1>4, <2>3
    <2>5. Tables!Closed(d + t.report, d + r + q * TableTicks) = meant
      BY <1>1, <2>4 DEF Tables!Closed
    <2> QED BY <2>1, <2>2, <2>5 DEF Tables!OpenRow
  <1>6. ASSUME t.length <= TableTicks
        PROVE  Tables!ScheduleRow({d}, t.report, r) = {meant}
    <2>1. q = 0 \/ q = 1
      <3>1. q * TableTicks + r < 2 * TableTicks
        BY <1>1, <1>2, <1>4, <1>6, TableAssumption
      <3> QED BY <1>4, <3>1, SmallQuotient, TableAssumption
    <2>2. r = a \/ r = a - TableTicks
      BY <1>2, <1>4, <2>1, TableAssumption
    <2>3. Tables!Closed(d + t.report, d + r) = meant
      <3>1. CASE r = a
        BY <1>1, <1>2, <3>1 DEF Tables!Closed
      <3>2. CASE r = a - TableTicks
        <4>1. d + r <= d + t.report /\ d + r + TableTicks = d + t.report + t.length
          BY <1>1, <1>2, <1>6, <3>2, TableAssumption
        <4> QED BY <4>1 DEF Tables!Closed
      <3> QED BY <2>2, <3>1, <3>2
    <2> QED BY <2>3 DEF Tables!ScheduleRow
  <1> QED BY <1>3, <1>5, <1>6

\* What was read is what was meant, and reading keeps the types.
TablesBooks ==
  /\ Tables!TypeOK
  /\ page # "none" => trip \in Tables!Trips
  /\ TimesExact

\* Reading a row keeps that.
LEMMA TablesStep == TablesBooks /\ [Tables!Next]_tablesVars => TablesBooks'
  <1> SUFFICES ASSUME TablesBooks, [Tables!Next]_tablesVars PROVE TablesBooks'
    OBVIOUS
  <1>1. CASE UNCHANGED tablesVars
    BY <1>1 DEF tablesVars, TablesBooks, Tables!TypeOK, TimesExact, Tables!TimesExact, Tables!Ahead,
             Tables!TooOld
  <1>2. ASSUME NEW t \in Tables!Trips, Tables!ReadOpen(t) \/ Tables!ReadSchedule(t)
        PROVE  TablesBooks'
    <2>1. /\ trip' = t /\ now' = now /\ page' \in {"opentime", "schedule"}
          /\ now \in Tables!Dates \X Tables!Ticks
      BY <1>2 DEF Tables!ReadOpen, Tables!ReadSchedule, TablesBooks, Tables!TypeOK
    <2>2. t.date \in Tables!Dates /\ t.report \in Tables!Ticks /\ t.length \in 1..MaxLength
      BY DEF Tables!Trips
    <2> DEFINE m == Tables!Midnight(t.date)
               meant == {[start |-> Tables!Start(t), end |-> Tables!End(t)]}
    <2>3. m \in Int
      BY MidnightType
    <2>4. meant = {[start |-> m + t.report, end |-> m + t.report + t.length]}
      BY DEF Tables!Start, Tables!End
    <2>5. Tables!Ahead(t.date) => Tables!ParseDDMon(Tables!DDMon(t.date), now) = {m}
      BY <2>1, <2>2, DateIsMeant
    <2>6. ASSUME Tables!Ahead(t.date) PROVE parsed' = meant
      <3>1. CASE Tables!ReadOpen(t)
        BY <2>2, <2>3, <2>4, <2>5, <2>6, <3>1, DaysAddUp DEF Tables!ReadOpen
      <3>2. CASE Tables!ReadSchedule(t)
        <4>1. t.length <= TableTicks
              /\ parsed' = Tables!ScheduleRow({m}, t.report, Tables!Release(t))
          BY <2>5, <2>6, <3>2 DEF Tables!ReadSchedule
        <4> QED BY <2>2, <2>3, <2>4, <4>1, DaysAddUp
      <3> QED BY <1>2, <3>1, <3>2
    <2>7. Tables!TypeOK'
      <3>1. \E dates \in {Tables!ParseDDMon(Tables!DDMon(t.date), now), {m}} :
              \/ parsed' = Tables!OpenRow(dates, Tables!Days(t), t.report, Tables!Release(t))
              \/ t.length <= TableTicks /\ parsed' = Tables!ScheduleRow(dates, t.report, Tables!Release(t))
        BY <1>2 DEF Tables!ReadOpen, Tables!ReadSchedule
      <3>2. Tables!ParseDDMon(Tables!DDMon(t.date), now) = {}
            \/ \E d \in Int : Tables!ParseDDMon(Tables!DDMon(t.date), now) = {d}
        BY AtMostOneDate, <2>1
      <3>3. parsed' = {} \/ \E iv \in [start : Int, end : Int] : parsed' = {iv}
        <4>1. CASE parsed' = {}
          BY <4>1
        <4>2. ASSUME NEW d \in Int,
                     \/ parsed' = Tables!OpenRow({d}, Tables!Days(t), t.report, Tables!Release(t))
                     \/ t.length <= TableTicks /\ parsed' = Tables!ScheduleRow({d}, t.report, Tables!Release(t))
              PROVE  \E iv \in [start : Int, end : Int] : parsed' = {iv}
          <5> DEFINE iv == [start |-> d + t.report, end |-> d + t.report + t.length]
          <5>1. parsed' = {iv}
            BY <2>2, <4>2, DaysAddUp
          <5>2. iv \in [start : Int, end : Int]
            BY <2>2 DEF Tables!Ticks
          <5> QED BY <5>1, <5>2
        <4>3. CASE parsed' # {}
          <5>1. Tables!OpenRow({}, Tables!Days(t), t.report, Tables!Release(t)) = {}
                /\ Tables!ScheduleRow({}, t.report, Tables!Release(t)) = {}
            BY DEF Tables!OpenRow, Tables!ScheduleRow
          <5> QED BY <2>3, <3>1, <3>2, <4>2, <4>3, <5>1
        <4> QED BY <4>1, <4>3
      <3>4. parsed' \subseteq [start : Int, end : Int] /\ Tables!Cardinality(parsed') <= 1
        <4>1. Tables!Cardinality(parsed') = Cardinality(parsed')
          BY DEF Cardinality, Tables!Cardinality
        <4>2. Cardinality(parsed') \in {0, 1}
          BY <3>3, FS_EmptySet, FS_Singleton
        <4> QED BY <3>3, <4>1, <4>2
      <3> QED BY <2>1, <3>4 DEF Tables!TypeOK
    <2>8. TimesExact'
      BY <2>1, <2>6 DEF TimesExact, Tables!TimesExact, Tables!Ahead, Tables!TooOld
    <2> QED BY <2>1, <2>7, <2>8 DEF TablesBooks
  <1> QED BY <1>1, <1>2 DEF Tables!Next

\* What is read is a shift, and the shift that was meant, in every behaviour.
LEMMA TablesInvariant == PartsSpec => []TablesBooks
  <1>1. PartsInit => TablesBooks
    <2> SUFFICES ASSUME PartsInit PROVE TablesBooks
      OBVIOUS
    <2>1. Tables!Init
      BY DEF PartsInit
    <2>2. Tables!Cardinality({}) = 0
      BY FS_EmptySet DEF Cardinality, Tables!Cardinality
    <2> QED BY <2>1, <2>2 DEF Tables!Init, TablesBooks, Tables!TypeOK, TimesExact, Tables!TimesExact
  <1> QED BY <1>1, TablesAlone, TablesStep, PTL DEF PartsSpec

\* Every date ahead, over month ends, year ends and leap days, and every
\* length of a trip is read as the instants the portal meant, for every
\* calendar and every moment it is read at (flica.py:166-191, 220-232,
\* 329-344).
THEOREM TimesAreExact == PartsSpec => []TimesExact
  <1>1. TablesBooks => TimesExact
    BY DEF TablesBooks
  <1> QED BY <1>1, TablesInvariant, PTL

-----------------------------------------------------------------------------
(* The schedule                                                            *)

\* A step of the whole is a step of her schedule, or leaves it alone.
LEMMA ScheduleAlone == [PartsNext]_partsVars => [Next]_vars
  <1>1. UNCHANGED partsVars => UNCHANGED vars
    BY DEF partsVars, scheduleVars, vars, config
  <1>2. ASSUME NEW p \in Parts \ {"schedule"}, Runs(p) PROVE UNCHANGED vars
    BY <1>2 DEF Runs, Parts, scheduleVars, vars, config
  <1> QED BY <1>1, <1>2 DEF PartsNext, Parts

\* Where another part runs there is no schedule, and the clock stands still.
LEMMA ScheduleBegins ==
  ASSUME PartsInit
  PROVE  /\ assigned = {} /\ SlotsAreTimes /\ delta \in Int /\ (Calm => CalmAt(delta))
         /\ rules \in [min_rest : Nat, max_hours : Nat, max_shifts : Nat]
  <1>1. CASE part = "schedule"
    BY <1>1, CalendarAssumption, SlotAssumption, RuleAssumption DEF PartsInit, Init, Calm, SlotsAreTimes
  <1>2. CASE part # "schedule"
    <2>1. IsFiniteSet({})
      BY FS_EmptySet
    <2>2. slots = {} /\ assigned = {} /\ delta = 0 /\ rules = [min_rest |-> 0, max_hours |-> 0, max_shifts |-> 0]
      BY <1>2 DEF PartsInit
    <2>3. CalmAt(delta)
      BY <2>2 DEF CalmAt
    <2> QED BY <2>1, <2>2, <2>3 DEF SlotsAreTimes
  <1> QED BY <1>1, <1>2

\* Beside the other parts, too, the types and the rest are kept ...
LEMMA PartsRest == PartsSpec => []RestBooks
  <1>1. PartsInit => RestBooks
    BY ScheduleBegins DEF RestBooks, RestKept, RestIsReal
  <1> QED BY <1>1, ScheduleAlone, RestStep, PTL DEF PartsSpec

\* ... and so are all her rules in every behaviour, where the clock is not
\* changed around midnight (schedule.py:78-184).
THEOREM PartsKeepRules == Calm => (PartsSpec => []RulesKept)
  <1> SUFFICES ASSUME Calm PROVE PartsSpec => []RulesKept
    OBVIOUS
  <1>1. PartsInit => CapBooks
    <2>1. IsFiniteSet({})
      BY FS_EmptySet
    <2> QED BY <2>1, ScheduleBegins DEF CapBooks
  <1> QED BY <1>1, PartsRest, ScheduleAlone, CapStep, BooksKeepRules, PTL DEF PartsSpec

\* There the windows accept exactly what she is free for, too
\* (schedule.py:26-75).
THEOREM PartsAcceptExactly == Calm /\ ShiftsOnCalendar => (PartsSpec => []AvailabilityExact)
  <1> SUFFICES ASSUME Calm, ShiftsOnCalendar PROVE PartsSpec => []AvailabilityExact
    OBVIOUS
  <1>1. PartsInit => SettingsHold
    BY ScheduleBegins DEF SettingsHold
  <1>2. SettingsHold => AvailabilityExact
    BY AcceptanceIsExact DEF SettingsHold, AvailabilityExact
  <1> QED BY <1>1, <1>2, ScheduleAlone, SettingsStep, PTL DEF PartsSpec

-----------------------------------------------------------------------------
(* The types                                                               *)

\* What the loop may sleep is a number of seconds.
LEMMA DelayType ==
  ASSUME poll \in Polls, NEW n \in Nat, NEW d \in Loop!Delays(n)
  PROVE  d \in Nat
  <1>1. CASE n = 0
    BY <1>1, HealthyDelay
  <1>2. CASE n > 0
    BY <1>2, DelayAfterFailures
  <1> QED BY <1>1, <1>2

\* The loop keeps its types, while its books are kept.
LoopType == LoopBooks /\ DelayBooks /\ Loop!TypeOK
LEMMA LoopTypeStep == LoopType /\ [Loop!Next]_loopVars => LoopType'
  <1> SUFFICES ASSUME LoopType, [Loop!Next]_loopVars PROVE LoopType'
    OBVIOUS
  <1>1. LoopBooks /\ DelayBooks /\ Loop!TypeOK
    BY DEF LoopType
  <1>2. LoopBooks' /\ DelayBooks'
    BY <1>1, LoopStep, DelayStep
  <1>3. /\ poll' \in Polls /\ alerts' \in Nat
        /\ day' \in Loop!Days /\ lastDigest' \in 0..MaxDays /\ digests' \in [Loop!Days -> Nat]
    BY <1>2 DEF LoopBooks, DelayBooks, Loop!Days
  <1>4. /\ loopStage' \in Loop!Working \cup Loop!Gone \cup {"awake", "asleep"}
        /\ failures' \in 0..MaxExponent /\ paused' \in BOOLEAN /\ late' \in BOOLEAN /\ kills' \in 0..MaxKills
    <2>0. failures' \in 0..MaxExponent
      BY <1>2, PollAssumption DEF DelayBooks
    <2>1. CASE Loop!Loop
      BY <1>1, <2>0, <2>1
      DEF Loop!TypeOK, Loop!Loop, Loop!Launch, Loop!Skip, Loop!Enter, Loop!Fail, Loop!Complete,
          Loop!NoDigest, Loop!MarkDigest, Loop!SendDigest, Loop!Wake, Loop!Rest, Loop!Working, Loop!Gone
    <2>2. CASE Loop!Kill
      <3>1. kills' = kills + 1 /\ kills < MaxKills /\ kills \in 0..MaxKills
        BY <1>1, <2>2 DEF Loop!Kill, Loop!TypeOK
      <3> QED BY <1>1, <2>2, <3>1 DEF Loop!TypeOK, Loop!Kill, Loop!Gone
    <2>3. CASE Loop!SetPaused
      BY <1>1, <2>3 DEF Loop!TypeOK, Loop!SetPaused
    <2>4. CASE Loop!Clock \/ UNCHANGED loopVars
      BY <1>1, <2>4 DEF Loop!TypeOK, Loop!Clock, loopVars
    <2> QED BY <2>1, <2>2, <2>3, <2>4 DEF Loop!Next
  <1>5. delay' \in Nat
    <2>1. ASSUME NEW n \in Nat, Loop!Rest(n) PROVE delay' \in Nat
      BY <1>1, <2>1, DelayType DEF Loop!Rest, DelayBooks, Loop!TypeOK
    <2>2. CASE Loop!Skip \/ Loop!NoDigest \/ Loop!SendDigest
      BY <1>1, <2>1, <2>2 DEF Loop!Skip, Loop!NoDigest, Loop!SendDigest, LoopBooks
    <2>3. CASE Loop!Fail
      BY <1>2, <2>1, <2>3 DEF Loop!Fail, LoopBooks
    <2>4. CASE Loop!Launch \/ Loop!Enter \/ Loop!Complete \/ Loop!MarkDigest \/ Loop!Wake
      BY <1>1, <2>4
      DEF Loop!Launch, Loop!Enter, Loop!Complete, Loop!MarkDigest, Loop!Wake, Loop!TypeOK
    <2>5. CASE Loop!Kill \/ Loop!SetPaused \/ Loop!Clock \/ UNCHANGED loopVars
      BY <1>1, <2>5 DEF Loop!Kill, Loop!SetPaused, Loop!Clock, loopVars, Loop!TypeOK
    <2> QED BY <2>2, <2>3, <2>4, <2>5 DEF Loop!Next, Loop!Loop
  <1> QED BY <1>2, <1>3, <1>4, <1>5 DEF LoopType, Loop!TypeOK

\* So does the choice of shifts.
LEMMA ChoiceTypeStep == Choice!TypeOK /\ [Choice!Next]_choiceVars => Choice!TypeOK'
  <1> SUFFICES ASSUME Choice!TypeOK, [Choice!Next]_choiceVars PROVE Choice!TypeOK'
    OBVIOUS
  <1> USE DEF Choice!TypeOK
  <1>0. Choice!Zero \in [Ids -> 0..Copies]
    BY DEF Choice!Zero
  <1>1. CASE Choice!Restart \/ Choice!End
    BY <1>0, <1>1 DEF Choice!Restart, Choice!End, Choice!Leave, Choice!stored
  <1>2. ASSUME NEW id \in Ids, Choice!Fail(id) PROVE Choice!TypeOK'
    <2>1. attempts' \in [Ids -> 0..MaxAttempts]
      BY <1>2 DEF Choice!Fail
    <2> QED BY <1>2, <2>1 DEF Choice!Fail, Choice!locals
  <1>3. ASSUME NEW list \in [Ids -> 0..Copies], Choice!Begin(list) PROVE Choice!TypeOK'
    BY <1>3 DEF Choice!Begin, Choice!stored
  <1>4. ASSUME NEW id \in Ids, NEW row \in Choice!Rows, NEW verdict, Choice!Sort(id, row, verdict)
        PROVE  cands' \subseteq Choice!Candidates /\ choiceAlerts' \subseteq Ids
    <2>1. [id |-> id, base |-> row.base, premium |-> row.premium] \in Choice!Candidates
      BY DEF Choice!Rows, Choice!Candidates
    <2> QED BY <1>4, <2>1 DEF Choice!Sort
  <1>5. ASSUME NEW id \in Ids, NEW row \in Choice!Rows, Choice!Look(id, row) PROVE Choice!TypeOK'
    <2>1. Choice!Read(id)
      BY <1>5 DEF Choice!Look, Choice!Refuse, Choice!Fetch, Choice!NoDetail, Choice!FetchFails
    <2>2. left' \in [Ids -> 0..Copies]
      BY <2>1 DEF Choice!Read
    <2>3. CASE Choice!Refuse(id, row)
      BY <2>2, <2>3 DEF Choice!Refuse, Choice!stored
    <2>4. CASE Choice!Fetch(id, row)
      <3>1. PICK grade \in Choice!Positions(id) :
              /\ cache' = [cache EXCEPT ![id] = grade]
              /\ Choice!Sort(id, row, Choice!Verdict(id, grade))
        BY <2>4 DEF Choice!Fetch
      <3>2. grade \in Choice!Grade \cup {Choice!Uncached}
        BY DEF Choice!Positions, Choice!Grade
      <3>3. cache' \in [Ids -> Choice!Grade \cup {Choice!Uncached}]
        BY <3>1, <3>2
      <3> QED BY <1>4, <2>2, <2>4, <3>1, <3>3 DEF Choice!Fetch, Choice!stored
    <2>5. CASE Choice!NoDetail(id, row) \/ Choice!FetchFails(id, row)
      <3>1. cands' \subseteq Choice!Candidates /\ choiceAlerts' \subseteq Ids
        BY <1>4, <2>5 DEF Choice!NoDetail, Choice!FetchFails
      <3> QED BY <2>2, <2>5, <3>1 DEF Choice!NoDetail, Choice!FetchFails, Choice!stored
    <2> QED BY <1>5, <2>3, <2>4, <2>5 DEF Choice!Look
  <1>6. ASSUME NEW id \in Ids, Choice!AlertNext(id) PROVE Choice!TypeOK'
    BY <1>6 DEF Choice!AlertNext, Choice!Alert
  <1>7. ASSUME NEW c \in cands, Choice!PursueNext(c) PROVE Choice!TypeOK'
    <2>1. c.id \in Ids
      BY DEF Choice!Candidates
    <2> QED BY <1>7, <2>1 DEF Choice!PursueNext, Choice!Pursue
  <1>8. CASE UNCHANGED choiceVars
    BY <1>8 DEF choiceVars
  <1> QED BY <1>1, <1>2, <1>3, <1>5, <1>6, <1>7, <1>8 DEF Choice!Next

\* Every variable of the loop, the store, the choice, the tables and her
\* schedule keeps its type, whatever runs and however it is set up.
THEOREM RulesAreTyped == PartsSpec => []TypeOK
  <1>1. PartsInit => part \in Parts /\ LoopType /\ Choice!TypeOK
    <2> SUFFICES ASSUME PartsInit PROVE LoopType /\ Choice!TypeOK
      BY DEF PartsInit
    <2>1. LoopType
      <3>1. Loop!Init
        BY DEF PartsInit
      <3>2. digests \in [Loop!Days -> Nat]
        BY <3>1 DEF Loop!Init
      <3>3. LoopBooks
        BY <3>1 DEF Loop!Init, Loop!Days, LoopBooks
      <3>4. DelayBooks
        BY <3>1, PollAssumption DEF Loop!Init, DelayBooks
      <3>5. Loop!TypeOK
        <4>1. /\ day \in Loop!Days /\ lastDigest \in 0..MaxDays /\ kills \in 0..MaxKills
              /\ failures \in 0..MaxExponent
          BY <3>1, PollAssumption DEF Loop!Init, Loop!Days
        <4> QED BY <3>1, <3>2, <4>1 DEF Loop!Init, Loop!Gone, Loop!TypeOK
      <3> QED BY <3>3, <3>4, <3>5 DEF LoopType
    <2>2. Choice!TypeOK
      <3>1. Choice!Init
        BY DEF PartsInit
      <3>2. attempts \in [Ids -> 0..MaxAttempts] /\ left \in [Ids -> 0..Copies]
        BY <3>1 DEF Choice!Init, Choice!Zero
      <3>3. cache \in [Ids -> Choice!Grade \cup {Choice!Uncached}]
        BY <3>1 DEF Choice!Init
      <3> QED BY <3>1, <3>2, <3>3 DEF Choice!Init, Choice!TypeOK
    <2> QED BY <2>1, <2>2
  <1>2. part \in Parts /\ [PartsNext]_partsVars => (part \in Parts)'
    BY DEF PartsNext, Runs, partsVars
  <1>3. part \in Parts /\ LoopType /\ Choice!TypeOK /\ StoreType /\ TablesBooks /\ RestBooks => TypeOK
    BY DEF LoopType, StoreType, TablesBooks, RestBooks, TypeOK
  <1> QED BY <1>1, <1>2, <1>3, LoopAlone, LoopTypeStep, ChoiceAlone, ChoiceTypeStep,
             StoreInvariant, TablesInvariant, PartsRest, PTL DEF PartsSpec

=============================================================================
