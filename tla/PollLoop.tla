------------------------------ MODULE PollLoop ------------------------------
(***************************************************************************)
(* The loop around a poll cycle (poller.py): what a cycle that fails, is   *)
(* skipped or completes does to the failure count, to the delay before the *)
(* next one and to the daily digest.  What happens inside a cycle is       *)
(* ClaimCycle's and AuthGate's; building the page cannot fail a cycle and  *)
(* is left out.                                                            *)
(*                                                                         *)
(* The failure count lives in memory and a restart forgets it; the pause   *)
(* and the date of the last digest are in the store.  A day is two halves, *)
(* before the digest hour and from it on.                                  *)
(*                                                                         *)
(* The delay is a float times a power of two.  A power beyond the floats   *)
(* cannot be converted, and next_delay is called outside the loop's try:   *)
(* the failure that reaches it ends the process.                           *)
(***************************************************************************)
EXTENDS Integers, FiniteSetsExt

CONSTANTS
  Polls,      \* poll settings: [interval |-> seconds, jitter |-> seconds]
  MaxBackoff, \* MAX_BACKOFF_SECONDS
  AlertAt,    \* FAILURES_BEFORE_ALERT
  MaxExponent,\* the least n for which 2 ** n is no float: 1024
  MaxDays,    \* bound on the days that pass
  MaxKills    \* bound on kills

VARIABLES
  poll,       \* config.poll
  stage,      \* where the process is; "ended" when an exception left the loop
  failures,   \* consecutive_failures
  alerts,     \* outage messages sent since the last full cycle or start
  delay,      \* what the loop sleeps, in seconds; 0 before the first cycle
  paused,     \* PAUSED_KEY
  day, late,  \* the local date, and whether the digest hour has come
  lastDigest, \* LAST_DIGEST_KEY; 0 when unset
  digests,    \* digests sent for each day
  kills

vars == <<poll, stage, failures, alerts, delay, paused, day, late, lastDigest, digests, kills>>

Days == 1..MaxDays
\* The stages in which run_once is under way.
Working == {"cycle", "digest", "sending"}
Gone == {"down", "ended"}

TypeOK ==
  /\ poll \in Polls
  /\ stage \in Working \cup Gone \cup {"awake", "asleep"}
  /\ failures \in 0..MaxExponent /\ alerts \in Nat /\ delay \in Nat
  /\ paused \in BOOLEAN
  /\ day \in Days /\ late \in BOOLEAN
  /\ lastDigest \in 0..MaxDays /\ digests \in [Days -> Nat] /\ kills \in 0..MaxKills

Init ==
  /\ poll \in Polls /\ stage = "down" /\ failures = 0 /\ alerts = 0 /\ delay = 0
  /\ paused = FALSE /\ day = 1 /\ late = FALSE
  /\ lastDigest = 0 /\ digests = [d \in Days |-> 0] /\ kills = 0

-----------------------------------------------------------------------------
\* next_delay: what the loop may sleep after n failures in a row.
Jitters == {-poll.jitter, 0, poll.jitter}
DelaysAfterTheFirst(n) ==
  IF n > 0 THEN {Min({poll.interval * 2^(n - 1), MaxBackoff})}
           ELSE {Max({1, poll.interval + j}) : j \in Jitters}
Delays(n) ==
  IF n > 0 THEN {Min({poll.interval * 2^n, MaxBackoff})}
           ELSE {Max({1, poll.interval + j}) : j \in Jitters}

\* run_once is over: the loop sleeps, or next_delay raises and main returns.
Rest(n) ==
  \/ n < MaxExponent /\ stage' = "asleep" /\ delay' \in Delays(n)
  \/ n >= MaxExponent /\ stage' = "ended" /\ delay' = delay

\* _run: a new loop, which knows of no failure.
Launch ==
  /\ stage \in Gone /\ stage' = "awake"
  /\ failures' = 0 /\ alerts' = 0
  /\ UNCHANGED <<poll, delay, paused, day, late, lastDigest, digests, kills>>

Kill ==
  /\ stage \notin Gone /\ kills < MaxKills
  /\ stage' = "down" /\ kills' = kills + 1
  /\ UNCHANGED <<poll, failures, alerts, delay, paused, day, late, lastDigest, digests>>

\* run_once returns early: paused, in quiet hours, or handed to a human.
Skip ==
  /\ stage = "awake" /\ Rest(failures)
  /\ UNCHANGED <<poll, failures, alerts, paused, day, late, lastDigest, digests, kills>>

Enter ==
  /\ stage = "awake" /\ ~paused /\ stage' = "cycle"
  /\ UNCHANGED <<poll, failures, alerts, delay, paused, day, late, lastDigest, digests, kills>>

\* An exception out of run_once, wherever it was: one more failure, and a
\* message at exactly the third.
MessageFrom(n) == n >= AlertAt
MessageAt(n) == n = AlertAt
Fail ==
  /\ stage \in Working
  /\ failures' = failures + 1
  /\ alerts' = alerts + IF MessageAt(failures') THEN 1 ELSE 0
  /\ Rest(failures')
  /\ UNCHANGED <<poll, paused, day, late, lastDigest, digests, kills>>

\* The shifts are dealt with: the count is reset and the cycle recorded.
Complete ==
  /\ stage = "cycle" /\ stage' = "digest"
  /\ failures' = 0 /\ alerts' = 0
  /\ UNCHANGED <<poll, delay, paused, day, late, lastDigest, digests, kills>>

DigestDue == late /\ lastDigest # day

\* _maybe_send_digest: not yet the hour, or today's has been sent.
NoDigest ==
  /\ stage = "digest" /\ ~DigestDue /\ Rest(failures)
  /\ UNCHANGED <<poll, failures, alerts, paused, day, late, lastDigest, digests, kills>>

\* The date is stored before the digest is put together and sent ...
MarkDigest ==
  /\ stage = "digest" /\ DigestDue /\ stage' = "sending"
  /\ lastDigest' = day
  /\ UNCHANGED <<poll, failures, alerts, delay, paused, day, late, digests, kills>>

SendUnmarked ==
  /\ stage = "sending" /\ Rest(failures)
  /\ digests' = [digests EXCEPT ![lastDigest] = @ + 1] /\ lastDigest' = 0
  /\ UNCHANGED <<poll, failures, alerts, paused, day, late, kills>>
\* ... for the day it was marked for, which may be over by now.
SendDigest ==
  /\ stage = "sending" /\ Rest(failures)
  /\ digests' = [digests EXCEPT ![lastDigest] = @ + 1]
  /\ UNCHANGED <<poll, failures, alerts, paused, day, late, lastDigest, kills>>

Wake ==
  /\ stage = "asleep" /\ stage' = "awake"
  /\ UNCHANGED <<poll, failures, alerts, delay, paused, day, late, lastDigest, digests, kills>>

-----------------------------------------------------------------------------
\* pause and resume, from the phone, the chat, the gate or a self-resume.
SetPaused ==
  /\ stage \notin Gone /\ paused' = ~paused
  /\ UNCHANGED <<poll, stage, failures, alerts, delay, day, late, lastDigest, digests, kills>>

Clock ==
  /\ IF late THEN day < MaxDays /\ day' = day + 1 ELSE day' = day
  /\ late' = ~late
  /\ UNCHANGED <<poll, stage, failures, alerts, delay, paused, lastDigest, digests, kills>>

-----------------------------------------------------------------------------
Loop == Launch \/ Skip \/ Enter \/ Fail \/ Complete \/ NoDigest \/ MarkDigest \/ SendDigest \/ Wake

Next == Loop \/ Kill \/ SetPaused \/ Clock

Spec == Init /\ [][Next]_vars

-----------------------------------------------------------------------------
(* Properties                                                              *)

\* She gets one message for an outage, however long it lasts and however many
\* skipped cycles lie in it, and none before the third failure; and a day
\* gets one digest at most, through restarts, failures and midnights
\* (poller.py:316-345, 526-539).
OneMessageEach ==
  /\ alerts = IF failures >= AlertAt THEN 1 ELSE 0
  /\ \A d \in Days : digests[d] <= 1

\* While the cap is above every healthy delay, a failing loop never polls
\* faster than a healthy one, and its delay never shrinks as failures mount.
\* The loop sleeps after every failure short of the one whose power of two no
\* float holds; at that one, and never before, it ends (poller.py:488-494, 542).
BacksOff ==
  /\ poll.interval + poll.jitter <= MaxBackoff =>
       (stage = "asleep" /\ failures > 0 =>
          /\ \A healthy \in Delays(0) : delay >= healthy
          /\ \A n \in 1..failures : \A d \in Delays(n) : delay >= d)
  /\ stage = "asleep" => delay >= 1
  /\ stage = "ended" <=> failures = MaxExponent

=============================================================================
