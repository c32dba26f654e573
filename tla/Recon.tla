------------------------------- MODULE Recon -------------------------------
(***************************************************************************)
(* The portal reconnaissance (recon.py): one run with the account holder   *)
(* at the browser, in which a timer and her navigations take snapshots     *)
(* under a lock, and the end of the run takes one more without it.  A      *)
(* snapshot is several awaits: the document, then the frames, filed under  *)
(* a number that is read again after each of them, then the cookies.       *)
(*                                                                         *)
(* Pages are numbered in the order she visits them.                        *)
(***************************************************************************)
EXTENDS Naturals, FiniteSets, FiniteSetsExt

CONSTANTS
  MaxPages,   \* bound on the pages she visits
  MaxShots    \* bound on the snapshots begun

Tasks == {"timer", "nav", "final"}

VARIABLES
  main,       \* "capturing", "stopping", "final", "done"
  looping,    \* the timer's loop has not ended
  visited,    \* the page shown
  open,       \* the browser is open
  settling,   \* navigations whose snapshot still waits its 1.5 s
  snap,       \* each task's snapshot: its step and the number it began with
  lock,       \* snapshot_lock
  page_count, \* cap.page_count: the last number given out
  shots,      \* the snapshots begun: <<number, page shown then>>
  frames,     \* the frame files: <<number, page shown then>>
  cookies,    \* cookies.json is there
  verdict     \* the cookie replay's result

vars == <<main, looping, visited, open, settling, snap, lock, page_count, shots, frames, cookies, verdict>>

Free == "free"
Resting == [step |-> "none", number |-> 0]
\* The last tick of the timer and the end of the run go beyond the bound.
Numbers == 1..MaxShots + 2

TypeOK ==
  /\ main \in {"capturing", "stopping", "final", "done"} /\ looping \in BOOLEAN
  /\ visited \in 1..MaxPages /\ open \in BOOLEAN /\ settling \in 0..MaxPages
  /\ snap \in [Tasks -> [step : {"none", "frames", "cookies"}, number : Numbers \cup {0}]]
  /\ lock \in {Free, "timer", "nav"} /\ page_count \in Numbers \cup {0}
  /\ shots \subseteq Numbers \X (1..MaxPages) /\ frames \subseteq Numbers \X (1..MaxPages)
  /\ cookies \in BOOLEAN /\ verdict \in {"none", "inconclusive", "answered"}

Init ==
  /\ main = "capturing" /\ looping = TRUE /\ visited = 1 /\ open = TRUE /\ settling = 1
  /\ snap = [t \in Tasks |-> Resting] /\ lock = Free /\ page_count = 0
  /\ shots = {} /\ frames = {} /\ cookies = FALSE /\ verdict = "none"

-----------------------------------------------------------------------------
(* Her part                                                                *)

\* on_nav: a task is started that will wait for the page to settle.
Navigate ==
  /\ open /\ main = "capturing" /\ visited < MaxPages
  /\ visited' = visited + 1 /\ settling' = settling + 1
  /\ UNCHANGED <<main, looping, open, snap, lock, page_count, shots, frames, cookies, verdict>>

CloseBrowser ==
  /\ open /\ main # "done" /\ open' = FALSE
  /\ UNCHANGED <<main, looping, visited, settling, snap, lock, page_count, shots, frames, cookies, verdict>>

\* ENTER, or the browser closed: whichever comes first.
Finish ==
  /\ main = "capturing" /\ main' = "stopping"
  /\ UNCHANGED <<looping, visited, open, settling, snap, lock, page_count, shots, frames, cookies, verdict>>

-----------------------------------------------------------------------------
(* Snapshots                                                               *)

\* _snapshot_page up to its first frame: a closed page is not counted.  What
\* of the document can be read is filed; the number is used either way.
Take(t) ==
  IF open
  THEN /\ page_count' = page_count + 1
       /\ shots' = shots \cup {<<page_count', visited>>}
       /\ snap' = [snap EXCEPT ![t] = [step |-> "frames", number |-> page_count']]
  ELSE /\ snap' = [snap EXCEPT ![t].step = "cookies"]
       /\ UNCHANGED <<page_count, shots>>

\* A navigation has settled: it gives up if a snapshot is under way.
AfterNavUnlocked ==
  /\ settling > 0 /\ main # "done" /\ settling' = settling - 1
  /\ page_count < MaxShots /\ snap["nav"].step = "none" /\ lock' = "nav" /\ Take("nav")
  /\ UNCHANGED <<main, looping, visited, open, frames, cookies, verdict>>
AfterNav == lock = Free /\ AfterNavUnlocked

NavGivesUp ==
  /\ settling > 0 /\ main # "done" /\ lock # Free /\ settling' = settling - 1
  /\ UNCHANGED <<main, looping, visited, open, snap, lock, page_count, shots, frames, cookies, verdict>>

\* The timer's loop: a snapshot at every tick that finds the lock free, and
\* at the stop one more, if it was waiting for its tick.
KeepsForever == TRUE
KeepsLooping == main = "capturing"

Tick ==
  /\ main = "capturing" /\ page_count < MaxShots
  /\ lock = Free /\ lock' = "timer" /\ Take("timer")
  /\ UNCHANGED <<main, looping, visited, open, settling, frames, cookies, verdict>>

LastTick ==
  /\ main = "stopping" /\ looping /\ snap["timer"].step = "none"
  /\ IF lock = Free THEN lock' = "timer" /\ looping' = looping /\ Take("timer")
     ELSE looping' = KeepsLooping /\ UNCHANGED <<lock, snap, page_count, shots>>
  /\ UNCHANGED <<main, visited, open, settling, frames, cookies, verdict>>

\* Frames of the page as it is by now, under the number as it is by now.
Frames(t) ==
  /\ snap[t].step = "frames" /\ snap' = [snap EXCEPT ![t].step = "cookies"]
  /\ frames' \in {frames} \cup (IF open THEN {frames \cup {<<page_count, visited>>}} ELSE {})
  /\ UNCHANGED <<main, looping, visited, open, settling, lock, page_count, shots, cookies, verdict>>

\* _dump_cookies: a closed browser has none to give, and the file stays.
Cookies(t) ==
  /\ snap[t].step = "cookies" /\ snap' = [snap EXCEPT ![t] = Resting]
  /\ lock' = IF lock = t THEN Free ELSE lock
  /\ looping' = IF t = "timer" THEN KeepsLooping ELSE looping
  /\ cookies' \in {cookies, cookies \/ open}
  /\ main' = IF t = "final" THEN "done" ELSE main
  /\ verdict' = IF t # "final" THEN verdict
                ELSE IF cookies' THEN "answered" ELSE "inconclusive"
  /\ UNCHANGED <<visited, open, settling, page_count, shots, frames>>

\* The loop has been waited for; the last snapshot is taken without the lock.
Final ==
  /\ main = "stopping" /\ ~looping /\ main' = "final" /\ Take("final")
  /\ UNCHANGED <<looping, visited, open, settling, lock, frames, cookies, verdict>>

-----------------------------------------------------------------------------
Next ==
  \/ Navigate \/ CloseBrowser \/ Finish \/ AfterNav \/ NavGivesUp \/ Tick \/ LastTick \/ Final
  \/ \E t \in Tasks : Frames(t) \/ Cookies(t)

Spec == Init /\ [][Next]_vars

\* Awaits come back; she finishes, or closes the browser.
Fairness ==
  /\ WF_vars(Finish) /\ WF_vars(LastTick) /\ WF_vars(Final)
  /\ \A t \in Tasks : WF_vars(Frames(t) \/ Cookies(t))

FairSpec == Spec /\ Fairness

-----------------------------------------------------------------------------
(* Properties                                                              *)

\* Timer and navigations never work on two snapshots at once: until the run
\* ends, frames are filed under the number of the document they were read
\* with, though the number is read again after every await
\* (recon.py:327-343, 424-433, 446-483).
FramesWithDocument ==
  main \in {"capturing", "stopping"} =>
    \A t \in Tasks : snap[t].step = "frames" => snap[t].number = page_count

\* However the run ends, with the browser open or closed at any point, the
\* summary is written with the cookies it has, and a browser still open has
\* its last page captured, whatever the timer and the lock did
\* (recon.py:7-10, 369-392, 501).
RunEnds ==
  <>(/\ main = "done"
     /\ cookies <=> verdict = "answered"
     /\ open => \E shot \in shots : shot[2] = visited)

=============================================================================
