--------------------------- MODULE SessionsProofs ---------------------------
(***************************************************************************)
(* Proofs about the parts of MCSessions, for every value of their          *)
(* constants: every variable keeps its type, the chat thread is made of    *)
(* whole turns, a vision run is over in bounded time, a one-time code is   *)
(* the freshest, frames are filed with their document, and profiles stay   *)
(* whole.                                                                  *)
(***************************************************************************)
EXTENDS MCSessions, TLAPS

USE TurnAssumption, LimitAssumption, NameAssumption

-----------------------------------------------------------------------------
\* A step of the whole is a step of each part, or leaves it alone.
LEMMA PartsAlone ==
  [Next]_vars =>
    /\ [Hub!Next]_hubVars
    /\ [Flica!Next]_flicaVars
    /\ [Vision!Next]_visionVars
    /\ [Code!Next]_codeVars
    /\ [Capture!Next]_captureVars
    /\ [Wizard!Next]_wizardVars
  <1> SUFFICES ASSUME [Next]_vars
               PROVE  /\ [Hub!Next]_hubVars
                      /\ [Flica!Next]_flicaVars
                      /\ [Vision!Next]_visionVars
                      /\ [Code!Next]_codeVars
                      /\ [Capture!Next]_captureVars
                      /\ [Wizard!Next]_wizardVars
    OBVIOUS
  <1>1. ASSUME NEW p \in Parts, Runs(p)
        PROVE  /\ p # "hub" => UNCHANGED hubVars
               /\ p # "flica" => UNCHANGED flicaVars
               /\ p # "vision" => UNCHANGED visionVars
               /\ p # "code" => UNCHANGED codeVars
               /\ p # "capture" => UNCHANGED captureVars
               /\ p # "wizard" => UNCHANGED wizardVars
    BY <1>1 DEF Runs
  <1>2. UNCHANGED vars => UNCHANGED <<hubVars, flicaVars, visionVars, codeVars, captureVars, wizardVars>>
    BY DEF vars
  <1>3. "hub" \in Parts /\ "flica" \in Parts /\ "vision" \in Parts
        /\ "code" \in Parts /\ "capture" \in Parts /\ "wizard" \in Parts
    BY DEF Parts
  <1>4. CASE Runs("hub") /\ Hub!Next
    BY <1>1, <1>3, <1>4
  <1>5. CASE Runs("flica") /\ Flica!Next
    BY <1>1, <1>3, <1>5
  <1>6. CASE Runs("vision") /\ Vision!Next
    BY <1>1, <1>3, <1>6
  <1>7. CASE Runs("code") /\ Code!Next
    BY <1>1, <1>3, <1>7
  <1>8. CASE Runs("capture") /\ Capture!Next
    BY <1>1, <1>3, <1>8
  <1>9. CASE Runs("wizard") /\ Wizard!Next
    BY <1>1, <1>3, <1>9
  <1> QED BY <1>2, <1>4, <1>5, <1>6, <1>7, <1>8, <1>9 DEF Next

-----------------------------------------------------------------------------
(* The vision loop                                                         *)

\* Where a run is bounds the time it has taken, and the actions it has
\* carried out are those of the steps behind it.
VisionBooks ==
  /\ elapsed \in Nat /\ step \in Nat /\ performed \in Nat
  /\ visionAt \in {"check", "shot", "ask", "act", "ended"}
  /\ elapsed < TotalTimeout + 2 * BrowserTimeout + StepTimeout
  /\ visionAt # "ended" => performed + 1 = step /\ step <= MaxSteps + 1 /\ result = "none"
  /\ visionAt \in {"shot", "ask", "act"} => step <= MaxSteps
  /\ visionAt = "shot" => elapsed < TotalTimeout
  /\ visionAt = "ask" => elapsed < TotalTimeout + BrowserTimeout
  /\ visionAt = "act" => elapsed < TotalTimeout + BrowserTimeout + StepTimeout
  /\ visionAt = "ended" => step <= MaxSteps /\ performed <= MaxSteps
  /\ result = "success" => reply.type = "done" /\ performed + 1 = step

\* An await is over within its limit, and by then the clock has moved on by
\* no more than that.
LEMMA AwaitEnds ==
  ASSUME elapsed \in Nat, NEW limit \in Nat, Vision!Within(limit) \/ Vision!Expires(limit)
  PROVE  elapsed' \in Nat /\ elapsed' <= elapsed + limit
  BY DEF Vision!Within, Vision!Expires

\* Every step of a run keeps its books.
LEMMA VisionStep == VisionBooks /\ [Vision!Next]_visionVars => VisionBooks'
  <1> SUFFICES ASSUME VisionBooks, [Vision!Next]_visionVars PROVE VisionBooks'
    OBVIOUS
  <1>1. ASSUME Vision!Check PROVE VisionBooks'
    <2>1. visionAt = "check" /\ UNCHANGED <<elapsed, reply, performed>>
      BY <1>1 DEF Vision!Check
    <2>2. performed + 1 = step /\ step <= MaxSteps + 1 /\ result = "none" /\ step \in Nat /\ performed \in Nat
      BY <2>1 DEF VisionBooks
    <2>3. CASE step > MaxSteps
      <3>1. visionAt' = "ended" /\ result' = "failure" /\ step' = MaxSteps
        BY <1>1, <2>3 DEF Vision!Check, Vision!Stop
      <3> QED BY <2>1, <2>2, <3>1 DEF VisionBooks
    <2>4. CASE ~(step > MaxSteps) /\ elapsed >= TotalTimeout
      <3>1. visionAt' = "ended" /\ result' = "failure" /\ step' = step - 1
        BY <1>1, <2>4 DEF Vision!Check, Vision!Stop
      <3> QED BY <2>1, <2>2, <2>4, <3>1 DEF VisionBooks
    <2>5. CASE ~(step > MaxSteps) /\ ~(elapsed >= TotalTimeout)
      <3>1. visionAt' = "shot" /\ result' = result /\ step' = step
        BY <1>1, <2>5 DEF Vision!Check, Vision!Go
      <3>2. elapsed < TotalTimeout /\ step <= MaxSteps
        BY <2>2, <2>5 DEF VisionBooks
      <3> QED BY <2>1, <2>2, <3>1, <3>2 DEF VisionBooks
    <2> QED BY <2>3, <2>4, <2>5
  <1>2. ASSUME Vision!Screenshot PROVE VisionBooks'
    <2>1. visionAt = "shot" /\ UNCHANGED <<reply, performed>>
      BY <1>2 DEF Vision!Screenshot
    <2>2. /\ performed + 1 = step /\ step <= MaxSteps /\ result = "none"
          /\ step \in Nat /\ performed \in Nat /\ elapsed < TotalTimeout /\ elapsed \in Nat
      BY <2>1 DEF VisionBooks
    <2>3. elapsed' \in Nat /\ elapsed' <= elapsed + BrowserTimeout
      BY <1>2, <2>2, AwaitEnds DEF Vision!Screenshot
    <2>4. \/ visionAt' = "ask" /\ result' = result /\ step' = step
          \/ visionAt' = "ended" /\ result' \in {"failure", "raised"} /\ step' = step - 1
      BY <1>2 DEF Vision!Screenshot, Vision!Go, Vision!Stop
    <2> QED BY <2>1, <2>2, <2>3, <2>4 DEF VisionBooks
  <1>3. ASSUME Vision!Ask PROVE VisionBooks'
    <2>1. visionAt = "ask" /\ UNCHANGED performed
      BY <1>3 DEF Vision!Ask
    <2>2. /\ performed + 1 = step /\ step <= MaxSteps /\ result = "none"
          /\ step \in Nat /\ performed \in Nat /\ elapsed < TotalTimeout + BrowserTimeout /\ elapsed \in Nat
      BY <2>1 DEF VisionBooks
    <2>3. elapsed' \in Nat /\ elapsed' <= elapsed + StepTimeout
      BY <1>3, <2>2, AwaitEnds DEF Vision!Ask
    <2>4. \/ visionAt' = "act" /\ result' = result /\ step' = step
          \/ visionAt' = "ended" /\ result' \in {"failure", "raised"} /\ step' \in {step, step - 1}
          \/ visionAt' = "ended" /\ result' = "success" /\ step' = step /\ reply'.type = "done"
      <3>1. \/ \E r \in {x \in Vision!Replies : Vision!Accepted(x)} :
                 /\ reply' = r
                 /\ IF r.type \in {"done", "fail"}
                    THEN Vision!Stop(Vision!Ending(r.type), step) ELSE Vision!Go("act")
            \/ Vision!Stop("failure", step - 1) \/ Vision!Stop("raised", step - 1)
        BY <1>3 DEF Vision!Ask
      <3>2. CASE Vision!Stop("failure", step - 1) \/ Vision!Stop("raised", step - 1)
        BY <3>2 DEF Vision!Stop
      <3>3. ASSUME NEW r, reply' = r,
                   IF r.type \in {"done", "fail"}
                   THEN Vision!Stop(Vision!Ending(r.type), step) ELSE Vision!Go("act")
            PROVE  <2>4!1 \/ <2>4!2 \/ <2>4!3
        BY <3>3 DEF Vision!Stop, Vision!Go, Vision!Ending
      <3> QED BY <3>1, <3>2, <3>3
    <2> QED BY <2>1, <2>2, <2>3, <2>4 DEF VisionBooks
  <1>4. ASSUME Vision!Execute PROVE VisionBooks'
    <2>1. visionAt = "act" /\ reply' = reply
      BY <1>4 DEF Vision!Execute
    <2>2. /\ performed + 1 = step /\ step <= MaxSteps /\ result = "none"
          /\ step \in Nat /\ performed \in Nat /\ elapsed \in Nat
          /\ elapsed < TotalTimeout + BrowserTimeout + StepTimeout
      BY <2>1 DEF VisionBooks
    <2>3. elapsed' \in Nat /\ elapsed' <= elapsed + BrowserTimeout
      BY <1>4, <2>2, AwaitEnds DEF Vision!Execute
    <2>4. \/ visionAt' = "check" /\ performed' = performed + 1 /\ step' = step + 1 /\ result' = result
          \/ /\ visionAt' = "ended" /\ performed' \in {performed, performed + 1}
             /\ result' \in {"failure", "raised"} /\ step' = step
      BY <1>4 DEF Vision!Execute, Vision!NextStep, Vision!Stop
    <2> QED BY <2>1, <2>2, <2>3, <2>4 DEF VisionBooks
  <1>5. ASSUME UNCHANGED visionVars PROVE VisionBooks'
    BY <1>5 DEF visionVars, VisionBooks
  <1> QED BY <1>1, <1>2, <1>3, <1>4, <1>5 DEF Vision!Next

\* A run is over within the total limit, two browser calls and one reply,
\* after no more actions than it may take, and only "done" is a success, for
\* any limits (vision_loop.py:67-106).
THEOREM RunsAreBounded == Spec => []RunBounded
  <1>1. Init => VisionBooks
    BY DEF Init, Vision!Init, VisionBooks
  <1>2. VisionBooks => RunBounded
    BY DEF VisionBooks, RunBounded, Vision!RunBounded
  <1> QED BY <1>1, <1>2, PartsAlone, VisionStep, PTL DEF Spec

-----------------------------------------------------------------------------
(* The one-time code                                                       *)

\* Of the messages listed, those still to be fetched are named, and of the
\* others each came back empty or would not do, down to the one whose code is
\* the answer.
CodeBooks ==
  /\ clock \in Nat /\ mailbox \in Seq(Code!Messages)
  /\ view \in 0..Len(mailbox) /\ left \subseteq 1..view
  /\ status = "fetching" => \A k \in 1..view : k \in left \cup skipped \/ ~Code!Matches(mailbox[k])
  /\ status = "found" =>
       /\ answer \in 1..view /\ Code!Matches(mailbox[answer])
       /\ \A k \in answer + 1..view : k \in skipped \/ ~Code!Matches(mailbox[k])
  /\ status = "timeout" =>
       /\ \A k \in 1..view : k \in skipped \/ ~Code!Matches(mailbox[k])
       /\ clock + Interval >= Timeout

\* A message does exactly if it is from her sender, has a code and was sent
\* within the window.
LEMMA WhatMatches ==
  \A m \in Code!Messages :
    Code!Matches(m) <=> m.wanted /\ m.code /\ m.sent \in {"within", "now"}
  BY DEF Code!Matches, Code!IsRecent, Code!SentAt, Code!Messages, Code!Sent, Code!NoDate

\* Every step of the wait keeps its books.
LEMMA CodeStep == CodeBooks /\ [Code!Next]_codeVars => CodeBooks'
  <1> SUFFICES ASSUME CodeBooks, [Code!Next]_codeVars PROVE CodeBooks'
    OBVIOUS
  <1>0. Len(mailbox) \in Nat /\ view \in Nat
    BY DEF CodeBooks
  <1>1. ASSUME Code!Arrive PROVE CodeBooks'
    <2>1. PICK m \in Code!Messages : mailbox' = Append(mailbox, m)
      BY <1>1 DEF Code!Arrive
    <2>2. status \in Code!Calling /\ UNCHANGED <<clock, status, view, left, skipped, answer>>
      BY <1>1 DEF Code!Arrive
    <2>3. mailbox' \in Seq(Code!Messages) /\ Len(mailbox') = Len(mailbox) + 1
          /\ \A k \in 1..Len(mailbox) : mailbox'[k] = mailbox[k]
      BY <2>1 DEF CodeBooks
    <2> QED BY <1>0, <2>2, <2>3 DEF CodeBooks, Code!Calling
  <1>2. CASE Code!Pass \/ Code!Connect
    <2>1. /\ clock' \in Nat /\ UNCHANGED <<mailbox, view, left, skipped, answer>>
          /\ status' \in Code!Calling /\ (status' = "fetching" => status = "fetching")
      BY <1>2 DEF Code!Pass, Code!Connect, Code!Calling, CodeBooks
    <2> QED BY <2>1 DEF Code!Calling, CodeBooks
  <1>3. CASE Code!Break \/ UNCHANGED codeVars
    BY <1>3 DEF Code!Break, codeVars, CodeBooks
  <1>4. CASE Code!Search
    BY <1>0, <1>4 DEF Code!Search, CodeBooks
  <1>5. ASSUME NEW n \in left, Code!Empty(n) PROVE CodeBooks'
    BY <1>5 DEF Code!Empty, CodeBooks
  <1>6. ASSUME NEW n \in left, Code!Fetch(n) PROVE CodeBooks'
    <2>1. /\ status = "fetching" /\ left' = left \ {n} /\ \A k \in left : k <= n
          /\ UNCHANGED <<clock, mailbox, view, skipped>>
      BY <1>6 DEF Code!Fetch, Code!Newest
    <2>2. /\ n \in 1..view /\ left' \subseteq 1..view
          /\ \A k \in 1..view : k \in left \cup skipped \/ ~Code!Matches(mailbox[k])
      BY <2>1 DEF CodeBooks
    <2>3. CASE Code!Matches(mailbox[n])
      <3>1. status' = "found" /\ answer' = n
        BY <1>6, <2>3 DEF Code!Fetch
      <3>2. \A k \in n + 1..view : k \in 1..view /\ k \notin left
        BY <1>0, <2>1, <2>2
      <3> QED BY <2>1, <2>2, <2>3, <3>1, <3>2 DEF CodeBooks
    <2>4. CASE ~Code!Matches(mailbox[n])
      <3>1. status' = "fetching" /\ answer' = answer
        BY <1>6, <2>1, <2>4 DEF Code!Fetch
      <3> QED BY <2>1, <2>2, <2>4, <3>1 DEF CodeBooks
    <2> QED BY <2>3, <2>4
  <1>7. CASE Code!Retry
    <2>1. /\ status = "fetching" /\ left = {} /\ UNCHANGED <<mailbox, view, left, skipped, answer>>
          /\ \/ clock + Interval >= Timeout /\ status' = "timeout" /\ clock' = clock
             \/ status' = "searching" /\ clock' = clock + Interval
      BY <1>7 DEF Code!Retry, Code!OutOfTime
    <2>2. \A k \in 1..view : k \in skipped \/ ~Code!Matches(mailbox[k])
      BY <2>1 DEF CodeBooks
    <2> QED BY <2>1, <2>2 DEF CodeBooks
  <1> QED BY <1>1, <1>2, <1>3, <1>4, <1>5, <1>6, <1>7 DEF Code!Next

\* A code that is returned is in its window, and of the messages listed with
\* it no later one would do unless its fetch came back empty; the call gives
\* up only after a whole look in which no message read would do; for any
\* window, timeout and mailbox, and however long a call takes
\* (imap_otp.py:71-118).
THEOREM CodesAreFresh == Spec => []FreshestCode
  <1>1. Init => CodeBooks
    <2> SUFFICES ASSUME Code!Init PROVE CodeBooks
      BY DEF Init
    <2>1. mailbox = <<>> /\ Len(mailbox) = 0 /\ mailbox \in Seq(Code!Messages)
      BY DEF Code!Init
    <2> QED BY <2>1 DEF Code!Init, CodeBooks
  <1>2. CodeBooks => FreshestCode
    <2> SUFFICES ASSUME CodeBooks PROVE FreshestCode
      OBVIOUS
    <2> DEFINE Usable(n) == /\ mailbox[n].wanted /\ mailbox[n].code
                            /\ mailbox[n].sent \in {"within", "now"}
    <2>1. view \in Nat /\ \A k \in 1..view : mailbox[k] \in Code!Messages
      BY DEF CodeBooks
    <2>2. \A k \in 1..view : Usable(k) <=> Code!Matches(mailbox[k])
      BY <2>1, WhatMatches
    <2> HIDE DEF Usable
    <2>3. ASSUME status = "found"
          PROVE  Usable(answer) /\ \A k \in answer + 1..view : Usable(k) => k \in skipped
      <3>1. /\ answer \in 1..view /\ Code!Matches(mailbox[answer])
            /\ \A k \in answer + 1..view : k \in skipped \/ ~Code!Matches(mailbox[k])
        BY <2>3 DEF CodeBooks
      <3>2. \A k \in answer + 1..view : k \in 1..view
        BY <2>1, <3>1
      <3> QED BY <2>2, <3>1, <3>2
    <2>4. ASSUME status = "timeout"
          PROVE  /\ \A k \in 1..view : Usable(k) => k \in skipped
                 /\ clock + Interval >= Timeout
      BY <2>2, <2>4 DEF CodeBooks
    <2> QED BY <2>3, <2>4 DEF Usable, FreshestCode, Code!FreshestCode
  <1> QED BY <1>1, <1>2, PartsAlone, CodeStep, PTL DEF Spec

-----------------------------------------------------------------------------
(* The capture                                                             *)

\* Until the run ends only the task that holds the lock has a snapshot under
\* way, and its number is the last one given out.
CaptureBooks ==
  main \in {"capturing", "stopping"} =>
    /\ snap \in [Capture!Tasks -> [step : {"none", "frames", "cookies"}, number : Nat]]
    /\ page_count \in Nat
    /\ \A t \in Capture!Tasks : snap[t].step # "none" => lock = t
    /\ snap["final"].step = "none"
    /\ \A t \in Capture!Tasks : snap[t].step = "frames" => snap[t].number = page_count

\* A snapshot taken with the lock free is the only one.
LEMMA TakeAlone ==
  ASSUME CaptureBooks, main \in {"capturing", "stopping"}, lock = Capture!Free,
         NEW t \in {"timer", "nav"}, Capture!Take(t), lock' = t
  PROVE  CaptureBooks'
  <1>1. \A u \in Capture!Tasks : snap[u].step = "none"
    BY DEF CaptureBooks, Capture!Free, Capture!Tasks
  <1>2. snap \in [Capture!Tasks -> [step : {"none", "frames", "cookies"}, number : Nat]]
        /\ page_count \in Nat /\ t \in Capture!Tasks /\ t # "final"
    BY DEF CaptureBooks, Capture!Tasks
  <1>3. CASE open
    <2>1. /\ page_count' = page_count + 1
          /\ snap' = [snap EXCEPT ![t] = [step |-> "frames", number |-> page_count + 1]]
      BY <1>3 DEF Capture!Take
    <2>2. snap'[t].step = "frames" /\ snap'[t].number = page_count + 1
          /\ \A u \in Capture!Tasks \ {t} : snap'[u] = snap[u]
      BY <1>2, <2>1
    <2>3. snap' \in [Capture!Tasks -> [step : {"none", "frames", "cookies"}, number : Nat]]
      BY <1>2, <2>1
    <2>4. snap'["final"].step = "none"
      BY <1>1, <1>2, <2>2 DEF Capture!Tasks
    <2> QED BY <1>1, <1>2, <2>1, <2>2, <2>3, <2>4 DEF CaptureBooks
  <1>4. CASE ~open
    <2>1. page_count' = page_count /\ snap' = [snap EXCEPT ![t].step = "cookies"]
      BY <1>4 DEF Capture!Take
    <2>2. snap'[t].step = "cookies" /\ \A u \in Capture!Tasks \ {t} : snap'[u] = snap[u]
      BY <1>2, <2>1
    <2>3. snap' \in [Capture!Tasks -> [step : {"none", "frames", "cookies"}, number : Nat]]
      BY <1>2, <2>1
    <2>4. snap'["final"].step = "none"
      BY <1>1, <1>2, <2>2 DEF Capture!Tasks
    <2> QED BY <1>1, <1>2, <2>1, <2>2, <2>3, <2>4 DEF CaptureBooks
  <1> QED BY <1>3, <1>4

\* Every step of the capture keeps its books.
LEMMA CaptureStep == CaptureBooks /\ [Capture!Next]_captureVars => CaptureBooks'
  <1> SUFFICES ASSUME CaptureBooks, [Capture!Next]_captureVars PROVE CaptureBooks'
    OBVIOUS
  <1>1. ASSUME Capture!Navigate \/ Capture!CloseBrowser \/ Capture!Finish \/ Capture!NavGivesUp
        PROVE  CaptureBooks'
    BY <1>1 DEF Capture!Navigate, Capture!CloseBrowser, Capture!Finish, Capture!NavGivesUp, CaptureBooks
  <1>2. ASSUME Capture!AfterNav PROVE CaptureBooks'
    <2>1. /\ lock = Capture!Free /\ Capture!Take("nav") /\ lock' = "nav" /\ main' = main
      BY <1>2 DEF Capture!AfterNav, Capture!AfterNavUnlocked
    <2> QED BY <2>1, TakeAlone DEF CaptureBooks
  <1>3. ASSUME Capture!Tick PROVE CaptureBooks'
    <2>1. /\ lock = Capture!Free /\ Capture!Take("timer") /\ lock' = "timer" /\ main = "capturing"
      BY <1>3 DEF Capture!Tick
    <2> QED BY <2>1, TakeAlone
  <1>4. ASSUME Capture!LastTick PROVE CaptureBooks'
    <2>1. CASE lock = Capture!Free
      <3>1. /\ Capture!Take("timer") /\ lock' = "timer" /\ main = "stopping"
        BY <1>4, <2>1 DEF Capture!LastTick
      <3> QED BY <2>1, <3>1, TakeAlone
    <2>2. CASE lock # Capture!Free
      BY <1>4, <2>2 DEF Capture!LastTick, CaptureBooks
    <2> QED BY <2>1, <2>2
  <1>5. ASSUME NEW t \in Capture!Tasks, Capture!Frames(t) PROVE CaptureBooks'
    <2> SUFFICES ASSUME main \in {"capturing", "stopping"} PROVE CaptureBooks'
      BY <1>5 DEF Capture!Frames, CaptureBooks
    <2>1. /\ snap[t].step = "frames" /\ snap' = [snap EXCEPT ![t].step = "cookies"]
          /\ UNCHANGED <<main, lock, page_count>>
      BY <1>5 DEF Capture!Frames
    <2>2. snap'[t].step = "cookies" /\ \A u \in Capture!Tasks \ {t} : snap'[u] = snap[u]
      BY <2>1 DEF CaptureBooks
    <2>3. snap' \in [Capture!Tasks -> [step : {"none", "frames", "cookies"}, number : Nat]]
      BY <2>1 DEF CaptureBooks
    <2>4. t # "final" /\ "final" \in Capture!Tasks
      BY <2>1 DEF CaptureBooks, Capture!Tasks
    <2> QED BY <2>1, <2>2, <2>3, <2>4 DEF CaptureBooks
  <1>6. ASSUME NEW t \in Capture!Tasks, Capture!Cookies(t) PROVE CaptureBooks'
    <2> SUFFICES ASSUME main' \in {"capturing", "stopping"} PROVE CaptureBooks'
      BY DEF CaptureBooks
    <2>1. main' = main
      BY <1>6 DEF Capture!Cookies
    <2>2. /\ snap[t].step = "cookies" /\ snap' = [snap EXCEPT ![t] = Capture!Resting]
          /\ lock' = (IF lock = t THEN Capture!Free ELSE lock) /\ page_count' = page_count
      BY <1>6 DEF Capture!Cookies
    <2>3. snap'[t].step = "none" /\ \A u \in Capture!Tasks \ {t} : snap'[u] = snap[u]
      BY <2>1, <2>2 DEF CaptureBooks, Capture!Resting
    <2>4. snap' \in [Capture!Tasks -> [step : {"none", "frames", "cookies"}, number : Nat]]
      BY <2>1, <2>2 DEF CaptureBooks, Capture!Resting
    <2>5. \A u \in Capture!Tasks \ {t} : snap[u].step = "none"
      BY <2>1, <2>2 DEF CaptureBooks
    <2>6. "final" \in Capture!Tasks
      BY DEF Capture!Tasks
    <2> QED BY <2>1, <2>2, <2>3, <2>4, <2>5, <2>6 DEF CaptureBooks
  <1>7. ASSUME Capture!Final PROVE CaptureBooks'
    BY <1>7 DEF Capture!Final, CaptureBooks
  <1>8. ASSUME UNCHANGED captureVars PROVE CaptureBooks'
    BY <1>8 DEF captureVars, CaptureBooks
  <1> QED BY <1>1, <1>2, <1>3, <1>4, <1>5, <1>6, <1>7, <1>8 DEF Capture!Next

\* Until the run ends frames are filed under the number of the document they
\* were read with, for any number of pages and snapshots
\* (recon.py:327-343, 424-433, 446-483).
THEOREM FramesAreFiled == Spec => []FramesWithDocument
  <1>1. Init => CaptureBooks
    BY DEF Init, Capture!Init, CaptureBooks, Capture!Resting, Capture!Tasks
  <1>2. CaptureBooks => FramesWithDocument
    BY DEF CaptureBooks, FramesWithDocument, Capture!FramesWithDocument
  <1> QED BY <1>1, <1>2, PartsAlone, CaptureStep, PTL DEF Spec

-----------------------------------------------------------------------------
(* The conversation                                                        *)

\* The shapes of the thread, the stages and the queues.
HubType ==
  /\ thread \in Seq(Hub!Rows) /\ turnStage \in [Hub!Turns -> Hub!Stages]
  /\ waiters \in Seq(Hub!Turns) /\ heard \in [Hub!Turns -> Nat]
  /\ inbox \in Seq(Texted \cup {Pause})

\* Her message of turn t is the last line of the thread.
Waits(t) == Len(thread) > 0 /\ thread[Len(thread)] = Hub!Row(t, "user", Hub!Source(t))

\* Only the turn that holds the lock is inside post; until it has its answer
\* its message is the last line, and the model was given all of it.
HubBooks ==
  /\ \A t \in Hub!Turns : turnStage[t] \in Hub!Inside => holder = t
  /\ \A t \in Hub!Turns : turnStage[t] \in {"mirroring", "thinking"} => Waits(t)
  /\ \A t \in Hub!Turns : turnStage[t] = "thinking" => heard[t] = Len(thread)
  /\ \A i \in 1..Len(thread) :
       thread[i].role = "agent" =>
         i > 1 /\ thread[i - 1].role = "user" /\ thread[i - 1].turn = thread[i].turn

\* A step that leaves the thread alone, and lets no turn into post or into a
\* later stage of it.
LEMMA HubKept ==
  ASSUME HubType, HubBooks, UNCHANGED <<thread, heard>>,
         \A t \in Hub!Turns :
           /\ turnStage'[t] \in Hub!Inside => turnStage[t] \in Hub!Inside /\ holder' = holder
           /\ turnStage'[t] \in {"mirroring", "thinking"} => turnStage'[t] = turnStage[t]
  PROVE  HubBooks'
  <1>1. \A t \in Hub!Turns : Waits(t)' <=> Waits(t)
    BY DEF Waits
  <1> QED BY <1>1 DEF HubBooks

\* A line appended to the thread leaves those before it where they were.
LEMMA LineAppended ==
  ASSUME HubType, NEW r \in Hub!Rows, thread' = Append(thread, r)
  PROVE  /\ Len(thread) \in Nat /\ Len(thread') = Len(thread) + 1
         /\ thread'[Len(thread) + 1] = r
         /\ \A i \in 1..Len(thread) : thread'[i] = thread[i]
         /\ thread' \in Seq(Hub!Rows)
  BY DEF HubType

\* What is appended to a thread is a row.
LEMMA RowsAreRows ==
  ASSUME NEW t \in Hub!Turns, NEW role \in {"user", "agent"},
         NEW source \in {"dashboard", "telegram", "system"}
  PROVE  /\ Hub!Row(t, role, source) \in Hub!Rows
         /\ Hub!Row(t, role, source).role = role /\ Hub!Row(t, role, source).turn = t
  BY DEF Hub!Row, Hub!Rows

\* Where a turn came in is one of the sources.
LEMMA SourceType == \A t : Hub!Source(t) \in {"dashboard", "telegram", "system"}
  BY DEF Hub!Source

\* An answer that is stored by the turn that holds the lock, which leaves the
\* thinking, stands behind its message.
LEMMA AnswerBooks ==
  ASSUME HubType, HubBooks, NEW t \in Hub!Turns, turnStage[t] = "thinking",
         NEW source \in {"dashboard", "telegram", "system"}, NEW s \in {"echoing", "sending", "done"},
         thread' = Append(thread, Hub!Row(t, "agent", source)),
         turnStage' = [turnStage EXCEPT ![t] = s],
         s = "echoing" => holder' = t
  PROVE  HubBooks'
  <1> DEFINE r == Hub!Row(t, "agent", source)
  <1>1. r \in Hub!Rows /\ r.role = "agent" /\ r.turn = t
    BY RowsAreRows
  <1>2. /\ Len(thread) \in Nat /\ Len(thread') = Len(thread) + 1
        /\ thread'[Len(thread) + 1] = r
        /\ \A i \in 1..Len(thread) : thread'[i] = thread[i]
    BY <1>1, LineAppended
  <1> HIDE DEF r
  <1>3. turnStage'[t] = s /\ \A u \in Hub!Turns \ {t} : turnStage'[u] = turnStage[u]
    BY DEF HubType
  <1>4. \A u \in Hub!Turns \ {t} : turnStage[u] \notin Hub!Inside
    BY DEF HubBooks, Hub!Inside
  <1>5. Len(thread) > 0 /\ thread[Len(thread)].role = "user" /\ thread[Len(thread)].turn = t
    BY RowsAreRows, SourceType DEF HubBooks, Waits
  <1>6. \A u \in Hub!Turns : turnStage'[u] \in Hub!Inside => holder' = u
    BY <1>3, <1>4 DEF Hub!Inside
  <1>7. \A u \in Hub!Turns : turnStage'[u] \notin {"mirroring", "thinking"}
    BY <1>3, <1>4 DEF Hub!Inside
  <1>8. ASSUME NEW i \in 1..Len(thread'), thread'[i].role = "agent"
        PROVE  i > 1 /\ thread'[i - 1].role = "user" /\ thread'[i - 1].turn = thread'[i].turn
    <2>1. CASE i = Len(thread) + 1
      BY <1>1, <1>2, <1>5, <2>1
    <2>2. CASE i # Len(thread) + 1
      <3>1. i \in 1..Len(thread) /\ thread[i].role = "agent"
        BY <1>2, <1>8, <2>2
      <3>2. i > 1 /\ thread[i - 1].role = "user" /\ thread[i - 1].turn = thread[i].turn
        BY <3>1 DEF HubBooks
      <3>3. i - 1 \in 1..Len(thread)
        BY <3>1, <3>2
      <3> QED BY <1>2, <3>1, <3>2, <3>3
    <2> QED BY <2>1, <2>2
  <1> QED BY <1>6, <1>7, <1>8 DEF HubBooks

\* A turn that gets the free lock puts its message at the end of a thread in
\* which every answer has its place.
LEMMA AcquireBooks ==
  ASSUME HubType, HubBooks, NEW t \in Hub!Turns, holder = NoTurn, Hub!AcquireUnlocked(t)
  PROVE  HubBooks'
  <1> DEFINE r == Hub!Row(t, "user", Hub!Source(t))
  <1>1. r \in Hub!Rows /\ r.role = "user" /\ thread' = Append(thread, r) /\ holder' = t
    BY RowsAreRows, SourceType DEF Hub!AcquireUnlocked
  <1>2. /\ Len(thread) \in Nat /\ Len(thread') = Len(thread) + 1
        /\ thread'[Len(thread) + 1] = r
        /\ \A i \in 1..Len(thread) : thread'[i] = thread[i]
    BY <1>1, LineAppended
  <1>3. Waits(t)'
    BY <1>2 DEF Waits
  <1> HIDE DEF r
  <1>4. \A u \in Hub!Turns : turnStage[u] \notin Hub!Inside
    BY DEF HubBooks, Hub!Turns
  <1>5. \A u \in Hub!Turns \ {t} : turnStage'[u] = turnStage[u]
    BY DEF HubType, Hub!AcquireUnlocked, Hub!To
  <1>6. turnStage'[t] = "thinking" => heard'[t] = Len(thread')
    BY DEF HubType, Hub!AcquireUnlocked, Hub!To, Hub!Hear
  <1>7. ASSUME NEW i \in 1..Len(thread'), thread'[i].role = "agent"
        PROVE  i > 1 /\ thread'[i - 1].role = "user" /\ thread'[i - 1].turn = thread'[i].turn
    <2>1. i \in 1..Len(thread) /\ thread[i].role = "agent"
      BY <1>1, <1>2, <1>7
    <2>2. i > 1 /\ thread[i - 1].role = "user" /\ thread[i - 1].turn = thread[i].turn
      BY <2>1 DEF HubBooks
    <2>3. i - 1 \in 1..Len(thread)
      BY <2>1, <2>2
    <2> QED BY <1>2, <2>1, <2>2, <2>3
  <1>8. \A u \in Hub!Turns : turnStage'[u] \in Hub!Inside => u = t
    BY <1>4, <1>5
  <1>9. {"mirroring", "thinking"} \subseteq Hub!Inside
    BY DEF Hub!Inside
  <1> QED BY <1>1, <1>3, <1>6, <1>7, <1>8, <1>9 DEF HubBooks

\* Every step of the hub keeps the shapes.
LEMMA HubTypeStep == HubType /\ [Hub!Next]_hubVars => HubType'
  <1> SUFFICES ASSUME HubType, [Hub!Next]_hubVars PROVE HubType'
    OBVIOUS
  <1> USE DEF HubType
  <1>0. ASSUME NEW t, NEW s \in Hub!Stages, Hub!To(t, s)
        PROVE  turnStage' \in [Hub!Turns -> Hub!Stages]
    BY <1>0 DEF Hub!To
  <1>1. ASSUME NEW t \in Hub!Turns, Hub!Submit(t) \/ Hub!SubmitBlank(t) \/ Hub!GiveUp(t) PROVE HubType'
    <2>1. turnStage' \in [Hub!Turns -> Hub!Stages]
      BY <1>0, <1>1 DEF Hub!Submit, Hub!SubmitBlank, Hub!GiveUp, Hub!Stages
    <2>2. waiters' \in {waiters, Append(waiters, t)} /\ UNCHANGED <<thread, heard, inbox>>
      BY <1>1 DEF Hub!Submit, Hub!SubmitBlank, Hub!GiveUp
    <2>3. Append(waiters, t) \in Seq(Hub!Turns)
      OBVIOUS
    <2> QED BY <2>1, <2>2, <2>3
  <1>2. ASSUME NEW t \in Hub!Turns, Hub!Write(t) PROVE HubType'
    <2>1. turnStage' \in [Hub!Turns -> Hub!Stages]
      BY <1>0, <1>2 DEF Hub!Write, Hub!Stages
    <2>2. inbox' \in Seq(Texted \cup {Pause}) /\ UNCHANGED <<thread, heard, waiters>>
      BY <1>2 DEF Hub!Write
    <2> QED BY <2>1, <2>2
  <1>3. ASSUME Hub!WritePause \/ Hub!TakePause PROVE HubType'
    <2>1. CASE Hub!WritePause
      <3>1. Append(inbox, Pause) \in Seq(Texted \cup {Pause})
        OBVIOUS
      <3> QED BY <2>1, <3>1 DEF Hub!WritePause
    <2>2. CASE Hub!TakePause
      <3>1. inbox # <<>> /\ inbox' = Tail(inbox)
        BY <2>2 DEF Hub!TakePause
      <3>2. inbox' \in Seq(Texted \cup {Pause})
        BY <3>1
      <3> QED BY <2>2, <3>2 DEF Hub!TakePause
    <2> QED BY <1>3, <2>1, <2>2
  <1>4. ASSUME Hub!TakeText PROVE HubType'
    <2>1. inbox # <<>> /\ Head(inbox) # Pause /\ inbox' = Tail(inbox)
          /\ Hub!To(Head(inbox), "queued") /\ waiters' = Append(waiters, Head(inbox))
          /\ UNCHANGED <<thread, heard>>
      BY <1>4 DEF Hub!TakeText
    <2>2. Head(inbox) \in Texted \cup {Pause} /\ inbox' \in Seq(Texted \cup {Pause})
      BY <2>1
    <2>3. Head(inbox) \in Hub!Turns
      BY <2>1, <2>2 DEF Hub!Turns
    <2>4. waiters' \in Seq(Hub!Turns)
      BY <2>1, <2>3
    <2>5. turnStage' \in [Hub!Turns -> Hub!Stages]
      BY <1>0, <2>1 DEF Hub!Stages
    <2> QED BY <2>1, <2>2, <2>4, <2>5
  <1>5. ASSUME NEW t \in Hub!Turns, Hub!Acquire(t) PROVE HubType'
    <2> DEFINE r == Hub!Row(t, "user", Hub!Source(t))
    <2>1. r \in Hub!Rows /\ thread' = Append(thread, r)
      BY <1>5, RowsAreRows, SourceType DEF Hub!Acquire, Hub!AcquireUnlocked
    <2> HIDE DEF r
    <2>2. thread' \in Seq(Hub!Rows) /\ Len(thread') \in Nat
      BY <2>1
    <2>3. waiters' \in Seq(Hub!Turns) /\ inbox' = inbox
      BY <1>5 DEF Hub!Acquire, Hub!AcquireUnlocked
    <2>4. turnStage' \in [Hub!Turns -> Hub!Stages]
      BY <1>0, <1>5 DEF Hub!Acquire, Hub!AcquireUnlocked, Hub!Stages
    <2>5. heard' \in [Hub!Turns -> Nat]
      BY <1>5, <2>2 DEF Hub!Acquire, Hub!AcquireUnlocked, Hub!Hear
    <2> QED BY <2>2, <2>3, <2>4, <2>5
  <1>6. ASSUME NEW t \in Hub!Turns, Hub!Mirrored(t) PROVE HubType'
    <2>1. thread' = thread /\ Len(thread) \in Nat
      BY <1>6 DEF Hub!Mirrored
    <2>2. heard' \in [Hub!Turns -> Nat]
      BY <1>6, <2>1 DEF Hub!Mirrored, Hub!Hear
    <2>3. turnStage' \in [Hub!Turns -> Hub!Stages]
      BY <1>0, <1>6 DEF Hub!Mirrored, Hub!Stages
    <2> QED BY <1>6, <2>1, <2>2, <2>3 DEF Hub!Mirrored
  <1>7. ASSUME NEW t \in Hub!Turns, NEW source \in {"dashboard", "telegram", "system"},
               thread' = Append(thread, Hub!Row(t, "agent", source))
        PROVE  thread' \in Seq(Hub!Rows)
    BY <1>7, RowsAreRows, LineAppended
  <1>8. ASSUME NEW t \in Hub!Turns, Hub!Answer(t) \/ Hub!Fail(t) PROVE HubType'
    <2>1. thread' \in Seq(Hub!Rows)
      BY <1>7, <1>8, SourceType DEF Hub!Answer, Hub!Fail
    <2>2. turnStage' \in [Hub!Turns -> Hub!Stages]
      BY <1>0, <1>8 DEF Hub!Answer, Hub!Fail, Hub!Stages
    <2> QED BY <1>8, <2>1, <2>2 DEF Hub!Answer, Hub!Fail
  <1>9. ASSUME NEW t \in Hub!Turns, Hub!UseTools(t) \/ Hub!SayNothing(t) \/ Hub!Echoed(t) \/ Hub!Sent(t)
        PROVE  HubType'
    <2>1. turnStage' \in [Hub!Turns -> Hub!Stages]
      BY <1>0, <1>9 DEF Hub!UseTools, Hub!SayNothing, Hub!Echoed, Hub!Sent, Hub!Stages
    <2> QED BY <1>9, <2>1 DEF Hub!UseTools, Hub!SayNothing, Hub!Echoed, Hub!Sent
  <1>10. ASSUME UNCHANGED hubVars PROVE HubType'
    BY <1>10 DEF hubVars
  <1> QED
    BY <1>1, <1>2, <1>3, <1>4, <1>5, <1>6, <1>8, <1>9, <1>10 DEF Hub!Next, Hub!People, Hub!Post

\* Every step of the hub keeps its books.
LEMMA HubStep == HubType /\ HubBooks /\ [Hub!Next]_hubVars => HubBooks'
  <1> SUFFICES ASSUME HubType, HubBooks, [Hub!Next]_hubVars PROVE HubBooks'
    OBVIOUS
  <1>0. ASSUME NEW t, NEW s \in Hub!Stages \ Hub!Inside, Hub!To(t, s), UNCHANGED <<thread, heard>>,
               \A u \in Hub!Turns \ {t} : turnStage[u] \in Hub!Inside => holder' = holder
        PROVE  HubBooks'
    <2>1. \A u \in Hub!Turns : turnStage'[u] = IF u = t THEN s ELSE turnStage[u]
      BY <1>0 DEF HubType, Hub!To
    <2>2. {"mirroring", "thinking"} \subseteq Hub!Inside
      BY DEF Hub!Inside
    <2> QED BY <1>0, <2>1, <2>2, HubKept
  <1>1. ASSUME NEW t \in Hub!Turns, Hub!Submit(t) \/ Hub!SubmitBlank(t) \/ Hub!Write(t) PROVE HubBooks'
    BY <1>0, <1>1 DEF Hub!Submit, Hub!SubmitBlank, Hub!Write, Hub!Stages, Hub!Inside
  <1>2. ASSUME Hub!WritePause \/ Hub!TakePause \/ UNCHANGED hubVars
               \/ \E t \in Hub!Turns : Hub!GiveUp(t) \/ Hub!UseTools(t)
        PROVE  HubBooks'
    <2>1. UNCHANGED <<thread, heard, turnStage, holder>>
      BY <1>2 DEF Hub!WritePause, Hub!TakePause, hubVars, Hub!GiveUp, Hub!UseTools
    <2> QED BY <2>1, HubKept
  <1>3. ASSUME Hub!TakeText PROVE HubBooks'
    BY <1>0, <1>3 DEF Hub!TakeText, Hub!Stages, Hub!Inside
  <1>4. ASSUME NEW t \in Hub!Turns, Hub!Acquire(t) PROVE HubBooks'
    BY <1>4, AcquireBooks DEF Hub!Acquire
  <1>5. ASSUME NEW t \in Hub!Turns, Hub!Mirrored(t) PROVE HubBooks'
    <2>1. /\ turnStage[t] = "mirroring" /\ UNCHANGED <<thread, holder>>
          /\ turnStage' = [turnStage EXCEPT ![t] = "thinking"]
          /\ heard' = [heard EXCEPT ![t] = Len(thread)]
      BY <1>5 DEF Hub!Mirrored, Hub!To, Hub!Hear
    <2>2. turnStage'[t] = "thinking" /\ heard'[t] = Len(thread)
          /\ \A u \in Hub!Turns \ {t} : turnStage'[u] = turnStage[u] /\ heard'[u] = heard[u]
      BY <2>1 DEF HubType
    <2>3. "mirroring" \in Hub!Inside /\ \A u \in Hub!Turns : Waits(u)' <=> Waits(u)
      BY <2>1 DEF Hub!Inside, Waits
    <2> QED BY <2>1, <2>2, <2>3 DEF HubBooks
  <1>6. ASSUME NEW t \in Hub!Turns, Hub!Answer(t) PROVE HubBooks'
    <2>1. /\ turnStage[t] = "thinking" /\ thread' = Append(thread, Hub!Row(t, "agent", Hub!Source(t)))
      BY <1>6 DEF Hub!Answer
    <2>2. CASE t \in Typed
      <3>1. turnStage' = [turnStage EXCEPT ![t] = "echoing"] /\ holder' = t
        BY <1>6, <2>2 DEF Hub!Answer, Hub!To
      <3> QED BY <2>1, <3>1, AnswerBooks, SourceType
    <2>3. CASE t \notin Typed
      <3>1. turnStage' = [turnStage EXCEPT ![t] = "sending"]
        BY <1>6, <2>3 DEF Hub!Answer, Hub!To
      <3> QED BY <2>1, <3>1, AnswerBooks, SourceType
    <2> QED BY <2>2, <2>3
  <1>7. ASSUME NEW t \in Hub!Turns, Hub!Fail(t) PROVE HubBooks'
    <2>1. /\ turnStage[t] = "thinking" /\ thread' = Append(thread, Hub!Row(t, "agent", "system"))
      BY <1>7 DEF Hub!Fail
    <2>2. PICK s \in {"done", "sending"} : turnStage' = [turnStage EXCEPT ![t] = s]
      BY <1>7 DEF Hub!Fail, Hub!To
    <2> QED BY <2>1, <2>2, AnswerBooks
  <1>8. ASSUME NEW t \in Hub!Turns, Hub!SayNothing(t) \/ Hub!Echoed(t) PROVE HubBooks'
    <2>1. turnStage[t] \in Hub!Inside /\ Hub!To(t, "done") /\ UNCHANGED <<thread, heard>>
      BY <1>8 DEF Hub!SayNothing, Hub!Echoed, Hub!Inside
    <2>2. \A u \in Hub!Turns \ {t} : turnStage[u] \notin Hub!Inside
      BY <2>1 DEF HubBooks
    <2>3. "done" \in Hub!Stages \ Hub!Inside
      BY DEF Hub!Stages, Hub!Inside
    <2> QED BY <1>0, <2>1, <2>2, <2>3
  <1>9. ASSUME NEW t \in Hub!Turns, Hub!Sent(t) PROVE HubBooks'
    BY <1>0, <1>9 DEF Hub!Sent, Hub!Stages, Hub!Inside
  <1> QED
    BY <1>1, <1>2, <1>3, <1>4, <1>5, <1>6, <1>7, <1>8, <1>9 DEF Hub!Next, Hub!People, Hub!Post

\* However the two front doors race, the thread is a sequence of whole turns
\* and the model is given each of them with its own message last, for any
\* number of turns (hub.py:12-14, 74-105).
THEOREM TurnsAreWhole == Spec => []WholeTurns
  <1>1. Init => HubType /\ HubBooks
    <2> SUFFICES ASSUME Hub!Init PROVE HubType /\ HubBooks
      BY DEF Init
    <2>1. thread = <<>> /\ Len(thread) = 0 /\ thread \in Seq(Hub!Rows)
          /\ waiters \in Seq(Hub!Turns) /\ inbox \in Seq(Texted \cup {Pause})
      BY DEF Hub!Init
    <2>2. HubType
      BY <2>1 DEF Hub!Init, HubType, Hub!Stages
    <2>3. \A t \in Hub!Turns : turnStage[t] = "unsent"
      BY DEF Hub!Init
    <2> QED BY <2>1, <2>2, <2>3 DEF HubBooks, Hub!Inside
  <1>2. HubType /\ HubBooks => WholeTurns
    <2> SUFFICES ASSUME HubType, HubBooks PROVE WholeTurns
      OBVIOUS
    <2>1. DOMAIN thread = 1..Len(thread)
      BY DEF HubType
    <2> QED BY <2>1 DEF HubBooks, Waits, WholeTurns, Hub!WholeTurns
  <1> QED BY <1>1, <1>2, PartsAlone, HubTypeStep, HubStep, PTL DEF Spec

-----------------------------------------------------------------------------
(* The profiles                                                            *)

\* What is offered, and what is chosen, is on disk or was edited by hand; a
\* save under way has a directory to fill.
WizardBooks ==
  /\ disk \in [Wizard!Slugs -> {"absent", "empty", "broken"} \cup ProfileNames]
  /\ edited \subseteq Wizard!Slugs /\ listed \subseteq Wizard!Slugs
  /\ job \in [Tabs -> Wizard!Posts]
  /\ \A p \in Tabs : job[p].step = "saving" => Slug[job[p].name] \in Wizard!Slugs
  /\ \A s \in Wizard!Slugs : disk[s] = "broken" => s \in edited
  /\ \A s \in listed : s \in edited \/ disk[s] \in ProfileNames
  /\ chosen # NoSlug =>
       chosen \in Wizard!Slugs /\ (chosen \in edited \/ disk[chosen] \in ProfileNames)

\* A step that leaves the profiles alone, and offers and chooses what it did.
LEMMA WizardKept ==
  ASSUME WizardBooks, UNCHANGED <<disk, edited, listed, chosen>>,
         job' \in [Tabs -> Wizard!Posts],
         \A p \in Tabs : job'[p].step = "saving" => Slug[job'[p].name] \in Wizard!Slugs
  PROVE  WizardBooks'
  BY DEF WizardBooks

\* No save is under way, or those that are were before.
LEMMA JobsKept ==
  ASSUME WizardBooks,
         job' \in {job, [p \in Tabs |-> Wizard!NoPost]}
                  \cup {[job EXCEPT ![p] = Wizard!NoPost] : p \in Tabs}
  PROVE  /\ job' \in [Tabs -> Wizard!Posts]
         /\ \A p \in Tabs : job'[p].step = "saving" => Slug[job'[p].name] \in Wizard!Slugs
  <1>1. Wizard!NoPost \in Wizard!Posts /\ Wizard!NoPost.step # "saving"
    BY DEF Wizard!NoPost, Wizard!Posts
  <1> QED BY <1>1 DEF WizardBooks

\* The profiles that load are on disk, and the pages may offer them.
LEMMA ListIsSound ==
  Wizard!ListProfiles \subseteq Wizard!Slugs /\ \A s \in Wizard!ListProfiles : disk[s] \in ProfileNames
  BY DEF Wizard!ListProfiles, Wizard!Loads

\* Every step of the wizard keeps its books.
LEMMA WizardStep == WizardBooks /\ [Wizard!Next]_wizardVars => WizardBooks'
  <1> SUFFICES ASSUME WizardBooks, [Wizard!Next]_wizardVars PROVE WizardBooks'
    OBVIOUS
  <1>0. ASSUME Wizard!OpenWindow, UNCHANGED <<disk, edited, job>> PROVE WizardBooks'
    <2>1. listed' = Wizard!ListProfiles /\ chosen' = NoSlug
      BY <1>0 DEF Wizard!OpenWindow
    <2>2. listed' \subseteq Wizard!Slugs /\ \A s \in listed' : disk[s] \in ProfileNames
      BY <2>1, ListIsSound
    <2> QED BY <1>0, <2>1, <2>2 DEF WizardBooks
  <1>1. ASSUME Wizard!FirstRun PROVE WizardBooks'
    <2>1. UNCHANGED <<disk, edited, job>>
      BY <1>1 DEF Wizard!FirstRun
    <2>2. Wizard!OpenWindow \/ UNCHANGED <<listed, chosen>>
      BY <1>1 DEF Wizard!FirstRun
    <2> QED BY <1>0, <2>1, <2>2, WizardKept, JobsKept
  <1>2. ASSUME Wizard!SetupCommand PROVE WizardBooks'
    BY <1>0, <1>2 DEF Wizard!SetupCommand
  <1>3. ASSUME Wizard!ShowReturns \/ Wizard!Return \/ Wizard!Exit \/ Wizard!Kill PROVE WizardBooks'
    <2>1. UNCHANGED <<disk, edited, listed, chosen>>
      BY <1>3 DEF Wizard!ShowReturns, Wizard!Return, Wizard!Exit, Wizard!Kill, Wizard!Over
    <2>2. job' \in {job, [p \in Tabs |-> Wizard!NoPost]}
      BY <1>3 DEF Wizard!ShowReturns, Wizard!Return, Wizard!Exit, Wizard!Kill, Wizard!Over
    <2> QED BY <2>1, <2>2, WizardKept, JobsKept
  <1>4. ASSUME Wizard!Reload PROVE WizardBooks'
    <2>1. listed' \subseteq Wizard!Slugs /\ \A s \in listed' : disk[s] \in ProfileNames
      BY <1>4, ListIsSound DEF Wizard!Reload
    <2> QED BY <1>4, <2>1 DEF Wizard!Reload, WizardBooks
  <1>5. ASSUME NEW s \in Wizard!Slugs, Wizard!Choose(s) PROVE WizardBooks'
    BY <1>5 DEF Wizard!Choose, WizardBooks
  <1>6. ASSUME NEW s \in Wizard!Slugs, Wizard!Edit(s) PROVE WizardBooks'
    <2>1. /\ disk' = [disk EXCEPT ![s] = "broken"] /\ edited' = edited \cup {s}
          /\ UNCHANGED <<listed, job, chosen>>
      BY <1>6 DEF Wizard!Edit, Wizard!Broken
    <2>2. disk' \in [Wizard!Slugs -> {"absent", "empty", "broken"} \cup ProfileNames]
      BY <2>1 DEF WizardBooks
    <2>3. disk'[s] = "broken" /\ \A z \in Wizard!Slugs \ {s} : disk'[z] = disk[z]
      BY <2>1 DEF WizardBooks
    <2> QED BY <2>1, <2>2, <2>3 DEF WizardBooks
  <1>7. ASSUME NEW p \in Tabs, NEW n \in ProfileNames, Wizard!Save(p, n) PROVE WizardBooks'
    <2>1. /\ Slug[n] \in Wizard!Slugs
          /\ disk' = [disk EXCEPT ![Slug[n]] = IF @ = "absent" THEN "empty" ELSE @]
          /\ job' = [job EXCEPT ![p] = [step |-> "saving", name |-> n]]
          /\ UNCHANGED <<edited, listed, chosen>>
      BY <1>7 DEF Wizard!Save, Wizard!Slugs, Wizard!Absent, Wizard!Empty, Wizard!ChosenLater
    <2>2. disk' \in [Wizard!Slugs -> {"absent", "empty", "broken"} \cup ProfileNames]
      BY <2>1 DEF WizardBooks
    <2>3. \A s \in Wizard!Slugs :
            /\ disk'[s] = "broken" => disk[s] = "broken"
            /\ disk[s] \in ProfileNames => disk'[s] \in ProfileNames
      BY <2>1 DEF WizardBooks
    <2>4. job' \in [Tabs -> Wizard!Posts]
      BY <2>1 DEF WizardBooks, Wizard!Posts
    <2>5. \A q \in Tabs : job'[q].step = "saving" => Slug[job'[q].name] \in Wizard!Slugs
      BY <2>1 DEF WizardBooks
    <2> QED BY <2>1, <2>2, <2>3, <2>4, <2>5 DEF WizardBooks
  <1>8. ASSUME NEW p \in Tabs, Wizard!Saved(p) PROVE WizardBooks'
    <2> DEFINE s == Slug[job[p].name]
    <2>1. /\ job[p].step = "saving" /\ job' = [job EXCEPT ![p] = Wizard!NoPost]
          /\ disk' = [disk EXCEPT ![s] = job[p].name]
          /\ edited' = edited \ {s} /\ chosen' = s /\ listed' = listed
      BY <1>8 DEF Wizard!Saved, Wizard!WriteAtomic
    <2>2. s \in Wizard!Slugs /\ job[p].name \in ProfileNames
      BY <2>1 DEF WizardBooks, Wizard!Posts
    <2>3. /\ job' \in [Tabs -> Wizard!Posts]
          /\ \A q \in Tabs : job'[q].step = "saving" => Slug[job'[q].name] \in Wizard!Slugs
      BY <2>1, JobsKept
    <2>4. PICK n \in ProfileNames : n = job[p].name
      BY <2>2
    <2> HIDE DEF s
    <2>5. disk' \in [Wizard!Slugs -> {"absent", "empty", "broken"} \cup ProfileNames]
      BY <2>1, <2>2 DEF WizardBooks
    <2>6. disk'[s] \in ProfileNames /\ \A z \in Wizard!Slugs \ {s} : disk'[z] = disk[z]
      BY <2>1, <2>2 DEF WizardBooks
    <2>7. "broken" \notin ProfileNames
      OBVIOUS
    <2> QED BY <2>1, <2>2, <2>3, <2>5, <2>6, <2>7 DEF WizardBooks
  <1>9. ASSUME NEW p \in Tabs, Wizard!SaveFails(p) PROVE WizardBooks'
    BY <1>9, WizardKept, JobsKept DEF Wizard!SaveFails
  <1>10. ASSUME UNCHANGED wizardVars PROVE WizardBooks'
    BY <1>10 DEF wizardVars, WizardBooks
  <1> QED
    BY <1>1, <1>2, <1>3, <1>4, <1>5, <1>6, <1>7, <1>8, <1>9, <1>10 DEF Wizard!Next

\* However saves overlap, fail or are cut off, a config nobody edited by hand
\* loads, and what is chosen is on disk, for any names, slugs and pages
\* (setup/api.py:38-53, 122-151).
THEOREM ProfilesAreWhole == Spec => []ProfilesStayWhole
  <1>1. Init => WizardBooks
    <2> SUFFICES ASSUME Wizard!Init PROVE WizardBooks
      BY DEF Init
    <2>1. Wizard!NoPost \in Wizard!Posts /\ Wizard!NoPost.step # "saving"
      BY DEF Wizard!NoPost, Wizard!Posts
    <2> QED BY <2>1 DEF Wizard!Init, Wizard!Absent, WizardBooks
  <1>2. WizardBooks => ProfilesStayWhole
    BY DEF WizardBooks, ProfilesStayWhole, Wizard!ProfilesStayWhole, Wizard!Broken
  <1> QED BY <1>1, <1>2, PartsAlone, WizardStep, PTL DEF Spec

-----------------------------------------------------------------------------
(* The types                                                               *)

\* Who holds the lock, whom the listener waits for and what a POST got.
LEMMA HubRestStep == HubType /\ Hub!TypeOK /\ [Hub!Next]_hubVars => Hub!TypeOK'
  <1> SUFFICES ASSUME HubType, Hub!TypeOK, [Hub!Next]_hubVars PROVE Hub!TypeOK'
    OBVIOUS
  <1>1. HubType'
    BY HubTypeStep
  <1>2. /\ holder' \in Hub!Turns \cup {NoTurn} /\ rounds' \in Nat
        /\ http' \in [Typed -> {"none", "waiting", "answered", "gave_up"}]
        /\ listener' \in Texted \cup {NoTurn}
    <2> USE DEF Hub!TypeOK
    <2>1. ASSUME NEW t \in Hub!Turns,
                 Hub!Submit(t) \/ Hub!SubmitBlank(t) \/ Hub!GiveUp(t) \/ Hub!Write(t)
          PROVE  <1>2
      BY <2>1 DEF Hub!Submit, Hub!SubmitBlank, Hub!GiveUp, Hub!Write
    <2>2. CASE Hub!WritePause \/ Hub!TakePause \/ UNCHANGED hubVars
      BY <2>2 DEF Hub!WritePause, Hub!TakePause, hubVars
    <2>3. CASE Hub!TakeText
      <3>1. inbox # <<>> /\ Head(inbox) # Pause /\ listener' = Head(inbox)
        BY <2>3 DEF Hub!TakeText
      <3>2. listener' \in Texted
        BY <3>1
      <3> QED BY <2>3, <3>2 DEF Hub!TakeText
    <2>4. ASSUME NEW t \in Hub!Turns, Hub!Acquire(t) \/ Hub!Mirrored(t) \/ Hub!UseTools(t)
          PROVE  <1>2
      BY <2>4 DEF Hub!Acquire, Hub!AcquireUnlocked, Hub!Mirrored, Hub!UseTools
    <2>5. ASSUME NEW t \in Hub!Turns,
                 Hub!Answer(t) \/ Hub!Fail(t) \/ Hub!SayNothing(t) \/ Hub!Echoed(t) \/ Hub!Sent(t)
          PROVE  <1>2
      <3>1. ASSUME Hub!Answered(t) PROVE http' \in [Typed -> {"none", "waiting", "answered", "gave_up"}]
        BY <3>1 DEF Hub!Answered
      <3> QED BY <2>5, <3>1 DEF Hub!Answer, Hub!Fail, Hub!SayNothing, Hub!Echoed, Hub!Sent
    <2> QED BY <2>1, <2>2, <2>3, <2>4, <2>5 DEF Hub!Next, Hub!People, Hub!Post
  <1> QED BY <1>1, <1>2 DEF HubType, Hub!TypeOK

\* Frames hold rows of the portal, and so does what a cycle was given.
LEMMA FlicaTypeStep == Flica!TypeOK /\ [Flica!Next]_flicaVars => Flica!TypeOK'
  <1> SUFFICES ASSUME Flica!TypeOK, [Flica!Next]_flicaVars PROVE Flica!TypeOK'
    OBVIOUS
  <1> USE BoundAssumption DEF Flica!TypeOK
  <1> DEFINE Content == [kind : Flica!Kinds, rows : SUBSET Pairings]
  <1>1. ASSUME NEW kind \in Flica!Kinds, NEW rows \in SUBSET Pairings
        PROVE  Flica!Shows(kind, rows) \in Content
    BY DEF Flica!Shows
  <1>2. \A f \in Flica!Frames : Flica!Loaded(f) \in Content
    BY <1>1 DEF Flica!Loaded, Flica!Kinds
  <1>3. \A c \in Content : Flica!Parsed(c) \in SUBSET Pairings
    BY DEF Flica!Parsed
  <1>4. Flica!Trouble => troubles' \in 0..MaxTroubles
    BY DEF Flica!Trouble
  <1>5. ASSUME NEW p \in Pairings, Flica!Offer(p) \/ Flica!Withdraw(p) \/ Flica!Claim(p)
        PROVE  Flica!TypeOK'
    BY <1>5 DEF Flica!Offer, Flica!Withdraw, Flica!Claim
  <1>6. ASSUME NEW f \in Flica!Frames, Flica!Attach(f) PROVE Flica!TypeOK'
    <2>1. frame' \in [Flica!Frames -> Content]
      BY <1>2, <1>6 DEF Flica!Attach
    <2> QED BY <1>6, <2>1 DEF Flica!Attach
  <1>7. ASSUME NEW f \in Flica!Frames, Flica!Upset(f) PROVE Flica!TypeOK'
    <2>1. frame' \in [Flica!Frames -> Content]
      BY <1>1, <1>7 DEF Flica!Upset
    <2> QED BY <1>4, <1>7, <2>1 DEF Flica!Upset
  <1>8. CASE Flica!Challenge \/ Flica!Start
    BY <1>4, <1>8 DEF Flica!Challenge, Flica!Start
  <1>9. CASE Flica!Help
    <2>1. frame' \in [Flica!Frames -> Content]
      BY <1>2, <1>9 DEF Flica!Help
    <2> QED BY <1>9, <2>1 DEF Flica!Help
  <1>10. CASE Flica!Close
    <2>1. frame' \in [Flica!Frames -> Content]
      BY <1>1, <1>10 DEF Flica!Close, Flica!Absent, Flica!Kinds
    <2> QED BY <1>4, <1>10, <2>1 DEF Flica!Close
  <1>11. CASE Flica!Probe \/ Flica!Login \/ Flica!Finish
    BY <1>11 DEF Flica!Probe, Flica!Login, Flica!Finish
  <1>12. CASE Flica!FetchOpenShifts
    <2>1. Flica!OPENTIME \in Flica!Frames
      BY DEF Flica!Frames
    <2>2. \A c \in Flica!Reloaded(Flica!OPENTIME) : c \in Content
      BY <1>2, <2>1 DEF Flica!Reloaded, Flica!NotReloaded
    <2>3. PICK c \in Flica!Reloaded(Flica!OPENTIME) :
            frame' = [frame EXCEPT ![Flica!OPENTIME] = c] /\ seen' = Flica!Parsed(c)
      BY <1>12 DEF Flica!FetchOpenShifts
    <2>4. frame' \in [Flica!Frames -> Content] /\ seen' \subseteq Pairings
      BY <1>3, <2>2, <2>3
    <2> QED BY <1>12, <2>4 DEF Flica!FetchOpenShifts
  <1>13. CASE Flica!FetchMySchedule
    <2>1. assigned' \subseteq Pairings
      BY <1>3, <1>13 DEF Flica!FetchMySchedule, Flica!Frames
    <2> QED BY <1>13, <2>1 DEF Flica!FetchMySchedule
  <1>14. CASE UNCHANGED flicaVars
    BY <1>14 DEF flicaVars
  <1> QED
    BY <1>5, <1>6, <1>7, <1>8, <1>9, <1>10, <1>11, <1>12, <1>13, <1>14
    DEF Flica!Next, Flica!World, Flica!Cycle

\* A run's reply is one that may come, and its result one of four.
LEMMA VisionTypeStep ==
  VisionBooks /\ Vision!TypeOK /\ [Vision!Next]_visionVars => Vision!TypeOK'
  <1> SUFFICES ASSUME VisionBooks, Vision!TypeOK, [Vision!Next]_visionVars PROVE Vision!TypeOK'
    OBVIOUS
  <1>1. VisionBooks'
    BY VisionStep
  <1>2. /\ elapsed' \in Nat /\ performed' \in Nat /\ step' \in 0..MaxSteps + 1
        /\ visionAt' \in {"check", "shot", "ask", "act", "ended"}
    <2>1. /\ elapsed' \in Nat /\ performed' \in Nat /\ step' \in Nat
          /\ visionAt' \in {"check", "shot", "ask", "act", "ended"}
      BY <1>1 DEF VisionBooks
    <2>2. step' <= MaxSteps + 1
      <3>1. visionAt' # "ended" => step' <= MaxSteps + 1
        BY <1>1 DEF VisionBooks
      <3>2. visionAt' = "ended" => step' <= MaxSteps
        BY <1>1 DEF VisionBooks
      <3> QED BY <2>1, <3>1, <3>2
    <2> QED BY <2>1, <2>2
  <1>3. reply' \in Vision!Replies
    BY DEF Vision!TypeOK, Vision!Next, Vision!Check, Vision!Screenshot, Vision!Ask, Vision!Execute,
           visionVars
  <1>4. result' \in {"none", "success", "failure", "raised"}
    BY DEF Vision!TypeOK, Vision!Next, Vision!Check, Vision!Screenshot, Vision!Ask, Vision!Execute,
           Vision!Stop, Vision!Go, Vision!Ending, visionVars
  <1> QED BY <1>2, <1>3, <1>4 DEF Vision!TypeOK

\* The mailbox keeps to its bound, and what is listed and found is in it.
CodeType == CodeBooks /\ Len(mailbox) <= MaxMail /\ Code!TypeOK
LEMMA CodeTypeStep == CodeType /\ [Code!Next]_codeVars => CodeType'
  <1> SUFFICES ASSUME CodeType, [Code!Next]_codeVars PROVE CodeType'
    OBVIOUS
  <1>1. CodeBooks /\ Len(mailbox) <= MaxMail /\ Code!TypeOK /\ CodeBooks'
    BY CodeStep DEF CodeType
  <1>2. mailbox \in Seq(Code!Messages) /\ Len(mailbox) \in Nat /\ left \subseteq 1..MaxMail
        /\ left \subseteq 1..view
    BY <1>1 DEF CodeBooks, Code!TypeOK
  <1>3. clock' \in Nat /\ mailbox' \in Seq(Code!Messages)
    BY <1>1 DEF CodeBooks
  <1>4. Len(mailbox') <= MaxMail
    <2>1. CASE Code!Arrive
      <3>1. PICK m \in Code!Messages : mailbox' = Append(mailbox, m)
        BY <2>1 DEF Code!Arrive
      <3>2. Len(mailbox') = Len(mailbox) + 1 /\ Len(mailbox) < MaxMail
        BY <1>2, <2>1, <3>1 DEF Code!Arrive
      <3> QED BY <1>2, <3>2, BoundAssumption
    <2>2. CASE ~Code!Arrive
      BY <1>1, <2>2
      DEF Code!Next, Code!Pass, Code!Break, Code!Connect, Code!Search, Code!Retry, Code!Empty,
          Code!Fetch, codeVars
    <2> QED BY <2>1, <2>2
  <1>5. status' \in Code!Calling \cup {"found", "timeout", "failed"}
    BY <1>1
    DEF Code!TypeOK, Code!Calling, Code!Next, Code!Arrive, Code!Pass, Code!Break, Code!Connect,
        Code!Search, Code!Retry, Code!Empty, Code!Fetch, codeVars
  <1>6. view' \in 0..MaxMail /\ left' \subseteq 1..MaxMail
    <2>1. view' \in 0..Len(mailbox') /\ left' \subseteq 1..view' /\ Len(mailbox') \in Nat
      BY <1>1 DEF CodeBooks
    <2> QED BY <1>4, <2>1, BoundAssumption
  <1>7. skipped' \subseteq 1..MaxMail /\ answer' \in 0..MaxMail
    <2>1. skipped \subseteq 1..MaxMail /\ answer \in 0..MaxMail
      BY <1>1 DEF Code!TypeOK
    <2>2. ASSUME NEW n \in left, Code!Empty(n) \/ Code!Fetch(n) PROVE <1>7
      <3>1. n \in 1..MaxMail /\ n \in 0..MaxMail
        BY <1>2, BoundAssumption
      <3>2. skipped' \in {skipped, skipped \cup {n}} /\ answer' \in {answer, n}
        BY <2>2 DEF Code!Empty, Code!Fetch
      <3> QED BY <2>1, <3>1, <3>2
    <2>3. CASE Code!Arrive \/ Code!Pass \/ Code!Break \/ Code!Connect \/ Code!Search \/ Code!Retry
               \/ UNCHANGED codeVars
      <3>1. skipped' \in {skipped, {}} /\ answer' = answer
        BY <2>3 DEF Code!Arrive, Code!Pass, Code!Break, Code!Connect, Code!Search, Code!Retry, codeVars
      <3> QED BY <2>1, <3>1
    <2> QED BY <2>2, <2>3 DEF Code!Next
  <1> QED BY <1>1, <1>3, <1>4, <1>5, <1>6, <1>7 DEF CodeType, Code!TypeOK

\* The numbers given out keep to their bound: the timer's last tick and the
\* end of the run go beyond the snapshots begun, by one each; and a frame is
\* filed under a number that was given out.
CaptureType ==
  /\ Capture!TypeOK
  /\ settling <= visited
  /\ \A t \in Capture!Tasks : snap[t].step = "frames" => page_count >= 1
  /\ main = "capturing" \/ (main = "stopping" /\ looping /\ snap["timer"].step = "none") =>
       page_count <= MaxShots
  /\ main = "stopping" => page_count <= MaxShots + 1

\* A snapshot begun within the bound.
LEMMA TakeTypes ==
  ASSUME CaptureType, NEW t \in Capture!Tasks, page_count <= MaxShots + 1, Capture!Take(t)
  PROVE  /\ snap' \in [Capture!Tasks -> [step : {"none", "frames", "cookies"},
                                        number : Capture!Numbers \cup {0}]]
         /\ page_count' \in Capture!Numbers \cup {0}
         /\ page_count' \in {page_count, page_count + 1}
         /\ shots' \subseteq Capture!Numbers \X (1..MaxPages)
         /\ snap'[t].step # "none" /\ \A u \in Capture!Tasks \ {t} : snap'[u] = snap[u]
         /\ \A u \in Capture!Tasks : snap'[u].step = "frames" => page_count' >= 1
  <1> USE BoundAssumption
  <1>0. /\ page_count \in Capture!Numbers \cup {0} /\ visited \in 1..MaxPages
        /\ shots \subseteq Capture!Numbers \X (1..MaxPages)
        /\ snap \in [Capture!Tasks -> [step : {"none", "frames", "cookies"},
                                       number : Capture!Numbers \cup {0}]]
        /\ \A u \in Capture!Tasks : snap[u].step = "frames" => page_count >= 1
    BY DEF CaptureType, Capture!TypeOK
  <1>1. CASE open
    <2>1. /\ page_count' = page_count + 1 /\ shots' = shots \cup {<<page_count', visited>>}
          /\ snap' = [snap EXCEPT ![t] = [step |-> "frames", number |-> page_count']]
      BY <1>1 DEF Capture!Take
    <2>2. page_count' \in Capture!Numbers /\ page_count' >= 1
      BY <1>0, <2>1 DEF Capture!Numbers
    <2> HIDE DEF Capture!Numbers
    <2>3. shots' \subseteq Capture!Numbers \X (1..MaxPages)
      BY <1>0, <2>1, <2>2
    <2>4. snap' \in [Capture!Tasks -> [step : {"none", "frames", "cookies"},
                                       number : Capture!Numbers \cup {0}]]
      BY <1>0, <2>1, <2>2
    <2> QED BY <1>0, <2>1, <2>2, <2>3, <2>4
  <1>2. CASE ~open
    <2>1. snap' = [snap EXCEPT ![t].step = "cookies"] /\ UNCHANGED <<page_count, shots>>
      BY <1>2 DEF Capture!Take
    <2> QED BY <1>0, <2>1
  <1> QED BY <1>1, <1>2

\* Every step of the capture keeps its types.
LEMMA CaptureTypeStep == CaptureType /\ [Capture!Next]_captureVars => CaptureType'
  <1> SUFFICES ASSUME CaptureType, [Capture!Next]_captureVars PROVE CaptureType'
    OBVIOUS
  <1> USE BoundAssumption
  <1>0. /\ "timer" \in Capture!Tasks /\ "nav" \in Capture!Tasks /\ "final" \in Capture!Tasks
        /\ page_count \in Nat
    BY DEF Capture!Tasks, CaptureType, Capture!TypeOK, Capture!Numbers
  <1>1. CASE Capture!Navigate \/ Capture!CloseBrowser \/ Capture!Finish \/ Capture!NavGivesUp
    <2>1. CASE Capture!Navigate \/ Capture!NavGivesUp
      <3>1. /\ visited' \in 1..MaxPages /\ settling' \in 0..MaxPages /\ settling' <= visited'
        BY <2>1 DEF Capture!Navigate, Capture!NavGivesUp, CaptureType, Capture!TypeOK
      <3> QED BY <2>1, <3>1 DEF Capture!Navigate, Capture!NavGivesUp, CaptureType, Capture!TypeOK
    <2>2. CASE Capture!CloseBrowser
      BY <2>2 DEF Capture!CloseBrowser, CaptureType, Capture!TypeOK
    <2>3. CASE Capture!Finish
      <3>1. page_count <= MaxShots
        BY <2>3 DEF Capture!Finish, CaptureType
      <3>2. page_count <= MaxShots + 1
        BY <1>0, <3>1
      <3> QED BY <2>3, <3>1, <3>2 DEF Capture!Finish, CaptureType, Capture!TypeOK
    <2> QED BY <1>1, <2>1, <2>2, <2>3
  <1>2. CASE Capture!AfterNav
    <2>1. /\ settling' = settling - 1 /\ settling > 0 /\ page_count < MaxShots /\ lock' = "nav"
          /\ Capture!Take("nav")
          /\ UNCHANGED <<main, looping, visited, open, frames, cookies, verdict>>
      BY <1>2 DEF Capture!AfterNav, Capture!AfterNavUnlocked
    <2>2. page_count <= MaxShots + 1 /\ page_count' <= MaxShots
      BY <1>0, <2>1, TakeTypes
    <2> QED BY <1>0, <2>1, <2>2, TakeTypes DEF CaptureType, Capture!TypeOK
  <1>3. CASE Capture!Tick
    <2>1. /\ main = "capturing" /\ page_count < MaxShots /\ lock' = "timer" /\ Capture!Take("timer")
          /\ UNCHANGED <<main, looping, visited, open, settling, frames, cookies, verdict>>
      BY <1>3 DEF Capture!Tick
    <2>2. page_count <= MaxShots + 1 /\ page_count' <= MaxShots
      BY <1>0, <2>1, TakeTypes
    <2> QED BY <1>0, <2>1, <2>2, TakeTypes DEF CaptureType, Capture!TypeOK
  <1>4. CASE Capture!LastTick
    <2>1. CASE lock = Capture!Free
      <3>1. /\ main = "stopping" /\ looping /\ snap["timer"].step = "none" /\ lock' = "timer"
            /\ Capture!Take("timer")
            /\ UNCHANGED <<main, looping, visited, open, settling, frames, cookies, verdict>>
        BY <1>4, <2>1 DEF Capture!LastTick
      <3>2. page_count <= MaxShots
        BY <3>1 DEF CaptureType
      <3>3. page_count <= MaxShots + 1 /\ page_count' <= MaxShots + 1 /\ snap'["timer"].step # "none"
        BY <1>0, <3>1, <3>2, TakeTypes
      <3> QED BY <1>0, <3>1, <3>3, TakeTypes DEF CaptureType, Capture!TypeOK
    <2>2. CASE lock # Capture!Free
      BY <1>4, <2>2 DEF Capture!LastTick, Capture!KeepsLooping, CaptureType, Capture!TypeOK
    <2> QED BY <2>1, <2>2
  <1>5. CASE Capture!Final
    <2>1. /\ main = "stopping" /\ main' = "final" /\ Capture!Take("final")
          /\ UNCHANGED <<looping, visited, open, settling, lock, frames, cookies, verdict>>
      BY <1>5 DEF Capture!Final
    <2>2. page_count <= MaxShots + 1
      BY <2>1 DEF CaptureType
    <2> QED BY <1>0, <2>1, <2>2, TakeTypes DEF CaptureType, Capture!TypeOK
  <1>6. ASSUME NEW t \in Capture!Tasks, Capture!Frames(t) PROVE CaptureType'
    <2>1. /\ snap[t].step = "frames" /\ snap' = [snap EXCEPT ![t].step = "cookies"]
          /\ frames' \in {frames, frames \cup {<<page_count, visited>>}}
          /\ UNCHANGED <<main, looping, visited, open, settling, lock, page_count, shots, cookies, verdict>>
      BY <1>6 DEF Capture!Frames
    <2>2. page_count \in Capture!Numbers
      BY <2>1 DEF CaptureType, Capture!TypeOK, Capture!Numbers
    <2>3. frames' \subseteq Capture!Numbers \X (1..MaxPages)
      BY <2>1, <2>2 DEF CaptureType, Capture!TypeOK
    <2>4. snap' \in [Capture!Tasks -> [step : {"none", "frames", "cookies"},
                                       number : Capture!Numbers \cup {0}]]
      BY <2>1 DEF CaptureType, Capture!TypeOK
    <2>5. snap'[t].step = "cookies" /\ \A u \in Capture!Tasks \ {t} : snap'[u] = snap[u]
      BY <2>1 DEF CaptureType, Capture!TypeOK
    <2> QED BY <1>0, <2>1, <2>3, <2>4, <2>5 DEF CaptureType, Capture!TypeOK
  <1>7. ASSUME NEW t \in Capture!Tasks, Capture!Cookies(t) PROVE CaptureType'
    <2>1. /\ snap' = [snap EXCEPT ![t] = Capture!Resting]
          /\ lock' \in {lock, Capture!Free} /\ main' \in {main, "done"}
          /\ looping' = (IF t = "timer" THEN main = "capturing" ELSE looping)
          /\ verdict' \in {verdict, "answered", "inconclusive"}
          /\ cookies' \in {cookies, cookies \/ open}
          /\ UNCHANGED <<visited, open, settling, page_count, shots, frames>>
      BY <1>7 DEF Capture!Cookies, Capture!KeepsLooping
    <2>2. snap' \in [Capture!Tasks -> [step : {"none", "frames", "cookies"},
                                       number : Capture!Numbers \cup {0}]]
      BY <2>1 DEF CaptureType, Capture!TypeOK, Capture!Resting
    <2>3. snap'[t].step = "none" /\ \A u \in Capture!Tasks \ {t} : snap'[u] = snap[u]
      BY <2>1 DEF CaptureType, Capture!TypeOK, Capture!Resting
    <2>4. cookies' \in BOOLEAN /\ looping' \in BOOLEAN
      BY <2>1 DEF CaptureType, Capture!TypeOK
    <2>5. main' = "capturing" \/ (main' = "stopping" /\ looping' /\ snap'["timer"].step = "none") =>
            page_count <= MaxShots
      BY <1>0, <2>1, <2>3 DEF CaptureType
    <2> QED BY <1>0, <2>1, <2>2, <2>3, <2>4, <2>5 DEF CaptureType, Capture!TypeOK
  <1>8. CASE UNCHANGED captureVars
    BY <1>8 DEF captureVars, CaptureType, Capture!TypeOK
  <1> QED BY <1>1, <1>2, <1>3, <1>4, <1>5, <1>6, <1>7, <1>8 DEF Capture!Next

\* What the window opens is a profile.
WizardType == WizardBooks /\ Wizard!TypeOK
LEMMA WizardTypeStep == WizardType /\ [Wizard!Next]_wizardVars => WizardType'
  <1> SUFFICES ASSUME WizardType, [Wizard!Next]_wizardVars PROVE WizardType'
    OBVIOUS
  <1>0. WizardBooks /\ Wizard!TypeOK /\ WizardBooks'
    BY WizardStep DEF WizardType
  <1>1. /\ setupStage' \in Wizard!Stages /\ blocking' \in BOOLEAN /\ visible' \in BOOLEAN
        /\ done' \in BOOLEAN /\ opened' \in Wizard!Slugs \cup {NoSlug} /\ deaths' \in 0..MaxDeaths
    <2> USE DEF Wizard!TypeOK, Wizard!Stages
    <2>1. ASSUME NEW s \in Wizard!Slugs, Wizard!Dashboard(s)
          PROVE  setupStage' \in Wizard!Stages /\ opened' \in Wizard!Slugs \cup {NoSlug}
      BY <2>1 DEF Wizard!Dashboard
    <2>2. CASE Wizard!FirstRun \/ Wizard!SetupCommand
      BY <1>0, <2>1, <2>2
      DEF Wizard!FirstRun, Wizard!SetupCommand, Wizard!OpenWindow, Wizard!Configured
    <2>3. CASE Wizard!Return
      <3>1. chosen = NoSlug \/ chosen \in Wizard!Slugs
        BY <1>0
      <3> QED BY <1>0, <2>1, <2>3, <3>1 DEF Wizard!Return
    <2>4. CASE Wizard!ShowReturns \/ Wizard!Exit \/ Wizard!Reload
      BY <1>0, <2>4 DEF Wizard!ShowReturns, Wizard!Exit, Wizard!Over, Wizard!Reload
    <2>5. CASE Wizard!Kill
      <3>1. deaths' = deaths + 1 /\ deaths < MaxDeaths /\ deaths \in 0..MaxDeaths
        BY <1>0, <2>5 DEF Wizard!Kill
      <3>2. deaths' \in 0..MaxDeaths
        BY <3>1, BoundAssumption
      <3> QED BY <1>0, <2>5, <3>2 DEF Wizard!Kill, Wizard!Over
    <2>6. ASSUME NEW s \in Wizard!Slugs, Wizard!Choose(s) \/ Wizard!Edit(s) PROVE <1>1
      BY <1>0, <2>6 DEF Wizard!Choose, Wizard!Edit
    <2>7. ASSUME NEW p \in Tabs, NEW n \in ProfileNames,
                 Wizard!Saved(p) \/ Wizard!SaveFails(p) \/ Wizard!Save(p, n)
          PROVE  <1>1
      BY <1>0, <2>7 DEF Wizard!Saved, Wizard!SaveFails, Wizard!Save, Wizard!ChosenLater
    <2>8. CASE UNCHANGED wizardVars
      BY <1>0, <2>8 DEF wizardVars
    <2> QED BY <2>2, <2>3, <2>4, <2>5, <2>6, <2>7, <2>8, NameAssumption DEF Wizard!Next
  <1> QED BY <1>0, <1>1
      DEF WizardType, WizardBooks, Wizard!TypeOK, Wizard!Absent, Wizard!Empty, Wizard!Broken

\* Every variable of the hub, the browser session, the vision loop, the wait
\* for a code, the capture and the setup window keeps its type, for any
\* bounds, names, pairings and pages.
THEOREM SessionsAreTyped == Spec => []TypeOK
  <1> DEFINE Typing ==
        /\ part \in Parts /\ HubType /\ Hub!TypeOK /\ Flica!TypeOK /\ VisionBooks /\ Vision!TypeOK
        /\ CodeType /\ CaptureType /\ WizardType
  <1>1. Init => Typing
    <2> SUFFICES ASSUME Init PROVE Typing
      OBVIOUS
    <2>1. thread = <<>> /\ waiters = <<>> /\ inbox = <<>>
          /\ thread \in Seq(Hub!Rows) /\ waiters \in Seq(Hub!Turns) /\ inbox \in Seq(Texted \cup {Pause})
      BY DEF Init, Hub!Init
    <2>2. HubType /\ Hub!TypeOK
      BY <2>1 DEF Init, Hub!Init, HubType, Hub!TypeOK, Hub!Stages
    <2>3. Flica!TypeOK
      <3>1. Flica!Absent \in [kind : Flica!Kinds, rows : SUBSET Pairings]
        BY DEF Flica!Absent, Flica!Shows, Flica!Kinds
      <3>2. frame \in [Flica!Frames -> [kind : Flica!Kinds, rows : SUBSET Pairings]]
        BY <3>1 DEF Init, Flica!Init
      <3>3. troubles \in 0..MaxTroubles
        BY BoundAssumption DEF Init, Flica!Init
      <3> QED BY <3>2, <3>3 DEF Init, Flica!Init, Flica!TypeOK
    <2>4. VisionBooks /\ Vision!TypeOK
      BY DEF Init, Vision!Init, VisionBooks, Vision!TypeOK, Vision!NoReply, Vision!Replies
    <2>5. mailbox = <<>> /\ Len(mailbox) = 0 /\ mailbox \in Seq(Code!Messages)
      BY DEF Init, Code!Init
    <2>6. CodeType
      BY <2>5, BoundAssumption DEF Init, Code!Init, CodeType, CodeBooks, Code!TypeOK, Code!Calling
    <2>7. CaptureType
      <3>1. Capture!Init
        BY DEF Init
      <3>2. snap \in [Capture!Tasks -> [step : {"none", "frames", "cookies"},
                                        number : Capture!Numbers \cup {0}]]
            /\ \A t \in Capture!Tasks : snap[t].step = "none"
        BY <3>1 DEF Capture!Init, Capture!Resting
      <3>3. /\ visited \in 1..MaxPages /\ settling \in 0..MaxPages /\ settling <= visited
            /\ page_count = 0 /\ page_count <= MaxShots /\ main = "capturing"
        BY <3>1, BoundAssumption DEF Capture!Init
      <3> HIDE DEF Capture!Numbers
      <3>4. Capture!TypeOK
        BY <3>1, <3>2, <3>3 DEF Capture!Init, Capture!TypeOK
      <3> QED BY <3>2, <3>3, <3>4 DEF CaptureType
    <2>8. WizardType
      <3>1. Wizard!NoPost \in Wizard!Posts /\ Wizard!NoPost.step # "saving"
        BY DEF Wizard!NoPost, Wizard!Posts
      <3>2. deaths \in 0..MaxDeaths
        BY BoundAssumption DEF Init, Wizard!Init
      <3>3. WizardBooks
        BY <3>1 DEF Init, Wizard!Init, Wizard!Absent, WizardBooks
      <3>4. Wizard!TypeOK
        BY <3>1, <3>2 DEF Init, Wizard!Init, Wizard!Stages, Wizard!TypeOK
      <3> QED BY <3>3, <3>4 DEF WizardType
    <2> QED BY <2>2, <2>3, <2>4, <2>6, <2>7, <2>8 DEF Init
  <1>2. Typing /\ [Next]_vars => Typing'
    <2> SUFFICES ASSUME Typing, [Next]_vars PROVE Typing'
      OBVIOUS
    <2>1. (part \in Parts)'
      BY DEF Next, Runs, vars
    <2> QED BY <2>1, PartsAlone, HubTypeStep, HubRestStep, FlicaTypeStep, VisionStep, VisionTypeStep,
               CodeTypeStep, CaptureTypeStep, WizardTypeStep
  <1>3. Typing => TypeOK
    BY DEF TypeOK, CodeType, CaptureType, WizardType
  <1> QED BY <1>1, <1>2, <1>3, PTL DEF Spec

=============================================================================
