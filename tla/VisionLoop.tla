----------------------------- MODULE VisionLoop -----------------------------
(***************************************************************************)
(* The screenshot, ask, act loop of the friction toolkit                   *)
(* (friction/vision_loop.py) and the check its replies go through          *)
(* (friction/actions.py).  Each await has a limit of its own; the limit on *)
(* the whole run is looked at between steps only.  Time is counted in      *)
(* whole units and passes in the awaits.                                   *)
(***************************************************************************)
EXTENDS Naturals

CONSTANTS
  MaxSteps,       \* max_steps
  StepTimeout,    \* step_timeout_s
  BrowserTimeout, \* browser_timeout_s
  TotalTimeout    \* total_timeout_s

VARIABLES
  at,         \* "check", "shot", "ask", "act", "ended"
  step,       \* the step under way; the steps a run that ended reports
  elapsed,    \* since the start
  reply,      \* the last reply that passed the check
  performed,  \* actions carried out on the page
  result      \* LoopResult, as far as it tells success from failure

vars == <<at, step, elapsed, reply, performed, result>>

\* A reply: its type, where its x and y lie, whether it has text, and what
\* its key is.  "chord" has a modifier that is not Shift.
Replies ==
  [type : {"click", "type", "key", "wait", "done", "fail", "unknown"},
   xy : {"none", "inside", "outside"}, text : BOOLEAN,
   key : {"none", "character", "named", "shift_named", "chord", "unlisted"}]

ValidateKey(key) == key \in {"character", "named", "shift_named"}

\* parse_action: what Action accepts; anything else is an ActionParseError.
Accepted(r) ==
  /\ r.type # "unknown" /\ r.xy # "outside"
  /\ r.type = "click" => r.xy = "inside"
  /\ r.type = "type" => r.text
  /\ r.type = "key" => ValidateKey(r.key)

NoReply == [type |-> "unknown", xy |-> "none", text |-> FALSE, key |-> "none"]

TypeOK ==
  /\ at \in {"check", "shot", "ask", "act", "ended"}
  /\ step \in 0..MaxSteps + 1 /\ elapsed \in Nat
  /\ reply \in Replies /\ performed \in Nat
  /\ result \in {"none", "success", "failure", "raised"}

Init ==
  /\ at = "check" /\ step = 1 /\ elapsed = 0 /\ reply = NoReply /\ performed = 0
  /\ result = "none"

-----------------------------------------------------------------------------
Stop(how, steps) == at' = "ended" /\ result' = how /\ step' = steps
Go(where) == at' = where /\ result' = result /\ step' = step

\* wait_for: an await is over within its limit, in what it does or in a
\* TimeoutError.
Within(limit) == \E d \in 0..limit : elapsed' = elapsed + d
Expires(limit) == elapsed' = elapsed + limit

\* The head of the loop: out of steps, out of time, or on.
CheckNoClock ==
  /\ at = "check" /\ UNCHANGED <<elapsed, reply, performed>>
  /\ IF step > MaxSteps THEN Stop("failure", MaxSteps) ELSE Go("shot")
CheckOneMore ==
  /\ at = "check" /\ UNCHANGED <<elapsed, reply, performed>>
  /\ IF step > MaxSteps + 1 THEN Stop("failure", MaxSteps)
     ELSE IF elapsed >= TotalTimeout THEN Stop("failure", step - 1)
     ELSE Go("shot")
Check ==
  /\ at = "check" /\ UNCHANGED <<elapsed, reply, performed>>
  /\ IF step > MaxSteps THEN Stop("failure", MaxSteps)
     ELSE IF elapsed >= TotalTimeout THEN Stop("failure", step - 1)
     ELSE Go("shot")

Screenshot ==
  /\ at = "shot" /\ UNCHANGED <<reply, performed>>
  /\ \/ Within(BrowserTimeout) /\ Go("ask")
     \/ Expires(BrowserTimeout) /\ Stop("failure", step - 1)
     \/ Within(BrowserTimeout) /\ Stop("raised", step - 1)

Ending(type) == IF type = "done" THEN "success" ELSE "failure"

\* next_action: a reply that cannot be used, or none in time, ends the run
\* and stays out of the history.
Ask ==
  /\ at = "ask" /\ UNCHANGED performed
  /\ \/ /\ Within(StepTimeout)
        /\ \E r \in {x \in Replies : Accepted(x)} :
             /\ reply' = r
             /\ IF r.type \in {"done", "fail"} THEN Stop(Ending(r.type), step) ELSE Go("act")
     \/ Within(StepTimeout) /\ Stop("failure", step - 1) /\ UNCHANGED reply
     \/ Expires(StepTimeout) /\ Stop("failure", step - 1) /\ UNCHANGED reply
     \/ Within(StepTimeout) /\ Stop("raised", step - 1) /\ UNCHANGED reply

NextStep == step' = step + 1

\* _execute: the action may have been carried out when its time is up.
Execute ==
  /\ at = "act" /\ UNCHANGED reply
  /\ \/ Within(BrowserTimeout) /\ performed' = performed + 1
        /\ at' = "check" /\ NextStep /\ result' = result
     \/ Expires(BrowserTimeout) /\ performed' \in {performed, performed + 1}
        /\ Stop("failure", step)
     \/ Within(BrowserTimeout) /\ UNCHANGED performed /\ Stop("raised", step)

Next == Check \/ Screenshot \/ Ask \/ Execute

Spec == Init /\ [][Next]_vars

-----------------------------------------------------------------------------
(* Properties                                                              *)

\* However the page and the model dawdle, a run is over within the total
\* limit and one step more, two browser calls and one reply; it carries out
\* no more actions than it may, and only the model's own "done", with every
\* action before it carried out, is a success (vision_loop.py:19-23, 67-106).
RunBounded ==
  /\ elapsed < TotalTimeout + 2 * BrowserTimeout + StepTimeout
  /\ performed <= MaxSteps /\ (at = "ended" => step <= MaxSteps)
  /\ result = "success" => reply.type = "done" /\ performed = step - 1

=============================================================================
