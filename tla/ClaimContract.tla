--------------------------- MODULE ClaimContract ---------------------------
(***************************************************************************)
(* What the agent promises her about one shift, with no cycle, restart or  *)
(* configuration in sight: a shift is presented once, requested at most    *)
(* once and only after it was presented; a reported failure is one the     *)
(* portal agrees with; and "claimed" is the portal's award, or the outcome *)
(* is still awaited.  ClaimCycle implements it.                            *)
(***************************************************************************)
CONSTANT Shifts

VARIABLES
  deferred,   \* the portal decides later: "claimed" says she has asked
  presented,  \* shifts she was told of or that were taken up for her
  requested,  \* shifts a request was sent for
  request,    \* what the portal holds for her
  report,     \* what she is told became of it
  awaited     \* shifts reported claimed whose outcome is still to be read

vars == <<deferred, presented, requested, request, report, awaited>>

Init ==
  /\ deferred \in BOOLEAN /\ presented = {} /\ requested = {} /\ awaited = {}
  /\ request = [s \in Shifts |-> "none"]
  /\ report  = [s \in Shifts |-> "none"]

Present(s) ==
  /\ s \notin presented /\ presented' = presented \cup {s}
  /\ UNCHANGED <<deferred, requested, request, report, awaited>>

\* The portal refuses or loses the request, decides at once, or defers.
Request(s) ==
  /\ s \in presented \ requested /\ requested' = requested \cup {s}
  /\ \E r \in {"none", IF deferred THEN "pending" ELSE "awarded"} :
       request' = [request EXCEPT ![s] = r]
  /\ UNCHANGED <<deferred, presented, report, awaited>>

Decide(s) ==
  /\ request[s] = "pending"
  /\ \E r \in {"awarded", "denied"} : request' = [request EXCEPT ![s] = r]
  /\ UNCHANGED <<deferred, presented, requested, report, awaited>>

\* Where the portal decides at once a claim is the award itself.
ReportClaimed(s) ==
  /\ s \in requested /\ report[s] = "none" /\ (deferred \/ request[s] = "awarded")
  /\ report' = [report EXCEPT ![s] = "claimed"] /\ awaited' = awaited \cup {s}
  /\ UNCHANGED <<deferred, presented, requested, request>>

ReportFailed(s) ==
  /\ s \in requested /\ report[s] = "none" /\ request[s] = "none"
  /\ report' = [report EXCEPT ![s] = "failed"]
  /\ UNCHANGED <<deferred, presented, requested, request, awaited>>

\* The outcome is read: it replaces the report, and is awaited no longer
\* unless the agent dies between the two.
ReportOutcome(s) ==
  /\ s \in awaited /\ deferred /\ request[s] # "pending"
  /\ report' = [report EXCEPT ![s] = IF request[s] = "awarded" THEN "claimed" ELSE "failed"]
  /\ awaited' \in {awaited, awaited \ {s}}
  /\ UNCHANGED <<deferred, presented, requested, request>>

Next ==
  \E s \in Shifts :
    \/ Present(s) \/ Request(s) \/ Decide(s)
    \/ ReportClaimed(s) \/ ReportFailed(s) \/ ReportOutcome(s)

Spec == Init /\ [][Next]_vars

=============================================================================
