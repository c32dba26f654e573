---------------------------- MODULE FlicaSession ----------------------------
(***************************************************************************)
(* The browser session of the FLICA adapter (adapters/flica.py): one page, *)
(* whose content lives in frames that attach after the page and keep what  *)
(* they last loaded, and a cycle that tests the session, reloads the       *)
(* open-time frame and reads the schedule frame as it stands.              *)
(*                                                                         *)
(* The portal and the person at the window are the environment: pairings   *)
(* come and go, a challenge appears in the page, in a frame or in its      *)
(* neighbour, frames are lost and found.  Troubles are bounded by          *)
(* MaxTroubles.  The pause that a hand-over sets, and the probe that lifts *)
(* it, are AuthGate's: here the loop asks again in its next cycle.         *)
(***************************************************************************)
EXTENDS Naturals, FiniteSets

CONSTANTS Pairings, MaxTroubles

VARIABLES
  page,       \* self._page: "none", "elsewhere" (not the portal), "portal"
  top,        \* the top-level document shows a challenge
  frame,      \* what each frame shows
  pot,        \* the pairings the portal offers
  roster,     \* the pairings the portal has her assigned to
  troubles,   \* challenges, lost frames and failed starts so far
  at,         \* where the cycle is
  seen,       \* the open list the last cycle was given
  assigned,   \* the schedule the last cycle was given
  told        \* what the last hand-over told her

vars == <<page, top, frame, pot, roster, troubles, at, seen, assigned, told>>

OPENTIME == "otopentimepot.cgi"
SCHEDULE == "cmschedules.cgi"
Frames == {OPENTIME, SCHEDULE}

\* A frame is absent, or shows a table, a challenge, or something that is
\* neither (a notice, a form, half a page).
Kinds == {"absent", "table", "challenge", "other"}
Shows(kind, rows) == [kind |-> kind, rows |-> rows]
Absent == Shows("absent", {})
\* What the portal puts into a frame when it loads.
Loaded(f) == Shows("table", IF f = OPENTIME THEN pot ELSE roster)

TypeOK ==
  /\ page \in {"none", "elsewhere", "portal"}
  /\ top \in BOOLEAN
  /\ frame \in [Frames -> [kind : Kinds, rows : SUBSET Pairings]]
  /\ pot \subseteq Pairings /\ roster \subseteq Pairings
  /\ troubles \in 0..MaxTroubles
  /\ at \in {"off", "idle", "login", "open", "schedule", "deciding"}
  /\ seen \subseteq Pairings /\ assigned \subseteq Pairings
  /\ told \in {"nothing", "challenge", "sign_in"}

Init ==
  /\ page = "none" /\ top = FALSE /\ frame = [f \in Frames |-> Absent]
  /\ pot = {} /\ roster = {} /\ troubles = 0
  /\ at = "off" /\ seen = {} /\ assigned = {} /\ told = "nothing"

-----------------------------------------------------------------------------
(* The portal and the person                                               *)

Trouble == troubles < MaxTroubles /\ troubles' = troubles + 1

Offer(p) ==
  /\ p \notin pot \cup roster /\ pot' = pot \cup {p}
  /\ UNCHANGED <<page, top, frame, roster, troubles, at, seen, assigned, told>>

\* Another takes it, or the schedulers assign it to her.
Withdraw(p) ==
  /\ p \in pot /\ pot' = pot \ {p}
  /\ roster' \in {roster, roster \cup {p}}
  /\ UNCHANGED <<page, top, frame, troubles, at, seen, assigned, told>>

\* A frame attaches, or is navigated by the person, and loads.
Attach(f) ==
  /\ page = "portal" /\ frame[f].kind \in {"absent", "other"}
  /\ frame' = [frame EXCEPT ![f] = Loaded(f)]
  /\ UNCHANGED <<page, top, pot, roster, troubles, at, seen, assigned, told>>

\* A frame is lost, or loads something that is not its table.
Upset(f) ==
  /\ page = "portal" /\ Trouble
  /\ \E kind \in Kinds \ {"table"} : frame' = [frame EXCEPT ![f] = Shows(kind, {})]
  /\ UNCHANGED <<page, top, pot, roster, at, seen, assigned, told>>

\* The challenge is drawn over the page; the frames keep their markup.
Challenge ==
  /\ page = "portal" /\ Trouble /\ top' = TRUE
  /\ UNCHANGED <<page, frame, pot, roster, at, seen, assigned, told>>

\* She signs in, or clears the challenge, and is back at the portal.  Nobody
\* sends her there unless the agent has asked.
Help ==
  /\ told # "nothing" /\ page # "none"
  /\ page' = "portal" /\ top' = FALSE /\ told' = "nothing"
  /\ frame' = [f \in Frames |-> IF frame[f].kind = "challenge" THEN Loaded(f) ELSE frame[f]]
  /\ UNCHANGED <<pot, roster, troubles, at, seen, assigned>>

-----------------------------------------------------------------------------
(* The adapter                                                             *)

\* start: the persistent profile may still be signed in; a first navigation
\* that fails is logged and the page stays where it is.
Start ==
  /\ at = "off" /\ at' = "idle"
  /\ \/ page' = "portal" /\ UNCHANGED troubles
     \/ page' = "elsewhere" /\ Trouble
  /\ UNCHANGED <<top, frame, pot, roster, seen, assigned, told>>

\* close: the page and its frames are gone.
Close ==
  /\ at = "idle" /\ Trouble /\ at' = "off" /\ page' = "none"
  /\ top' = FALSE /\ frame' = [f \in Frames |-> Absent]
  /\ UNCHANGED <<pot, roster, seen, assigned, told>>

\* is_authenticated: the open-time frame is there, and neither it nor the
\* top-level document shows a challenge.  No other frame is looked at.
FrameHealthy == frame[OPENTIME].kind \notin {"absent", "challenge"}
IsAuthenticated == FrameHealthy /\ ~top

\* run_once: a live session goes on to the data, a dead one to login.
Probe ==
  /\ at = "idle" /\ page # "none"
  /\ at' = IF IsAuthenticated THEN "open" ELSE "login"
  /\ UNCHANGED <<page, top, frame, pot, roster, troubles, seen, assigned, told>>

\* login: never more than a look.  A challenge in the top-level document is
\* named; anything else that is not a live session is a request to sign in.
Login ==
  /\ at = "login"
  /\ IF top THEN told' = "challenge" /\ at' = "idle"
     ELSE IF IsAuthenticated THEN told' = told /\ at' = "open"
     ELSE told' = "sign_in" /\ at' = "idle"
  /\ UNCHANGED <<page, top, frame, pot, roster, troubles, seen, assigned>>

\* What a parser makes of a frame: no frame, or no table in it, is no rows.
Parsed(content) == IF content.kind = "table" THEN content.rows ELSE {}

\* _refresh: what an attached frame may show after a reload.  One that fails
\* leaves the frame showing what it showed.
NotReloaded(f) == {frame[f]}
Reloaded(f) == NotReloaded(f) \cup (IF frame[f].kind = "absent" THEN {} ELSE {Loaded(f)})

\* fetch_open_shifts: reload the frame, then read it.
FetchOpenShifts ==
  /\ at = "open" /\ at' = "schedule"
  /\ \E shown \in Reloaded(OPENTIME) :
       frame' = [frame EXCEPT ![OPENTIME] = shown] /\ seen' = Parsed(shown)
  /\ UNCHANGED <<page, top, pot, roster, troubles, assigned, told>>

\* The attempt whose reload went through.
Refreshed == FetchOpenShifts /\ frame'[OPENTIME] = Loaded(OPENTIME)

\* fetch_my_schedule: read as it stands; a frame that is not there is an
\* empty schedule.
FetchMySchedule ==
  /\ at = "schedule" /\ at' = "deciding"
  /\ assigned' = Parsed(frame[SCHEDULE])
  /\ UNCHANGED <<page, top, frame, pot, roster, troubles, seen, told>>

\* The cycle classifies and ends, with or without a claim.  `claim` clicks
\* the pairing's link in the frame; the portal assigns what it still has.
Finish ==
  /\ at = "deciding" /\ at' = "idle"
  /\ UNCHANGED <<page, top, frame, pot, roster, troubles, seen, assigned, told>>

Claim(p) ==
  /\ at = "deciding" /\ at' = "idle"
  /\ p \in seen /\ p \in Parsed(frame[OPENTIME])
  /\ IF p \in pot THEN pot' = pot \ {p} /\ roster' = roster \cup {p}
                  ELSE UNCHANGED <<pot, roster>>
  /\ UNCHANGED <<page, top, frame, troubles, seen, assigned, told>>

-----------------------------------------------------------------------------
World ==
  \/ Challenge \/ Help
  \/ \E p \in Pairings : Offer(p) \/ Withdraw(p)
  \/ \E f \in Frames : Attach(f) \/ Upset(f)

Cycle == Probe \/ Login \/ FetchOpenShifts \/ FetchMySchedule \/ Finish

Next == World \/ Start \/ Close \/ Cycle \/ \E p \in Pairings : Claim(p)

Spec == Init /\ [][Next]_vars

\* The loop goes on and is started again; a reload does not fail for ever;
\* frames attach in the end, and she answers a hand-over in the end.
Fairness ==
  /\ WF_vars(Start) /\ WF_vars(Cycle) /\ SF_vars(Refreshed)
  /\ WF_vars(Help) /\ \A f \in Frames : WF_vars(Attach(f))

FairSpec == Spec /\ Fairness

-----------------------------------------------------------------------------
(* Properties                                                              *)

\* A shift posted after start-up is seen by a later cycle if it stays open:
\* the agent never goes on reading the page it started with
\* (flica.py:575-597, 644-646).
NewShiftsSeen == \A p \in Pairings : (p \in pot) ~> (p \in seen \/ p \notin pot)

\* A challenge over the page is handed to her, though the open-time frame
\* under it still holds its last good markup (flica.py:599-614, 616-640).
ChallengeHandedOver == top ~> (told # "nothing" \/ ~top)

\* A schedule that could not be read is an error and not "no trips"
\* (tests/fixtures/flica/cmschedules.html:4-7).
UnreadableScheduleIsAnError == at = "deciding" => frame[SCHEDULE].kind = "table"

=============================================================================
