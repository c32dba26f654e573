------------------------------ MODULE Classify ------------------------------
(***************************************************************************)
(* What a cycle makes of the open list (poller.run_once, _classify): every *)
(* row is classified first, by the checks in their order of cost and the   *)
(* detail page that is fetched only for a row that passed them and whose   *)
(* seat is cached by pairing.  Then come the two ways on, to tell her and  *)
(* leave the shift, and to pursue it.  Both mark the shift offered, and    *)
(* both pass over what was marked when the cycle read the marks, once,     *)
(* before it classified anything.                                          *)
(*                                                                         *)
(* The open list is read anew in every cycle: what the schedule engine     *)
(* says of a shift, the base the portal is set to and the premium flag may *)
(* change or be unreadable; the seat behind a pairing does not change.     *)
(* The claim itself is ClaimCycle's.                                       *)
(***************************************************************************)
EXTENDS Naturals

CONSTANTS
  Ids,         \* shift ids, with their pairings
  Copies,      \* how often an id may stand in the open list
  Letters,     \* position letters
  NoGrade,     \* no position found
  MaxAttempts  \* rules.max_claim_attempts

VARIABLES
  config,      \* home_base.enabled, rules.premium_only, grades
  seat,        \* the seat each pairing is open for
  cache,       \* _position_cache
  offered,     \* offered_at IS NOT NULL
  alerted,     \* shifts she was told the agent does not claim
  pursued,     \* shifts the agent went on to offer or claim
  attempts,    \* failed_attempts
  \* locals of the running cycle
  busy,        \* TRUE from reading the marks to the end of the cycle
  snap,        \* `offered` as the cycle read it
  left,        \* per id its rows still to be classified
  cands,       \* `candidates`: ids and what their row said
  alerts,      \* `alerts`
  \* history, read by no step
  twice        \* ids that stood twice in the list that first presented them

stored == <<seat, offered, alerted, pursued, attempts>>
locals == <<busy, snap, left, cands, alerts>>
vars   == <<config, cache, stored, locals, twice>>

Uncached == "uncached"
Grade == Letters \cup {NoGrade}
Zero  == [id \in Ids |-> 0]

\* Grades: pursue and notify_only do not overlap.
Configs ==
  {c \in [locked : BOOLEAN, premium_only : BOOLEAN, pursue : SUBSET Letters, notify_only : SUBSET Letters] :
     c.pursue \cap c.notify_only = {}}

\* A row of the open list as it was read: "unread" is a base the page does
\* not name, or a premium glyph nobody knows.
Bases == {"home", "other", "unread"}
Flags == {"yes", "no", "unread"}
Rows  == [soon : BOOLEAN, fits : BOOLEAN, base : Bases, premium : Flags]

\* What is left of it in the list of candidates.
Candidates == [id : Ids, base : Bases, premium : Flags]

TypeOK ==
  /\ config \in Configs /\ seat \in [Ids -> Letters]
  /\ cache \in [Ids -> Grade \cup {Uncached}]
  /\ offered \subseteq Ids /\ alerted \subseteq Ids /\ pursued \subseteq Ids
  /\ attempts \in [Ids -> 0..MaxAttempts]
  /\ busy \in BOOLEAN /\ snap \subseteq Ids /\ left \in [Ids -> 0..Copies]
  /\ cands \subseteq Candidates /\ alerts \subseteq Ids /\ twice \subseteq Ids

Init ==
  /\ config \in Configs /\ seat \in [Ids -> Letters]
  /\ cache = [id \in Ids |-> Uncached]
  /\ offered = {} /\ alerted = {} /\ pursued = {} /\ attempts = [id \in Ids |-> 0]
  /\ busy = FALSE /\ snap = {} /\ left = Zero /\ cands = {} /\ alerts = {} /\ twice = {}

-----------------------------------------------------------------------------
(* Phase 1: classify every row                                             *)

\* The list and the marks have been read.
Begin(list) ==
  /\ ~busy /\ busy' = TRUE /\ snap' = offered /\ left' = list
  /\ twice' = (twice \cap offered) \cup {id \in Ids \ offered : list[id] > 1}
  /\ UNCHANGED <<config, cache, stored, cands, alerts>>

\* HomeBase.allows and _parse_premium: what is not known is not assumed.
AllowsAny(base) == ~config.locked \/ base # "other"
Allows(base) == config.locked => base = "home"
Premium(flag) == flag = "yes"

\* Grades.should_pursue.
ShouldPursueUnknown(grade) == config.pursue \cup config.notify_only # {} => grade \notin config.notify_only
ShouldPursue(grade) == config.pursue \cup config.notify_only # {} => grade \in config.pursue

\* _classify_cheap.
Cheap(row) ==
  CASE row.soon -> "too_soon"
    [] ~row.fits -> "engine"
    [] ~Allows(row.base) -> "wrong_base"
    [] config.premium_only /\ ~Premium(row.premium) -> "not_premium"
    [] OTHER -> "match"

Verdict(id, grade) ==
  IF ~ShouldPursue(grade) THEN "grade_notify_only"
  ELSE IF attempts[id] >= MaxAttempts THEN "max_attempts_reached"
  ELSE "match"

\* A row is taken from the list.
Read(id) == busy /\ left[id] > 0 /\ left' = [left EXCEPT ![id] = @ - 1]

\* Its verdict puts it among the candidates or among the alerts.
Sort(id, row, verdict) ==
  IF verdict = "match"
  THEN cands' = cands \cup {[id |-> id, base |-> row.base, premium |-> row.premium]} /\ alerts' = alerts
  ELSE alerts' = alerts \cup {id} /\ cands' = cands

Refuse(id, row) ==
  /\ Read(id) /\ Cheap(row) # "match"
  /\ UNCHANGED <<config, cache, stored, busy, snap, cands, alerts, twice>>

\* enrich: a cached position is the position, be it none; else the page is
\* fetched, and tells the seat, or does not.
Positions(id) == IF cache[id] # Uncached THEN {cache[id]} ELSE {seat[id], NoGrade}

Fetch(id, row) ==
  /\ Read(id) /\ Cheap(row) = "match"
  /\ \E grade \in Positions(id) :
       cache' = [cache EXCEPT ![id] = grade] /\ Sort(id, row, Verdict(id, grade))
  /\ UNCHANGED <<config, stored, busy, snap, twice>>

\* The row links no detail page: there is no grade, and nothing is cached.
NoDetail(id, row) ==
  /\ Read(id) /\ Cheap(row) = "match" /\ cache[id] = Uncached
  /\ Sort(id, row, Verdict(id, NoGrade))
  /\ UNCHANGED <<config, cache, stored, busy, snap, twice>>

\* The page cannot be fetched: nothing is cached and she is to be told.
FetchFails(id, row) ==
  /\ Read(id) /\ Cheap(row) = "match" /\ cache[id] = Uncached
  /\ Sort(id, row, "grade_notify_only")
  /\ UNCHANGED <<config, cache, stored, busy, snap, twice>>

-----------------------------------------------------------------------------
(* Phase 1.5: tell her, and phase 2: pursue                                *)

AlertUnmarked(id) == alerted' = alerted \cup {id} /\ UNCHANGED offered
Alert(id) == alerted' = alerted \cup {id} /\ offered' = offered \cup {id}

AlertNext(id) ==
  /\ left = Zero /\ id \in alerts /\ alerts' = alerts \ {id}
  /\ IF id \in snap THEN UNCHANGED <<offered, alerted>> ELSE Alert(id)
  /\ UNCHANGED <<config, seat, cache, pursued, attempts, busy, snap, left, cands, twice>>

Pursue(id) == pursued' = pursued \cup {id} /\ offered' = offered \cup {id}

PursueNext(c) ==
  /\ left = Zero /\ alerts = {} /\ c \in cands /\ cands' = cands \ {c}
  /\ IF c.id \in snap THEN UNCHANGED <<offered, pursued>> ELSE Pursue(c.id)
  /\ UNCHANGED <<config, seat, cache, alerted, attempts, busy, snap, left, alerts, twice>>

-----------------------------------------------------------------------------
\* The locals go out of scope.
Leave == busy' = FALSE /\ snap' = {} /\ left' = Zero /\ cands' = {} /\ alerts' = {}

\* The cycle ends: all is done, a claim succeeded, or a call raised.
End == busy /\ Leave /\ UNCHANGED <<config, cache, stored, twice>>

\* A pursued shift's request fails, at once or when its outcome is read.
Fail(id) ==
  /\ ~busy \/ (left = Zero /\ alerts = {})
  /\ id \in pursued /\ attempts[id] < MaxAttempts
  /\ attempts' = [attempts EXCEPT ![id] = @ + 1]
  /\ UNCHANGED <<config, seat, cache, offered, alerted, pursued, locals, twice>>

\* The process ends anywhere in a cycle; a restart brings the configuration
\* as it is now and an empty cache.
Restart ==
  /\ Leave /\ config' \in Configs /\ cache' = [id \in Ids |-> Uncached]
  /\ UNCHANGED <<stored, twice>>

Look(id, row) == Refuse(id, row) \/ Fetch(id, row) \/ NoDetail(id, row) \/ FetchFails(id, row)

Next ==
  \/ End \/ Restart
  \/ \E list \in [Ids -> 0..Copies] : Begin(list)
  \/ \E id \in Ids : AlertNext(id) \/ Fail(id) \/ \E row \in Rows : Look(id, row)
  \/ \E c \in cands : PursueNext(c)

Spec == Init /\ [][Next]_vars

-----------------------------------------------------------------------------
(* Properties                                                              *)

\* The agent goes after a shift only if its seat, which it may know from an
\* earlier cycle, is one she pursues under the configuration of this start,
\* and if the row that made it a candidate was of her base and, where she
\* asks for it, premium (config.py:147-153, 160-195; poller.py:281-289,
\* 347-402).
Wanted(c) ==
  /\ config.pursue \cup config.notify_only # {} => seat[c.id] \in config.pursue
  /\ config.locked => c.base = "home"
  /\ config.premium_only => c.premium = "yes"
OnlyWantedSeats ==
  [][\A id \in pursued' \ pursued : \E c \in cands \ cands' : c.id = id /\ Wanted(c)]_vars

\* A shift she was told the agent does not claim is never offered or claimed
\* afterwards, and she is told so of no shift the agent went after, through
\* restarts, other configurations, pages that become readable and cycles that
\* end half way; but for a shift that stood twice in the one list that first
\* presented it, whose two rows may be taken for different things, since both
\* phases test the marks the cycle began with (poller.py:245, 268-289).
AlertIsFinal == alerted \cap pursued \subseteq twice

=============================================================================
