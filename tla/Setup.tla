------------------------------- MODULE Setup -------------------------------
(***************************************************************************)
(* The executable started without a command (main._first_run) and the      *)
(* setup and picker window (setup/, served by dashboard/server.py): which  *)
(* profile it opens, and what the profiles on disk are when several pages  *)
(* of one window save at once, a save fails half way, the wait runs out or *)
(* the process is killed.                                                  *)
(*                                                                         *)
(* Every POST is a handler thread of its own.  A name stands for the       *)
(* configuration saved under it; what is in the configuration is left out. *)
(***************************************************************************)
EXTENDS FiniteSets, Naturals

CONSTANTS
  Names,     \* the names a form may carry
  Slug,      \* slugify, as a function on Names
  NoSlug,    \* it raised: the name leaves nothing usable
  Pages,     \* open copies of the page
  MaxDeaths  \* bound on kills

VARIABLES
  disk,      \* each profile directory and its config.yaml
  edited,    \* profiles whose config somebody edited by hand
  stage,     \* where the process is
  blocking,  \* the window blocks in _show until it is closed (pywebview)
  visible,   \* its pages can be used
  listed,    \* the profiles the pages offer to open
  job,       \* the POST each page has under way
  chosen,    \* SetupAPI.chosen
  done,      \* SetupAPI.done_event
  opened,    \* the profile whose dashboard is open
  deaths

vars == <<disk, edited, stage, blocking, visible, listed, job, chosen, done, opened, deaths>>

Slugs == {Slug[n] : n \in Names} \ {NoSlug}

\* No directory; one without a config; a config that does not load; or the
\* name a config was saved under.
Absent == "absent"
Empty == "empty"
Broken == "broken"

Posts == [step : {"none", "saving"}, name : Names]
NoPost == [step |-> "none", name |-> CHOOSE n \in Names : TRUE]
Stages == {"off", "showing", "waiting", "dashboard", "failed"}

TypeOK ==
  /\ disk \in [Slugs -> {Absent, Empty, Broken} \cup Names] /\ edited \subseteq Slugs
  /\ stage \in Stages /\ blocking \in BOOLEAN /\ visible \in BOOLEAN
  /\ listed \subseteq Slugs /\ job \in [Pages -> Posts]
  /\ chosen \in Slugs \cup {NoSlug} /\ done \in BOOLEAN
  /\ opened \in Slugs \cup {NoSlug} /\ deaths \in 0..MaxDeaths

Init ==
  /\ disk = [s \in Slugs |-> Absent] /\ edited = {}
  /\ stage = "off" /\ blocking = FALSE /\ visible = FALSE /\ listed = {}
  /\ job = [p \in Pages |-> NoPost] /\ chosen = NoSlug /\ done = FALSE
  /\ opened = NoSlug /\ deaths = 0

-----------------------------------------------------------------------------
(* The process                                                             *)

\* _configured_profiles: directories that hold a config, readable or not.
Configured == {s \in Slugs : disk[s] \notin {Absent, Empty}}
\* UserConfig.load returns.
Loads(s) == disk[s] \in Names
\* list_profiles, as far as the picker gives it an Open button.
ListProfiles == {s \in Slugs : Loads(s)}

\* _dashboard: an unreadable config is an exception nobody catches.
Dashboard(s) ==
  IF Loads(s) THEN stage' = "dashboard" /\ opened' = s ELSE stage' = "failed" /\ opened' = NoSlug

\* open_setup_window: a new SetupAPI, and pages that load their list.
OpenWindow ==
  /\ stage' = "showing" /\ blocking' \in BOOLEAN /\ visible' = TRUE
  /\ listed' = ListProfiles /\ chosen' = NoSlug /\ done' = FALSE
  /\ opened' = NoSlug

\* The only profile there is is opened; else the window is.
FirstRun ==
  /\ stage = "off"
  /\ IF Cardinality(Configured) = 1
     THEN (\E s \in Configured : Dashboard(s)) /\ UNCHANGED <<blocking, visible, listed, chosen, done>>
     ELSE OpenWindow
  /\ UNCHANGED <<disk, edited, job, deaths>>

\* The setup subcommand.
SetupCommand == stage = "off" /\ OpenWindow /\ UNCHANGED <<disk, edited, job, deaths>>

\* _show returns: at once for a browser, whose pages stay, and for a window
\* when it is closed.
ShowReturns ==
  /\ stage = "showing" /\ stage' = "waiting" /\ visible' = ~blocking
  /\ UNCHANGED <<disk, edited, blocking, listed, job, chosen, done, opened, deaths>>

\* The wait is over, by a choice or by its timeout; the server is stopped,
\* its handlers are not, and what is chosen by then is opened.
WaitForChoice == done
WaitEnds == TRUE
Return ==
  /\ stage = "waiting" /\ WaitEnds /\ visible' = FALSE
  /\ IF chosen = NoSlug THEN stage' = "off" /\ opened' = NoSlug ELSE Dashboard(chosen)
  /\ job' = IF chosen = NoSlug THEN [p \in Pages |-> NoPost] ELSE job
  /\ UNCHANGED <<disk, edited, blocking, listed, chosen, done, deaths>>

\* The dashboard is closed or the traceback read: the process is over, and
\* its handlers with it.
Over(s) ==
  /\ stage' = s /\ visible' = FALSE /\ job' = [p \in Pages |-> NoPost] /\ opened' = NoSlug
  /\ UNCHANGED <<disk, edited, blocking, listed, chosen, done>>

Exit == stage \in {"dashboard", "failed"} /\ Over("off") /\ UNCHANGED deaths

Kill == stage # "off" /\ deaths < MaxDeaths /\ deaths' = deaths + 1 /\ Over("off")

-----------------------------------------------------------------------------
(* The pages                                                               *)

Reload ==
  /\ visible /\ listed' = ListProfiles
  /\ UNCHANGED <<disk, edited, stage, blocking, visible, job, chosen, done, opened, deaths>>

\* choose: any profile directory will do; the page offers those that load.
Choose(s) ==
  /\ visible /\ s \in listed
  /\ chosen' = s /\ done' = TRUE
  /\ UNCHANGED <<disk, edited, stage, blocking, visible, listed, job, opened, deaths>>

ChosenEarly(s) == chosen' = s /\ done' = TRUE
ChosenLater(s) == UNCHANGED <<chosen, done>>

\* save_profile: a form that is refused and a name without a slug leave
\* nothing behind; else the directory is made, and filled in later.
Save(p, n) ==
  /\ visible /\ job[p].step = "none" /\ Slug[n] # NoSlug
  /\ disk' = [disk EXCEPT ![Slug[n]] = IF @ = Absent THEN Empty ELSE @]
  /\ job' = [job EXCEPT ![p] = [step |-> "saving", name |-> n]]
  /\ ChosenLater(Slug[n])
  /\ UNCHANGED <<edited, stage, blocking, visible, listed, opened, deaths>>

\* _write_atomic: a reader, and a kill, find the old config or the new one.
WriteInPlace(s, n) == disk' \in {[disk EXCEPT ![s] = n], [disk EXCEPT ![s] = Broken]}
WriteAtomic(s, n) == disk' = [disk EXCEPT ![s] = n]

Saved(p) ==
  /\ job[p].step = "saving" /\ job' = [job EXCEPT ![p] = NoPost]
  /\ LET s == Slug[job[p].name] IN
       WriteAtomic(s, job[p].name) /\ edited' = edited \ {s} /\ chosen' = s
  /\ done' = TRUE
  /\ UNCHANGED <<stage, blocking, visible, listed, opened, deaths>>

\* The disk is full: the page is told, and the directory stays.
SaveFails(p) ==
  /\ job[p].step = "saving" /\ job' = [job EXCEPT ![p] = NoPost]
  /\ UNCHANGED <<disk, edited, stage, blocking, visible, listed, chosen, done, opened, deaths>>

\* Somebody edits a config, and gets it wrong.
Edit(s) ==
  /\ disk[s] \in Names /\ disk' = [disk EXCEPT ![s] = Broken] /\ edited' = edited \cup {s}
  /\ UNCHANGED <<stage, blocking, visible, listed, job, chosen, done, opened, deaths>>

-----------------------------------------------------------------------------
Next ==
  \/ FirstRun \/ SetupCommand \/ ShowReturns \/ Return \/ Exit \/ Kill \/ Reload
  \/ \E s \in Slugs : Choose(s) \/ Edit(s)
  \/ \E p \in Pages : Saved(p) \/ SaveFails(p) \/ \E n \in Names : Save(p, n)

Spec == Init /\ [][Next]_vars
\* She closes the window in the end, and the wait has its timeout.
FairSpec == Spec /\ WF_vars(ShowReturns) /\ WF_vars(Return)

-----------------------------------------------------------------------------
(* Properties                                                              *)

\* However saves overlap, fail or are cut off, a config nobody edited by hand
\* loads: the next double-click is not met by a profile half written, and a
\* profile is chosen only once it is on disk (setup/api.py:38-53, 122-151;
\* main.py:225-270).
ProfilesStayWhole ==
  /\ \A s \in Slugs : disk[s] = Broken => s \in edited
  /\ chosen # NoSlug /\ chosen \notin edited => disk[chosen] \in Names

\* The window's caller gets an answer, whatever she does in it
\* (setup/__init__.py:31-36, 63-69).
SetupEnds == (stage = "showing") ~> (stage \notin {"showing", "waiting"})

=============================================================================
