------------------------------ MODULE ChatHub ------------------------------
(***************************************************************************)
(* One conversation behind two front doors (chat/hub.py).  A turn typed    *)
(* into the dashboard comes in on an HTTP thread, which hands the          *)
(* coroutine to the agent's loop and waits for it at most two minutes; a   *)
(* turn typed to the bot comes in through the listener, which takes its    *)
(* updates one after the other and waits for the whole turn.  Both go      *)
(* through `post`, under one lock, and every await of it is a step at      *)
(* which the other turns go on.                                            *)
(*                                                                         *)
(* A message is the turn it belongs to; the mirror in the Telegram chat is *)
(* a send that changes nothing here.  `note`, which nothing in src/ calls, *)
(* is left out.                                                            *)
(***************************************************************************)
EXTENDS Naturals, Sequences, SequencesExt

CONSTANTS
  Typed,      \* turns typed into the dashboard's panel
  Texted,     \* turns typed to the bot
  Pause,      \* the update that carries /pause
  NoTurn,     \* nobody: the lock is free, the listener is waiting
  MaxRounds   \* MAX_TOOL_ROUNDS

VARIABLES
  thread,     \* the rows of chat_messages, oldest first
  stage,      \* how far each turn is
  holder,     \* the turn that holds hub._lock
  waiters,    \* the turns that wait for it, first come first served
  heard,      \* how many rows the model was given for a turn
  rounds,     \* model calls made for the turn that holds the lock
  http,       \* what became of each POST
  inbox,      \* updates the bot was sent and has not taken
  listener    \* the turn the listener is waiting for

vars == <<thread, stage, holder, waiters, heard, rounds, http, inbox, listener>>

Turns == Typed \cup Texted

\* append_message: a turn, who speaks, and the source column.
Row(t, role, source) == [turn |-> t, role |-> role, source |-> source]
Source(t) == IF t \in Typed THEN "dashboard" ELSE "telegram"
Rows == [turn : Turns, role : {"user", "agent"}, source : {"dashboard", "telegram", "system"}]

Stages == {"unsent", "sent", "queued", "mirroring", "thinking", "echoing", "sending", "done"}
\* The stages of a turn inside `async with self._lock`.
Inside == {"mirroring", "thinking", "echoing"}

TypeOK ==
  /\ thread \in Seq(Rows)
  /\ stage \in [Turns -> Stages]
  /\ holder \in Turns \cup {NoTurn}
  /\ waiters \in Seq(Turns)
  /\ heard \in [Turns -> Nat]
  /\ rounds \in Nat
  /\ http \in [Typed -> {"none", "waiting", "answered", "gave_up"}]
  /\ inbox \in Seq(Texted \cup {Pause})
  /\ listener \in Texted \cup {NoTurn}

Init ==
  /\ thread = <<>> /\ stage = [t \in Turns |-> "unsent"]
  /\ holder = NoTurn /\ waiters = <<>>
  /\ heard = [t \in Turns |-> 0] /\ rounds = 0
  /\ http = [t \in Typed |-> "none"]
  /\ inbox = <<>> /\ listener = NoTurn

To(t, s) == stage' = [stage EXCEPT ![t] = s]

\* The thread that waits for the turn gets its reply, unless it has left.
Answered(t) ==
  http' = [u \in Typed |-> IF u = t /\ http[u] = "waiting" THEN "answered" ELSE http[u]]

-----------------------------------------------------------------------------
(* The two front doors                                                     *)

\* _chat_post and _call_hub: the coroutine is scheduled, the thread waits.
Submit(t) ==
  /\ t \in Typed /\ stage[t] = "unsent"
  /\ To(t, "queued") /\ waiters' = Append(waiters, t)
  /\ http' = [http EXCEPT ![t] = "waiting"]
  /\ UNCHANGED <<thread, holder, heard, rounds, inbox, listener>>

\* A message of blanks is answered with "" and leaves no trace.
SubmitBlank(t) ==
  /\ t \in Typed /\ stage[t] = "unsent"
  /\ To(t, "done") /\ http' = [http EXCEPT ![t] = "answered"]
  /\ UNCHANGED <<thread, holder, waiters, heard, rounds, inbox, listener>>

\* result(timeout=120) raises: she is told to try again, and the coroutine,
\* which nobody cancels, goes on.
GiveUp(t) ==
  /\ t \in Typed /\ http[t] = "waiting"
  /\ http' = [http EXCEPT ![t] = "gave_up"]
  /\ UNCHANGED <<thread, stage, holder, waiters, heard, rounds, inbox, listener>>

\* She writes to the bot.
Write(t) ==
  /\ t \in Texted /\ stage[t] = "unsent"
  /\ To(t, "sent") /\ inbox' = Append(inbox, t)
  /\ UNCHANGED <<thread, holder, waiters, heard, rounds, http, listener>>

WritePause ==
  /\ Pause \notin ToSet(inbox) /\ inbox' = Append(inbox, Pause)
  /\ UNCHANGED <<thread, stage, holder, waiters, heard, rounds, http, listener>>

\* The listener takes the next update: a text goes to the hub, and the
\* listener waits for the turn; a command is carried out at once.
TakeText ==
  /\ listener = NoTurn /\ inbox # <<>> /\ Head(inbox) # Pause
  /\ inbox' = Tail(inbox) /\ listener' = Head(inbox)
  /\ To(Head(inbox), "queued") /\ waiters' = Append(waiters, Head(inbox))
  /\ UNCHANGED <<thread, holder, heard, rounds, http>>

TakePause ==
  /\ listener = NoTurn /\ inbox # <<>> /\ Head(inbox) = Pause
  /\ inbox' = Tail(inbox)
  /\ UNCHANGED <<thread, stage, holder, waiters, heard, rounds, http, listener>>

-----------------------------------------------------------------------------
(* post, under the lock                                                    *)

\* recent_messages, read in the step that starts the model.
Hear(t) == heard' = [heard EXCEPT ![t] = Len(thread')]

AcquireUnlocked(t) ==
  /\ waiters # <<>> /\ t = Head(waiters)
  /\ holder' = t /\ waiters' = Tail(waiters)
  /\ thread' = Append(thread, Row(t, "user", Source(t)))
  /\ IF t \in Typed THEN To(t, "mirroring") /\ heard' = heard
                    ELSE To(t, "thinking") /\ Hear(t)
  /\ rounds' = 0
  /\ UNCHANGED <<http, inbox, listener>>
\* The turn gets the lock and stores its message.
Acquire(t) == holder = NoTurn /\ AcquireUnlocked(t)

\* Her message has been mirrored to Telegram, or could not be.
Mirrored(t) ==
  /\ stage[t] = "mirroring" /\ To(t, "thinking")
  /\ thread' = thread /\ Hear(t)
  /\ UNCHANGED <<holder, waiters, rounds, http, inbox, listener>>

\* The model asks for tools and is called again with what they returned.
UseTools(t) ==
  /\ stage[t] = "thinking" /\ rounds + 1 < MaxRounds
  /\ rounds' = rounds + 1
  /\ UNCHANGED <<thread, stage, holder, waiters, heard, http, inbox, listener>>

\* The model's answer, or the apology for its last round, is stored.  The
\* dashboard's turn keeps the lock to mirror it; the bot's is sent by the
\* listener after the lock is free.
Answer(t) ==
  /\ stage[t] = "thinking"
  /\ thread' = Append(thread, Row(t, "agent", Source(t)))
  /\ To(t, IF t \in Typed THEN "echoing" ELSE "sending")
  /\ holder' = IF t \in Typed THEN t ELSE NoTurn
  /\ UNCHANGED <<waiters, heard, rounds, http, inbox, listener>>

FailLocked(t) ==
  /\ stage[t] = "thinking"
  /\ thread' = Append(thread, Row(t, "agent", "system"))
  /\ To(t, IF t \in Typed THEN "done" ELSE "sending") /\ Answered(t)
  /\ UNCHANGED <<holder, waiters, heard, rounds, inbox, listener>>
\* The model cannot be reached: the apology is stored as a system line and
\* returned, but not mirrored.
Fail(t) ==
  /\ stage[t] = "thinking"
  /\ thread' = Append(thread, Row(t, "agent", "system"))
  /\ To(t, IF t \in Typed THEN "done" ELSE "sending")
  /\ holder' = NoTurn /\ Answered(t)
  /\ UNCHANGED <<waiters, heard, rounds, inbox, listener>>

\* It has nothing to say: nothing is stored and nothing is sent.
SayNothing(t) ==
  /\ stage[t] = "thinking" /\ To(t, "done")
  /\ holder' = NoTurn /\ Answered(t)
  /\ listener' = IF t = listener THEN NoTurn ELSE listener
  /\ UNCHANGED <<thread, waiters, heard, rounds, inbox>>

\* The dashboard's reply has been mirrored, or could not be.
Echoed(t) ==
  /\ stage[t] = "echoing" /\ To(t, "done")
  /\ holder' = NoTurn /\ Answered(t)
  /\ UNCHANGED <<thread, waiters, heard, rounds, inbox, listener>>

\* The listener has sent the reply and can take the next update.
Sent(t) ==
  /\ stage[t] = "sending" /\ To(t, "done")
  /\ listener' = NoTurn
  /\ UNCHANGED <<thread, holder, waiters, heard, rounds, http, inbox>>

-----------------------------------------------------------------------------
Post(t) ==
  \/ Acquire(t) \/ Mirrored(t) \/ UseTools(t) \/ Answer(t) \/ Fail(t) \/ SayNothing(t)
  \/ Echoed(t) \/ Sent(t)

People ==
  \/ WritePause
  \/ \E t \in Turns : Submit(t) \/ SubmitBlank(t) \/ GiveUp(t) \/ Write(t)

Next == TakeText \/ TakePause \/ People \/ \E t \in Turns : Post(t)

Spec == Init /\ [][Next]_vars

\* The loop runs what is ready: sends and model calls come back, with an
\* answer or an error.  Nobody owes another message, and nobody is owed a
\* timeout.
Fairness == WF_vars(TakeText) /\ WF_vars(TakePause) /\ \A t \in Turns : WF_vars(Post(t))

FairSpec == Spec /\ Fairness

-----------------------------------------------------------------------------
(* Properties                                                              *)

\* However the two front doors race, the thread is a sequence of whole
\* turns: an answer stands right behind the message it answers, and the
\* model is never given a conversation that ends in somebody else's turn
\* (hub.py:12-14, 74-105).
WholeTurns ==
  /\ \A i \in DOMAIN thread :
       thread[i].role = "agent" =>
         i > 1 /\ thread[i - 1].role = "user" /\ thread[i - 1].turn = thread[i].turn
  /\ \A t \in Turns :
       stage[t] = "thinking" =>
         /\ heard[t] = Len(thread) /\ heard[t] > 0
         /\ thread[heard[t]] = Row(t, "user", Source(t))

\* A message the agent has taken in is dealt with, whoever gave up on it,
\* and so is every update behind it (hub.py:74-105, server.py:223-239).
EveryTurnEnds ==
  /\ \A t \in Turns : (stage[t] \in {"sent", "queued"}) ~> (stage[t] = "done")
  /\ (Pause \in ToSet(inbox)) ~> (Pause \notin ToSet(inbox))

=============================================================================
