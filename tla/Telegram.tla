------------------------------ MODULE Telegram ------------------------------
(***************************************************************************)
(* The Telegram notifier (notify/telegram.py): the offer the claim cycle   *)
(* awaits, the listener that takes updates one by one and answers the      *)
(* future of that offer, and the linking of the one chat.  The listener    *)
(* and the cycle are tasks of one loop: a step is the code between two     *)
(* awaits.  The commands /pause and /resume are in AuthGate.               *)
(*                                                                         *)
(* The cycle awaits one offer at a time, so the pending map holds at most  *)
(* the offer in `asking`.  Updates are numbered as they reach Telegram,    *)
(* which keeps them until an offset beyond them is sent.                   *)
(***************************************************************************)
EXTENDS Naturals, Sequences, FiniteSets

CONSTANTS
  Offers,      \* the nonces offers are made under
  Chats,       \* the chats that write to the bot
  NoOffer,     \* no offer is awaited
  NoChat,      \* no chat is linked
  MaxUpdates,  \* bound: updates sent to the bot
  MaxKills     \* bound: how often the process is killed

ASSUME NoneAssumption == NoOffer \notin Offers /\ NoChat \notin Chats
ASSUME BoundAssumption == MaxUpdates \in Nat /\ MaxKills \in Nat

VARIABLES
  \* persisted
  offset,     \* TELEGRAM_OFFSET_KEY: how many updates have been taken
  chat,       \* TELEGRAM_CHAT_KEY
  code,       \* the keychain still holds the link code
  \* the running process
  up,
  link_code,  \* the link code is held in memory
  fetched,    \* the last update of the batch the listener works through
  asking,     \* the nonce in _pending
  phase,      \* where offer() is suspended, see Phases
  future,     \* the future of that offer, see Futures
  \* Telegram
  log,        \* the updates sent to the bot, oldest first
  delivered,  \* offers whose message, with its buttons, is in her chat
  \* history, read by no step of the agent
  kills,
  verdict,    \* verdict[o]: what offer() returned, "lost" if it never did
  first,      \* first[o]: the first button she pressed on o
  handled     \* handled[i]: how often update i was handled

stored  == <<offset, chat, code>>
cycle   == <<asking, phase, future>>
process == <<up, link_code, fetched, cycle>>
outside == <<log, delivered>>
history == <<kills, verdict, first, handled>>
vars    == <<stored, process, outside, history>>

\* sending: in sendMessage.  waiting: in wait_for.  missed: sending the
\* message that the time is up.
Phases  == {"none", "sending", "waiting", "missed"}
Futures == {"open", "confirm", "skip", "cancelled"}
Buttons == {"confirm", "skip"}

\* A button pressed under an offer, or /start with a right or wrong code.
Presses == [offer : Offers, button : Buttons]
Starts  == [from : Chats, right : BOOLEAN]
IsPress(u) == "offer" \in DOMAIN u

TypeOK ==
  /\ offset \in 0..Len(log) /\ chat \in Chats \cup {NoChat} /\ code \in BOOLEAN
  /\ up \in BOOLEAN /\ link_code \in BOOLEAN /\ fetched \in 0..Len(log)
  /\ asking \in Offers \cup {NoOffer} /\ phase \in Phases /\ future \in Futures
  /\ (asking = NoOffer <=> phase = "none")
  /\ log \in Seq(Presses \cup Starts) /\ delivered \subseteq Offers
  /\ kills \in 0..MaxKills
  /\ verdict \in [Offers -> {"unasked", "asked", "yes", "no", "lost"}]
  /\ first \in [Offers -> Buttons \cup {"none"}]
  /\ handled \in [1..MaxUpdates -> Nat]

\* A chat may be configured, or be linked later with the code.
Init ==
  /\ offset = 0 /\ chat \in Chats \cup {NoChat} /\ code = TRUE
  /\ up = TRUE /\ link_code = TRUE /\ fetched = 0
  /\ asking = NoOffer /\ phase = "none" /\ future = "open"
  /\ log = <<>> /\ delivered = {}
  /\ kills = 0
  /\ verdict = [o \in Offers |-> "unasked"]
  /\ first = [o \in Offers |-> "none"]
  /\ handled = [i \in 1..MaxUpdates |-> 0]

-----------------------------------------------------------------------------
(* Kills                                                                   *)

\* The prefixes of a step's k writes after which the process may die.
Cut(k) == IF kills = MaxKills THEN {k} ELSE 1..k

PoppedLate == asking' = NoOffer /\ phase' = phase /\ future' = "open"
\* The offer leaves _pending and the cycle goes on.
Popped == asking' = NoOffer /\ phase' = "none" /\ future' = "open"

Dies ==
  /\ up' = FALSE /\ link_code' = FALSE /\ fetched' = 0 /\ Popped
  /\ kills' = kills + 1
  /\ verdict' = [o \in Offers |-> IF o = asking THEN "lost" ELSE verdict[o]]

\* The listener goes on as `after` says after its k-th write, else it died.
Ends(n, k, after) ==
  IF n = k THEN after /\ UNCHANGED <<up, fetched, asking, phase, kills, verdict>> ELSE Dies

-----------------------------------------------------------------------------
(* offer                                                                   *)

\* Without a chat the send is dropped and the answer is no; else the nonce is
\* pending before the message goes out.
Offer(o) ==
  /\ up /\ asking = NoOffer /\ verdict[o] = "unasked"
  /\ IF chat = NoChat
     THEN verdict' = [verdict EXCEPT ![o] = "no"] /\ UNCHANGED cycle
     ELSE /\ verdict' = [verdict EXCEPT ![o] = "asked"]
          /\ asking' = o /\ phase' = "sending" /\ future' = "open"
  /\ UNCHANGED <<stored, up, link_code, fetched, outside, kills, first, handled>>

\* The message reaches her, perhaps at the second attempt; the reply to the
\* request may still be lost.
Deliver ==
  /\ phase = "sending" /\ asking \notin delivered
  /\ delivered' = delivered \cup {asking}
  /\ UNCHANGED <<stored, process, log, history>>

SendOk ==
  /\ phase = "sending" /\ asking \in delivered
  /\ phase' = "waiting"
  /\ UNCHANGED <<stored, up, link_code, fetched, asking, future, outside, history>>

Returns(v) ==
  /\ verdict' = [verdict EXCEPT ![asking] = v]
  /\ Popped
  /\ UNCHANGED <<stored, up, link_code, fetched, outside, kills, first, handled>>

\* A send that failed is no consent, whatever she pressed meanwhile.
SendFails == phase = "sending" /\ Returns("no")

Answered ==
  /\ phase = "waiting" /\ future \in Buttons
  /\ Returns(IF future = "confirm" THEN "yes" ELSE "no")

\* The time is up, perhaps after a press that wait_for has not seen yet.  The
\* nonce stays pending while the message that says so is sent.
TimeOut ==
  /\ phase = "waiting"
  /\ phase' = "missed"
  /\ future' = IF future = "open" THEN "cancelled" ELSE future
  /\ UNCHANGED <<stored, up, link_code, fetched, asking, outside, history>>

Missed == phase = "missed" /\ Returns("no")

-----------------------------------------------------------------------------
(* The listener                                                            *)

\* getUpdates from the stored offset, once the batch before is done.
Fetch(i) ==
  /\ up /\ fetched <= offset /\ offset < i /\ i <= Len(log)
  /\ fetched' = i
  /\ UNCHANGED <<stored, up, link_code, cycle, outside, history>>

Update == log[offset + 1]

Counted(now) == handled' = IF now THEN [handled EXCEPT ![offset + 1] = @ + 1] ELSE handled

TakeAfter(n, k) ==
  /\ offset' = IF n = k THEN offset + 1 ELSE offset
  /\ Counted(n >= 1)
TakeBatch(n, k) ==
  /\ offset' = IF n >= 1 THEN fetched ELSE offset
  /\ Counted(n >= 2 \/ n = k)
TakePending(n, k) ==
  IF IsPress(Update) /\ Update.offer # asking
  THEN UNCHANGED <<offset, handled>>
  ELSE offset' = offset + 1 /\ Counted(n >= 2 \/ n = k)

\* The first of k writes is the offset, the others handle the update.
Take(n, k) ==
  /\ offset' = IF n >= 1 THEN offset + 1 ELSE offset
  /\ Counted(n >= 2 \/ n = k)

LastPressWins(u) == u.offer = asking
\* The first press sets the future; others, and those on an offer that is no
\* longer pending, change nothing.
Settles(u) == u.offer = asking /\ future = "open"

HandlePress(n) ==
  /\ up /\ IsPress(Update)
  /\ Take(n, 2)
  /\ Ends(n, 2, /\ future' = IF Settles(Update) THEN Update.button ELSE future
                /\ link_code' = link_code)
  /\ UNCHANGED <<chat, code, outside, first>>

\* Only an agent without a chat is linked, and only with its code.
Links(u) == chat = NoChat /\ link_code /\ u.right

\* The chat is stored, then the code dropped from memory and the keychain.
StartWrites == IF Links(Update) THEN 3 ELSE 1

HandleStart(n) ==
  /\ up /\ ~IsPress(Update)
  /\ Take(n, StartWrites)
  /\ chat' = IF n >= 2 THEN Update.from ELSE chat
  /\ code' = IF n >= 3 THEN FALSE ELSE code
  /\ Ends(n, StartWrites, /\ future' = future
                          /\ link_code' = (link_code /\ n < 3))
  /\ UNCHANGED <<outside, first>>

-----------------------------------------------------------------------------
(* The environment                                                         *)

\* She presses a button, in time or long after, once or again.
Press(o, b) ==
  /\ o \in delivered /\ Len(log) < MaxUpdates
  /\ log' = Append(log, [offer |-> o, button |-> b])
  /\ first' = IF first[o] = "none" THEN [first EXCEPT ![o] = b] ELSE first
  /\ UNCHANGED <<stored, process, delivered, kills, verdict, handled>>

\* Bound: once from each chat.
SaysStart(c, right) ==
  /\ Len(log) < MaxUpdates /\ \A i \in 1..Len(log) : ~IsPress(log[i]) => log[i].from # c
  /\ log' = Append(log, [from |-> c, right |-> right])
  /\ UNCHANGED <<stored, process, delivered, history>>

Kill ==
  /\ up /\ kills < MaxKills /\ Dies
  /\ UNCHANGED <<stored, outside, first, handled>>

\* __init__ and _build_notifier on what is stored; the batch in memory is
\* gone and fetched again from the offset.
Restart ==
  /\ ~up /\ up' = TRUE /\ link_code' = code
  /\ UNCHANGED <<stored, fetched, cycle, outside, history>>

-----------------------------------------------------------------------------
OfferStep ==
  SendOk \/ SendFails \/ Answered \/ TimeOut \/ Missed
Handle ==
  /\ offset < fetched
  /\ \/ \E n \in Cut(2) : HandlePress(n)
     \/ \E n \in Cut(StartWrites) : HandleStart(n)
Listen == Handle \/ \E i \in 1..MaxUpdates : Fetch(i)
Others ==
  \/ \E o \in Offers, b \in Buttons : Press(o, b)
  \/ \E c \in Chats, right \in BOOLEAN : SaysStart(c, right)

Next ==
  \/ \E o \in Offers : Offer(o)
  \/ OfferStep \/ Deliver \/ Listen \/ Others \/ Kill \/ Restart

Spec == Init /\ [][Next]_vars

\* A send ends, the timeout fires, the listener keeps polling and handling,
\* and the supervisor restarts the process.
Fairness == WF_vars(OfferStep) /\ WF_vars(Listen) /\ WF_vars(Restart)

FairSpec == Spec /\ Fairness

-----------------------------------------------------------------------------
(* Properties                                                              *)

\* The notifier keeps the contract of OfferContract: one linked chat for
\* good, an offer confirmed only by a first press that was Confirm, never
\* after a restart, a failed send or a no, and every offer comes back
\* (telegram.py:455-483).
Contract ==
  INSTANCE OfferContract WITH
    owner <- chat,
    verdict <- [o \in Offers |-> IF verdict[o] = "lost" THEN "no" ELSE verdict[o]]
ImplementsContract == Contract!Spec

\* Why no later press and no other offer's press confirms it: updates are
\* taken in the order they were sent, so the one that sets an open future is
\* the first on its offer.  (Inductive together.)
PressedOn(i, o) == IsPress(log[i]) /\ log[i].offer = o
FirstKept ==
  \A o \in Offers :
    /\ (first[o] = "none" <=> \A i \in 1..Len(log) : ~PressedOn(i, o))
    /\ \A i \in 1..Len(log) :
         PressedOn(i, o) /\ (\A j \in 1..(i - 1) : ~PressedOn(j, o)) => log[i].button = first[o]
AnswerKept ==
  /\ \A i \in 1..Len(log) : IsPress(log[i]) => log[i].offer \in delivered
  /\ \A o \in delivered : verdict[o] # "unasked"
  /\ (asking # NoOffer => verdict[asking] = "asked" /\ chat # NoChat)
  /\ (asking # NoOffer /\ future \in Buttons => first[asking] = future)
  /\ (asking # NoOffer /\ future = "open" => \A i \in 1..offset : ~PressedOn(i, asking))

\* No update is handled twice, over kills and restarts: consent given hours
\* ago is not replayed (telegram.py:230-234).
HandledOnce == \A i \in 1..MaxUpdates : handled[i] <= 1

\* Why: an update is counted in the step that stores the offset past it, and
\* the listener only ever takes the one behind the offset.  (Inductive.)
HandledBudget == \A i \in 1..MaxUpdates : handled[i] <= (IF i > offset THEN 0 ELSE 1)

\* What that costs: each kill loses at most the one update being taken.
Lost == {i \in 1..offset : handled[i] = 0}
LossBound == Cardinality(Lost) <= kills

\* Every update sent to the bot is taken in the end: neither a stranger's, an
\* expired one nor a kill holds up those behind it.
UpdatesTaken == \A i \in 1..MaxUpdates : Len(log) >= i ~> offset >= i

=============================================================================
