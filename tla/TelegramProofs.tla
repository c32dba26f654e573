--------------------------- MODULE TelegramProofs ---------------------------
(***************************************************************************)
(* Proofs about Telegram, for every set of nonces and chats and every      *)
(* bound: what the offset order buys, and that the notifier keeps the      *)
(* safety part of OfferContract.                                           *)
(***************************************************************************)
EXTENDS Telegram, FiniteSetTheorems, TLAPS

USE NoneAssumption, BoundAssumption

Updates == Presses \cup Starts

\* An update is a press or a /start, never both.
LEMMA UpdateKinds ==
  ASSUME NEW u \in Updates
  PROVE  /\ IsPress(u) => u.offer \in Offers /\ u.button \in Buttons
         /\ ~IsPress(u) => u.from \in Chats /\ u.right \in BOOLEAN
  BY DEF Updates, Presses, Starts, IsPress

\* The listener handles an update that is in the log.
LEMMA UpdateInLog ==
  ASSUME TypeOK, offset < fetched
  PROVE  offset + 1 \in 1..Len(log) /\ Update \in Updates
  BY DEF TypeOK, Update, Updates

\* How many writes reach the disk: the first at least, and no more than k.
LEMMA CutRange == \A k \in Nat \ {0} : Cut(k) \subseteq 1..k
  BY DEF Cut

\* A kill, and the end of an offer, keep the types of what they change.
LEMMA DiesType ==
  ASSUME TypeOK, kills < MaxKills, Dies
  PROVE  /\ up' \in BOOLEAN /\ link_code' \in BOOLEAN /\ fetched' = 0
         /\ asking' \in Offers \cup {NoOffer} /\ phase' \in Phases /\ future' \in Futures
         /\ (asking' = NoOffer <=> phase' = "none")
         /\ kills' \in 0..MaxKills
         /\ verdict' \in [Offers -> {"unasked", "asked", "yes", "no", "lost"}]
  <1>1. verdict' \in [Offers -> {"unasked", "asked", "yes", "no", "lost"}]
    BY DEF Dies, TypeOK
  <1>2. kills' \in 0..MaxKills
    BY DEF Dies, TypeOK
  <1>3. asking' = NoOffer /\ phase' = "none" /\ future' = "open"
    BY DEF Dies, Popped
  <1>4. up' = FALSE /\ link_code' = FALSE /\ fetched' = 0
    BY DEF Dies
  <1> QED BY <1>1, <1>2, <1>3, <1>4 DEF Phases, Futures

\* Taking an update keeps the offset in the log.
LEMMA TakeType ==
  ASSUME TypeOK, offset < fetched, NEW k \in Nat \ {0}, NEW n \in Cut(k), Take(n, k), log' = log
  PROVE  /\ offset' = offset + 1 /\ offset' \in 0..Len(log')
         /\ handled' \in [1..MaxUpdates -> Nat]
  <1>1. n \in 1..k
    BY CutRange
  <1>2. offset' = offset + 1 /\ offset' \in 0..Len(log')
    BY <1>1, UpdateInLog DEF Take, TypeOK
  <1>3. handled' \in [1..MaxUpdates -> Nat]
    <2>1. CASE offset + 1 \in 1..MaxUpdates
      <3>1. handled[offset + 1] + 1 \in Nat
        BY <2>1 DEF TypeOK
      <3> QED BY <3>1 DEF Take, Counted, TypeOK
    <2>2. CASE offset + 1 \notin 1..MaxUpdates
      <3>1. [handled EXCEPT ![offset + 1] = @ + 1] = handled
        BY <2>2 DEF TypeOK
      <3> QED BY <3>1 DEF Take, Counted, TypeOK
    <2> QED BY <2>1, <2>2
  <1> QED BY <1>2, <1>3

\* A step that ends before its last write is a kill there was room for.
LEMMA CutKills ==
  ASSUME TypeOK, NEW k \in Nat \ {0}, NEW n \in Cut(k), n # k
  PROVE  kills < MaxKills
  BY DEF Cut, TypeOK

\* Every step keeps the types.
LEMMA TypeStep == TypeOK /\ [Next]_vars => TypeOK'
  <1> SUFFICES ASSUME TypeOK, [Next]_vars PROVE TypeOK'
    OBVIOUS
  <1>1. ASSUME NEW o \in Offers, Offer(o) PROVE TypeOK'
    BY <1>1 DEF Offer, TypeOK, stored, cycle, outside, Phases, Futures
  <1>2. ASSUME OfferStep PROVE TypeOK'
    <2>1. CASE SendOk
      BY <2>1 DEF SendOk, TypeOK, stored, outside, history, Phases
    <2>2. CASE TimeOut
      BY <2>2 DEF TimeOut, TypeOK, stored, outside, history, Phases, Futures
    <2>3. ASSUME NEW v \in {"yes", "no"}, Returns(v) PROVE TypeOK'
      BY <2>3 DEF Returns, Popped, TypeOK, stored, outside, Phases, Futures
    <2> QED BY <1>2, <2>1, <2>2, <2>3 DEF OfferStep, SendFails, Answered, Missed
  <1>3. ASSUME Deliver PROVE TypeOK'
    BY <1>3 DEF Deliver, TypeOK, stored, process, cycle, history
  <1>4. ASSUME NEW i \in 1..MaxUpdates, Fetch(i) PROVE TypeOK'
    BY <1>4 DEF Fetch, TypeOK, stored, cycle, outside, history
  <1>5. ASSUME offset < fetched, NEW n \in Cut(2), HandlePress(n) PROVE TypeOK'
    <2>1. offset' \in 0..Len(log') /\ handled' \in [1..MaxUpdates -> Nat]
      BY <1>5, TakeType DEF HandlePress, outside
    <2>2. CASE n = 2
      <3>1. future' \in Futures
        BY <1>5, <2>2, UpdateInLog, UpdateKinds DEF HandlePress, Ends, TypeOK, Futures, Buttons
      <3> QED BY <1>5, <2>1, <2>2, <3>1 DEF HandlePress, Ends, TypeOK, outside
    <2>3. CASE n # 2
      <3>1. Dies /\ kills < MaxKills
        BY <1>5, <2>3, CutKills DEF HandlePress, Ends
      <3>2. UNCHANGED <<log, delivered, first, chat, code>>
        BY <1>5 DEF HandlePress, outside
      <3>3. /\ up' \in BOOLEAN /\ link_code' \in BOOLEAN /\ fetched' = 0
            /\ asking' \in Offers \cup {NoOffer} /\ phase' \in Phases /\ future' \in Futures
            /\ (asking' = NoOffer <=> phase' = "none")
            /\ kills' \in 0..MaxKills
            /\ verdict' \in [Offers -> {"unasked", "asked", "yes", "no", "lost"}]
        BY <3>1, DiesType
      <3> QED BY <2>1, <3>2, <3>3 DEF TypeOK
    <2> QED BY <2>2, <2>3
  <1>6. ASSUME offset < fetched, NEW n \in Cut(StartWrites), HandleStart(n) PROVE TypeOK'
    <2>0. StartWrites \in Nat \ {0} /\ Update.from \in Chats
      BY <1>6, UpdateInLog, UpdateKinds DEF StartWrites, HandleStart
    <2>1. offset' \in 0..Len(log') /\ handled' \in [1..MaxUpdates -> Nat]
      BY <1>6, <2>0, TakeType DEF HandleStart, outside
    <2>2. chat' \in Chats \cup {NoChat} /\ code' \in BOOLEAN
      BY <1>6, <2>0 DEF HandleStart, TypeOK
    <2>3. CASE n = StartWrites
      <3>1. link_code' \in BOOLEAN
        BY <1>6, <2>3 DEF HandleStart, Ends
      <3>2. UNCHANGED <<up, fetched, asking, phase, future, kills, verdict, log, delivered, first>>
        BY <1>6, <2>3 DEF HandleStart, Ends, outside
      <3> QED BY <2>1, <2>2, <3>1, <3>2 DEF TypeOK
    <2>4. CASE n # StartWrites
      <3>1. Dies /\ kills < MaxKills
        BY <1>6, <2>0, <2>4, CutKills DEF HandleStart, Ends
      <3>2. UNCHANGED <<log, delivered, first>>
        BY <1>6 DEF HandleStart, outside
      <3>3. /\ up' \in BOOLEAN /\ link_code' \in BOOLEAN /\ fetched' = 0
            /\ asking' \in Offers \cup {NoOffer} /\ phase' \in Phases /\ future' \in Futures
            /\ (asking' = NoOffer <=> phase' = "none")
            /\ kills' \in 0..MaxKills
            /\ verdict' \in [Offers -> {"unasked", "asked", "yes", "no", "lost"}]
        BY <3>1, DiesType
      <3>4. 0 \in 0..Len(log') /\ log' \in Seq(Presses \cup Starts) /\ delivered' \subseteq Offers
            /\ first' \in [Offers -> Buttons \cup {"none"}]
        BY <3>2 DEF TypeOK
      <3> QED BY <2>1, <2>2, <3>3, <3>4 DEF TypeOK
    <2> QED BY <2>3, <2>4
  <1>7. ASSUME NEW o \in Offers, NEW b \in Buttons, Press(o, b) PROVE TypeOK'
    <2>1. [offer |-> o, button |-> b] \in Presses
      BY DEF Presses
    <2>2. log' \in Seq(Presses \cup Starts) /\ Len(log') = Len(log) + 1
      BY <1>7, <2>1 DEF Press, TypeOK
    <2> QED BY <1>7, <2>2 DEF Press, TypeOK, stored, process, cycle
  <1>8. ASSUME NEW c \in Chats, NEW right \in BOOLEAN, SaysStart(c, right) PROVE TypeOK'
    <2>1. [from |-> c, right |-> right] \in Starts
      BY DEF Starts
    <2>2. log' \in Seq(Presses \cup Starts) /\ Len(log') = Len(log) + 1
      BY <1>8, <2>1 DEF SaysStart, TypeOK
    <2> QED BY <1>8, <2>2 DEF SaysStart, TypeOK, stored, process, cycle, history
  <1>9. CASE Kill
    BY <1>9, DiesType DEF Kill, TypeOK, stored, outside
  <1>10. CASE Restart
    BY <1>10 DEF Restart, TypeOK, stored, cycle, outside, history
  <1>11. CASE UNCHANGED vars
    BY <1>11 DEF vars, TypeOK, stored, process, cycle, outside, history
  <1> QED
    BY <1>1, <1>2, <1>3, <1>4, <1>5, <1>6, <1>7, <1>8, <1>9, <1>10, <1>11
    DEF Next, Listen, Handle, Others

\* The offset, the log, the pending offer and the history keep their types;
\* there is a pending offer exactly while offer() is suspended.
THEOREM TypeCorrect == Spec => []TypeOK
  <1>1. Init => TypeOK
    BY DEF Init, TypeOK, Phases, Futures
  <1> QED BY <1>1, TypeStep, PTL DEF Spec

-----------------------------------------------------------------------------
\* Taking an update moves the offset past the one it counts.
LEMMA TakeBudget ==
  ASSUME TypeOK, HandledBudget, offset < fetched, log' = log,
         NEW k \in Nat \ {0}, NEW n \in Cut(k), Take(n, k)
  PROVE  HandledBudget'
  <1>1. offset' = offset + 1 /\ handled' \in [1..MaxUpdates -> Nat]
    BY TakeType
  <1>2. offset \in Nat
    BY DEF TypeOK
  <1>3. SUFFICES ASSUME NEW i \in 1..MaxUpdates
                 PROVE  handled'[i] <= (IF i > offset' THEN 0 ELSE 1)
    BY DEF HandledBudget
  <1>4. handled[i] \in Nat /\ handled[i] <= (IF i > offset THEN 0 ELSE 1)
    BY DEF HandledBudget, TypeOK
  <1>5. handled'[i] = handled[i] \/ (i = offset + 1 /\ handled'[i] = handled[i] + 1)
    BY <1>2 DEF Take, Counted, TypeOK
  <1> QED BY <1>1, <1>2, <1>4, <1>5

\* Only the listener touches the offset and the counts.
LEMMA BudgetStep == TypeOK /\ HandledBudget /\ [Next]_vars => HandledBudget'
  <1> SUFFICES ASSUME TypeOK, HandledBudget, [Next]_vars PROVE HandledBudget'
    OBVIOUS
  <1>1. ASSUME offset < fetched, NEW n \in Cut(2), HandlePress(n) PROVE HandledBudget'
    BY <1>1, TakeBudget DEF HandlePress, outside
  <1>2. ASSUME offset < fetched, NEW n \in Cut(StartWrites), HandleStart(n) PROVE HandledBudget'
    <2>1. StartWrites \in Nat \ {0}
      BY DEF StartWrites
    <2> QED BY <1>2, <2>1, TakeBudget DEF HandleStart, outside
  <1>3. ASSUME UNCHANGED <<offset, handled>> PROVE HandledBudget'
    BY <1>3 DEF HandledBudget
  <1>4. ASSUME NEW o \in Offers, Offer(o) PROVE UNCHANGED <<offset, handled>>
    BY <1>4 DEF Offer, stored
  <1>5. ASSUME OfferStep \/ Deliver PROVE UNCHANGED <<offset, handled>>
    BY <1>5 DEF OfferStep, Deliver, SendOk, SendFails, Answered, TimeOut, Missed, Returns, stored, history
  <1>6. ASSUME NEW i \in 1..MaxUpdates, Fetch(i) PROVE UNCHANGED <<offset, handled>>
    BY <1>6 DEF Fetch, stored, history
  <1>7. ASSUME Others \/ Kill \/ Restart \/ UNCHANGED vars PROVE UNCHANGED <<offset, handled>>
    BY <1>7 DEF Others, Press, SaysStart, Kill, Restart, stored, history, vars
  <1> QED BY <1>1, <1>2, <1>3, <1>4, <1>5, <1>6, <1>7 DEF Next, Listen, Handle

\* No update is handled twice, over all kills and restarts, because the
\* offset is stored before the handling begins.
THEOREM NothingReplayed == Spec => []HandledOnce
  <1>1. Init => HandledBudget
    BY DEF Init, HandledBudget
  <1>2. TypeOK /\ HandledBudget => HandledOnce
    BY DEF TypeOK, HandledBudget, HandledOnce
  <1> QED BY <1>1, <1>2, BudgetStep, TypeCorrect, PTL DEF Spec

-----------------------------------------------------------------------------
\* An update appended to the log leaves those before it where they were.
LEMMA Appended ==
  ASSUME TypeOK, NEW u \in Updates, log' = Append(log, u)
  PROVE  /\ Len(log') = Len(log) + 1 /\ log'[Len(log) + 1] = u
         /\ \A i \in 1..Len(log) : log'[i] = log[i]
  BY DEF TypeOK, Updates

\* The first button on each offer is kept by every step: it changes only
\* with the log, and the log only grows.
LEMMA FirstStep == TypeOK /\ FirstKept /\ [Next]_vars => FirstKept'
  <1> SUFFICES ASSUME TypeOK, FirstKept, [Next]_vars PROVE FirstKept'
    OBVIOUS
  <1>1. ASSUME UNCHANGED <<log, first>> PROVE FirstKept'
    BY <1>1 DEF FirstKept, PressedOn
  <1>2. ASSUME NEW p \in Offers, NEW b \in Buttons, Press(p, b) PROVE FirstKept'
    <2> DEFINE u == [offer |-> p, button |-> b]
    <2>1. u \in Updates /\ IsPress(u) /\ u.offer = p /\ u.button = b
      BY DEF Updates, Presses, IsPress
    <2>2. /\ Len(log') = Len(log) + 1 /\ log'[Len(log) + 1] = u /\ Len(log) \in Nat
          /\ \A i \in 1..Len(log) : log'[i] = log[i]
      BY <1>2, <2>1, Appended DEF Press, TypeOK
    <2> HIDE DEF u
    <2>3. \A o \in Offers : first'[o] = IF o = p /\ first[p] = "none" THEN b ELSE first[o]
      BY <1>2 DEF Press, TypeOK
    <2>4. b # "none"
      BY DEF Buttons
    <2> SUFFICES ASSUME NEW o \in Offers
                 PROVE  /\ (first'[o] = "none" <=> \A i \in 1..Len(log') : ~PressedOn(i, o)')
                        /\ \A i \in 1..Len(log') :
                             PressedOn(i, o)' /\ (\A j \in 1..(i - 1) : ~PressedOn(j, o)')
                               => log'[i].button = first'[o]
      BY DEF FirstKept
    <2>5. \A i \in 1..Len(log) : PressedOn(i, o)' <=> PressedOn(i, o)
      BY <2>2 DEF PressedOn
    <2>6. \A i \in Nat : i = Len(log) + 1 => (PressedOn(i, o)' <=> o = p)
      BY <2>1, <2>2 DEF PressedOn
    <2>7. first[o] = "none" <=> \A i \in 1..Len(log) : ~PressedOn(i, o)
      BY DEF FirstKept
    <2>8. \A i \in 1..Len(log) :
            PressedOn(i, o) /\ (\A j \in 1..(i - 1) : ~PressedOn(j, o)) => log[i].button = first[o]
      BY DEF FirstKept
    <2>9. first'[o] = "none" <=> \A i \in 1..Len(log') : ~PressedOn(i, o)'
      BY <2>2, <2>3, <2>4, <2>5, <2>6, <2>7
    <2>10. ASSUME NEW i \in 1..Len(log'), PressedOn(i, o)', \A j \in 1..(i - 1) : ~PressedOn(j, o)'
           PROVE  log'[i].button = first'[o]
      <3>1. CASE i \in 1..Len(log)
        <4>1. PressedOn(i, o) /\ \A j \in 1..(i - 1) : ~PressedOn(j, o)
          BY <2>2, <2>5, <2>10, <3>1
        <4>2. first[o] # "none" /\ log[i].button = first[o]
          BY <2>7, <2>8, <3>1, <4>1
        <4> QED BY <2>2, <2>3, <3>1, <4>2
      <3>2. CASE i = Len(log) + 1
        <4>1. o = p /\ first[o] = "none"
          BY <2>2, <2>5, <2>6, <2>7, <2>10, <3>2
        <4> QED BY <2>1, <2>2, <2>3, <3>2, <4>1
      <3> QED BY <2>2, <3>1, <3>2
    <2> QED BY <2>9, <2>10
  <1>3. ASSUME NEW c \in Chats, NEW right \in BOOLEAN, SaysStart(c, right) PROVE FirstKept'
    <2> DEFINE u == [from |-> c, right |-> right]
    <2>1. u \in Updates /\ ~IsPress(u)
      BY DEF Updates, Starts, IsPress
    <2>2. /\ Len(log') = Len(log) + 1 /\ log'[Len(log) + 1] = u /\ Len(log) \in Nat
          /\ \A i \in 1..Len(log) : log'[i] = log[i]
      BY <1>3, <2>1, Appended DEF SaysStart, TypeOK
    <2> HIDE DEF u
    <2>3. first' = first
      BY <1>3 DEF SaysStart, history
    <2>4. \A o : \A i \in Nat : i = Len(log) + 1 => ~PressedOn(i, o)'
      BY <2>1, <2>2 DEF PressedOn
    <2>5. \A o : \A i \in 1..Len(log) : PressedOn(i, o)' <=> PressedOn(i, o)
      BY <2>2 DEF PressedOn
    <2> SUFFICES ASSUME NEW o \in Offers
                 PROVE  /\ (first'[o] = "none" <=> \A i \in 1..Len(log') : ~PressedOn(i, o)')
                        /\ \A i \in 1..Len(log') :
                             PressedOn(i, o)' /\ (\A j \in 1..(i - 1) : ~PressedOn(j, o)')
                               => log'[i].button = first'[o]
      BY DEF FirstKept
    <2>6. first'[o] = "none" <=> \A i \in 1..Len(log') : ~PressedOn(i, o)'
      BY <2>2, <2>3, <2>4, <2>5 DEF FirstKept
    <2>7. ASSUME NEW i \in 1..Len(log'), PressedOn(i, o)', \A j \in 1..(i - 1) : ~PressedOn(j, o)'
          PROVE  log'[i].button = first'[o]
      <3>1. i \in 1..Len(log)
        BY <2>2, <2>4, <2>7
      <3>2. PressedOn(i, o) /\ \A j \in 1..(i - 1) : ~PressedOn(j, o)
        BY <2>5, <2>7, <3>1
      <3> QED BY <2>2, <2>3, <3>1, <3>2 DEF FirstKept
    <2> QED BY <2>6, <2>7
  <1>4. ASSUME NEW o \in Offers, Offer(o) PROVE UNCHANGED <<log, first>>
    BY <1>4 DEF Offer, outside
  <1>5. ASSUME OfferStep \/ Deliver PROVE UNCHANGED <<log, first>>
    BY <1>5 DEF OfferStep, Deliver, SendOk, SendFails, Answered, TimeOut, Missed, Returns, outside, history
  <1>6. ASSUME Listen PROVE UNCHANGED <<log, first>>
    BY <1>6 DEF Listen, Handle, HandlePress, HandleStart, Fetch, outside, history
  <1>7. ASSUME Kill \/ Restart \/ UNCHANGED vars PROVE UNCHANGED <<log, first>>
    BY <1>7 DEF Kill, Restart, outside, history, vars
  <1> QED BY <1>1, <1>2, <1>3, <1>4, <1>5, <1>6, <1>7 DEF Next, Others

\* A kill leaves no offer pending, so there is little left to keep.
LEMMA DiesAnswer ==
  ASSUME TypeOK, AnswerKept, Dies, UNCHANGED <<log, delivered>>
  PROVE  AnswerKept'
  <1>1. asking' = NoOffer
    BY DEF Dies, Popped
  <1>2. \A o \in Offers : verdict'[o] = IF o = asking THEN "lost" ELSE verdict[o]
    BY DEF Dies
  <1>3. \A o \in delivered : verdict'[o] # "unasked"
    BY <1>2 DEF AnswerKept, TypeOK
  <1>4. \A i \in 1..Len(log) : IsPress(log[i]) => log[i].offer \in delivered
    BY DEF AnswerKept
  <1> QED BY <1>1, <1>3, <1>4 DEF AnswerKept

\* What the future holds, and what is still open, agree with the log.
LEMMA AnswerStep == TypeOK /\ FirstKept /\ AnswerKept /\ [Next]_vars => AnswerKept'
  <1> SUFFICES ASSUME TypeOK, FirstKept, AnswerKept, [Next]_vars PROVE AnswerKept'
    OBVIOUS
  <1>1. ASSUME NEW o \in Offers, Offer(o) PROVE AnswerKept'
    <2>1. UNCHANGED <<offset, chat, log, delivered, first>>
      BY <1>1 DEF Offer, stored, outside
    <2>2. \A i \in 1..offset : ~PressedOn(i, o)
      BY <1>1 DEF Offer, AnswerKept, PressedOn, TypeOK
    <2>3. CASE chat = NoChat
      BY <1>1, <2>1, <2>3 DEF Offer, AnswerKept, PressedOn, TypeOK, cycle
    <2>4. CASE chat # NoChat
      <3>1. asking' = o /\ future' = "open" /\ verdict' = [verdict EXCEPT ![o] = "asked"]
        BY <1>1, <2>4 DEF Offer
      <3>2. verdict'[o] = "asked" /\ \A p \in delivered : verdict'[p] # "unasked"
        BY <3>1 DEF AnswerKept, TypeOK
      <3> QED BY <2>1, <2>2, <2>4, <3>1, <3>2 DEF AnswerKept, PressedOn, Buttons
    <2> QED BY <2>3, <2>4
  <1>2. ASSUME OfferStep PROVE AnswerKept'
    <2>1. CASE SendOk \/ TimeOut
      BY <2>1 DEF SendOk, TimeOut, AnswerKept, PressedOn, stored, outside, history, Buttons
    <2>2. ASSUME NEW v \in {"yes", "no"}, Returns(v) PROVE AnswerKept'
      <3>1. asking' = NoOffer /\ UNCHANGED <<log, delivered>>
        BY <2>2 DEF Returns, Popped, outside
      <3>2. \A o \in delivered : verdict'[o] # "unasked"
        BY <2>2 DEF Returns, AnswerKept, TypeOK
      <3> QED BY <3>1, <3>2 DEF AnswerKept
    <2> QED BY <1>2, <2>1, <2>2 DEF OfferStep, SendFails, Answered, Missed
  <1>3. ASSUME Deliver PROVE AnswerKept'
    <2>1. asking \in Offers /\ asking # NoOffer
      BY <1>3 DEF Deliver, TypeOK
    <2> QED BY <1>3, <2>1 DEF Deliver, AnswerKept, PressedOn, stored, process, cycle, history
  <1>4. ASSUME NEW i \in 1..MaxUpdates, Fetch(i) PROVE AnswerKept'
    BY <1>4 DEF Fetch, AnswerKept, PressedOn, stored, cycle, outside, history
  <1>5. ASSUME offset < fetched, NEW n \in Cut(2), HandlePress(n) PROVE AnswerKept'
    <2>1. UNCHANGED <<chat, log, delivered, first>> /\ offset' = offset + 1
      BY <1>5, TakeType DEF HandlePress, outside
    <2>2. CASE n = 2
      <3>1. UNCHANGED <<asking, verdict>>
            /\ future' = IF Settles(Update) THEN Update.button ELSE future
        BY <1>5, <2>2 DEF HandlePress, Ends
      <3>2. offset + 1 \in 1..Len(log) /\ Update.offer \in Offers /\ Update.button \in Buttons
            /\ PressedOn(offset + 1, Update.offer)
        BY <1>5, UpdateInLog, UpdateKinds DEF HandlePress, PressedOn, Update
      <3>3. CASE asking # NoOffer /\ Settles(Update)
        <4>1. \A j \in 1..offset : ~PressedOn(j, asking)
          BY <3>3 DEF AnswerKept, Settles
        <4>2. first[asking] = Update.button
          BY <3>2, <3>3, <4>1 DEF FirstKept, Settles, Update, TypeOK
        <4> QED BY <2>1, <3>1, <3>2, <3>3, <4>2 DEF AnswerKept, Buttons
      <3>4. CASE asking # NoOffer /\ ~Settles(Update)
        <4>1. ASSUME future = "open" PROVE \A j \in 1..(offset + 1) : ~PressedOn(j, asking)
          <5>1. Update.offer # asking
            BY <3>4, <4>1 DEF Settles
          <5>2. ~PressedOn(offset + 1, asking)
            BY <5>1 DEF PressedOn, Update
          <5>3. \A j \in 1..offset : ~PressedOn(j, asking)
            BY <3>4, <4>1 DEF AnswerKept
          <5> QED BY <5>2, <5>3 DEF TypeOK
        <4>2. \A j : PressedOn(j, asking)' <=> PressedOn(j, asking)
          BY <2>1, <3>1 DEF PressedOn
        <4> QED BY <2>1, <3>1, <3>4, <4>1, <4>2 DEF AnswerKept
      <3>5. CASE asking = NoOffer
        BY <2>1, <3>1, <3>5 DEF AnswerKept
      <3> QED BY <3>3, <3>4, <3>5
    <2>3. CASE n # 2
      BY <1>5, <2>1, <2>3, DiesAnswer DEF HandlePress, Ends
    <2> QED BY <2>2, <2>3
  <1>6. ASSUME offset < fetched, NEW n \in Cut(StartWrites), HandleStart(n) PROVE AnswerKept'
    <2>0. StartWrites \in Nat \ {0} /\ Update.from \in Chats
      BY <1>6, UpdateInLog, UpdateKinds DEF StartWrites, HandleStart
    <2>1. UNCHANGED <<log, delivered, first>> /\ offset' = offset + 1
      BY <1>6, <2>0, TakeType DEF HandleStart, outside
    <2>2. CASE n = StartWrites
      <3>1. UNCHANGED <<asking, verdict, future>>
        BY <1>6, <2>2 DEF HandleStart, Ends
      <3>2. chat # NoChat => chat' # NoChat
        BY <1>6, <2>0 DEF HandleStart
      <3>3. ~PressedOn(offset + 1, asking)
        BY <1>6 DEF HandleStart, PressedOn, Update
      <3>4. \A j : PressedOn(j, asking)' <=> PressedOn(j, asking)
        BY <2>1, <3>1 DEF PressedOn
      <3>5. ASSUME asking # NoOffer, future = "open"
            PROVE  \A j \in 1..(offset + 1) : ~PressedOn(j, asking)
        BY <3>3, <3>5 DEF AnswerKept, TypeOK
      <3> QED BY <2>1, <3>1, <3>2, <3>4, <3>5 DEF AnswerKept
    <2>3. CASE n # StartWrites
      BY <1>6, <2>1, <2>3, DiesAnswer DEF HandleStart, Ends
    <2> QED BY <2>2, <2>3
  <1>7. ASSUME NEW p \in Offers, NEW b \in Buttons, Press(p, b) PROVE AnswerKept'
    <2> DEFINE u == [offer |-> p, button |-> b]
    <2>1. u \in Updates /\ u.offer = p
      BY DEF Updates, Presses
    <2>2. /\ Len(log') = Len(log) + 1 /\ log'[Len(log) + 1] = u /\ Len(log) \in Nat
          /\ \A i \in 1..Len(log) : log'[i] = log[i]
      BY <1>7, <2>1, Appended DEF Press, TypeOK
    <2> HIDE DEF u
    <2>3. UNCHANGED <<offset, chat, asking, future, delivered, verdict>> /\ p \in delivered
      BY <1>7 DEF Press, stored, process, cycle
    <2>4. \A i \in 1..Len(log') : IsPress(log'[i]) => log'[i].offer \in delivered'
      BY <2>1, <2>2, <2>3 DEF AnswerKept
    <2>5. ASSUME asking # NoOffer, future \in Buttons PROVE first'[asking] = future
      <3>1. first[asking] = future /\ first[asking] # "none"
        BY <2>5 DEF AnswerKept, Buttons
      <3> QED BY <1>7, <3>1 DEF Press, TypeOK
    <2>6. \A i \in 1..offset : PressedOn(i, asking)' <=> PressedOn(i, asking)
      BY <2>2, <2>3 DEF PressedOn, TypeOK
    <2> QED BY <2>3, <2>4, <2>5, <2>6 DEF AnswerKept
  <1>8. ASSUME NEW c \in Chats, NEW right \in BOOLEAN, SaysStart(c, right) PROVE AnswerKept'
    <2> DEFINE u == [from |-> c, right |-> right]
    <2>1. u \in Updates /\ ~IsPress(u)
      BY DEF Updates, Starts, IsPress
    <2>2. /\ Len(log') = Len(log) + 1 /\ log'[Len(log) + 1] = u /\ Len(log) \in Nat
          /\ \A i \in 1..Len(log) : log'[i] = log[i]
      BY <1>8, <2>1, Appended DEF SaysStart, TypeOK
    <2> HIDE DEF u
    <2>3. UNCHANGED <<offset, chat, asking, future, delivered, verdict, first>>
      BY <1>8 DEF SaysStart, stored, process, cycle, history
    <2>4. \A i \in 1..Len(log') : IsPress(log'[i]) => log'[i].offer \in delivered'
      BY <2>1, <2>2, <2>3 DEF AnswerKept
    <2>5. \A i \in 1..offset : PressedOn(i, asking)' <=> PressedOn(i, asking)
      BY <2>2, <2>3 DEF PressedOn, TypeOK
    <2> QED BY <2>3, <2>4, <2>5 DEF AnswerKept
  <1>9. CASE Kill
    BY <1>9, DiesAnswer DEF Kill, outside
  <1>10. CASE Restart
    BY <1>10 DEF Restart, AnswerKept, PressedOn, stored, cycle, outside, history
  <1>11. CASE UNCHANGED vars
    BY <1>11 DEF vars, AnswerKept, PressedOn, stored, process, cycle, outside, history
  <1> QED
    BY <1>1, <1>2, <1>3, <1>4, <1>5, <1>6, <1>7, <1>8, <1>9, <1>10, <1>11
    DEF Next, Listen, Handle, Others

-----------------------------------------------------------------------------
\* What the contract sees of the verdicts: an offer lost to a kill is a no.
Seen == [o \in Offers |-> IF verdict[o] = "lost" THEN "no" ELSE verdict[o]]

\* The contract sees the same when chat, verdicts and first presses stay.
LEMMA Unseen ==
  ASSUME UNCHANGED <<chat, verdict, first>> PROVE UNCHANGED Contract!vars
  BY DEF Contract!vars

\* An offer that ends in anything but a yes is refused; a kill refuses the
\* pending one, if there is one.
LEMMA Refused ==
  ASSUME TypeOK, NEW o \in Offers, NEW v \in {"no", "lost"}, verdict[o] \in {"unasked", "asked"},
         verdict' = [verdict EXCEPT ![o] = v], UNCHANGED <<chat, first>>
  PROVE  Contract!Next
  <1>1. Seen[o] = verdict[o]
    BY DEF Seen
  <1>2. Seen' = [Seen EXCEPT ![o] = "no"]
    BY DEF Seen, TypeOK
  <1>3. Contract!Refuse(o)
    BY <1>1, <1>2 DEF Contract!Refuse, Seen
  <1> QED BY <1>3 DEF Contract!Next

LEMMA KillRefuses ==
  ASSUME TypeOK, AnswerKept, Dies, UNCHANGED <<chat, first>>
  PROVE  Contract!Next \/ UNCHANGED Contract!vars
  <1>1. CASE asking \in Offers
    <2>1. verdict' = [verdict EXCEPT ![asking] = "lost"]
      BY <1>1 DEF Dies, TypeOK
    <2>2. verdict[asking] = "asked"
      BY <1>1 DEF AnswerKept
    <2> QED BY <1>1, <2>1, <2>2, Refused
  <1>2. CASE asking \notin Offers
    <2>1. verdict' = verdict
      BY <1>2 DEF Dies, TypeOK
    <2> QED BY <2>1, Unseen
  <1> QED BY <1>1, <1>2

\* Every step of the notifier is one the contract allows, or none.
LEMMA ContractStep ==
  TypeOK /\ FirstKept /\ AnswerKept /\ [Next]_vars => [Contract!Next]_(Contract!vars)
  <1> SUFFICES ASSUME TypeOK, FirstKept, AnswerKept, [Next]_vars
               PROVE  Contract!Next \/ UNCHANGED Contract!vars
    OBVIOUS
  <1>1. ASSUME NEW o \in Offers, Offer(o) PROVE Contract!Next
    <2>1. verdict[o] = "unasked" /\ UNCHANGED <<chat, first>>
      BY <1>1 DEF Offer, stored
    <2>2. CASE chat = NoChat
      BY <1>1, <2>1, <2>2, Refused DEF Offer
    <2>3. CASE chat # NoChat
      <3>1. verdict' = [verdict EXCEPT ![o] = "asked"]
        BY <1>1, <2>3 DEF Offer
      <3>2. Seen[o] = "unasked" /\ Seen' = [Seen EXCEPT ![o] = "asked"]
        BY <2>1, <3>1 DEF Seen, TypeOK
      <3>3. Contract!Ask(o)
        BY <2>1, <2>3, <3>2 DEF Contract!Ask, Seen
      <3> QED BY <3>3 DEF Contract!Next
    <2> QED BY <2>2, <2>3
  <1>2. ASSUME SendOk \/ TimeOut \/ Deliver PROVE UNCHANGED Contract!vars
    BY <1>2, Unseen DEF SendOk, TimeOut, Deliver, stored, history
  <1>3. ASSUME SendFails \/ Missed \/ Answered PROVE Contract!Next
    <2>1. asking \in Offers /\ verdict[asking] = "asked"
      BY <1>3 DEF SendFails, Missed, Answered, TypeOK, AnswerKept
    <2>2. CASE Returns("no")
      BY <2>1, <2>2, Refused DEF Returns, stored
    <2>3. CASE Answered /\ future = "confirm"
      <3>1. verdict' = [verdict EXCEPT ![asking] = "yes"] /\ UNCHANGED <<chat, first>>
        BY <2>3 DEF Answered, Returns, stored
      <3>2. first[asking] = "confirm"
        BY <2>1, <2>3 DEF AnswerKept, Buttons
      <3>3. Seen[asking] = "asked" /\ Seen' = [Seen EXCEPT ![asking] = "yes"]
        BY <2>1, <3>1 DEF Seen, TypeOK
      <3>4. PICK o \in Offers : o = asking
        BY <2>1
      <3>5. Contract!Confirm(o)
        BY <3>1, <3>2, <3>3, <3>4 DEF Contract!Confirm, Seen
      <3> QED BY <3>5 DEF Contract!Next
    <2> QED BY <1>3, <2>2, <2>3 DEF SendFails, Missed, Answered
  <1>4. ASSUME NEW i \in 1..MaxUpdates, Fetch(i) PROVE UNCHANGED Contract!vars
    BY <1>4, Unseen DEF Fetch, stored, history
  <1>5. ASSUME NEW n \in Cut(2), HandlePress(n)
        PROVE  Contract!Next \/ UNCHANGED Contract!vars
    <2>1. CASE n = 2
      BY <1>5, <2>1, Unseen DEF HandlePress, Ends
    <2>2. CASE n # 2
      BY <1>5, <2>2, KillRefuses DEF HandlePress, Ends
    <2> QED BY <2>1, <2>2
  <1>6. ASSUME offset < fetched, NEW n \in Cut(StartWrites), HandleStart(n)
        PROVE  Contract!Next \/ UNCHANGED Contract!vars
    <2>0. Update.from \in Chats /\ UNCHANGED first
      BY <1>6, UpdateInLog, UpdateKinds DEF HandleStart
    <2>1. StartWrites \in Nat \ {0}
      BY DEF StartWrites
    <2>2. n \in 1..StartWrites
      BY <1>6, <2>1, CutRange
    <2>3. CASE n >= 2
      <3>1. chat = NoChat /\ chat' = Update.from
        BY <1>6, <2>2, <2>3 DEF HandleStart, StartWrites, Links
      <3>2. verdict' = verdict
        <4>1. asking \notin Offers
          BY <3>1 DEF AnswerKept, TypeOK
        <4>2. verdict' = verdict \/ verdict' = [o \in Offers |-> IF o = asking THEN "lost" ELSE verdict[o]]
          BY <1>6 DEF HandleStart, Ends, Dies
        <4> QED BY <4>1, <4>2 DEF TypeOK
      <3>3. PICK c \in Chats : chat' = c
        BY <2>0, <3>1
      <3>4. Contract!Link(c)
        BY <2>0, <3>1, <3>2, <3>3 DEF Contract!Link
      <3> QED BY <3>4 DEF Contract!Next
    <2>4. CASE ~(n >= 2)
      <3>1. UNCHANGED <<chat, first>>
        BY <1>6, <2>0, <2>4 DEF HandleStart
      <3>2. CASE n = StartWrites
        BY <1>6, <3>1, <3>2, Unseen DEF HandleStart, Ends
      <3>3. CASE n # StartWrites
        BY <1>6, <3>1, <3>3, KillRefuses DEF HandleStart, Ends
      <3> QED BY <3>2, <3>3
    <2> QED BY <2>3, <2>4
  <1>7. ASSUME NEW o \in Offers, NEW b \in Buttons, Press(o, b)
        PROVE  Contract!Next \/ UNCHANGED Contract!vars
    <2>1. UNCHANGED <<chat, verdict>>
      BY <1>7 DEF Press, stored
    <2>2. CASE first[o] = "none"
      <3>1. Seen[o] # "unasked"
        BY <1>7 DEF Press, AnswerKept, Seen
      <3>2. Contract!Press(o, b)
        BY <1>7, <2>1, <2>2, <3>1 DEF Press, Contract!Press, Seen
      <3> QED BY <3>2 DEF Contract!Next, Buttons
    <2>3. CASE first[o] # "none"
      BY <1>7, <2>1, <2>3, Unseen DEF Press
    <2> QED BY <2>2, <2>3
  <1>8. ASSUME NEW c \in Chats, NEW right \in BOOLEAN, SaysStart(c, right)
        PROVE  UNCHANGED Contract!vars
    BY <1>8, Unseen DEF SaysStart, stored, history
  <1>9. ASSUME Kill PROVE Contract!Next \/ UNCHANGED Contract!vars
    BY <1>9, KillRefuses DEF Kill, stored
  <1>10. ASSUME Restart \/ UNCHANGED vars PROVE UNCHANGED Contract!vars
    BY <1>10, Unseen DEF Restart, vars, stored, history
  <1> QED
    BY <1>1, <1>2, <1>3, <1>4, <1>5, <1>6, <1>7, <1>8, <1>9, <1>10
    DEF Next, OfferStep, Listen, Handle, Others

\* The notifier implements the safety part of its contract: one linked chat
\* for good, and an offer is confirmed only by a first press of Confirm, at
\* most once, never after a no, a failed send or a restart.
THEOREM KeepsContract == Spec => Contract!SafeSpec
  <1>1. Init => Contract!Init /\ FirstKept /\ AnswerKept
    <2> SUFFICES ASSUME Init PROVE Contract!Init /\ FirstKept /\ AnswerKept
      OBVIOUS
    <2>1. Contract!Init
      BY DEF Init, Contract!Init
    <2>2. FirstKept
      BY DEF Init, FirstKept, PressedOn
    <2>3. AnswerKept
      BY DEF Init, AnswerKept, PressedOn
    <2> QED BY <2>1, <2>2, <2>3
  <1>2. TypeOK /\ FirstKept /\ AnswerKept /\ [Next]_vars
          => FirstKept' /\ AnswerKept' /\ [Contract!Next]_(Contract!vars)
    BY FirstStep, AnswerStep, ContractStep
  <1> QED BY <1>1, <1>2, TypeCorrect, PTL DEF Spec, Contract!SafeSpec

-----------------------------------------------------------------------------
\* The log is no longer than the updates there are counters for.
LogBounded == Len(log) <= MaxUpdates

\* Only what is sent to the bot makes the log longer.
LEMMA LogStep == TypeOK /\ LogBounded /\ [Next]_vars => LogBounded'
  <1> SUFFICES ASSUME TypeOK, LogBounded, [Next]_vars PROVE LogBounded'
    OBVIOUS
  <1>1. ASSUME NEW u \in Updates, log' = Append(log, u), Len(log) < MaxUpdates PROVE LogBounded'
    BY <1>1, Appended DEF LogBounded, TypeOK
  <1>2. ASSUME NEW p \in Offers, NEW b \in Buttons, Press(p, b) PROVE LogBounded'
    <2>1. [offer |-> p, button |-> b] \in Updates
      BY DEF Updates, Presses
    <2> QED BY <1>1, <1>2, <2>1 DEF Press
  <1>3. ASSUME NEW c \in Chats, NEW right \in BOOLEAN, SaysStart(c, right) PROVE LogBounded'
    <2>1. [from |-> c, right |-> right] \in Updates
      BY DEF Updates, Starts
    <2> QED BY <1>1, <1>3, <2>1 DEF SaysStart
  <1>4. ASSUME NEW o \in Offers, Offer(o) PROVE log' = log
    BY <1>4 DEF Offer, outside
  <1>5. ASSUME OfferStep \/ Deliver PROVE log' = log
    BY <1>5 DEF OfferStep, Deliver, SendOk, SendFails, Answered, TimeOut, Missed, Returns, outside
  <1>6. ASSUME Listen PROVE log' = log
    BY <1>6 DEF Listen, Handle, HandlePress, HandleStart, Fetch, outside
  <1>7. ASSUME Kill \/ Restart \/ UNCHANGED vars PROVE log' = log
    BY <1>7 DEF Kill, Restart, outside, vars
  <1>8. log' = log => LogBounded'
    BY DEF LogBounded
  <1> QED BY <1>2, <1>3, <1>4, <1>5, <1>6, <1>7, <1>8 DEF Next, Others

\* The lost updates are among those taken, so they can be counted.
LEMMA LostFinite == TypeOK => IsFiniteSet(Lost) /\ Cardinality(Lost) \in Nat
  <1> SUFFICES ASSUME TypeOK PROVE IsFiniteSet(Lost) /\ Cardinality(Lost) \in Nat
    OBVIOUS
  <1>1. offset \in Int
    BY DEF TypeOK
  <1>2. IsFiniteSet(1..offset)
    BY <1>1, FS_Interval
  <1>3. Lost \in SUBSET (1..offset)
    BY DEF Lost
  <1>4. IsFiniteSet(Lost)
    BY <1>2, <1>3, FS_Subset
  <1> QED BY <1>4, FS_CardinalityType

\* Taking an update loses it at most, and only if the process dies of it.
LEMMA TakeLoses ==
  ASSUME TypeOK, LogBounded, LossBound, offset < fetched, log' = log,
         NEW k \in Nat \ {0}, NEW n \in Cut(k), Take(n, k),
         n = k => kills' = kills,
         n # k => kills' = kills + 1
  PROVE  LossBound'
  <1>1. offset' = offset + 1 /\ offset \in Nat /\ n \in 1..k /\ kills \in Nat
    BY TakeType, CutRange DEF TypeOK
  <1>2. offset + 1 \in 1..MaxUpdates
    BY UpdateInLog DEF LogBounded, TypeOK
  <1>3. \A i \in 1..offset : i \in 1..MaxUpdates /\ i # offset + 1
    BY <1>1, <1>2
  <1>4. \A i \in 1..offset : handled'[i] = handled[i]
    BY <1>1, <1>3 DEF Take, Counted, TypeOK
  <1>5. Lost' \subseteq Lost \cup {offset + 1}
    <2> SUFFICES ASSUME NEW i \in Lost' PROVE i \in Lost \cup {offset + 1}
      OBVIOUS
    <2>1. i \in 1..offset + 1 /\ handled'[i] = 0
      BY <1>1 DEF Lost
    <2>2. i \in 1..offset \/ i = offset + 1
      BY <1>1, <2>1
    <2> QED BY <1>4, <2>1, <2>2 DEF Lost
  <1>6. n = k => offset + 1 \notin Lost'
    <2> SUFFICES ASSUME n = k PROVE handled'[offset + 1] # 0
      BY DEF Lost
    <2>1. handled[offset + 1] \in Nat
      BY <1>2 DEF TypeOK
    <2>2. handled'[offset + 1] = handled[offset + 1] + 1
      BY <1>2 DEF Take, Counted, TypeOK
    <2> QED BY <2>1, <2>2
  <1>7. IsFiniteSet(Lost) /\ Cardinality(Lost) \in Nat /\ Cardinality(Lost) <= kills
    BY LostFinite DEF LossBound
  <1>8. CASE n = k
    <2>1. Lost' \in SUBSET Lost
      BY <1>5, <1>6, <1>8
    <2>2. IsFiniteSet(Lost') /\ Cardinality(Lost') <= Cardinality(Lost)
      BY <1>7, <2>1, FS_Subset
    <2>3. Cardinality(Lost') \in Nat
      BY <2>2, FS_CardinalityType
    <2> QED BY <1>1, <1>7, <1>8, <2>2, <2>3 DEF LossBound
  <1>9. CASE n # k
    <2> DEFINE T == Lost \cup {offset + 1}
    <2>0. IsFiniteSet(T) /\ Cardinality(T) \in {Cardinality(Lost), Cardinality(Lost) + 1}
      BY <1>7, FS_AddElement
    <2>1. IsFiniteSet(T) /\ Cardinality(T) <= Cardinality(Lost) + 1 /\ Cardinality(T) \in Nat
      BY <1>7, <2>0
    <2>2. Lost' \in SUBSET T
      BY <1>5
    <2>3. IsFiniteSet(Lost') /\ Cardinality(Lost') <= Cardinality(T)
      BY <2>1, <2>2, FS_Subset
    <2>4. Cardinality(Lost') \in Nat
      BY <2>3, FS_CardinalityType
    <2> HIDE DEF T
    <2> QED BY <1>1, <1>7, <1>9, <2>1, <2>3, <2>4 DEF LossBound
  <1> QED BY <1>8, <1>9

\* No step loses an update without a kill.
LEMMA LossStep == TypeOK /\ LogBounded /\ LossBound /\ [Next]_vars => LossBound'
  <1> SUFFICES ASSUME TypeOK, LogBounded, LossBound, [Next]_vars PROVE LossBound'
    OBVIOUS
  <1>1. ASSUME offset < fetched, NEW n \in Cut(2), HandlePress(n) PROVE LossBound'
    <2>1. n = 2 => kills' = kills
      BY <1>1 DEF HandlePress, Ends
    <2>2. n # 2 => kills' = kills + 1
      BY <1>1 DEF HandlePress, Ends, Dies
    <2> QED BY <1>1, <2>1, <2>2, TakeLoses DEF HandlePress, outside
  <1>2. ASSUME offset < fetched, NEW n \in Cut(StartWrites), HandleStart(n) PROVE LossBound'
    <2>1. StartWrites \in Nat \ {0}
      BY DEF StartWrites
    <2>2. n = StartWrites => kills' = kills
      BY <1>2 DEF HandleStart, Ends
    <2>3. n # StartWrites => kills' = kills + 1
      BY <1>2 DEF HandleStart, Ends, Dies
    <2>4. Take(n, StartWrites) /\ log' = log
      BY <1>2 DEF HandleStart, outside
    <2> QED BY <1>2, <2>1, <2>2, <2>3, <2>4, TakeLoses
  <1>3. ASSUME UNCHANGED <<offset, handled, kills>> PROVE LossBound'
    BY <1>3 DEF LossBound, Lost
  <1>4. ASSUME NEW o \in Offers, Offer(o) PROVE UNCHANGED <<offset, handled, kills>>
    BY <1>4 DEF Offer, stored
  <1>5. ASSUME OfferStep \/ Deliver PROVE UNCHANGED <<offset, handled, kills>>
    BY <1>5 DEF OfferStep, Deliver, SendOk, SendFails, Answered, TimeOut, Missed, Returns, stored, history
  <1>6. ASSUME NEW i \in 1..MaxUpdates, Fetch(i) PROVE UNCHANGED <<offset, handled, kills>>
    BY <1>6 DEF Fetch, stored, history
  <1>7. ASSUME Others \/ Restart \/ UNCHANGED vars PROVE UNCHANGED <<offset, handled, kills>>
    BY <1>7 DEF Others, Press, SaysStart, Restart, stored, history, vars
  <1>8. ASSUME Kill PROVE LossBound'
    <2>1. UNCHANGED <<offset, handled>> /\ kills' = kills + 1
      BY <1>8 DEF Kill, Dies, stored
    <2>2. Lost' = Lost
      BY <2>1 DEF Lost
    <2>3. Cardinality(Lost) \in Nat /\ Cardinality(Lost) <= kills /\ kills \in Nat
      BY LostFinite DEF LossBound, TypeOK
    <2> QED BY <2>1, <2>2, <2>3 DEF LossBound
  <1> QED BY <1>1, <1>2, <1>3, <1>4, <1>5, <1>6, <1>7, <1>8 DEF Next, Listen, Handle

\* What storing the offset first costs: over all kills and restarts, no more
\* updates are lost than the process was killed.
THEOREM KillsCostOneEach == Spec => []LossBound
  <1>1. Init => LogBounded /\ LossBound
    <2> SUFFICES ASSUME Init PROVE LogBounded /\ LossBound
      OBVIOUS
    <2>1. Lost = {}
      BY DEF Init, Lost
    <2>2. Cardinality(Lost) = 0
      BY <2>1, FS_EmptySet
    <2>3. LossBound
      BY <2>2 DEF Init, LossBound
    <2>4. LogBounded
      BY DEF Init, LogBounded
    <2> QED BY <2>3, <2>4
  <1> QED BY <1>1, LogStep, LossStep, TypeCorrect, PTL DEF Spec

=============================================================================
