---------------------------- MODULE OneTimeCode ----------------------------
(***************************************************************************)
(* Waiting for a one-time code in a mailbox (friction/imap_otp.py): the    *)
(* mailbox is looked through again and again, newest message first, until  *)
(* a message passes the filters, is recent enough and holds a code, or     *)
(* another wait would reach the deadline.                                  *)
(*                                                                         *)
(* Every call to the server takes as long as it takes: none has a socket   *)
(* timeout, mail comes in meanwhile, and the deadline is read only when a  *)
(* look is over.  A call may raise, and nothing says that it ever answers. *)
(* The logout that follows the answer changes nothing and is left out.     *)
(***************************************************************************)
EXTENDS Integers, Sequences

CONSTANTS
  Window,    \* since_minutes: how far before the call a code may be sent
  Timeout,   \* timeout_s
  Interval,  \* poll_interval_s
  MaxMail,   \* bound on the mailbox
  MaxClock   \* bound on the clock while a call is out

VARIABLES
  clock,     \* time since the call
  mailbox,   \* the messages, oldest number first
  status,    \* what fetch_latest_otp is doing, or how it ended
  view,      \* how many messages the last search listed
  left,      \* those of them not fetched yet
  skipped,   \* those of them whose fetch came back empty
  answer     \* the number of the message whose code was returned

vars == <<clock, mailbox, status, view, left, skipped, answer>>

\* A message: who it is from and about, when its Date header says it was
\* sent (or that it cannot be read), and whether there is a code in it.
NoDate == "unreadable"
Sent == {"before", "within", "now", NoDate}
Messages == [wanted : BOOLEAN, sent : Sent, code : BOOLEAN]

\* _is_recent, against a cutoff fixed when the call began.
SentAt(m) == CASE m.sent = "before" -> -Window - 1 [] m.sent = "within" -> -Window [] OTHER -> 0
IsRecent(m) == m.sent # NoDate /\ SentAt(m) >= -Window

\* The sender and subject filters, the age and the code; the SINCE of the
\* search itself only tells days apart.
MatchesDay(m) == m.wanted /\ m.code
Matches(m) == m.wanted /\ IsRecent(m) /\ m.code

Calling == {"connecting", "searching", "fetching"}

TypeOK ==
  /\ clock \in Nat /\ mailbox \in Seq(Messages)
  /\ status \in Calling \cup {"found", "timeout", "failed"}
  /\ view \in 0..MaxMail /\ left \subseteq 1..MaxMail /\ skipped \subseteq 1..MaxMail
  /\ answer \in 0..MaxMail

Init ==
  /\ clock = 0 /\ mailbox = <<>> /\ status = "connecting"
  /\ view = 0 /\ left = {} /\ skipped = {} /\ answer = 0

-----------------------------------------------------------------------------
\* Mail comes in, in any order of its dates; what arrives before the first
\* search may have been there all along.
Arrive ==
  /\ status \in Calling /\ Len(mailbox) < MaxMail
  /\ \E m \in Messages : mailbox' = Append(mailbox, m)
  /\ UNCHANGED <<clock, status, view, left, skipped, answer>>

\* A call has not answered yet.
Pass ==
  /\ status \in Calling /\ clock < MaxClock /\ clock' = clock + 1
  /\ UNCHANGED <<mailbox, status, view, left, skipped, answer>>

\* It fails: the exception is the caller's.
Break ==
  /\ status \in Calling /\ status' = "failed"
  /\ UNCHANGED <<clock, mailbox, view, left, skipped, answer>>

Connect ==
  /\ status = "connecting" /\ status' = "searching"
  /\ UNCHANGED <<clock, mailbox, view, left, skipped, answer>>

\* The selected mailbox is searched afresh on every pass.
Search ==
  /\ status = "searching" /\ status' = "fetching"
  /\ view' = Len(mailbox) /\ left' = 1..view' /\ skipped' = {}
  /\ UNCHANGED <<clock, mailbox, answer>>

-----------------------------------------------------------------------------
Oldest(n) == n \in left /\ \A k \in left : n <= k
Newest(n) == n \in left /\ \A k \in left : k <= n

\* The fetch brings nothing: the message is passed over.
Empty(n) ==
  /\ status = "fetching" /\ Newest(n)
  /\ left' = left \ {n} /\ skipped' = skipped \cup {n}
  /\ UNCHANGED <<clock, mailbox, status, view, answer>>

\* It brings the message: its code is the answer, or the next one is fetched.
Fetch(n) ==
  /\ status = "fetching" /\ Newest(n) /\ left' = left \ {n}
  /\ IF Matches(mailbox[n]) THEN status' = "found" /\ answer' = n ELSE UNCHANGED <<status, answer>>
  /\ UNCHANGED <<clock, mailbox, view, skipped>>

\* None would do: wait and look again, unless the wait would reach the
\* deadline.
OutOfTime == clock + Interval >= Timeout
Retry ==
  /\ status = "fetching" /\ left = {}
  /\ IF OutOfTime THEN status' = "timeout" /\ UNCHANGED clock
                  ELSE status' = "searching" /\ clock' = clock + Interval
  /\ UNCHANGED <<mailbox, view, left, skipped, answer>>

Next ==
  \/ Arrive \/ Pass \/ Break
  \/ Connect \/ Search \/ Retry
  \/ \E n \in left : Empty(n) \/ Fetch(n)

Spec == Init /\ [][Next]_vars

-----------------------------------------------------------------------------
(* Properties                                                              *)

\* A code that is returned was sent no longer than the window before the
\* call, by the sender asked for, and of the messages listed with it no later
\* one had a code that would do, save one whose fetch came back empty: an
\* expired code is never handed out, nor an older one past a newer that was
\* read.  The call gives up after a whole look at what was listed, in which
\* no message that was read would do.  When it answers is not promised: a
\* call that hangs outlasts the deadline, and a code may be returned after
\* it (imap_otp.py:71-118).
FreshestCode ==
  LET Usable(n) == /\ mailbox[n].wanted /\ mailbox[n].code
                   /\ mailbox[n].sent \in {"within", "now"}
  IN /\ status = "found" =>
          /\ Usable(answer)
          /\ \A k \in answer + 1..view : Usable(k) => k \in skipped
     /\ status = "timeout" =>
          /\ \A k \in 1..view : Usable(k) => k \in skipped
          /\ clock + Interval >= Timeout

=============================================================================
