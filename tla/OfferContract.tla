--------------------------- MODULE OfferContract ---------------------------
(***************************************************************************)
(* What TelegramNotifier.offer promises the claim cycle: an offer is put   *)
(* to the one linked chat, it comes back confirmed only if the first       *)
(* button pressed on it was Confirm, it comes back at most once, and it    *)
(* does come back.  A timeout, a failed send, a missing chat and a kill    *)
(* all count as a no.                                                      *)
(***************************************************************************)
CONSTANTS Offers, Chats, NoChat

VARIABLES
  owner,    \* the linked chat
  verdict,  \* verdict[o]: what became of the offer
  first     \* first[o]: the first button pressed on it

vars == <<owner, verdict, first>>

Init ==
  /\ owner \in Chats \cup {NoChat}
  /\ verdict = [o \in Offers |-> "unasked"]
  /\ first = [o \in Offers |-> "none"]

\* A chat is linked for good.
Link(c) ==
  /\ owner = NoChat /\ owner' = c
  /\ UNCHANGED <<verdict, first>>

Ask(o) ==
  /\ owner # NoChat /\ verdict[o] = "unasked"
  /\ verdict' = [verdict EXCEPT ![o] = "asked"]
  /\ UNCHANGED <<owner, first>>

\* The buttons of an offer outlive it.
Press(o, k) ==
  /\ verdict[o] # "unasked" /\ first[o] = "none"
  /\ first' = [first EXCEPT ![o] = k]
  /\ UNCHANGED <<owner, verdict>>

Confirm(o) ==
  /\ verdict[o] = "asked" /\ first[o] = "confirm"
  /\ verdict' = [verdict EXCEPT ![o] = "yes"]
  /\ UNCHANGED <<owner, first>>

Refuse(o) ==
  /\ verdict[o] \in {"unasked", "asked"}
  /\ verdict' = [verdict EXCEPT ![o] = "no"]
  /\ UNCHANGED <<owner, first>>

Next ==
  \/ \E c \in Chats : Link(c)
  \/ \E o \in Offers :
       \/ Ask(o) \/ Confirm(o) \/ Refuse(o)
       \/ \E k \in {"confirm", "skip"} : Press(o, k)

\* An offer that was put to her is not left open.
Fairness ==
  \A o \in Offers : WF_vars(verdict[o] = "asked" /\ (Confirm(o) \/ Refuse(o)))

SafeSpec == Init /\ [][Next]_vars
Spec == SafeSpec /\ Fairness

=============================================================================
