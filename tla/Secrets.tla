------------------------------ MODULE Secrets ------------------------------
(***************************************************************************)
(* The secret store (secrets.py) under the processes that use it: command  *)
(* line jobs that put a token, a link code or a key, the agent that        *)
(* deletes the link code it has used, and an agent that starts and decides *)
(* by what it reads whether it has a Telegram bot.                         *)
(*                                                                         *)
(* A process finds out once which of two stores it has: the keychain,      *)
(* whose calls are atomic, or a file that is read, changed in memory, then *)
(* truncated and written in place.  Nothing locks the file.  A secret is   *)
(* there or not; what it says is no matter here.                           *)
(***************************************************************************)
EXTENDS Naturals

CONSTANTS
  Names,      \* the names of the secrets
  Token,      \* telegram_token
  LinkCode,   \* telegram_link_code
  Writers,    \* processes that put and delete
  Backends,   \* the stores a process may find: subset of {"file", "os"}
  MaxKills

VARIABLES
  file,       \* secrets.json: "missing", "torn" or "whole", and its names
  keychain,   \* the names in the operating system's keychain
  writer,     \* where each job is: its step, its operation, what it holds
  agent,      \* where the agent's start is, and which store it has
  ledger,     \* the names put and not deleted since
  overlapped, \* two jobs have been inside the file at once
  used,       \* the stores that have been used
  secretKills

vars == <<file, keychain, writer, agent, ledger, overlapped, used, secretKills>>

Missing == [state |-> "missing", names |-> {}]
Torn == [state |-> "torn", names |-> {}]
Whole(names) == [state |-> "whole", names |-> names]

Steps == {"idle", "read", "truncated"}
Idle == [step |-> "idle", op |-> "put", name |-> Token, holds |-> {}]

\* How a start ends: with a bot, on the console for want of a token, on the
\* console for want of a readable store, stopped with a message.
Ends == {"bot", "no_token", "unreadable", "stopped"}

TypeOK ==
  /\ file \in [state : {"missing", "torn", "whole"}, names : SUBSET Names]
  /\ keychain \subseteq Names
  /\ writer \in [Writers -> [step : Steps, op : {"put", "delete"}, name : Names, holds : SUBSET Names]]
  /\ agent \in [at : {"down", "portal", "notifier", "code"} \cup Ends, store : {"file", "os"}]
  /\ ledger \subseteq Names /\ overlapped \in BOOLEAN /\ used \subseteq {"file", "os"}
  /\ secretKills \in 0..MaxKills

Init ==
  /\ file = Missing /\ keychain = {} /\ writer = [w \in Writers |-> Idle]
  /\ agent = [at |-> "down", store |-> "file"]
  /\ ledger = {} /\ overlapped = FALSE /\ used = {} /\ secretKills = 0

-----------------------------------------------------------------------------
(* put and delete                                                          *)

\* _read_file: a missing file is empty, a torn one raises SecretsUnavailable.
ReadForgiving == TRUE
Readable == file.state # "torn"

Applied(op, name, names) == IF op = "put" THEN names \cup {name} ELSE names \ {name}

\* A job on the keychain is one call.
OnKeychain(w, op, name) ==
  /\ writer[w].step = "idle" /\ "os" \in Backends /\ used' = used \cup {"os"}
  /\ keychain' = Applied(op, name, keychain)
  /\ ledger' = Applied(op, name, ledger)
  /\ UNCHANGED <<file, writer, agent, overlapped, secretKills>>

\* A job on the file begins by reading it; a delete of what is not there
\* ends with that.
Read(w, op, name) ==
  /\ writer[w].step = "idle" /\ "file" \in Backends /\ used' = used \cup {"file"}
  /\ Readable /\ (op = "delete" => name \in file.names)
  /\ writer' = [writer EXCEPT ![w] =
       [step |-> "read", op |-> op, name |-> name, holds |-> Applied(op, name, file.names)]]
  /\ overlapped' = (overlapped \/ \E v \in Writers \ {w} : writer[v].step # "idle")
  /\ UNCHANGED <<file, keychain, agent, ledger, secretKills>>

\* os.open with O_TRUNC, or an error before it that leaves the file alone.
Truncate(w) ==
  /\ writer[w].step = "read"
  /\ writer' = [writer EXCEPT ![w].step = "truncated"] /\ file' = Torn
  /\ UNCHANGED <<keychain, agent, ledger, overlapped, used, secretKills>>

Refuse(w) ==
  /\ writer[w].step = "read"
  /\ writer' = [writer EXCEPT ![w] = Idle]
  /\ UNCHANGED <<file, keychain, agent, ledger, overlapped, used, secretKills>>

\* The whole of what the job holds is written from the start of the file; if
\* another has written since the truncation, the end of its text may be left.
WriteOnly(w) == Whole({writer[w].name})
Written(w) == Whole(writer[w].holds)
Write(w) ==
  /\ writer[w].step = "truncated"
  /\ file' \in {Written(w)} \cup (IF file.state = "torn" THEN {} ELSE {Torn})
  /\ ledger' = Applied(writer[w].op, writer[w].name, ledger)
  /\ writer' = [writer EXCEPT ![w] = Idle]
  /\ UNCHANGED <<keychain, agent, overlapped, used, secretKills>>

Kill(w) ==
  /\ writer[w].step # "idle" /\ secretKills < MaxKills /\ secretKills' = secretKills + 1
  /\ writer' = [writer EXCEPT ![w] = Idle]
  /\ UNCHANGED <<file, keychain, agent, ledger, overlapped, used>>

\* What there is to do about a file that cannot be read: remove it.
Remove ==
  /\ file.state = "torn" /\ file' = Missing /\ ledger' = ledger \cap keychain
  /\ \A w \in Writers : writer[w].step = "idle"
  /\ UNCHANGED <<keychain, writer, agent, overlapped, used, secretKills>>

-----------------------------------------------------------------------------
(* The agent's start: main._run and _build_notifier                        *)

AgentAt(step) == agent' = [agent EXCEPT !.at = step]
Holds(name) == name \in IF agent.store = "os" THEN keychain ELSE file.names
Opens == agent.store = "os" \/ Readable

Start ==
  /\ agent.at \in {"down"} \cup Ends
  /\ \E b \in Backends : agent' = [at |-> "portal", store |-> b] /\ used' = used \cup {b}
  /\ UNCHANGED <<file, keychain, writer, ledger, overlapped, secretKills>>

\* load_portal_secrets: an unreadable store stops the start.
LoadPortal ==
  /\ agent.at = "portal" /\ AgentAt(IF Opens THEN "notifier" ELSE "stopped")
  /\ UNCHANGED <<file, keychain, writer, ledger, overlapped, used, secretKills>>

\* _build_notifier: the token is read again.
LoadToken ==
  /\ agent.at = "notifier"
  /\ AgentAt(IF ~Opens THEN "unreadable" ELSE IF Holds(Token) THEN "code" ELSE "no_token")
  /\ UNCHANGED <<file, keychain, writer, ledger, overlapped, used, secretKills>>

\* The link code is read outside the handler: an error ends the start.
LoadCode ==
  /\ agent.at = "code" /\ AgentAt(IF Opens THEN "bot" ELSE "stopped")
  /\ UNCHANGED <<file, keychain, writer, ledger, overlapped, used, secretKills>>

-----------------------------------------------------------------------------
Job(w) ==
  \/ \E name \in Names : OnKeychain(w, "put", name) \/ Read(w, "put", name)
  \/ OnKeychain(w, "delete", LinkCode) \/ Read(w, "delete", LinkCode)
  \/ Truncate(w) \/ Refuse(w) \/ Write(w) \/ Kill(w)

Next == Start \/ LoadPortal \/ LoadToken \/ LoadCode \/ Remove \/ \E w \in Writers : Job(w)

Spec == Init /\ [][Next]_vars

-----------------------------------------------------------------------------
(* Properties                                                              *)

\* As long as no two jobs are inside the file at once and every process
\* finds the same store, a kill at any step never costs a secret silently:
\* the file says exactly what was put and deleted, or it cannot be read at
\* all (secrets.py:92-119).
LossIsLoud ==
  ~overlapped /\ used = {"file"} /\ file.state # "torn" => file.names = ledger

\* Under the same conditions an agent that says there is no token has none,
\* and one that comes up with a bot has a token (main.py:90-125, 178-185).
NoTokenForgotten ==
  [][~overlapped' /\ used' \in {{b} : b \in Backends} =>
       /\ (agent'.at = "no_token" /\ agent.at # "no_token" => Token \notin ledger)
       /\ (agent'.at = "code" /\ agent.at # "code" => Token \in ledger)]_vars

=============================================================================
