--------------------------- MODULE RequestService ---------------------------
(***************************************************************************)
(* What the request manager promises the handlers that call it.  A call    *)
(* takes the first answer that comes under its key, before it is reported  *)
(* or given up, and never another one.  It ends once: with what the answer *)
(* says, with a timeout if it has none, or unsent.                         *)
(***************************************************************************)
EXTENDS Integers

CONSTANTS
  Calls, Key,         \* Key[c]: what the answers to call c are known by
  Others,             \* calls of other clients, whose answers come here too
  Verdicts, NoResult  \* 0 accepts, any other verdict rejects

VARIABLES
  phase,     \* of each call; at its end what it returned
  answer,    \* the verdict it has taken, or NoResult
  verdict    \* what the aircraft has said of its request, or NoResult

vars == <<phase, answer, verdict>>

Init ==
  /\ phase = [c \in Calls |-> "idle"]
  /\ answer = [c \in Calls |-> NoResult]
  /\ verdict = [c \in Calls |-> NoResult]

Moves(c, from, to) ==
  /\ phase[c] = from
  /\ phase' = [phase EXCEPT ![c] = to]
  /\ UNCHANGED <<answer, verdict>>

Open(c)   == Moves(c, "idle", "open")
Send(c)   == Moves(c, "open", "sent")
Fail(c)   == Moves(c, "open", "pb2json")
Report(c) == answer[c] # NoResult /\ Moves(c, "sent", IF answer[c] = 0 THEN "ok" ELSE "rejected")
GiveUp(c) == answer[c] = NoResult /\ Moves(c, "sent", "timeout")

\* The aircraft decides on a request it may have seen.
Decide(c, v) ==
  /\ c \in Others \/ phase[c] \in {"sent", "ok", "rejected", "timeout"}
  /\ verdict[c] = NoResult
  /\ verdict' = [verdict EXCEPT ![c] = v]
  /\ UNCHANGED <<phase, answer>>

\* The answer to request d reaches call c.
Answer(c, d) ==
  /\ phase[c] \in {"open", "sent"} /\ answer[c] = NoResult
  /\ Key[d] = Key[c] /\ verdict[d] # NoResult
  /\ answer' = [answer EXCEPT ![c] = verdict[d]]
  /\ UNCHANGED <<phase, verdict>>

Next ==
  \E c \in Calls :
    \/ Open(c) \/ Send(c) \/ Fail(c) \/ Report(c) \/ GiveUp(c)
    \/ \E v \in Verdicts : Decide(c, v)
    \/ \E d \in Calls : Answer(c, d)

Spec == Init /\ [][Next]_vars
=============================================================================
