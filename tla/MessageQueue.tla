---------------------------- MODULE MessageQueue ----------------------------
(***************************************************************************)
(* What a module mailbox promises its users: a bounded queue.  A general   *)
(* message joins at the tail, an urgent one at the head; the module thread *)
(* takes the message at the head and handles one message at a time.        *)
(* Nothing accepted is lost, duplicated, altered or reordered.             *)
(***************************************************************************)
EXTENDS Naturals, Sequences

CONSTANTS Messages, Capacity, None

VARIABLES
  queue,    \* accepted and not yet taken, oldest first
  taken     \* the message being handled, or None

vars == <<queue, taken>>

Init == queue = <<>> /\ taken = None

Accept(m) ==
  /\ Len(queue) < Capacity
  /\ queue' = Append(queue, m)
  /\ UNCHANGED taken

AcceptUrgent(m) ==
  /\ Len(queue) < Capacity
  /\ queue' = <<m>> \o queue
  /\ UNCHANGED taken

Take ==
  /\ taken = None
  /\ queue # <<>>
  /\ taken' = Head(queue)
  /\ queue' = Tail(queue)

Finish ==
  /\ taken # None
  /\ taken' = None
  /\ UNCHANGED queue

Next ==
  \/ \E m \in Messages : Accept(m) \/ AcceptUrgent(m)
  \/ Take
  \/ Finish

Spec == Init /\ [][Next]_vars
=============================================================================
