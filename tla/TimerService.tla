---------------------------- MODULE TimerService ----------------------------
(***************************************************************************)
(* What the platform's timers promise their users: a timer started with a  *)
(* duration of d ticks delivers its expiry at the d-th tick from then, no  *)
(* earlier and no later, once (one-shot) or every d ticks (cycle), unless  *)
(* it is stopped first.  Only a full mailbox delays it, a tick at a time;  *)
(* the period of a cycle timer then counts from the delivery.              *)
(***************************************************************************)
EXTENDS Naturals, Sequences, FiniteSets

CONSTANTS
  Ids,       \* names of timers
  Modules,   \* those who start timers and receive the expiries
  MaxTicks,  \* durations are 1..MaxTicks
  Room       \* messages a mailbox holds

VARIABLES
  timers,    \* the pending timers: what is left of each, its kind, its module
  mailbox    \* expiries a module has not taken yet

vars == <<timers, mailbox>>

Init == timers = << >> /\ mailbox = [m \in Modules |-> << >>]

Pending == DOMAIN timers
Due     == {i \in Pending : timers[i].left = 0}

Without(i)   == [j \in Pending \ {i} |-> timers[j]]
WithLeft(i, n) == [timers EXCEPT ![i].left = n]

-----------------------------------------------------------------------------
Start(i, m, d, c) ==
  /\ Due = {} /\ i \notin Pending
  /\ timers' = [j \in Pending \cup {i} |->
                  IF j = i THEN [left |-> d, duration |-> d, cycle |-> c, module |-> m]
                  ELSE timers[j]]
  /\ UNCHANGED mailbox

Stop(i) ==
  /\ Due = {} /\ i \in Pending
  /\ timers' = Without(i)
  /\ UNCHANGED mailbox

Restart(i) ==
  /\ Due = {} /\ i \in Pending
  /\ timers' = WithLeft(i, timers[i].duration)
  /\ UNCHANGED mailbox

\* Time passes once everything that was due has been dealt with.
Tick ==
  /\ Due = {}
  /\ timers' = [i \in Pending |-> [timers[i] EXCEPT !.left = @ - 1]]
  /\ UNCHANGED mailbox

Deliver(i) ==
  /\ i \in Due
  /\ LET m == timers[i].module IN
       /\ Len(mailbox[m]) < Room
       /\ mailbox' = [mailbox EXCEPT ![m] = Append(@, i)]
  /\ timers' = IF timers[i].cycle THEN WithLeft(i, timers[i].duration) ELSE Without(i)

Postpone(i) ==
  /\ i \in Due
  /\ Len(mailbox[timers[i].module]) = Room
  /\ timers' = WithLeft(i, 1)
  /\ UNCHANGED mailbox

Take(m) ==
  /\ mailbox[m] # << >>
  /\ mailbox' = [mailbox EXCEPT ![m] = Tail(@)]
  /\ UNCHANGED timers

Next ==
  \/ \E i \in Ids, m \in Modules, d \in 1..MaxTicks, c \in BOOLEAN : Start(i, m, d, c)
  \/ \E i \in Pending : Stop(i) \/ Restart(i) \/ Deliver(i) \/ Postpone(i)
  \/ Tick
  \/ \E m \in Modules : Take(m)

Spec == Init /\ [][Next]_vars
=============================================================================
