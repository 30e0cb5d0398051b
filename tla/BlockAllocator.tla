--------------------------- MODULE BlockAllocator ---------------------------
(***************************************************************************)
(* What the memory pools promise their users: every block is free, in use  *)
(* or on its way back.  A request is granted one free block at once, of    *)
(* the class it asks for; it goes on to the next class, and after the last *)
(* one away empty-handed, only at a moment when its class has none.        *)
(* Whoever gives a block back, it is free again for every thread.          *)
(***************************************************************************)
EXTENDS Integers

CONSTANTS
  Threads,
  Blocks, Classes,   \* the classes are numbered without a gap
  Class,             \* of each block
  None               \* no class, no block

VARIABLES
  free, used,
  asks,      \* the class each thread asks for, or None
  returns    \* the block it is giving back, or None

vars == <<free, used, asks, returns>>

Init ==
  /\ free = Blocks
  /\ used = {}
  /\ asks = [t \in Threads |-> None]
  /\ returns = [t \in Threads |-> None]

Ready(t) == asks[t] = None /\ returns[t] = None

Ask(t, c) ==
  /\ Ready(t)
  /\ asks' = [asks EXCEPT ![t] = c]
  /\ UNCHANGED <<free, used, returns>>

Grant(t) ==
  /\ asks[t] # None
  /\ \E b \in free :
       /\ Class[b] = asks[t]
       /\ free' = free \ {b}
       /\ used' = used \cup {b}
  /\ asks' = [asks EXCEPT ![t] = None]
  /\ UNCHANGED returns

PassOn(t) ==
  /\ asks[t] # None
  /\ \A b \in free : Class[b] # asks[t]
  /\ asks' = [asks EXCEPT ![t] = IF @ + 1 \in Classes THEN @ + 1 ELSE None]
  /\ UNCHANGED <<free, used, returns>>

Return(t, b) ==
  /\ Ready(t)
  /\ used' = used \ {b}
  /\ returns' = [returns EXCEPT ![t] = b]
  /\ UNCHANGED <<free, asks>>

Release(t) ==
  /\ returns[t] # None
  /\ free' = free \cup {returns[t]}
  /\ returns' = [returns EXCEPT ![t] = None]
  /\ UNCHANGED <<used, asks>>

Next ==
  \E t \in Threads :
    \/ \E c \in Classes : Ask(t, c)
    \/ Grant(t)
    \/ PassOn(t)
    \/ \E b \in used : Return(t, b)
    \/ Release(t)

Spec == Init /\ [][Next]_vars
=============================================================================
