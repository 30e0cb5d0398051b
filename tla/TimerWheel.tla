----------------------------- MODULE TimerWheel -----------------------------
(***************************************************************************)
(* The timers of the platform (platform/linux/pf_timer_manager.cpp and     *)
(* pf_timer_service_linux_signal.cpp): an array of timer units, a free and *)
(* an allocated list, and a hash table whose buckets hold the running      *)
(* units by the tick at which they expire.  The timer task calls tm_tick   *)
(* once per millisecond; it looks into one bucket and sends the units      *)
(* whose tick has come to the mailboxes of their modules.                  *)
(*                                                                         *)
(* stMutex protects all of it, so each operation is one step; tm_tick      *)
(* holds it for the whole of its scan, during which only the receiving     *)
(* modules move.  A list is the set of its units: in which order a bucket  *)
(* is scanned and free units are reused is left open.                      *)
(***************************************************************************)
EXTENDS Integers, Sequences, FiniteSets

CONSTANTS
  Units,          \* indices of the timer array
  HashTableSize,  \* buckets of the hash table
  Ticks,          \* u32CurrentTick counts modulo this (2^32)
  Durations,      \* ulDuration arguments of the users
  Slots,          \* the variables in which modules keep their timer ids
  Owner,         \* the module each slot belongs to
  Room,           \* expiries a mailbox holds
  MaxHistory,     \* bound: timers ever set; from 2^18 on ids would repeat
  NoTimer

\* tm_init_timer_manager: both sizes are powers of two, the smaller divides
\* the larger.  Durations stay below a full turn of the tick counter.
ASSUME TimerAssumption ==
  /\ HashTableSize \in Nat \ {0}
  /\ Ticks \in Nat \ {0}
  /\ Ticks % HashTableSize = 0
  /\ Durations \subseteq Nat
  /\ \A d \in Durations : d + 1 < Ticks
  /\ MaxHistory \in Nat
  /\ Room \in Nat \ {0}
  /\ NoTimer \notin Units \X Nat

VARIABLES
  u32CurrentTick, u32TimerCountHistory,
  freeTimerList, allocTimerList, hashTable,
  u32AbsExpTick, u32Duration, u8Cycle, u8Running, u32ModuleId, ulTimerId,
  due,      \* units tm_tick has still to expire in the scan under way
  slot,     \* the id each slot holds
  expiries,  \* expiry messages waiting for each module
  live      \* history: the slots whose last timer is neither over nor stopped

unitVars == <<u32AbsExpTick, u32Duration, u8Cycle, u8Running, u32ModuleId, ulTimerId>>
listVars == <<freeTimerList, allocTimerList, hashTable>>
userVars == <<slot, expiries, live>>
wheelVars == <<u32CurrentTick, u32TimerCountHistory, listVars, unitVars, due, userVars>>

Owners == {Owner[s] : s \in Slots}
Buckets == 0..HashTableSize-1
Ids     == Units \X (0..MaxHistory)

WheelInit ==
  /\ u32CurrentTick = 0
  /\ u32TimerCountHistory = 0
  /\ freeTimerList = Units
  /\ allocTimerList = {}
  /\ hashTable = [h \in Buckets |-> {}]
  /\ u32AbsExpTick = [u \in Units |-> 0]
  /\ u32Duration = [u \in Units |-> 0]
  /\ u8Cycle = [u \in Units |-> FALSE]
  /\ u8Running = [u \in Units |-> FALSE]
  /\ u32ModuleId = [u \in Units |-> NoTimer]
  /\ ulTimerId = [u \in Units |-> 0]
  /\ due = {}
  /\ slot = [s \in Slots |-> NoTimer]
  /\ expiries = [m \in Owners |-> << >>]
  /\ live = {}

-----------------------------------------------------------------------------
(* Lists                                                                   *)

Bucket(t) == t % HashTableSize

\* Mutant: u32CurrentTick is compared as if it never wrapped.
LaterUnwrapped(n) == u32CurrentTick + n

\* The tick n from now: U32 arithmetic.
Later(n) == (u32CurrentTick + n) % Ticks

\* tm_insert_timer
Inserted(table, u, t) == [table EXCEPT ![Bucket(t)] = @ \cup {u}]

\* tm_remove_timer: the node leaves the list it is in, whichever that is.
Removed(u) == [h \in Buckets |-> hashTable[h] \ {u}]

\* tm_delete_timer
Delete(u) ==
  /\ u8Running' = [u8Running EXCEPT ![u] = FALSE]
  /\ allocTimerList' = allocTimerList \ {u}
  /\ freeTimerList' = freeTimerList \cup {u}
  /\ live' = {s \in live : slot[s][1] # u}

\* Mutant: the generation of an id is not compared.
MatchesIndex(i, m) == u8Running[i[1]] /\ u32ModuleId[i[1]] = m

\* The checks of tm_kill_timer and tm_restart_timer: the unit runs under this
\* very id, and for this module.
Matches(i, m) ==
  /\ ulTimerId[i[1]] = i[2]
  /\ u8Running[i[1]]
  /\ u32ModuleId[i[1]] = m

-----------------------------------------------------------------------------
(* Users.  tm_tick holds the mutex while units are due.                    *)

\* tm_alloc_timer and tm_set_timer.  Without a free unit nothing changes.
SetTimer(s, d, cycle) ==
  /\ due = {}
  /\ u32TimerCountHistory < MaxHistory
  /\ \E u \in freeTimerList :
       LET t == Later(d) IN
       /\ freeTimerList' = freeTimerList \ {u}
       /\ allocTimerList' = allocTimerList \cup {u}
       /\ u32AbsExpTick' = [u32AbsExpTick EXCEPT ![u] = t]
       /\ u32Duration' = [u32Duration EXCEPT ![u] = d]
       /\ u8Running' = [u8Running EXCEPT ![u] = TRUE]
       /\ u8Cycle' = [u8Cycle EXCEPT ![u] = cycle]
       /\ u32ModuleId' = [u32ModuleId EXCEPT ![u] = Owner[s]]
       /\ u32TimerCountHistory' = u32TimerCountHistory + 1
       /\ ulTimerId' = [ulTimerId EXCEPT ![u] = u32TimerCountHistory']
       /\ slot' = [slot EXCEPT ![s] = <<u, u32TimerCountHistory'>>]
       /\ hashTable' = Inserted(hashTable, u, t)
       /\ live' = live \cup {s}
  /\ UNCHANGED <<u32CurrentTick, due, expiries>>

\* "compensate the first tick by adding 1"
pf_timer_start(s, ulDuration) == SetTimer(s, ulDuration + 1, FALSE)

\* A cycle of 0 is refused.
pf_timer_cycle_start(s, ulDuration) == ulDuration # 0 /\ SetTimer(s, ulDuration, TRUE)

\* tm_kill_timer.  NOT_EXIST and NOT_PERMIT change nothing.
pf_timer_stop(s) ==
  /\ due = {}
  /\ slot[s] # NoTimer
  /\ Matches(slot[s], Owner[s])
  /\ hashTable' = Removed(slot[s][1])
  /\ Delete(slot[s][1])
  /\ UNCHANGED <<u32CurrentTick, u32TimerCountHistory, u32AbsExpTick, u32Duration,
                 u8Cycle, u32ModuleId, ulTimerId, due, slot, expiries>>

\* tm_restart_timer
pf_timer_restart(s) ==
  /\ due = {}
  /\ slot[s] # NoTimer
  /\ Matches(slot[s], Owner[s])
  /\ LET u == slot[s][1]
         t == Later(u32Duration[u])
     IN /\ u32AbsExpTick' = [u32AbsExpTick EXCEPT ![u] = t]
        /\ hashTable' = Inserted(Removed(u), u, t)
  /\ UNCHANGED <<u32CurrentTick, u32TimerCountHistory, freeTimerList, allocTimerList,
                 u32Duration, u8Cycle, u8Running, u32ModuleId, ulTimerId, due, userVars>>

\* A module thread takes an expiry message from its mailbox (external here:
\* Mailbox and MessageQueue).
TakeExpiry(m) ==
  /\ expiries[m] # << >>
  /\ expiries' = [expiries EXCEPT ![m] = Tail(@)]
  /\ UNCHANGED <<u32CurrentTick, u32TimerCountHistory, listVars, unitVars, due, slot, live>>

-----------------------------------------------------------------------------
(* The timer task                                                          *)

\* The units the scan of tick t expires: one bucket holds every timer of all
\* the ticks that agree modulo HashTableSize.
ExpireAt(t) == {u \in hashTable[Bucket(t)] : u32AbsExpTick[u] = t}

\* tm_tick, up to its loop.  An overrun of the timerfd repeats it.
tm_tick ==
  /\ due = {}
  /\ u32CurrentTick' = Later(1)
  /\ due' = ExpireAt(u32CurrentTick')
  /\ UNCHANGED <<u32TimerCountHistory, listVars, unitVars, userVars>>

Reinsert(u, t) ==
  /\ u32AbsExpTick' = [u32AbsExpTick EXCEPT ![u] = t]
  /\ hashTable' = Inserted(Removed(u), u, t)
  /\ UNCHANGED <<freeTimerList, allocTimerList, u8Running, live>>

\* tm_expire_timer, pf_copy_try_msg succeeds.
ExpireSent(u) ==
  LET m == u32ModuleId[u] IN
  /\ Len(expiries[m]) < Room
  /\ expiries' = [expiries EXCEPT ![m] = Append(@, <<u, ulTimerId[u]>>)]
  /\ \/ /\ u8Cycle[u]
        /\ Reinsert(u, Later(u32Duration[u]))
     \/ /\ ~u8Cycle[u]
        /\ hashTable' = Removed(u)
        /\ Delete(u)
        /\ UNCHANGED u32AbsExpTick

\* Mutant: the unit is queued for the tick that is just being scanned.
ExpireRetryMissed(u) ==
  /\ Len(expiries[u32ModuleId[u]]) = Room
  /\ Reinsert(u, u32CurrentTick)
  /\ UNCHANGED expiries

\* tm_expire_timer on a full mailbox: "try to resend timer expire message in
\* next tick".
ExpireRetry(u) ==
  /\ Len(expiries[u32ModuleId[u]]) = Room
  /\ Reinsert(u, Later(1))
  /\ UNCHANGED expiries

tm_expire_timer(u) ==
  /\ u \in due
  /\ due' = due \ {u}
  /\ ExpireSent(u) \/ ExpireRetry(u)
  /\ UNCHANGED <<u32CurrentTick, u32TimerCountHistory, u32Duration, u8Cycle,
                 u32ModuleId, ulTimerId, slot>>

-----------------------------------------------------------------------------
User(s) ==
  \/ \E d \in Durations : pf_timer_start(s, d) \/ pf_timer_cycle_start(s, d)
  \/ pf_timer_stop(s)
  \/ pf_timer_restart(s)

WheelNext ==
  \/ \E s \in Slots : User(s)
  \/ \E m \in Owners : TakeExpiry(m)
  \/ tm_tick
  \/ \E u \in Units : tm_expire_timer(u)

WheelSpec == WheelInit /\ [][WheelNext]_wheelVars

-----------------------------------------------------------------------------
(* Type invariant: lists hold units, ticks and ids stay in range.          *)
WheelTypeOK ==
  /\ u32CurrentTick \in 0..Ticks-1
  /\ u32TimerCountHistory \in 0..MaxHistory
  /\ freeTimerList \subseteq Units
  /\ allocTimerList \subseteq Units
  /\ hashTable \in [Buckets -> SUBSET Units]
  /\ u32AbsExpTick \in [Units -> 0..Ticks-1]
  /\ u32Duration \in [Units -> 0..Ticks-1]
  /\ u8Cycle \in [Units -> BOOLEAN]
  /\ u8Running \in [Units -> BOOLEAN]
  /\ u32ModuleId \in [Units -> Owners \cup {NoTimer}]
  /\ ulTimerId \in [Units -> 0..MaxHistory]
  /\ due \subseteq Units
  /\ slot \in [Slots -> Ids \cup {NoTimer}]
  /\ expiries \in [Owners -> Seq(Ids)]
  /\ live \subseteq Slots

\* The three counts tm_get_status compares agree for a structural reason:
\* every unit is either free or allocated, exactly the allocated ones run, and
\* each of them is in one bucket, that of its tick.
ListsAgree ==
  /\ freeTimerList = Units \ allocTimerList
  /\ \A u \in Units : u8Running[u] <=> u \in allocTimerList
  /\ \A h \in Buckets :
       hashTable[h] = {u \in allocTimerList : Bucket(u32AbsExpTick[u]) = h}

\* A module reaches its own last timer with the id it kept, for as long as
\* that timer is pending, and nothing at all afterwards, although the unit
\* has been reused: no stop or restart hits another's timer.
StaleIdsMiss ==
  \A s \in Slots : slot[s] # NoTimer => (Matches(slot[s], Owner[s]) <=> s \in live)

\* The pending timers by their ids, with the ticks that are left of each.
Name(u) == <<u, ulTimerId[u]>>

Entry(u) ==
  [left |-> (u32AbsExpTick[u] - u32CurrentTick) % Ticks, duration |-> u32Duration[u],
   cycle |-> u8Cycle[u], module |-> u32ModuleId[u]]

PendingTimers == [i \in {Name(u) : u \in allocTimerList} |-> Entry(i[1])]

TS == INSTANCE TimerService
        WITH MaxTicks <- Ticks - 1, Modules <- Owners, mailbox <- expiries,
             timers <- PendingTimers

\* The hash table keeps the promise of TimerService: at every tick exactly
\* the timers that are due expire, across the laps of the table and the wrap
\* of the tick counter, and after a failed delivery.
ServiceSpec == TS!Spec
=============================================================================
