-------------------------- MODULE TimerWheelProofs --------------------------
(***************************************************************************)
(* Proofs about the timers, for any number of units, buckets, users and    *)
(* mailbox places, any tick modulus and any durations below it.            *)
(***************************************************************************)
EXTENDS TimerWheel, TLAPS

-----------------------------------------------------------------------------
(* Arithmetic of the tick counter                                          *)

\* Reduction of a number less than one turn outside the counter's range.
LEMMA OneTurn ==
  ASSUME NEW n \in Nat \ {0}, NEW a \in (-n)..(2*n - 1)
  PROVE  a % n = IF a < 0 THEN a + n ELSE IF a < n THEN a ELSE a - n
<1>1. CASE 0 <= a /\ a < n
  BY <1>1
<1>2. CASE a >= n
  <2>1. (a - n) % n = a - n /\ a % n = (a - n) % n
    BY <1>2
  <2> QED
    BY <2>1, <1>2
<1>3. CASE a < 0
  <2>1. (a + n) % n = a + n /\ a % n = (a + n) % n
    BY <1>3
  <2> QED
    BY <2>1, <1>3
<1> QED
  BY <1>1, <1>2, <1>3

TickValues == 0..Ticks-1

\* What is left of a timer that expires at tick e when the counter is at c.
Distance(e, c) == (e - c) % Ticks

\* Later(n) without the modulus.
LEMMA LaterTick ==
  ASSUME u32CurrentTick \in TickValues, NEW n \in TickValues
  PROVE  /\ Later(n) \in TickValues
         /\ Later(n) = IF u32CurrentTick + n < Ticks THEN u32CurrentTick + n
                       ELSE u32CurrentTick + n - Ticks
<1> DEFINE a == u32CurrentTick + n
<1>1. Ticks \in Nat \ {0} /\ a \in (-Ticks)..(2*Ticks - 1) /\ ~(a < 0)
  BY TimerAssumption DEF TickValues
<1> HIDE DEF a
<1>2. a % Ticks = IF a < 0 THEN a + Ticks ELSE IF a < Ticks THEN a ELSE a - Ticks
  BY <1>1, OneTurn
<1>3. Later(n) = a % Ticks
  BY DEF Later, a
<1> HIDE DEF Later
<1> QED
  BY <1>1, <1>2, <1>3 DEF a, TickValues

\* A timer that is set does not expire at once.
LEMMA LaterElsewhere ==
  ASSUME u32CurrentTick \in TickValues, NEW n \in 1..Ticks-1
  PROVE  Later(n) \in TickValues /\ Later(n) # u32CurrentTick
<1>1. n \in TickValues /\ Ticks \in Nat
  BY TimerAssumption DEF TickValues
<1>2. /\ Later(n) \in TickValues
      /\ Later(n) = IF u32CurrentTick + n < Ticks THEN u32CurrentTick + n
                    ELSE u32CurrentTick + n - Ticks
  BY <1>1, LaterTick
<1> QED
  BY <1>1, <1>2 DEF TickValues

\* Distance without the modulus.
LEMMA DistanceValue ==
  ASSUME NEW e \in TickValues, NEW c \in TickValues
  PROVE  Distance(e, c) = IF e >= c THEN e - c ELSE e - c + Ticks
<1> DEFINE a == e - c
<1>1. Ticks \in Nat \ {0} /\ a \in (-Ticks)..(2*Ticks - 1) /\ a < Ticks
  BY TimerAssumption DEF TickValues
<1> HIDE DEF a
<1>2. a % Ticks = IF a < 0 THEN a + Ticks ELSE a
  BY <1>1, OneTurn
<1>3. Distance(e, c) = a % Ticks
  BY DEF Distance, a
<1> HIDE DEF Distance
<1> QED
  BY <1>1, <1>2, <1>3 DEF a, TickValues

\* Every tick has a bucket.
LEMMA BucketExists == ASSUME NEW t \in TickValues PROVE Bucket(t) \in Buckets
  BY TimerAssumption DEF TickValues, Bucket, Buckets

-----------------------------------------------------------------------------
(* The invariant                                                           *)

\* No id names a timer yet to come.
IdsInUse ==
  /\ \A u \in Units : ulTimerId[u] <= u32TimerCountHistory
  /\ \A s \in Slots : slot[s] # NoTimer => slot[s][2] <= u32TimerCountHistory
  /\ \A s \in live : slot[s] # NoTimer

\* A running timer lasts less than one turn of the counter, and is to be
\* expired by the scan under way exactly if its tick is the present one.
DueIsNow ==
  /\ \A u \in allocTimerList : u32Duration[u] \in 1..Ticks-1
  /\ due = {u \in allocTimerList : u32AbsExpTick[u] = u32CurrentTick}

WheelInvariant == WheelTypeOK /\ ListsAgree /\ StaleIdsMiss /\ IdsInUse /\ DueIsNow

\* The constants behind the type invariant.
LEMMA Constants ==
  /\ Ticks \in Nat \ {0} /\ HashTableSize \in Nat \ {0}
  /\ \A s \in Slots : Owner[s] \in Owners
  /\ NoTimer \notin Ids /\ MaxHistory \in Nat
  BY TimerAssumption DEF Owners, Ids

LEMMA WheelInitInvariant == WheelInit => WheelInvariant
<1> SUFFICES ASSUME WheelInit PROVE WheelInvariant
  OBVIOUS
<1> USE Constants DEF WheelInit
<1>1. WheelTypeOK
  BY DEF WheelTypeOK
<1>2. ListsAgree
  BY DEF ListsAgree
<1>3. StaleIdsMiss
  BY DEF StaleIdsMiss
<1>4. IdsInUse
  BY DEF IdsInUse
<1>5. DueIsNow
  BY DEF DueIsNow
<1> QED
  BY <1>1, <1>2, <1>3, <1>4, <1>5 DEF WheelInvariant

\* A timer is set.
LEMMA SetKeeps ==
  ASSUME WheelInvariant, NEW s \in Slots, NEW d \in 1..Ticks-1, NEW c \in BOOLEAN,
         SetTimer(s, d, c)
  PROVE  WheelInvariant'
<1>1. PICK u \in freeTimerList :
        LET t == Later(d) IN
        /\ freeTimerList' = freeTimerList \ {u}
        /\ allocTimerList' = allocTimerList \cup {u}
        /\ u32AbsExpTick' = [u32AbsExpTick EXCEPT ![u] = t]
        /\ u32Duration' = [u32Duration EXCEPT ![u] = d]
        /\ u8Running' = [u8Running EXCEPT ![u] = TRUE]
        /\ u8Cycle' = [u8Cycle EXCEPT ![u] = c]
        /\ u32ModuleId' = [u32ModuleId EXCEPT ![u] = Owner[s]]
        /\ u32TimerCountHistory' = u32TimerCountHistory + 1
        /\ ulTimerId' = [ulTimerId EXCEPT ![u] = u32TimerCountHistory']
        /\ slot' = [slot EXCEPT ![s] = <<u, u32TimerCountHistory'>>]
        /\ hashTable' = Inserted(hashTable, u, t)
        /\ live' = live \cup {s}
  BY DEF SetTimer
<1>2. UNCHANGED <<u32CurrentTick, due, expiries>> /\ due = {}
      /\ u32TimerCountHistory < MaxHistory
  BY DEF SetTimer
<1>3. WheelTypeOK /\ ListsAgree /\ StaleIdsMiss /\ IdsInUse /\ DueIsNow
  BY DEF WheelInvariant
<1> DEFINE t == Later(d)
<1>4. t \in TickValues /\ t # u32CurrentTick
  BY <1>3, LaterElsewhere DEF WheelTypeOK, TickValues
<1> HIDE DEF t
<1>5. u \in Units /\ ~u8Running[u] /\ u \notin allocTimerList
  BY <1>1, <1>3 DEF ListsAgree, WheelTypeOK
<1>6. WheelTypeOK'
  <2>1. hashTable' \in [Buckets -> SUBSET Units]
    BY <1>1, <1>3, <1>5 DEF WheelTypeOK, Inserted, t
  <2>2. slot' \in [Slots -> Ids \cup {NoTimer}] /\ ulTimerId' \in [Units -> 0..MaxHistory]
        /\ u32TimerCountHistory' \in 0..MaxHistory
    BY <1>1, <1>2, <1>3, <1>5, Constants DEF WheelTypeOK, Ids
  <2>3. u32AbsExpTick' \in [Units -> 0..Ticks-1] /\ u32Duration' \in [Units -> 0..Ticks-1]
    BY <1>1, <1>3, <1>4, <1>5 DEF WheelTypeOK, t, TickValues
  <2> QED
    BY <1>1, <1>2, <1>3, <1>5, <2>1, <2>2, <2>3, Constants DEF WheelTypeOK
<1>7. ListsAgree'
  BY <1>1, <1>2, <1>3, <1>4, <1>5 DEF WheelTypeOK, ListsAgree, t, Inserted
<1>8. IdsInUse'
  <2>1. \A v \in Units : ulTimerId'[v] <= u32TimerCountHistory'
    BY <1>1, <1>3, <1>5, Constants DEF WheelTypeOK, IdsInUse
  <2>2. ASSUME NEW r \in Slots, slot'[r] # NoTimer
        PROVE  slot'[r][2] <= u32TimerCountHistory'
    <3>1. CASE r = s
      BY <3>1, <1>1, <1>3, Constants DEF WheelTypeOK
    <3>2. CASE r # s
      BY <2>2, <3>2, <1>1, <1>3, Constants DEF WheelTypeOK, IdsInUse, Ids
    <3> QED
      BY <3>1, <3>2
  <2>3. \A r \in live' : slot'[r] # NoTimer
    BY <1>1, <1>2, <1>3, <1>5, Constants DEF WheelTypeOK, IdsInUse, Ids
  <2> QED
    BY <2>1, <2>2, <2>3 DEF IdsInUse
<1>9. StaleIdsMiss'
  <2> SUFFICES ASSUME NEW r \in Slots, slot'[r] # NoTimer
               PROVE  Matches(slot[r], Owner[r])' <=> r \in live'
    BY DEF StaleIdsMiss
  <2>1. CASE r = s
    BY <2>1, <1>1, <1>3, <1>5 DEF WheelTypeOK, Matches
  <2>2. CASE r # s
    <3>1. slot'[r] = slot[r] /\ slot[r] \in Ids /\ (r \in live' <=> r \in live)
      BY <2>2, <1>1, <1>3 DEF WheelTypeOK
    <3>2. Matches(slot[r], Owner[r]) <=> r \in live
      BY <3>1, <1>3 DEF StaleIdsMiss
    <3>3. CASE slot[r][1] = u
      BY <3>1, <3>2, <3>3, <1>1, <1>3, <1>5 DEF WheelTypeOK, Matches, IdsInUse, Ids
    <3>4. CASE slot[r][1] # u
      BY <3>1, <3>2, <3>4, <1>1, <1>3, <1>5 DEF WheelTypeOK, Matches, Ids
    <3> QED
      BY <3>3, <3>4
  <2> QED
    BY <2>1, <2>2
<1>10. DueIsNow'
  BY <1>1, <1>2, <1>3, <1>4, <1>5, Constants DEF WheelTypeOK, DueIsNow, t
<1> QED
  BY <1>6, <1>7, <1>8, <1>9, <1>10 DEF WheelInvariant

\* What Delete does to the lists, the ids and the promises, for the unit of a
\* stopped and of an expired timer alike.
LEMMA DeleteKeeps ==
  ASSUME WheelTypeOK, ListsAgree, StaleIdsMiss, IdsInUse, NEW u \in allocTimerList,
         Delete(u), hashTable' = Removed(u),
         UNCHANGED <<u32TimerCountHistory, u32AbsExpTick, u32Duration, u8Cycle,
                     u32ModuleId, ulTimerId, slot>>
  PROVE  /\ freeTimerList' \subseteq Units /\ allocTimerList' \subseteq Units
         /\ hashTable' \in [Buckets -> SUBSET Units]
         /\ u8Running' \in [Units -> BOOLEAN] /\ live' \subseteq Slots
         /\ ListsAgree' /\ StaleIdsMiss' /\ IdsInUse'
<1>1. u \in Units
  BY DEF WheelTypeOK
<1>2. /\ freeTimerList' \subseteq Units /\ allocTimerList' \subseteq Units
      /\ hashTable' \in [Buckets -> SUBSET Units]
      /\ u8Running' \in [Units -> BOOLEAN] /\ live' \subseteq Slots
  BY <1>1 DEF WheelTypeOK, Delete, Removed
<1>3. ListsAgree'
  BY <1>1 DEF WheelTypeOK, ListsAgree, Delete, Removed
<1>4. StaleIdsMiss'
  <2> SUFFICES ASSUME NEW s \in Slots, slot[s] # NoTimer
               PROVE  Matches(slot[s], Owner[s])' <=> s \in live'
    BY DEF StaleIdsMiss
  <2>1. slot[s] \in Ids /\ (Matches(slot[s], Owner[s]) <=> s \in live)
    BY DEF StaleIdsMiss, WheelTypeOK
  <2> QED
    BY <1>1, <2>1 DEF WheelTypeOK, Matches, Delete, Ids
<1>5. IdsInUse'
  BY DEF IdsInUse, Delete
<1> QED
  BY <1>2, <1>3, <1>4, <1>5

\* What Reinsert does, for a restarted, a cycle and a postponed timer alike.
LEMMA ReinsertKeeps ==
  ASSUME WheelTypeOK, ListsAgree, StaleIdsMiss, IdsInUse, NEW u \in allocTimerList,
         NEW t \in TickValues, Reinsert(u, t),
         UNCHANGED <<u32TimerCountHistory, u32Duration, u8Cycle, u32ModuleId,
                     ulTimerId, slot>>
  PROVE  /\ hashTable' \in [Buckets -> SUBSET Units]
         /\ u32AbsExpTick' \in [Units -> 0..Ticks-1]
         /\ ListsAgree' /\ StaleIdsMiss' /\ IdsInUse'
<1>1. u \in Units
  BY DEF WheelTypeOK
<1>2. hashTable' \in [Buckets -> SUBSET Units] /\ u32AbsExpTick' \in [Units -> 0..Ticks-1]
  BY <1>1 DEF WheelTypeOK, Reinsert, Removed, Inserted, TickValues
<1>3. ListsAgree'
  BY <1>1 DEF WheelTypeOK, ListsAgree, Reinsert, Removed, Inserted
<1>4. StaleIdsMiss' /\ IdsInUse'
  BY DEF StaleIdsMiss, IdsInUse, Reinsert, Matches
<1> QED
  BY <1>2, <1>3, <1>4

LEMMA StopKeeps ==
  ASSUME WheelInvariant, NEW s \in Slots, pf_timer_stop(s)
  PROVE  WheelInvariant'
<1> DEFINE u == slot[s][1]
<1>1. WheelTypeOK /\ ListsAgree /\ StaleIdsMiss /\ IdsInUse /\ DueIsNow
  BY DEF WheelInvariant
<1>2. /\ due = {} /\ slot[s] # NoTimer /\ Matches(slot[s], Owner[s])
      /\ hashTable' = Removed(u) /\ Delete(u)
      /\ UNCHANGED <<u32CurrentTick, u32TimerCountHistory, u32AbsExpTick, u32Duration,
                     u8Cycle, u32ModuleId, ulTimerId, due, slot, expiries>>
  BY DEF pf_timer_stop
<1>3. u \in allocTimerList
  BY <1>1, <1>2 DEF WheelTypeOK, ListsAgree, Matches, Ids
<1> HIDE DEF u
<1>4. /\ freeTimerList' \subseteq Units /\ allocTimerList' \subseteq Units
      /\ hashTable' \in [Buckets -> SUBSET Units]
      /\ u8Running' \in [Units -> BOOLEAN] /\ live' \subseteq Slots
      /\ ListsAgree' /\ StaleIdsMiss' /\ IdsInUse'
  BY <1>1, <1>2, <1>3, DeleteKeeps
<1>5. WheelTypeOK'
  BY <1>1, <1>2, <1>4 DEF WheelTypeOK
<1>6. DueIsNow'
  BY <1>1, <1>2 DEF DueIsNow, Delete
<1> QED
  BY <1>4, <1>5, <1>6 DEF WheelInvariant

LEMMA RestartKeeps ==
  ASSUME WheelInvariant, NEW s \in Slots, pf_timer_restart(s)
  PROVE  WheelInvariant'
<1> DEFINE u == slot[s][1]
           t == Later(u32Duration[u])
<1>1. WheelTypeOK /\ ListsAgree /\ StaleIdsMiss /\ IdsInUse /\ DueIsNow
  BY DEF WheelInvariant
<1>2. /\ due = {} /\ slot[s] # NoTimer /\ Matches(slot[s], Owner[s])
      /\ Reinsert(u, t)
      /\ UNCHANGED <<u32CurrentTick, u32TimerCountHistory, freeTimerList, allocTimerList,
                     u32Duration, u8Cycle, u8Running, u32ModuleId, ulTimerId, due, userVars>>
  BY DEF pf_timer_restart, Reinsert, userVars
<1>3. u \in allocTimerList
  BY <1>1, <1>2 DEF WheelTypeOK, ListsAgree, Matches, Ids
<1>4. t \in TickValues /\ t # u32CurrentTick
  BY <1>1, <1>3, LaterElsewhere DEF WheelTypeOK, DueIsNow, TickValues
<1> HIDE DEF u, t
<1>5. /\ hashTable' \in [Buckets -> SUBSET Units]
      /\ u32AbsExpTick' \in [Units -> 0..Ticks-1]
      /\ ListsAgree' /\ StaleIdsMiss' /\ IdsInUse'
  BY <1>1, <1>2, <1>3, <1>4, ReinsertKeeps DEF userVars
<1>6. WheelTypeOK'
  BY <1>1, <1>2, <1>5 DEF WheelTypeOK, userVars
<1>7. DueIsNow'
  BY <1>1, <1>2, <1>3, <1>4 DEF WheelTypeOK, DueIsNow, Reinsert
<1> QED
  BY <1>5, <1>6, <1>7 DEF WheelInvariant

LEMMA TakeKeeps ==
  ASSUME WheelInvariant, NEW m \in Owners, TakeExpiry(m)
  PROVE  WheelInvariant'
<1>1. WheelTypeOK'
  BY DEF WheelInvariant, WheelTypeOK, TakeExpiry, listVars, unitVars
<1>2. ListsAgree' /\ StaleIdsMiss' /\ IdsInUse' /\ DueIsNow'
  BY DEF WheelInvariant, ListsAgree, StaleIdsMiss, IdsInUse, DueIsNow, TakeExpiry,
         listVars, unitVars, Matches
<1> QED
  BY <1>1, <1>2 DEF WheelInvariant

\* Each unit the scan finds is in the bucket of the new tick, and no unit of
\* that tick is elsewhere.
LEMMA TickKeeps ==
  ASSUME WheelInvariant, tm_tick
  PROVE  WheelInvariant'
<1>1. WheelTypeOK /\ ListsAgree /\ StaleIdsMiss /\ IdsInUse /\ DueIsNow
  BY DEF WheelInvariant
<1>2. UNCHANGED <<u32TimerCountHistory, listVars, unitVars, userVars>>
  BY DEF tm_tick
<1>3. u32CurrentTick' \in TickValues
  <2>1. Later(1) = (u32CurrentTick + 1) % Ticks /\ u32CurrentTick \in Int
    BY <1>1, Constants DEF Later, WheelTypeOK
  <2> QED
    BY <2>1, Constants DEF tm_tick, TickValues
<1>4. due' = {u \in allocTimerList : u32AbsExpTick[u] = u32CurrentTick'}
  <2>1. Bucket(u32CurrentTick') \in Buckets
    BY <1>3, BucketExists
  <2> QED
    BY <1>1, <2>1 DEF tm_tick, ExpireAt, ListsAgree
<1>5. WheelTypeOK'
  BY <1>1, <1>2, <1>3, <1>4 DEF WheelTypeOK, TickValues, listVars, unitVars, userVars
<1>6. ListsAgree' /\ StaleIdsMiss' /\ IdsInUse'
  BY <1>1, <1>2 DEF ListsAgree, StaleIdsMiss, IdsInUse, Matches, listVars, unitVars, userVars
<1>7. DueIsNow'
  BY <1>1, <1>2, <1>4 DEF DueIsNow, listVars, unitVars
<1> QED
  BY <1>5, <1>6, <1>7 DEF WheelInvariant

\* An expired unit leaves the scan: it is set anew or no longer allocated.
LEMMA ExpireKeeps ==
  ASSUME WheelInvariant, NEW u \in Units, tm_expire_timer(u)
  PROVE  WheelInvariant'
<1>1. WheelTypeOK /\ ListsAgree /\ StaleIdsMiss /\ IdsInUse /\ DueIsNow
  BY DEF WheelInvariant
<1>2. /\ u \in due /\ due' = due \ {u}
      /\ UNCHANGED <<u32CurrentTick, u32TimerCountHistory, u32Duration, u8Cycle,
                     u32ModuleId, ulTimerId, slot>>
  BY DEF tm_expire_timer
<1>3. u \in allocTimerList /\ u32Duration[u] \in 1..Ticks-1
  BY <1>1, <1>2 DEF DueIsNow
<1>4. expiries' \in [Owners -> Seq(Ids)]
  <2>1. <<u, ulTimerId[u]>> \in Ids
    BY <1>1 DEF WheelTypeOK, Ids
  <2>2. CASE ExpireSent(u)
    <3> DEFINE m == u32ModuleId[u]
               i == <<u, ulTimerId[u]>>
    <3>1. expiries' = [expiries EXCEPT ![m] = Append(@, i)]
      BY <2>2 DEF ExpireSent
    <3>2. expiries \in [Owners -> Seq(Ids)] /\ i \in Ids
      BY <1>1, <2>1 DEF WheelTypeOK
    <3> HIDE DEF m, i
    <3>3. CASE m \in Owners
      <4>1. Append(expiries[m], i) \in Seq(Ids)
        BY <3>2, <3>3
      <4> QED
        BY <3>1, <3>2, <4>1
    <3>4. CASE m \notin Owners
      BY <3>1, <3>2, <3>4
    <3> QED
      BY <3>3, <3>4
  <2>3. CASE ExpireRetry(u)
    BY <1>1, <2>3 DEF ExpireRetry, WheelTypeOK
  <2> QED
    BY <2>2, <2>3 DEF tm_expire_timer
<1>5. ASSUME NEW t \in TickValues, t # u32CurrentTick, Reinsert(u, t) PROVE WheelInvariant'
  <2>1. /\ hashTable' \in [Buckets -> SUBSET Units]
        /\ u32AbsExpTick' \in [Units -> 0..Ticks-1]
        /\ ListsAgree' /\ StaleIdsMiss' /\ IdsInUse'
    BY <1>1, <1>2, <1>3, <1>5, ReinsertKeeps
  <2>2. WheelTypeOK'
    BY <1>1, <1>2, <1>4, <1>5, <2>1 DEF WheelTypeOK, Reinsert
  <2>3. DueIsNow'
    BY <1>1, <1>2, <1>3, <1>5 DEF WheelTypeOK, DueIsNow, Reinsert
  <2> QED
    BY <2>1, <2>2, <2>3 DEF WheelInvariant
<1>6. Later(u32Duration[u]) \in TickValues /\ Later(u32Duration[u]) # u32CurrentTick
  BY <1>1, <1>3, LaterElsewhere DEF WheelTypeOK, TickValues
<1>7. Later(1) \in TickValues /\ Later(1) # u32CurrentTick
  <2>1. 1 \in 1..Ticks-1
    BY <1>3, Constants
  <2> QED
    BY <1>1, <2>1, LaterElsewhere DEF WheelTypeOK, TickValues
<1>8. CASE ExpireSent(u)
  <2>1. CASE Reinsert(u, Later(u32Duration[u]))
    BY <1>5, <1>6, <2>1
  <2>2. CASE hashTable' = Removed(u) /\ Delete(u) /\ UNCHANGED u32AbsExpTick
    <3>1. /\ freeTimerList' \subseteq Units /\ allocTimerList' \subseteq Units
          /\ hashTable' \in [Buckets -> SUBSET Units]
          /\ u8Running' \in [Units -> BOOLEAN] /\ live' \subseteq Slots
          /\ ListsAgree' /\ StaleIdsMiss' /\ IdsInUse'
      BY <1>1, <1>2, <1>3, <2>2, DeleteKeeps
    <3>2. WheelTypeOK'
      BY <1>1, <1>2, <1>4, <2>2, <3>1 DEF WheelTypeOK
    <3>3. DueIsNow'
      BY <1>1, <1>2, <2>2 DEF DueIsNow, Delete
    <3> QED
      BY <3>1, <3>2, <3>3 DEF WheelInvariant
  <2> QED
    BY <1>8, <2>1, <2>2 DEF ExpireSent
<1>9. CASE ExpireRetry(u)
  BY <1>5, <1>7, <1>9 DEF ExpireRetry
<1> QED
  BY <1>8, <1>9 DEF tm_expire_timer

LEMMA WheelStepInvariant == WheelInvariant /\ [WheelNext]_wheelVars => WheelInvariant'
<1> SUFFICES ASSUME WheelInvariant, [WheelNext]_wheelVars PROVE WheelInvariant'
  OBVIOUS
<1>1. ASSUME NEW s \in Slots, NEW d \in Durations, pf_timer_start(s, d)
      PROVE  WheelInvariant'
  <2>1. d + 1 \in 1..Ticks-1
    BY TimerAssumption
  <2> QED
    BY <1>1, <2>1, SetKeeps DEF pf_timer_start
<1>2. ASSUME NEW s \in Slots, NEW d \in Durations, pf_timer_cycle_start(s, d)
      PROVE  WheelInvariant'
  <2>1. d \in 1..Ticks-1
    BY <1>2, TimerAssumption DEF pf_timer_cycle_start
  <2> QED
    BY <1>2, <2>1, SetKeeps DEF pf_timer_cycle_start
<1>3. ASSUME NEW s \in Slots, pf_timer_stop(s) PROVE WheelInvariant'
  BY <1>3, StopKeeps
<1>4. ASSUME NEW s \in Slots, pf_timer_restart(s) PROVE WheelInvariant'
  BY <1>4, RestartKeeps
<1>5. ASSUME NEW m \in Owners, TakeExpiry(m) PROVE WheelInvariant'
  BY <1>5, TakeKeeps
<1>6. ASSUME tm_tick PROVE WheelInvariant'
  BY <1>6, TickKeeps
<1>7. ASSUME NEW u \in Units, tm_expire_timer(u) PROVE WheelInvariant'
  BY <1>7, ExpireKeeps
<1>8. ASSUME UNCHANGED wheelVars PROVE WheelInvariant'
  <2>1. WheelTypeOK'
    BY <1>8 DEF WheelInvariant, WheelTypeOK, wheelVars, listVars, unitVars, userVars
  <2>2. ListsAgree' /\ StaleIdsMiss' /\ IdsInUse' /\ DueIsNow'
    BY <1>8 DEF WheelInvariant, ListsAgree, StaleIdsMiss, IdsInUse, DueIsNow, Matches,
                wheelVars, listVars, unitVars, userVars
  <2> QED
    BY <2>1, <2>2 DEF WheelInvariant
<1> QED
  BY <1>1, <1>2, <1>3, <1>4, <1>5, <1>6, <1>7, <1>8 DEF WheelNext, User

\* The invariant of every behaviour of the timers.
THEOREM TimersInvariant == WheelSpec => []WheelInvariant
  BY WheelInitInvariant, WheelStepInvariant, PTL DEF WheelSpec

\* tm_alloc_timer to tm_tick keep every field in its range.
THEOREM WheelTypeCorrect == WheelSpec => []WheelTypeOK
<1>1. WheelInvariant => WheelTypeOK
  BY DEF WheelInvariant
<1> QED
  BY <1>1, TimersInvariant, PTL

\* The free list, the allocated list and the hash table never disagree: no unit
\* is lost, and none is linked into a bucket the scan of its tick does not see.
THEOREM NoUnitLost == WheelSpec => []ListsAgree
<1>1. WheelInvariant => ListsAgree
  BY DEF WheelInvariant
<1> QED
  BY <1>1, TimersInvariant, PTL

\* pf_timer_stop and pf_timer_restart reach the caller's own timer as long as it
\* is pending and nobody's afterwards, however often its unit was used again.
THEOREM OldIdsAreHarmless == WheelSpec => []StaleIdsMiss
<1>1. WheelInvariant => StaleIdsMiss
  BY DEF WheelInvariant
<1> QED
  BY <1>1, TimersInvariant, PTL

-----------------------------------------------------------------------------
(* TimerWheel implements TimerService                                      *)

\* What the abstract service sees of a pending timer.
LEMMA Seen ==
  /\ DOMAIN PendingTimers = {Name(u) : u \in allocTimerList}
  /\ \A u \in allocTimerList : Name(u) \in DOMAIN PendingTimers
                               /\ PendingTimers[Name(u)] = Entry(u)
  BY DEF PendingTimers, Name

\* A timer has ticks left exactly if the scan is through with its tick.
LEMMA LeftOfTimer ==
  ASSUME WheelInvariant, NEW u \in allocTimerList
  PROVE  /\ Entry(u).left \in 0..Ticks-1
         /\ Entry(u).left = 0 <=> u \in due
         /\ Entry(u).left = Distance(u32AbsExpTick[u], u32CurrentTick)
<1>1. u32AbsExpTick[u] \in TickValues /\ u32CurrentTick \in TickValues /\ Ticks \in Nat
  BY Constants DEF WheelInvariant, WheelTypeOK, TickValues
<1>2. Entry(u).left = Distance(u32AbsExpTick[u], u32CurrentTick)
  BY DEF Entry, Distance
<1>3. Distance(u32AbsExpTick[u], u32CurrentTick) =
        IF u32AbsExpTick[u] >= u32CurrentTick THEN u32AbsExpTick[u] - u32CurrentTick
        ELSE u32AbsExpTick[u] - u32CurrentTick + Ticks
  BY <1>1, DistanceValue
<1>4. u \in due <=> u32AbsExpTick[u] = u32CurrentTick
  BY DEF WheelInvariant, DueIsNow
<1> QED
  BY <1>1, <1>2, <1>3, <1>4 DEF TickValues

\* The abstract service has something due exactly while a scan is under way.
LEMMA DueSeen ==
  ASSUME WheelInvariant
  PROVE  /\ due = {} => TS!Due = {}
         /\ \A u \in due : Name(u) \in TS!Due
<1>1. due = {} => TS!Due = {}
  BY Seen, LeftOfTimer DEF TS!Due, TS!Pending
<1>2. \A u \in due : u \in allocTimerList
  BY DEF WheelInvariant, DueIsNow
<1>3. \A u \in due : Name(u) \in TS!Due
  BY Seen, LeftOfTimer, <1>2 DEF TS!Due, TS!Pending
<1> QED
  BY <1>1, <1>3

\* A duration is what is left of a timer when it is set.
LEMMA LaterIsLeft ==
  ASSUME u32CurrentTick \in TickValues, NEW n \in 1..Ticks-1
  PROVE  (Later(n) - u32CurrentTick) % Ticks = n
<1>1. n \in TickValues /\ Ticks \in Nat
  BY TimerAssumption DEF TickValues
<1>2. /\ Later(n) \in TickValues
      /\ Later(n) = IF u32CurrentTick + n < Ticks THEN u32CurrentTick + n
                    ELSE u32CurrentTick + n - Ticks
  BY <1>1, LaterTick
<1>3. Distance(Later(n), u32CurrentTick) =
        IF Later(n) >= u32CurrentTick THEN Later(n) - u32CurrentTick
        ELSE Later(n) - u32CurrentTick + Ticks
  BY <1>2, DistanceValue
<1>4. Distance(Later(n), u32CurrentTick) = n
  BY <1>1, <1>2, <1>3 DEF TickValues
<1> QED
  BY <1>4 DEF Distance

LEMMA SetImplements ==
  ASSUME WheelInvariant, NEW s \in Slots, NEW d \in 1..Ticks-1, NEW c \in BOOLEAN,
         SetTimer(s, d, c)
  PROVE  \E i \in Ids : TS!Start(i, Owner[s], d, c)
<1>1. PICK u \in freeTimerList :
        /\ allocTimerList' = allocTimerList \cup {u}
        /\ u32AbsExpTick' = [u32AbsExpTick EXCEPT ![u] = Later(d)]
        /\ u32Duration' = [u32Duration EXCEPT ![u] = d]
        /\ u8Cycle' = [u8Cycle EXCEPT ![u] = c]
        /\ u32ModuleId' = [u32ModuleId EXCEPT ![u] = Owner[s]]
        /\ u32TimerCountHistory' = u32TimerCountHistory + 1
        /\ ulTimerId' = [ulTimerId EXCEPT ![u] = u32TimerCountHistory']
  BY DEF SetTimer
<1>2. UNCHANGED <<u32CurrentTick, expiries>> /\ due = {}
      /\ u32TimerCountHistory < MaxHistory
  BY DEF SetTimer
<1>3. WheelTypeOK /\ ListsAgree
  BY DEF WheelInvariant
<1>4. u \in Units /\ u \notin allocTimerList /\ allocTimerList \subseteq Units
  BY <1>1, <1>3 DEF ListsAgree, WheelTypeOK
<1> DEFINE i == <<u, u32TimerCountHistory'>>
           new == [left |-> d, duration |-> d, cycle |-> c, module |-> Owner[s]]
<1>5. i \in Ids
  BY <1>1, <1>2, <1>3, <1>4, Constants DEF WheelTypeOK, Ids
<1>6. Name(u)' = i /\ \A v \in allocTimerList : Name(v)' = Name(v)
  BY <1>1, <1>3, <1>4 DEF WheelTypeOK, Name
<1>7. Entry(u)' = new
  <2>1. (Later(d) - u32CurrentTick) % Ticks = d
    BY <1>3, LaterIsLeft DEF WheelTypeOK, TickValues
  <2> QED
    BY <2>1, <1>1, <1>2, <1>3, <1>4 DEF WheelTypeOK, Entry
<1>8. \A v \in allocTimerList : Entry(v)' = Entry(v)
  BY <1>1, <1>2, <1>3, <1>4 DEF WheelTypeOK, Entry
<1>9. i \notin DOMAIN PendingTimers
  BY <1>4, Seen DEF Name
<1>10. PendingTimers' = [j \in DOMAIN PendingTimers \cup {i} |->
                           IF j = i THEN new ELSE PendingTimers[j]]
  <2>1. DOMAIN PendingTimers' = DOMAIN PendingTimers \cup {i}
    BY <1>1, <1>6, Seen DEF PendingTimers
  <2>2. PendingTimers'[i] = new
    BY <1>1, <1>6, <1>7 DEF PendingTimers
  <2>3. ASSUME NEW v \in allocTimerList
        PROVE  PendingTimers'[Name(v)] = PendingTimers[Name(v)]
    <3>1. PendingTimers'[Name(v)'] = Entry(v)'
      BY <1>1 DEF PendingTimers, Name
    <3> QED
      BY <3>1, <1>6, <1>8, Seen
  <2>4. PendingTimers' = [j \in DOMAIN PendingTimers' |-> PendingTimers'[j]]
    BY DEF PendingTimers
  <2> HIDE DEF i, new
  <2> QED
    BY <2>1, <2>2, <2>3, <2>4, <1>9, Seen
<1>11. TS!Start(i, Owner[s], d, c)
  <2>1. TS!Due = {}
    BY <1>2, DueSeen
  <2> HIDE DEF i
  <2> QED
    BY <2>1, <1>2, <1>9, <1>10 DEF TS!Start, TS!Pending
<1> QED
  BY <1>5, <1>11

\* A unit that is deleted takes its timer out of the service's.
LEMMA DeleteSeen ==
  ASSUME WheelInvariant, NEW u \in allocTimerList, Delete(u),
         UNCHANGED <<u32CurrentTick, u32AbsExpTick, u32Duration, u8Cycle, u32ModuleId, ulTimerId>>
  PROVE  PendingTimers' = TS!Without(Name(u))
<1>1. /\ allocTimerList' = allocTimerList \ {u}
      /\ \A v : Name(v)' = Name(v) /\ Entry(v)' = Entry(v)
  BY DEF Delete, Name, Entry
<1>2. PendingTimers' = [i \in {Name(v) : v \in allocTimerList \ {u}} |-> Entry(i[1])]
  BY <1>1 DEF PendingTimers
<1>3. {Name(v) : v \in allocTimerList \ {u}} = DOMAIN PendingTimers \ {Name(u)}
  BY Seen DEF Name
<1>4. \A i \in DOMAIN PendingTimers : PendingTimers[i] = Entry(i[1])
  BY DEF PendingTimers
<1> QED
  BY <1>2, <1>3, <1>4 DEF TS!Without, TS!Pending

\* A unit that is set anew has the ticks of that setting left.
LEMMA ReinsertSeen ==
  ASSUME WheelInvariant, NEW u \in allocTimerList, NEW n \in 1..Ticks-1,
         Reinsert(u, Later(n)),
         UNCHANGED <<u32CurrentTick, u32Duration, u8Cycle, u32ModuleId, ulTimerId>>
  PROVE  PendingTimers' = TS!WithLeft(Name(u), n)
<1>1. u \in Units /\ u32AbsExpTick \in [Units -> 0..Ticks-1] /\ u32CurrentTick \in TickValues
  BY DEF WheelInvariant, WheelTypeOK, TickValues
<1>2. /\ allocTimerList' = allocTimerList
      /\ u32AbsExpTick' = [u32AbsExpTick EXCEPT ![u] = Later(n)]
  BY DEF Reinsert
<1>3. \A v : Name(v)' = Name(v)
  BY DEF Name
<1>4. Entry(u)' = [Entry(u) EXCEPT !.left = n]
  <2>1. (Later(n) - u32CurrentTick) % Ticks = n
    BY <1>1, LaterIsLeft
  <2> QED
    BY <2>1, <1>1, <1>2 DEF Entry
<1>5. \A v \in allocTimerList : v # u => Entry(v)' = Entry(v)
  BY <1>1, <1>2 DEF Entry, WheelInvariant, WheelTypeOK
<1>6. /\ DOMAIN PendingTimers' = DOMAIN PendingTimers
      /\ PendingTimers' = [i \in DOMAIN PendingTimers' |-> PendingTimers'[i]]
  BY <1>2, <1>3 DEF PendingTimers
<1>7. ASSUME NEW v \in allocTimerList
      PROVE  PendingTimers'[Name(v)] = [PendingTimers EXCEPT ![Name(u)].left = n][Name(v)]
  <2>1. PendingTimers'[Name(v)'] = Entry(v)'
    BY <1>2 DEF PendingTimers, Name
  <2>2. CASE v = u
    BY <2>1, <2>2, <1>3, <1>4, Seen
  <2>3. CASE v # u
    <3>1. Name(v) # Name(u)
      BY <2>3 DEF Name
    <3> QED
      BY <3>1, <2>1, <2>3, <1>3, <1>5, Seen
  <2> QED
    BY <2>2, <2>3
<1>8. DOMAIN [PendingTimers EXCEPT ![Name(u)].left = n] = DOMAIN PendingTimers
  OBVIOUS
<1> QED
  BY <1>6, <1>7, <1>8, Seen DEF TS!WithLeft

\* A tick takes one from what is left of every timer: none of them was due,
\* and the counter's wrap does not show in the distances.
LEMMA TickSeen ==
  ASSUME WheelInvariant, tm_tick
  PROVE  TS!Tick
<1>1. due = {} /\ u32CurrentTick' = Later(1)
      /\ UNCHANGED <<listVars, unitVars, userVars>>
  BY DEF tm_tick
<1>2. u32CurrentTick \in TickValues /\ Ticks \in Nat \ {0}
      /\ u32AbsExpTick \in [Units -> TickValues] /\ allocTimerList \subseteq Units
  BY Constants DEF WheelInvariant, WheelTypeOK, TickValues
<1>3. ASSUME NEW u \in allocTimerList
      PROVE  Entry(u)' = [Entry(u) EXCEPT !.left = @ - 1]
  <2> DEFINE e == u32AbsExpTick[u]
             now == u32CurrentTick
             next == u32CurrentTick'
  <2>1. e \in TickValues /\ now \in TickValues /\ e # now
    BY <1>1, <1>2, <1>3 DEF WheelInvariant, DueIsNow
  <2>2. 1 \in TickValues
    BY <1>2, <2>1 DEF TickValues
  <2>3. next \in TickValues /\ next = IF now + 1 < Ticks THEN now + 1 ELSE now + 1 - Ticks
    BY <1>1, <1>2, <2>2, LaterTick
  <2>4. u32AbsExpTick'[u] = e /\ Entry(u).left = Distance(e, now)
        /\ Entry(u)' = [Entry(u) EXCEPT !.left = Distance(e, next)]
    BY <1>1 DEF Entry, Distance, unitVars
  <2> HIDE DEF e, now, next
  <2>5. /\ Distance(e, now) = IF e >= now THEN e - now ELSE e - now + Ticks
        /\ Distance(e, next) = IF e >= next THEN e - next ELSE e - next + Ticks
    BY <2>1, <2>3, DistanceValue
  <2>6. Distance(e, next) = Distance(e, now) - 1
    BY <1>2, <2>1, <2>3, <2>5 DEF TickValues
  <2>7. Entry(u)' = [Entry(u) EXCEPT !.left = Entry(u).left - 1]
    BY <2>4, <2>6
  <2> QED
    BY <2>7
<1>4. allocTimerList' = allocTimerList /\ \A u : Name(u)' = Name(u)
  BY <1>1 DEF Name, listVars, unitVars
<1>5. /\ DOMAIN PendingTimers' = DOMAIN PendingTimers
      /\ PendingTimers' = [i \in DOMAIN PendingTimers' |-> PendingTimers'[i]]
  BY <1>4 DEF PendingTimers
<1>6. ASSUME NEW u \in allocTimerList
      PROVE  PendingTimers'[Name(u)] = [PendingTimers[Name(u)] EXCEPT !.left = @ - 1]
  <2>1. PendingTimers'[Name(u)'] = Entry(u)'
    BY <1>4 DEF PendingTimers, Name
  <2> QED
    BY <2>1, <1>3, <1>4, Seen
<1>7. PendingTimers' = [i \in DOMAIN PendingTimers |->
                          [PendingTimers[i] EXCEPT !.left = @ - 1]]
  <2>1. \A i \in DOMAIN PendingTimers :
          PendingTimers'[i] = [PendingTimers[i] EXCEPT !.left = @ - 1]
    BY <1>6, Seen
  <2> QED
    BY <1>5, <2>1, Zenon
<1>8. TS!Due = {} /\ UNCHANGED expiries
  BY <1>1, DueSeen DEF userVars
<1> QED
  BY <1>7, <1>8 DEF TS!Tick, TS!Pending

\* An expiry is a delivery if the mailbox had room, and a delay if not.
LEMMA ExpireImplements ==
  ASSUME WheelInvariant, NEW u \in Units, tm_expire_timer(u)
  PROVE  \E i \in TS!Pending : TS!Deliver(i) \/ TS!Postpone(i)
<1> DEFINE i == Name(u)
           m == u32ModuleId[u]
           d == u32Duration[u]
<1>1. u \in due /\ UNCHANGED <<u32CurrentTick, u32Duration, u8Cycle, u32ModuleId, ulTimerId>>
  BY DEF tm_expire_timer
<1>2. u \in allocTimerList /\ d \in 1..Ticks-1 /\ 1 \in 1..Ticks-1
  BY <1>1, Constants DEF WheelInvariant, DueIsNow
<1>3. i \in TS!Due /\ i \in TS!Pending
  BY <1>1, <1>2, DueSeen, Seen DEF TS!Pending
<1>4. PendingTimers[i].module = m /\ PendingTimers[i].duration = d
      /\ PendingTimers[i].cycle = u8Cycle[u] /\ u8Cycle[u] \in BOOLEAN
  <2>1. PendingTimers[i] = Entry(u)
    BY <1>2, Seen
  <2>2. u8Cycle[u] \in BOOLEAN
    BY DEF WheelInvariant, WheelTypeOK
  <2> HIDE DEF i
  <2> QED
    BY <2>1, <2>2 DEF Entry
<1>5. CASE ExpireSent(u)
  <2>1. Len(expiries[m]) < Room /\ expiries' = [expiries EXCEPT ![m] = Append(@, i)]
    BY <1>5 DEF ExpireSent, Name
  <2>2. CASE u8Cycle[u] /\ Reinsert(u, Later(d))
    <3>1. PendingTimers' = TS!WithLeft(i, d)
      BY <1>1, <1>2, <2>2, ReinsertSeen
    <3> HIDE DEF i, m, d
    <3> QED
      BY <1>3, <1>4, <2>1, <2>2, <3>1 DEF TS!Deliver
  <2>3. CASE ~u8Cycle[u] /\ Delete(u) /\ UNCHANGED u32AbsExpTick
    <3>1. PendingTimers' = TS!Without(i)
      BY <1>1, <1>2, <2>3, DeleteSeen
    <3> HIDE DEF i, m, d
    <3> QED
      BY <1>3, <1>4, <2>1, <2>3, <3>1 DEF TS!Deliver
  <2> QED
    BY <1>5, <2>2, <2>3 DEF ExpireSent
<1>6. CASE ExpireRetry(u)
  <2>1. Len(expiries[m]) = Room /\ UNCHANGED expiries
    BY <1>6 DEF ExpireRetry
  <2>2. PendingTimers' = TS!WithLeft(i, 1)
    BY <1>1, <1>2, <1>6, ReinsertSeen DEF ExpireRetry
  <2> HIDE DEF i, m, d
  <2> QED
    BY <1>3, <1>4, <2>1, <2>2 DEF TS!Postpone
<1> QED
  BY <1>5, <1>6 DEF tm_expire_timer

LEMMA StopImplements ==
  ASSUME WheelInvariant, NEW s \in Slots, pf_timer_stop(s)
  PROVE  \E i \in TS!Pending : TS!Stop(i)
<1> DEFINE u == slot[s][1]
<1>1. /\ due = {} /\ Delete(u)
      /\ UNCHANGED <<u32CurrentTick, u32AbsExpTick, u32Duration, u8Cycle,
                     u32ModuleId, ulTimerId, expiries>>
  BY DEF pf_timer_stop
<1>2. u \in allocTimerList
  BY DEF pf_timer_stop, WheelInvariant, WheelTypeOK, ListsAgree, Matches, Ids
<1> HIDE DEF u
<1>3. PendingTimers' = TS!Without(Name(u))
  BY <1>1, <1>2, DeleteSeen
<1>4. TS!Due = {} /\ Name(u) \in TS!Pending
  BY <1>1, <1>2, DueSeen, Seen DEF TS!Pending
<1> QED
  BY <1>1, <1>3, <1>4 DEF TS!Stop

LEMMA RestartImplements ==
  ASSUME WheelInvariant, NEW s \in Slots, pf_timer_restart(s)
  PROVE  \E i \in TS!Pending : TS!Restart(i)
<1> DEFINE u == slot[s][1]
           d == u32Duration[u]
<1>1. /\ due = {} /\ Reinsert(u, Later(d))
      /\ UNCHANGED <<u32CurrentTick, u32Duration, u8Cycle, u32ModuleId, ulTimerId, expiries>>
  BY DEF pf_timer_restart, Reinsert, userVars
<1>2. u \in allocTimerList
  BY DEF pf_timer_restart, WheelInvariant, WheelTypeOK, ListsAgree, Matches, Ids
<1>3. d \in 1..Ticks-1 /\ PendingTimers[Name(u)].duration = d
  <2>1. d \in 1..Ticks-1
    BY <1>2 DEF WheelInvariant, DueIsNow
  <2>2. PendingTimers[Name(u)] = Entry(u)
    BY <1>2, Seen
  <2>3. Entry(u).duration = d
    BY DEF Entry
  <2> QED
    BY <2>1, <2>2, <2>3
<1> HIDE DEF u, d
<1>4. PendingTimers' = TS!WithLeft(Name(u), d)
  <2>1. UNCHANGED <<u32CurrentTick, u32Duration, u8Cycle, u32ModuleId, ulTimerId>>
    BY <1>1
  <2> QED
    BY <1>1, <1>2, <1>3, <2>1, ReinsertSeen
<1>5. TS!Due = {} /\ Name(u) \in TS!Pending
  BY <1>1, <1>2, DueSeen, Seen DEF TS!Pending
<1> QED
  BY <1>1, <1>3, <1>4, <1>5 DEF TS!Restart

LEMMA InitImplements == WheelInit => TS!Init
<1> SUFFICES ASSUME WheelInit PROVE TS!Init
  OBVIOUS
<1>1. PendingTimers = << >>
  BY DEF PendingTimers, WheelInit
<1> QED
  BY <1>1 DEF WheelInit, TS!Init

LEMMA WheelStepImplements ==
  WheelInvariant /\ [WheelNext]_wheelVars => [TS!Next]_(TS!vars)
<1> SUFFICES ASSUME WheelInvariant, [WheelNext]_wheelVars PROVE [TS!Next]_(TS!vars)
  OBVIOUS
<1>1. ASSUME NEW s \in Slots, NEW d \in Durations, pf_timer_start(s, d) PROVE TS!Next
  <2>1. d + 1 \in 1..Ticks-1
    BY TimerAssumption
  <2>2. \E i \in Ids : TS!Start(i, Owner[s], d + 1, FALSE)
    BY <1>1, <2>1, SetImplements DEF pf_timer_start
  <2> QED
    BY <2>1, <2>2, Constants DEF TS!Next
<1>2. ASSUME NEW s \in Slots, NEW d \in Durations, pf_timer_cycle_start(s, d) PROVE TS!Next
  <2>1. d \in 1..Ticks-1
    BY <1>2, TimerAssumption DEF pf_timer_cycle_start
  <2>2. \E i \in Ids : TS!Start(i, Owner[s], d, TRUE)
    BY <1>2, <2>1, SetImplements DEF pf_timer_cycle_start
  <2> QED
    BY <2>1, <2>2, Constants DEF TS!Next
<1>3. ASSUME NEW s \in Slots, pf_timer_stop(s) PROVE TS!Next
  BY <1>3, StopImplements DEF TS!Next
<1>4. ASSUME NEW s \in Slots, pf_timer_restart(s) PROVE TS!Next
  BY <1>4, RestartImplements DEF TS!Next
<1>5. ASSUME NEW m \in Owners, TakeExpiry(m) PROVE TS!Next
  <2>1. UNCHANGED PendingTimers
    BY <1>5 DEF TakeExpiry, PendingTimers, Name, Entry, listVars, unitVars
  <2> QED
    BY <1>5, <2>1 DEF TakeExpiry, TS!Take, TS!Next
<1>6. ASSUME tm_tick PROVE TS!Next
  BY <1>6, TickSeen DEF TS!Next
<1>7. ASSUME NEW u \in Units, tm_expire_timer(u) PROVE TS!Next
  BY <1>7, ExpireImplements DEF TS!Next
<1>8. ASSUME UNCHANGED wheelVars PROVE UNCHANGED TS!vars
  BY <1>8 DEF wheelVars, listVars, unitVars, userVars, TS!vars, PendingTimers, Name, Entry
<1> QED
  BY <1>1, <1>2, <1>3, <1>4, <1>5, <1>6, <1>7, <1>8 DEF WheelNext, User

\* The hash table implements the timer service: pf_timer_start and its likes,
\* tm_tick and tm_expire_timer let every timer expire at its tick, for tables
\* and counters of any size.
THEOREM WheelImplementsService == WheelSpec => ServiceSpec
<1>1. WheelInvariant /\ [WheelNext]_wheelVars => [TS!Next]_(TS!vars)
  BY WheelStepImplements
<1> QED
  BY <1>1, InitImplements, TimersInvariant, PTL DEF WheelSpec, ServiceSpec, TS!Spec
=============================================================================
