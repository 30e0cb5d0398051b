---------------------------- MODULE MemPoolProofs ----------------------------
(***************************************************************************)
(* Proofs about the memory pools, for every set of threads and every       *)
(* number, size and count of blocks that has the layout of the code.       *)
(***************************************************************************)
EXTENDS MemPool, FiniteSetTheorems, TLAPS

\* What the assumptions say of one pool.
LEMMA PoolFacts ==
  ASSUME NEW p \in Pools
  PROVE  /\ aulBlockNum[p] \in Nat \ {0}
         /\ Slots(p) = 0 .. aulBlockNum[p] /\ Indices(p) = 0 .. aulBlockNum[p] - 1
         /\ Indices(p) \subseteq Nat /\ Slots(p) \subseteq Nat
BY PoolAssumption DEF Slots, Indices

\* The slot after the last one is the first one.
LEMMA SuccSlot ==
  ASSUME NEW p \in Pools, NEW i \in Slots(p)
  PROVE  /\ Succ(p, i) = IF i = aulBlockNum[p] THEN 0 ELSE i + 1
         /\ Succ(p, i) \in Slots(p)
<1> DEFINE n == aulBlockNum[p] + 1
<1>1. n \in Nat \ {0, 1} /\ i \in 0 .. n - 1
  BY PoolFacts
<1>2. Succ(p, i) = (i + 1) % n
  BY DEF Succ
<1>3. n - 1 = aulBlockNum[p]
  BY PoolFacts
<1> HIDE DEF n
<1>4. CASE i = n - 1
  <2>1. i + 1 = n
    BY <1>1, <1>4
  <2>2. n % n = 0
    BY <1>1
  <2> QED
    BY <2>1, <2>2, <1>1, <1>2, <1>3, <1>4, PoolFacts
<1>5. CASE i < n - 1
  <2>1. (i + 1) % n = i + 1
    BY <1>1, <1>5
  <2> QED
    BY <2>1, <1>1, <1>2, <1>3, <1>5, PoolFacts
<1> QED
  BY <1>1, <1>4, <1>5

\* The address of a block gives back the pool and the index.
LEMMA AddressBack ==
  ASSUME NEW p \in Pools, NEW b \in Indices(p)
  PROVE  /\ Address(p, b) \in Addresses
         /\ PoolOf(Address(p, b)) = p
         /\ IndexOf(p, Address(p, b)) = b
BY LayoutAssumption DEF Addresses

-----------------------------------------------------------------------------
(* The slots of a ring that hold a free index.                             *)

RingEnds(p) == ulQueHead[p] \in Slots(p) /\ ulQueTail[p] \in Slots(p)

\* Taking the head out leaves the other slots.
LEMMA FilledTaken ==
  ASSUME NEW p \in Pools, RingEnds(p), ulQueHead[p] # ulQueTail[p],
         ulQueHead'[p] = Succ(p, ulQueHead[p]), ulQueTail'[p] = ulQueTail[p]
  PROVE  Filled(p)' = Filled(p) \ {ulQueHead[p]} /\ ulQueHead[p] \in Filled(p)
<1> DEFINE n == aulBlockNum[p]  h == ulQueHead[p]  l == ulQueTail[p]
<1>1. n \in Nat \ {0} /\ h \in 0 .. n /\ l \in 0 .. n /\ h # l
  BY PoolFacts DEF RingEnds
<1>2. ulQueHead'[p] = IF h = n THEN 0 ELSE h + 1
  BY SuccSlot DEF RingEnds
<1>3. ulQueTail'[p] = l
  OBVIOUS
<1> QED
  BY <1>1, <1>2, <1>3 DEF Filled

\* Filling the tail adds it.
LEMMA FilledPut ==
  ASSUME NEW p \in Pools, RingEnds(p), Succ(p, ulQueTail[p]) # ulQueHead[p],
         ulQueTail'[p] = Succ(p, ulQueTail[p]), ulQueHead'[p] = ulQueHead[p]
  PROVE  Filled(p)' = Filled(p) \cup {ulQueTail[p]} /\ ulQueTail[p] \notin Filled(p)
<1> DEFINE n == aulBlockNum[p]  h == ulQueHead[p]  l == ulQueTail[p]
<1>1. n \in Nat \ {0} /\ h \in 0 .. n /\ l \in 0 .. n
  BY PoolFacts DEF RingEnds
<1>2. ulQueTail'[p] = (IF l = n THEN 0 ELSE l + 1) /\ ulQueTail'[p] # h
  BY SuccSlot DEF RingEnds
<1>3. ulQueHead'[p] = h
  OBVIOUS
<1> QED
  BY <1>1, <1>2, <1>3 DEF Filled

\* In a full ring only the slot of the tail is empty.
LEMMA FilledFull ==
  ASSUME NEW p \in Pools, RingEnds(p), Succ(p, ulQueTail[p]) = ulQueHead[p]
  PROVE  Filled(p) = Slots(p) \ {ulQueTail[p]}
<1> DEFINE n == aulBlockNum[p]  h == ulQueHead[p]  l == ulQueTail[p]
<1>1. n \in Nat \ {0} /\ h \in 0 .. n /\ l \in 0 .. n /\ Slots(p) = 0 .. n
  BY PoolFacts DEF RingEnds
<1>2. h = IF l = n THEN 0 ELSE l + 1
  BY SuccSlot DEF RingEnds
<1> QED
  BY <1>1, <1>2 DEF Filled

LEMMA FilledSlots ==
  ASSUME NEW p \in Pools, RingEnds(p)
  PROVE  Filled(p) \subseteq Slots(p)
BY PoolFacts DEF RingEnds, Filled

-----------------------------------------------------------------------------
(* The invariant.                                                          *)

Critical == {"get", "advance", "took", "missed", "put", "publish", "done"}

\* A pool's mutex is owned by the thread that is between its lock and unlock.
Exclusive ==
  \A p \in Pools : \A t \in Threads :
    qlock_mem[p] = t <=> pool[t] = p /\ at[t] \in Critical

\* The head has been read and not yet moved.
Advancing ==
  \A t \in Threads : at[t] = "advance" =>
    /\ ulQueHead[pool[t]] # ulQueTail[pool[t]]
    /\ elem[t] = aulQueElem[pool[t]][ulQueHead[pool[t]]]

\* The slot of the tail has been written and the tail not yet moved.
Publishing ==
  \A t \in Threads : at[t] = "publish" =>
    /\ Succ(pool[t], ulQueTail[pool[t]]) # ulQueHead[pool[t]]
    /\ aulQueElem[pool[t]][ulQueTail[pool[t]]] = elem[t]

\* What a thread holds is an index of its pool.
Carried ==
  \A t \in Threads : at[t] \in {"took", "put_lock", "put"} => elem[t] \in Indices(pool[t])

PoolInvariant ==
  TypeOK /\ Exclusive /\ Advancing /\ Publishing /\ Carried /\ BlocksConserved

\* An address tells the pool and the index of its block, as pf_free reads it.
LEMMA Located ==
  ASSUME NEW a \in Addresses
  PROVE  /\ PoolOf(a) \in Pools
         /\ IndexOf(PoolOf(a), a) \in Indices(PoolOf(a))
         /\ Address(PoolOf(a), IndexOf(PoolOf(a), a)) = a
<1>1. PICK p \in Pools : \E b \in Indices(p) : a = Address(p, b)
  BY DEF Addresses
<1>2. PICK b \in Indices(p) : a = Address(p, b)
  BY <1>1
<1> QED
  BY <1>2, AddressBack

LEMMA TypeInit == Init => TypeOK
<1> SUFFICES ASSUME Init PROVE TypeOK
  OBVIOUS
<1>1. \A p \in Pools : aulQueElem[p] \in [Slots(p) -> Indices(p)]
  <2> SUFFICES ASSUME NEW p \in Pools PROVE aulQueElem[p] \in [Slots(p) -> Indices(p)]
    OBVIOUS
  <2>1. 0 \in Indices(p)
    BY PoolFacts
  <2> QED
    BY <2>1 DEF Init
<1>2. aulQueElem = [p \in Pools |-> aulQueElem[p]]
  BY DEF Init
<1>3. \A p \in Pools : 0 \in Slots(p) /\ aulBlockNum[p] \in Slots(p)
  BY PoolFacts
<1>4. 0 \in Pools
  BY PoolAssumption DEF Pools
<1>5. ulQueHead \in [Pools -> Nat] /\ ulQueTail \in [Pools -> Nat]
  BY PoolFacts DEF Init
<1>6. \A p \in Pools : ulQueHead[p] \in Slots(p) /\ ulQueTail[p] \in Slots(p)
  BY <1>3 DEF Init
<1>7. at \in [Threads -> Places] /\ pool \in [Threads -> Pools] /\ elem \in [Threads -> Nat]
  BY <1>4 DEF Init, Places
<1>8. qlock_mem \in [Pools -> Threads \cup {NoThread}] /\ held \subseteq Addresses
  BY DEF Init
<1> QED
  BY <1>1, <1>2, <1>5, <1>6, <1>7, <1>8 DEF TypeOK

LEMMA TypeStep == TypeOK /\ Carried /\ [Next]_memVars => TypeOK'
<1> SUFFICES ASSUME TypeOK, Carried, [Next]_memVars PROVE TypeOK'
  OBVIOUS
<1> USE DEF Goes, Leaves, Places
<1>0. 0 \in Pools
  BY PoolAssumption DEF Pools
<1>1. ASSUME NEW t \in Threads, NEW size \in Requests, Malloc(t, size) PROVE TypeOK'
  <2>1. FirstPool(size) \in Pools
    BY PoolAssumption
  <2> QED
    BY <1>1, <2>1 DEF Malloc, TypeOK
<1>2. ASSUME NEW t \in Threads, NEW a \in held, Free(t, a) PROVE TypeOK'
  <2>1. a \in Addresses
    BY DEF TypeOK
  <2>2. PoolOf(a) \in Pools /\ IndexOf(PoolOf(a), a) \in Nat
    BY <2>1, Located, PoolFacts
  <2> QED
    BY <1>2, <2>2 DEF Free, TypeOK
<1>3. ASSUME NEW t \in Threads, Lock(t) PROVE TypeOK'
  BY <1>3 DEF Lock, TypeOK
<1>4. ASSUME NEW t \in Threads, QueGet(t) PROVE TypeOK'
  <2>1. aulQueElem[pool[t]][ulQueHead[pool[t]]] \in Nat
    BY PoolFacts DEF TypeOK
  <2> QED
    BY <1>4, <2>1 DEF QueGet, TypeOK
<1>5. ASSUME NEW t \in Threads, QueAdvance(t) PROVE TypeOK'
  <2>1. Succ(pool[t], ulQueHead[pool[t]]) \in Slots(pool[t])
    BY SuccSlot DEF TypeOK
  <2>2. Succ(pool[t], ulQueHead[pool[t]]) \in Nat
    BY <2>1, PoolFacts DEF TypeOK
  <2> QED
    BY <1>5, <2>1, <2>2 DEF QueAdvance, TypeOK
<1>6. ASSUME NEW t \in Threads, Took(t) PROVE TypeOK'
  <2>1. Address(pool[t], elem[t]) \in Addresses
    BY <1>6, AddressBack DEF Took, TypeOK, Carried
  <2> QED
    BY <1>0, <1>6, <2>1 DEF Took, TypeOK
<1>7. ASSUME NEW t \in Threads, Missed(t) PROVE TypeOK'
  <2>1. pool' \in [Threads -> Pools] /\ elem' \in [Threads -> Nat]
    <3>1. CASE pool[t] + 1 \in Pools
      BY <1>7, <3>1 DEF Missed, TypeOK
    <3>2. CASE pool[t] + 1 \notin Pools
      BY <1>0, <1>7, <3>2 DEF Missed, TypeOK
    <3> QED
      BY <3>1, <3>2
  <2>2. at' \in [Threads -> Places] /\ qlock_mem' \in [Pools -> Threads \cup {NoThread}]
    BY <1>7 DEF Missed, TypeOK
  <2> QED
    BY <1>7, <2>1, <2>2 DEF Missed, TypeOK
<1>8. ASSUME NEW t \in Threads, QuePut(t) PROVE TypeOK'
  <2> DEFINE p == pool[t]
  <2>1. p \in Pools /\ elem[t] \in Indices(p) /\ ulQueTail[p] \in Slots(p)
    BY <1>8 DEF QuePut, Carried, TypeOK
  <2>2. at' \in [Threads -> Places]
    BY <1>8 DEF QuePut, TypeOK
  <2>3. /\ aulQueElem' = [q \in Pools |-> aulQueElem'[q]]
        /\ \A q \in Pools : aulQueElem'[q] \in [Slots(q) -> Indices(q)]
    <3>1. CASE UNCHANGED aulQueElem
      BY <3>1 DEF TypeOK
    <3>2. CASE aulQueElem' = [aulQueElem EXCEPT ![p][ulQueTail[p]] = elem[t]]
      <4>1. aulQueElem' = [aulQueElem EXCEPT ![p] = [@ EXCEPT ![ulQueTail[p]] = elem[t]]]
        BY <3>2
      <4>2. [aulQueElem[p] EXCEPT ![ulQueTail[p]] = elem[t]] \in [Slots(p) -> Indices(p)]
        BY <2>1 DEF TypeOK
      <4>3. DOMAIN aulQueElem = Pools
        BY DEF TypeOK
      <4>4. aulQueElem' = [q \in Pools |->
              IF q = p THEN [aulQueElem[p] EXCEPT ![ulQueTail[p]] = elem[t]] ELSE aulQueElem[q]]
        BY <2>1, <4>1, <4>3
      <4> HIDE DEF p
      <4> QED
        BY <4>2, <4>4 DEF TypeOK
    <3> QED
      BY <1>8, <3>1, <3>2 DEF QuePut
  <2> QED
    BY <1>8, <2>2, <2>3 DEF QuePut, TypeOK
<1>9. ASSUME NEW t \in Threads, QuePublish(t) PROVE TypeOK'
  <2>1. Succ(pool[t], ulQueTail[pool[t]]) \in Slots(pool[t])
    BY SuccSlot DEF TypeOK
  <2>2. Succ(pool[t], ulQueTail[pool[t]]) \in Nat
    BY <2>1, PoolFacts DEF TypeOK
  <2> QED
    BY <1>9, <2>1, <2>2 DEF QuePublish, TypeOK
<1>10. ASSUME NEW t \in Threads, Returned(t) PROVE TypeOK'
  BY <1>0, <1>10 DEF Returned, TypeOK
<1>11. CASE UNCHANGED memVars
  BY <1>11 DEF memVars, TypeOK, Filled
<1> QED
  BY <1>1, <1>2, <1>3, <1>4, <1>5, <1>6, <1>7, <1>8, <1>9, <1>10, <1>11 DEF Next

-----------------------------------------------------------------------------
(* The mutex.                                                              *)

\* Who moves between critical places, or between the others, disturbs nothing.
LEMMA ExclusiveStep == TypeOK /\ Exclusive /\ [Next]_memVars => Exclusive'
<1> SUFFICES ASSUME TypeOK, Exclusive, [Next]_memVars PROVE Exclusive'
  OBVIOUS
<1>0. /\ at \in [Threads -> Places] /\ pool \in [Threads -> Pools]
      /\ qlock_mem \in [Pools -> Threads \cup {NoThread}] /\ NoThread \notin Threads
  BY PoolAssumption DEF TypeOK
<1>1. CASE UNCHANGED memVars
  BY <1>1 DEF memVars, Exclusive
<1>2. ASSUME NEW t \in Threads,
             qlock_mem' = qlock_mem,
             pool' = [pool EXCEPT ![t] = pool'[t]],
             at' = [at EXCEPT ![t] = at'[t]],
             \/ pool'[t] = pool[t] /\ (at[t] \in Critical <=> at'[t] \in Critical)
             \/ at[t] \notin Critical /\ at'[t] \notin Critical
      PROVE  Exclusive'
  BY <1>0, <1>2 DEF Exclusive
<1>3. ASSUME NEW t \in Threads,
             qlock_mem' = [qlock_mem EXCEPT ![pool[t]] = NoThread],
             pool' = [pool EXCEPT ![t] = pool'[t]],
             at' = [at EXCEPT ![t] = at'[t]],
             at[t] \in Critical, at'[t] \notin Critical
      PROVE  Exclusive'
  BY <1>0, <1>3 DEF Exclusive
<1>4. ASSUME NEW t \in Threads, Lock(t) PROVE Exclusive'
  <2>1. at[t] \notin Critical /\ at'[t] \in Critical
    BY <1>0, <1>4 DEF Lock, Goes, Critical
  <2> QED
    BY <1>0, <1>4, <2>1 DEF Lock, Goes, Exclusive
<1>5. ASSUME NEW t \in Threads, QueGet(t) \/ QueAdvance(t) \/ QuePut(t) \/ QuePublish(t)
      PROVE  Exclusive'
  <2>1. /\ qlock_mem' = qlock_mem /\ pool' = pool /\ at' = [at EXCEPT ![t] = at'[t]]
        /\ at[t] \in Critical /\ at'[t] \in Critical
    BY <1>0, <1>5 DEF QueGet, QueAdvance, QuePut, QuePublish, Goes, Critical
  <2> QED
    BY <1>0, <1>2, <2>1
<1>6. ASSUME NEW t \in Threads, Took(t) \/ Missed(t) \/ Returned(t) PROVE Exclusive'
  <2>1. /\ at' = [at EXCEPT ![t] = at'[t]] /\ at[t] \in Critical /\ at'[t] \notin Critical
        /\ pool' = [pool EXCEPT ![t] = pool'[t]]
    BY <1>0, <1>6 DEF Took, Missed, Returned, Leaves, Goes, Critical
  <2> QED
    BY <1>3, <1>6, <2>1 DEF Took, Missed, Returned
<1>7. ASSUME NEW t \in Threads, NEW size \in Requests, Malloc(t, size) PROVE Exclusive'
  <2>1. /\ at' = [at EXCEPT ![t] = at'[t]] /\ at[t] \notin Critical /\ at'[t] \notin Critical
        /\ pool' = [pool EXCEPT ![t] = pool'[t]] /\ qlock_mem' = qlock_mem
    BY <1>0, <1>7 DEF Malloc, Goes, Critical
  <2> QED
    BY <1>2, <2>1
<1>8. ASSUME NEW t \in Threads, NEW a \in held, Free(t, a) PROVE Exclusive'
  <2>1. /\ at' = [at EXCEPT ![t] = at'[t]] /\ at[t] \notin Critical /\ at'[t] \notin Critical
        /\ pool' = [pool EXCEPT ![t] = pool'[t]] /\ qlock_mem' = qlock_mem
    BY <1>0, <1>8 DEF Free, Goes, Critical
  <2> QED
    BY <1>2, <2>1
<1> QED
  BY <1>1, <1>4, <1>5, <1>6, <1>7, <1>8 DEF Next

\* A pool's mutex has one owner.
LEMMA OneInside ==
  ASSUME Exclusive, TypeOK, NEW t \in Threads, NEW u \in Threads,
         pool[t] = pool[u], at[t] \in Critical, at[u] \in Critical
  PROVE  t = u
BY DEF Exclusive, TypeOK

-----------------------------------------------------------------------------
(* Between the two halves of a get or a put nobody else touches the ring.  *)

StepOf(t) ==
  \/ \E size \in Requests : Malloc(t, size)
  \/ \E a \in held : Free(t, a)
  \/ Lock(t)
  \/ QueGet(t) \/ QueAdvance(t) \/ Took(t) \/ Missed(t)
  \/ QuePut(t) \/ QuePublish(t) \/ Returned(t)

\* A thread is moved by its own steps only.
LEMMA Apart ==
  ASSUME TypeOK, NEW t \in Threads, NEW u \in Threads, u # t, StepOf(t)
  PROVE  at'[u] = at[u] /\ pool'[u] = pool[u] /\ elem'[u] = elem[u]
BY DEF TypeOK, StepOf, Malloc, Free, Lock, QueGet, QueAdvance, Took, Missed, QuePut,
       QuePublish, Returned, Goes, Leaves

\* A ring is changed by a thread that works on it only.
LEMMA RingStill ==
  ASSUME TypeOK, NEW t \in Threads, StepOf(t), NEW p \in Pools,
         pool[t] # p \/ at[t] \notin {"advance", "put", "publish"}
  PROVE  /\ aulQueElem'[p] = aulQueElem[p]
         /\ ulQueHead'[p] = ulQueHead[p] /\ ulQueTail'[p] = ulQueTail[p]
<1>1. \/ UNCHANGED <<aulQueElem, ulQueHead, ulQueTail>>
      \/ pool[t] # p /\ (QueAdvance(t) \/ QuePut(t) \/ QuePublish(t))
  BY DEF StepOf, Malloc, Free, Lock, QueGet, QueAdvance, Took, Missed, QuePut,
         QuePublish, Returned
<1>2. CASE pool[t] # p /\ QueAdvance(t)
  BY <1>2 DEF QueAdvance, TypeOK
<1>3. CASE pool[t] # p /\ QuePublish(t)
  BY <1>3 DEF QuePublish, TypeOK
<1>4. CASE pool[t] # p /\ QuePut(t)
  <2>1. CASE UNCHANGED aulQueElem
    BY <1>4, <2>1 DEF QuePut
  <2>2. CASE aulQueElem' = [aulQueElem EXCEPT ![pool[t]][ulQueTail[pool[t]]] = elem[t]]
    <3>1. aulQueElem'[p] = aulQueElem[p]
      BY <1>4, <2>2 DEF TypeOK
    <3> QED
      BY <1>4, <3>1 DEF QuePut
  <2> QED
    BY <1>4, <2>1, <2>2 DEF QuePut
<1> QED
  BY <1>1, <1>2, <1>3, <1>4

LEMMA RingOfOwner ==
  ASSUME TypeOK, Exclusive, NEW t \in Threads, NEW u \in Threads, u # t, StepOf(t),
         at[u] \in Critical
  PROVE  /\ aulQueElem'[pool[u]] = aulQueElem[pool[u]]
         /\ ulQueHead'[pool[u]] = ulQueHead[pool[u]]
         /\ ulQueTail'[pool[u]] = ulQueTail[pool[u]]
<1>1. pool[t] # pool[u] \/ at[t] \notin {"advance", "put", "publish"}
  BY OneInside DEF Critical
<1>2. pool[u] \in Pools
  BY DEF TypeOK
<1> QED
  BY <1>1, <1>2, RingStill

LEMMA AdvancingStep == TypeOK /\ Exclusive /\ Advancing /\ [Next]_memVars => Advancing'
<1> SUFFICES ASSUME TypeOK, Exclusive, Advancing, [Next]_memVars PROVE Advancing'
  OBVIOUS
<1>1. CASE UNCHANGED memVars
  BY <1>1 DEF memVars, Advancing
<1>2. ASSUME NEW t \in Threads, StepOf(t) PROVE Advancing'
  <2> SUFFICES ASSUME NEW u \in Threads, at'[u] = "advance"
               PROVE  /\ ulQueHead'[pool'[u]] # ulQueTail'[pool'[u]]
                      /\ elem'[u] = aulQueElem'[pool'[u]][ulQueHead'[pool'[u]]]
    BY DEF Advancing
  <2>1. CASE u # t
    BY <1>2, <2>1, Apart, RingOfOwner DEF Advancing, Critical
  <2>2. CASE u = t
    <3>1. QueGet(t)
      BY <1>2, <2>2 DEF TypeOK, StepOf, Malloc, Free, Lock, QueGet, QueAdvance, Took,
                        Missed, QuePut, QuePublish, Returned, Goes, Leaves
    <3> QED
      BY <2>2, <3>1 DEF QueGet, Goes, TypeOK
  <2> QED
    BY <2>1, <2>2
<1> QED
  BY <1>1, <1>2 DEF Next, StepOf

LEMMA PublishingStep == TypeOK /\ Exclusive /\ Publishing /\ [Next]_memVars => Publishing'
<1> SUFFICES ASSUME TypeOK, Exclusive, Publishing, [Next]_memVars PROVE Publishing'
  OBVIOUS
<1>1. CASE UNCHANGED memVars
  BY <1>1 DEF memVars, Publishing
<1>2. ASSUME NEW t \in Threads, StepOf(t) PROVE Publishing'
  <2> SUFFICES ASSUME NEW u \in Threads, at'[u] = "publish"
               PROVE  /\ Succ(pool'[u], ulQueTail'[pool'[u]]) # ulQueHead'[pool'[u]]
                      /\ aulQueElem'[pool'[u]][ulQueTail'[pool'[u]]] = elem'[u]
    BY DEF Publishing, Succ
  <2>1. CASE u # t
    BY <1>2, <2>1, Apart, RingOfOwner DEF Publishing, Critical
  <2>2. CASE u = t
    <3>1. QuePut(t)
      BY <1>2, <2>2 DEF TypeOK, StepOf, Malloc, Free, Lock, QueGet, QueAdvance, Took,
                        Missed, QuePut, QuePublish, Returned, Goes, Leaves
    <3>2. Succ(pool[t], ulQueTail[pool[t]]) # ulQueHead[pool[t]]
      BY <2>2, <3>1 DEF QuePut, Goes, TypeOK
    <3>3. aulQueElem' = [aulQueElem EXCEPT ![pool[t]][ulQueTail[pool[t]]] = elem[t]]
      BY <3>1, <3>2 DEF QuePut
    <3>4. pool[t] \in Pools /\ ulQueTail[pool[t]] \in Slots(pool[t])
      BY DEF TypeOK
    <3>5. aulQueElem'[pool[t]][ulQueTail[pool[t]]] = elem[t]
      BY <3>3, <3>4 DEF TypeOK
    <3> QED
      BY <2>2, <3>1, <3>2, <3>5 DEF QuePut
  <2> QED
    BY <2>1, <2>2
<1> QED
  BY <1>1, <1>2 DEF Next, StepOf

LEMMA CarriedStep == TypeOK /\ Advancing /\ Carried /\ [Next]_memVars => Carried'
<1> SUFFICES ASSUME TypeOK, Advancing, Carried, [Next]_memVars PROVE Carried'
  OBVIOUS
<1>1. CASE UNCHANGED memVars
  BY <1>1 DEF memVars, Carried
<1>2. ASSUME NEW t \in Threads, StepOf(t) PROVE Carried'
  <2> SUFFICES ASSUME NEW u \in Threads, at'[u] \in {"took", "put_lock", "put"}
               PROVE  elem'[u] \in Indices(pool'[u])
    BY DEF Carried
  <2>1. CASE u # t
    BY <1>2, <2>1, Apart DEF Carried
  <2>2. CASE u = t
    <3>1. QueAdvance(t) \/ (\E a \in held : Free(t, a)) \/ Lock(t)
      BY <1>2, <2>2 DEF TypeOK, StepOf, Malloc, Lock, QueGet, Took,
                        Missed, QuePut, QuePublish, Returned, Goes, Leaves
    <3>2. CASE QueAdvance(t)
      <4>1. pool[t] \in Pools /\ ulQueHead[pool[t]] \in Slots(pool[t])
        BY DEF TypeOK
      <4>2. aulQueElem[pool[t]] \in [Slots(pool[t]) -> Indices(pool[t])]
        BY <4>1 DEF TypeOK
      <4>3. elem[t] \in Indices(pool[t])
        BY <3>2, <4>1, <4>2 DEF QueAdvance, Advancing
      <4> QED
        BY <2>2, <3>2, <4>3 DEF QueAdvance
    <3>3. ASSUME NEW a \in held, Free(t, a) PROVE elem'[u] \in Indices(pool'[u])
      BY <2>2, <3>3, Located DEF Free, TypeOK
    <3>4. CASE Lock(t)
      BY <2>2, <3>4 DEF Lock, Goes, Carried, TypeOK
    <3> QED
      BY <3>1, <3>2, <3>3, <3>4
  <2> QED
    BY <2>1, <2>2
<1> QED
  BY <1>1, <1>2 DEF Next, StepOf

-----------------------------------------------------------------------------
(* What a step does to the indices in hand and to those handed out.        *)

LEMMA HandsStay ==
  ASSUME TypeOK, NEW t \in Threads, StepOf(t), NEW p \in Pools,
         t \in Carriers(p) <=> t \in Carriers(p)',
         t \in Carriers(p) => elem'[t] = elem[t]
  PROVE  /\ Carriers(p)' = Carriers(p) /\ CarriedOf(p)' = CarriedOf(p)
         /\ \A u \in Carriers(p) : elem'[u] = elem[u]
<1>1. \A u \in Threads : u \in Carriers(p) <=> u \in Carriers(p)'
  BY Apart DEF Carriers
<1>2. Carriers(p)' = Carriers(p)
  BY <1>1 DEF Carriers
<1>3. \A u \in Carriers(p) : elem'[u] = elem[u]
  BY Apart DEF Carriers
<1> QED
  BY <1>2, <1>3 DEF CarriedOf

LEMMA HandsTake ==
  ASSUME TypeOK, NEW t \in Threads, StepOf(t), NEW p \in Pools,
         t \notin Carriers(p), t \in Carriers(p)'
  PROVE  /\ Carriers(p)' = Carriers(p) \cup {t}
         /\ CarriedOf(p)' = CarriedOf(p) \cup {elem'[t]}
         /\ \A u \in Carriers(p) : elem'[u] = elem[u]
<1>1. \A u \in Threads : u # t => (u \in Carriers(p) <=> u \in Carriers(p)')
  BY Apart DEF Carriers
<1>2. Carriers(p)' = Carriers(p) \cup {t}
  BY <1>1 DEF Carriers
<1>3. \A u \in Carriers(p) : elem'[u] = elem[u]
  BY Apart DEF Carriers
<1> QED
  BY <1>2, <1>3 DEF CarriedOf

LEMMA HandsGive ==
  ASSUME TypeOK, NEW t \in Threads, StepOf(t), NEW p \in Pools, Conserved(p),
         t \in Carriers(p), t \notin Carriers(p)'
  PROVE  /\ Carriers(p)' = Carriers(p) \ {t}
         /\ CarriedOf(p)' = CarriedOf(p) \ {elem[t]}
         /\ \A u \in Carriers(p) : u # t => elem'[u] = elem[u]
<1>1. \A u \in Threads : u # t => (u \in Carriers(p) <=> u \in Carriers(p)')
  BY Apart DEF Carriers
<1>2. Carriers(p)' = Carriers(p) \ {t}
  BY <1>1 DEF Carriers
<1>3. \A u \in Carriers(p) : u # t => elem'[u] = elem[u]
  BY Apart DEF Carriers
<1>4. \A u \in Carriers(p) : elem[u] = elem[t] => u = t
  BY DEF Conserved
<1> QED
  BY <1>2, <1>3, <1>4 DEF CarriedOf

\* A block has one address, and no other block has it.
LEMMA AddressTells ==
  ASSUME NEW p \in Pools, NEW b \in Indices(p), NEW q \in Pools, NEW c \in Indices(q),
         Address(p, b) = Address(q, c)
  PROVE  p = q /\ b = c
BY AddressBack

LEMMA HeldMore ==
  ASSUME NEW p \in Pools, NEW b \in Indices(p), held' = held \cup {Address(p, b)},
         NEW q \in Pools
  PROVE  HeldOf(q)' = IF q = p THEN HeldOf(q) \cup {b} ELSE HeldOf(q)
<1>1. \A c \in Indices(q) : Address(q, c) = Address(p, b) <=> q = p /\ c = b
  BY AddressTells
<1> QED
  BY <1>1 DEF HeldOf

LEMMA HeldLess ==
  ASSUME NEW p \in Pools, NEW b \in Indices(p), held' = held \ {Address(p, b)},
         NEW q \in Pools
  PROVE  HeldOf(q)' = IF q = p THEN HeldOf(q) \ {b} ELSE HeldOf(q)
<1>1. \A c \in Indices(q) : Address(q, c) = Address(p, b) <=> q = p /\ c = b
  BY AddressTells
<1> QED
  BY <1>1 DEF HeldOf

-----------------------------------------------------------------------------
(* The steps that move no block.                                           *)

LEMMA Kept ==
  ASSUME NEW p \in Pools, Conserved(p),
         Carriers(p)' = Carriers(p), CarriedOf(p)' = CarriedOf(p),
         \A u \in Carriers(p) : elem'[u] = elem[u],
         HeldOf(p)' = HeldOf(p),
         Filled(p)' = Filled(p),
         \A i \in Filled(p) : aulQueElem'[p][i] = aulQueElem[p][i]
  PROVE  Conserved(p)'
<1>1. FreeOf(p)' = FreeOf(p)
  BY DEF FreeOf
<1>2. \A u \in Carriers(p)' : elem'[u] = elem[u]
  OBVIOUS
<1>3. \A i \in Filled(p)' : aulQueElem'[p][i] = aulQueElem[p][i]
  OBVIOUS
<1>4. Indices(p)' = Indices(p)
  BY DEF Indices
<1> QED
  BY <1>1, <1>2, <1>3, <1>4 DEF Conserved

LEMMA FilledStays ==
  ASSUME NEW p \in Pools, aulQueElem'[p] = aulQueElem[p],
         ulQueHead'[p] = ulQueHead[p], ulQueTail'[p] = ulQueTail[p]
  PROVE  Filled(p)' = Filled(p) /\ FreeOf(p)' = FreeOf(p)
BY DEF Filled, FreeOf

LEMMA StillKept ==
  ASSUME TypeOK, BlocksConserved, NEW t \in Threads,
         \/ \E size \in Requests : Malloc(t, size)
         \/ Lock(t) \/ QueGet(t) \/ Missed(t) \/ Returned(t)
  PROVE  BlocksConserved'
<1> SUFFICES ASSUME NEW p \in Pools PROVE Conserved(p)'
  BY DEF BlocksConserved, Pools
<1>1. StepOf(t) /\ UNCHANGED <<aulQueElem, ulQueHead, ulQueTail, held>>
  BY DEF StepOf, Malloc, Lock, QueGet, Missed, Returned
<1>2. /\ t \in Carriers(p) <=> t \in Carriers(p)'
      /\ t \in Carriers(p) => elem'[t] = elem[t]
  BY DEF TypeOK, Carriers, Carrying, Malloc, Lock, QueGet, Missed, Returned, Goes, Leaves
<1>3. HeldOf(p)' = HeldOf(p)
  BY <1>1 DEF HeldOf, Indices
<1> QED
  BY <1>1, <1>2, <1>3, HandsStay, FilledStays, Kept DEF BlocksConserved

\* A full ring would hold more indices than there are besides the one in hand.
LEMMA NeverFull ==
  ASSUME TypeOK, BlocksConserved, Carried, NEW t \in Threads, at[t] = "put"
  PROVE  Succ(pool[t], ulQueTail[pool[t]]) # ulQueHead[pool[t]]
<1> DEFINE p == pool[t]
<1>1. p \in Pools /\ elem[t] \in Indices(p) /\ RingEnds(p)
  BY DEF TypeOK, Carried, RingEnds
<1>2. t \in Carriers(p)
  BY DEF Carriers, Carrying
<1> HIDE DEF p
<1> SUFFICES ASSUME Succ(p, ulQueTail[p]) = ulQueHead[p] PROVE FALSE
  BY DEF p
<1>3. Filled(p) = Slots(p) \ {ulQueTail[p]}
  BY <1>1, FilledFull
<1> DEFINE S == Filled(p)  T == Indices(p) \ {elem[t]}
           f == [i \in S |-> aulQueElem[p][i]]
<1>4. elem[t] \in CarriedOf(p)
  BY <1>2 DEF CarriedOf
<1>5. \A i \in S : aulQueElem[p][i] \in T
  <2> SUFFICES ASSUME NEW i \in S PROVE aulQueElem[p][i] \in T
    OBVIOUS
  <2>1. aulQueElem[p][i] \in FreeOf(p)
    BY DEF FreeOf
  <2>2. FreeOf(p) \cap CarriedOf(p) = {} /\ FreeOf(p) \subseteq Indices(p)
    BY <1>1 DEF BlocksConserved, Conserved
  <2> QED
    BY <1>4, <2>1, <2>2
<1>6. f \in [S -> T]
  BY <1>5
<1>7. IsFiniteSet(S) /\ Cardinality(S) = aulBlockNum[p]
  <2>1. aulBlockNum[p] \in Nat \ {0} /\ Slots(p) = 0 .. aulBlockNum[p]
    BY <1>1, PoolFacts
  <2>2. IsFiniteSet(Slots(p)) /\ Cardinality(Slots(p)) = aulBlockNum[p] + 1
    BY <2>1, FS_Interval
  <2>3. ulQueTail[p] \in Slots(p)
    BY <1>1 DEF RingEnds
  <2>4. IsFiniteSet(Slots(p) \ {ulQueTail[p]})
        /\ Cardinality(Slots(p) \ {ulQueTail[p]}) = Cardinality(Slots(p)) - 1
    BY <2>2, <2>3, FS_RemoveElement
  <2> QED
    BY <1>3, <2>1, <2>2, <2>4
<1>8. IsFiniteSet(T) /\ Cardinality(T) = aulBlockNum[p] - 1
  <2>1. IsFiniteSet(Indices(p)) /\ Cardinality(Indices(p)) = aulBlockNum[p]
    <3>1. aulBlockNum[p] \in Nat \ {0} /\ Indices(p) = 0 .. aulBlockNum[p] - 1
      BY <1>1, PoolFacts
    <3> QED
      BY <3>1, FS_Interval
  <2> QED
    BY <1>1, <2>1, FS_RemoveElement, PoolFacts
<1>9. aulBlockNum[p] \in Nat \ {0}
  BY <1>1, PoolFacts
<1> HIDE DEF S, T, f
<1>10. \E x, y \in S : x # y /\ f[x] = f[y]
  BY <1>6, <1>7, <1>8, <1>9, FS_PigeonHole
<1>11. \A x, y \in S : f[x] = f[y] => x = y
  BY <1>1 DEF f, S, BlocksConserved, Conserved
<1> QED
  BY <1>10, <1>11

LEMMA PutKept ==
  ASSUME TypeOK, BlocksConserved, Carried, NEW t \in Threads, QuePut(t)
  PROVE  BlocksConserved'
<1> SUFFICES ASSUME NEW p \in Pools PROVE Conserved(p)'
  BY DEF BlocksConserved, Pools
<1>1. StepOf(t) /\ UNCHANGED <<ulQueHead, ulQueTail, held, pool, elem>>
  BY DEF StepOf, QuePut
<1>2. at[t] = "put"
  BY DEF QuePut
<1>3. Succ(pool[t], ulQueTail[pool[t]]) # ulQueHead[pool[t]]
  BY <1>2, NeverFull
<1>4. /\ at' = [at EXCEPT ![t] = "publish"]
      /\ aulQueElem' = [aulQueElem EXCEPT ![pool[t]][ulQueTail[pool[t]]] = elem[t]]
  BY <1>3 DEF QuePut, Goes
<1>5. t \in Carriers(p) <=> t \in Carriers(p)'
  BY <1>1, <1>2, <1>4 DEF TypeOK, Carriers, Carrying
<1>6. HeldOf(p)' = HeldOf(p)
  BY <1>1 DEF HeldOf, Indices
<1>7. Filled(p)' = Filled(p)
  BY <1>1 DEF Filled
<1>8. \A i \in Filled(p) : aulQueElem'[p][i] = aulQueElem[p][i]
  <2>1. CASE p # pool[t]
    BY <1>1, <2>1, RingStill
  <2>2. CASE p = pool[t]
    <3>1. ulQueTail[p] \notin Filled(p)
      BY PoolFacts DEF TypeOK, Filled
    <3>2. aulQueElem'[p] = [aulQueElem[p] EXCEPT ![ulQueTail[p]] = elem[t]]
      BY <1>4, <2>2 DEF TypeOK
    <3>3. aulQueElem[p] \in [Slots(p) -> Indices(p)] /\ Filled(p) \subseteq Slots(p)
      BY FilledSlots DEF TypeOK, RingEnds
    <3> QED
      BY <3>1, <3>2, <3>3
  <2> QED
    BY <2>1, <2>2
<1> QED
  BY <1>1, <1>5, <1>6, <1>7, <1>8, HandsStay, Kept DEF BlocksConserved

-----------------------------------------------------------------------------
(* The steps that move a block.                                            *)

\* Free to in hand: the head of the ring.
LEMMA AdvanceConserves ==
  ASSUME TypeOK, Advancing, BlocksConserved, NEW t \in Threads, QueAdvance(t)
  PROVE  BlocksConserved'
<1> SUFFICES ASSUME NEW p \in Pools PROVE Conserved(p)'
  BY DEF BlocksConserved, Pools
<1>1. StepOf(t) /\ UNCHANGED <<aulQueElem, ulQueTail, held, pool, elem>>
  BY DEF StepOf, QueAdvance
<1>2. at[t] = "advance" /\ at' = [at EXCEPT ![t] = "took"]
  BY DEF QueAdvance, Goes
<1>3. HeldOf(p)' = HeldOf(p)
  BY <1>1 DEF HeldOf, Indices
<1>4. CASE p # pool[t]
  <2>1. t \notin Carriers(p) /\ t \notin Carriers(p)'
    BY <1>1, <1>4 DEF Carriers
  <2>2. /\ aulQueElem'[p] = aulQueElem[p]
        /\ ulQueHead'[p] = ulQueHead[p] /\ ulQueTail'[p] = ulQueTail[p]
    BY <1>1, <1>4, RingStill
  <2> QED
    BY <1>1, <1>3, <2>1, <2>2, HandsStay, FilledStays, Kept DEF BlocksConserved
<1>5. CASE p = pool[t]
  <2> DEFINE h == ulQueHead[p]  x == elem[t]
  <2>1. h # ulQueTail[p] /\ x = aulQueElem[p][h] /\ RingEnds(p)
    BY <1>2, <1>5 DEF Advancing, TypeOK, RingEnds
  <2>2. ulQueHead'[p] = Succ(p, h) /\ ulQueTail'[p] = ulQueTail[p]
    BY <1>1, <1>5 DEF QueAdvance, TypeOK
  <2>3. Filled(p)' = Filled(p) \ {h} /\ h \in Filled(p)
    BY <2>1, <2>2, FilledTaken
  <2>4. t \notin Carriers(p) /\ t \in Carriers(p)'
    BY <1>1, <1>2, <1>5 DEF TypeOK, Carriers, Carrying
  <2>5. /\ Carriers(p)' = Carriers(p) \cup {t}
        /\ CarriedOf(p)' = CarriedOf(p) \cup {x}
        /\ \A u \in Carriers(p)' : elem'[u] = elem[u]
    BY <1>1, <2>4, HandsTake
  <2>6. Conserved(p) /\ x \in FreeOf(p)
    BY <2>1, <2>3 DEF BlocksConserved, FreeOf
  <2>7. FreeOf(p)' = FreeOf(p) \ {x}
    BY <1>1, <2>1, <2>3, <2>6 DEF FreeOf, Conserved
  <2>8. \A u \in Carriers(p) : elem[u] # x
    BY <2>6 DEF Conserved, CarriedOf
  <2>9. Indices(p)' = Indices(p)
    BY DEF Indices
  <2> HIDE DEF x, h
  <2>10. /\ (FreeOf(p) \cup CarriedOf(p) \cup HeldOf(p) = Indices(p))'
         /\ (FreeOf(p) \cap CarriedOf(p) = {})'
         /\ (FreeOf(p) \cap HeldOf(p) = {})'
         /\ (CarriedOf(p) \cap HeldOf(p) = {})'
    BY <1>3, <2>5, <2>6, <2>7, <2>9 DEF Conserved
  <2>11. (\A i, j \in Filled(p) : aulQueElem[p][i] = aulQueElem[p][j] => i = j)'
    BY <1>1, <2>3, <2>6 DEF Conserved
  <2>12. (\A u, v \in Carriers(p) : elem[u] = elem[v] => u = v)'
    BY <2>5, <2>6, <2>8 DEF Conserved, x
  <2> QED
    BY <2>10, <2>11, <2>12 DEF Conserved
<1> QED
  BY <1>4, <1>5

\* In hand to handed out.
LEMMA TookConserves ==
  ASSUME TypeOK, Carried, BlocksConserved, NEW t \in Threads, Took(t)
  PROVE  BlocksConserved'
<1> SUFFICES ASSUME NEW p \in Pools PROVE Conserved(p)'
  BY DEF BlocksConserved, Pools
<1>1. /\ StepOf(t) /\ UNCHANGED <<aulQueElem, ulQueHead, ulQueTail>>
      /\ held' = held \cup {Address(pool[t], elem[t])}
  BY DEF StepOf, Took
<1>2. at[t] = "took" /\ at'[t] = "idle"
  BY DEF Took, Leaves, Goes, TypeOK
<1>3. pool[t] \in Pools /\ elem[t] \in Indices(pool[t])
  BY <1>2 DEF TypeOK, Carried
<1>4. HeldOf(p)' = IF p = pool[t] THEN HeldOf(p) \cup {elem[t]} ELSE HeldOf(p)
  BY <1>1, <1>3, HeldMore
<1>5. Filled(p)' = Filled(p) /\ FreeOf(p)' = FreeOf(p)
  BY <1>1, FilledStays
<1>6. t \notin Carriers(p)'
  BY <1>2 DEF Carriers, Carrying
<1>7. CASE p # pool[t]
  <2>1. t \notin Carriers(p)
    BY <1>7 DEF Carriers
  <2> QED
    BY <1>1, <1>4, <1>5, <1>6, <1>7, <2>1, HandsStay, Kept DEF BlocksConserved
<1>8. CASE p = pool[t]
  <2>1. Conserved(p) /\ t \in Carriers(p)
    BY <1>2, <1>8 DEF BlocksConserved, Carriers, Carrying
  <2>2. /\ Carriers(p)' = Carriers(p) \ {t}
        /\ CarriedOf(p)' = CarriedOf(p) \ {elem[t]}
        /\ \A u \in Carriers(p)' : elem'[u] = elem[u]
    BY <1>1, <1>6, <2>1, HandsGive
  <2>3. elem[t] \in CarriedOf(p)
    BY <2>1 DEF CarriedOf
  <2>4. Indices(p)' = Indices(p)
    BY DEF Indices
  <2>5. /\ (FreeOf(p) \cup CarriedOf(p) \cup HeldOf(p) = Indices(p))'
        /\ (FreeOf(p) \cap CarriedOf(p) = {})'
        /\ (FreeOf(p) \cap HeldOf(p) = {})'
        /\ (CarriedOf(p) \cap HeldOf(p) = {})'
    BY <1>4, <1>5, <1>8, <2>1, <2>2, <2>3, <2>4 DEF Conserved
  <2>6. (\A i, j \in Filled(p) : aulQueElem[p][i] = aulQueElem[p][j] => i = j)'
    BY <1>1, <1>5, <2>1 DEF Conserved
  <2>7. (\A u, v \in Carriers(p) : elem[u] = elem[v] => u = v)'
    BY <2>1, <2>2 DEF Conserved
  <2> QED
    BY <2>5, <2>6, <2>7 DEF Conserved
<1> QED
  BY <1>7, <1>8

\* Handed out to in hand: the address tells the pool and the index.
LEMMA FreeConserves ==
  ASSUME TypeOK, BlocksConserved, NEW t \in Threads, NEW a \in held, Free(t, a)
  PROVE  BlocksConserved'
<1> SUFFICES ASSUME NEW p \in Pools PROVE Conserved(p)'
  BY DEF BlocksConserved, Pools
<1> DEFINE r == PoolOf(a)  x == IndexOf(r, a)
<1>1. /\ StepOf(t) /\ UNCHANGED <<aulQueElem, ulQueHead, ulQueTail>>
      /\ held' = held \ {a}
  BY DEF StepOf, Free
<1>2. at[t] = "idle" /\ at'[t] = "put_lock" /\ pool'[t] = r /\ elem'[t] = x
  BY DEF Free, Goes, TypeOK
<1>3. a \in Addresses
  BY DEF TypeOK
<1>4. r \in Pools /\ x \in Indices(r) /\ a = Address(r, x)
  BY <1>3, Located
<1> HIDE DEF r, x
<1>5. HeldOf(p)' = IF p = r THEN HeldOf(p) \ {x} ELSE HeldOf(p)
  BY <1>1, <1>4, HeldLess
<1>6. Filled(p)' = Filled(p) /\ FreeOf(p)' = FreeOf(p)
  BY <1>1, FilledStays
<1>7. t \notin Carriers(p) /\ (t \in Carriers(p)' <=> p = r)
  BY <1>2 DEF Carriers, Carrying
<1>8. CASE p # r
  BY <1>1, <1>5, <1>6, <1>7, <1>8, HandsStay, Kept DEF BlocksConserved
<1>9. CASE p = r
  <2>1. Conserved(p) /\ x \in HeldOf(p)
    BY <1>4, <1>9 DEF BlocksConserved, HeldOf
  <2>2. /\ Carriers(p)' = Carriers(p) \cup {t}
        /\ CarriedOf(p)' = CarriedOf(p) \cup {x}
        /\ \A u \in Carriers(p) : elem'[u] = elem[u]
    BY <1>1, <1>2, <1>7, <1>9, HandsTake
  <2>3. Indices(p)' = Indices(p)
    BY DEF Indices
  <2>4. \A u \in Carriers(p) : elem'[u] # x
    BY <2>1, <2>2 DEF Conserved, CarriedOf
  <2>5. /\ (FreeOf(p) \cup CarriedOf(p) \cup HeldOf(p) = Indices(p))'
        /\ (FreeOf(p) \cap CarriedOf(p) = {})'
        /\ (FreeOf(p) \cap HeldOf(p) = {})'
        /\ (CarriedOf(p) \cap HeldOf(p) = {})'
    BY <1>5, <1>6, <1>9, <2>1, <2>2, <2>3 DEF Conserved
  <2>6. (\A i, j \in Filled(p) : aulQueElem[p][i] = aulQueElem[p][j] => i = j)'
    BY <1>1, <1>6, <2>1 DEF Conserved
  <2>7. (\A u, v \in Carriers(p) : elem[u] = elem[v] => u = v)'
    BY <1>2, <2>1, <2>2, <2>4 DEF Conserved
  <2> QED
    BY <2>5, <2>6, <2>7 DEF Conserved
<1> QED
  BY <1>8, <1>9

\* In hand to free: the tail of the ring.
LEMMA PublishConserves ==
  ASSUME TypeOK, Publishing, BlocksConserved, NEW t \in Threads, QuePublish(t)
  PROVE  BlocksConserved'
<1> SUFFICES ASSUME NEW p \in Pools PROVE Conserved(p)'
  BY DEF BlocksConserved, Pools
<1>1. StepOf(t) /\ UNCHANGED <<aulQueElem, ulQueHead, held, pool, elem>>
  BY DEF StepOf, QuePublish
<1>2. at[t] = "publish" /\ at'[t] = "done"
  BY DEF QuePublish, Goes, TypeOK
<1>3. HeldOf(p)' = HeldOf(p)
  BY <1>1 DEF HeldOf, Indices
<1>4. t \notin Carriers(p)'
  BY <1>2 DEF Carriers, Carrying
<1>5. CASE p # pool[t]
  <2>1. t \notin Carriers(p)
    BY <1>5 DEF Carriers
  <2>2. /\ aulQueElem'[p] = aulQueElem[p]
        /\ ulQueHead'[p] = ulQueHead[p] /\ ulQueTail'[p] = ulQueTail[p]
    BY <1>1, <1>5, RingStill
  <2> QED
    BY <1>1, <1>3, <1>4, <2>1, <2>2, HandsStay, FilledStays, Kept DEF BlocksConserved
<1>6. CASE p = pool[t]
  <2> DEFINE l == ulQueTail[p]  x == elem[t]
  <2>1. Succ(p, l) # ulQueHead[p] /\ x = aulQueElem[p][l] /\ RingEnds(p)
    BY <1>2, <1>6 DEF Publishing, TypeOK, RingEnds
  <2>2. ulQueTail'[p] = Succ(p, l) /\ ulQueHead'[p] = ulQueHead[p]
    BY <1>1, <1>6 DEF QuePublish, TypeOK
  <2>3. Filled(p)' = Filled(p) \cup {l} /\ l \notin Filled(p)
    BY <2>1, <2>2, FilledPut
  <2>4. Conserved(p) /\ t \in Carriers(p)
    BY <1>2, <1>6 DEF BlocksConserved, Carriers, Carrying
  <2>5. /\ Carriers(p)' = Carriers(p) \ {t}
        /\ CarriedOf(p)' = CarriedOf(p) \ {x}
        /\ \A u \in Carriers(p)' : elem'[u] = elem[u]
    BY <1>1, <1>4, <2>4, HandsGive
  <2>6. FreeOf(p)' = FreeOf(p) \cup {x}
    BY <1>1, <2>1, <2>3 DEF FreeOf
  <2>7. x \in CarriedOf(p)
    BY <2>4 DEF CarriedOf
  <2>8. Indices(p)' = Indices(p)
    BY DEF Indices
  <2>9. \A i \in Filled(p) : aulQueElem[p][i] # x
    BY <2>4, <2>7 DEF Conserved, FreeOf
  <2> HIDE DEF x, l
  <2>10. /\ (FreeOf(p) \cup CarriedOf(p) \cup HeldOf(p) = Indices(p))'
         /\ (FreeOf(p) \cap CarriedOf(p) = {})'
         /\ (FreeOf(p) \cap HeldOf(p) = {})'
         /\ (CarriedOf(p) \cap HeldOf(p) = {})'
    BY <1>3, <2>4, <2>5, <2>6, <2>7, <2>8 DEF Conserved
  <2>11. (\A i, j \in Filled(p) : aulQueElem[p][i] = aulQueElem[p][j] => i = j)'
    BY <1>1, <2>1, <2>3, <2>4, <2>9 DEF Conserved
  <2>12. (\A u, v \in Carriers(p) : elem[u] = elem[v] => u = v)'
    BY <2>4, <2>5 DEF Conserved
  <2> QED
    BY <2>10, <2>11, <2>12 DEF Conserved
<1> QED
  BY <1>5, <1>6

-----------------------------------------------------------------------------
(* The theorems.                                                           *)

LEMMA InvariantInit == Init => PoolInvariant
<1> SUFFICES ASSUME Init PROVE PoolInvariant
  OBVIOUS
<1>1. TypeOK
  BY TypeInit
<1>2. Exclusive /\ Advancing /\ Publishing /\ Carried
  BY PoolAssumption DEF Init, Exclusive, Critical, Advancing, Publishing, Carried
<1>3. ASSUME NEW p \in Pools PROVE Conserved(p)
  <2>1. /\ aulBlockNum[p] \in Nat \ {0} /\ Indices(p) = 0 .. aulBlockNum[p] - 1
        /\ Slots(p) = 0 .. aulBlockNum[p]
    BY PoolFacts
  <2>2. Filled(p) = Indices(p)
    BY <2>1 DEF Init, Filled
  <2>3. \A i \in Indices(p) : aulQueElem[p][i] = i
    BY <2>1 DEF Init
  <2>4. FreeOf(p) = Indices(p)
    BY <2>2, <2>3 DEF FreeOf
  <2>5. Carriers(p) = {} /\ CarriedOf(p) = {} /\ HeldOf(p) = {}
    BY DEF Init, Carriers, Carrying, CarriedOf, HeldOf
  <2> QED
    BY <2>2, <2>3, <2>4, <2>5 DEF Conserved
<1> QED
  BY <1>1, <1>2, <1>3 DEF PoolInvariant, BlocksConserved

LEMMA InvariantStep == PoolInvariant /\ [Next]_memVars => PoolInvariant'
<1> SUFFICES ASSUME PoolInvariant, [Next]_memVars PROVE PoolInvariant'
  OBVIOUS
<1>1. TypeOK' /\ Exclusive' /\ Advancing' /\ Publishing' /\ Carried'
  BY TypeStep, ExclusiveStep, AdvancingStep, PublishingStep, CarriedStep DEF PoolInvariant
<1>2. BlocksConserved'
  <2> USE DEF PoolInvariant
  <2>1. CASE UNCHANGED memVars
    BY <2>1 DEF memVars, BlocksConserved, Conserved, Pools, Indices, FreeOf, Filled,
                CarriedOf, Carriers, HeldOf
  <2>2. CASE Next
    BY <2>2, StillKept, PutKept, AdvanceConserves, TookConserves, FreeConserves,
       PublishConserves DEF Next
  <2> QED
    BY <2>1, <2>2
<1> QED
  BY <1>1, <1>2 DEF PoolInvariant

\* pf_malloc and pf_free stay within their tables and rings.
THEOREM TypeCorrect == Spec => []TypeOK
<1>1. PoolInvariant => TypeOK
  BY DEF PoolInvariant
<1> QED
  BY <1>1, InvariantInit, InvariantStep, PTL DEF Spec

\* pl_commbuf_get, pl_commbuf_ret: whatever the threads ask for and free, every
\* block is in the ring once, in one hand, or handed out once.
THEOREM EveryBlockOnce == Spec => []BlocksConserved
<1>1. PoolInvariant => BlocksConserved
  BY DEF PoolInvariant
<1> QED
  BY <1>1, InvariantInit, InvariantStep, PTL DEF Spec

\* pl_que_put: the full ring, whose refusal would lose the block, is never met.
THEOREM NoReturnRefused ==
  Spec => [](\A t \in Threads : at[t] = "put" =>
               Succ(pool[t], ulQueTail[pool[t]]) # ulQueHead[pool[t]])
<1>1. PoolInvariant => \A t \in Threads : at[t] = "put" =>
                         Succ(pool[t], ulQueTail[pool[t]]) # ulQueHead[pool[t]]
  BY NeverFull DEF PoolInvariant
<1> QED
  BY <1>1, InvariantInit, InvariantStep, PTL DEF Spec

-----------------------------------------------------------------------------
(* The pools as an allocator.                                              *)

\* The blocks on their way back.
Given == {InHand(t) : t \in {u \in Threads : at[u] \in Returning}}

\* Who has a block in hand has one of its pool, which nobody else has.
LEMMA HandFacts ==
  ASSUME PoolInvariant, NEW t \in Threads, at[t] \in Carrying
  PROVE  /\ pool[t] \in Pools /\ elem[t] \in Indices(pool[t])
         /\ t \in Carriers(pool[t]) /\ elem[t] \in CarriedOf(pool[t])
         /\ InHand(t) \in Addresses /\ PoolOf(InHand(t)) = pool[t]
<1>1. pool[t] \in Pools /\ Conserved(pool[t])
  BY DEF PoolInvariant, TypeOK, BlocksConserved
<1>2. t \in Carriers(pool[t]) /\ elem[t] \in CarriedOf(pool[t])
  BY DEF Carriers, CarriedOf
<1>3. elem[t] \in Indices(pool[t])
  BY <1>1, <1>2 DEF Conserved
<1> QED
  BY <1>1, <1>2, <1>3, AddressBack DEF InHand

\* Addresses are counted from zero.
LEMMA AddressesAreNat == Addresses \subseteq Nat
<1> SUFFICES ASSUME NEW p \in Pools, NEW b \in Indices(p) PROVE Address(p, b) \in Nat
  BY DEF Addresses
<1>1. p \in Nat /\ b \in Nat /\ aulBlockSize[p] \in Nat
  BY PoolAssumption, PoolFacts DEF Pools
<1>2. ulBlockPoolUnit \in Nat
  <2>1. 0 \in Pools
    BY PoolAssumption DEF Pools
  <2> QED
    BY <2>1, PoolAssumption DEF ulBlockPoolUnit
<1>3. \A x, y \in Nat : x * y \in Nat
  OBVIOUS
<1>4. p * ulBlockPoolUnit \in Nat /\ b * aulBlockSize[p] \in Nat
  BY <1>1, <1>2, <1>3
<1> QED
  BY <1>4 DEF Address

\* No two threads have the same block in hand.
LEMMA HandsDiffer ==
  ASSUME PoolInvariant, NEW t \in Threads, NEW u \in Threads,
         at[t] \in Carrying, at[u] \in Carrying, InHand(t) = InHand(u)
  PROVE  t = u
<1>1. pool[t] = pool[u] /\ elem[t] = elem[u]
  BY HandFacts, AddressTells DEF InHand
<1>2. Conserved(pool[t])
  BY HandFacts DEF PoolInvariant, BlocksConserved
<1> QED
  BY <1>1, <1>2, HandFacts DEF Conserved

\* A block in hand is neither handed out nor in the ring.
LEMMA HandIsAlone ==
  ASSUME PoolInvariant, NEW t \in Threads, at[t] \in Carrying
  PROVE  InHand(t) \notin held /\ elem[t] \notin FreeOf(pool[t])
<1>1. Conserved(pool[t])
  BY HandFacts DEF PoolInvariant, BlocksConserved
<1>2. elem[t] \notin FreeOf(pool[t]) /\ elem[t] \notin HeldOf(pool[t])
  BY <1>1, HandFacts DEF Conserved
<1> QED
  BY <1>2, HandFacts DEF HeldOf, InHand

\* A free block by its address: its index is in the ring of its pool, or has
\* just been taken from there.
LEMMA WhichAreFree ==
  ASSUME PoolInvariant
  PROVE  FreeBlocks = {a \in Addresses : \/ IndexOf(PoolOf(a), a) \in FreeOf(PoolOf(a))
                                        \/ \E t \in Threads : at[t] = "took" /\ InHand(t) = a}
<1>1. \A p \in Pools : FreeOf(p) \subseteq Indices(p)
  BY DEF PoolInvariant, BlocksConserved, Conserved
<1>2. ASSUME NEW p \in Pools, NEW b \in FreeOf(p)
      PROVE  /\ Address(p, b) \in Addresses
             /\ PoolOf(Address(p, b)) = p /\ IndexOf(p, Address(p, b)) = b
  BY <1>1, <1>2, AddressBack
<1>3. ASSUME NEW t \in Threads, at[t] = "took" PROVE InHand(t) \in Addresses
  BY <1>3, HandFacts DEF Carrying
<1>4. ASSUME NEW a \in Addresses, IndexOf(PoolOf(a), a) \in FreeOf(PoolOf(a))
      PROVE  a \in FreeBlocks
  BY <1>4, Located DEF FreeBlocks
<1>5. ASSUME NEW t \in Threads, at[t] = "took" PROVE InHand(t) \in FreeBlocks
  BY <1>5 DEF FreeBlocks
<1>6. ASSUME NEW a \in FreeBlocks
      PROVE  \/ \E p \in Pools : \E b \in FreeOf(p) : a = Address(p, b)
             \/ \E t \in Threads : at[t] = "took" /\ a = InHand(t)
  BY DEF FreeBlocks
<1> QED
  BY <1>2, <1>3, <1>4, <1>5, <1>6

\* The free blocks are those that are not handed out and not on their way back.
LEMMA FreeIsRest == PoolInvariant => FreeBlocks = Addresses \ (held \cup Given)
<1> SUFFICES ASSUME PoolInvariant, NEW a \in Addresses
             PROVE  a \in FreeBlocks <=> a \notin held \cup Given
  BY WhichAreFree
<1> DEFINE p == PoolOf(a)  b == IndexOf(p, a)
<1>1. p \in Pools /\ b \in Indices(p) /\ Address(p, b) = a
  BY Located
<1>2. a \in FreeBlocks <=> \/ b \in FreeOf(p)
                           \/ \E t \in Threads : at[t] = "took" /\ InHand(t) = a
  BY WhichAreFree
<1> HIDE DEF p, b
<1>3. Conserved(p) /\ (a \in held <=> b \in HeldOf(p))
  BY <1>1 DEF PoolInvariant, BlocksConserved, HeldOf
<1>4. b \in CarriedOf(p) <=> \E t \in Threads : at[t] \in Carrying /\ InHand(t) = a
  <2>1. ASSUME NEW t \in Threads, at[t] \in Carrying, InHand(t) = a PROVE b \in CarriedOf(p)
    <3>1. pool[t] = p /\ elem[t] = b
      BY <1>1, <2>1, HandFacts, AddressTells DEF InHand
    <3> QED
      BY <2>1, <3>1, HandFacts
  <2>2. ASSUME b \in CarriedOf(p) PROVE \E t \in Threads : at[t] \in Carrying /\ InHand(t) = a
    BY <1>1, <2>2 DEF CarriedOf, Carriers, InHand
  <2> QED
    BY <2>1, <2>2
<1>5. a \in Given <=> \E t \in Threads : at[t] \in Returning /\ InHand(t) = a
  BY DEF Given
<1>6. ASSUME NEW t \in Threads, NEW u \in Threads, at[t] = "took", at[u] \in Returning,
             InHand(t) = a, InHand(u) = a
      PROVE  FALSE
  BY <1>6, HandsDiffer DEF Carrying, Returning
<1>7. \A t \in Threads : at[t] \in Carrying <=> at[t] = "took" \/ at[t] \in Returning
  BY DEF Carrying, Returning
<1> QED
  BY <1>1, <1>2, <1>3, <1>4, <1>5, <1>6, <1>7 DEF Conserved

\* A step changes what its thread asks for and gives back.
LEMMA AsksOfOne ==
  ASSUME TypeOK, NEW t \in Threads, StepOf(t)
  PROVE  /\ ClassesAsked' = [ClassesAsked EXCEPT ![t] = ClassAsked(t)']
         /\ BlocksReturned' = [BlocksReturned EXCEPT ![t] = BlockReturned(t)']
         /\ ClassesAsked[t] = ClassAsked(t) /\ BlocksReturned[t] = BlockReturned(t)
<1>1. ASSUME NEW u \in Threads, u # t
      PROVE  ClassAsked(u)' = ClassAsked(u) /\ BlockReturned(u)' = BlockReturned(u)
  <2>1. at'[u] = at[u] /\ pool'[u] = pool[u] /\ elem'[u] = elem[u]
    BY <1>1, Apart
  <2> QED
    BY <2>1 DEF ClassAsked, BlockReturned, InHand, Pools
<1> QED
  BY <1>1 DEF ClassesAsked, BlocksReturned

\* ... and which blocks are on their way back.
LEMMA GivenStays ==
  ASSUME TypeOK, NEW t \in Threads, StepOf(t),
         at[t] \in Returning <=> at'[t] \in Returning,
         at[t] \in Returning => pool'[t] = pool[t] /\ elem'[t] = elem[t]
  PROVE  Given' = Given /\ BlockReturned(t)' = BlockReturned(t)
<1>1. \A u \in Threads : /\ at[u] \in Returning <=> at'[u] \in Returning
                         /\ at[u] \in Returning => InHand(u)' = InHand(u)
  BY Apart DEF InHand
<1> QED
  BY <1>1 DEF Given, BlockReturned

\* A block handed over is on its way back, or no more.
LEMMA GivenMore ==
  ASSUME TypeOK, NEW t \in Threads, StepOf(t), at[t] \notin Returning, at'[t] \in Returning
  PROVE  Given' = Given \cup {InHand(t)'}
<1>1. \A u \in Threads \ {t} : /\ at[u] \in Returning <=> at'[u] \in Returning
                               /\ InHand(u)' = InHand(u)
  BY Apart DEF InHand
<1> QED
  BY <1>1 DEF Given

\* ... and once its tail has moved it is not on its way any more.
LEMMA GivenLess ==
  ASSUME PoolInvariant, NEW t \in Threads, StepOf(t), at[t] \in Returning, at'[t] \notin Returning
  PROVE  Given' = Given \ {InHand(t)}
<1>1. \A u \in Threads \ {t} : /\ at[u] \in Returning <=> at'[u] \in Returning
                               /\ InHand(u)' = InHand(u)
  BY Apart DEF InHand, PoolInvariant
<1>2. \A u \in Threads : at[u] \in Returning /\ InHand(u) = InHand(t) => u = t
  BY HandsDiffer DEF Returning, Carrying
<1> QED
  BY <1>1, <1>2 DEF Given

\* The same after a step.
LEMMA FreeIsRestNext ==
  ASSUME PoolInvariant' PROVE FreeBlocks' = Addresses \ (held' \cup Given')
<1>1. (PoolInvariant => FreeBlocks = Addresses \ (held \cup Given))'
  BY FreeIsRest, PTL
<1> QED
  BY <1>1 DEF Addresses

\* pf_malloc asks for the smallest class that fits.
LEMMA MallocAsks ==
  ASSUME PoolInvariant, PoolInvariant', NEW t \in Threads, NEW size \in Requests, Malloc(t, size)
  PROVE  FirstPool(size) \in Pools /\ BA!Ask(t, FirstPool(size))
<1>1. /\ at[t] = "idle" /\ at'[t] = "get_lock" /\ pool'[t] = FirstPool(size) /\ held' = held
      /\ StepOf(t)
  BY DEF Malloc, Goes, StepOf, PoolInvariant, TypeOK
<1>2. Given' = Given /\ BlockReturned(t)' = BlockReturned(t)
  BY <1>1, GivenStays DEF PoolInvariant, Returning
<1>3. FreeBlocks' = FreeBlocks
  BY <1>1, <1>2, FreeIsRest, FreeIsRestNext
<1>4. ClassAsked(t) = -1 /\ BlockReturned(t) = -1
  BY <1>1 DEF ClassAsked, BlockReturned, Asking, Returning
<1>5. ClassAsked(t)' = FirstPool(size)
  BY <1>1 DEF ClassAsked, Asking
<1>6. /\ ClassesAsked' = [ClassesAsked EXCEPT ![t] = FirstPool(size)]
      /\ BlocksReturned' = BlocksReturned
      /\ ClassesAsked[t] = -1 /\ BlocksReturned[t] = -1
  BY <1>1, <1>2, <1>4, <1>5, AsksOfOne DEF PoolInvariant, BlocksReturned
<1> QED
  BY <1>1, <1>3, <1>6, PoolAssumption DEF BA!Ask, BA!Ready

\* pl_que_get has taken a block: it is granted when it is handed out.
LEMMA TookGrants ==
  ASSUME PoolInvariant, PoolInvariant', NEW t \in Threads, Took(t)
  PROVE  BA!Grant(t)
<1>1. /\ at[t] = "took" /\ at'[t] = "idle" /\ held' = held \cup {InHand(t)}
      /\ StepOf(t)
  BY DEF Took, Leaves, Goes, StepOf, PoolInvariant, TypeOK, InHand
<1>2. Given' = Given /\ BlockReturned(t)' = BlockReturned(t)
  BY <1>1, GivenStays DEF PoolInvariant, Returning
<1>3. FreeBlocks' = FreeBlocks \ {InHand(t)}
  BY <1>1, <1>2, FreeIsRest, FreeIsRestNext
<1>4. InHand(t) \in FreeBlocks /\ InHand(t) \in Addresses /\ PoolOf(InHand(t)) = pool[t]
  BY <1>1, HandFacts, WhichAreFree DEF Carrying
<1>5. ClassAsked(t) = pool[t] /\ ClassAsked(t)' = -1
  BY <1>1 DEF ClassAsked, Asking
<1>6. /\ ClassesAsked' = [ClassesAsked EXCEPT ![t] = -1]
      /\ BlocksReturned' = BlocksReturned
      /\ ClassesAsked[t] = pool[t]
  BY <1>1, <1>2, <1>5, AsksOfOne DEF PoolInvariant, BlocksReturned
<1> QED
  <2>1. ClassesAsked[t] # -1
    BY <1>6, PoolAssumption DEF PoolInvariant, TypeOK, Pools
  <2> QED
    BY <1>1, <1>3, <1>4, <1>6, <2>1 DEF BA!Grant

\* An empty ring, seen under its lock, is a class without a free block.
LEMMA EmptyPassesOn ==
  ASSUME PoolInvariant, PoolInvariant', NEW t \in Threads, QueGet(t),
         ulQueHead[pool[t]] = ulQueTail[pool[t]]
  PROVE  BA!PassOn(t)
<1> DEFINE p == pool[t]
<1>1. /\ at[t] = "get" /\ at'[t] = "missed" /\ held' = held /\ pool' = pool
      /\ StepOf(t)
  BY DEF QueGet, Goes, StepOf, PoolInvariant, TypeOK
<1>2. Given' = Given /\ BlockReturned(t)' = BlockReturned(t)
  BY <1>1, GivenStays DEF PoolInvariant, Returning
<1>3. FreeBlocks' = FreeBlocks
  BY <1>1, <1>2, FreeIsRest, FreeIsRestNext
<1>4. p \in Pools /\ RingEnds(p)
  BY DEF PoolInvariant, TypeOK, RingEnds
<1>5. FreeOf(p) = {}
  <2>1. Filled(p) = {}
    BY <1>4, PoolFacts DEF RingEnds, Filled
  <2> QED
    BY <2>1 DEF FreeOf
<1>6. ASSUME NEW a \in FreeBlocks, PoolOf(a) = p PROVE FALSE
  <2>1. PICK u \in Threads : at[u] = "took" /\ InHand(u) = a
    BY <1>5, <1>6, WhichAreFree
  <2>2. pool[u] = p
    BY <1>6, <2>1, HandFacts DEF Carrying
  <2>3. u = t
    BY <1>1, <2>1, <2>2, OneInside DEF PoolInvariant, Critical
  <2> QED
    BY <1>1, <2>1, <2>3
<1>7. ClassAsked(t) = p /\ ClassAsked(t)' = (IF p + 1 \in Pools THEN p + 1 ELSE -1)
  BY <1>1 DEF ClassAsked, Asking, Pools
<1>8. p # -1
  BY <1>4 DEF Pools
<1>9. /\ ClassesAsked' = [ClassesAsked EXCEPT ![t] = IF p + 1 \in Pools THEN p + 1 ELSE -1]
      /\ BlocksReturned' = BlocksReturned
      /\ ClassesAsked[t] = p
  BY <1>1, <1>2, <1>7, AsksOfOne DEF PoolInvariant, BlocksReturned
<1>10. FreeBlocks \subseteq Addresses
  BY WhichAreFree
<1> HIDE DEF p
<1> QED
  BY <1>1, <1>3, <1>6, <1>8, <1>9, <1>10 DEF BA!PassOn

\* pf_free starts to give a block back.
LEMMA FreeReturns ==
  ASSUME PoolInvariant, PoolInvariant', NEW t \in Threads, NEW a \in held, Free(t, a)
  PROVE  BA!Return(t, a)
<1>1. /\ at[t] = "idle" /\ at'[t] = "put_lock" /\ held' = held \ {a}
      /\ pool'[t] = PoolOf(a) /\ elem'[t] = IndexOf(PoolOf(a), a)
      /\ StepOf(t)
  BY DEF Free, Goes, StepOf, PoolInvariant, TypeOK
<1>2. a \in Addresses
  BY DEF PoolInvariant, TypeOK
<1>3. InHand(t)' = a
  BY <1>1, <1>2, Located DEF InHand
<1>4. Given' = Given \cup {a}
  BY <1>1, <1>3, GivenMore DEF PoolInvariant, Returning
<1>5. FreeBlocks' = FreeBlocks
  BY <1>1, <1>4, FreeIsRest, FreeIsRestNext
<1>6. /\ ClassAsked(t) = -1 /\ ClassAsked(t)' = -1
      /\ BlockReturned(t) = -1 /\ BlockReturned(t)' = a
  BY <1>1, <1>3 DEF ClassAsked, BlockReturned, Asking, Returning
<1>7. /\ BlocksReturned' = [BlocksReturned EXCEPT ![t] = a]
      /\ ClassesAsked' = ClassesAsked
      /\ ClassesAsked[t] = -1 /\ BlocksReturned[t] = -1
  BY <1>1, <1>6, AsksOfOne DEF PoolInvariant, ClassesAsked
<1> QED
  BY <1>1, <1>5, <1>7 DEF BA!Return, BA!Ready

\* The new tail of the ring makes the block free again.
LEMMA PublishReleases ==
  ASSUME PoolInvariant, PoolInvariant', NEW t \in Threads, QuePublish(t)
  PROVE  BA!Release(t)
<1>1. /\ at[t] = "publish" /\ at'[t] = "done" /\ held' = held /\ StepOf(t)
  BY DEF QuePublish, Goes, StepOf, PoolInvariant, TypeOK
<1>2. /\ Given' = Given \ {InHand(t)} /\ InHand(t) \in Given
  BY <1>1, GivenLess DEF Returning, Given
<1>3. InHand(t) \notin held /\ InHand(t) \in Addresses /\ InHand(t) # -1
  BY <1>1, HandFacts, HandIsAlone, AddressesAreNat DEF Carrying
<1>4. FreeBlocks' = FreeBlocks \cup {InHand(t)}
  BY <1>1, <1>2, <1>3, FreeIsRest, FreeIsRestNext
<1>5. /\ ClassAsked(t) = -1 /\ ClassAsked(t)' = -1
      /\ BlockReturned(t) = InHand(t) /\ BlockReturned(t)' = -1
  BY <1>1 DEF ClassAsked, BlockReturned, Asking, Returning
<1>6. /\ BlocksReturned' = [BlocksReturned EXCEPT ![t] = -1]
      /\ ClassesAsked' = ClassesAsked
      /\ BlocksReturned[t] = InHand(t)
  BY <1>1, <1>5, AsksOfOne DEF PoolInvariant, ClassesAsked
<1> QED
  BY <1>1, <1>3, <1>4, <1>6 DEF BA!Release

\* The other steps are nobody's business but the thread's.
LEMMA OthersStutter ==
  ASSUME PoolInvariant, PoolInvariant', NEW t \in Threads,
         \/ Lock(t) \/ QueAdvance(t) \/ Missed(t) \/ QuePut(t) \/ Returned(t)
         \/ QueGet(t) /\ ulQueHead[pool[t]] # ulQueTail[pool[t]]
  PROVE  UNCHANGED BA!vars
<1>1. StepOf(t) /\ held' = held
  BY DEF StepOf, Lock, QueAdvance, Missed, QuePut, Returned, QueGet
<1>2. /\ at[t] \in Returning <=> at'[t] \in Returning
      /\ at[t] \in Returning => pool'[t] = pool[t] /\ elem'[t] = elem[t]
  BY NeverFull DEF PoolInvariant, TypeOK, Returning, Lock, QueAdvance, Missed, QuePut, Returned,
     QueGet, Goes, Leaves
<1>3. Given' = Given /\ BlockReturned(t)' = BlockReturned(t)
  BY <1>1, <1>2, GivenStays DEF PoolInvariant
<1>4. FreeBlocks' = FreeBlocks
  BY <1>1, <1>3, FreeIsRest, FreeIsRestNext
<1>5. ClassAsked(t)' = ClassAsked(t)
  <2>1. CASE Missed(t)
    BY <2>1 DEF Missed, PoolInvariant, TypeOK, Goes, Leaves, ClassAsked, Asking, Pools
  <2>2. CASE ~Missed(t)
    <3>1. /\ pool'[t] = pool[t] \/ at'[t] = "idle"
          /\ at[t] # "missed" /\ at'[t] # "missed"
          /\ at[t] \in Asking <=> at'[t] \in Asking
      BY <2>2 DEF PoolInvariant, TypeOK, Asking, Lock, QueAdvance, QuePut, Returned,
         QueGet, Goes, Leaves
    <3> QED
      BY <3>1 DEF ClassAsked, Asking, Pools
  <2> QED
    BY <2>1, <2>2
<1>6. ClassesAsked' = ClassesAsked /\ BlocksReturned' = BlocksReturned
  BY <1>1, <1>3, <1>5, AsksOfOne DEF PoolInvariant, ClassesAsked, BlocksReturned
<1> QED
  BY <1>1, <1>4, <1>6 DEF BA!vars

\* A step of the pools is one of the allocator, or is not seen.
LEMMA AllocatorStep ==
  PoolInvariant /\ PoolInvariant' /\ [Next]_memVars => [BA!Next]_(BA!vars)
<1> SUFFICES ASSUME PoolInvariant, PoolInvariant', [Next]_memVars
             PROVE  [BA!Next]_(BA!vars)
  OBVIOUS
<1>1. CASE UNCHANGED memVars
  BY <1>1 DEF memVars, BA!vars, FreeBlocks, ClassesAsked, BlocksReturned, ClassAsked, BlockReturned,
     InHand, FreeOf, Filled, Addresses, Pools
<1>2. ASSUME NEW t \in Threads, NEW size \in Requests, Malloc(t, size) PROVE BA!Next
  BY <1>2, MallocAsks DEF BA!Next
<1>3. ASSUME NEW t \in Threads, NEW a \in held, Free(t, a) PROVE BA!Next
  BY <1>3, FreeReturns DEF BA!Next
<1>4. ASSUME NEW t \in Threads, Took(t) PROVE BA!Next
  BY <1>4, TookGrants DEF BA!Next
<1>5. ASSUME NEW t \in Threads, QuePublish(t) PROVE BA!Next
  BY <1>5, PublishReleases DEF BA!Next
<1>6. ASSUME NEW t \in Threads, QueGet(t), ulQueHead[pool[t]] = ulQueTail[pool[t]] PROVE BA!Next
  BY <1>6, EmptyPassesOn DEF BA!Next
<1>7. ASSUME NEW t \in Threads,
             \/ Lock(t) \/ QueAdvance(t) \/ Missed(t) \/ QuePut(t) \/ Returned(t)
             \/ QueGet(t) /\ ulQueHead[pool[t]] # ulQueTail[pool[t]]
      PROVE  UNCHANGED BA!vars
  BY <1>7, OthersStutter
<1> QED
  BY <1>1, <1>2, <1>3, <1>4, <1>5, <1>6, <1>7 DEF Next

\* With full rings every block is free.
LEMMA AllocatorInit == Init => BA!Init
<1> SUFFICES ASSUME Init PROVE BA!Init
  OBVIOUS
<1>1. FreeBlocks = Addresses
  <2>1. Given = {} /\ held = {}
    BY DEF Given, Init, Returning
  <2> QED
    BY <2>1, InvariantInit, FreeIsRest
<1>2. \A t \in Threads : ClassAsked(t) = -1 /\ BlockReturned(t) = -1
  BY DEF Init, ClassAsked, BlockReturned, Asking, Returning
<1> QED
  BY <1>1, <1>2 DEF BA!Init, Init, ClassesAsked, BlocksReturned

\* pf_malloc and pf_free, whose rings take a lock and several steps each,
\* are an allocator whose every grant and release is a single step.
THEOREM PoolsImplementAllocator == Spec => AllocatorSpec
BY AllocatorInit, InvariantInit, InvariantStep, AllocatorStep, PTL DEF Spec, AllocatorSpec, BA!Spec
=============================================================================
