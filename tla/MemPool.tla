------------------------------- MODULE MemPool -------------------------------
(***************************************************************************)
(* The memory every message and log line lives in: pf_malloc and pf_free   *)
(* (platform/linux/pf_ex.cpp, MEMORY_IN_MEMPOOL) over pl_commbuf_get and   *)
(* _ret and the ring of free block indices, pl_que_get and _put            *)
(* (pf_comm.cpp).  All pools take the same number of bytes of one region,  *)
(* so that an address tells its pool.  A block is often freed by another   *)
(* thread than the one that asked for it: a message by its receiver.       *)
(* Not modelled: what the heap of the C library serves (requests beyond    *)
(* the largest block, or when every pool that would do is empty), the      *)
(* counters, which only the log shows, and pf_realloc, which nothing in    *)
(* the service calls.                                                      *)
(***************************************************************************)
EXTENDS Integers, FiniteSets

CONSTANTS
  Threads, NoThread,
  MAX_MEMPOOL_NUMBER,
  aulBlockSize, aulBlockNum,     \* of each pool
  Granule,                       \* 1 << MAX_MEMPOOL_BIT_OFFSET
  aulMallocBufOffset,            \* the first pool to try, by granules
  Requests                       \* the sizes asked for in a run

Pools == 0 .. MAX_MEMPOOL_NUMBER - 1

Largest == aulBlockSize[MAX_MEMPOOL_NUMBER - 1]

Indices(p) == 0 .. aulBlockNum[p] - 1

ulBlockPoolUnit == aulBlockSize[0] * aulBlockNum[0]

\* Addresses count from pucMemPoolStart.
Address(p, b) == p * ulBlockPoolUnit + b * aulBlockSize[p]

Addresses == UNION {{Address(p, b) : b \in Indices(p)} : p \in Pools}

PoolOf(a) == a \div ulBlockPoolUnit

IndexOf(p, a) == (a - p * ulBlockPoolUnit) \div aulBlockSize[p]

\* The first pool pf_malloc tries.
FirstPool(size) == aulMallocBufOffset[(size - 1) \div Granule]

ASSUME PoolAssumption ==
  /\ MAX_MEMPOOL_NUMBER \in Nat \ {0}
  /\ aulBlockSize \in [Pools -> Nat \ {0}] /\ aulBlockNum \in [Pools -> Nat \ {0}]
  /\ Requests \subseteq 1 .. Largest
  /\ \A size \in Requests : FirstPool(size) \in Pools
  /\ NoThread \notin Threads

\* The table and the layout: a block of the first pool tried, and so of every
\* later one, is large enough, and pf_free finds the pool and the index of
\* every block again.
ASSUME LayoutAssumption ==
  /\ \A size \in 1 .. Largest : size <= aulBlockSize[FirstPool(size)]
  /\ \A p, q \in Pools : p < q => aulBlockSize[p] < aulBlockSize[q]
  /\ \A p \in Pools : \A b \in Indices(p) : /\ PoolOf(Address(p, b)) = p
                                            /\ IndexOf(p, Address(p, b)) = b

VARIABLES
  aulQueElem, ulQueHead, ulQueTail,   \* the ring of each pool
  qlock_mem,                          \* the owner of each pool's mutex
  at,                                 \* where each thread is
  pool, elem,                         \* the pool it works on, the index it handles
  held                                \* the addresses handed out and not yet freed

memVars == <<aulQueElem, ulQueHead, ulQueTail, qlock_mem, at, pool, elem, held>>

Slots(p) == 0 .. aulBlockNum[p]

\* pf_mem_pool_init: every index is free, in order; slot ulBlockNum is unused.
Init ==
  /\ aulQueElem = [p \in Pools |-> [i \in Slots(p) |-> IF i \in Indices(p) THEN i ELSE 0]]
  /\ ulQueHead = [p \in Pools |-> 0]
  /\ ulQueTail = [p \in Pools |-> aulBlockNum[p]]
  /\ qlock_mem = [p \in Pools |-> NoThread]
  /\ at = [t \in Threads |-> "idle"]
  /\ pool = [t \in Threads |-> 0]
  /\ elem = [t \in Threads |-> 0]
  /\ held = {}

\* The slot after the last one is the first.
Succ(p, i) == (i + 1) % (aulBlockNum[p] + 1)

Goes(t, where) == at' = [at EXCEPT ![t] = where]

\* The call returns; its variables are gone.
Leaves(t) ==
  /\ Goes(t, "idle")
  /\ pool' = [pool EXCEPT ![t] = 0]
  /\ elem' = [elem EXCEPT ![t] = 0]

-----------------------------------------------------------------------------
(* The mutex of a pool.                                                    *)

\* MUTANT of Lock: the mutex was never given to the pool (pMutex is NULL).
LockNothing(t) ==
  /\ at[t] \in {"get_lock", "put_lock"}
  /\ Goes(t, IF at[t] = "get_lock" THEN "get" ELSE "put")
  /\ UNCHANGED <<aulQueElem, ulQueHead, ulQueTail, qlock_mem, pool, elem, held>>

\* PF_MUTEX_LOCK, for a get or a put.
Lock(t) ==
  /\ at[t] \in {"get_lock", "put_lock"}
  /\ qlock_mem[pool[t]] = NoThread
  /\ qlock_mem' = [qlock_mem EXCEPT ![pool[t]] = t]
  /\ Goes(t, IF at[t] = "get_lock" THEN "get" ELSE "put")
  /\ UNCHANGED <<aulQueElem, ulQueHead, ulQueTail, pool, elem, held>>

-----------------------------------------------------------------------------
(* pf_malloc and pl_commbuf_get.                                           *)

Malloc(t, size) ==
  /\ at[t] = "idle"
  /\ pool' = [pool EXCEPT ![t] = FirstPool(size)]
  /\ Goes(t, "get_lock")
  /\ UNCHANGED <<aulQueElem, ulQueHead, ulQueTail, qlock_mem, elem, held>>

\* pl_que_get: the head is read, or the ring is empty.
QueGet(t) ==
  /\ at[t] = "get"
  /\ LET p == pool[t] IN
       IF ulQueHead[p] = ulQueTail[p]
         THEN Goes(t, "missed") /\ UNCHANGED elem
         ELSE Goes(t, "advance") /\ elem' = [elem EXCEPT ![t] = aulQueElem[p][ulQueHead[p]]]
  /\ UNCHANGED <<aulQueElem, ulQueHead, ulQueTail, qlock_mem, pool, held>>

\* The head moves on.
QueAdvance(t) ==
  /\ at[t] = "advance"
  /\ ulQueHead' = [ulQueHead EXCEPT ![pool[t]] = Succ(pool[t], @)]
  /\ Goes(t, "took")
  /\ UNCHANGED <<aulQueElem, ulQueTail, qlock_mem, pool, elem, held>>

\* The index becomes an address.
Took(t) ==
  /\ at[t] = "took"
  /\ qlock_mem' = [qlock_mem EXCEPT ![pool[t]] = NoThread]
  /\ held' = held \cup {Address(pool[t], elem[t])}
  /\ Leaves(t)
  /\ UNCHANGED <<aulQueElem, ulQueHead, ulQueTail>>

\* The next larger pool is tried; after the last one the C library is asked.
Missed(t) ==
  /\ at[t] = "missed"
  /\ qlock_mem' = [qlock_mem EXCEPT ![pool[t]] = NoThread]
  /\ IF pool[t] + 1 \in Pools
       THEN pool' = [pool EXCEPT ![t] = @ + 1] /\ Goes(t, "get_lock") /\ UNCHANGED elem
       ELSE Leaves(t)
  /\ UNCHANGED <<aulQueElem, ulQueHead, ulQueTail, held>>

-----------------------------------------------------------------------------
(* pf_free and pl_commbuf_ret.                                             *)

\* A live block is given back, by any thread.
Free(t, a) ==
  /\ at[t] = "idle" /\ a \in held
  /\ held' = held \ {a}
  /\ pool' = [pool EXCEPT ![t] = PoolOf(a)]
  /\ elem' = [elem EXCEPT ![t] = IndexOf(PoolOf(a), a)]
  /\ Goes(t, "put_lock")
  /\ UNCHANGED <<aulQueElem, ulQueHead, ulQueTail, qlock_mem>>

\* pl_que_put: a full ring refuses, and the block is lost; else it is written
\* at the tail.
QuePut(t) ==
  /\ at[t] = "put"
  /\ LET p == pool[t] IN
       IF Succ(p, ulQueTail[p]) = ulQueHead[p]
         THEN Goes(t, "done") /\ UNCHANGED aulQueElem
         ELSE /\ aulQueElem' = [aulQueElem EXCEPT ![p][ulQueTail[p]] = elem[t]]
              /\ Goes(t, "publish")
  /\ UNCHANGED <<ulQueHead, ulQueTail, qlock_mem, pool, elem, held>>

\* The tail moves on.
QuePublish(t) ==
  /\ at[t] = "publish"
  /\ ulQueTail' = [ulQueTail EXCEPT ![pool[t]] = Succ(pool[t], @)]
  /\ Goes(t, "done")
  /\ UNCHANGED <<aulQueElem, ulQueHead, qlock_mem, pool, elem, held>>

Returned(t) ==
  /\ at[t] = "done"
  /\ qlock_mem' = [qlock_mem EXCEPT ![pool[t]] = NoThread]
  /\ Leaves(t)
  /\ UNCHANGED <<aulQueElem, ulQueHead, ulQueTail, held>>

-----------------------------------------------------------------------------
Next ==
  \E t \in Threads :
    \/ \E size \in Requests : Malloc(t, size)
    \/ \E a \in held : Free(t, a)
    \/ Lock(t)
    \/ QueGet(t) \/ QueAdvance(t) \/ Took(t) \/ Missed(t)
    \/ QuePut(t) \/ QuePublish(t) \/ Returned(t)

Spec == Init /\ [][Next]_memVars

-----------------------------------------------------------------------------
Places == {"idle", "get_lock", "get", "advance", "took", "missed",
           "put_lock", "put", "publish", "done"}

TypeOK ==
  /\ aulQueElem = [p \in Pools |-> aulQueElem[p]]
  /\ \A p \in Pools : aulQueElem[p] \in [Slots(p) -> Indices(p)]
  /\ ulQueHead \in [Pools -> Nat] /\ ulQueTail \in [Pools -> Nat]
  /\ \A p \in Pools : ulQueHead[p] \in Slots(p) /\ ulQueTail[p] \in Slots(p)
  /\ qlock_mem \in [Pools -> Threads \cup {NoThread}]
  /\ at \in [Threads -> Places]
  /\ pool \in [Threads -> Pools]
  /\ elem \in [Threads -> Nat]
  /\ held \subseteq Addresses

\* The slots of a ring that hold a free index.
Filled(p) ==
  IF ulQueHead[p] <= ulQueTail[p] THEN ulQueHead[p] .. ulQueTail[p] - 1
  ELSE (ulQueHead[p] .. aulBlockNum[p]) \cup (0 .. ulQueTail[p] - 1)

\* The threads that have an index of the pool in hand: taken and not yet handed
\* out, or given back and not yet in the ring.
Carrying == {"took", "put_lock", "put", "publish"}

Carriers(p) == {t \in Threads : pool[t] = p /\ at[t] \in Carrying}

FreeOf(p)    == {aulQueElem[p][i] : i \in Filled(p)}
CarriedOf(p) == {elem[t] : t \in Carriers(p)}
HeldOf(p)    == {b \in Indices(p) : Address(p, b) \in held}

Conserved(p) ==
  /\ FreeOf(p) \cup CarriedOf(p) \cup HeldOf(p) = Indices(p)
  /\ FreeOf(p) \cap CarriedOf(p) = {}
  /\ FreeOf(p) \cap HeldOf(p) = {}
  /\ CarriedOf(p) \cap HeldOf(p) = {}
  /\ \A i, j \in Filled(p) : aulQueElem[p][i] = aulQueElem[p][j] => i = j
  /\ \A t, u \in Carriers(p) : elem[t] = elem[u] => t = u

\* pl_commbuf_get, pl_commbuf_ret: every block is in exactly one place, free in
\* the ring once, in the hand of one thread, or handed out.  So no two owners
\* ever share a block, no block is lost, and a return is never refused.
BlocksConserved == \A p \in Pools : Conserved(p)
-----------------------------------------------------------------------------
(* The allocator seen by the callers of pf_malloc and pf_free.  A block is *)
(* granted when it is handed out, and free again when the tail has moved.  *)

Asking    == {"get_lock", "get", "advance", "took"}
Returning == {"put_lock", "put", "publish"}

\* The block a thread handles, the class it asks for, the block it gives back.
InHand(t) == Address(pool[t], elem[t])

ClassAsked(t) ==
  IF at[t] \in Asking THEN pool[t]
  ELSE IF at[t] = "missed" /\ pool[t] + 1 \in Pools THEN pool[t] + 1 ELSE -1

BlockReturned(t) == IF at[t] \in Returning THEN InHand(t) ELSE -1

ClassesAsked   == [t \in Threads |-> ClassAsked(t)]
BlocksReturned == [t \in Threads |-> BlockReturned(t)]

FreeBlocks ==
  {InHand(t) : t \in {u \in Threads : at[u] = "took"}}
    \cup UNION {{Address(p, b) : b \in FreeOf(p)} : p \in Pools}

BA == INSTANCE BlockAllocator
        WITH Blocks <- Addresses, Classes <- Pools, None <- -1,
             Class <- [a \in Addresses |-> PoolOf(a)],
             free <- FreeBlocks, used <- held,
             asks <- ClassesAsked, returns <- BlocksReturned

\* The rings keep the promise of BlockAllocator: a get and a put of several
\* steps each are one step to everybody else, no block is granted that is not
\* free, and a larger one, or none, only for want of one that fits.
AllocatorSpec == BA!Spec
=============================================================================
