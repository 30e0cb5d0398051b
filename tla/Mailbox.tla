------------------------------ MODULE Mailbox -------------------------------
(***************************************************************************)
(* pf_mbox (common/if_pl/pf_mbox.h, platform/linux/pf_mbox.cpp): the ring  *)
(* buffer through which every thread of the process hands messages to a    *)
(* module thread, with the pf_copy_* senders in front of it and the        *)
(* msg_entry loop behind it.                                               *)
(*                                                                         *)
(* One mutex (qlock) protects the ring, so each critical section is one    *)
(* step.  One condition variable (qready) serves both directions: senders  *)
(* waiting for room and the module thread waiting for a message sleep in   *)
(* the same waitSet, and every operation wakes a single, arbitrary         *)
(* sleeper (pthread_cond_signal).                                          *)
(*                                                                         *)
(* A message longer than SHORT_PACK_SIZE travels in a block from pf_malloc *)
(* that the sender gives up to the mailbox and msg.free() releases; a      *)
(* shorter one is copied into the slot itself.                             *)
(***************************************************************************)
EXTENDS Integers, Sequences, FiniteSets

CONSTANTS
  Senders,   \* threads that send to this mailbox
  Module,    \* the module thread running msg_entry
  Messages,  \* message contents
  Long,      \* the messages with ulLength > SHORT_PACK_SIZE
  m_size,    \* QUEUE_SIZE, slots of the ring (one always stays free)
  None

(***************************************************************************)
(* The build gives a mailbox 128 or 16384 slots (MESSAGE_QUEUE_SIZE) and   *)
(* the process has a few dozen threads: never more senders than room.      *)
(***************************************************************************)
ASSUME MailboxAssumption ==
  /\ m_size \in Nat \ {0, 1}
  /\ IsFiniteSet(Senders)
  /\ Cardinality(Senders) <= m_size - 1
  /\ Module \notin Senders
  /\ Long \subseteq Messages
  /\ None \notin Messages

VARIABLES
  p_array, m_head, m_tail,  \* the ring
  waitSet,                  \* threads blocked in pthread_cond_wait(&qready)
  op, pmsg,                 \* each sender's pending operation and its message
  cmsg,                     \* the message msg_entry is dispatching, or None
  heap                      \* live pf_malloc blocks

ring       == <<p_array, m_head, m_tail>>
senderVars == <<op, pmsg>>
vars       == <<ring, waitSet, senderVars, cmsg, heap>>

Threads == Senders \cup {Module}

(***************************************************************************)
(* The four ways in: pf_copy_msg and pf_copy_msg2 (put), pf_copy_try_msg   *)
(* (try_put), pf_copy_urgent_msg (put_head), pf_copy_try_urgent_msg        *)
(* (try_put_head).  The *_copy_data variants differ only in where the      *)
(* bytes go.                                                               *)
(***************************************************************************)
Blocking    == {"put", "put_head"}
NonBlocking == {"try_put", "try_put_head"}
Urgent      == {"put_head", "try_put_head"}
Ops         == Blocking \cup NonBlocking

\* malloc'ed, not initialised: a slot holds nothing meaningful at first.
Init ==
  /\ p_array = [i \in 0..m_size-1 |-> None]
  /\ m_head = 0
  /\ m_tail = 0
  /\ waitSet = {}
  /\ op = [s \in Senders |-> "idle"]
  /\ pmsg = [s \in Senders |-> None]
  /\ cmsg = None
  /\ heap = 0

-----------------------------------------------------------------------------
Full  == (m_tail + 1) % m_size = m_head
Empty == m_tail = m_head

\* pf_mbox::size()
Size == (m_tail + m_size - m_head) % m_size

Blocks(m) == IF m \in Long THEN 1 ELSE 0

\* pthread_cond_signal(&qready): one sleeper wakes, whichever it is.
Signal ==
  \/ waitSet = {} /\ UNCHANGED waitSet
  \/ \E t \in waitSet : waitSet' = waitSet \ {t}

\* pthread_cond_wait(&qready, &qlock)
Wait(t) ==
  /\ waitSet' = waitSet \cup {t}
  /\ UNCHANGED <<ring, senderVars, cmsg, heap>>

\* A sender's call is over, and its message is no longer its own.
SenderReturns(s) ==
  /\ op' = [op EXCEPT ![s] = "idle"]
  /\ pmsg' = [pmsg EXCEPT ![s] = None]

-----------------------------------------------------------------------------
(* Senders                                                                 *)

\* pf_copy_*: a long message is first copied into a block of its own.  (A bad
\* destination or a failed pf_malloc returns before anything changes.)
Call(s, o, m) ==
  /\ op[s] = "idle"
  /\ op' = [op EXCEPT ![s] = o]
  /\ pmsg' = [pmsg EXCEPT ![s] = m]
  /\ heap' = heap + Blocks(m)
  /\ UNCHANGED <<ring, waitSet, cmsg>>

\* Mutant: no signal after the slot is filled.
StoreTailSilently(m) ==
  /\ p_array' = [p_array EXCEPT ![m_tail] = m]
  /\ m_tail' = (m_tail + 1) % m_size
  /\ UNCHANGED <<m_head, waitSet>>

\* The tail of put, put_copy_data, put_copy_data2, try_put, try_put_copy_data.
StoreTail(m) ==
  /\ p_array' = [p_array EXCEPT ![m_tail] = m]
  /\ m_tail' = (m_tail + 1) % m_size
  /\ UNCHANGED m_head
  /\ Signal

\* Mutant: the slot is filled before m_head is moved back.
StoreHeadLate(m) ==
  /\ m_head' = (m_head + m_size - 1) % m_size
  /\ p_array' = [p_array EXCEPT ![m_head] = m]
  /\ UNCHANGED m_tail
  /\ Signal

\* The tail of put_head, put_head_copy_data, try_put_head, try_put_head_copy_data.
StoreHead(m) ==
  /\ m_head' = (m_head + m_size - 1) % m_size
  /\ p_array' = [p_array EXCEPT ![m_head'] = m]
  /\ UNCHANGED m_tail
  /\ Signal

\* A running sender finds room, and its message enters the ring.
Put(s) ==
  /\ op[s] \in Ops
  /\ s \notin waitSet
  /\ ~Full
  /\ IF op[s] \in Urgent THEN StoreHead(pmsg[s]) ELSE StoreTail(pmsg[s])
  /\ SenderReturns(s)
  /\ UNCHANGED <<cmsg, heap>>

\* put, put_head on a full ring: sleep until signalled, then look again.
PutWaits(s) ==
  /\ op[s] \in Blocking
  /\ s \notin waitSet
  /\ Full
  /\ Wait(s)

\* Mutant: the caller forgets pf_free(mdata).
PutFailsLeaking(s) ==
  /\ \/ op[s] \in NonBlocking /\ Full
     \/ op[s] = "try_put_head"
  /\ SenderReturns(s)
  /\ UNCHANGED <<ring, waitSet, cmsg, heap>>

\* try_put, try_put_head on a full ring, or try_put_head when trylock finds
\* qlock taken: return false, and the pf_copy_* caller frees the block.
PutFails(s) ==
  /\ \/ op[s] \in NonBlocking /\ Full
     \/ op[s] = "try_put_head"
  /\ heap' = heap - Blocks(pmsg[s])
  /\ SenderReturns(s)
  /\ UNCHANGED <<ring, waitSet, cmsg>>

-----------------------------------------------------------------------------
(* The module thread                                                       *)

\* pf_get_message: get() copies the slot out, restore() points at the copy.
Get ==
  /\ cmsg = None
  /\ Module \notin waitSet
  /\ ~Empty
  /\ cmsg' = p_array[m_head]
  /\ m_head' = (m_head + 1) % m_size
  /\ UNCHANGED <<p_array, m_tail, senderVars, heap>>
  /\ Signal

GetWaits ==
  /\ cmsg = None
  /\ Module \notin waitSet
  /\ Empty
  /\ Wait(Module)

\* moduleArray[ulDstId](...) returns and msg.free() releases a long message.
Dispatched ==
  /\ cmsg # None
  /\ heap' = heap - Blocks(cmsg)
  /\ cmsg' = None
  /\ UNCHANGED <<ring, waitSet, senderVars>>

\* pthread_cond_wait may return without a signal (external: POSIX).
SpuriousWakeup(t) ==
  /\ t \in waitSet
  /\ waitSet' = waitSet \ {t}
  /\ UNCHANGED <<ring, senderVars, cmsg, heap>>

-----------------------------------------------------------------------------
SenderStep(s) == Put(s) \/ PutWaits(s) \/ PutFails(s)
ModuleStep    == Get \/ GetWaits \/ Dispatched

Next ==
  \/ \E s \in Senders, o \in Ops, m \in Messages : Call(s, o, m)
  \/ \E s \in Senders : SenderStep(s)
  \/ ModuleStep
  \/ \E t \in Threads : SpuriousWakeup(t)

Spec == Init /\ [][Next]_vars

\* Runnable threads run, handlers return.  No spurious wakeup is promised.
Fairness ==
  /\ WF_vars(ModuleStep)
  /\ \A s \in Senders : WF_vars(SenderStep(s))

FairSpec == Spec /\ Fairness

-----------------------------------------------------------------------------
(* Type invariant: indices stay inside the ring, threads and messages in   *)
(* their sets.                                                             *)
TypeOK ==
  /\ p_array \in [0..m_size-1 -> Messages \cup {None}]
  /\ m_head \in 0..m_size-1
  /\ m_tail \in 0..m_size-1
  /\ waitSet \subseteq Threads
  /\ op \in [Senders -> Ops \cup {"idle"}]
  /\ pmsg \in [Senders -> Messages \cup {None}]
  /\ cmsg \in Messages \cup {None}
  /\ heap \in Int

\* No lost wakeup, although one signal is shared by both directions: the
\* module thread sleeps only on an empty mailbox, and never beside a sleeping
\* sender; sleeping senders never outnumber the messages still to be taken.
NoLostWakeup ==
  /\ Module \in waitSet => Empty
  /\ Cardinality(waitSet \cap Senders) <= Size

\* Every block of a long message has exactly one owner: its sender, a slot
\* between m_head and m_tail, or the dispatching thread.
Contents == [i \in 1..Size |-> p_array[(m_head + i - 1) % m_size]]

HeapBalanced ==
  heap = Cardinality({s \in Senders : pmsg[s] \in Long})
       + Cardinality({i \in 1..Size : Contents[i] \in Long})
       + Blocks(cmsg)

\* The ring implements the promise of MessageQueue: nothing accepted is
\* lost, duplicated, altered or reordered at any fill level.
MQ == INSTANCE MessageQueue
        WITH Capacity <- m_size - 1, queue <- Contents, taken <- cmsg

QueueSpec == MQ!Spec

\* A mailbox that holds a message gets it dispatched: the module thread
\* never sleeps on work, whoever the signals wake.
Served == ~Empty ~> cmsg # None

=============================================================================
