---------------------------- MODULE MailboxProofs ---------------------------
(***************************************************************************)
(* Proofs about the mailbox ring, for every ring size, every set of        *)
(* messages and every set of at most m_size - 1 senders.                   *)
(***************************************************************************)
EXTENDS Mailbox, FiniteSetTheorems, SequenceTheorems, TLAPS

\* Reduction of an index that left the ring by less than one turn.
LEMMA Wrap ==
  ASSUME NEW n \in Nat \ {0}, NEW a \in 0..(2*n - 1)
  PROVE  a % n = IF a < n THEN a ELSE a - n
<1>1. CASE a < n
  BY <1>1
<1>2. CASE a >= n
  <2>1. a - n \in 0..(n-1)
    BY <1>2
  <2>2. (a - n) % n = a - n
    BY <2>1
  <2>3. a % n = (a - n) % n
    BY <1>2
  <2> QED
    BY <2>2, <2>3, <1>2
<1> QED
  BY <1>1, <1>2

\* The three index computations of the ring, without the modulus.
LEMMA NextIndex ==
  ASSUME NEW i \in 0..m_size-1
  PROVE  (i + 1) % m_size = IF i = m_size - 1 THEN 0 ELSE i + 1
<1> DEFINE a == i + 1
<1>1. m_size \in Nat \ {0} /\ a \in 0..(2*m_size - 1)
  BY MailboxAssumption
<1> HIDE DEF a
<1>2. a % m_size = IF a < m_size THEN a ELSE a - m_size
  BY <1>1, Wrap
<1> QED
  BY <1>1, <1>2 DEF a

(* Moving an index back, as put_head does with m_head, stays in the ring. *)
LEMMA PreviousIndex ==
  ASSUME NEW i \in 0..m_size-1
  PROVE  (i + m_size - 1) % m_size = IF i = 0 THEN m_size - 1 ELSE i - 1
<1> DEFINE a == i + m_size - 1
<1>1. m_size \in Nat \ {0} /\ a \in 0..(2*m_size - 1)
  BY MailboxAssumption
<1> HIDE DEF a
<1>2. a % m_size = IF a < m_size THEN a ELSE a - m_size
  BY <1>1, Wrap
<1> QED
  BY <1>1, <1>2 DEF a

(* The distance size() computes is the plain difference, or that plus the *)
(* length of the ring once m_tail has wrapped and m_head has not.         *)
LEMMA RingDistance ==
  ASSUME NEW h \in 0..m_size-1, NEW t \in 0..m_size-1
  PROVE  (t + m_size - h) % m_size = IF t >= h THEN t - h ELSE t - h + m_size
<1> DEFINE a == t + m_size - h
<1>1. m_size \in Nat \ {0} /\ a \in 0..(2*m_size - 1)
  BY MailboxAssumption
<1> HIDE DEF a
<1>2. a % m_size = IF a < m_size THEN a ELSE a - m_size
  BY <1>1, Wrap
<1> QED
  BY <1>1, <1>2 DEF a

\* What size() and the full and empty tests say of each other.
LEMMA SizeFacts ==
  ASSUME TypeOK
  PROVE  /\ Size \in 0..m_size-1
         /\ Empty <=> Size = 0
         /\ Full <=> Size = m_size - 1
<1>0. m_size \in Nat \ {0, 1} /\ m_head \in 0..m_size-1 /\ m_tail \in 0..m_size-1
  BY MailboxAssumption DEF TypeOK
<1>1. Size = IF m_tail >= m_head THEN m_tail - m_head ELSE m_tail - m_head + m_size
  BY <1>0, RingDistance DEF Size
<1>2. (m_tail + 1) % m_size = IF m_tail = m_size - 1 THEN 0 ELSE m_tail + 1
  BY <1>0, NextIndex
<1> QED
  BY <1>0, <1>1, <1>2 DEF Empty, Full

\* A stored message, at either end, adds one to size(); a get takes one off.
LEMMA SizeSteps ==
  ASSUME TypeOK
  PROVE  /\ \A m : ~Full /\ StoreTail(m) => Size' = Size + 1
         /\ \A m : ~Full /\ StoreHead(m) => Size' = Size + 1
         /\ Get => Size' = Size - 1
<1>0. m_size \in Nat \ {0, 1} /\ m_head \in 0..m_size-1 /\ m_tail \in 0..m_size-1
  BY MailboxAssumption DEF TypeOK
<1>1. Size = IF m_tail >= m_head THEN m_tail - m_head ELSE m_tail - m_head + m_size
  BY <1>0, RingDistance DEF Size
<1>2. /\ (m_tail + 1) % m_size = IF m_tail = m_size - 1 THEN 0 ELSE m_tail + 1
      /\ (m_head + 1) % m_size = IF m_head = m_size - 1 THEN 0 ELSE m_head + 1
      /\ (m_head + m_size - 1) % m_size = IF m_head = 0 THEN m_size - 1 ELSE m_head - 1
  BY <1>0, NextIndex, PreviousIndex
<1>3. ASSUME m_head' \in 0..m_size-1, m_tail' \in 0..m_size-1
      PROVE  Size' = IF m_tail' >= m_head' THEN m_tail' - m_head'
                     ELSE m_tail' - m_head' + m_size
  BY <1>3, RingDistance DEF Size
<1>4. ASSUME NEW m, ~Full, StoreTail(m) PROVE Size' = Size + 1
  <2>1. m_head' = m_head /\ m_tail' = (m_tail + 1) % m_size /\ m_tail' # m_head
    BY <1>4 DEF StoreTail, Full
  <2> QED
    BY <1>0, <1>1, <1>2, <1>3, <2>1
<1>5. ASSUME NEW m, ~Full, StoreHead(m) PROVE Size' = Size + 1
  <2>1. m_tail' = m_tail /\ m_head' = (m_head + m_size - 1) % m_size
    BY <1>5 DEF StoreHead
  <2>2. (m_tail + 1) % m_size # m_head
    BY <1>5 DEF Full
  <2> QED
    BY <1>0, <1>1, <1>2, <1>3, <2>1, <2>2
<1>6. ASSUME Get PROVE Size' = Size - 1
  <2>1. m_tail' = m_tail /\ m_head' = (m_head + 1) % m_size /\ m_tail # m_head
    BY <1>6 DEF Get, Empty
  <2> QED
    BY <1>0, <1>1, <1>2, <1>3, <2>1
<1> QED
  BY <1>4, <1>5, <1>6

\* The mailbox keeps its types: the indices never leave the ring.
LEMMA TypeStep == TypeOK /\ [Next]_vars => TypeOK'
<1> SUFFICES ASSUME TypeOK, [Next]_vars
             PROVE  TypeOK'
  OBVIOUS
<1> USE MailboxAssumption DEF TypeOK, ring, senderVars, Ops, Blocking, NonBlocking, Urgent,
      Threads, Blocks
<1>0. /\ (m_tail + 1) % m_size \in 0..m_size-1
      /\ (m_head + 1) % m_size \in 0..m_size-1
      /\ (m_head + m_size - 1) % m_size \in 0..m_size-1
  BY NextIndex, PreviousIndex
<1>1. ASSUME NEW s \in Senders, NEW o \in Ops, NEW m \in Messages, Call(s, o, m) PROVE TypeOK'
  BY <1>1 DEF Call
<1>2. ASSUME NEW s \in Senders, Put(s) PROVE TypeOK'
  <2>1. waitSet' \subseteq Threads
    BY <1>2 DEF Put, StoreHead, StoreTail, Signal
  <2>2. op' \in [Senders -> Ops \cup {"idle"}] /\ pmsg' \in [Senders -> Messages \cup {None}]
    BY <1>2 DEF Put, SenderReturns
  <2>3. /\ p_array' \in [0..m_size-1 -> Messages \cup {None}]
        /\ m_head' \in 0..m_size-1 /\ m_tail' \in 0..m_size-1
    BY <1>2, <1>0 DEF Put, StoreHead, StoreTail
  <2> QED
    BY <1>2, <2>1, <2>2, <2>3 DEF Put
<1>3. ASSUME NEW s \in Senders, PutWaits(s) PROVE TypeOK'
  BY <1>3 DEF PutWaits, Wait
<1>4. ASSUME NEW s \in Senders, PutFails(s) PROVE TypeOK'
  BY <1>4 DEF PutFails, SenderReturns
<1>5. CASE Get
  BY <1>5, <1>0 DEF Get, Signal
<1>6. CASE GetWaits
  BY <1>6 DEF GetWaits, Wait
<1>7. CASE Dispatched
  BY <1>7 DEF Dispatched
<1>8. ASSUME NEW t \in Threads, SpuriousWakeup(t) PROVE TypeOK'
  BY <1>8 DEF SpuriousWakeup
<1>9. CASE UNCHANGED vars
  BY <1>9 DEF vars
<1> QED
  BY <1>1, <1>2, <1>3, <1>4, <1>5, <1>6, <1>7, <1>8, <1>9 DEF Next, SenderStep, ModuleStep

\* Type correctness of the mailbox for every ring size.
THEOREM TypeCorrect == Spec => []TypeOK
<1>1. Init => TypeOK
  BY MailboxAssumption DEF Init, TypeOK, Threads, Ops
<1> QED
  BY <1>1, TypeStep, PTL DEF Spec

\* Sleeping senders form a finite set, and fewer sleepers count no more.
LEMMA Sleepers ==
  ASSUME NEW W, NEW V, V \subseteq W
  PROVE  /\ IsFiniteSet(W \cap Senders)
         /\ Cardinality(W \cap Senders) \in Nat
         /\ Cardinality(V \cap Senders) <= Cardinality(W \cap Senders)
         /\ Cardinality(W \cap Senders) <= Cardinality(Senders)
<1>1. IsFiniteSet(W \cap Senders) /\ Cardinality(W \cap Senders) <= Cardinality(Senders)
  BY FS_Subset, MailboxAssumption
<1>2. V \cap Senders \in SUBSET (W \cap Senders)
  OBVIOUS
<1> QED
  BY <1>1, <1>2, FS_Subset, FS_CardinalityType

\* A step of the mailbox loses no wakeup.
LEMMA WakeupStep == TypeOK /\ NoLostWakeup /\ [Next]_vars => NoLostWakeup'
<1> SUFFICES ASSUME TypeOK, NoLostWakeup, [Next]_vars
             PROVE  NoLostWakeup'
  OBVIOUS
<1>0. TypeOK'
  BY TypeStep
<1> DEFINE W == waitSet \cap Senders
<1>a. /\ m_size \in Nat \ {0, 1} /\ Size \in 0..m_size-1 /\ (Empty <=> Size = 0)
      /\ (Full <=> Size = m_size - 1)
  BY SizeFacts, MailboxAssumption
<1>b. /\ Cardinality(W) \in Nat /\ Cardinality(W) <= Size
      /\ IsFiniteSet(W)
      /\ Module \in waitSet => Empty
  BY Sleepers DEF NoLostWakeup
<1>c. ASSUME UNCHANGED <<m_head, m_tail>>, waitSet' \subseteq waitSet
      PROVE  NoLostWakeup'
  <2>1. Cardinality(W') \in Nat /\ Cardinality(W') <= Cardinality(W)
    BY <1>c, Sleepers
  <2>2. Size' = Size /\ (Empty' <=> Empty)
    BY <1>c DEF Size, Empty
  <2> QED
    BY <1>a, <1>b, <1>c, <2>1, <2>2 DEF NoLostWakeup
<1>1. ASSUME NEW s \in Senders, NEW o \in Ops, NEW m \in Messages, Call(s, o, m)
      PROVE  NoLostWakeup'
  BY <1>1, <1>c DEF Call, ring
<1>2. ASSUME NEW s \in Senders, Put(s) PROVE NoLostWakeup'
  <2>1. Size' = Size + 1 /\ Signal
    BY <1>2, SizeSteps DEF Put, StoreHead, StoreTail
  <2>2. CASE Module \in waitSet
    <3>1. W = {}
      BY <1>a, <1>b, <2>2, FS_EmptySet
    <3>2. waitSet = {Module}
      BY <2>2, <3>1 DEF TypeOK, Threads
    <3>3. waitSet' = {}
      BY <2>1, <3>2 DEF Signal
    <3>4. Cardinality(W') = 0
      BY <3>3, FS_EmptySet
    <3> QED
      BY <1>a, <2>1, <3>3, <3>4 DEF NoLostWakeup
  <2>3. CASE Module \notin waitSet
    <3>1. waitSet' \subseteq waitSet
      BY <2>1 DEF Signal
    <3>2. Cardinality(W') \in Nat /\ Cardinality(W') <= Cardinality(W)
      BY <3>1, Sleepers
    <3> QED
      BY <1>a, <1>b, <2>1, <2>3, <3>1, <3>2 DEF NoLostWakeup
  <2> QED
    BY <2>2, <2>3
<1>3. ASSUME NEW s \in Senders, PutWaits(s) PROVE NoLostWakeup'
  <2>1. Size' = Size /\ Size = m_size - 1 /\ (Empty' <=> Empty)
    BY <1>3, <1>a DEF PutWaits, Wait, ring, Size, Empty
  <2>2. Cardinality(W') \in Nat /\ Cardinality(W') <= Cardinality(Senders)
    BY Sleepers
  <2>3. Cardinality(Senders) \in Nat /\ Cardinality(Senders) <= m_size - 1
    BY MailboxAssumption, FS_CardinalityType
  <2>4. Module \in waitSet' => Module \in waitSet
    BY <1>3, MailboxAssumption DEF PutWaits, Wait
  <2> QED
    BY <1>a, <1>b, <2>1, <2>2, <2>3, <2>4 DEF NoLostWakeup
<1>4. ASSUME NEW s \in Senders, PutFails(s) PROVE NoLostWakeup'
  BY <1>4, <1>c DEF PutFails, ring
<1>5. CASE Get
  <2>1. Size' = Size - 1 /\ Signal /\ Module \notin waitSet
    BY <1>5, SizeSteps DEF Get
  <2>2. CASE waitSet = {}
    <3>1. waitSet' = {}
      BY <2>1, <2>2 DEF Signal
    <3>2. Cardinality(W') = 0
      BY <3>1, FS_EmptySet
    <3>3. Size # 0
      BY <1>5, <1>a DEF Get
    <3> QED
      BY <1>a, <2>1, <3>1, <3>2, <3>3 DEF NoLostWakeup
  <2>3. CASE waitSet # {}
    <3>1. PICK t \in waitSet : waitSet' = waitSet \ {t}
      BY <2>1, <2>3 DEF Signal
    <3>2. t \in W /\ W' = W \ {t}
      BY <2>1, <3>1 DEF TypeOK, Threads
    <3>3. Cardinality(W') = Cardinality(W) - 1
      BY <1>b, <3>2, FS_RemoveElement
    <3> QED
      BY <1>a, <1>b, <2>1, <3>1, <3>3 DEF NoLostWakeup
  <2> QED
    BY <2>2, <2>3
<1>6. CASE GetWaits
  <2>1. Size' = Size /\ Empty'
    BY <1>6 DEF GetWaits, Wait, ring, Size, Empty
  <2>2. W' = W
    BY <1>6, MailboxAssumption DEF GetWaits, Wait
  <2> QED
    BY <1>b, <2>1, <2>2 DEF NoLostWakeup
<1>7. CASE Dispatched
  BY <1>7, <1>c DEF Dispatched, ring
<1>8. ASSUME NEW t \in Threads, SpuriousWakeup(t) PROVE NoLostWakeup'
  BY <1>8, <1>c DEF SpuriousWakeup, ring
<1>9. CASE UNCHANGED vars
  BY <1>9, <1>c DEF vars, ring
<1> QED
  BY <1>1, <1>2, <1>3, <1>4, <1>5, <1>6, <1>7, <1>8, <1>9 DEF Next, SenderStep, ModuleStep

\* However the shared condition variable picks its sleepers, the module
\* thread never sleeps on a non-empty mailbox and senders never sleep beside
\* it: for every ring with room for one message of each sender.
THEOREM WakeupsAreNotLost == Spec => []NoLostWakeup
<1>1. Init => NoLostWakeup
  <2> SUFFICES ASSUME Init PROVE NoLostWakeup
    OBVIOUS
  <2>1. Size = 0 /\ Empty
    BY MailboxAssumption, RingDistance DEF Init, Size, Empty
  <2>2. waitSet = {} /\ Cardinality(waitSet \cap Senders) = 0
    BY FS_EmptySet DEF Init
  <2> QED
    BY <2>1, <2>2 DEF NoLostWakeup
<1> QED
  BY <1>1, TypeCorrect, WakeupStep, PTL DEF Spec

-----------------------------------------------------------------------------
(* What the ring contains, as a sequence.                                  *)

\* A sender owns a message from the call to the return, and every slot
\* between m_head and m_tail holds one.
Filled ==
  /\ \A s \in Senders : IF op[s] = "idle" THEN pmsg[s] = None ELSE pmsg[s] \in Messages
  /\ \A i \in 1..Size : Contents[i] \in Messages

\* Slot of the i-th message.
Slot(i) == IF m_head + i - 1 < m_size THEN m_head + i - 1 ELSE m_head + i - 1 - m_size

\* Contents is the sequence of the messages in those slots.
SlotBySlot ==
  /\ Contents \in Seq(Messages \cup {None})
  /\ Len(Contents) = Size
  /\ \A i \in 1..Size : Slot(i) \in 0..m_size-1 /\ Contents[i] = p_array[Slot(i)]

\* The contents are a sequence of size() messages, slot by slot.
LEMMA ContentsFacts == TypeOK => SlotBySlot
<1> SUFFICES ASSUME TypeOK PROVE SlotBySlot
  OBVIOUS
<1>0. m_size \in Nat \ {0, 1} /\ m_head \in 0..m_size-1 /\ Size \in 0..m_size-1
  BY MailboxAssumption, SizeFacts DEF TypeOK
<1>1. ASSUME NEW i \in 1..Size
      PROVE  (m_head + i - 1) % m_size = Slot(i) /\ Slot(i) \in 0..m_size-1
  <2> DEFINE a == m_head + i - 1
  <2>1. m_size \in Nat \ {0} /\ a \in 0..(2*m_size - 1)
    BY <1>0
  <2> HIDE DEF a
  <2>2. a % m_size = IF a < m_size THEN a ELSE a - m_size
    BY <2>1, Wrap
  <2> QED
    BY <1>0, <2>1, <2>2 DEF a, Slot
<1>2. \A i \in 1..Size : p_array[(m_head + i - 1) % m_size] \in Messages \cup {None}
  BY <1>1 DEF TypeOK
<1>3. Contents \in [1..Size -> Messages \cup {None}]
  BY <1>2 DEF Contents
<1>4. Contents \in Seq(Messages \cup {None}) /\ Len(Contents) = Size
  BY <1>0, <1>3
<1>5. \A i \in 1..Size : Contents[i] = p_array[(m_head + i - 1) % m_size]
  BY DEF Contents
<1> QED
  BY <1>1, <1>4, <1>5 DEF SlotBySlot

\* Nothing a step does to the indices alone, or leaves, moves a message.
LEMMA ContentsStay ==
  ASSUME UNCHANGED ring
  PROVE  Size' = Size /\ Contents' = Contents
<1>1. Size' = Size
  BY DEF ring, Size
<1> QED
  BY <1>1 DEF ring, Contents

\* A message stored at the tail comes after every message in the ring.
LEMMA StoredAtTail ==
  ASSUME TypeOK, TypeOK', ~Full, NEW m \in Messages, StoreTail(m)
  PROVE  Contents' = Append(Contents, m)
<1>a. SlotBySlot /\ SlotBySlot'
  BY ContentsFacts, PTL
<1>0. /\ m_size \in Nat \ {0, 1} /\ m_head \in 0..m_size-1 /\ m_tail \in 0..m_size-1
      /\ p_array \in [0..m_size-1 -> Messages \cup {None}]
  BY MailboxAssumption DEF TypeOK
<1>1. Size' = Size + 1 /\ Size \in 0..m_size-1
  BY SizeSteps, SizeFacts
<1>2. m_head' = m_head /\ p_array' = [p_array EXCEPT ![m_tail] = m]
  BY DEF StoreTail
<1>3. Size = IF m_tail >= m_head THEN m_tail - m_head ELSE m_tail - m_head + m_size
  BY <1>0, RingDistance DEF Size
<1>4. Size < m_size - 1
  BY SizeFacts, <1>0, <1>1
<1>5. \A i \in 1..Size+1 : Slot(i)' = Slot(i) /\ (Slot(i) = m_tail <=> i = Size + 1)
  BY <1>0, <1>1, <1>2, <1>3, <1>4 DEF Slot
<1>6. \A i \in 1..Size+1 : Contents'[i] = IF i = Size + 1 THEN m ELSE Contents[i]
  <2>1. \A i \in 1..Size+1 : Contents'[i] = p_array'[Slot(i)] /\ Slot(i) \in 0..m_size-1
    BY <1>a, <1>1, <1>5 DEF SlotBySlot
  <2>2. \A i \in 1..Size : Contents[i] = p_array[Slot(i)]
    BY <1>a DEF SlotBySlot
  <2> QED
    BY <1>0, <1>1, <1>2, <1>5, <2>1, <2>2
<1>7. /\ Contents \in Seq(Messages \cup {None}) /\ Len(Contents) = Size
      /\ Contents' \in Seq(Messages \cup {None}) /\ Len(Contents') = Size + 1
  BY <1>a, <1>1 DEF SlotBySlot
<1>8. /\ Append(Contents, m) \in Seq(Messages \cup {None})
      /\ Len(Append(Contents, m)) = Size + 1
      /\ \A i \in 1..Size : Append(Contents, m)[i] = Contents[i]
      /\ Append(Contents, m)[Size + 1] = m
  BY <1>7, AppendProperties
<1>9. \A i \in 1..Len(Contents') : Contents'[i] = Append(Contents, m)[i]
  BY <1>1, <1>6, <1>7, <1>8
<1> QED
  BY <1>7, <1>8, <1>9, SeqEqual

\* A message stored at the head comes before every message in the ring.
LEMMA StoredAtHead ==
  ASSUME TypeOK, TypeOK', ~Full, NEW m \in Messages, StoreHead(m)
  PROVE  Contents' = <<m>> \o Contents
<1>a. SlotBySlot /\ SlotBySlot'
  BY ContentsFacts, PTL
<1>0. /\ m_size \in Nat \ {0, 1} /\ m_head \in 0..m_size-1 /\ m_tail \in 0..m_size-1
      /\ p_array \in [0..m_size-1 -> Messages \cup {None}]
  BY MailboxAssumption DEF TypeOK
<1>1. Size' = Size + 1 /\ Size \in 0..m_size-1
  BY SizeSteps, SizeFacts
<1>2. /\ m_head' = IF m_head = 0 THEN m_size - 1 ELSE m_head - 1
      /\ p_array' = [p_array EXCEPT ![m_head'] = m]
  BY <1>0, PreviousIndex DEF StoreHead
<1>4. Size < m_size - 1
  BY SizeFacts, <1>0, <1>1
<1>5. /\ Slot(1)' = m_head'
      /\ \A i \in 2..Size+1 : Slot(i)' = Slot(i-1) /\ Slot(i-1) # m_head'
  BY <1>0, <1>1, <1>2, <1>4 DEF Slot
<1>6. \A i \in 1..Size+1 : Contents'[i] = IF i = 1 THEN m ELSE Contents[i-1]
  <2>1. \A i \in 1..Size+1 : Contents'[i] = p_array'[Slot(i)']
    BY <1>a, <1>1 DEF SlotBySlot
  <2>2. \A i \in 2..Size+1 : Contents[i-1] = p_array[Slot(i-1)] /\ Slot(i-1) \in 0..m_size-1
    BY <1>a, <1>1 DEF SlotBySlot
  <2>3. Contents'[1] = m
    BY <1>0, <1>1, <1>2, <1>5, <2>1
  <2>4. \A i \in 2..Size+1 : Contents'[i] = Contents[i-1]
    BY <1>0, <1>1, <1>2, <1>5, <2>1, <2>2
  <2> QED
    BY <1>1, <2>3, <2>4
<1>7. /\ Contents \in Seq(Messages \cup {None}) /\ Len(Contents) = Size
      /\ Contents' \in Seq(Messages \cup {None}) /\ Len(Contents') = Size + 1
  BY <1>a, <1>1 DEF SlotBySlot
<1>8. /\ <<m>> \o Contents \in Seq(Messages \cup {None})
      /\ Len(<<m>> \o Contents) = Size + 1
      /\ \A i \in 1..Size+1 :
            (<<m>> \o Contents)[i] = IF i = 1 THEN m ELSE Contents[i-1]
  <2>1. <<m>> \in Seq(Messages \cup {None}) /\ Len(<<m>>) = 1 /\ <<m>>[1] = m
    OBVIOUS
  <2> QED
    BY <1>1, <1>7, <2>1, ConcatProperties
<1>9. \A i \in 1..Len(Contents') : Contents'[i] = (<<m>> \o Contents)[i]
  BY <1>1, <1>6, <1>7, <1>8
<1> QED
  BY <1>7, <1>8, <1>9, SeqEqual

\* get() takes the first message, the others keep their order.
LEMMA TakenFromHead ==
  ASSUME TypeOK, TypeOK', Get
  PROVE  Contents # <<>> /\ cmsg' = Head(Contents) /\ Contents' = Tail(Contents)
<1>a. SlotBySlot /\ SlotBySlot'
  BY ContentsFacts, PTL
<1>0. /\ m_size \in Nat \ {0, 1} /\ m_head \in 0..m_size-1 /\ m_tail \in 0..m_size-1
  BY MailboxAssumption DEF TypeOK
<1>1. Size' = Size - 1 /\ Size \in 0..m_size-1 /\ Size # 0
  BY SizeSteps, SizeFacts DEF Get
<1>2. /\ m_head' = IF m_head = m_size - 1 THEN 0 ELSE m_head + 1
      /\ p_array' = p_array /\ cmsg' = p_array[m_head]
  BY <1>0, NextIndex DEF Get
<1>5. /\ Slot(1) = m_head
      /\ \A i \in 1..Size-1 : Slot(i)' = Slot(i+1)
  BY <1>0, <1>1, <1>2 DEF Slot
<1>6. Contents[1] = cmsg' /\ \A i \in 1..Size-1 : Contents'[i] = Contents[i+1]
  <2>1. \A i \in 1..Size-1 : Contents'[i] = p_array'[Slot(i)']
    BY <1>a, <1>1 DEF SlotBySlot
  <2>2. \A i \in 1..Size : Contents[i] = p_array[Slot(i)]
    BY <1>a, <1>1 DEF SlotBySlot
  <2> QED
    BY <1>1, <1>2, <1>5, <2>1, <2>2
<1>7. /\ Contents \in Seq(Messages \cup {None}) /\ Len(Contents) = Size
      /\ Contents' \in Seq(Messages \cup {None}) /\ Len(Contents') = Size - 1
  BY <1>a, <1>1 DEF SlotBySlot
<1>8. Contents # <<>>
  BY <1>1, <1>7, EmptySeq
<1>9. /\ Tail(Contents) \in Seq(Messages \cup {None})
      /\ Len(Tail(Contents)) = Size - 1
      /\ \A i \in 1..Size-1 : Tail(Contents)[i] = Contents[i+1]
  BY <1>7, <1>8, HeadTailProperties
<1>10. Contents' = Tail(Contents)
  <2>1. \A i \in 1..Len(Contents') : Contents'[i] = Tail(Contents)[i]
    BY <1>1, <1>6, <1>7, <1>9
  <2> QED
    BY <1>7, <1>9, <2>1, SeqEqual
<1>11. Head(Contents) = Contents[1]
  BY <1>7, <1>8
<1> QED
  BY <1>6, <1>8, <1>10, <1>11

\* A step gives no slot and no sender anything but a message.
LEMMA FilledStep == TypeOK /\ Filled /\ [Next]_vars => Filled'
<1> SUFFICES ASSUME TypeOK, Filled, [Next]_vars
             PROVE  Filled'
  OBVIOUS
<1> DEFINE Owned == \A s \in Senders : IF op[s] = "idle" THEN pmsg[s] = None
                                                         ELSE pmsg[s] \in Messages
           Stored == \A i \in 1..Size : Contents[i] \in Messages
<1>0. /\ TypeOK' /\ Owned /\ Stored /\ Size \in 0..m_size-1 /\ m_size \in Nat
      /\ op \in [Senders -> Ops \cup {"idle"}] /\ pmsg \in [Senders -> Messages \cup {None}]
      /\ "idle" \notin Ops
  BY TypeStep, SizeFacts, MailboxAssumption
     DEF Filled, TypeOK, Ops, Blocking, NonBlocking
<1>a. SlotBySlot /\ SlotBySlot'
  BY <1>0, ContentsFacts, PTL
<1>d. Size \in Nat /\ \A i \in 1..Size : Contents[i] \in Messages
  BY <1>0
<1>b. ASSUME UNCHANGED ring PROVE Stored'
  BY <1>0, <1>b, ContentsStay
<1>c. ASSUME NEW s \in Senders, SenderReturns(s) PROVE Owned'
  BY <1>0, <1>c DEF SenderReturns
<1>1. ASSUME NEW s \in Senders, NEW o \in Ops, NEW m \in Messages, Call(s, o, m) PROVE Filled'
  <2>1. Owned'
    BY <1>0, <1>1 DEF Call
  <2> QED
    BY <1>1, <1>b, <2>1 DEF Call, Filled
<1>2. ASSUME NEW s \in Senders, Put(s) PROVE Filled'
  <2>1. pmsg[s] \in Messages /\ ~Full /\ SenderReturns(s)
    BY <1>0, <1>2 DEF Put
  <2>2. CASE op[s] \in Urgent
    <3>0. Size' = Size + 1
      BY <1>2, <2>1, SizeSteps DEF Put
    <3>1. Contents' = <<pmsg[s]>> \o Contents
      BY <1>0, <1>2, <2>1, <2>2, StoredAtHead DEF Put
    <3>2. Contents \in Seq(Messages \cup {None}) /\ Len(Contents) = Size
      BY <1>a DEF SlotBySlot
    <3>3. \A i \in 1..Size+1 : Contents'[i] = IF i = 1 THEN pmsg[s] ELSE Contents[i-1]
      <4>1. /\ <<pmsg[s]>> \in Seq(Messages \cup {None})
            /\ Len(<<pmsg[s]>>) = 1 /\ <<pmsg[s]>>[1] = pmsg[s]
        BY <2>1
      <4> QED
        BY <1>0, <3>1, <3>2, <4>1, ConcatProperties
    <3>4. Stored'
      BY <1>d, <2>1, <3>0, <3>3
    <3> QED
      BY <1>c, <2>1, <3>4 DEF Filled
  <2>3. CASE op[s] \notin Urgent
    <3>0. Size' = Size + 1
      BY <1>2, <2>1, SizeSteps DEF Put
    <3>1. Contents' = Append(Contents, pmsg[s])
      BY <1>0, <1>2, <2>1, <2>3, StoredAtTail DEF Put
    <3>2. Contents \in Seq(Messages \cup {None}) /\ Len(Contents) = Size
      BY <1>a DEF SlotBySlot
    <3>3. /\ \A i \in 1..Size : Contents'[i] = Contents[i]
          /\ Contents'[Size + 1] = pmsg[s]
      BY <1>0, <2>1, <3>1, <3>2, AppendProperties
    <3>4. Stored'
      BY <1>d, <2>1, <3>0, <3>3
    <3> QED
      BY <1>c, <2>1, <3>4 DEF Filled
  <2> QED
    BY <2>2, <2>3
<1>3. ASSUME NEW s \in Senders, PutWaits(s) PROVE Filled'
  BY <1>0, <1>3, <1>b DEF PutWaits, Wait, senderVars, Filled
<1>4. ASSUME NEW s \in Senders, PutFails(s) PROVE Filled'
  BY <1>4, <1>b, <1>c DEF PutFails, Filled
<1>5. CASE Get
  <2>0. Size' = Size - 1 /\ Size # 0
    BY <1>5, SizeSteps, SizeFacts DEF Get
  <2>1. Contents # <<>> /\ Contents' = Tail(Contents)
    BY <1>0, <1>5, TakenFromHead
  <2>2. Contents \in Seq(Messages \cup {None}) /\ Len(Contents) = Size
    BY <1>a DEF SlotBySlot
  <2>3. \A i \in 1..Size-1 : Contents'[i] = Contents[i+1]
    BY <2>1, <2>2, HeadTailProperties
  <2>4. Stored'
    BY <1>d, <2>0, <2>3
  <2> QED
    BY <1>0, <1>5, <2>4 DEF Get, senderVars, Filled
<1>6. CASE GetWaits
  BY <1>0, <1>6, <1>b DEF GetWaits, Wait, senderVars, Filled
<1>7. CASE Dispatched
  BY <1>0, <1>7, <1>b DEF Dispatched, senderVars, Filled
<1>8. ASSUME NEW t \in Threads, SpuriousWakeup(t) PROVE Filled'
  BY <1>0, <1>8, <1>b DEF SpuriousWakeup, senderVars, Filled
<1>9. CASE UNCHANGED vars
  BY <1>0, <1>9, <1>b DEF vars, senderVars, Filled
<1> QED
  BY <1>1, <1>2, <1>3, <1>4, <1>5, <1>6, <1>7, <1>8, <1>9 DEF Next, SenderStep, ModuleStep

\* The ring starts empty.
LEMMA StartsEmpty == Init => TypeOK /\ Filled /\ Size = 0 /\ Contents = <<>>
<1> SUFFICES ASSUME Init PROVE TypeOK /\ Filled /\ Size = 0 /\ Contents = <<>>
  OBVIOUS
<1>1. TypeOK
  BY MailboxAssumption DEF Init, TypeOK, Threads, Ops
<1>2. Size = 0
  BY MailboxAssumption, RingDistance DEF Init, Size
<1>3. Filled
  BY <1>2 DEF Init, Filled
<1>4. Contents \in Seq(Messages \cup {None}) /\ Len(Contents) = 0
  BY <1>1, <1>2, ContentsFacts DEF SlotBySlot
<1>5. Contents = <<>>
  BY <1>4, EmptySeq
<1> QED
  BY <1>1, <1>2, <1>3, <1>5

\* No sender in a call is without its message, and no slot in use without one.
LEMMA AlwaysFilled == Spec => []Filled
<1> QED
  BY StartsEmpty, TypeCorrect, FilledStep, PTL DEF Spec

-----------------------------------------------------------------------------
(* The mailbox as a queue.                                                 *)

\* Every step of the mailbox is a step of the queue or leaves it alone.
LEMMA RingStepImplements ==
  TypeOK /\ TypeOK' /\ Filled /\ [Next]_vars => [MQ!Next]_(MQ!vars)
<1> SUFFICES ASSUME TypeOK, TypeOK', Filled, [Next]_vars
             PROVE  [MQ!Next]_(MQ!vars)
  OBVIOUS
<1>1. Len(Contents) = Size
  BY ContentsFacts DEF SlotBySlot
<1>2. ASSUME UNCHANGED <<ring, cmsg>> PROVE [MQ!Next]_(MQ!vars)
  BY <1>2, ContentsStay DEF MQ!vars
<1>3. ASSUME NEW s \in Senders, Put(s) PROVE MQ!Next
  <2>1. pmsg[s] \in Messages /\ ~Full /\ cmsg' = cmsg
    BY <1>3 DEF Put, Filled, Ops, Blocking, NonBlocking
  <2>2. Len(Contents) < m_size - 1
    BY <1>1, <2>1, SizeFacts, MailboxAssumption
  <2>3. CASE op[s] \in Urgent
    <3>1. Contents' = <<pmsg[s]>> \o Contents
      BY <1>3, <2>1, <2>3, StoredAtHead DEF Put
    <3>2. MQ!AcceptUrgent(pmsg[s])
      BY <2>1, <2>2, <3>1 DEF MQ!AcceptUrgent
    <3> QED
      BY <2>1, <3>2 DEF MQ!Next
  <2>4. CASE op[s] \notin Urgent
    <3>1. Contents' = Append(Contents, pmsg[s])
      BY <1>3, <2>1, <2>4, StoredAtTail DEF Put
    <3>2. MQ!Accept(pmsg[s])
      BY <2>1, <2>2, <3>1 DEF MQ!Accept
    <3> QED
      BY <2>1, <3>2 DEF MQ!Next
  <2> QED
    BY <2>3, <2>4
<1>4. ASSUME Get PROVE MQ!Next
  <2>1. MQ!Take
    BY <1>4, TakenFromHead DEF Get, MQ!Take
  <2> QED
    BY <2>1 DEF MQ!Next
<1>5. ASSUME Dispatched PROVE MQ!Next
  <2>1. MQ!Finish
    BY <1>5, ContentsStay DEF Dispatched, MQ!Finish
  <2> QED
    BY <2>1 DEF MQ!Next
<1>6. ASSUME NEW s \in Senders, NEW o \in Ops, NEW m \in Messages, Call(s, o, m)
      PROVE  [MQ!Next]_(MQ!vars)
  BY <1>2, <1>6 DEF Call
<1>7. ASSUME NEW s \in Senders, PutWaits(s) \/ PutFails(s) PROVE [MQ!Next]_(MQ!vars)
  BY <1>2, <1>7 DEF PutWaits, PutFails, Wait
<1>8. CASE GetWaits
  BY <1>2, <1>8 DEF GetWaits, Wait
<1>9. ASSUME NEW t \in Threads, SpuriousWakeup(t) PROVE [MQ!Next]_(MQ!vars)
  BY <1>2, <1>9 DEF SpuriousWakeup
<1>10. CASE UNCHANGED vars
  BY <1>2, <1>10 DEF vars
<1> QED
  BY <1>3, <1>4, <1>5, <1>6, <1>7, <1>8, <1>9, <1>10 DEF Next, SenderStep, ModuleStep

\* pf_mbox implements the bounded queue: whatever the interleaving of the
\* senders, the fill level and the place where the indices wrap, the module
\* thread gets each accepted message once, unaltered, urgent ones first and
\* the others in the order in which they were accepted.
THEOREM RingImplementsQueue == Spec => QueueSpec
<1>1. Init => MQ!Init
  BY StartsEmpty DEF Init, MQ!Init
<1> QED
  BY <1>1, TypeCorrect, AlwaysFilled, RingStepImplements, PTL DEF Spec, QueueSpec, MQ!Spec

-----------------------------------------------------------------------------
(* Blocks of pf_malloc.                                                    *)

\* The senders and the slots that own a block.
Pending == {s \in Senders : pmsg[s] \in Long}
Stored  == {i \in 1..Size : Contents[i] \in Long}

\* Renumbered slots are as many as before.
LEMMA Shifted ==
  ASSUME NEW S \in SUBSET Int, IsFiniteSet(S), NEW k \in Int
  PROVE  /\ IsFiniteSet({i + k : i \in S})
         /\ Cardinality({i + k : i \in S}) = Cardinality(S)
<1> DEFINE T == {i + k : i \in S}
           f == [i \in S |-> i + k]
<1>1. f \in [S -> T] /\ \A i \in S : f[i] = i + k
  OBVIOUS
<1>2. f \in Injection(S, T)
  BY <1>1 DEF Injection, IsInjective
<1>3. f \in Surjection(S, T)
  BY <1>1 DEF Surjection
<1>4. ExistsBijection(S, T)
  BY <1>2, <1>3 DEF Bijection, ExistsBijection
<1> QED
  BY <1>4, FS_Bijection

\* Both owners' sets can be counted.
LEMMA OwnersFinite ==
  ASSUME TypeOK
  PROVE  /\ IsFiniteSet(Pending) /\ Cardinality(Pending) \in Nat
         /\ IsFiniteSet(Stored) /\ Cardinality(Stored) \in Nat
<1>1. Pending \in SUBSET Senders /\ IsFiniteSet(Senders)
  BY MailboxAssumption DEF Pending
<1>2. Size \in Nat /\ IsFiniteSet(1..Size) /\ Stored \in SUBSET (1..Size)
  BY SizeFacts, FS_Interval, MailboxAssumption DEF Stored
<1> QED
  BY <1>1, <1>2, FS_Subset, FS_CardinalityType

\* A call makes its sender the owner of one more block, if its message is long.
LEMMA CallOwns ==
  ASSUME TypeOK, Filled, NEW s \in Senders, NEW o \in Ops, NEW m \in Messages, Call(s, o, m)
  PROVE  Cardinality(Pending') = Cardinality(Pending) + Blocks(m)
<1>1. pmsg[s] \notin Long /\ pmsg' = [pmsg EXCEPT ![s] = m]
  BY MailboxAssumption DEF Call, Filled
<1>2. Pending' = IF m \in Long THEN Pending \cup {s} ELSE Pending
  BY <1>1 DEF Pending, TypeOK
<1>3. s \notin Pending
  BY <1>1 DEF Pending
<1>4. IsFiniteSet(Pending) /\ Cardinality(Pending) \in Nat
  BY OwnersFinite
<1>5. Cardinality(Pending \cup {s}) = Cardinality(Pending) + 1
  BY <1>3, <1>4, FS_AddElement
<1> QED
  BY <1>2, <1>4, <1>5 DEF Blocks

\* A sender that returns no longer owns the block it had.
LEMMA ReturnDisowns ==
  ASSUME TypeOK, NEW s \in Senders, SenderReturns(s)
  PROVE  Cardinality(Pending') = Cardinality(Pending) - Blocks(pmsg[s])
<1>1. None \notin Long /\ pmsg' = [pmsg EXCEPT ![s] = None]
  BY MailboxAssumption DEF SenderReturns
<1>2. Pending' = Pending \ {s}
  BY <1>1 DEF Pending, TypeOK
<1>3. s \in Pending <=> pmsg[s] \in Long
  BY DEF Pending
<1>4. IsFiniteSet(Pending) /\ Cardinality(Pending) \in Nat
  BY OwnersFinite
<1>5. Cardinality(Pending \ {s}) = IF s \in Pending THEN Cardinality(Pending) - 1
                                                    ELSE Cardinality(Pending)
  BY <1>4, FS_RemoveElement
<1> QED
  BY <1>2, <1>3, <1>4, <1>5 DEF Blocks

\* A message that enters at the tail brings its block into the ring.
LEMMA TailOwns ==
  ASSUME TypeOK, TypeOK', ~Full, NEW m \in Messages, StoreTail(m)
  PROVE  Cardinality(Stored') = Cardinality(Stored) + Blocks(m)
<1>1. Size \in Nat /\ Size' = Size + 1
  BY SizeFacts, SizeSteps, MailboxAssumption
<1>2. Contents \in Seq(Messages \cup {None}) /\ Len(Contents) = Size
  BY ContentsFacts DEF SlotBySlot
<1>3. Contents' = Append(Contents, m)
  BY StoredAtTail
<1>4. Contents'[Size + 1] = m /\ \A i \in 1..Size : Contents'[i] = Contents[i]
  BY <1>2, <1>3, AppendProperties
<1>5. Stored' = IF m \in Long THEN Stored \cup {Size + 1} ELSE Stored
  BY <1>1, <1>4 DEF Stored
<1>6. Size + 1 \notin Stored
  BY <1>1 DEF Stored
<1>7. IsFiniteSet(Stored) /\ Cardinality(Stored) \in Nat
  BY OwnersFinite
<1> QED
  BY <1>5, <1>6, <1>7, FS_AddElement DEF Blocks

\* So does an urgent message, that renumbers all others.
LEMMA HeadOwns ==
  ASSUME TypeOK, TypeOK', ~Full, NEW m \in Messages, StoreHead(m)
  PROVE  Cardinality(Stored') = Cardinality(Stored) + Blocks(m)
<1> DEFINE Moved == {i + 1 : i \in Stored}
<1>1. Size \in Nat /\ Size' = Size + 1
  BY SizeFacts, SizeSteps, MailboxAssumption
<1>2. Contents \in Seq(Messages \cup {None}) /\ Len(Contents) = Size
  BY ContentsFacts DEF SlotBySlot
<1>3. Contents' = <<m>> \o Contents
  BY StoredAtHead
<1>4. \A i \in 1..Size+1 : Contents'[i] = IF i = 1 THEN m ELSE Contents[i-1]
  <2>1. <<m>> \in Seq(Messages \cup {None}) /\ Len(<<m>>) = 1 /\ <<m>>[1] = m
    OBVIOUS
  <2> QED
    BY <1>1, <1>2, <1>3, <2>1, ConcatProperties
<1>5. Stored' = IF m \in Long THEN Moved \cup {1} ELSE Moved
  <2>1. ASSUME NEW i \in 1..Size PROVE Contents'[i+1] = Contents[i]
    BY <1>1, <1>4
  <2>2. Contents'[1] = m
    BY <1>1, <1>4
  <2>3. ASSUME NEW j \in 1..Size+1
        PROVE  Contents'[j] \in Long <=> j \in Moved \/ (j = 1 /\ m \in Long)
    <3>1. CASE j = 1
      BY <1>1, <2>2, <3>1 DEF Stored
    <3>2. CASE j # 1
      <4>1. j - 1 \in 1..Size /\ Contents'[j] = Contents[j-1]
        BY <1>1, <1>4, <3>2
      <4>2. j \in Moved <=> j - 1 \in Stored
        BY <1>1 DEF Stored
      <4> QED
        BY <3>2, <4>1, <4>2 DEF Stored
    <3> QED
      BY <3>1, <3>2
  <2>4. Moved \subseteq 1..Size+1
    BY <1>1 DEF Stored
  <2> QED
    BY <1>1, <2>3, <2>4 DEF Stored
<1>6. 1 \notin Moved
  BY <1>1 DEF Stored
<1>7. IsFiniteSet(Stored) /\ Cardinality(Stored) \in Nat
  BY OwnersFinite
<1>8. IsFiniteSet(Moved) /\ Cardinality(Moved) = Cardinality(Stored)
  <2>1. Stored \in SUBSET Int /\ 1 \in Int
    BY DEF Stored
  <2> HIDE DEF Stored
  <2> QED
    BY <1>7, <2>1, Shifted
<1>9. Cardinality(Moved \cup {1}) = Cardinality(Moved) + 1
  BY <1>6, <1>8, FS_AddElement
<1> QED
  BY <1>5, <1>7, <1>8, <1>9 DEF Blocks

\* A message that is taken takes its block out of the ring.
LEMMA GetDisowns ==
  ASSUME TypeOK, TypeOK', Get
  PROVE  Cardinality(Stored') = Cardinality(Stored) - Blocks(cmsg')
<1> DEFINE Rest == Stored \ {1}
           Moved == {i + (-1) : i \in Rest}
<1>1. Size \in Nat /\ Size' = Size - 1 /\ Size # 0
  BY SizeFacts, SizeSteps, MailboxAssumption DEF Get
<1>2. Contents \in Seq(Messages \cup {None}) /\ Len(Contents) = Size /\ Contents # <<>>
  BY ContentsFacts, TakenFromHead DEF SlotBySlot
<1>3. Contents' = Tail(Contents) /\ cmsg' = Head(Contents)
  BY TakenFromHead
<1>4. cmsg' = Contents[1]
  BY <1>2, <1>3
<1>5. \A i \in 1..Size-1 : Contents'[i] = Contents[i+1]
  BY <1>2, <1>3, HeadTailProperties
<1>6. Stored' = Moved
  <2>1. ASSUME NEW j \in 1..Size-1
        PROVE  Contents'[j] \in Long <=> j \in Moved
    <3>1. j + 1 \in 1..Size /\ j + 1 # 1 /\ Contents'[j] = Contents[j+1]
      BY <1>1, <1>5
    <3>2. j \in Moved <=> j + 1 \in Rest
      BY <1>1 DEF Stored
    <3> QED
      BY <3>1, <3>2 DEF Stored
  <2>2. Moved \subseteq 1..Size-1
    BY <1>1 DEF Stored
  <2> QED
    BY <1>1, <2>1, <2>2 DEF Stored
<1>7. IsFiniteSet(Stored) /\ Cardinality(Stored) \in Nat
  BY OwnersFinite
<1>8. 1 \in Stored <=> cmsg' \in Long
  BY <1>1, <1>4 DEF Stored
<1>9. IsFiniteSet(Rest) /\ Cardinality(Rest) = Cardinality(Stored) - Blocks(cmsg')
  BY <1>7, <1>8, FS_RemoveElement DEF Blocks
<1>10. Cardinality(Moved) = Cardinality(Rest)
  <2>1. Rest \in SUBSET Int /\ -1 \in Int
    BY DEF Stored
  <2> HIDE DEF Rest
  <2> QED
    BY <1>9, <2>1, Shifted
<1> QED
  BY <1>6, <1>9, <1>10

\* A step of the mailbox keeps the balance.
LEMMA BalanceStep == TypeOK /\ TypeOK' /\ Filled /\ HeapBalanced /\ [Next]_vars => HeapBalanced'
<1> SUFFICES ASSUME TypeOK, TypeOK', Filled, HeapBalanced, [Next]_vars
             PROVE  HeapBalanced'
  OBVIOUS
<1> DEFINE P == Cardinality(Pending)
           R == Cardinality(Stored)
<1>1. heap = P + R + Blocks(cmsg) /\ P \in Nat /\ R \in Nat /\ heap \in Int
  BY OwnersFinite DEF HeapBalanced, Pending, Stored, TypeOK
<1>2. ASSUME heap' = P' + R' + Blocks(cmsg)' PROVE HeapBalanced'
  BY <1>2 DEF HeapBalanced, Pending, Stored
<1>3. \A m : Blocks(m) \in 0..1
  BY DEF Blocks
<1>4. Blocks(None) = 0 /\ Blocks(cmsg)' = Blocks(cmsg')
  BY MailboxAssumption DEF Blocks
<1>a. ASSUME UNCHANGED ring PROVE R' = R
  BY <1>a, ContentsStay DEF Stored
<1>b. ASSUME UNCHANGED senderVars PROVE P' = P
  BY <1>b DEF senderVars, Pending
<1> HIDE DEF P, R
<1>5. ASSUME NEW s \in Senders, NEW o \in Ops, NEW m \in Messages, Call(s, o, m)
      PROVE  HeapBalanced'
  <2>1. P' = P + Blocks(m)
    BY <1>5, CallOwns DEF P
  <2>2. R' = R /\ cmsg' = cmsg /\ heap' = heap + Blocks(m)
    BY <1>5, <1>a DEF Call
  <2> QED
    BY <1>1, <1>2, <1>3, <1>4, <2>1, <2>2
<1>6. ASSUME NEW s \in Senders, Put(s) PROVE HeapBalanced'
  <2>1. pmsg[s] \in Messages /\ ~Full /\ SenderReturns(s) /\ cmsg' = cmsg /\ heap' = heap
    BY <1>6 DEF Put, Filled, Ops, Blocking, NonBlocking
  <2>2. P' = P - Blocks(pmsg[s])
    BY <2>1, ReturnDisowns DEF P
  <2>3. R' = R + Blocks(pmsg[s])
    BY <1>6, <2>1, TailOwns, HeadOwns DEF Put, R
  <2> QED
    BY <1>1, <1>2, <1>3, <1>4, <2>1, <2>2, <2>3
<1>7. ASSUME NEW s \in Senders, PutWaits(s) PROVE HeapBalanced'
  BY <1>1, <1>2, <1>4, <1>7, <1>a, <1>b DEF PutWaits, Wait
<1>8. ASSUME NEW s \in Senders, PutFails(s) PROVE HeapBalanced'
  <2>1. P' = P - Blocks(pmsg[s])
    BY <1>8, ReturnDisowns DEF PutFails, P
  <2>2. R' = R /\ cmsg' = cmsg /\ heap' = heap - Blocks(pmsg[s])
    BY <1>8, <1>a DEF PutFails
  <2> QED
    BY <1>1, <1>2, <1>3, <1>4, <2>1, <2>2
<1>9. CASE Get
  <2>1. R' = R - Blocks(cmsg')
    BY <1>9, GetDisowns DEF R
  <2>2. P' = P /\ heap' = heap /\ cmsg = None
    BY <1>9, <1>b DEF Get
  <2> QED
    BY <1>1, <1>2, <1>3, <1>4, <2>1, <2>2
<1>10. CASE GetWaits
  BY <1>1, <1>2, <1>4, <1>10, <1>a, <1>b DEF GetWaits, Wait
<1>11. CASE Dispatched
  <2>1. P' = P /\ R' = R /\ cmsg' = None /\ heap' = heap - Blocks(cmsg)
    BY <1>11, <1>a, <1>b DEF Dispatched
  <2> QED
    BY <1>1, <1>2, <1>3, <1>4, <2>1
<1>12. ASSUME NEW t \in Threads, SpuriousWakeup(t) PROVE HeapBalanced'
  BY <1>1, <1>2, <1>4, <1>12, <1>a, <1>b DEF SpuriousWakeup
<1>13. CASE UNCHANGED vars
  BY <1>1, <1>2, <1>4, <1>13, <1>a, <1>b DEF vars
<1> QED
  BY <1>5, <1>6, <1>7, <1>8, <1>9, <1>10, <1>11, <1>12, <1>13 DEF Next, SenderStep, ModuleStep

\* Every block that pf_copy_* allocates has one owner until it is freed: the
\* sender, the ring or the dispatching thread.  No message path leaks a block
\* or frees one twice.
THEOREM BlocksAreOwned == Spec => []HeapBalanced
<1>1. Init => HeapBalanced
  <2> SUFFICES ASSUME Init PROVE HeapBalanced
    OBVIOUS
  <2>1. Size = 0 /\ None \notin Long
    BY StartsEmpty, MailboxAssumption
  <2>2. {s \in Senders : pmsg[s] \in Long} = {} /\ {i \in 1..Size : Contents[i] \in Long} = {}
    BY <2>1 DEF Init
  <2>3. Blocks(cmsg) = 0 /\ heap = 0
    BY <2>1 DEF Init, Blocks
  <2> QED
    <3>1. /\ Cardinality({s \in Senders : pmsg[s] \in Long}) = 0
          /\ Cardinality({i \in 1..Size : Contents[i] \in Long}) = 0
      BY <2>2, FS_EmptySet
    <3> QED
      BY <2>3, <3>1 DEF HeapBalanced
<1> QED
  BY <1>1, TypeCorrect, AlwaysFilled, BalanceStep, PTL DEF Spec
=============================================================================
