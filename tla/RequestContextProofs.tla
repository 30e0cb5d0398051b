------------------------ MODULE RequestContextProofs ------------------------
(***************************************************************************)
(* Proofs about RequestContext and the thread pools in front of it, for    *)
(* every set of calls, repliers and keys, any number of duplicated replies *)
(* and any number of threads.                                              *)
(***************************************************************************)
EXTENDS ModulePool, SequenceTheorems, TLAPS

\* Type correctness of the request manager: every field, lock, counter and
\* map entry keeps its type through every step of callers and repliers.
THEOREM TypeCorrect == Spec => []TypeOK
<1> USE CallsAssumption DEF Verdicts, NoResult, CallStates, ReplierStates, Returns
<1>1. Init => TypeOK
  BY DEF Init, TypeOK
<1>2. TypeOK /\ [Next]_vars => TypeOK'
  <2> SUFFICES ASSUME TypeOK, [Next]_vars
               PROVE  TypeOK'
    OBVIOUS
  <2> USE DEF TypeOK, callVars, lockVars, replierVars, droneVars, Return
  <2>1. ASSUME NEW c \in Calls, Begin(c) PROVE TypeOK'
    BY <2>1 DEF Begin
  <2>2. ASSUME NEW c \in Calls, Register(c) PROVE TypeOK'
    BY <2>2 DEF Register
  <2>3. ASSUME NEW c \in Calls, SerializeFails(c) PROVE TypeOK'
    BY <2>3 DEF SerializeFails
  <2>4. ASSUME NEW c \in Calls, Send(c) PROVE TypeOK'
    BY <2>4 DEF Send
  <2>5. ASSUME NEW c \in Calls, WaitReturns(c) PROVE TypeOK'
    BY <2>5 DEF WaitReturns
  <2>6. ASSUME NEW c \in Calls, WaitTimesOut(c) PROVE TypeOK'
    BY <2>6 DEF WaitTimesOut
  <2>7. ASSUME NEW c \in Calls, Cleanup(c) PROVE TypeOK'
    BY <2>7 DEF Cleanup
  <2>8. ASSUME NEW r \in Repliers, FindNothing(r) PROVE TypeOK'
    BY <2>8 DEF FindNothing
  <2>9. ASSUME NEW r \in Repliers, Find(r) PROVE TypeOK'
    BY <2>9 DEF Find
  <2>10. ASSUME NEW r \in Repliers, Update(r) PROVE TypeOK'
    BY <2>10 DEF Update
  <2>11. ASSUME NEW r \in Repliers, Erase(r) PROVE TypeOK'
    BY <2>11 DEF Erase
  <2>12. ASSUME NEW r \in Repliers, NEW c \in Calls, Deliver(r, c) PROVE TypeOK'
    BY <2>12 DEF Deliver
  <2>13. ASSUME NEW c \in Calls, NEW v \in Verdicts, Decide(c, v) PROVE TypeOK'
    BY <2>13 DEF Decide
  <2>14. ASSUME NEW c \in Calls, Answer(c) PROVE TypeOK'
    BY <2>14 DEF Answer
  <2>15. CASE UNCHANGED vars
    BY <2>15 DEF vars
  <2> QED
    BY <2>1, <2>2, <2>3, <2>4, <2>5, <2>6, <2>7, <2>8, <2>9, <2>10, <2>11,
       <2>12, <2>13, <2>14, <2>15 DEF Next, CallStep, HandlerStep
<1> QED
  BY <1>1, <1>2, PTL DEF Spec

\* Every step keeps the lock discipline: a replier owns m_requestMutex exactly
\* while it works on a found context, a call owns its mtx exactly in cleanup().
LEMMA LockInvStep == TypeOK /\ LockInv /\ MapInv /\ PhaseInv /\ [Next]_vars => LockInv'
<1> SUFFICES ASSUME TypeOK, LockInv, MapInv, PhaseInv, [Next]_vars
             PROVE  LockInv'
  OBVIOUS
<1> USE CallsAssumption DEF TypeOK, callVars, lockVars, replierVars, droneVars,
      Return, OutCtx, Verdicts, NoResult, LockInv
<1>1. ASSUME NEW c \in Calls, Begin(c) PROVE LockInv'
  BY <1>1 DEF Begin
<1>2. ASSUME NEW c \in Calls, Register(c) PROVE LockInv'
  BY <1>2 DEF Register
<1>3. ASSUME NEW c \in Calls, SerializeFails(c) PROVE LockInv'
  BY <1>3 DEF SerializeFails
<1>4. ASSUME NEW c \in Calls, Send(c) PROVE LockInv'
  BY <1>4 DEF Send
<1>5. ASSUME NEW c \in Calls, WaitReturns(c) PROVE LockInv'
  BY <1>5 DEF WaitReturns
<1>6. ASSUME NEW c \in Calls, WaitTimesOut(c) PROVE LockInv'
  BY <1>6 DEF WaitTimesOut
<1>7. ASSUME NEW c \in Calls, Cleanup(c) PROVE LockInv'
  BY <1>7 DEF Cleanup
<1>8. ASSUME NEW r \in Repliers, FindNothing(r) PROVE LockInv'
  BY <1>8 DEF FindNothing
<1>9. ASSUME NEW r \in Repliers, Find(r) PROVE LockInv'
  BY <1>9 DEF Find
<1>10. ASSUME NEW r \in Repliers, Update(r) PROVE LockInv'
  BY <1>10 DEF Update
<1>11. ASSUME NEW r \in Repliers, Erase(r) PROVE LockInv'
  BY <1>11 DEF Erase
<1>12. ASSUME NEW r \in Repliers, NEW c \in Calls, Deliver(r, c) PROVE LockInv'
  BY <1>12 DEF Deliver
<1>13. ASSUME NEW c \in Calls, NEW v \in Verdicts, Decide(c, v) PROVE LockInv'
  BY <1>13 DEF Decide
<1>14. ASSUME NEW c \in Calls, Answer(c) PROVE LockInv'
  BY <1>14 DEF Answer
<1>15. CASE UNCHANGED vars
  BY <1>15 DEF vars
<1> QED
  BY <1>1, <1>2, <1>3, <1>4, <1>5, <1>6, <1>7,
     <1>8, <1>9, <1>10, <1>11, <1>12, <1>13, <1>14, <1>15 DEF Next, CallStep, HandlerStep

\* Every step keeps the map honest: entries sit under their call's key and
\* belong to calls that are still waiting or are being completed.
LEMMA MapInvStep == TypeOK /\ LockInv /\ MapInv /\ PhaseInv /\ [Next]_vars => MapInv'
<1> SUFFICES ASSUME TypeOK, LockInv, MapInv, PhaseInv, [Next]_vars
             PROVE  MapInv'
  OBVIOUS
<1> USE CallsAssumption DEF TypeOK, callVars, lockVars, replierVars, droneVars,
      Return, OutCtx, Verdicts, NoResult, LockInv, MapInv, PhaseInv,
      NoLeakedEntry, Completing
<1>1. ASSUME NEW c \in Calls, Begin(c) PROVE MapInv'
  BY <1>1 DEF Begin
<1>2. ASSUME NEW c \in Calls, Register(c) PROVE MapInv'
  BY <1>2 DEF Register
<1>3. ASSUME NEW c \in Calls, SerializeFails(c) PROVE MapInv'
  BY <1>3 DEF SerializeFails
<1>4. ASSUME NEW c \in Calls, Send(c) PROVE MapInv'
  BY <1>4 DEF Send
<1>5. ASSUME NEW c \in Calls, WaitReturns(c) PROVE MapInv'
  BY <1>5 DEF WaitReturns
<1>6. ASSUME NEW c \in Calls, WaitTimesOut(c) PROVE MapInv'
  BY <1>6 DEF WaitTimesOut
<1>7. ASSUME NEW c \in Calls, Cleanup(c) PROVE MapInv'
  BY <1>7 DEF Cleanup
<1>8. ASSUME NEW r \in Repliers, FindNothing(r) PROVE MapInv'
  BY <1>8 DEF FindNothing
<1>9. ASSUME NEW r \in Repliers, Find(r) PROVE MapInv'
  BY <1>9 DEF Find
<1>10. ASSUME NEW r \in Repliers, Update(r) PROVE MapInv'
  BY <1>10 DEF Update
<1>11. ASSUME NEW r \in Repliers, Erase(r) PROVE MapInv'
  BY <1>11 DEF Erase
<1>12. ASSUME NEW r \in Repliers, NEW c \in Calls, Deliver(r, c) PROVE MapInv'
  BY <1>12 DEF Deliver
<1>13. ASSUME NEW c \in Calls, NEW v \in Verdicts, Decide(c, v) PROVE MapInv'
  BY <1>13 DEF Decide
<1>14. ASSUME NEW c \in Calls, Answer(c) PROVE MapInv'
  BY <1>14 DEF Answer
<1>15. CASE UNCHANGED vars
  BY <1>15 DEF vars
<1> QED
  BY <1>1, <1>2, <1>3, <1>4, <1>5, <1>6, <1>7,
     <1>8, <1>9, <1>10, <1>11, <1>12, <1>13, <1>14, <1>15 DEF Next, CallStep, HandlerStep

\* Every step keeps contexts and control states in agreement: nothing
\* completes a context whose call is in, or past, the timeout path.
LEMMA PhaseInvStep == TypeOK /\ LockInv /\ MapInv /\ PhaseInv /\ [Next]_vars => PhaseInv'
<1> SUFFICES ASSUME TypeOK, LockInv, MapInv, PhaseInv, [Next]_vars
             PROVE  PhaseInv'
  OBVIOUS
<1> USE CallsAssumption DEF TypeOK, callVars, lockVars, replierVars, droneVars,
      Return, OutCtx, Verdicts, NoResult, LockInv, MapInv, PhaseInv,
      NoLeakedEntry, Completing, TimeoutIsFinal
<1>1. ASSUME NEW c \in Calls, Begin(c) PROVE PhaseInv'
  BY <1>1 DEF Begin
<1>2. ASSUME NEW c \in Calls, Register(c) PROVE PhaseInv'
  BY <1>2 DEF Register
<1>3. ASSUME NEW c \in Calls, SerializeFails(c) PROVE PhaseInv'
  BY <1>3 DEF SerializeFails
<1>4. ASSUME NEW c \in Calls, Send(c) PROVE PhaseInv'
  BY <1>4 DEF Send
<1>5. ASSUME NEW c \in Calls, WaitReturns(c) PROVE PhaseInv'
  BY <1>5 DEF WaitReturns
<1>6. ASSUME NEW c \in Calls, WaitTimesOut(c) PROVE PhaseInv'
  BY <1>6 DEF WaitTimesOut
<1>7. ASSUME NEW c \in Calls, Cleanup(c) PROVE PhaseInv'
  BY <1>7 DEF Cleanup
<1>8. ASSUME NEW r \in Repliers, FindNothing(r) PROVE PhaseInv'
  BY <1>8 DEF FindNothing
<1>9. ASSUME NEW r \in Repliers, Find(r) PROVE PhaseInv'
  BY <1>9 DEF Find
<1>10. ASSUME NEW r \in Repliers, Update(r) PROVE PhaseInv'
  BY <1>10 DEF Update
<1>11. ASSUME NEW r \in Repliers, Erase(r) PROVE PhaseInv'
  BY <1>11 DEF Erase
<1>12. ASSUME NEW r \in Repliers, NEW c \in Calls, Deliver(r, c) PROVE PhaseInv'
  BY <1>12 DEF Deliver
<1>13. ASSUME NEW c \in Calls, NEW v \in Verdicts, Decide(c, v) PROVE PhaseInv'
  BY <1>13 DEF Decide
<1>14. ASSUME NEW c \in Calls, Answer(c) PROVE PhaseInv'
  BY <1>14 DEF Answer
<1>15. CASE UNCHANGED vars
  BY <1>15 DEF vars
<1> QED
  BY <1>1, <1>2, <1>3, <1>4, <1>5, <1>6, <1>7,
     <1>8, <1>9, <1>10, <1>11, <1>12, <1>13, <1>14, <1>15 DEF Next, CallStep, HandlerStep

\* Every step keeps requests and replies paired by their keys: the context found
\* under a reply's key is the one of a call with that key.
LEMMA OwnInvStep == TypeOK /\ LockInv /\ MapInv /\ PhaseInv /\ OwnInv /\ [Next]_vars => OwnInv'
<1> SUFFICES ASSUME TypeOK, LockInv, MapInv, PhaseInv, OwnInv, [Next]_vars
             PROVE  OwnInv'
  OBVIOUS
<1> USE CallsAssumption DEF TypeOK, callVars, lockVars, replierVars, droneVars,
      Return, OutCtx, Verdicts, NoResult, LockInv, MapInv, PhaseInv,
      NoLeakedEntry, Completing, OwnInv, ReplyUnderKey, Displaces
<1>1. ASSUME NEW c \in Calls, Begin(c) PROVE OwnInv'
  BY <1>1 DEF Begin
<1>2. ASSUME NEW c \in Calls, Register(c) PROVE OwnInv'
  BY <1>2 DEF Register
<1>3. ASSUME NEW c \in Calls, SerializeFails(c) PROVE OwnInv'
  BY <1>3 DEF SerializeFails
<1>4. ASSUME NEW c \in Calls, Send(c) PROVE OwnInv'
  BY <1>4 DEF Send
<1>5. ASSUME NEW c \in Calls, WaitReturns(c) PROVE OwnInv'
  BY <1>5 DEF WaitReturns
<1>6. ASSUME NEW c \in Calls, WaitTimesOut(c) PROVE OwnInv'
  BY <1>6 DEF WaitTimesOut
<1>7. ASSUME NEW c \in Calls, Cleanup(c) PROVE OwnInv'
  BY <1>7 DEF Cleanup
<1>8. ASSUME NEW r \in Repliers, FindNothing(r) PROVE OwnInv'
  BY <1>8 DEF FindNothing
<1>9. ASSUME NEW r \in Repliers, Find(r) PROVE OwnInv'
  BY <1>9 DEF Find
<1>10. ASSUME NEW r \in Repliers, Update(r) PROVE OwnInv'
  BY <1>10 DEF Update
<1>11. ASSUME NEW r \in Repliers, Erase(r) PROVE OwnInv'
  BY <1>11 DEF Erase
<1>12. ASSUME NEW r \in Repliers, NEW c \in Calls, Deliver(r, c) PROVE OwnInv'
  BY <1>12 DEF Deliver
<1>13. ASSUME NEW c \in Calls, NEW v \in Verdicts, Decide(c, v) PROVE OwnInv'
  BY <1>13 DEF Decide
<1>14. ASSUME NEW c \in Calls, Answer(c) PROVE OwnInv'
  BY <1>14 DEF Answer
<1>15. CASE UNCHANGED vars
  BY <1>15 DEF vars
<1> QED
  BY <1>1, <1>2, <1>3, <1>4, <1>5, <1>6, <1>7,
     <1>8, <1>9, <1>10, <1>11, <1>12, <1>13, <1>14, <1>15 DEF Next, CallStep, HandlerStep

\* The strengthening is an invariant of the request manager, whatever the keys.
THEOREM ManagerInvariant == Spec => [](LockInv /\ MapInv /\ PhaseInv)
<1>1. Init => LockInv /\ MapInv /\ PhaseInv
  BY CallsAssumption DEF Init, LockInv, MapInv, PhaseInv, NoLeakedEntry, TimeoutIsFinal
<1> QED
  BY <1>1, TypeCorrect, LockInvStep, MapInvStep, PhaseInvStep, PTL DEF Spec

\* m_pendingRequests never leaks: whatever keys callers use, an entry belongs
\* to a call still inside sendRequestAndWait or is about to be erased.
THEOREM NoLeak == Spec => []NoLeakedEntry
BY ManagerInvariant, PTL DEF MapInv

\* A late reply never completes a call that has reported a timeout.
THEOREM LateReplyHarmless == Spec => []TimeoutIsFinal
BY ManagerInvariant, PTL DEF PhaseInv

\* Duplicate replies never change the result of a completed context.
THEOREM FirstReplyDecides == Spec => CompletedOnce
<1>1. TypeOK /\ LockInv /\ MapInv /\ [Next]_vars =>
        [\A c \in Calls : finished[c] => finished'[c] /\ result'[c] = result[c]]_vars
  <2> SUFFICES ASSUME TypeOK, LockInv, MapInv, Next, NEW c \in Calls, finished[c]
               PROVE  finished'[c] /\ result'[c] = result[c]
    OBVIOUS
  <2>1. CASE \E r \in Repliers : Update(r)
    <3> PICK r \in Repliers : Update(r)
      BY <2>1
    <3>1. OutCtx(r) # c
      <4> SUFFICES ASSUME OutCtx(r) = c PROVE FALSE
        OBVIOUS
      <4>1. m_pendingRequests[Key[c]] = c
        BY CallsAssumption DEF Update, MapInv, TypeOK, OutCtx
      <4>2. PICK q \in Repliers : Completing(q, c)
        BY <4>1 DEF MapInv
      <4>3. requestMutex = q /\ requestMutex = r
        BY <4>2 DEF Completing, Update, LockInv
      <4> QED
        BY <4>2, <4>3 DEF Completing, Update
    <3> QED
      BY <3>1 DEF Update, TypeOK
  <2>2. CASE ~ \E r \in Repliers : Update(r)
    BY <2>2 DEF Next, CallStep, HandlerStep, Begin, Register, SerializeFails, Send,
       WaitReturns, WaitTimesOut, Cleanup, Deliver, FindNothing, Find, Erase, Decide,
       Answer, callVars
  <2> QED
    BY <2>1, <2>2
<1> QED
  BY <1>1, TypeCorrect, ManagerInvariant, PTL DEF Spec, CompletedOnce

\* Calls and replies pair up by their keys.
THEOREM PairingInvariant == Spec => []OwnInv
<1>1. Init => OwnInv
  BY CallsAssumption DEF Init, OwnInv, ReplyUnderKey, NoResult
<1> QED
  BY <1>1, OwnInvStep, TypeCorrect, ManagerInvariant, PTL DEF Spec

\* Whatever the keys and whoever else uses them, sendRequestAndWait reports what
\* the aircraft answered to a request with the key of the call.
THEOREM RepliesHaveTheKey == Spec => []ReplyUnderKey
BY PairingInvariant, PTL DEF OwnInv

\* Whatever the keys, a waiting call is orphaned by no call under another key.
THEOREM WaitersAnswerable == Spec => []NoOrphanedWaiter
<1>1. OwnInv => NoOrphanedWaiter
  BY DEF OwnInv, NoOrphanedWaiter
<1> QED
  BY <1>1, PairingInvariant, PTL

-----------------------------------------------------------------------------
(* The manager as a service.                                               *)

\* Whatever answer is under way, the aircraft has given it; and whoever is
\* complete has one.
AnswersReal ==
  /\ \A c \in Calls : inFlight[c] > 0 => verdict[c] # NoResult
  /\ \A r \in Repliers, c \in Calls : rmsg[r] = c => verdict[c] # NoResult
  /\ \A c \in Calls : finished[c] => result[c] # NoResult

\* An answer is decided before it is delivered, and delivered before it counts.
LEMMA AnswersRealStep == TypeOK /\ AnswersReal /\ [Next]_vars => AnswersReal'
<1> SUFFICES ASSUME TypeOK, AnswersReal, [Next]_vars PROVE AnswersReal'
  OBVIOUS
<1> USE CallsAssumption DEF TypeOK, callVars, lockVars, replierVars, droneVars, Return, AnswersReal
<1>1. ASSUME UNCHANGED <<finished, result, rmsg, verdict, inFlight>> PROVE AnswersReal'
  BY <1>1
<1>2. ASSUME NEW c \in Calls, CallStep(c) PROVE AnswersReal'
  BY <1>1, <1>2 DEF CallStep, Begin, Register, SerializeFails, Send, WaitReturns, WaitTimesOut, Cleanup
<1>3. ASSUME NEW r \in Repliers, FindNothing(r) \/ Find(r) \/ Erase(r) PROVE AnswersReal'
  BY <1>3 DEF FindNothing, Find, Erase
<1>4. ASSUME NEW r \in Repliers, Update(r) PROVE AnswersReal'
  <2>1. verdict[rmsg[r]] # NoResult
    BY <1>4 DEF Update
  <2> QED
    BY <1>4, <2>1 DEF Update
<1>5. ASSUME NEW r \in Repliers, NEW c \in Calls, Deliver(r, c) PROVE AnswersReal'
  BY <1>5 DEF Deliver
<1>6. ASSUME NEW c \in Calls, NEW v \in Verdicts, Decide(c, v) PROVE AnswersReal'
  BY <1>6 DEF Decide, Verdicts, NoResult
<1>7. ASSUME NEW c \in Calls, Answer(c) PROVE AnswersReal'
  BY <1>7 DEF Answer
<1>8. CASE UNCHANGED vars
  BY <1>1, <1>8 DEF vars
<1> QED
  BY <1>2, <1>3, <1>4, <1>5, <1>6, <1>7, <1>8 DEF Next, HandlerStep

\* A replier that has found a context has found an incomplete one.
LEMMA FoundIsOpen ==
  ASSUME TypeOK, LockInv, MapInv, NEW r \in Repliers, rpc[r] = "found"
  PROVE  /\ OutCtx(r) \in Calls /\ rmsg[r] \in Calls /\ Key[OutCtx(r)] = Key[rmsg[r]]
         /\ ~finished[OutCtx(r)]
         /\ pc[OutCtx(r)] \in {"registered", "waiting", "cleanup"}
<1> DEFINE c == OutCtx(r)
<1>1. /\ c \in Calls /\ rmsg[r] \in Calls /\ Key[rmsg[r]] \in Keys
      /\ m_pendingRequests[Key[rmsg[r]]] = c
  BY CallsAssumption DEF LockInv, TypeOK, OutCtx
<1>2. Key[c] = Key[rmsg[r]] /\ m_pendingRequests[Key[c]] = c
  BY <1>1 DEF MapInv
<1>3. ASSUME NEW q \in Repliers, Completing(q, c) PROVE FALSE
  <2>1. requestMutex = q /\ requestMutex = r
    BY <1>3 DEF Completing, LockInv
  <2> QED
    BY <1>3, <2>1 DEF Completing
<1>4. ~finished[c]
  BY <1>1, <1>2, <1>3 DEF MapInv
<1>5. pc[c] \in {"registered", "waiting", "cleanup"}
  BY <1>1, <1>3 DEF MapInv, NoLeakedEntry
<1> QED
  BY <1>1, <1>2, <1>4, <1>5

\* No call has begun in either.
LEMMA ServiceInit == Init => RS!Init
BY DEF Init, RS!Init, Phases, PhaseOf, Answers, NoResult

\* A step of the manager is one of the service, or is not seen.
LEMMA ServiceStep ==
  TypeOK /\ LockInv /\ MapInv /\ PhaseInv /\ AnswersReal /\ [Next]_vars => [RS!Next]_(RS!vars)
<1> SUFFICES ASSUME TypeOK, LockInv, MapInv, PhaseInv, AnswersReal, [Next]_vars
             PROVE  [RS!Next]_(RS!vars)
  OBVIOUS
<1>0. ASSUME UNCHANGED <<Phases, Answers, verdict>> PROVE UNCHANGED RS!vars
  BY <1>0 DEF RS!vars
<1>1. ASSUME NEW c \in Calls, pc' = [pc EXCEPT ![c] = pc'[c]],
             ret' = [ret EXCEPT ![c] = ret'[c]]
      PROVE  Phases' = [Phases EXCEPT ![c] = PhaseOf(c)'] /\ Phases[c] = PhaseOf(c)
  <2>1. \A u \in Calls : u # c => PhaseOf(u)' = PhaseOf(u)
    BY <1>1 DEF PhaseOf, TypeOK
  <2> QED
    BY <2>1 DEF Phases
<1>2. \A c \in Calls : Answers[c] = IF finished[c] THEN result[c] ELSE NoResult
  BY DEF Answers
<1>3. ASSUME UNCHANGED <<finished, result>> PROVE Answers' = Answers
  BY <1>3 DEF Answers
<1>4. ASSUME UNCHANGED <<pc, ret>> PROVE Phases' = Phases
  BY <1>4 DEF Phases, PhaseOf
<1>5. ASSUME NEW c \in Calls, Begin(c) PROVE RS!Next
  <2>1. PhaseOf(c) = "idle" /\ PhaseOf(c)' = "open" /\ ret' = [ret EXCEPT ![c] = ret'[c]]
    BY <1>5 DEF Begin, PhaseOf, TypeOK
  <2>2. RS!Open(c)
    BY <1>1, <1>3, <1>5, <2>1 DEF Begin, droneVars, TypeOK, RS!Open, RS!Moves
  <2> QED
    BY <2>2 DEF RS!Next
<1>6. ASSUME NEW c \in Calls, Register(c) PROVE UNCHANGED RS!vars
  <2>1. PhaseOf(c)' = PhaseOf(c) /\ ret' = [ret EXCEPT ![c] = ret'[c]]
    BY <1>6 DEF Register, PhaseOf, TypeOK
  <2>2. Phases' = Phases
    BY <1>1, <1>6, <2>1 DEF Register, TypeOK, Phases
  <2> QED
    BY <1>0, <1>3, <1>6, <2>2 DEF Register, droneVars
<1>7. ASSUME NEW c \in Calls, SerializeFails(c) PROVE RS!Next
  <2>1. PhaseOf(c) = "open" /\ PhaseOf(c)' = "pb2json"
    BY <1>7 DEF SerializeFails, Return, PhaseOf, TypeOK
  <2>2. RS!Fail(c)
    BY <1>1, <1>3, <1>7, <2>1 DEF SerializeFails, Return, droneVars, TypeOK, RS!Fail, RS!Moves
  <2> QED
    BY <2>2 DEF RS!Next
<1>8. ASSUME NEW c \in Calls, Send(c) PROVE RS!Next
  <2>1. PhaseOf(c) = "open" /\ PhaseOf(c)' = "sent" /\ ret' = [ret EXCEPT ![c] = ret'[c]]
    BY <1>8 DEF Send, PhaseOf, TypeOK
  <2>2. RS!Send(c)
    BY <1>1, <1>3, <1>8, <2>1 DEF Send, droneVars, TypeOK, RS!Send, RS!Moves
  <2> QED
    BY <2>2 DEF RS!Next
<1>9. ASSUME NEW c \in Calls, WaitReturns(c) PROVE RS!Next
  <2>1. PhaseOf(c) = "sent" /\ PhaseOf(c)' = IF result[c] = 0 THEN "ok" ELSE "rejected"
    BY <1>9 DEF WaitReturns, Return, PhaseOf, TypeOK
  <2>2. Answers[c] = result[c] /\ result[c] # NoResult
    BY <1>2, <1>9 DEF WaitReturns, AnswersReal
  <2>3. RS!Report(c)
    BY <1>1, <1>3, <1>9, <2>1, <2>2 DEF WaitReturns, Return, droneVars, TypeOK, RS!Report, RS!Moves
  <2> QED
    BY <2>3 DEF RS!Next
<1>10. ASSUME NEW c \in Calls, WaitTimesOut(c) PROVE UNCHANGED RS!vars
  <2>1. PhaseOf(c)' = PhaseOf(c) /\ ret' = [ret EXCEPT ![c] = ret'[c]]
    BY <1>10 DEF WaitTimesOut, PhaseOf, TypeOK
  <2>2. Phases' = Phases
    BY <1>1, <1>10, <2>1 DEF WaitTimesOut, TypeOK, Phases
  <2> QED
    BY <1>0, <1>3, <1>10, <2>2 DEF WaitTimesOut, droneVars
<1>11. ASSUME NEW c \in Calls, Cleanup(c) PROVE RS!Next
  <2>1. PhaseOf(c) = "sent" /\ PhaseOf(c)' = "timeout"
    BY <1>11 DEF Cleanup, Return, PhaseOf, TypeOK
  <2>2. Answers[c] = NoResult
    BY <1>2, <1>11 DEF Cleanup, PhaseInv
  <2>3. RS!GiveUp(c)
    BY <1>1, <1>3, <1>11, <2>1, <2>2 DEF Cleanup, Return, droneVars, TypeOK, RS!GiveUp, RS!Moves
  <2> QED
    BY <2>3 DEF RS!Next
<1>12. ASSUME UNCHANGED <<pc, ret, finished, result, verdict>> PROVE UNCHANGED RS!vars
  BY <1>0, <1>3, <1>4, <1>12
<1>13. ASSUME NEW r \in Repliers, Update(r) PROVE RS!Next
  <2> DEFINE c == OutCtx(r)  d == rmsg[r]
  <2>1. /\ c \in Calls /\ d \in Calls /\ Key[d] = Key[c] /\ ~finished[c]
        /\ pc[c] \in {"registered", "waiting", "cleanup"}
    BY <1>13, FoundIsOpen DEF Update
  <2>2. pc[c] # "cleanup"
    BY <1>13, <2>1, CallsAssumption DEF Update, LockInv
  <2>3. verdict[d] # NoResult
    BY <1>13, <2>1 DEF AnswersReal
  <2> HIDE DEF c, d
  <2>4. Phases[c] \in {"open", "sent"} /\ Answers[c] = NoResult
    BY <1>2, <2>1, <2>2 DEF Phases, PhaseOf
  <2>5. /\ result' = [result EXCEPT ![c] = verdict[d]] /\ finished' = [finished EXCEPT ![c] = TRUE]
        /\ pc' = pc /\ ret' = ret /\ verdict' = verdict
    BY <1>13 DEF Update, c, d, droneVars
  <2>6. Answers' = [Answers EXCEPT ![c] = verdict[d]]
    BY <2>1, <2>5 DEF Answers, TypeOK
  <2>7. RS!Answer(c, d)
    BY <1>4, <2>1, <2>3, <2>4, <2>5, <2>6 DEF RS!Answer
  <2> QED
    BY <2>1, <2>7 DEF RS!Next
<1>14. ASSUME NEW c \in Calls, NEW v \in Verdicts, Decide(c, v) PROVE RS!Next
  <2>1. c \in Others \/ Phases[c] \in {"sent", "ok", "rejected", "timeout"}
    BY <1>14 DEF Decide, Published, Phases, PhaseOf, PhaseInv, TypeOK, CallStates
  <2>2. RS!Decide(c, v)
    BY <1>3, <1>4, <1>14, <2>1 DEF Decide, callVars, RS!Decide
  <2> QED
    BY <2>2 DEF RS!Next
<1>15. CASE UNCHANGED vars
  BY <1>12, <1>15 DEF vars, callVars, droneVars
<1>16. ASSUME NEW r \in Repliers, FindNothing(r) \/ Find(r) \/ Erase(r)
       PROVE  UNCHANGED RS!vars
  BY <1>12, <1>16 DEF FindNothing, Find, Erase, callVars, droneVars
<1>17. ASSUME NEW r \in Repliers, NEW c \in Calls, Deliver(r, c)
       PROVE  UNCHANGED RS!vars
  BY <1>12, <1>17 DEF Deliver, callVars
<1>18. ASSUME NEW c \in Calls, Answer(c) PROVE UNCHANGED RS!vars
  BY <1>12, <1>18 DEF Answer, callVars
<1> QED
  BY <1>5, <1>6, <1>7, <1>8, <1>9, <1>10, <1>11, <1>13, <1>14, <1>15, <1>16,
     <1>17, <1>18 DEF Next, CallStep, HandlerStep

\* sendRequestAndWait and findAndUpdateRequest implement the service.
THEOREM ManagerImplementsService == Spec => ServiceKept
<1>1. Init => AnswersReal
  BY CallsAssumption DEF Init, AnswersReal
<1> QED
  BY <1>1, ServiceInit, TypeCorrect, ManagerInvariant, AnswersRealStep, ServiceStep, PTL
     DEF Spec, ServiceKept, RS!Spec

-----------------------------------------------------------------------------
(* The lock cycle.                                                         *)

\* Whoever keeps the others from m_requestMutex can go on itself.
HolderGoesOn(r) == rpc[r] = "updated" \/ (rpc[r] = "found" /\ ctxMtx[OutCtx(r)] = None)

HoldersGoOn ==
  /\ \A r \in Repliers : requestMutex = r => HolderGoesOn(r)
  /\ \A c \in Calls : ctxMtx[c] # None =>
       requestMutex = None \/ \E r \in Repliers : requestMutex = r /\ HolderGoesOn(r)

\* Without the cycle no lock is held by a thread that waits for another one.
THEOREM OnlyTheCycleBlocks == Spec => [](LockCycle \/ HoldersGoOn)
<1>1. TypeOK /\ LockInv => LockCycle \/ HoldersGoOn
  <2> SUFFICES ASSUME TypeOK, LockInv, ~LockCycle PROVE HoldersGoOn
    OBVIOUS
  <2>1. ASSUME NEW r \in Repliers, requestMutex = r PROVE HolderGoesOn(r)
    <3>1. OutCtx(r) \in Calls /\ rpc[r] \in {"found", "updated"}
      BY <2>1 DEF LockInv
    <3>2. rpc[r] = "found" => pc[OutCtx(r)] # "cleanup"
      BY <3>1 DEF LockCycle
    <3> QED
      BY <3>1, <3>2 DEF HolderGoesOn, LockInv
  <2>2. requestMutex = None \/ \E r \in Repliers : requestMutex = r
    BY DEF TypeOK
  <2> QED
    BY <2>1, <2>2 DEF HoldersGoOn
<1> QED
  BY <1>1, TypeCorrect, ManagerInvariant, PTL

\* What every call and every answer needs.
mapAndMutex == <<m_pendingRequests, requestMutex>>

\* In the cycle neither thread moves, and nobody else can free them.
LEMMA CycleStays ==
  TypeOK /\ LockInv /\ LockCycle /\ [Next]_vars => LockCycle' /\ UNCHANGED mapAndMutex
<1> SUFFICES ASSUME TypeOK, LockInv, LockCycle, [Next]_vars
             PROVE  LockCycle' /\ UNCHANGED mapAndMutex
  OBVIOUS
<1>1. PICK c \in Calls, r \in Repliers : pc[c] = "cleanup" /\ rpc[r] = "found" /\ OutCtx(r) = c
  BY DEF LockCycle
<1>2. requestMutex = r /\ requestMutex # None /\ ctxMtx[c] = c /\ c # None
  BY <1>1, CallsAssumption DEF LockInv
<1>3. ASSUME pc'[c] = pc[c], rpc'[r] = rpc[r], rmsg'[r] = rmsg[r], UNCHANGED mapAndMutex
      PROVE  LockCycle' /\ UNCHANGED mapAndMutex
  BY <1>1, <1>3 DEF LockCycle, OutCtx, mapAndMutex
<1>4. ASSUME NEW d \in Calls, CallStep(d) PROVE LockCycle' /\ UNCHANGED mapAndMutex
  <2>1. d # c
    BY <1>1, <1>2, <1>4 DEF CallStep, Begin, Register, SerializeFails, Send, WaitReturns,
       WaitTimesOut, Cleanup
  <2>2. Begin(d) \/ Send(d) \/ WaitReturns(d) \/ WaitTimesOut(d)
    BY <1>2, <1>4 DEF CallStep, Register, SerializeFails, Cleanup
  <2>3. pc'[c] = pc[c] /\ UNCHANGED <<rpc, rmsg, mapAndMutex>>
    BY <2>1, <2>2 DEF Begin, Send, WaitReturns, WaitTimesOut, Return, TypeOK, replierVars, lockVars,
       mapAndMutex
  <2> QED
    BY <1>3, <2>3
<1>5. ASSUME NEW q \in Repliers, HandlerStep(q) PROVE FALSE
  <2>1. q = r
    BY <1>2, <1>5 DEF HandlerStep, FindNothing, Find, Update, Erase, LockInv
  <2> QED
    BY <1>1, <1>2, <1>5, <2>1 DEF HandlerStep, FindNothing, Find, Update, Erase
<1>6. ASSUME NEW q \in Repliers, NEW d \in Calls, Deliver(q, d)
      PROVE  LockCycle' /\ UNCHANGED mapAndMutex
  BY <1>1, <1>3, <1>6 DEF Deliver, TypeOK, callVars, lockVars, mapAndMutex
<1>7. ASSUME NEW d \in Calls, NEW v \in Verdicts, Decide(d, v)
      PROVE  LockCycle' /\ UNCHANGED mapAndMutex
  BY <1>3, <1>7 DEF Decide, callVars, lockVars, replierVars, mapAndMutex
<1>8. ASSUME NEW d \in Calls, Answer(d) PROVE LockCycle' /\ UNCHANGED mapAndMutex
  BY <1>3, <1>8 DEF Answer, callVars, lockVars, replierVars, mapAndMutex
<1>9. CASE UNCHANGED vars
  BY <1>3, <1>9 DEF vars, callVars, lockVars, replierVars, mapAndMutex
<1> QED
  BY <1>4, <1>5, <1>6, <1>7, <1>8, <1>9 DEF Next

\* Once the cycle has formed it stays, and m_requestMutex with it: from then on
\* no call of the module registers or gives up, and no answer is taken.
THEOREM TheCycleIsForEver ==
  Spec => /\ [](LockCycle => []LockCycle)
          /\ [][LockCycle => UNCHANGED mapAndMutex]_vars
<1>1. TypeOK /\ LockInv /\ [Next]_vars => (LockCycle => LockCycle')
  BY CycleStays
<1>2. TypeOK /\ LockInv /\ [Next]_vars => [LockCycle => UNCHANGED mapAndMutex]_vars
  BY CycleStays
<1> QED
  BY <1>1, <1>2, TypeCorrect, ManagerInvariant, PTL DEF Spec

-----------------------------------------------------------------------------
(* The thread pools.                                                       *)

\* The queues and pools of a module only decide when the request manager steps.
LEMMA PoolSteps == [PoolNext]_allVars => [Next]_vars
<1> SUFFICES ASSUME PoolNext PROVE Next \/ UNCHANGED vars
  BY DEF allVars
<1>1. ASSUME NEW c \in Calls, CommandArrives(c) \/ ResponseArrives(c) PROVE UNCHANGED vars
  BY <1>1 DEF CommandArrives, ResponseArrives
<1>2. ASSUME NEW c \in Calls, StartCommand(c) PROVE Next
  BY <1>2 DEF StartCommand, Next, CallStep
<1>3. ASSUME NEW c \in Calls, Runs(c) \/ Expires(c) PROVE Next
  BY <1>3 DEF Runs, Expires, Next, CallStep
<1>4. ASSUME NEW c \in Calls, Aircraft(c) PROVE Next
  BY <1>4 DEF Aircraft, Next, Verdicts
<1>5. ASSUME NEW r \in Repliers, NEW c \in Calls, StartResponse(r, c) \/ StartSharedResponse(r, c)
      PROVE  Next
  BY <1>5 DEF StartResponse, StartSharedResponse, Next
<1>6. ASSUME NEW r \in Repliers, Handles(r) PROVE Next
  BY <1>6 DEF Handles, Next
<1> QED
  BY <1>1, <1>2, <1>3, <1>4, <1>5, <1>6 DEF PoolNext

\* flyto_entry and payload_entry in front of the request manager, whether the
\* replies have a pool of their own or not: nothing happens to a request that
\* could not happen without the pools.
THEOREM PoolsImplementManager == PoolSpec => Spec
BY PoolSteps, PTL DEF PoolSpec, PoolInit, Spec

\* The thread pools keep all of it.
THEOREM PoolsKeepService ==
  PoolSpec => ServiceKept /\ [](LockCycle \/ HoldersGoOn) /\ [](LockCycle => []LockCycle)
BY PoolsImplementManager, ManagerImplementsService, OnlyTheCycleBlocks, TheCycleIsForEver, PTL

\* A command that has arrived waits in the queue, once, or has been begun.
Tasks == {Command(c) : c \in Calls} \cup {Response(c) : c \in Calls}

NotTwice ==
  /\ \A i \in DOMAIN tasks, c \in Calls :
       tasks[i] = Command(c) => c \in arrived /\ pc[c] = "idle"
  /\ \A i, j \in DOMAIN tasks, c \in Calls :
       tasks[i] = Command(c) /\ tasks[j] = Command(c) => i = j

NotLost ==
  \A c \in arrived : pc[c] = "idle" => \E i \in DOMAIN tasks : tasks[i] = Command(c)

CommandsOnce ==
  /\ tasks \in Seq(Tasks)
  /\ arrived \subseteq Calls /\ \A c \in Calls \ arrived : pc[c] = "idle"
  /\ NotTwice /\ NotLost

\* What is left of a queue when its oldest task is taken.
LEMMA Pop ==
  ASSUME NEW S, NEW q \in Seq(S), q # <<>>
  PROVE  /\ Tail(q) \in Seq(S) /\ Head(q) = q[1] /\ 1 \in DOMAIN q
         /\ \A i \in DOMAIN Tail(q) : i + 1 \in DOMAIN q /\ Tail(q)[i] = q[i + 1]
         /\ \A j \in DOMAIN q : j # 1 => j - 1 \in DOMAIN Tail(q) /\ Tail(q)[j - 1] = q[j]
<1>1. Len(q) \in Nat \ {0}
  BY EmptySeq
<1>2. /\ Tail(q) \in Seq(S) /\ Len(Tail(q)) = Len(q) - 1 /\ Head(q) = q[1]
      /\ \A i \in 1 .. Len(q) - 1 : Tail(q)[i] = q[i + 1]
  BY <1>1, HeadTailProperties
<1>3. DOMAIN q = 1 .. Len(q) /\ DOMAIN Tail(q) = 1 .. Len(q) - 1
  BY <1>2
<1> QED
  BY <1>1, <1>2, <1>3

\* What a queue is when a task has been posted.
LEMMA Push ==
  ASSUME NEW S, NEW q \in Seq(S), NEW e \in S, NEW p, p = Append(q, e)
  PROVE  /\ p \in Seq(S) /\ Len(q) + 1 \in DOMAIN p /\ p[Len(q) + 1] = e
         /\ \A i \in DOMAIN q : i \in DOMAIN p /\ p[i] = q[i]
         /\ \A i \in DOMAIN p : i \in DOMAIN q \/ i = Len(q) + 1
<1>1. Len(q) \in Nat /\ DOMAIN q = 1 .. Len(q)
  BY LenProperties
<1>2. /\ p \in Seq(S) /\ Len(p) = Len(q) + 1 /\ p[Len(q) + 1] = e
      /\ \A i \in 1 .. Len(q) : p[i] = q[i]
  BY AppendProperties
<1>3. DOMAIN p = 1 .. Len(q) + 1
  BY <1>2, LenProperties
<1> QED
  BY <1>1, <1>2, <1>3

\* A call that has begun does not go back, and one that waits for its thread
\* does not move by itself.
LEMMA IdleStays ==
  ASSUME TypeOK, NEW d \in Calls, Runs(d) \/ Expires(d), NEW c \in Calls
  PROVE  pc'[c] = "idle" <=> pc[c] = "idle"
BY DEF Runs, Expires, Register, SerializeFails, Send, WaitReturns, WaitTimesOut, Cleanup, Return,
   TypeOK

\* A command is no reply.
LEMMA TaskFacts ==
  \A c, d : Command(c) # Response(d) /\ (Command(c) = Command(d) => c = d)
BY DEF Command, Response

\* A command joins the queue.
LEMMA CommandJoins ==
  ASSUME CommandsOnce, NEW c \in Calls, CommandArrives(c)
  PROVE  CommandsOnce'
<1>1. /\ c \notin arrived /\ arrived' = arrived \cup {c} /\ tasks' = Append(tasks, Command(c))
      /\ pc' = pc
  BY DEF CommandArrives, vars, callVars
<1>2. tasks \in Seq(Tasks) /\ Command(c) \in Tasks
  BY DEF CommandsOnce, Tasks
<1>3. /\ tasks' \in Seq(Tasks)
      /\ Len(tasks) + 1 \in DOMAIN tasks' /\ tasks'[Len(tasks) + 1] = Command(c)
      /\ \A i \in DOMAIN tasks : i \in DOMAIN tasks' /\ tasks'[i] = tasks[i]
      /\ \A i \in DOMAIN tasks' : i \in DOMAIN tasks \/ i = Len(tasks) + 1
  BY <1>1, <1>2, Push
<1>4. pc[c] = "idle" /\ \A i \in DOMAIN tasks : tasks[i] # Command(c)
  BY <1>1 DEF CommandsOnce, NotTwice
<1>5. NotTwice'
  <2>1. ASSUME NEW i \in DOMAIN tasks', NEW d \in Calls, tasks'[i] = Command(d)
        PROVE  /\ d \in arrived' /\ pc'[d] = "idle"
               /\ i \in DOMAIN tasks \/ (i = Len(tasks) + 1 /\ d = c)
    BY <1>1, <1>3, <1>4, <2>1, TaskFacts DEF CommandsOnce, NotTwice
  <2>2. ASSUME NEW i \in DOMAIN tasks', NEW j \in DOMAIN tasks', NEW d \in Calls,
               tasks'[i] = Command(d), tasks'[j] = Command(d)
        PROVE  i = j
    BY <1>3, <1>4, <2>1, <2>2 DEF CommandsOnce, NotTwice
  <2> QED
    BY <2>1, <2>2 DEF NotTwice
<1>6. NotLost'
  <2> SUFFICES ASSUME NEW d \in arrived', pc'[d] = "idle"
               PROVE  \E i \in DOMAIN tasks' : tasks'[i] = Command(d)
    BY DEF NotLost
  <2>1. CASE d = c
    BY <1>2, <1>3, <2>1
  <2>2. CASE d # c
    BY <1>1, <1>3, <2>2 DEF CommandsOnce, NotLost
  <2> QED
    BY <2>1, <2>2
<1> QED
  BY <1>1, <1>3, <1>5, <1>6 DEF CommandsOnce

\* A reply joins the queue, or the one of the replies.
LEMMA ResponseJoins ==
  ASSUME CommandsOnce, NEW c \in Calls, ResponseArrives(c)
  PROVE  CommandsOnce'
<1>1. /\ arrived' = arrived /\ pc' = pc
      /\ tasks' = tasks \/ tasks' = Append(tasks, Response(c))
  BY DEF ResponseArrives, vars, callVars
<1>2. CASE tasks' = tasks
  BY <1>1, <1>2 DEF CommandsOnce, NotTwice, NotLost
<1>3. CASE tasks' = Append(tasks, Response(c))
  <2>1. tasks \in Seq(Tasks) /\ Response(c) \in Tasks
    BY DEF CommandsOnce, Tasks
  <2>2. tasks' \in Seq(Tasks)
    BY <1>3, <2>1, Push
  <2>3. /\ \A i \in DOMAIN tasks : i \in DOMAIN tasks' /\ tasks'[i] = tasks[i]
        /\ \A i \in DOMAIN tasks' : i \in DOMAIN tasks \/ tasks'[i] = Response(c)
    BY <1>3, <2>1, Push
  <2>4. NotTwice'
    BY <1>1, <2>3, TaskFacts DEF CommandsOnce, NotTwice
  <2>5. NotLost'
    BY <1>1, <2>3 DEF CommandsOnce, NotLost
  <2> QED
    BY <1>1, <2>2, <2>4, <2>5 DEF CommandsOnce
<1> QED
  BY <1>1, <1>2, <1>3

\* A thread takes the oldest command and begins it.
LEMMA CommandLeaves ==
  ASSUME TypeOK, CommandsOnce, NEW c \in Calls, StartCommand(c)
  PROVE  CommandsOnce'
<1>1. /\ tasks # <<>> /\ Head(tasks) = Command(c) /\ tasks' = Tail(tasks) /\ arrived' = arrived
      /\ pc' = [pc EXCEPT ![c] = "started"] /\ pc \in [Calls -> CallStates]
  BY DEF StartCommand, Begin, TypeOK
<1>2. /\ tasks' \in Seq(Tasks) /\ tasks[1] = Command(c) /\ 1 \in DOMAIN tasks
      /\ \A i \in DOMAIN tasks' : i + 1 \in DOMAIN tasks /\ tasks'[i] = tasks[i + 1]
      /\ \A j \in DOMAIN tasks : j # 1 => j - 1 \in DOMAIN tasks' /\ tasks'[j - 1] = tasks[j]
  BY <1>1, Pop DEF CommandsOnce
<1>3. \A i \in DOMAIN tasks' : i \in Nat \ {0}
  BY <1>2
<1>4. c \in arrived
  BY <1>2 DEF CommandsOnce, NotTwice
<1>5. \A i \in DOMAIN tasks' : tasks'[i] # Command(c)
  <2> SUFFICES ASSUME NEW i \in DOMAIN tasks', tasks'[i] = Command(c) PROVE FALSE
    OBVIOUS
  <2>1. tasks[i + 1] = Command(c) /\ i + 1 \in DOMAIN tasks
    BY <1>2
  <2>2. i + 1 = 1
    BY <1>2, <2>1 DEF CommandsOnce, NotTwice
  <2> QED
    BY <1>3, <2>2
<1>6. \A d \in Calls : d # c => pc'[d] = pc[d]
  BY <1>1
<1>7. NotTwice'
  <2>1. ASSUME NEW i \in DOMAIN tasks', NEW d \in Calls, tasks'[i] = Command(d)
        PROVE  d \in arrived' /\ pc'[d] = "idle"
    BY <1>1, <1>2, <1>5, <1>6, <2>1 DEF CommandsOnce, NotTwice
  <2>2. ASSUME NEW i \in DOMAIN tasks', NEW j \in DOMAIN tasks', NEW d \in Calls,
               tasks'[i] = Command(d), tasks'[j] = Command(d)
        PROVE  i = j
    <3>1. i + 1 = j + 1
      BY <1>2, <2>2 DEF CommandsOnce, NotTwice
    <3> QED
      BY <1>3, <3>1
  <2> QED
    BY <2>1, <2>2 DEF NotTwice
<1>8. NotLost'
  <2> SUFFICES ASSUME NEW d \in arrived', pc'[d] = "idle"
               PROVE  \E i \in DOMAIN tasks' : tasks'[i] = Command(d)
    BY DEF NotLost
  <2>1. d # c /\ d \in Calls /\ d \in arrived
    BY <1>1 DEF CommandsOnce
  <2>2. PICK j \in DOMAIN tasks : tasks[j] = Command(d)
    BY <1>6, <2>1 DEF CommandsOnce, NotLost
  <2>3. j # 1
    BY <1>2, <2>1, <2>2, TaskFacts
  <2> QED
    BY <1>2, <2>2, <2>3
<1>9. \A d \in Calls \ arrived : pc'[d] = "idle"
  BY <1>4, <1>6 DEF CommandsOnce
<1> QED
  BY <1>1, <1>2, <1>7, <1>8, <1>9 DEF CommandsOnce

\* A thread of a shared pool takes the oldest reply.
LEMMA ResponseLeaves ==
  ASSUME CommandsOnce, NEW r \in Repliers, NEW c \in Calls, StartSharedResponse(r, c)
  PROVE  CommandsOnce'
<1>1. /\ tasks # <<>> /\ Head(tasks) = Response(c) /\ tasks' = Tail(tasks) /\ arrived' = arrived
      /\ pc' = pc
  BY DEF StartSharedResponse, Deliver, callVars
<1>2. /\ tasks' \in Seq(Tasks) /\ tasks[1] = Response(c)
      /\ \A i \in DOMAIN tasks' : i + 1 \in DOMAIN tasks /\ tasks'[i] = tasks[i + 1]
      /\ \A j \in DOMAIN tasks : j # 1 => j - 1 \in DOMAIN tasks' /\ tasks'[j - 1] = tasks[j]
  BY <1>1, Pop DEF CommandsOnce
<1>3. \A i \in DOMAIN tasks' : i \in Nat \ {0}
  BY <1>2
<1>4. NotTwice'
  <2>1. \A i \in DOMAIN tasks', d \in Calls :
          tasks'[i] = Command(d) => d \in arrived' /\ pc'[d] = "idle"
    BY <1>1, <1>2 DEF CommandsOnce, NotTwice
  <2>2. ASSUME NEW i \in DOMAIN tasks', NEW j \in DOMAIN tasks', NEW d \in Calls,
               tasks'[i] = Command(d), tasks'[j] = Command(d)
        PROVE  i = j
    <3>1. i + 1 = j + 1
      BY <1>2, <2>2 DEF CommandsOnce, NotTwice
    <3> QED
      BY <1>3, <3>1
  <2> QED
    BY <2>1, <2>2 DEF NotTwice
<1>5. NotLost'
  <2> SUFFICES ASSUME NEW d \in arrived, pc[d] = "idle"
               PROVE  \E i \in DOMAIN tasks' : tasks'[i] = Command(d)
    BY <1>1 DEF NotLost
  <2>1. PICK j \in DOMAIN tasks : tasks[j] = Command(d)
    BY DEF CommandsOnce, NotLost
  <2>2. j # 1
    BY <1>2, <2>1, TaskFacts
  <2> QED
    BY <1>2, <2>1, <2>2
<1> QED
  BY <1>1, <1>2, <1>4, <1>5 DEF CommandsOnce

\* Every other step leaves the queue of the commands alone.
LEMMA QueueStays ==
  ASSUME CommandsOnce, UNCHANGED <<tasks, arrived>>,
         \A c \in Calls : pc'[c] = "idle" <=> pc[c] = "idle"
  PROVE  CommandsOnce'
BY DEF CommandsOnce, NotTwice, NotLost

\* postTask and the workers, for any number of threads: every command that
\* reaches the module is in the queue until a thread begins it; none is lost,
\* and none is in it twice or after it was begun, so the pool runs it once.
THEOREM CommandsRunOnce == PoolSpec => []CommandsOnce
<1>1. PoolInit => CommandsOnce
  <2> SUFFICES ASSUME PoolInit PROVE CommandsOnce
    OBVIOUS
  <2>1. tasks = <<>> /\ arrived = {} /\ \A c \in Calls : pc[c] = "idle"
    BY DEF PoolInit, Init
  <2>2. tasks \in Seq(Tasks) /\ DOMAIN tasks = {}
    BY <2>1
  <2> QED
    BY <2>1, <2>2 DEF CommandsOnce, NotTwice, NotLost
<1>2. TypeOK /\ CommandsOnce /\ [PoolNext]_allVars => CommandsOnce'
  <2> SUFFICES ASSUME TypeOK, CommandsOnce, [PoolNext]_allVars PROVE CommandsOnce'
    OBVIOUS
  <2>1. ASSUME NEW c \in Calls, CommandArrives(c) \/ ResponseArrives(c) \/ StartCommand(c)
        PROVE  CommandsOnce'
    BY <2>1, CommandJoins, ResponseJoins, CommandLeaves
  <2>2. ASSUME NEW c \in Calls, Runs(c) \/ Expires(c) PROVE CommandsOnce'
    <3>1. UNCHANGED <<tasks, arrived>>
      BY <2>2 DEF Runs, Expires, poolVars
    <3> QED
      BY <2>2, <3>1, IdleStays, QueueStays
  <2>3. ASSUME pc' = pc, UNCHANGED <<tasks, arrived>> PROVE CommandsOnce'
    BY <2>3, QueueStays
  <2>4. ASSUME NEW c \in Calls, Aircraft(c) PROVE CommandsOnce'
    BY <2>3, <2>4 DEF Aircraft, Answer, Decide, callVars, poolVars
  <2>5. ASSUME NEW r \in Repliers, NEW c \in Calls, StartResponse(r, c) PROVE CommandsOnce'
    BY <2>3, <2>5 DEF StartResponse, Deliver, callVars
  <2>6. ASSUME NEW r \in Repliers, NEW c \in Calls, StartSharedResponse(r, c) PROVE CommandsOnce'
    BY <2>6, ResponseLeaves
  <2>7. ASSUME NEW r \in Repliers, Handles(r) PROVE CommandsOnce'
    BY <2>3, <2>7 DEF Handles, HandlerStep, FindNothing, Find, Update, Erase, callVars, poolVars
  <2>8. CASE UNCHANGED allVars
    BY <2>3, <2>8 DEF allVars, vars, callVars, poolVars
  <2> QED
    BY <2>1, <2>2, <2>4, <2>5, <2>6, <2>7, <2>8 DEF PoolNext
<1> QED
  BY <1>1, <1>2, PoolsImplementManager, TypeCorrect, PTL DEF PoolSpec

\* flyto's commands have keys of their own, and the aircraft decides only on
\* requests that were made.
KeysOfFlyto ==
  /\ module = "flyto" => \A c \in arrived, d \in arrived \cup Others : Key[c] = Key[d] => c = d
  /\ \A c \in Calls : verdict[c] # NoResult => c \in Others \/ pc[c] # "idle"

\* Every step of a module keeps that.
LEMMA KeysOfFlytoStep ==
  TypeOK /\ PhaseInv /\ CommandsOnce /\ KeysOfFlyto /\ [PoolNext]_allVars => KeysOfFlyto'
<1> SUFFICES ASSUME TypeOK, PhaseInv, CommandsOnce, KeysOfFlyto, [PoolNext]_allVars
             PROVE  KeysOfFlyto'
  OBVIOUS
<1>1. ASSUME UNCHANGED <<module, arrived, verdict>>,
             \A c \in Calls : pc[c] # "idle" => pc'[c] # "idle"
      PROVE  KeysOfFlyto'
  BY <1>1 DEF KeysOfFlyto
<1>2. ASSUME NEW c \in Calls, CommandArrives(c) PROVE KeysOfFlyto'
  <2>1. /\ c \in Calls /\ arrived' = arrived \cup {c} /\ module' = module
        /\ verdict' = verdict /\ pc' = pc
        /\ module = "flyto" => \A d \in arrived \cup Others : Key[d] # Key[c]
    BY <1>2 DEF CommandArrives, Fresh, vars, callVars, droneVars
  <2> QED
    BY <2>1 DEF KeysOfFlyto
<1>3. ASSUME NEW c \in Calls, ResponseArrives(c) PROVE KeysOfFlyto'
  BY <1>1, <1>3 DEF ResponseArrives, vars, callVars, droneVars
<1>4. ASSUME NEW c \in Calls, StartCommand(c) PROVE KeysOfFlyto'
  BY <1>1, <1>4 DEF StartCommand, Begin, droneVars, TypeOK
<1>5. ASSUME NEW c \in Calls, Runs(c) \/ Expires(c) PROVE KeysOfFlyto'
  <2>1. UNCHANGED <<module, arrived, verdict>>
    BY <1>5 DEF Runs, Expires, poolVars, Register, SerializeFails, Send, WaitReturns,
       WaitTimesOut, Cleanup, droneVars
  <2> QED
    BY <1>1, <1>5, <2>1, IdleStays
<1>6. ASSUME NEW c \in Calls, Aircraft(c) PROVE KeysOfFlyto'
  <2>1. CASE Answer(c)
    BY <1>1, <1>6, <2>1 DEF Aircraft, Answer, callVars, poolVars
  <2>2. ASSUME NEW v \in Verdicts, Decide(c, v) PROVE KeysOfFlyto'
    <3>1. c \in Others \/ pc[c] # "idle"
      BY <2>2 DEF Decide, Published, PhaseInv
    <3>2. verdict' = [verdict EXCEPT ![c] = v] /\ pc' = pc /\ UNCHANGED <<module, arrived>>
      BY <1>6, <2>2 DEF Aircraft, Decide, callVars, poolVars
    <3> QED
      BY <3>1, <3>2 DEF KeysOfFlyto, TypeOK
  <2> QED
    BY <1>6, <2>1, <2>2 DEF Aircraft
<1>7. ASSUME NEW r \in Repliers, NEW c \in Calls, StartResponse(r, c) \/ StartSharedResponse(r, c)
      PROVE  KeysOfFlyto'
  BY <1>1, <1>7 DEF StartResponse, StartSharedResponse, Deliver, callVars
<1>8. ASSUME NEW r \in Repliers, Handles(r) PROVE KeysOfFlyto'
  BY <1>1, <1>8 DEF Handles, HandlerStep, FindNothing, Find, Update, Erase, callVars, droneVars,
     poolVars
<1>9. CASE UNCHANGED allVars
  BY <1>1, <1>9 DEF allVars, vars, callVars, droneVars, poolVars
<1> QED
  BY <1>2, <1>3, <1>4, <1>5, <1>6, <1>7, <1>8, <1>9 DEF PoolNext

\* Behind the pools, whatever the keys and the other clients, a call reports what
\* the aircraft answered to a request with its key, in flyto to its own command,
\* and a call that waits can be answered unless a command with its key took over.
THEOREM PoolsKeepPairs == PoolSpec => [](ReplyIsOwn /\ NoOrphanedWaiter)
<1>1. PoolInit => KeysOfFlyto
  BY DEF PoolInit, Init, KeysOfFlyto, NoResult
<1>2. PoolSpec => []KeysOfFlyto
  BY <1>1, KeysOfFlytoStep, PoolsImplementManager, CommandsRunOnce, TypeCorrect, ManagerInvariant,
     PTL DEF PoolSpec
<1>3. TypeOK /\ PhaseInv /\ CommandsOnce /\ KeysOfFlyto /\ ReplyUnderKey => ReplyIsOwn
  <2> SUFFICES ASSUME TypeOK, PhaseInv, CommandsOnce, KeysOfFlyto, ReplyUnderKey, module = "flyto",
                      NEW c \in Calls, ret[c] \in {"ok", "rejected"}
               PROVE  /\ ret[c] = "ok" => verdict[c] = 0
                      /\ ret[c] = "rejected" => verdict[c] = 1
    BY DEF ReplyIsOwn
  <2>1. pc[c] # "idle"
    BY DEF PhaseInv
  <2>2. PICK d \in Calls : /\ Key[d] = Key[c] /\ verdict[d] # NoResult
                           /\ ret[c] = IF verdict[d] = 0 THEN "ok" ELSE "rejected"
    BY DEF ReplyUnderKey
  <2>3. c \in arrived /\ d \in arrived \cup Others
    BY <2>1, <2>2 DEF CommandsOnce, KeysOfFlyto
  <2>4. d = c
    BY <2>2, <2>3 DEF KeysOfFlyto
  <2>5. verdict[c] \in {0, 1}
    BY <2>2, <2>4 DEF TypeOK, Verdicts
  <2> QED
    BY <2>2, <2>4, <2>5
<1> QED
  BY <1>2, <1>3, PoolsImplementManager, CommandsRunOnce, TypeCorrect, ManagerInvariant, RepliesHaveTheKey,
     WaitersAnswerable, PTL
=============================================================================
