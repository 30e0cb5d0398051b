--------------------------- MODULE RequestContext ---------------------------
(***************************************************************************)
(* RequestContextManager (common/if/requestContextManager.{h,cpp}): the    *)
(* blocking request/reply rendezvous every command of the flyto and        *)
(* payload modules goes through.                                           *)
(*                                                                         *)
(* A call is one invocation of sendRequestAndWait, on a pool thread of its *)
(* own.  It registers a RequestContext in m_pendingRequests under a key    *)
(* (flyto: a fresh tid; payload: the DJI method name), publishes the       *)
(* request, and waits on the context's condition variable until a reply    *)
(* handler completes it or the timeout expires.  A replier is a pool       *)
(* thread inside findAndUpdateRequest.  Both sides use the manager-wide    *)
(* m_requestMutex and the per-context mtx, and they take them in opposite  *)
(* orders; every lock acquisition is therefore a step of its own here.     *)
(***************************************************************************)
EXTENDS Integers

CONSTANTS
  Calls,      \* requests the aircraft may be asked: calls of sendRequestAndWait
  Others,     \* those of them that another client of the broker sends
  Repliers,   \* pool threads that run a result handler
  Keys,       \* keys of m_pendingRequests
  Key,        \* Key[c]: the tid argument of call c
  MaxCopies,  \* bound: replies the aircraft emits to each request (1 + duplicates)
  None        \* no context, no owner, no message

ASSUME CallsAssumption ==
  /\ Others \subseteq Calls
  /\ Key \in [Calls -> Keys]
  /\ Calls \cap Repliers = {}
  /\ None \notin Calls \cup Repliers
  /\ MaxCopies \in [Calls -> Nat]

VARIABLES
  pc,                 \* control state of each call
  finished, result,   \* RequestContext::finished, ::result of each call
  ret,                \* what sendRequestAndWait returned, with its reason
  m_pendingRequests,  \* key -> call whose context is registered, or None
  requestMutex,       \* owner of m_requestMutex
  ctxMtx,             \* owner of each call's RequestContext::mtx
  rpc, rmsg,          \* control state of each replier, the reply it handles
  verdict,            \* the aircraft's answer to each request
  copies,             \* replies the aircraft has emitted for each request
  inFlight            \* of these, the ones not yet taken by a replier

callVars    == <<pc, finished, result, ret>>
lockVars    == <<m_pendingRequests, requestMutex, ctxMtx>>
replierVars == <<rpc, rmsg>>
droneVars   == <<verdict, copies, inFlight>>
vars        == <<callVars, lockVars, replierVars, droneVars>>

(***************************************************************************)
(* data.result of a reply: 0 is success, 1 stands for every other code.    *)
(* -1 is the initial value of RequestContext::result.                      *)
(***************************************************************************)
Verdicts == {0, 1}
NoResult == -1

CallStates    == {"idle", "started", "registered", "waiting", "cleanup", "done"}
ReplierStates == {"idle", "received", "found", "updated"}
Returns       == {"none", "ok", "rejected", "timeout", "pb2json"}

Init ==
  /\ pc = [c \in Calls |-> "idle"]
  /\ finished = [c \in Calls |-> FALSE]
  /\ result = [c \in Calls |-> NoResult]
  /\ ret = [c \in Calls |-> "none"]
  /\ m_pendingRequests = [k \in Keys |-> None]
  /\ requestMutex = None
  /\ ctxMtx = [c \in Calls |-> None]
  /\ rpc = [r \in Repliers |-> "idle"]
  /\ rmsg = [r \in Repliers |-> None]
  /\ verdict = [c \in Calls |-> NoResult]
  /\ copies = [c \in Calls |-> 0]
  /\ inFlight = [c \in Calls |-> 0]

-----------------------------------------------------------------------------
(* sendRequestAndWait                                                      *)

Return(c, why) ==
  /\ pc' = [pc EXCEPT ![c] = "done"]
  /\ ret' = [ret EXCEPT ![c] = why]

\* A pool thread enters the function and builds a fresh context.
Begin(c) ==
  /\ pc[c] = "idle" /\ c \notin Others
  /\ pc' = [pc EXCEPT ![c] = "started"]
  /\ UNCHANGED <<finished, result, ret, lockVars, replierVars, droneVars>>

\* m_pendingRequests[tid] = reqCtx: an entry under the same key is replaced.
Register(c) ==
  /\ pc[c] = "started"
  /\ requestMutex = None
  /\ m_pendingRequests' = [m_pendingRequests EXCEPT ![Key[c]] = c]
  /\ pc' = [pc EXCEPT ![c] = "registered"]
  /\ UNCHANGED <<finished, result, ret, requestMutex, ctxMtx, replierVars, droneVars>>

\* pb2json returned an empty string: cleanup() and return false.
SerializeFails(c) ==
  /\ pc[c] = "registered"
  /\ requestMutex = None
  /\ m_pendingRequests' = [m_pendingRequests EXCEPT ![Key[c]] = None]
  /\ Return(c, "pb2json")
  /\ UNCHANGED <<finished, result, requestMutex, ctxMtx, replierVars, droneVars>>

\* pf_copy_msg to MQTTPUB; from here on the aircraft may see the request.
Send(c) ==
  /\ pc[c] = "registered"
  /\ pc' = [pc EXCEPT ![c] = "waiting"]
  /\ UNCHANGED <<finished, result, ret, lockVars, replierVars, droneVars>>

\* wait_for holds reqCtx->mtx, sees finished, and the function returns.
WaitReturns(c) ==
  /\ pc[c] = "waiting"
  /\ ctxMtx[c] = None
  /\ finished[c]
  /\ Return(c, IF result[c] = 0 THEN "ok" ELSE "rejected")
  /\ UNCHANGED <<finished, result, lockVars, replierVars, droneVars>>

\* Mutant of the timeout path: reqCtx->mtx is released before cleanup().
TimesOutUnlocked(c) ==
  /\ pc[c] = "waiting"
  /\ ctxMtx[c] = None
  /\ ~finished[c]
  /\ pc' = [pc EXCEPT ![c] = "cleanup"]
  /\ UNCHANGED <<finished, result, ret, lockVars, replierVars, droneVars>>

\* wait_for gives up with the predicate false: reqCtx->mtx is held again and
\* stays held, because `lock` is still in scope when cleanup() is called.
WaitTimesOut(c) ==
  /\ pc[c] = "waiting"
  /\ ctxMtx[c] = None
  /\ ~finished[c]
  /\ ctxMtx' = [ctxMtx EXCEPT ![c] = c]
  /\ pc' = [pc EXCEPT ![c] = "cleanup"]
  /\ UNCHANGED <<finished, result, ret, m_pendingRequests, requestMutex,
                 replierVars, droneVars>>

\* Mutants of the timeout path: the entry is left behind; every entry goes.
CleanupLeavesEntry(c) ==
  /\ pc[c] = "cleanup"
  /\ requestMutex = None
  /\ ctxMtx' = [ctxMtx EXCEPT ![c] = None]
  /\ Return(c, "timeout")
  /\ UNCHANGED <<finished, result, m_pendingRequests, requestMutex, replierVars, droneVars>>

CleanupClearsMap(c) ==
  /\ pc[c] = "cleanup"
  /\ requestMutex = None
  /\ m_pendingRequests' = [k \in Keys |-> None]
  /\ ctxMtx' = [ctxMtx EXCEPT ![c] = None]
  /\ Return(c, "timeout")
  /\ UNCHANGED <<finished, result, requestMutex, replierVars, droneVars>>

\* cleanup(): takes m_requestMutex, erases BY KEY, returns; both locks go.
Cleanup(c) ==
  /\ pc[c] = "cleanup"
  /\ requestMutex = None
  /\ m_pendingRequests' = [m_pendingRequests EXCEPT ![Key[c]] = None]
  /\ ctxMtx' = [ctxMtx EXCEPT ![c] = None]
  /\ Return(c, "timeout")
  /\ UNCHANGED <<finished, result, requestMutex, replierVars, droneVars>>

-----------------------------------------------------------------------------
(* findAndUpdateRequest, called by handleFlytoResult / handlePayloadResult *)

\* A replier takes a reply off the queue and parses its key and result.
Deliver(r, c) ==
  /\ rpc[r] = "idle"
  /\ inFlight[c] > 0
  /\ inFlight' = [inFlight EXCEPT ![c] = @ - 1]
  /\ rpc' = [rpc EXCEPT ![r] = "received"]
  /\ rmsg' = [rmsg EXCEPT ![r] = c]
  /\ UNCHANGED <<callVars, lockVars, verdict, copies>>

\* Mutant: any request in flight is taken for the one being answered.
OutCtxAny(r) ==
  IF \E k \in Keys : m_pendingRequests[k] # None
  THEN m_pendingRequests[CHOOSE k \in Keys : m_pendingRequests[k] # None]
  ELSE None

\* outCtx: the context the lookup under m_requestMutex yields.
OutCtx(r) == m_pendingRequests[Key[rmsg[r]]]

\* Mutant: the early return keeps m_requestMutex locked.
FindNothingKeepsLock(r) ==
  /\ rpc[r] = "received"
  /\ requestMutex = None
  /\ OutCtx(r) = None
  /\ requestMutex' = r
  /\ rpc' = [rpc EXCEPT ![r] = "idle"]
  /\ rmsg' = [rmsg EXCEPT ![r] = None]
  /\ UNCHANGED <<callVars, m_pendingRequests, ctxMtx, droneVars>>

\* lock m_requestMutex, find(tid) == end(): return false.
FindNothing(r) ==
  /\ rpc[r] = "received"
  /\ requestMutex = None
  /\ OutCtx(r) = None
  /\ rpc' = [rpc EXCEPT ![r] = "idle"]
  /\ rmsg' = [rmsg EXCEPT ![r] = None]
  /\ UNCHANGED <<callVars, lockVars, droneVars>>

\* lock m_requestMutex, the entry exists: keep the lock, go for ctx->mtx.
Find(r) ==
  /\ rpc[r] = "received"
  /\ requestMutex = None
  /\ OutCtx(r) # None
  /\ requestMutex' = r
  /\ rpc' = [rpc EXCEPT ![r] = "found"]
  /\ UNCHANGED <<callVars, m_pendingRequests, ctxMtx, rmsg, droneVars>>

\* lock outCtx->mtx, set result and finished, unlock outCtx->mtx.
Update(r) ==
  /\ rpc[r] = "found"
  /\ ctxMtx[OutCtx(r)] = None
  /\ result' = [result EXCEPT ![OutCtx(r)] = verdict[rmsg[r]]]
  /\ finished' = [finished EXCEPT ![OutCtx(r)] = TRUE]
  /\ rpc' = [rpc EXCEPT ![r] = "updated"]
  /\ UNCHANGED <<pc, ret, lockVars, rmsg, droneVars>>

\* Mutant: the completed entry stays in the map.
EraseForgotten(r) ==
  /\ rpc[r] = "updated"
  /\ requestMutex' = None
  /\ rpc' = [rpc EXCEPT ![r] = "idle"]
  /\ rmsg' = [rmsg EXCEPT ![r] = None]
  /\ UNCHANGED <<callVars, m_pendingRequests, ctxMtx, droneVars>>

\* erase(it), notify_one, unlock m_requestMutex, return true.
Erase(r) ==
  /\ rpc[r] = "updated"
  /\ m_pendingRequests' = [m_pendingRequests EXCEPT ![Key[rmsg[r]]] = None]
  /\ requestMutex' = None
  /\ rpc' = [rpc EXCEPT ![r] = "idle"]
  /\ rmsg' = [rmsg EXCEPT ![r] = None]
  /\ UNCHANGED <<callVars, ctxMtx, droneVars>>

-----------------------------------------------------------------------------
(* The aircraft, reached over MQTT (external).  It may never answer, and   *)
(* the broker may repeat an answer; a lost answer is one that is never     *)
(* emitted or never delivered.  The replies to other clients' requests     *)
(* come on the same topics and reach the same handlers.                    *)

Published(c) ==
  \/ c \in Others
  \/ pc[c] \in {"waiting", "cleanup"}
  \/ ret[c] \in {"ok", "rejected", "timeout"}

Decide(c, v) ==
  /\ Published(c)
  /\ verdict[c] = NoResult
  /\ verdict' = [verdict EXCEPT ![c] = v]
  /\ UNCHANGED <<callVars, lockVars, replierVars, copies, inFlight>>

Answer(c) ==
  /\ verdict[c] # NoResult
  /\ copies[c] < MaxCopies[c]
  /\ copies' = [copies EXCEPT ![c] = @ + 1]
  /\ inFlight' = [inFlight EXCEPT ![c] = @ + 1]
  /\ UNCHANGED <<callVars, lockVars, replierVars, verdict>>

-----------------------------------------------------------------------------
CallStep(c) ==
  \/ Begin(c) \/ Register(c) \/ SerializeFails(c) \/ Send(c)
  \/ WaitReturns(c) \/ WaitTimesOut(c) \/ Cleanup(c)

HandlerStep(r) == FindNothing(r) \/ Find(r) \/ Update(r) \/ Erase(r)

Next ==
  \/ \E c \in Calls : CallStep(c)
  \/ \E r \in Repliers : HandlerStep(r)
  \/ \E r \in Repliers, c \in Calls : Deliver(r, c)
  \/ \E c \in Calls, v \in Verdicts : Decide(c, v)
  \/ \E c \in Calls : Answer(c)

Spec == Init /\ [][Next]_vars

(***************************************************************************)
(* A pool thread that has a runnable step takes it, and a wait_for that is *)
(* not satisfied expires.  Nothing is promised of the aircraft, of the     *)
(* delivery of its replies, or of the arrival of commands.                 *)
(***************************************************************************)
Fairness ==
  /\ \A c \in Calls : WF_vars(CallStep(c) /\ pc[c] # "idle")
  /\ \A r \in Repliers : WF_vars(HandlerStep(r))

FairSpec == Spec /\ Fairness

-----------------------------------------------------------------------------
(* Type invariant: the values of every field, lock and counter.            *)
TypeOK ==
  /\ pc \in [Calls -> CallStates]
  /\ finished \in [Calls -> BOOLEAN]
  /\ result \in [Calls -> Verdicts \cup {NoResult}]
  /\ ret \in [Calls -> Returns]
  /\ m_pendingRequests \in [Keys -> Calls \cup {None}]
  /\ requestMutex \in Repliers \cup {None}
  /\ ctxMtx \in [Calls -> Calls \cup {None}]
  /\ rpc \in [Repliers -> ReplierStates]
  /\ rmsg \in [Repliers -> Calls \cup {None}]
  /\ \A r \in Repliers : rpc[r] # "idle" => rmsg[r] \in Calls
  /\ verdict \in [Calls -> Verdicts \cup {NoResult}]
  /\ copies \in [Calls -> Nat]
  /\ inFlight \in [Calls -> Nat]

\* Replier r has set the context of call c and has not erased its entry yet.
Completing(r, c) == rpc[r] = "updated" /\ OutCtx(r) = c

\* No entry outlives its request: a context in m_pendingRequests belongs to
\* a call that is still inside sendRequestAndWait, or is being erased by the
\* replier that completed it.  (The map never leaks, whatever the keys.)
NoLeakedEntry ==
  \A k \in Keys, c \in Calls :
    m_pendingRequests[k] = c =>
      \/ pc[c] \in {"registered", "waiting", "cleanup"}
      \/ \E r \in Repliers : Completing(r, c)

\* A call that reported a timeout is never completed by a late reply: the
\* caller's "(timeout)" and the context agree for ever, whatever the keys.
TimeoutIsFinal == \A c \in Calls : ret[c] = "timeout" => ~finished[c]

\* The first reply decides: once a context is finished no duplicate and no
\* late reply changes the result its waiter is about to read.
CompletedOnce ==
  [][\A c \in Calls : finished[c] => finished'[c] /\ result'[c] = result[c]]_vars

\* sendRequestAndWait returns true only when the aircraft accepted a request
\* with its key, and reports a rejection only when it rejected one: no reply to
\* another key completes it.  With a key of its own that request is the call's.
ReplyUnderKey ==
  \A c \in Calls : ret[c] \in {"ok", "rejected"} =>
    \E d \in Calls : /\ Key[d] = Key[c] /\ verdict[d] # NoResult
                    /\ ret[c] = IF verdict[d] = 0 THEN "ok" ELSE "rejected"

\* Call d has taken the key of call c, or could have.
Displaces(d, c) == d # c /\ Key[d] = Key[c] /\ pc[d] \notin {"idle", "started"}

\* A waiting call can still be answered: its context is registered, or it has
\* been completed.  Only a call that was made under the same key, before it or
\* after it, can take that away; none with another key does, whatever it does.
NoOrphanedWaiter ==
  \A c \in Calls : pc[c] = "waiting" =>
    finished[c] \/ m_pendingRequests[Key[c]] = c \/ \E d \in Calls : Displaces(d, c)

\* The opposite lock orders of the timeout path (reqCtx->mtx, then
\* m_requestMutex) and of findAndUpdateRequest (m_requestMutex, then ctx->mtx).
LockCycle ==
  \E c \in Calls, r \in Repliers :
    pc[c] = "cleanup" /\ rpc[r] = "found" /\ OutCtx(r) = c

\* Every call that is entered returns, unless a lock cycle forms: the
\* inverted lock order is the only way a command thread can hang.
ReturnsUnlessCycle ==
  \A c \in Calls : (pc[c] # "idle") ~> (pc[c] = "done" \/ LockCycle)

(***************************************************************************)
(* The inductive strengthening behind the theorems of RequestContextProofs *)
(* (checked by TLC as well).  LockInv: who holds which mutex, and that a   *)
(* replier holding m_requestMutex has a registered context in hand.        *)
(***************************************************************************)
LockInv ==
  /\ \A r \in Repliers : rpc[r] \in {"found", "updated"} <=> requestMutex = r
  /\ \A c \in Calls : ctxMtx[c] = IF pc[c] = "cleanup" THEN c ELSE None
  /\ \A r \in Repliers : rpc[r] \in {"found", "updated"} => OutCtx(r) \in Calls

\* MapInv: what an entry of m_pendingRequests says of its call.
MapInv ==
  /\ \A k \in Keys, c \in Calls : m_pendingRequests[k] = c => Key[c] = k
  /\ NoLeakedEntry
  /\ \A c \in Calls : m_pendingRequests[Key[c]] = c /\ finished[c] =>
                        \E r \in Repliers : Completing(r, c)
  /\ \A r \in Repliers : rpc[r] = "updated" => finished[OutCtx(r)]

\* PhaseInv: a context is complete only after it was sent, a call reports
\* only when it is done, and a call in its timeout path is incomplete.
PhaseInv ==
  /\ \A c \in Calls : pc[c] \in {"idle", "started", "cleanup"} => ~finished[c]
  /\ \A c \in Calls : pc[c] # "done" => ret[c] = "none"
  /\ TimeoutIsFinal

\* OwnInv: calls and replies pair up by their keys.
OwnInv ==
  /\ \A c \in Calls : inFlight[c] > 0 => verdict[c] # NoResult
  /\ \A r \in Repliers, c \in Calls : rmsg[r] = c => verdict[c] # NoResult
  /\ \A c \in Calls : finished[c] =>
       \E d \in Calls : Key[d] = Key[c] /\ verdict[d] # NoResult /\ result[c] = verdict[d]
  /\ \A c \in Calls : pc[c] \in {"registered", "waiting", "cleanup"} =>
       finished[c] \/ m_pendingRequests[Key[c]] = c \/ \E d \in Calls : Displaces(d, c)
  /\ ReplyUnderKey

\* A call as its caller sees it: what it is about, and the answer it has got.
PhaseOf(c) ==
  IF pc[c] = "done" THEN ret[c]
  ELSE IF pc[c] \in {"waiting", "cleanup"} THEN "sent"
  ELSE IF pc[c] = "idle" THEN "idle" ELSE "open"

Phases  == [c \in Calls |-> PhaseOf(c)]
Answers == [c \in Calls |-> IF finished[c] THEN result[c] ELSE NoResult]

RS == INSTANCE RequestService WITH phase <- Phases, answer <- Answers

\* Map, locks and condition variable keep the promise of RequestService,
\* whatever the keys: a call takes the first answer under its key while it can
\* still report it, and is deaf to every other, late or repeated.
ServiceKept == RS!Spec

\* requestContextManager.h:74-76: the call returns within its timeout.
EveryCallReturns == \A c \in Calls : (pc[c] # "idle") ~> (pc[c] = "done")

=============================================================================
