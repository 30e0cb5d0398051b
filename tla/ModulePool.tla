----------------------------- MODULE ModulePool -----------------------------
(***************************************************************************)
(* A module's worker pools in front of RequestContext: flyto_entry and     *)
(* payload_entry post every message as a task to a ThreadPoolManager       *)
(* (a boost io_service: FIFO queue, fixed number of threads), and a task   *)
(* keeps its thread until its handler returns.                             *)
(*                                                                         *)
(* A command task runs sendRequestAndWait and blocks its thread; a reply   *)
(* task runs findAndUpdateRequest.  payload_entry posts replies to a pool  *)
(* of their own; flyto_entry posts them to the pool of the commands.       *)
(***************************************************************************)
EXTENDS RequestContext, Sequences, FiniteSets

CONSTANTS
  Modules,                        \* which of the modules a run is about
  FLYTO_THREAD_COUNT,
  PAYLOAD_THREAD_COUNT,
  PAYLOAD_RESPONSE_THREAD_COUNT

ASSUME PoolAssumption ==
  /\ Modules \subseteq {"flyto", "payload"}
  /\ FLYTO_THREAD_COUNT \in Nat \ {0}
  /\ PAYLOAD_THREAD_COUNT \in Nat \ {0}
  /\ PAYLOAD_RESPONSE_THREAD_COUNT \in Nat \ {0}

VARIABLES
  module,         \* the module, the same for a whole behaviour
  arrived,        \* commands received so far
  tasks,          \* queue of m_threadPoolManager
  responseTasks   \* queue of m_responsePoolManager

poolVars == <<module, arrived, tasks, responseTasks>>
allVars  == <<vars, poolVars>>

Command(c)  == [kind |-> "command", call |-> c]
Response(c) == [kind |-> "response", call |-> c]

PoolInit ==
  /\ Init
  /\ module \in Modules
  /\ arrived = {}
  /\ tasks = <<>>
  /\ responseTasks = <<>>

-----------------------------------------------------------------------------
CommandThreads  == {c \in Calls : pc[c] \notin {"idle", "done"}}
ResponseThreads == {r \in Repliers : rpc[r] # "idle"}

\* startThreadPool(...) of flyto_init and payload_init.
ThreadCount == IF module = "flyto" THEN FLYTO_THREAD_COUNT ELSE PAYLOAD_THREAD_COUNT

\* Mutant: replies are posted to the pool of the commands.
ResponsesShared == FALSE

\* Which entry function the module has.
ResponsesApart == module = "payload"

\* Threads of the command pool that are running a task.
Busy == Cardinality(CommandThreads)
        + (IF ResponsesApart THEN 0 ELSE Cardinality(ResponseThreads))

ResponseBusy == Cardinality(ResponseThreads)

\* Replies that have reached the module and wait in a queue.
Waiting(c) ==
  Cardinality({i \in DOMAIN tasks : tasks[i] = Response(c)})
  + Cardinality({i \in DOMAIN responseTasks : responseTasks[i] = Response(c)})

\* flyto's controllers draw a tid for every command (generate_uuid), so no two
\* have one key; payload's key is the method, which any other command may share.
Fresh(c) == \A d \in arrived \cup Others : Key[d] # Key[c]

\* COMMON_REG_IND, PAYLOAD_GIMBAL_DATA_IND, PAYLOAD_CAMERA_DATA_IND: postTask.
CommandArrives(c) ==
  /\ c \notin arrived \cup Others
  /\ module = "flyto" => Fresh(c)
  /\ arrived' = arrived \cup {c}
  /\ tasks' = Append(tasks, Command(c))
  /\ UNCHANGED <<vars, module, responseTasks>>

\* FLYTO_RESULT_DATA_IND: postTask.  PAYLOAD_RESULT_DATA_IND: postResponseTask.
ResponseArrives(c) ==
  /\ Waiting(c) < inFlight[c]
  /\ IF ResponsesApart
     THEN /\ responseTasks' = Append(responseTasks, Response(c))
          /\ UNCHANGED tasks
     ELSE /\ tasks' = Append(tasks, Response(c))
          /\ UNCHANGED responseTasks
  /\ UNCHANGED <<vars, module, arrived>>

\* A free thread of the command pool runs the oldest task, a command.
StartCommand(c) ==
  /\ Busy < ThreadCount
  /\ tasks # <<>> /\ Head(tasks) = Command(c)
  /\ tasks' = Tail(tasks)
  /\ Begin(c)
  /\ UNCHANGED <<module, arrived, responseTasks>>

\* ... or a reply, when the pool is shared.
StartSharedResponse(r, c) ==
  /\ Busy < ThreadCount
  /\ tasks # <<>> /\ Head(tasks) = Response(c)
  /\ tasks' = Tail(tasks)
  /\ Deliver(r, c)
  /\ UNCHANGED <<module, arrived, responseTasks>>

\* A free thread of the response pool runs the oldest reply.
StartResponse(r, c) ==
  /\ ResponseBusy < PAYLOAD_RESPONSE_THREAD_COUNT
  /\ responseTasks # <<>> /\ Head(responseTasks) = Response(c)
  /\ responseTasks' = Tail(responseTasks)
  /\ Deliver(r, c)
  /\ UNCHANGED <<module, arrived, tasks>>

\* Steps of the running handlers and of the aircraft.
Runs(c) ==
  /\ \/ Register(c) \/ SerializeFails(c) \/ Send(c) \/ WaitReturns(c) \/ Cleanup(c)
  /\ UNCHANGED poolVars

Expires(c) == WaitTimesOut(c) /\ UNCHANGED poolVars

Handles(r) == HandlerStep(r) /\ UNCHANGED poolVars

Aircraft(c) ==
  /\ Answer(c) \/ \E v \in Verdicts : Decide(c, v)
  /\ UNCHANGED poolVars

PoolNext ==
  \/ \E c \in Calls : CommandArrives(c) \/ ResponseArrives(c) \/ StartCommand(c)
  \/ \E c \in Calls : Runs(c) \/ Expires(c) \/ Aircraft(c)
  \/ \E r \in Repliers, c \in Calls : StartResponse(r, c) \/ StartSharedResponse(r, c)
  \/ \E r \in Repliers : Handles(r)

(***************************************************************************)
(* Threads that can run do; the 8 s timeout is far away, so it is allowed  *)
(* to expire but nothing may depend on it.                                 *)
(***************************************************************************)
PoolFairness ==
  /\ \A c \in Calls : WF_allVars(StartCommand(c)) /\ WF_allVars(Runs(c))
  /\ \A r \in Repliers : WF_allVars(Handles(r))
  /\ WF_allVars(\E r \in Repliers, c \in Calls :
                  StartResponse(r, c) \/ StartSharedResponse(r, c))

PoolSpec == PoolInit /\ [][PoolNext]_allVars /\ PoolFairness

-----------------------------------------------------------------------------
\* Behind the pools a call is completed by a reply under its key, and in flyto
\* by the reply to its own command: it succeeds only if the aircraft accepted
\* that very command, and reports a rejection only if that one was rejected.
ReplyIsOwn ==
  /\ ReplyUnderKey
  /\ module = "flyto" =>
       \A c \in Calls : /\ ret[c] = "ok" => verdict[c] = 0
                       /\ ret[c] = "rejected" => verdict[c] = 1

\* Every thread of flyto's pool runs a command.
Starved == module = "flyto" /\ Cardinality(CommandThreads) = FLYTO_THREAD_COUNT

\* A call whose reply has reached the module returns without having to time
\* out, unless the commands have taken every thread of flyto's pool (or the
\* lock cycle of RequestContext forms, or another command of payload has the
\* same method): a blocked command thread by itself never keeps the reply it
\* waits for from being handled.
AnsweredUnlessStarved ==
  \A c \in Calls :
    (pc[c] = "waiting" /\ Waiting(c) > 0) ~>
      (pc[c] = "done" \/ LockCycle \/ Starved \/ \E d \in Calls : Displaces(d, c))

\* payloadMain.cpp:65: a module's replies are handled while its commands wait,
\* and a call whose reply has reached the module returns.
AnsweredCallReturns ==
  \A c \in Calls :
    (pc[c] = "waiting" /\ Waiting(c) > 0) ~> (pc[c] = "done" \/ LockCycle)
=============================================================================
