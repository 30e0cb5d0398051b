# A verification project for the DJI Pilot 2 cloud service

The service connects a ground platform to a DJI aircraft over MQTT. The platform
sends flight, gimbal and camera commands; the service turns each into a request
of the DJI cloud API, publishes it, waits for the aircraft's reply and reports
the outcome. At the same time it forwards the telemetry of the aircraft. This
directory holds TLA+ modules of the service's own logic (`src/cloud`,
`src/common/if`, `src/common/thread`, the obstacle map of `src/common/hdmap`) and of
the concurrent services of `src/platform/linux` that every thread stands on
(mailboxes, timers, thread monitor, log, memory pools), TLC configurations that
check them, and proofs for TLAPS.

Everything else under `src/` (the rest of `src/platform` and `src/common`) is a
framework or a library taken over from other products: headers of paho, openssl
and pistache, file transfer, sockets, kafka, conversions. The service uses little
of it, and nothing with a state of its own.

## 1. Inventory

### How the parts interact

```
 platform --MQTT--> MQTTSUB --mailbox--> flyto / payload / device / track
                                          |  one module thread each, running msg_entry
                                          v
                             flyto pool (3)   payload pools (2 + 2)   track: on its own thread
                                 |                  |                       |
                        FlytoController     Camera/GimbalController     m_flightInfo, mode_code
                                 |                  |                       |   read by the others
                                 +-- RequestContextManager                  |
                                 |    register, publish, wait               |
                                 v                                          v
                              MQTTPUB mailbox --> MqttClient::publish --> aircraft, platform
```

A message is delivered to a module by copying it into the module's mailbox. A
module thread takes it out and calls the module's entry function; for flyto and
payload this only posts a task to a thread pool. A command's task blocks its
thread in `sendRequestAndWait`; the aircraft's reply travels the same road and is
handled by another task, which finds the waiting context by its key and wakes it.

### Components

| Component | State it keeps | Operations | What is hard | What makes it correct |
|---|---|---|---|---|
| RequestContextManager (`common/if/requestContextManager.*`) | `m_pendingRequests`, `m_requestMutex`; per request `mtx`, `cv`, `finished`, `result` | register, send, wait, time out and clean up; find, update, erase | two mutexes taken in opposite orders, timeout against late reply, duplicated replies, equal keys | a call returns, and returns a reply to a request with its key; entries never leak |
| Mailbox `pf_mbox` | ring, head, tail, one mutex, one condition variable, heap blocks of long messages | blocking and non-blocking put at either end, get | one condition variable for senders and receiver, full and empty ring | bounded queue, no lost wakeup, no leaked block |
| Thread pools (`ThreadPoolManager`, `BaseModule`, `flyto_entry`, `payload_entry`) | task queues, busy threads | post a command or a reply, run a task | threads that wait for work only the same pool can do | a reply that arrived is handled while its command waits; flyto's calls get their own |
| FlytoController | control mode, trans_id, continuous-move parameters and thread, cached fly-to status | nine commands, progress events, the stick thread | unlocked state shared by three pool threads and a `std::thread` | one stick thread, a stop stops, a takeover is respected, no report names an earlier command |
| CameraController | `m_currentZoomFactor`, `m_stopZoom`, `m_operationMutex` | single, continuous, limit and specified zooms, stop | long loop on a pool thread that others stop through a flag | zooms exclude each other, end promptly, send valid factors |
| GimbalController | none of its own | turns of one request; a turn, of one request or four, and a zoom after it | some of the drags granted and some not; uses the camera's zoom factor | the zoom follows the whole turn, and both are reported |
| MQTT subscriber | paho connection, topics, `wasConnected` | connect, wait, subscribe, route | a connection that comes up after the wait, or is lost between subscriptions; replies that go to two modules | connected means subscribed, the loop recovers, a reply finds its request |
| MQTT publisher | paho connection, `m_lastConnectTry` | publish, reconnect at most every 5 s | reconnecting on the thread that everything passes | it recovers under any message rate |
| TrackMain | `m_flightInfo`, `m_uavModeCode`, `m_airborne`, `m_cloudControlActive` | OSD and state messages, landing detection, getters | fields read by other threads while they are parsed | one report per landing; no reader is given what a newer message has replaced |
| DeviceMain, RcProperties | `m_drcState` | DRC state messages on two threads | order of two updates | the newest state wins |
| LCF configuration and process start (`pf_cloud_root.cpp`, `lcfMain.cpp`) | the tasks and modules created so far, configuration values | create a task or module, load a file, initialise | the others copy the configuration on their own threads and wait for it by a pause only; a failed load is ignored | the service is online, and handles commands, only with its device configuration; what is copied is whole unless the load outlasts the pause |
| Obstacle map (`common/hdmap/pf_map_block_3d.*`) | blocks with their heights, areas, the area of each block | read the file; check a route | areas that overlap, a partly bad file, steps and casts at the edges | a route called free is free |
| Timer service (`pf_timer_manager.cpp`) | timer units, two lists, hash table, tick | start, cycle, stop, restart, tick | stale ids, full mailboxes, wrap of the tick | each timer expires once, at its tick, at its owner |
| Thread monitor (`pf_thread_mon.cpp`) | two counts per thread | count in and out of a handler, check, end the process | counts read without a lock while threads run | a hung thread ends the process, a busy one does not, and the reason is on disk |
| Log (`pf_log.cpp`, the rings of `pf_thread_mon.cpp`) | a ring per module thread, two maps of lines, a flag | reserve, publish, format, complete; collect and write | offsets shared without a lock, lines completed out of order | each line reaches the file once, whole, in order |
| Memory pools (`pf_ex.cpp`, `pf_comm.cpp`) | a ring of free indices per pool, a mutex each | `pf_malloc`, `pf_free` | blocks freed by other threads, the ring's wrap | a block has one owner, and none is lost |
| Rest of the platform layer, conversions | - | sockets, files, statistics, JSON and protobuf | - | - |

`PROJECT.json` lists the same components with their sources and status, and every
hazard at its line.

## 2. Modules

| Module | Models | Kind |
|---|---|---|
| `RequestContext` | RequestContextManager and, as the environment, the aircraft's replies | component |
| `ModulePool` | the pools of flyto and payload; extends `RequestContext` | composition |
| `RequestService` | what the request manager promises a handler: the first answer under the key of a call, and one end | abstract |
| `BlockAllocator` | what the memory pools promise: a block is granted, or a class refused, in one step | abstract |
| `MessageQueue` | what a mailbox promises: a bounded queue with two ends to enter by | abstract |
| `Mailbox` | `pf_mbox`, the `pf_copy_*` senders and `msg_entry`; refines `MessageQueue` | component |
| `FlightControl` | FlytoController, the stick thread, `s_uavControlMode`, `s_transId` | component |
| `CameraZoom` | CameraController's zooms on the payload pool | component |
| `Gimbal` | GimbalController, and both controllers on one pool; extends `CameraZoom` | composition |
| `MqttSub`, `MqttPub` | the two MQTT clients | components |
| `MqttClients` | both clients before one broker; extends `MqttSub`, instantiates `MqttPub` | composition |
| `Telemetry` | TrackMain and its unlocked readers | component |
| `Routing` | `loadSubTopics`, `onRead`, the entry functions and message tables, down to `m_pendingRequests` and `m_drcState` | composition |
| `TimerService` | what the timers promise: each pending timer has a due tick and an owner | abstract |
| `TimerWheel` | the hash wheel, its lists and ids; refines `TimerService` | component |
| `ThreadMonitor` | the counting of `msg_entry` and `pf_thread_mon_check` | component |
| `LogRing` | `pf_log`, `pf_log_send` and one thread's ring | component |
| `MemPool` | `pf_malloc` and `pf_free` over the rings of free indices | component |
| `Startup` | `main`, LCF, and the initialisation of every module | component |
| `MapBlock3d` | `get_map_info`'s outcome, `set_map_block_area` area by area, `check_block_around_line` | component |
| `RequestContextProofs`, `MailboxProofs`, `FlightControlProofs`, `CameraZoomProofs`, `TimerWheelProofs`, `MemPoolProofs` | theorems about one component, and about those composed with it in its own module | proofs |
| `PlatformProofs` | theorems about the thread monitor, the log, the MQTT clients, and `MCPlatform` as a whole; extends `MailboxProofs` and `TimerWheelProofs` | proofs |
| `ServiceProofs` | theorems about start, telemetry, routing, obstacle map, and `MCShared` as a whole; extends `MemPoolProofs` | proofs |
| `MCPlatform`, `MCShared` | several components in one run, see below | model checking |
| other `MC*` | values for the constants of the runs | model checking |

`MCPlatform` (mailbox, timers, monitor, log, MQTT clients) and `MCShared` (memory
pools, telemetry, obstacle map, routes, start) are sums, not products: their components share no
variable, so an interleaving of them shows nothing that each does not show
alone. The variable `part` is chosen at the start, and the others stay where they
start. In `MCShared` three components have two parts each, which together show what one large one would:
the telemetry has its fields (`telemetry`) and its mode codes (`landings`), which meet in no
property; the routes have one request with everything that may happen beside it (`routes`) and
two or more of two methods, with timeouts and replies to other clients (`replies`); and the
start has everything up to the cycle timers (`start`) and the timers while LCF does not load
(`cycles`), which no timer waits for. Both extend the modules of their components, whose definitions therefore have
names of their own (`WheelSpec`, `MonitorSpec`, `LogSpec`, `RoutingSpec`, `MapSpec`, ...).
Each component keeps its own specification, about which the theorems are, and the
compositions are proved to implement them all (`PartsKeepTheirSpecs`,
`SharedPartsKeepTheirSpecs`).

A few definitions are named as mutants in their comments (`TimesOutUnlocked`,
`LockOperationFree`, ...): each is the definition that follows it with one
plausible mistake. No specification uses them; they serve to show that the
property named with them in `PROJECT.json` notices that mistake.

### RequestContext

State: one `pc` per call of `sendRequestAndWait` and per replier in
`findAndUpdateRequest`, the fields `finished` and `result` of each context, the
map, and the owners of the two mutexes. An action is one critical section, or the
part of one between two lock acquisitions, because the two functions take the
mutexes in opposite orders and everything interesting lies between. `Register`,
`Send`, `WaitReturns`, `WaitTimesOut`, `Cleanup` follow `sendRequestAndWait`;
`Find` or `FindNothing`, `Update`, `Erase` follow `findAndUpdateRequest`. The
aircraft decides once (`Decide`) and may send its reply up to `MaxCopies` times
(`Answer`), 0 for accepted or not; a reply never delivered is a lost one. `Key` is a
constant function, so that flyto's fresh tids and payload's method names are two
instances. `Others` are requests other clients of the aircraft make under a key: no
call here waits for their replies, but `findAndUpdateRequest` takes them for its own.

`RequestService` knows no map, lock or condition variable: a call is idle, open, sent,
or has returned; it takes the first answer that comes under its key and no second one;
it reports a timeout only if it has none. The mapping forgets where exactly a call
waits (`Phases`) and shows a result once it is `finished` (`Answers`), which is when
`Update` sets it. An answer nobody waits for is a step that is not seen.

### ModulePool

The task queues of `m_threadPoolManager` and `m_responsePoolManager` before the
actions of `RequestContext`: a task starts only when its pool has a thread that
is not running another. The variable `module` is chosen at the start and says
which entry function and thread counts apply. A command of flyto gets a key nobody
else has (`Fresh`, which is what `generate_uuid` is for); one of payload has its method,
whoever else uses it. The aircraft may accept or reject each.

### Mailbox and MessageQueue

One mutex guards the ring, so each critical section is one action. `waitSet` is
the set of threads asleep on `qready`; `Signal` wakes any one of them, as
`pthread_cond_signal` may, and `SpuriousWakeup` any other. `heap` counts live
blocks of long messages. `Mailbox` implements `MessageQueue` under the mapping
`queue <- Contents` (the slots from head to tail) and `taken <- cmsg`.

### FlightControl

Each command and each progress event is a handler with a `pc`; the thread of a
continuous move is named by the command that started it (`loop`). An action is
one access to shared state. Shared are the control mode, the trans_id, the
parameter block `m_continuousParams` (named by its maker, with its `active` flag
and its `offset`), the pointer to the thread, the cached fly-to status, and the
aircraft: `stick` is what it last was told and `uavMode` the class of the
mode_code TrackMain stored. The thread reads `m_continuousParams` anew at each
access, as the code does. `Join` and `Spawn` set `crashed` where the C++
library throws (`JoinThrows`) or terminates.

A message that cannot be decoded is reported without a new trans_id (`Undecodable`), one
without a known action with its own (`Called`); an event may be malformed, without an id
or without a status (`Malformed`, `Progress`), and the failure of a flight is reported under
whatever trans_id is there then. `turn` numbers the commands in the order in which their trans_id was
taken, `report` is the last message published: whom it is about, and whom it names.

`HasStick` is a command for the stick between its trans_id and its report. `Patient` makes
the platform send such a command only when no other is in hand (`OneHasStick`); of all other
commands and events it says nothing. It is a constant because what the stick thread promises
depends on it (section 4): with `Patient = FALSE` and the kinds `continuous` and `stop`, two stops
handled at once reach the throw of `Join`.

### CameraZoom

Factors are integers in tenths. `operation` is the holder of `m_operationMutex`,
`iterations` the counter of `continuousZoom`, `local` what a handler has read of the
factor and goes on with, and `extra` counts the requests of a loop since `m_stopZoom` was last set.
The shared factor is written and read access by access, as `handleCameraControl` and the zooms do
without a lock: `Receive` writes it for every command, `CheckFactor` reads it
again, `ZoomLimit`, `ZoomSize` and `ZoomOnce` are the three reads of a single zoom, and
`Specify` writes any of `WantedFactors`, which nothing checks. `disturbed` remembers the
commands during which another one wrote the factor.

### Gimbal

The handlers of GimbalController take the threads of the same pool as those of
CameraController. `TurnGranted` and `TurnFails` are the return of one `sendRequest`; a
combined command ends its turn with the result of the turn and goes on, on the thread
it has, in `specifyZoomFator` (`ZoomsAfterTurn`), which is the `Specify` of `CameraZoom`. Every step
of `Gimbal` is a step of `CameraZoom` or leaves its state alone. `MaxSent` bounds the
commands, of either controller, that the platform sends.

### Routing

A topic is its kind and its serial number. `SubTopics` is `loadSubTopics`, `OnRead` the
chain of tests of `onRead` in its order, `ReplySends` the table of methods; a message
that goes to two modules is in two mailboxes. Requests are numbered and may repeat a
method: `Ask` registers one in place of a pending one with its key (`SameKey`: payload's
methods), and `GiveUp` is the timeout with its cleanup, which erases whatever is under the key. The reply
may come after that, and `ForeignReply` is the reply to another client of the aircraft, which
arrives on the same topics. `Handle` takes the registered request the message is for (`IsFor`)
out of `pending`. The threads of the device module parse one by one (`ParseRcOsd`) and
store in any order (`StoreDrcState`).

### MqttSub, MqttPub, MqttClients

`MqttSub` is the loop of `mqttsub_entry` (`Check`, `Sleep`), `MqttClient::connect`
(`Connect`, `WaitReturns`) and `subscribeTopics` (`Subscribe`, `Subscribed`)
beside the paho client, which completes, fails or loses a connection at any
moment the broker permits. Time is in seconds and only passes where a deadline
depends on it. `MqttPub` is `publish` with its throttle. Every step of the one
client can fall between any two of the other and of the broker.

In `WaitReturns` the last alternative (the wait ends before the attempt does)
never happens with the values of the source, where the wait is one second longer
than the attempt. That is what the margin is for: with the margin taken away
`ConnectedIsSubscribed` is violated through exactly this alternative.

### Telemetry

`m_flightInfo` has no lock, so it is reset, filled and read field by field: `ResetField`,
`ReadCoordinate` and `ReadCamera` on the thread of TRACK, `BeginRead` and `ReadField` on that of
a reader, which asks for the coordinates (`getUavPoint`), the payload index or the zoom factor. A field is
represented by the number of the message it came from, which is all that staleness can be
stated about; `answer` is what a reader has got so far and `began` the newest message when it
began. A torn read, fields of two messages or blank ones among them, is therefore in the model.
`modes` is the history of mode codes, used to define a landing independently of
`detectLanding`.

### TimerWheel and TimerService

`stMutex` covers every operation, so each is one step. `tm_tick` and the
`tm_expire_timer` of each unit that is `due` are steps of their own, because the
modules that take the expiries move while the bucket is scanned; the users wait
until the scan is over. A list is the set of its units. An id is the unit's index
with the count of timers set (`Matches` compares both). `slot` is the variable in
which a module keeps an id; it is not cleared when the timer goes, so that
`pf_timer_stop` and `pf_timer_restart` may come with an old one, and `live` says whose is not
old. `TimerService` has no units, buckets or counters: pending timers by their ids,
with the ticks that are left of each. The mapping is `PendingTimers`, of `Name` and
`Entry`.

### ThreadMonitor

`BeginHandler` and `EndHandler` are the two increments of `msg_entry`, `Hang` is a handler
that never returns. `pf_thread_mon_check` is taken access by access: the parity of a
count (`LookAtParity`), the comparison with its copy (`Compare`), the copying (`Copy`), and
the end of the process: `WriteBootupFlag`, `LogReason`, `BeginFlush`, `EndFlush`, `ClearMailbox`, `Exit`.
A thread that comes to its cleared mailbox pointer or handler crashes the process first.
`reason` says where the log line with the reason is. Threads may be inside `pf_log` with an
incomplete line (`BeginLine`, `EndLine`), and a pass puts off every line behind one of these
(`ahead`, `LineGoesTo`): the flush then ends without the line in the file. The log module's own pass
(`BeginPass`, `EndPass`) may hold the line when the process ends, or meet the flush in the map they
share (`PassesMeet`). `moved`
is a history variable: what a thread counted since its count was copied; its bound
`CountMod - 1` stands for fewer than 2^32 messages between two checks.

### LogRing

One ring, its writer, other threads that take a heap block for every line, and
the log module. The tests and updates of `ulLogReadOffset`, `ulLogWriteOffset` and
the two addresses are separate steps in program order; memory is taken to be
sequentially consistent. `lines` is every line published, with its offset and
whether it is formatted; `shared` and `local` are the two maps, `flag` the marker that
makes a pass put off everything behind the first incomplete line.

### MemPool

Each pool has a ring of free indices with one slot more than blocks. `QueGet` and
`QueAdvance`, `QuePut` and `QuePublish` are the two halves of `pl_que_get` and
`pl_que_put`, between which a thread without the mutex could come. `Free` takes any live
address, so the thread that frees need not be the one that allocated. `Address`, `PoolOf` and
`IndexOf` are the address arithmetic; that they are inverse, and that `FirstPool`
gives a pool with blocks large enough, is `LayoutAssumption`, and TLC evaluates it for the
real table of six pools and 250 granules (`MCShared!Real`).

`BlockAllocator` knows no rings and no locks: blocks are free or used, a thread asks for
a class or gives a block back. Under the mapping a block is granted when `pf_malloc` hands
it out (`Took`) and free again when the tail of the ring has moved (`QuePublish`); until
then a block taken from the ring is still free (`FreeBlocks`). The miss counts at the moment
`pl_que_get` finds the ring empty.

### MapBlock3d

`SetArea` is one turn of the loop over the areas of a file: in every block of the
area, `TakesPlace` decides between it and the area the block has. `GetMapInfo` is the
end of `get_map_info`: with any line in error the blocks stay and the areas are not
assigned, and the service goes on. The areas are taken one at a time, and not folded,
so that what holds after each of them can be stated. `AskLine`, `GoOn`, `Stop` and `Over` are
the loop of `check_block_around_line` on whole metres, with `Quotient` the cast that
rounds towards zero. `Corridor` is the reference: the blocks within `dis_xy` of the
line, computed without the steps and the cast. `SafeIsFree` speaks of files whose
areas do not overlap (`Disjoint`) and that are read whole; what happens to the others
is `map_nofly`.

### Startup

`main` is the number of the statement of `main` under way (`Program`). `Create` is the
mailbox and `pthread_create`, `Name` the entry in the table of thread ids after it, when
the thread runs already. Nothing bounds the load: `PauseEnds` may come before it is over, and
`outlasted` remembers that it did. `mqtt` counts how far `loadMqttConfig` is: 0 before the file is
parsed, then one more for each topic the serial number is filled into; `device` says that the
serial numbers are there. `sn`, `server`, `pubTopics` and `subTopics` are what the other threads
have copied, as it was when they did. Each load may fail (`LoadDeviceFails`,
`LoadMqttFails`), the subscriber's file of topics may be missing (`Create`), and the rest starts
all the same. protobuf before
version 22, such as the packages `common/proto/CMakeLists.txt` asks apt for, converts JSON as a
whole before it fills the message, so that a wrong file leaves nothing behind; a later one
may leave a part, which is not modelled.

## 3. Runs

| Run | Instance | Checks |
|---|---|---|
| `request_shared` | 2 calls and another client with one key, 2 repliers, the reply to the first call comes twice | `NoLeakedEntry`, `TimeoutIsFinal`, `ServiceKept`, `ReturnsUnlessCycle` |
| `request_deadlock` | 2 calls, 1 copy; expected to fail | `EveryCallReturns` |
| `platform` | mailbox: ring of 3 slots, 2 senders, one short and one long message; timers: 2 units, 2 buckets, ticks modulo 4, 2 id variables of one module, mailbox of 1, 3 timers set; monitor: 2 threads, one of them unmonitored, counts modulo 4; log: ring of 8 bytes with 3 reserved, lines of 4, 4 lines, 2 threads; clients: 3 topics, a broker that changes without bound | `NoLostWakeup`, `HeapBalanced`, `QueueSpec`, `Served`; `StaleIdsMiss`, `ServiceSpec`; `AlarmIsReal`, `HangEndsProcess`, `EndIsRecorded`; `FileInOrder`, `EveryLineWritten`; `ConnectedIsSubscribed`, `ServiceRecovers`; `PlatformTypeOK`, which contains `ListsAgree` |
| `shared` | memory: 2 threads, pools of 2 and 1 blocks; telemetry: 3 OSD messages, two coordinates and two camera fields, mode codes at the edge of each class, two control sources; map: 3 by 2 blocks of 2 m, distance 3 m, 39 files, two of them with two areas, routes of 1, 4 and 7 m from 6 places in 4 directions; messages: 1 request of any of the 11 methods, or 2 of two methods which may be equal, 2 other messages, 2 device threads; start: one topic, a message of the broker | `AllocatorSpec`; `EveryLandingReported`, `NothingStale`; `SafeIsFree`; `RepliesFindRequests`; `StartsWhole`; `SharedTypeOK` |
| `pool` | 3 commands, with a key each on flyto's pool of 2, or two of them with one key on payload's pools of 2 and 2; any verdict | `ReplyIsOwn`, `NoOrphanedWaiter`, `AnsweredUnlessStarved` |
| `pool_flyto` | 3 commands on flyto's pool of 3; expected to fail | `AnsweredCallReturns` |
| `flight_moves` | 3 commands, each continuous (two directions), stop or timed, one after the other | `OneStickThread`, `StoppedIsCentred`, `TakeoverRespected`, `EveryCommandAnswered` |
| `flight_points` | 2 commands, each a flight to a point, take-off, another request, without a known action or undecodable, handled at once or not; one event of each status per flight; 2 threads | `TypeOK`, `ReportsNameNoEarlier` |
| `flight_threads` | 2 continuous moves in hand at once; expected to fail | `OneStickThread` |
| `camera` | 6 camera commands of 6 kinds, one of them after a turn with four drags, and a turn, of which any 4 are sent; 2 threads, limits 2.0 to 2.4, a wanted factor of 0.5, 2 iterations | `PayloadTypeOK`, `OneZoomAtATime`, `StopIsPrompt`, `SentFactorIsValid`, `ZoomFollowsTurn`, `EveryCommandEnds` |
| `log_ring` | as in `platform`, the writer alone, 6 lines; expected to fail | `InsideRing` |
| `map_nofly` | the same map, two areas that share a block, limits no-fly, none, 9 m; expected to fail | `NoFlyRespected` |

### What the passing runs show, and why the bounds are enough

- **request_shared.** A call interacts with others through the map, the manager's
  mutex and its own context only; two calls and two repliers give every pairing
  of timeout, reply, duplicate and second registration, and the other client the replies
  nobody here has asked for. Even with one key for
  all of them the map does not leak, a reported timeout is not contradicted later, and the
  manager implements `RequestService`: the first reply decides. `ReturnsUnlessCycle` says that the inverted lock order is the
  only way a call can hang.
- **platform, mailbox.** Three slots leave room for two messages: empty, half full,
  full, and each position of the wrap-around occur with messages entering at both
  ends. Two senders are as many as may sleep on the full ring at once.
- **platform, timers.** Two buckets and four ticks lap the table within one
  duration and wrap the tick within two; a mailbox of one is full at the second
  expiry. Three timers on two units reuse a unit while its old id is still kept.
- **platform, monitor.** One monitored and one unmonitored thread suffice because
  the check treats each count alone; a count modulo four goes through its wrap
  within one check. Either thread may have a line open before the one with the reason, and close
  it before, during or after the flush; the log module's pass begins and ends at any time from the alarm on.
- **platform, log.** Four lines fill the ring, wrap, go to the heap, and leave lines
  behind an incomplete one for the next pass. The overrun of `log_ring` needs five
  lines; the two threads need four for every mixture of ring and heap. In `platform`
  the file properties hold; in `log_ring` the space does not. `FileInOrder` is about the lines,
  not the bytes they occupy: see section 4.
- **platform, clients.** The broker may change state infinitely often; no bound
  limits the number of attempts. A connection may be lost before, between and
  after the three subscriptions.
- **shared, memory.** A miss in the first pool goes on to the second, and from there
  to the C heap; the ring of the first pool has three slots and wraps at once. Two threads
  meet in every pair of steps of a get and a put; `AllocatorSpec` says that nobody can tell.
- **shared, telemetry.** What is kept of the past is `m_airborne` and the last mode
  code; three messages are a flight, a landing and what follows it, and contain
  every pair of successive values of the two, from which longer histories repeat. For the fields, a
  read that begins in one message can end in the third; two coordinates (the code has four) are
  enough for one of each to be in an answer, and `NothingStale` looks at each field alone.
- **shared, map.** Routes shorter than, equal to no multiple of, and longer than a
  step, beginning off the map, at its corner and inside, in every direction; one
  odd block at each place, of each kind, and two areas beside each other, one of them
  no-fly, in either order.
- **pool.** Two commands fill flyto's pool and payload's; the third waits, or comes after one
  has timed out. In payload two have one method: the second takes the place of the first, and the
  reply to one completes the other. `ReplyIsOwn` says that this does not happen in flyto.
- **flight_moves, flight_points.** Three commands are a move, the stop of it and
  the move after that; every combination of kinds is explored because the kind is
  chosen when the command is accepted. Stick commands and flights to a point
  share only the control mode and the trans_id, so they have a run each. In
  `flight_points` two commands and the events of their flights are handled at once, on two
  of the pool's threads, which is every pair of handlers; it uses the symmetry of the commands
  (its configuration gives both of them one direction). Of the event statuses, an
  `ok` differs from `wayline_progress` only in its name once it is cached, and
  only `wayline_progress` and `wayline_failed` are compared with by the code.
- **shared, routes and replies.** A request is disturbed by another of its method, by a reply
  with its method, by a timeout, or by none of these: one request of each of the eleven methods
  beside two other messages and replies to other clients, and two requests of one method
  with a tid and one without. Two other messages
  put two states of the remote controller on its two threads, or an event or telemetry
  before, between and after the replies.
- **shared, start.** The load ends before, in or after the pause, at each of its failures; one topic
  is enough to have them half filled. The message
  is for any of the modules and may become another one, for the publisher; every order of the
  initialisations, the messages and the expiries of the cycle timers is explored. `StartsWhole` has a
  part for every start, and one about the copies for those in which the load was over when the
  pause was (`outlasted`); section 4 says what the others do.
- **camera.** The limits 2.0 and 2.4 and the OSD factors (0, which no camera has, and
  2.2) make the loop meet the limit, stay inside it, and start from an impossible
  factor; two iterations have a first, a last and a request in between two tests of
  the flag. Any four of the commands on two threads include a zoom that waits for the
  lock of another, a stop for it, a factor overwritten while another command
  works with it, and a turn of four requests that keeps one thread meanwhile. With
  `MaxSent = 5` the run passes too (896245 states), but takes three times as long.

### What the violated runs show

- **request_deadlock.** `sendRequestAndWait` calls `cleanup()` on timeout while
  `lock` still holds `reqCtx->mtx`; `cleanup` takes `m_requestMutex`.
  `findAndUpdateRequest` takes `m_requestMutex` first. A reply at the moment of
  the timeout hangs both threads, and with them every later request of the
  module. The interface comment promises that the call returns false on timeout.
- **pool_flyto.** The replies to flyto's commands are posted to the pool whose
  threads wait for them. With three outstanding commands all of them time out
  although their replies are in the queue. `payloadMain.cpp` names this very
  arrangement as a deadlock and avoids it with a second pool.
- **flight_threads.** Two continuous moves handled at once both find no thread to
  stop; the second replaces a joinable `std::thread`, which terminates the
  process.
- **log_ring.** `pf_thread_mon_get_log_info` tests that the read address lies ahead of
  the write address and then subtracts the offsets. The log module may rewind the
  read offset in between; the unsigned difference wraps, and the next line may be
  written past the end of the ring.
- **map_nofly.** `set_map_block_area` lets an area take the place of another if its
  limit is higher, and no-fly is -1, the lowest. A no-fly area followed in the file
  by any overlapping area is forgotten in the blocks they share, and a route
  through these is called free.

## 4. Seen with TLC and not kept as runs

Each of these is obtained by the change named, and shows how far a property
reaches. Where no line of the repository says which behaviour is wanted, it is
recorded here and not as a finding.

- `flight_moves` with `Patient = FALSE`: `StoppedIsCentred` is violated. A stop can
  be handled before the continuous move that was sent first.
- A report may name a later command than the one it is about (`flight_points` refutes
  `report.transId = report.of`): of two commands handled at once, of a message that cannot be
  decoded, and of the failure of a flight after another command has come. `ReportsNameNoEarlier`
  says that it never names an earlier one.
- A call of payload may return the verdict on another request of its method, this service's or
  another client's, and its context may lose its place in the map to one; `ReplyUnderKey` and
  `NoOrphanedWaiter` say that no other key can do it, `ReplyIsOwn` that it does not happen in flyto.
- `platform` with `MayRefuse = TRUE`: `ConnectedIsSubscribed` is violated. A refused
  subscription is logged and not asked for again on that connection.
- The failure event of an earlier flight ends the control mode of a later one, and a
  handler that reports first and drops the mode afterwards (`Finish`) may drop the
  mode of the command after it.
- `m_stopZoom` is cleared by a zoom that was waiting for the lock, so that a stop
  that arrives while it waits is lost on it.
- A zoom sends a factor below 1.0, 0 included, if another command has written the shared factor
  between its check and its request, or between lines 309 and 310, so that the check sees the other's.
  `SentFactorIsValid` is about commands that nobody disturbs so. `specifyZoomFator` sends any factor it
  is asked for, while `dji_cloud_api.proto:184` gives 2 as the least.
- The publisher's reconnect interval and its connect timeout are both five
  seconds: with a broker that does not answer, the throttle is over when the
  attempt is, and the next message may start another attempt at once.
- flyto's replies go to the payload module too (`mqttsubMain.cpp`), which looks them up by
  method. No method of the one is a key of the other, so nothing is found; but a
  payload request is completed by any reply with its method, another client's included.
- Two `drc_state` messages taken by two threads of the device module may be stored in
  either order, and the older one stays until the next message.
- `getUavPoint` may return 0,0 while an OSD message is parsed, or the longitude of one message with
  the latitude of another. `NothingStale` says that none of it is older than the newest
  message when the read began.
- The log line with the reason for the end need not be in the file: it is put off behind the line a
  hung thread has not finished, or the log module has it in hand, and `_exit` loses it. Then
  `PF_BOOTUP_FILE_PATH` is the only record, and `EndIsRecorded` says that there is always that.
  The flush may also meet the log module's pass in the map they share (`PassesMeet`).
- A cycle timer that fills a mailbox of one place again on every tick keeps a
  one-shot timer of the same module waiting for ever: what `TimerService` promises is
  another try on each tick, not that one succeeds.
- The timer task runs the thread monitor and is not monitored itself, nor are the
  threads of the pools: when one of these hangs, nothing ends the process.
- A ring of the log that is drained with the write offset near its end is not
  rewound, and later lines take a heap block each.
- A line of the log may be written over one that waits to be read. With few lines it does not
  happen; with the constants of `log_ring` and 12 lines TLC finds it, after 77 steps: the reader
  rewinds between `Measure` and `MeasureBehind`, the space left underflows, and later
  a line is written at 4 to 8 over the one at 6 to 8. `Refill`, when it takes `ulLogWriteOffset` before
  `Advance` has moved it, gives too much space as well.
- `pf_log` reads the first byte of a line after marking it complete
  (`pf_log.cpp:655`), when the log module may have freed it; and the SIGTERM handler and
  the timer task may call `pf_log_write_file` beside the log module, a second reader
  of every ring. `LogRing` ends before the one and has one reader; what becomes of the line with
  the reason between two passes is in `ThreadMonitor`.
- In `check_block_around` an area whose limit is above the flight counts as an
  obstacle and one whose limit is below it does not, while the header calls it a
  "flight height limit" and `check_fly_resdiction`, which nothing calls, compares the
  other way round. `Occupied` is what the code does.
- A map file with one bad line leaves heights without areas, and the service flies
  on them: `lcfMain.cpp:104` does so on purpose.
- A route is checked at the aircraft's present altitude only, not at the height of
  the target.
- When the load outlasts the pause of main, which nothing in the code excludes, MQTTSUB and TRACK
  may copy empty serial numbers, and the publisher topics half filled, for the life of the process.
- `mqttsub_init` ignores that `loadSubTopics` found no file: the subscriber goes online and
  subscribes nothing.
- `pf_ex.cpp:1408` asks for the mid to be set before `msg_entry` initialises, but the thread is
  created first, and an initialisation may log under no mid (`Create` before `Name`).
- `ulMaxUsedNum` of a pool is computed outside the mutex; only a log line shows it.

## 5. Fairness

| Specification | Assumed | Why |
|---|---|---|
| `RequestContext!FairSpec` | a call or a replier with a runnable step takes it; an unsatisfied `wait_for` expires | threads are scheduled and the wait has a timeout. Nothing is assumed of the aircraft or of delivery |
| `ModulePool!PoolSpec` | started tasks run and free threads take tasks; the timeout is not fair | 8 s is far away, so that a property cannot be satisfied by it |
| `Mailbox!FairSpec` | module thread and senders run | scheduling; no spurious wakeup is promised |
| `FlightControl!FairSpec` | handlers, reports and stick threads run; a timed move ends | scheduling, timeouts of requests, and a number of cycles fixed at the start |
| `Gimbal!FairPayloadSpec` | handlers of both controllers run; nothing is assumed of arrivals | scheduling and timeouts; the lock passes to a waiting zoom because the loop is bounded |
| `MqttClients!ClientsSpec`, and the same in `MCPlatform` | the loops, the paho threads and time go on; `SF` for the CONNACK | a broker that stays reachable answers some attempt. The publisher always has a message because telemetry keeps coming |
| `MCPlatform!PlatformFairness` | that of the mailbox and the clients; the monitor's check goes on; the writer's accesses, the formatting of each line, and the log module's passes go on | scheduling; the check and the passes are started by cycle timers. Threads may hang or stay idle for ever, and nothing is assumed of the timer wheel, of which only safety is claimed |

`TimerWheel`, `MemPool`, `Telemetry`, `MapBlock3d`, `Routing` and `Startup` are checked without fairness.

## 6. Proofs

All theorems hold for every value of the constants that satisfies the named
assumptions: `CallsAssumption`, `MailboxAssumption`, `FlightAssumption`,
`ZoomAssumption`, `GimbalAssumption`, `SubAssumption`, `TimerAssumption`, `MonitorAssumption`,
`LogAssumption`, `TelemetryAssumption`, `StartupAssumption`, `RoutingAssumption`,
`MapAssumption`, and of `MemPool` and `ModulePool` `PoolAssumption` and `LayoutAssumption`. TLC
evaluates all of them for the instances of the runs. Two hypotheses come besides, each stated in
its theorems: `MayRefuse = FALSE` (the broker refuses no subscription) in `SubscribedWhileConnected`,
and `[]OneHasStick` (no two commands for the stick are in hand at once) in `MoveInvariant` and the three
theorems that follow from it. The latter is a condition on the behaviour, not on the
platform or the kinds: all other commands and events may be handled beside. Section 3 or 4 says what
happens without each.

- **RequestContextProofs.** `TypeCorrect` first. `ManagerInvariant` proves
  `LockInv /\ MapInv /\ PhaseInv` together: `LockInv` says which program point
  holds which mutex and that a replier holding `m_requestMutex` has a context in
  hand; without it nothing excludes that the entry disappears under the replier.
  `MapInv` says whose entry a key holds and that a completed context still in the
  map is being erased; `PhaseInv` ties `finished` and `ret` to the control state. From
  them follow `NoLeak`, `LateReplyHarmless` and, as an action property,
  `FirstReplyDecides`, for any keys. `ManagerImplementsService` is the refinement of
  `RequestService`, for any keys too: `FoundIsOpen` says that the context a replier has in
  hand is neither completed nor reported, and `AnswersReal` that what is delivered was decided.
  `OnlyTheCycleBlocks`: unless a call that gives up and its replier wait for each other
  (`LockCycle`), the holder of `m_requestMutex` can go on, and so can whoever it keeps waiting, in turn.
  `TheCycleIsForEver`: once formed the cycle stays and the map and the mutex never change again.
  The two say without fairness what `request_deadlock` and `ReturnsUnlessCycle` show of an
  instance. `PairingInvariant` (`OwnInv`), for any keys, says that the result of a
  context is a verdict on a request with its key, and that a context is displaced only by a
  call with its key; it gives `RepliesHaveTheKey` and `WaitersAnswerable`. `PoolsImplementManager` shows that the pools
  of a module, of any size and shared by the replies or not, add no behaviour to it, so that
  all of this holds behind them (`PoolsKeepService`). `PoolsKeepPairs` adds flyto's half of `ReplyIsOwn`:
  by `KeysOfFlyto` no two commands that have arrived there share a key, so that a verdict under the key is the
  verdict on the command. `CommandsRunOnce` is about the queue:
  a command is in it, once, until a thread begins it. Its invariant needs both halves, since
  a command that is in the queue twice would let the second copy meet a call that has begun.
- **MailboxProofs.** `TypeCorrect` for every ring length, with the arithmetic of
  the wrap-around as lemmas, and `WakeupsAreNotLost`. The inductive argument is
  `NoLostWakeup` itself: the receiver sleeps only on an empty ring, and sleeping
  senders never outnumber the messages left, so that each `get` has at least as
  many signals to give as there are sleepers. It needs that there are no more
  senders than room (`Cardinality(Senders) <= m_size - 1`); the build has 128 or
  16384 slots and a few dozen threads. Without this hypothesis a put could wake a
  sender in place of the receiver. `RingImplementsQueue` is the refinement of
  `MessageQueue`: `SlotBySlot` says which slot holds which place of `Contents`, and
  `StoredAtTail`, `StoredAtHead` and `TakenFromHead` that the three accesses to the ring
  are the three steps of a queue; `Filled` is needed because an empty slot would be no
  message. `BlocksAreOwned` proves `HeapBalanced`: the live blocks of long messages
  are those of `Pending`, in the hands of a sender, and of `Stored`, in the ring; each action
  moves one from the one to the other, or adds or takes one.
- **FlightControlProofs.** `TypeCorrect` for any commands and events, handled in any order.
  `ReportsAreNotEarlier` likewise: `TurnInv` says that `s_transId` is that of the command whose
  turn was the last, and that what is still to be reported is about a command whose turn has come. For the
  stick, `MoveInvariant` has four parts, beside `PlaceOfKind` (which handlers a kind of
  command can be in): `OneThread` (nothing has thrown, a stick thread that is not joined
  is the one the pointer names, and a handler about to join has one to join); `StopAlone`
  (a stop that is reported and that no command came after has no command for the stick beside it); `StopInv`
  (it has no thread beside it either, and its success left the stick centred); and `TakeoverInv` (a stick that is
  still sent after a takeover was decided on before it). `OneThread` is what the others
  rest on, and needs `[]OneHasStick`; `EventSteps` says that events touch none of it. They give
  `NeverTwoThreads`, `StopCentres` and `TakeoverStopsThread`. `flight_threads` shows that
  `OneThread` is false when two moves are in hand at once.
- **CameraZoomProofs.** `ZoomsExclude`: the holder of `m_operationMutex` is exactly
  the zoom in its loop, for any commands, factors and pool size.
  `PayloadImplementsCamera`: beside the gimbal the camera still behaves as `CameraZoom`
  says, so that the first theorem carries over. `CombinedInOrder` proves
  `ZoomFollowsTurn` for any commands, with one or four requests to a turn; its invariant
  `TurnOf` says at which point of the turn how many requests have been granted, what has
  been reported, and that the camera knows nothing of the command until the turn is over.
  `ZoomInvariant` adds three parts to the lock: what has been reported at
  each point (`ReportedInv`), what a command that nobody has disturbed knows of the shared factor at each
  point (`FactorInv`: at least 1.0 after its check, within the limit on its side when it is sent), and that a loop which has
  sent a request since `m_stopZoom` was set looks at the flag next (`PromptInv`). They give `FactorsAreValid`,
  `StopsArePrompt` and, with the gimbal beside, `PayloadTypeCorrect`.
- **TimerWheelProofs.** For any units, table size and wrap of the tick. `WheelInvariant`
  has five parts: types; `ListsAgree` (a unit is free, or allocated, running and in the
  bucket of its tick); `StaleIdsMiss`; `IdsInUse` (no id, kept or in a unit, is ahead of
  `u32TimerCountHistory`, without which an old id could meet a later timer); and
  `DueIsNow` (the units still to expire are those whose tick is the present one).
  From it `NoUnitLost`, `OldIdsAreHarmless`, and `WheelImplementsService`:
  the initial state maps to the abstract one and each step to an abstract step or a
  stutter, one lemma per action. `MaxHistory` bounds the timers ever set; from 2^18
  on ids repeat and the claim ends.
- **PlatformProofs.** Four parts.
  *Thread monitor.* `NoFalseAlarm`, an action property: a check condemns only a
  thread that has not counted since its count was copied. `CountsTell` says that a
  count is its copy plus `moved` modulo the counter's width, and odd exactly in a
  handler; `Suspicion` says what the finding of an odd count still implies at the
  comparison, after the thread may have gone on. `NoSilentEnd` proves `EndIsRecorded`; its
  invariant `Recorded` says at each step of the end how much has been written, and that the line
  with the reason has left the shared map when the flush is over.
  *Log.* `LogTypeCorrect` and `LinesInOrder`, for any ring, any number of threads and
  lines, and offsets that wrap. `LogInv` says that the written lines, those put off, the
  batch of the present pass and those still shared follow one another without a gap
  (`InRow`), and what a pass in progress has established (`Passing`). From the row follow
  both halves of `FileInOrder`: the order in the file, and that a line missing from it is in one
  of the maps or the pass. `FileWhole` adds that what is in the file is complete and stays so.
  *MQTT.* `SubscribedWhileConnected`, when no subscription is refused: `LoopInv` relates the
  topics already asked for to the session while `subscribeTopics` runs, and uses that the
  wait is longer than the attempt. `SubscriberAlone` shows that the publisher and the
  broker beside it do not disturb the subscriber's specification; `ClientTypes` is the types of both.
  *Composition.* `PartsKeepTheirSpecs`: `MCPlatform` implements the specification of
  each of its five parts, so that every theorem about a part holds there too;
  `PlatformTypeCorrect` follows.
- **ServiceProofs.** Five parts.
  *Start.* `ServiceStartsWhole`. `InOrder` says that what exists tells how far `main` is;
  `PauseOutlasts` that the load is over when the pause is, or `outlasted` remembers that it was not;
  `LoadedInOrder` that the topics are complete only after the serial numbers;
  `CopiesFinal` that every copy is then a copy of the final configuration; `ComesFromBroker` that
  only a client that is online brings messages.
  *Telemetry.* `OldTelemetryIsGone` for any number of messages and codes (`Fresh`: each field is
  blank or of the newest message, and while they are being reset those behind the parser are
  blank already), and `LandingsAreReported`: `Remembers` says that
  `airborne` is up exactly if the history has an airborne code behind its last ground code, and
  `NextLanding` how one more code changes the set of landings.
  *Routing.* `RepliesAreHandled`. `Numbered` says that no two registered requests have one key, `Addressed` that a
  reply is only in the mailbox of a manager that can use it, under the id for which that
  manager looks at the right field, `OnItsWay` that the reply to a registered request is in its manager's
  mailbox, `Replied` and `Displaced` the other two parts of the property. That the keys of the two managers are
  apart is `MethodFacts`.
  *Obstacle map.* `FreeRoutesAreFree` proves `SafeIsFree` for a grid, file and line of any size.
  `AreaInv` says after each area which area a block has (`InItsArea`, `OneArea`); `LineInv` that the
  corridor up to where the walk has come is free (`StepsTell`). `StepCovers` is the geometry: the
  surroundings of one point cover the corridor of the next step, which needs that
  the cast towards zero is monotone (`CastMonotone`) although it takes two metres to one
  block at the edge of the map.
  *Composition.* `SharedPartsKeepTheirSpecs` and `SharedTypeCorrect`, as for the platform.
- **MemPoolProofs.** For any set of threads and any pools with the layout of the code.
  `PoolInvariant` adds to types and `BlocksConserved` that the owner of a pool's mutex is
  the thread between its lock and unlock (`Exclusive`), and what the first half of
  a get or a put has established for the second (`Advancing`, `Publishing`, `Carried`).
  `RingOfOwner` turns exclusion into non-interference; lemmas about `Filled` do the
  arithmetic of the wrap. Each action is shown to move one index from one of free,
  carried and held to the next, or none. `NeverFull` is a pigeonhole argument: a full
  ring would hold as many different indices as the pool has, besides the one in hand.
  So `NoReturnRefused`, on which `pf_free` relies when it drops the result.
  `PoolsImplementAllocator` is the refinement of `BlockAllocator`, one lemma per kind of step.
  Its core is `FreeIsRest`: the free blocks of the mapping are all those that are neither handed
  out nor on their way back, from which every step says what it adds and takes away without
  looking at the ring; the ring is needed once, for a miss (`EmptyPassesOn`): while its
  mutex is held and it is empty, no block of the class is free, not even in the
  hand of a thread that has just taken it. `SharedPoolsAllocate` repeats it for the composition.

### Only model-checked

Liveness, which TLAPS does not do under fairness: `ReturnsUnlessCycle`, `Served`,
`AnsweredUnlessStarved`, `EveryCommandAnswered`, `EveryCommandEnds`, `ServiceRecovers`,
`HangEndsProcess` and `EveryLineWritten`. Every invariant and every action property or
refinement that a passing run checks is stated by a theorem. That the table of the real memory pools has the
assumed layout is evaluated by TLC (`SharedAssumption`).

## 7. What is not modelled

- Stick arithmetic, speed tables and spherical geometry: floating point. Their
  integer parts (number of cycles, stick offsets) are planned as operators.
- Of the obstacle map: the XML lines, the polygon test that decides which blocks an
  area takes in (given with the area), the projection to UTM, ground areas. In
  `FlightControl` its verdict is a free choice (`Blocked`). `pf_map_block.cpp` is an older
  version the Makefile leaves out.
- JSON and protobuf conversion: failing is an alternative of the actions that
  depend on it, the bytes are left out.
- In `FlightControl` the DRC check of the stick handlers succeeds or fails at will
  (`Refuse`), which includes every order `Routing` gives of the stores to `m_drcState`.
- In `FlightControl`: events about flights of an earlier process. Reading `s_transId`, and in
  `Telemetry` the payload index, a `std::string`, while it is written is undefined behaviour; the models
  read the old or the new value.
- Shutdown: pools and the continuous-move thread are stopped only at process end.
- The contents of the configuration files: a file is right, wrong or missing.
- The rest of the platform layer: thread creation, files, sockets, FTP, kafka and
  statistics are wrappers and output of this process, or not used by it; dumps,
  colours and levels of the log; `pf_realloc` and the C heap; memory orders weaker than
  sequential consistency, which the unlocked code of the log and the monitor would admit.

## 8. Plan

Done: the request rendezvous with its pools, the mailbox, timers, thread monitor, log
and memory pools, flight control, zoom and gimbal, the MQTT clients, the routing of
messages with the device state, telemetry, the obstacle map, the start of the process, and the proofs above.

Next, in this order; a new module is composed with those of an existing run where
it can be, so that the set of runs stays small:

1. A property relating the report of an offset update to a live stick thread.
2. `ControlMath`: cycles and offsets of a timed stick as integer functions, against
   a reference definition; no recursion is needed.
3. `MapBlock3d` in place of `Blocked` in `FlightControl`.
4. Theorems about single steps of the components that so far have invariants only: the
   dating of connections in `MqttPub`, and that a refused camera command changes nothing but
   the factor.
5. The timed moves under a takeover, and a thread that never saw manual flight, once it is settled
   what the service owes the pilot there.
