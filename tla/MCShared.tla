------------------------------ MODULE MCShared ------------------------------
(***************************************************************************)
(* State that many threads of the process share, of which only safety is   *)
(* claimed: the free lists of the memory pools, behind a mutex each, the   *)
(* telemetry of TrackMain, behind none, the obstacle map, written once,    *)
(* the pending requests the routes of the messages end in, and the         *)
(* configuration, copied by threads that start beside its loading.         *)
(* They have nothing to do with each other: a behaviour picks one of them; *)
(* the telemetry has a part for its fields and one for its mode codes, the *)
(* routes one for every single request and one for equal methods, and the  *)
(* start one with the modules that have a cycle timer and one without.     *)
(***************************************************************************)
EXTENDS MemPool, Telemetry, Startup, Routing, MapBlock3d

VARIABLE part

\* detectLanding's classes at their edges, and one code beyond them.
EdgeCodes == {-1, 0, 2, 3, 12, 13, 14, 15, 20, 21}

\* The telemetry of either end, and the topics that are subscribed.
OwnEnds    == {<<"aircraft", "aircraft">>, <<"rc", "rc">>}
TopicLines == {"services_reply", "events", "drc_up", "osd", "state",
               "flight/control", "gimbal/control", "camera/zoom"}

\* A method with a tid and one without.
OneOfEach == {"fly_to_point", "drc_camera_aim"}

\* Two pools of as many bytes, of two blocks and of one.
SmallSizes == [p \in 0..1 |-> p + 1]
SmallNums  == [p \in 0..1 |-> 2 - p]
SmallTable == [i \in 0..1 |-> i]

\* The pools of the service, with its table of 250 entries.
PoolSizes == [p \in 0..5 |-> <<256, 1024, 1536, 4096, 8192, 64000>>[p + 1]]
PoolNums  == [p \in 0..5 |-> <<48000, 12000, 8000, 3000, 1500, 192>>[p + 1]]
PoolTable == [i \in 0..249 |-> CASE i = 0      -> 0 [] i \in 1..3   -> 1
                                 [] i \in 4..5   -> 2 [] i \in 6..15  -> 3
                                 [] i \in 16..31 -> 4 [] OTHER       -> 5]

Real == INSTANCE MemPool
          WITH MAX_MEMPOOL_NUMBER <- 6, Granule <- 256,
               aulBlockSize <- PoolSizes, aulBlockNum <- PoolNums,
               aulMallocBufOffset <- PoolTable, Requests <- {1}

\* A flat map of three by two blocks with at most one odd block: of unknown
\* height, too high, or in a restricted area, with and without an error in the
\* file; and one with two areas, the first or the second of them no-fly.
Grid    == (0..2) \X (0..1)
Flat    == [b \in Grid |-> 0]
FlatMap == [zmax |-> Flat, areas |-> <<>>, errors |-> FALSE]
OddMaps ==
  {FlatMap}
  \cup {[FlatMap EXCEPT !.zmax[b] = h] : b \in Grid, h \in {-1000, 3}}
  \cup {[FlatMap EXCEPT !.areas = <<[blocks |-> {b}, height_limit |-> n]>>, !.errors = e] :
          b \in Grid, n \in {-1, 9}, e \in BOOLEAN}
  \cup {[FlatMap EXCEPT !.areas = <<[blocks |-> {<<0, 0>>, <<1, 1>>}, height_limit |-> n],
                                   [blocks |-> {<<1, 0>>}, height_limit |-> -1 - n]>>] :
          n \in {-1, 0}}

\* Places outside, at the edges and within, in whole metres.
RoutePlaces == {<<-5, 1>>, <<-2, 1>>, <<0, 0>>, <<1, 3>>, <<3, 2>>, <<5, 1>>}

ASSUME SharedAssumption == Real!PoolAssumption /\ Real!LayoutAssumption

tv == telemetryVars
bv == mapVars
rv == routingVars
sv == startVars
sharedVars == <<part, memVars, tv, bv, rv, sv>>

SharedInit ==
  /\ part \in {"memory", "telemetry", "landings", "map", "routes", "replies",
              "start", "cycles"}
  /\ Init /\ TelemetryInit /\ RoutingInit /\ StartupInit
  /\ MapInit /\ (part # "map" => map = FlatMap)

SharedNext ==
  \/ part = "memory" /\ Next /\ UNCHANGED <<part, tv, bv, rv, sv>>
  \/ /\ part = "telemetry" /\ TelemetryNext
     /\ UNCHANGED <<part, memVars, uavModeCode, bv, rv, sv>>
  \/ /\ part = "landings" /\ TelemetryNext
     /\ UNCHANGED <<part, memVars, info, next, bv, rv, sv>>
  \/ part = "map" /\ MapNext /\ UNCHANGED <<part, memVars, tv, rv, sv>>
  \/ /\ part = "routes" /\ RoutingNext
     /\ Len(asked') <= 1 /\ heard' \subseteq {asked'[i] : i \in DOMAIN asked'}
     /\ UNCHANGED <<part, memVars, tv, bv, sv>>
  \/ /\ part = "replies" /\ RoutingNext
     /\ {asked'[i] : i \in DOMAIN asked'} \cup heard' \subseteq OneOfEach
     /\ UNCHANGED <<part, memVars, tv, bv, sv, mail["TRACK"], mail["DEVICE"]>>
  \/ /\ part = "start" /\ StartupNext /\ ready' \cap Cycled = {}
     /\ UNCHANGED <<part, memVars, tv, bv, rv>>
  \/ /\ part = "cycles" /\ StartupNext
     /\ UNCHANGED <<part, memVars, tv, bv, rv, lcf>>

SharedSpec == SharedInit /\ [][SharedNext]_sharedVars

-----------------------------------------------------------------------------
\* Types of the parts.
SharedTypeOK ==
  TypeOK /\ TelemetryTypeOK /\ MapTypeOK /\ RoutingTypeOK /\ StartupTypeOK
=============================================================================
