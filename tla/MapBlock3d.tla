----------------------------- MODULE MapBlock3d -----------------------------
(***************************************************************************)
(* The obstacle map (common/hdmap/pf_map_block_3d.cpp).  LCF reads it once *)
(* (get_map_info, set_map_block_area) and goes on whether or not that      *)
(* succeeds; a fly-to command asks it whether the line to the target is    *)
(* free at the present altitude (check_block_around_line) and is refused   *)
(* otherwise.                                                              *)
(* Positions are whole metres, block_min is the origin and routes follow   *)
(* the axes: the doubles and the cosine are left out, the cast S32() and   *)
(* what it does below zero are not.  Which blocks an area takes in (by     *)
(* their corners) is given with the area; ground areas play no part.       *)
(***************************************************************************)
EXTENDS Integers, Sequences

CONSTANTS
  block_count_x, block_count_y,
  block_size,      \* metres, in both directions
  dis_xy, dis_z,   \* the distances the check keeps
  MapFiles,        \* the files of a run: [zmax, areas, errors]
  Altitudes, Starts, Lengths   \* the requests of a run

RESTRICT_NO_FLY == -1

\* zmax of a block of which the file says nothing (z_i is 0).
UnknownHeight == -1000

Angles == {0, 90, 180, 270}
Cos(angle) == CASE angle = 0 -> 1 [] angle = 180 -> -1 [] OTHER -> 0
Sin(angle) == CASE angle = 90 -> 1 [] angle = 270 -> -1 [] OTHER -> 0

Blocks == (0 .. block_count_x - 1) \X (0 .. block_count_y - 1)

ASSUME MapAssumption ==
  /\ block_count_x \in Nat /\ block_count_y \in Nat
  /\ block_size \in Nat \ {0} /\ dis_xy \in Nat \ {0} /\ dis_z \in Nat
  /\ \A f \in MapFiles :
       /\ f.zmax \in [Blocks -> Int] /\ f.errors \in BOOLEAN
       /\ f.areas \in Seq([blocks : SUBSET Blocks, height_limit : Int])
  /\ Altitudes \subseteq Int /\ Starts \subseteq Int \X Int /\ Lengths \subseteq Nat

VARIABLES
  stage,             \* "load", "ready", "line" or "done"
  map,               \* what get_map_info kept of the file
  resdiction,        \* resdiction_i of every block: an area, or 0
  applied,           \* areas set_map_block_area has gone through
  request,           \* the line asked for
  curLen,            \* how far along it the check is
  ret,               \* RET_OVER, RET_OK or RET_ERR
  safe_dis

mapVars == <<stage, map, resdiction, applied, request, curLen, ret, safe_dis>>

NoRequest == [x |-> 0, y |-> 0, z |-> 0, angle |-> 0, length |-> 0]

MapInit ==
  /\ stage = "load"
  /\ map \in MapFiles
  /\ resdiction = [b \in Blocks |-> 0] /\ applied = 0
  /\ request = NoRequest
  /\ curLen = 0 /\ ret = "none" /\ safe_dis = 0

-----------------------------------------------------------------------------
(* get_map_info and set_map_block_area.                                    *)

\* An area takes the place of the one before it where it is the first one, is
\* a no-fly area, or has the higher limit.
TakesPlace(k, old) ==
  \/ old = 0
  \/ map.areas[k].height_limit = RESTRICT_NO_FLY
  \/ map.areas[k].height_limit > map.areas[old].height_limit

\* The loops of set_map_block_area, one area at a time: no block looks at what
\* another is left with, and nobody asks before all is done.
SetArea ==
  /\ stage = "load" /\ ~map.errors /\ applied < Len(map.areas)
  /\ applied' = applied + 1
  /\ resdiction' = [b \in Blocks |->
                      IF b \in map.areas[applied + 1].blocks /\ TakesPlace(applied + 1, resdiction[b])
                      THEN applied + 1 ELSE resdiction[b]]
  /\ UNCHANGED <<stage, map, request, curLen, ret, safe_dis>>

\* A file with an error in any line leaves the blocks, but not the areas.
GetMapInfo ==
  /\ stage = "load"
  /\ map.errors \/ applied = Len(map.areas)
  /\ stage' = "ready"
  /\ UNCHANGED <<map, resdiction, applied, request, curLen, ret, safe_dis>>

-----------------------------------------------------------------------------
(* check_block_around.                                                     *)

\* S32(n / d): towards zero.
Quotient(n, d) == IF n >= 0 THEN n \div d ELSE -((-n) \div d)

LowestOf(v)  == Quotient(v - dis_xy, block_size)
HighestOf(v) == Quotient(v + dis_xy, block_size)

\* The surroundings of the point do not touch the map.
OffMap(x, y) ==
  \/ LowestOf(x) >= block_count_x \/ HighestOf(x) < 0
  \/ LowestOf(y) >= block_count_y \/ HighestOf(y) < 0

Around(x, y) ==
  {b \in Blocks : /\ LowestOf(x) <= b[1] /\ b[1] <= HighestOf(x)
                  /\ LowestOf(y) <= b[2] /\ b[2] <= HighestOf(y)}

\* The limit of the area the block was left with, if any.
Limits(b) == {map.areas[k].height_limit : k \in {resdiction[b]} \ {0}}

\* The block is taken to be occupied from the ground to above the lowest height
\* the flight may come to (blockz > zmin): without end in a no-fly area and
\* where the file says nothing, up to a height limit above the flight, else up
\* to its highest point.
Occupied(b, z) ==
  \/ \E limit \in Limits(b) : limit = RESTRICT_NO_FLY \/ limit > z
  \/ map.zmax[b] = UnknownHeight
  \/ map.zmax[b] > z - dis_z

CheckBlockAround(x, y, z) ==
  IF OffMap(x, y) THEN "error"
  ELSE IF \E b \in Around(x, y) : Occupied(b, z) THEN "block"
  ELSE "over"

-----------------------------------------------------------------------------
(* check_block_around_line, for handleFlytoPoint.                          *)

\* MUTANT of FirstLen: a line shorter than the distance is not treated apart.
FirstLenAlways(length) == dis_xy

\* Where on the line the check begins.
FirstLen(length) == IF length < dis_xy THEN length ELSE dis_xy

AskLine(x, y, z, angle, length) ==
  /\ stage = "ready"
  /\ request' = [x |-> x, y |-> y, z |-> z, angle |-> angle, length |-> length]
  /\ curLen' = FirstLen(length)
  /\ stage' = "line"
  /\ UNCHANGED <<map, resdiction, applied, ret, safe_dis>>

\* The surroundings of the next point of the line.
Here == CheckBlockAround(request.x + curLen * Cos(request.angle),
                         request.y + curLen * Sin(request.angle), request.z)

GoOn ==
  /\ stage = "line" /\ curLen <= request.length
  /\ Here = "over"
  /\ curLen' = curLen + dis_xy
  /\ UNCHANGED <<stage, map, resdiction, applied, request, ret, safe_dis>>

Stop ==
  /\ stage = "line" /\ curLen <= request.length
  /\ Here # "over"
  /\ ret' = Here
  /\ safe_dis' = IF curLen < dis_xy THEN 0 ELSE curLen - dis_xy
  /\ stage' = "done"
  /\ UNCHANGED <<map, resdiction, applied, request, curLen>>

Over ==
  /\ stage = "line" /\ curLen > request.length
  /\ ret' = "over"
  /\ safe_dis' = curLen
  /\ stage' = "done"
  /\ UNCHANGED <<map, resdiction, applied, request, curLen>>

-----------------------------------------------------------------------------
MapNext ==
  \/ SetArea \/ GetMapInfo
  \/ \E p \in Starts, z \in Altitudes, angle \in Angles, length \in Lengths :
       AskLine(p[1], p[2], z, angle, length)
  \/ GoOn \/ Stop \/ Over

MapSpec == MapInit /\ [][MapNext]_mapVars

-----------------------------------------------------------------------------
MapTypeOK ==
  /\ stage \in {"load", "ready", "line", "done"}
  /\ map \in MapFiles
  /\ resdiction \in [Blocks -> 0 .. applied] /\ applied \in 0 .. Len(map.areas)
  /\ curLen \in Nat /\ safe_dis \in Nat
  /\ ret \in {"none", "over", "block", "error"}

\* What a flight along the line and its surroundings cover in one direction.
Swept(from, towards, reach) ==
  IF towards = 0 THEN from - dis_xy .. from + dis_xy
  ELSE {from + d * towards : d \in 0 .. reach}

Meets(positions, i) == \E p \in positions : p >= 0 /\ p \div block_size = i

\* The blocks within dis_xy of the first part of the line.
Corridor(reach) ==
  {b \in Blocks : /\ Meets(Swept(request.x, Cos(request.angle), reach), b[1])
                  /\ Meets(Swept(request.y, Sin(request.angle), reach), b[2])}

InArea(b, limits) ==
  \E k \in DOMAIN map.areas : b \in map.areas[k].blocks /\ map.areas[k].height_limit \in limits

\* No block lies in two areas.
Disjoint ==
  \A j, k \in DOMAIN map.areas : j # k => map.areas[j].blocks \cap map.areas[k].blocks = {}

\* check_block_around_line: the route it calls free, and the part of any other
\* route it calls safe, keeps its distance from everything that is too high or
\* not known; and when the map was read whole and areas do not overlap, from
\* the no-fly areas.
SafeIsFree ==
  stage = "done" =>
    /\ ret = "over" => safe_dis >= request.length
    /\ safe_dis > 0 => \A b \in Corridor(safe_dis) :
         /\ map.zmax[b] # UnknownHeight
         /\ map.zmax[b] <= request.z - dis_z
         /\ Disjoint /\ ~map.errors => ~InArea(b, {RESTRICT_NO_FLY})

\* pf_map_block_3d.h, height_limit -1 is no-fly: no route that is called free
\* crosses a no-fly area of a map that was read whole.
NoFlyRespected ==
  stage = "done" /\ ret = "over" /\ ~map.errors =>
    \A b \in Corridor(request.length) : ~InArea(b, {RESTRICT_NO_FLY})
=============================================================================
