---------------------------- MODULE MCMapBlock3d ----------------------------
(* An instance of MapBlock3d: a flat map with two areas over one block, in   *)
(* either order in the file, of every kind of limit: no-fly, none, and one   *)
(* above the flight.                                                         *)
EXTENDS MapBlock3d

TwoAreas ==
  {[zmax   |-> [b \in Blocks |-> 0],
    areas  |-> <<[blocks |-> {<<1, 0>>}, height_limit |-> first],
                 [blocks |-> {<<1, 0>>, <<2, 1>>}, height_limit |-> second]>>,
    errors |-> FALSE] :
     first \in {RESTRICT_NO_FLY, 0, 9}, second \in {RESTRICT_NO_FLY, 0, 9}}

Corners == {0, 3, 5} \X {0, 3}
=============================================================================
