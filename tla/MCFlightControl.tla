--------------------------- MODULE MCFlightControl ---------------------------
(* Instances of FlightControl: three commands for the stick, two of which    *)
(* would fly in one direction, or any two.                                   *)
EXTENDS FlightControl, TLC

CONSTANTS first, second, third

MCCommands == {first, second, third}

TwoDirections == [c \in MCCommands |-> IF c = third THEN "left" ELSE "up"]

OneDirection == [c \in MCCommands |-> "up"]

\* Nothing tells commands that fly in one direction from one another.
Pair == {first, second}

Symmetry == Permutations(Pair)
=============================================================================
