-------------------------- MODULE MCRequestContext --------------------------
(* Two calls and two repliers, with keys of their own (flyto's tids) or    *)
(* with one key in common (payload's method names), which another client   *)
(* may use as well.                                                        *)
EXTENDS RequestContext, TLC

CONSTANTS c1, c2, other, k1, k2

OwnKeys    == (c1 :> k1) @@ (c2 :> k2)
CommonKey  == (c1 :> k1) @@ (c2 :> k1) @@ (other :> k1)

\* The answer to c1 may come twice.
Repeated == [c \in {c1, c2, other} |-> IF c = c1 THEN 2 ELSE 1]
Once     == [c \in {c1, c2} |-> 1]
=============================================================================
