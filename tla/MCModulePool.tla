---------------------------- MODULE MCModulePool ----------------------------
(* Three commands before flyto's pool (of three threads, or of two that    *)
(* two commands fill) or payload's two pools.  Every command of flyto has  *)
(* a tid of its own; two of payload's have one method, and so one key.     *)
EXTENDS ModulePool, TLC

CONSTANTS c1, c2, c3, k1, k2, k3

OwnKeys    == (c1 :> k1) @@ (c2 :> k2) @@ (c3 :> k3)
MethodKeys == (c1 :> k1) @@ (c2 :> k1) @@ (c3 :> k2)
Once       == [c \in {c1, c2, c3} |-> 1]
=============================================================================
