---------------------------- MODULE MCEventQueue ----------------------------
(***************************************************************************)
(* The instance of EventQueue that is model-checked.  In the library a     *)
(* queue has one consumer; two of them make the class's own promise        *)
(* observable, for notify_one and notify_all differ only then.             *)
(***************************************************************************)
EXTENDS EventQueue

CONSTANTS p1, p2, c1, c2, d1, d2
=============================================================================
