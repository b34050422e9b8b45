---------------------------- MODULE MCLifecycle ----------------------------
(***************************************************************************)
(* The instances of Lifecycle that are model-checked.                      *)
(***************************************************************************)
EXTENDS Lifecycle

CONSTANTS r1, r2

\* In "top" two starts and two stops of one context that is then destroyed, in
\* "0820" a restart, in the others a start with a stop or a destruction.
MCMaxCalls == [v \in Revisions |-> CASE v = "top" -> 6 [] v = "0820" -> 4 [] OTHER -> 3]

MCOneRoute  == <<r1>>
MCTwoRoutes == <<r1, r2>>
=============================================================================
