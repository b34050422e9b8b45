---------------------------- MODULE MCPublisher ----------------------------
(***************************************************************************)
(* The publisher with small sets of subscriptions.  "error" is a data item *)
(* of ROUTE_ERROR (no compression, no minimum interval), "value" one of    *)
(* ROUTE_VALUE (KeepLatest, a minimum interval of two ticks), "summary" a  *)
(* capability of ROUTE_VALUE with the number of "value", "orphan" one      *)
(* whose definition names a route that does not exist.                     *)
(***************************************************************************)
EXTENDS PublisherProperties

CONSTANTS error, value, summary, orphan,   \* targets
          panel, log, web, clock, meter    \* subscribers

MCRouted          == Targets \ {orphan}
MCTargetId        == [t \in Targets |-> IF t \in {value, summary} THEN 1 ELSE 2]
MCCompression     == [t \in Targets |-> IF t = error THEN "None" ELSE "KeepLatest"]
MCMinimumInterval == [t \in Targets |-> IF t = error THEN 0 ELSE 2]

Asks(target, method, trigger, interval) ==
    [target |-> target, method |-> method, trigger |-> trigger, interval |-> interval]

Changes(t, n) == [u \in Targets |-> IF u = t THEN n ELSE 0]

\* A callback and a mailbox that hear of every error.
ErrorPlan ==
    [revision |-> "top", time |-> 1, changes |-> Changes(error, 2),
     request  |-> panel :> Asks(error, "Callback", "OnChange", 0)
               @@ log   :> Asks(error, "Mailbox", "OnChange", 0)]

\* A mailbox for a value that changes often, and a target without a route.
RatePlan ==
    [revision |-> "top", time |-> 4, changes |-> Changes(value, 3),
     request  |-> web :> Asks(value, "Mailbox", "OnChange", 0)]

OrphanPlan ==
    [revision |-> "top", time |-> 1, changes |-> [Changes(value, 1) EXCEPT ![orphan] = 1],
     request  |-> web :> Asks(orphan, "Custom", "OnChange", 0)]

\* Two periodic subscriptions, each alone on its target.
PeriodicPlan ==
    [revision |-> "top", time |-> 3, changes |-> Changes(value, 0),
     request  |-> clock :> Asks(value, "Callback", "Periodic", 1)
               @@ meter :> Asks(error, "Mailbox", "Periodic", 2)]

\* Two periodic subscriptions of one target: each condition notifies both.
SharedPlan ==
    [revision |-> "top", time |-> 2, changes |-> Changes(value, 0),
     request  |-> clock :> Asks(value, "Mailbox", "Periodic", 1)
               @@ meter :> Asks(value, "Mailbox", "Periodic", 2)]

\* One of each kind, on each of the other revisions.
MixedPlan(rev, watched, other, n) ==
    [revision |-> rev, time |-> 1, changes |-> Changes(watched, n),
     request  |-> panel :> Asks(watched, "Callback", "OnChange", 0)
               @@ meter :> Asks(other, "Mailbox", "Periodic", 1)]

\* A data item and a capability with one number.
SharedNumberPlan(rev) ==
    [revision |-> rev, time |-> 2, changes |-> [Changes(value, 1) EXCEPT ![summary] = 2],
     request  |-> web :> Asks(summary, "Mailbox", "OnChange", 0)]

\* A periodic subscription on the target that the panel watches for changes.
BusyPlan(rev, method, interval, time) ==
    [revision |-> rev, time |-> time, changes |-> Changes(error, 1),
     request  |-> panel :> Asks(error, "Callback", "OnChange", 0)
               @@ clock :> Asks(error, method, "Periodic", interval)]

MCPlans ==
    {ErrorPlan, RatePlan, OrphanPlan, PeriodicPlan, SharedPlan,
     MixedPlan("755", value, error, 2), MixedPlan("0818", value, error, 1),
     MixedPlan("0820", error, value, 2),
     SharedNumberPlan("top"), SharedNumberPlan("0818"),
     BusyPlan("top", "Callback", 1, 2), BusyPlan("755", "Mailbox", 0, 0)}

OldPlans == {SharedNumberPlan(rev) : rev \in Old}
=============================================================================
