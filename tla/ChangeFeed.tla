----------------------------- MODULE ChangeFeed -----------------------------
(***************************************************************************)
(* What the data path of RIManager promises its publisher, whatever the    *)
(* queues compress and however the worker threads interleave.  An item     *)
(* that was stored stays "dirty" until the publisher looks at it after the *)
(* store.  Notifications may be merged, so the publisher does not see      *)
(* every value, and they may be repeated, so a look need not clean.        *)
(***************************************************************************)
CONSTANTS Item, Value, Unset

VARIABLES value, seen, dirty

feedVars == <<value, seen, dirty>>

FeedInit ==
    /\ value = [i \in Item |-> Unset]
    /\ seen = [i \in Item |-> Unset]
    /\ dirty = {}

\* A change is stored.
Change(i, v) ==
    /\ value' = [value EXCEPT ![i] = v]
    /\ dirty' = dirty \cup {i}
    /\ UNCHANGED seen

\* The publisher takes a notification of i; another one may still be on its way.
Look(i) ==
    /\ i \in dirty
    /\ seen' = [seen EXCEPT ![i] = value[i]]
    /\ dirty' \in {dirty, dirty \ {i}}
    /\ UNCHANGED value

FeedNext == \E i \in Item : Look(i) \/ \E v \in Value : Change(i, v)

FeedSpec == FeedInit /\ [][FeedNext]_feedVars
=============================================================================
