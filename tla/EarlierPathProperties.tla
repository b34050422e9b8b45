------------------------ MODULE EarlierPathProperties ------------------------
(***************************************************************************)
(* What the data path of old_0818 and old_0820 guarantees: the promises of *)
(* PipelineProperties, kept by other means.                                *)
(***************************************************************************)
EXTENDS EarlierPath

\* The value the store worker has in hand, or else the stored one.
InHand(d) ==
    LET r == RouteOf[d]
    IN  IF storePc[r] \in {"diff", "lookup", "store"} /\ storeItem[r].id = d
        THEN storeItem[r].value ELSE domainStore[d]

(***************************************************************************)
(* The last value passed on for an item is never lost or overtaken, though *)
(* in old_0818 it crosses two queues with the router's hands between them: *)
(* it is the last in the first of these places that has one of the item.   *)
(***************************************************************************)
LastWriteWins ==
    \A d \in Data :
        LET queue == storeQueue[RouteOf[d]]
        IN  /\ LastIs(inputQueue, d, accepted[d])
            /\ ~HoldsId(inputQueue, d) =>
                  LastIs(routed, d, accepted[d])
            /\ ~HoldsId(inputQueue, d) /\ ~HoldsId(routed, d) =>
                  LastIs(queue, d, accepted[d])
            /\ ~HoldsId(inputQueue, d) /\ ~HoldsId(routed, d) /\ ~HoldsId(queue, d) =>
                  InHand(d) = accepted[d]
-----------------------------------------------------------------------------
\* A change of d was stored and the CapabilityWorker has not announced it.
Unannounced(d) ==
    LET r == RouteOf[d]
    IN  \/ storePc[r] \in {"snapshot", "push"} /\ storeItem[r].id = d
        \/ HoldsId(capabilityQueue[r], d)
        \/ capabilityPc[r] = "data" /\ event[r].id = d

(***************************************************************************)
(* No change is swallowed: a value the publisher has not seen yet has a    *)
(* notification queued, or a thread is bound to queue one; a capability's  *)
(* waits in the change set until all of Evaluate is done.                  *)
(***************************************************************************)
NoChangeSwallowed ==
    /\ \A d \in Data :
          domainStore[d] # published[d] =>
              HoldsTarget(publisherQueue, d) \/ Unannounced(d)
    /\ \A c \in Capabilities :
          capabilityStore[c] # published[c] =>
              \/ HoldsTarget(publisherQueue, c)
              \/ \E r \in Routes : c \in ToSet(changes[r])
-----------------------------------------------------------------------------
Required(c) == ToSet(RequiredData[c])

HomeRoute(c, r) == \A d \in Required(c) : RouteOf[d] = r

\* The snapshot holds what is stored now, as far as c is concerned.
Current(snapshot, c) == \A d \in Required(c) : snapshot[d] = domainStore[d]

\* GetAll by the thread of route r has read nothing of c that is stale by now.
CurrentSoFar(c, r) ==
    registryLock = r =>
        \A d \in Required(c) :
            DomainId(d) \in unread[r] \/ gathered[r][d] = domainStore[d]

(***************************************************************************)
(* The evaluation that will give c its value is under way.  In old_0818    *)
(* the snapshot travels with the event, so a queued event only counts if   *)
(* its snapshot is current; in old_0820 it is still to be taken.           *)
(***************************************************************************)
Scheduled(c, r) ==
    \/ storePc[r] \in {"snapshot", "push"} /\ storeItem[r].id \in Required(c)
    \/ \E k \in DOMAIN capabilityQueue[r] :
          /\ capabilityQueue[r][k].id \in Required(c)
          /\ revision = "0818" => Current(capabilityQueue[r][k].snapshot, c)
    \/ /\ capabilityPc[r] = "data" /\ event[r].id \in Required(c)
       /\ revision = "0818" => Current(event[r].snapshot, c)
    \/ capabilityPc[r] = "snapshot" /\ c \in ToSet(targets[r]) /\ CurrentSoFar(c, r)
    \/ /\ capabilityPc[r] \in {"evaluate", "keep"}
       /\ c \in ToSet(targets[r]) /\ Current(event[r].snapshot, c)

(***************************************************************************)
(* A capability whose data all come by one route is never left behind      *)
(* them: GetAll copies the storages one after the other and may give a     *)
(* snapshot no moment ever had, but a snapshot that misses a store is      *)
(* always followed by another one.                                         *)
(***************************************************************************)
NeverLeftStale ==
    \A c \in Capabilities, r \in Routes :
        HomeRoute(c, r) /\ (\E d \in Required(c) : domainStore[d] # NoValue)
            => capabilityStore[c] = Built(c, domainStore) \/ Scheduled(c, r)
-----------------------------------------------------------------------------
(***************************************************************************)
(* The CapabilityStore has no mutex.  While all the capabilities of the    *)
(* product rest on the data of one route, as printer_a's do, only one      *)
(* CapabilityWorker is ever inside it: the other routes' events concern no *)
(* capability, and Evaluate never reaches the store.                       *)
(***************************************************************************)
InCapabilityStore(r) ==
    \/ capabilityPc[r] = "evaluate" /\ targets[r] # <<>>
    \/ capabilityPc[r] = "keep"

OneThreadInCapabilityStore ==
    \A r, s \in Routes :
        InCapabilityStore(r) /\ InCapabilityStore(s) => r = s
=============================================================================
