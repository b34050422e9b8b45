------------------------- MODULE PipelineProperties -------------------------
(***************************************************************************)
(* What the data path guarantees.  Every property here is about work that  *)
(* is spread over a queue, the hands of a worker thread and the shared     *)
(* storage, under every interleaving of the threads.                       *)
(***************************************************************************)
EXTENDS Pipeline

DataEvent      == [id : Data, value : Values]
InputEvent     == [id : Data]
PublisherEvent == [target : Items, priority : {Low},
                   compression : CompressionPolicies]

(***************************************************************************)
(* The type of every variable, and what each program point of the two      *)
(* workers holds (DataStoreWorker::Process, CapabilityWorker::Process).    *)
(***************************************************************************)
StoreTypeOK ==
    /\ dispatched \in 0 .. MaxDispatches
    /\ storeQueue \in [Routes -> Seq(DataEvent)]
    /\ storePc \in [Routes -> {"wait", "diff", "store", "push"}]
    /\ storeItem \in [Routes -> DataEvent \cup {NoItem}]
    /\ accepted \in [Data -> Stored]
    /\ \A r \in Routes : storePc[r] # "wait" => storeItem[r] \in DataEvent

CapabilityTypeOK ==
    /\ capabilityQueue \in [Routes -> Seq(InputEvent)]
    /\ capabilityPc \in
          [Routes -> {"wait", "data", "snapshot", "store", "publish"}]
    /\ changedData \in [Routes -> Data \cup {NoData}]
    /\ targets \in [Routes -> Seq(Derived)]
    /\ reads \in [Routes -> Seq(SUBSET Items)]
    /\ snapshot \in [Routes -> [Items -> Stored]]
    /\ newValue \in [Routes -> Stored]
    /\ \A r \in Routes :
          /\ capabilityPc[r] = "data" => changedData[r] \in Data
          /\ capabilityPc[r] \in {"snapshot", "store", "publish"} => targets[r] # <<>>
          /\ capabilityPc[r] = "store" => newValue[r] \in Values

SharedTypeOK ==
    /\ domainStore \in [Items -> Stored]
    /\ publisherQueue \in Seq(PublisherEvent)
    /\ published \in [Items -> Stored]

TypeOK == StoreTypeOK /\ CapabilityTypeOK /\ SharedTypeOK
-----------------------------------------------------------------------------
(***************************************************************************)
(* Everything about a data item is handled by the two workers of its own   *)
(* route, so no two threads ever race for the order of its values.         *)
(***************************************************************************)
OnRoute ==
    \A r \in Routes, d \in Data :
        \/ HoldsId(storeQueue[r], d)
        \/ storeItem[r].id = d
        \/ HoldsId(capabilityQueue[r], d)
        \/ changedData[r] = d
        => RouteOf[d] = r

(***************************************************************************)
(* The last value the application set is never lost and never overtaken by *)
(* an older one, through Buffered and Coalescing store queues, the diff    *)
(* that drops unchanged values, and the store: it is the last one queued   *)
(* for the item, else the one in the DataStoreWorker's hands, else the one *)
(* stored.                                                                 *)
(***************************************************************************)
InHand(d) ==
    LET r == RouteOf[d]
    IN  IF storePc[r] \in {"diff", "store"} /\ storeItem[r].id = d
        THEN storeItem[r].value ELSE domainStore[d]

LastWriteWins ==
    \A d \in Data :
        LET queue == storeQueue[RouteOf[d]]
        IN  /\ \A k \in DOMAIN queue :
                  IsLastOf(queue, d, k) => queue[k].value = accepted[d]
            /\ ~HoldsId(queue, d) => InHand(d) = accepted[d]
-----------------------------------------------------------------------------
\* A store of data item d that no CapabilityWorker has announced yet.
Unannounced(d) ==
    LET r == RouteOf[d]
    IN  \/ storePc[r] = "push" /\ storeItem[r].id = d
        \/ HoldsId(capabilityQueue[r], d)
        \/ capabilityPc[r] = "data" /\ changedData[r] = d

\* A notification of item i is queued, or a worker is bound to queue one.
Pending(i) ==
    \/ HoldsTarget(publisherQueue, i)
    \/ i \in Data /\ Unannounced(i)
    \/ \E r \in Routes : capabilityPc[r] = "publish" /\ Head(targets[r]) = i

(***************************************************************************)
(* No change is swallowed by compression: whenever an item differs from    *)
(* what it was when the publisher last took a notification of it, another  *)
(* notification of it is still to come.                                    *)
(***************************************************************************)
NoChangeSwallowed ==
    \A i \in Items : domainStore[i] # published[i] => Pending(i)

(***************************************************************************)
(* A notification never runs ahead of the data: whatever the publisher can *)
(* be handed has a stored value to be read (store first, then push).       *)
(***************************************************************************)
NotifiedIsReadable == \A i \in Items : Pending(i) => domainStore[i] # NoValue
-----------------------------------------------------------------------------
\* Data items a derived value rests on, and the one route they all come by.
RestsOn(t) ==
    IF t \in Capabilities THEN Required(t)
                          ELSE UNION {Required(c) : c \in Required(t)}

HomeRoute(t, r) == \A d \in RestsOn(t) : RouteOf[d] = r

UpToDate(t) == domainStore[t] = BuiltFrom(t, domainStore)

\* What the snapshot under way has read of t's inputs is still what is stored.
CurrentSoFar(t, r) ==
    \A i \in Required(t) :
        \/ \E k \in DOMAIN reads[r] : i \in reads[r][k]
        \/ snapshot[r][i] = domainStore[i]

\* The worker of route r is going to evaluate t again, from current inputs.
Scheduled(t, r) ==
    \/ \E i \in Required(t) :
          \/ i \in Data /\ Unannounced(i)
          \/ capabilityPc[r] = "publish" /\ Head(targets[r]) = i
    \/ \E k \in 2 .. Len(targets[r]) : targets[r][k] = t
    \/ /\ capabilityPc[r] = "snapshot"
       /\ Head(targets[r]) = t
       /\ CurrentSoFar(t, r)
    \/ /\ capabilityPc[r] = "store"
       /\ Head(targets[r]) = t
       /\ newValue[r] = BuiltFrom(t, domainStore)

(***************************************************************************)
(* A capability or facade whose data all come by one route never stays     *)
(* behind them: if its stored value is not the one its inputs give now,    *)
(* the evaluation that will correct it is already under way.  (A value     *)
(* none of whose inputs was ever stored has not been evaluated at all.)    *)
(***************************************************************************)
NeverLeftStale ==
    \A t \in Derived, r \in Routes :
        HomeRoute(t, r) /\ (\E i \in Required(t) : domainStore[i] # NoValue)
            => UpToDate(t) \/ Scheduled(t, r)
-----------------------------------------------------------------------------
\* The path implements the feed it promises.
Feed == INSTANCE ChangeFeed
        WITH Item <- Items, Value <- Values, Unset <- NoValue,
             value <- domainStore, seen <- published,
             dirty <- {i \in Items : Pending(i)}

(***************************************************************************)
(* Every stored change reaches the publisher exactly as ChangeFeed says.   *)
(***************************************************************************)
FeedsPublisher == Feed!FeedSpec

(***************************************************************************)
(* Once the application stops setting values, every item settles: the last *)
(* value set is stored, every derived value with a home route is the one   *)
(* its inputs give, and the publisher has seen all of it.                  *)
(***************************************************************************)
Settled ==
    /\ \A d \in Data : domainStore[d] = accepted[d]
    /\ \A i \in Items : published[i] = domainStore[i]
    /\ \A t \in Derived : (\E i \in Required(t) : domainStore[i] # NoValue)
                             /\ (\E r \in Routes : HomeRoute(t, r)) => UpToDate(t)

EventuallySettles == <>[]Settled
=============================================================================
