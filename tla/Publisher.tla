----------------------------- MODULE Publisher -----------------------------
(***************************************************************************)
(* From a queued notification to the subscribers: RIM_Subscribe, the       *)
(* PublisherWorker with its rate limiter and its periodic conditions, the  *)
(* mailboxes, and the CallbackWorker (one thread, as RIM_Start runs it).   *)
(*                                                                         *)
(* A subscriber stands for one RIM_Subscribe call and for the id that      *)
(* CreateSubscriptionId gives it.  Time is counted in ticks.  A step is    *)
(* one critical section of the code, or a reading of the clock outside of  *)
(* one: the clock and every other thread may move between the limiter's    *)
(* time stamp and the choice of recipients, between Find and that choice,  *)
(* and between RIM_Subscribe's reading of the clock and Register.          *)
(*                                                                         *)
(* Four revisions are modelled: "top" (core/ and products/), "755"         *)
(* (Rev755_FW/RIManager), "0818" and "0820" (old_0818, old_0820).  The two *)
(* old ones have RIM_Unsubscribe, and a limiter that tells targets apart   *)
(* by their number only, so that a data item and a capability may share an *)
(* entry.  The old code is older than the facades.                         *)
(***************************************************************************)
EXTENDS QueuePolicies, FiniteSets

CONSTANTS
    Targets,
    TargetId,         \* the number of a target, unique among targets of a type
    Routed,           \* targets that ResolveRoute finds a route for
    Compression,      \* RouteDefinition::compressionPolicy of a target
    MinimumInterval,  \* RouteDefinition::minimumNotifyIntervalMs of a target
    Subscribers,
    Plans,            \* what may be asked of which revision, see Init
    MailboxLimit,     \* SubscriberMailbox::maxSize_
    Never,            \* "no such time"
    MaxDelivered      \* bound of the history delivered, which stays there

Methods  == {"Mailbox", "Callback", "Custom"}
Triggers == {"OnChange", "Periodic"}

AllRevisions == {"top", "755", "0818", "0820"}
Old          == {"0818", "0820"}

(***************************************************************************)
(* A plan: the revision, the RI_SUBSCRIPTION_REQUEST of each of some       *)
(* subscribers, and bounds on the changes of each target and on the time.  *)
(***************************************************************************)
IsPlan(p) ==
    /\ p.revision \in AllRevisions
    /\ DOMAIN p.request \subseteq Subscribers
    /\ \A s \in DOMAIN p.request :
          p.request[s] \in [target : Targets, method : Methods,
                           trigger : Triggers, interval : Nat]
    /\ p.changes \in [Targets -> Nat]
    /\ p.time \in Nat

ASSUME PublisherAssumption ==
    /\ IsFiniteSet(Subscribers)
    /\ Routed \subseteq Targets
    /\ Compression \in [Targets -> CompressionPolicies]
    /\ MinimumInterval \in [Targets -> Nat]
    /\ \A p \in Plans : IsPlan(p)
    /\ TargetId \in [Targets -> Nat]
    /\ MailboxLimit \in Nat \ {0}
    /\ Never \notin Nat \cup Targets \cup Subscribers
    /\ MaxDelivered \in Nat

VARIABLES
    plan,             \* the plan of this behaviour
    now,              \* steady_clock
    publisherQueue,   \* PublisherInputQueue
    publisherPc,      \* where the PublisherWorker thread is
    message,          \* the NotificationMessage being delivered
    recipients,       \* subscriptions it is still to be delivered to
    due,              \* periodic conditions found due, not yet processed
    lastNotifyTimes,  \* NotificationRateLimiter, by LimiterKey
    subscribePc,      \* how far a RIM_Subscribe or RIM_Unsubscribe call is
    subscriptions,    \* SubscriptionStore, in registration order
    nextNotifyTime,   \* PeriodicNotifyManager::conditions_
    callbacks,        \* CallbackSubscriptionRegistry::notifications_
    mailboxes,        \* SubscriberMailboxManager: triggers of queued messages
    callbackQueue,    \* CallbackQueue: [id, trigger]
    callbackPc,       \* where the CallbackWorker thread is
    calling,          \* the CallbackNotification it holds
    version,          \* history: changes of a target so far
    told,             \* history: the version a subscriber was last told of
    suppressedAt,     \* history: when the limiter last held back a change of a
                      \* target, since it last let one pass
    storedAt,         \* history: when a subscription entered the store
    scheduledAt,      \* the clock its RIM_Subscribe read for the condition
    chosenAt,         \* history: the limiter's time stamp of the first change
                      \* that a subscription was chosen for
    passedAt,         \* history: when it last let a change of a target pass
    delivered,        \* history: notifications Notify attempted for a subscriber
    lateCalls         \* history: callbacks called after RIM_Unsubscribe returned

workerVars  == <<publisherPc, message, recipients, due, lastNotifyTimes>>
callbackVars == <<callbackPc, calling>>
registryVars == <<subscribePc, subscriptions, nextNotifyTime, callbacks>>
limiterHistory == <<suppressedAt, passedAt>>
timeHistory == <<storedAt, scheduledAt, chosenAt>>
historyVars == <<told, limiterHistory, timeHistory, delivered, lateCalls>>
vars == <<plan, now, publisherQueue, workerVars, registryVars, mailboxes, callbackQueue,
          callbackVars, version, historyVars>>

NoMessage == [target |-> Never, trigger |-> Never]
NoCall    == [id |-> Never, trigger |-> Never]

\* NotificationTarget of a revision's limiter: the number, or all of it.
LimiterKey(t) == IF plan.revision \in Old THEN TargetId[t] ELSE t

LimiterKeys == Targets \cup {TargetId[t] : t \in Targets}

Init ==
    /\ plan \in Plans
    /\ now = 0
    /\ publisherQueue = <<>>
    /\ publisherPc = "wait"
    /\ message = NoMessage
    /\ recipients = <<>>
    /\ due = <<>>
    /\ lastNotifyTimes = [k \in LimiterKeys |-> Never]
    /\ subscribePc = [s \in Subscribers |-> "store"]
    /\ subscriptions = <<>>
    /\ nextNotifyTime = [s \in Subscribers |-> Never]
    /\ callbacks = {}
    /\ mailboxes = [s \in Subscribers |-> <<>>]
    /\ callbackQueue = <<>>
    /\ callbackPc = "wait"
    /\ calling = NoCall
    /\ version = [t \in Targets |-> 0]
    /\ told = [s \in Subscribers |-> 0]
    /\ suppressedAt = [t \in Targets |-> Never]
    /\ passedAt = [t \in Targets |-> Never]
    /\ storedAt = [s \in Subscribers |-> Never]
    /\ scheduledAt = [s \in Subscribers |-> Never]
    /\ chosenAt = [s \in Subscribers |-> Never]
    /\ delivered = [s \in Subscribers |-> 0]
    /\ lateCalls = [s \in Subscribers |-> 0]
-----------------------------------------------------------------------------
Tick ==
    /\ now < plan.time
    /\ now' = now + 1
    /\ UNCHANGED <<plan, publisherQueue, workerVars, registryVars, mailboxes, callbackQueue,
                   callbackVars, version, historyVars>>

(***************************************************************************)
(* A CapabilityWorker has stored a change of t and pushes its notification *)
(* (module Pipeline).                                                      *)
(***************************************************************************)
Changed(t) ==
    /\ version[t] < plan.changes[t]
    /\ version' = [version EXCEPT ![t] = @ + 1]
    /\ publisherQueue' = PriorityCompressionInsert(publisherQueue,
          [target |-> t, priority |-> Low, compression |-> Compression[t]])
    /\ UNCHANGED <<plan, now, workerVars, registryVars, mailboxes, callbackQueue,
                   callbackVars, historyVars>>
-----------------------------------------------------------------------------
(***************************************************************************)
(* RIM_Subscribe, on an application thread.  The subscription is in the    *)
(* store, and can be notified, before its periodic condition and its       *)
(* callback are registered.                                                *)
(***************************************************************************)
AfterStore(s) ==
    CASE plan.request[s].trigger = "Periodic" -> "periodic"
      [] plan.request[s].trigger # "Periodic" /\ plan.request[s].method = "Callback" -> "callback"
      [] OTHER -> "return"

AfterPeriodic(s) == IF plan.request[s].method = "Callback" THEN "callback" ELSE "return"

SubscribeStore(s) ==
    /\ s \in DOMAIN plan.request
    /\ subscribePc[s] = "store"
    /\ subscriptions' = Append(subscriptions, s)
    /\ storedAt' = [storedAt EXCEPT ![s] = now]
    /\ subscribePc' = [subscribePc EXCEPT ![s] = AfterStore(s)]
    /\ UNCHANGED <<plan, now, publisherQueue, workerVars, nextNotifyTime, callbacks, mailboxes,
                   callbackQueue, callbackVars, version, told, limiterHistory, scheduledAt,
                   chosenAt, delivered, lateCalls>>

SubscribeReadClock(s) ==
    /\ subscribePc[s] = "periodic"
    /\ scheduledAt' = [scheduledAt EXCEPT ![s] = now]
    /\ subscribePc' = [subscribePc EXCEPT ![s] = "condition"]
    /\ UNCHANGED <<plan, now, publisherQueue, workerVars, subscriptions, nextNotifyTime,
                   callbacks, mailboxes, callbackQueue, callbackVars, version, told,
                   limiterHistory, storedAt, chosenAt, delivered, lateCalls>>

SubscribePeriodic(s) ==
    /\ subscribePc[s] = "condition"
    /\ nextNotifyTime' = [nextNotifyTime EXCEPT ![s] = scheduledAt[s] + plan.request[s].interval]
    /\ subscribePc' = [subscribePc EXCEPT ![s] = AfterPeriodic(s)]
    /\ UNCHANGED <<plan, now, publisherQueue, workerVars, subscriptions, callbacks, mailboxes,
                   callbackQueue, callbackVars, version, historyVars>>

SubscribeCallback(s) ==
    /\ subscribePc[s] = "callback"
    /\ callbacks' = callbacks \cup {s}
    /\ subscribePc' = [subscribePc EXCEPT ![s] = "return"]
    /\ UNCHANGED <<plan, now, publisherQueue, workerVars, subscriptions, nextNotifyTime, mailboxes,
                   callbackQueue, callbackVars, version, historyVars>>

\* The call returns and the subscriber reads the value it subscribed to.
SubscribeReturn(s) ==
    /\ subscribePc[s] = "return"
    /\ subscribePc' = [subscribePc EXCEPT ![s] = "subscribed"]
    /\ told' = [told EXCEPT ![s] = version[plan.request[s].target]]
    /\ UNCHANGED <<plan, now, publisherQueue, workerVars, subscriptions, nextNotifyTime, callbacks,
                   mailboxes, callbackQueue, callbackVars, version, limiterHistory, timeHistory,
                   delivered, lateCalls>>

\* RIM_GetNotification with a message waiting; the subscriber reads the value.
GetNotification(s) ==
    /\ subscribePc[s] \in {"subscribed", "unsubscribed"}
    /\ mailboxes[s] # <<>>
    /\ mailboxes' = [mailboxes EXCEPT ![s] = Tail(@)]
    /\ told' = [told EXCEPT ![s] = version[plan.request[s].target]]
    /\ UNCHANGED <<plan, now, publisherQueue, workerVars, registryVars, callbackQueue,
                   callbackVars, version, limiterHistory, timeHistory,
                   delivered, lateCalls>>

Subscribe(s) ==
    \/ SubscribeStore(s)
    \/ SubscribeReadClock(s)
    \/ SubscribePeriodic(s)
    \/ SubscribeCallback(s)
    \/ SubscribeReturn(s)

(***************************************************************************)
(* RIM_Unsubscribe of the old revisions: four tables, one lock each.       *)
(***************************************************************************)
\* Mutant: the callback stays registered.
UnsubscribeKeepsCallback(s) ==
    /\ subscribePc[s] = "subscribed"
    /\ subscribePc' = [subscribePc EXCEPT ![s] = "forgetSubscription"]
    /\ UNCHANGED <<plan, now, publisherQueue, workerVars, callbacks, subscriptions,
                   nextNotifyTime, mailboxes, callbackQueue, callbackVars, version,
                   historyVars>>

UnsubscribeCallback(s) ==
    /\ subscribePc[s] = "subscribed"
    /\ callbacks' = callbacks \ {s}
    /\ subscribePc' = [subscribePc EXCEPT ![s] = "forgetSubscription"]
    /\ UNCHANGED <<plan, now, publisherQueue, workerVars, subscriptions, nextNotifyTime,
                   mailboxes, callbackQueue, callbackVars, version, historyVars>>

UnsubscribeStore(s) ==
    /\ subscribePc[s] = "forgetSubscription"
    /\ subscriptions' = EraseFirst(subscriptions,
                                    {i \in DOMAIN subscriptions : subscriptions[i] = s})
    /\ subscribePc' = [subscribePc EXCEPT ![s] = "forgetCondition"]
    /\ UNCHANGED <<plan, now, publisherQueue, workerVars, nextNotifyTime, callbacks,
                   mailboxes, callbackQueue, callbackVars, version, historyVars>>

UnsubscribePeriodic(s) ==
    /\ subscribePc[s] = "forgetCondition"
    /\ nextNotifyTime' = [nextNotifyTime EXCEPT ![s] = Never]
    /\ subscribePc' = [subscribePc EXCEPT ![s] = "forgetMailbox"]
    /\ UNCHANGED <<plan, now, publisherQueue, workerVars, subscriptions, callbacks,
                   mailboxes, callbackQueue, callbackVars, version, historyVars>>

\* RemoveMailbox; a notification under way makes an empty one again.
UnsubscribeMailbox(s) ==
    /\ subscribePc[s] = "forgetMailbox"
    /\ mailboxes' = [mailboxes EXCEPT ![s] = <<>>]
    /\ subscribePc' = [subscribePc EXCEPT ![s] = "unsubscribed"]
    /\ UNCHANGED <<plan, now, publisherQueue, workerVars, subscriptions, nextNotifyTime,
                   callbacks, callbackQueue, callbackVars, version, historyVars>>

Unsubscribe(s) ==
    \/ UnsubscribeCallback(s)
    \/ UnsubscribeStore(s)
    \/ UnsubscribePeriodic(s)
    \/ UnsubscribeMailbox(s)
-----------------------------------------------------------------------------
(***************************************************************************)
(* PublisherWorker.  Every turn of its loop takes one notification, if one *)
(* arrives within 100 ms, and then serves the periodic conditions.         *)
(***************************************************************************)
PublisherPop ==
    /\ publisherPc = "wait"
    /\ publisherQueue # <<>>
    /\ message' = [target |-> Head(publisherQueue).target, trigger |-> "OnChange"]
    /\ publisherQueue' = Tail(publisherQueue)
    /\ publisherPc' = "publish"
    /\ UNCHANGED <<plan, now, recipients, due, lastNotifyTimes, registryVars, mailboxes,
                   callbackQueue, callbackVars, version, historyVars>>

\* Mutant: periodic conditions are served after a notification only.
PublisherTimeoutWaitsOn ==
    /\ publisherPc = "wait"
    /\ publisherQueue = <<>>
    /\ publisherPc' = "wait"
    /\ UNCHANGED <<plan, now, publisherQueue, message, recipients, due, lastNotifyTimes,
                   registryVars, mailboxes, callbackQueue, callbackVars, version, historyVars>>

PublisherTimeout ==
    /\ publisherPc = "wait"
    /\ publisherQueue = <<>>
    /\ publisherPc' = "periodic"
    /\ UNCHANGED <<plan, now, publisherQueue, message, recipients, due, lastNotifyTimes,
                   registryVars, mailboxes, callbackQueue, callbackVars, version, historyVars>>

\* Mutant: the interval must be exceeded.
ShouldNotifyLater(t) ==
    lastNotifyTimes[LimiterKey(t)] # Never =>
        now - lastNotifyTimes[LimiterKey(t)] > MinimumInterval[t]

\* NotificationRateLimiter::ShouldNotify, for a target that has a route.
ShouldNotify(t) ==
    lastNotifyTimes[LimiterKey(t)] # Never =>
        now - lastNotifyTimes[LimiterKey(t)] >= MinimumInterval[t]

\* SubscriptionStore::GetSubscriptions: the one list of the subscriptions that
\* match, in registration order.
GetSubscriptions(t, trigger) ==
    LET matching == {s \in ToSet(subscriptions) :
                        plan.request[s].target = t /\ plan.request[s].trigger = trigger}
        Before(s, u) == \E i, j \in DOMAIN subscriptions :
                           i < j /\ subscriptions[i] = s /\ subscriptions[j] = u
    IN  {list \in SetToSeqs(matching) :
            \A i, j \in DOMAIN list : i < j => Before(list[i], list[j])}

\* Mutant: the limiter remembers the first notification, not the last one.
PublishChangeKeepsTime ==
    LET t == message.target
    IN  /\ publisherPc = "publish"
        /\ t \in Routed
        /\ ShouldNotify(t)
        /\ lastNotifyTimes' = [lastNotifyTimes EXCEPT ![LimiterKey(t)] =
                                   IF @ = Never THEN now ELSE @]
        /\ suppressedAt' = [suppressedAt EXCEPT ![t] = Never]
        /\ passedAt' = [passedAt EXCEPT ![t] = now]
        /\ publisherPc' = "choose"
        /\ UNCHANGED <<plan, now, publisherQueue, message, recipients, due, registryVars,
                       mailboxes, callbackQueue, callbackVars, version, told, timeHistory,
                       delivered, lateCalls>>

\* PublishManager::Publish of a change that the limiter lets pass ...
PublishChange ==
    LET t == message.target
    IN  /\ publisherPc = "publish"
        /\ t \in Routed
        /\ ShouldNotify(t)
        /\ lastNotifyTimes' = [lastNotifyTimes EXCEPT ![LimiterKey(t)] = now]
        /\ suppressedAt' = [suppressedAt EXCEPT ![t] = Never]
        /\ passedAt' = [passedAt EXCEPT ![t] = now]
        /\ publisherPc' = "choose"
        /\ UNCHANGED <<plan, now, publisherQueue, message, recipients, due, registryVars,
                       mailboxes, callbackQueue, callbackVars, version, told, timeHistory,
                       delivered, lateCalls>>

\* ... and of one that is not: no route, or too soon after the last one.
SuppressChange ==
    LET t == message.target
    IN  /\ publisherPc = "publish"
        /\ ~(t \in Routed /\ ShouldNotify(t))
        /\ suppressedAt' = [suppressedAt EXCEPT ![t] = now]
        /\ UNCHANGED passedAt
        /\ message' = NoMessage
        /\ publisherPc' = "periodic"
        /\ UNCHANGED <<plan, now, publisherQueue, recipients, due, lastNotifyTimes, registryVars,
                       mailboxes, callbackQueue, callbackVars, version, told, timeHistory,
                       delivered, lateCalls>>

(***************************************************************************)
(* ChangeNotifyManager::Notify takes the list of whoever is subscribed by  *)
(* now, later than the limiter's time stamp or the Find that led here.     *)
(***************************************************************************)
ChooseRecipients ==
    /\ publisherPc = "choose"
    /\ recipients' \in GetSubscriptions(message.target, message.trigger)
    /\ chosenAt' = [s \in Subscribers |->
          IF message.trigger = "OnChange" /\ Contains(recipients', s) /\ chosenAt[s] = Never
          THEN passedAt[message.target] ELSE chosenAt[s]]
    /\ publisherPc' = "deliver"
    /\ UNCHANGED <<plan, now, publisherQueue, message, due, lastNotifyTimes, registryVars,
                   mailboxes, callbackQueue, callbackVars, version, told, limiterHistory,
                   storedAt, scheduledAt, delivered, lateCalls>>

(***************************************************************************)
(* ChangeNotifyManager::Notify, one subscription of its list.  A full      *)
(* mailbox drops the new message.  No custom handler is ever installed, so *)
(* a Custom subscription gets nothing.                                     *)
(***************************************************************************)
Deliver ==
    LET s == Head(recipients)
    IN  /\ publisherPc = "deliver"
        /\ recipients # <<>>
        /\ mailboxes' =
              IF plan.request[s].method = "Mailbox" /\ Len(mailboxes[s]) < MailboxLimit
              THEN [mailboxes EXCEPT ![s] = Append(@, message.trigger)] ELSE mailboxes
        /\ callbackQueue' =
              IF plan.request[s].method = "Callback"
              THEN FifoInsert(callbackQueue, [id |-> s, trigger |-> message.trigger])
              ELSE callbackQueue
        /\ delivered' = [delivered EXCEPT ![s] = IF @ < MaxDelivered THEN @ + 1 ELSE @]
        /\ recipients' = Tail(recipients)
        /\ UNCHANGED <<plan, now, publisherQueue, publisherPc, message, due, lastNotifyTimes,
                       registryVars, callbackVars, version, told, limiterHistory,
                       timeHistory, lateCalls>>

\* Mutant: the next time is counted from now.
DeliverEndDrifts ==
    /\ publisherPc = "deliver"
    /\ recipients = <<>>
    /\ IF message.trigger = "Periodic"
       THEN /\ nextNotifyTime' =
                  [nextNotifyTime EXCEPT ![Head(due)] =
                      IF @ = Never THEN @ ELSE now + plan.request[Head(due)].interval]
            /\ due' = Tail(due)
            /\ publisherPc' = IF Tail(due) = <<>> THEN "wait" ELSE "due"
       ELSE /\ publisherPc' = "periodic"
            /\ UNCHANGED <<nextNotifyTime, due>>
    /\ message' = NoMessage
    /\ UNCHANGED <<plan, now, publisherQueue, recipients, lastNotifyTimes, subscribePc,
                   subscriptions, callbacks, mailboxes, callbackQueue, callbackVars,
                   version, historyVars>>

\* Notify is done; after a periodic publish, UpdateNextTime of its condition,
\* if it is still registered.
DeliverEnd ==
    /\ publisherPc = "deliver"
    /\ recipients = <<>>
    /\ IF message.trigger = "Periodic"
       THEN /\ nextNotifyTime' =
                  [nextNotifyTime EXCEPT ![Head(due)] =
                      IF @ = Never THEN @ ELSE @ + plan.request[Head(due)].interval]
            /\ due' = Tail(due)
            /\ publisherPc' = IF Tail(due) = <<>> THEN "wait" ELSE "due"
       ELSE /\ publisherPc' = "periodic"
            /\ UNCHANGED <<nextNotifyTime, due>>
    /\ message' = NoMessage
    /\ UNCHANGED <<plan, now, publisherQueue, recipients, lastNotifyTimes, subscribePc,
                   subscriptions, callbacks, mailboxes, callbackQueue, callbackVars,
                   version, historyVars>>

\* Mutant: a condition that falls due within a tick is served already.
GetDueAhead ==
    /\ publisherPc = "periodic"
    /\ due' \in SetToSeqs({s \in Subscribers :
                             nextNotifyTime[s] # Never /\ nextNotifyTime[s] <= now + 1})
    /\ publisherPc' = IF due' = <<>> THEN "wait" ELSE "due"
    /\ UNCHANGED <<plan, now, publisherQueue, message, recipients, lastNotifyTimes, registryVars,
                   mailboxes, callbackQueue, callbackVars, version, historyVars>>

\* GetDueConditions: in the order of an unordered_map.
GetDueConditions ==
    /\ publisherPc = "periodic"
    /\ due' \in SetToSeqs({s \in Subscribers :
                             nextNotifyTime[s] # Never /\ nextNotifyTime[s] <= now})
    /\ publisherPc' = IF due' = <<>> THEN "wait" ELSE "due"
    /\ UNCHANGED <<plan, now, publisherQueue, message, recipients, lastNotifyTimes, registryVars,
                   mailboxes, callbackQueue, callbackVars, version, historyVars>>

\* A due condition publishes its target to every periodic subscription of it,
\* unless Find does not find its own any more.
PublishPeriodic ==
    LET s == Head(due)
        t == plan.request[s].target
    IN  /\ publisherPc = "due"
        /\ IF Contains(subscriptions, s)
           THEN /\ message' = [target |-> t, trigger |-> "Periodic"]
                /\ publisherPc' = "choose"
                /\ UNCHANGED due
           ELSE /\ due' = Tail(due)
                /\ publisherPc' = IF Tail(due) = <<>> THEN "wait" ELSE "due"
                /\ UNCHANGED message
        /\ UNCHANGED <<plan, now, publisherQueue, recipients, lastNotifyTimes, registryVars,
                       mailboxes, callbackQueue, callbackVars, version, historyVars>>

PublishManager == PublishChange \/ SuppressChange \/ PublishPeriodic

ChangeNotifyManager == ChooseRecipients \/ Deliver

PeriodicNotifyManager == GetDueConditions \/ DeliverEnd

PublisherWorker ==
    \/ PublisherPop
    \/ PublisherTimeout
    \/ PublishManager
    \/ ChangeNotifyManager
    \/ PeriodicNotifyManager
-----------------------------------------------------------------------------
CallbackPop ==
    /\ callbackPc = "wait"
    /\ callbackQueue # <<>>
    /\ calling' = Head(callbackQueue)
    /\ callbackQueue' = Tail(callbackQueue)
    /\ callbackPc' = "lookup"
    /\ UNCHANGED <<plan, now, publisherQueue, workerVars, registryVars, mailboxes, version, historyVars>>

\* Mutant: a notification without a callback ends the loop.
CallbackLookupLeavesLoop ==
    /\ callbackPc = "lookup"
    /\ IF calling.id \in callbacks
       THEN /\ callbackPc' = "call"
            /\ UNCHANGED calling
       ELSE /\ callbackPc' = "ended"
            /\ calling' = NoCall
    /\ UNCHANGED <<plan, now, publisherQueue, workerVars, registryVars, mailboxes, callbackQueue,
                   version, historyVars>>

\* CallbackSubscriptionRegistry::Notify copies the callback under its lock ...
CallbackLookup ==
    /\ callbackPc = "lookup"
    /\ IF calling.id \in callbacks
       THEN /\ callbackPc' = "call"
            /\ UNCHANGED calling
       ELSE /\ callbackPc' = "wait"
            /\ calling' = NoCall
    /\ UNCHANGED <<plan, now, publisherQueue, workerVars, registryVars, mailboxes, callbackQueue,
                   version, historyVars>>

\* ... and calls it outside; the subscriber reads the value.
CallbackCall ==
    /\ callbackPc = "call"
    /\ told' = [told EXCEPT ![calling.id] = version[plan.request[calling.id].target]]
    /\ lateCalls' = [lateCalls EXCEPT ![calling.id] =
          IF subscribePc[calling.id] = "unsubscribed" THEN @ + 1 ELSE @]
    /\ calling' = NoCall
    /\ callbackPc' = "wait"
    /\ UNCHANGED <<plan, now, publisherQueue, workerVars, registryVars, mailboxes, callbackQueue,
                   version, limiterHistory, timeHistory,
                   delivered>>

CallbackWorker == CallbackPop \/ CallbackLookup \/ CallbackCall
-----------------------------------------------------------------------------
(***************************************************************************)
(* What the revisions are made of.  Of Rev755_FW and of the old revisions  *)
(* each part is named, since each has code of its own.                     *)
(***************************************************************************)
Top == plan.revision = "top"

SubscribeTop(s)    == Top /\ (Subscribe(s) \/ GetNotification(s))
PublisherTop       == Top /\ PublisherWorker
CallbacksTop       == Top /\ CallbackWorker

Is755 == plan.revision = "755"

Subscribe755(s)          == Is755 /\ Subscribe(s)
GetNotification755(s)    == Is755 /\ GetNotification(s)
PublisherWorker755       == Is755 /\ (PublisherPop \/ PublisherTimeout)
PublishManager755        == Is755 /\ PublishManager
ChangeNotifyManager755   == Is755 /\ ChangeNotifyManager
PeriodicNotifyManager755 == Is755 /\ PeriodicNotifyManager
CallbackPop755           == Is755 /\ CallbackPop
CallbackRegistry755      == Is755 /\ (CallbackLookup \/ CallbackCall)

Publisher755 ==
    PublisherWorker755 \/ PublishManager755 \/ ChangeNotifyManager755
        \/ PeriodicNotifyManager755

Callbacks755 == CallbackPop755 \/ CallbackRegistry755

Is0818 == plan.revision = "0818"

Subscribe0818(s)          == Is0818 /\ Subscribe(s)
GetNotification0818(s)    == Is0818 /\ GetNotification(s)
Unsubscribe0818(s)        == Is0818 /\ Unsubscribe(s)
PublisherWorker0818       == Is0818 /\ (PublisherPop \/ PublisherTimeout)
PublishManager0818        == Is0818 /\ PublishManager
ChangeNotifyManager0818   == Is0818 /\ ChangeNotifyManager
PeriodicNotifyManager0818 == Is0818 /\ PeriodicNotifyManager
CallbackPop0818           == Is0818 /\ CallbackPop
CallbackRegistry0818      == Is0818 /\ (CallbackLookup \/ CallbackCall)

Publisher0818 ==
    PublisherWorker0818 \/ PublishManager0818 \/ ChangeNotifyManager0818
        \/ PeriodicNotifyManager0818

Callbacks0818 == CallbackPop0818 \/ CallbackRegistry0818

Is0820 == plan.revision = "0820"

Subscribe0820(s)          == Is0820 /\ Subscribe(s)
GetNotification0820(s)    == Is0820 /\ GetNotification(s)
Unsubscribe0820(s)        == Is0820 /\ Unsubscribe(s)
PublisherWorker0820       == Is0820 /\ (PublisherPop \/ PublisherTimeout)
PublishManager0820        == Is0820 /\ PublishManager
ChangeNotifyManager0820   == Is0820 /\ ChangeNotifyManager
PeriodicNotifyManager0820 == Is0820 /\ PeriodicNotifyManager
CallbackPop0820           == Is0820 /\ CallbackPop
CallbackRegistry0820      == Is0820 /\ (CallbackLookup \/ CallbackCall)

Publisher0820 ==
    PublisherWorker0820 \/ PublishManager0820 \/ ChangeNotifyManager0820
        \/ PeriodicNotifyManager0820

Callbacks0820 == CallbackPop0820 \/ CallbackRegistry0820

Application(s) ==
    \/ SubscribeTop(s)
    \/ Subscribe755(s)  \/ GetNotification755(s)
    \/ Subscribe0818(s) \/ GetNotification0818(s) \/ Unsubscribe0818(s)
    \/ Subscribe0820(s) \/ GetNotification0820(s) \/ Unsubscribe0820(s)

Next ==
    \/ Tick
    \/ \E t \in Targets : Changed(t)
    \/ \E s \in Subscribers : Application(s)
    \/ PublisherTop \/ Publisher755 \/ Publisher0818 \/ Publisher0820
    \/ CallbacksTop \/ Callbacks755 \/ Callbacks0818 \/ Callbacks0820

Spec == Init /\ [][Next]_vars

(***************************************************************************)
(* Both threads run, and the callbacks they call return.  Nothing is       *)
(* assumed of the application, of the data path or of the clock.           *)
(***************************************************************************)
FairSpec == Spec /\ WF_vars(PublisherWorker) /\ WF_vars(CallbackWorker)
=============================================================================
