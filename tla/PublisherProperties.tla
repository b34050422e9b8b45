------------------------ MODULE PublisherProperties ------------------------
(***************************************************************************)
(* What subscribers may rely on, whatever the order in which the           *)
(* application, the publisher thread, the callback thread and the clock    *)
(* take their steps.                                                       *)
(***************************************************************************)
EXTENDS Publisher

TargetOf(s)   == plan.request[s].target
TriggerOf(s)  == plan.request[s].trigger
MethodOf(s)   == plan.request[s].method
IntervalOf(s) == plan.request[s].interval

\* The subscribers of this behaviour.
Asking == DOMAIN plan.request

-----------------------------------------------------------------------------
\* Something is still to make subscriber s look at its target.
OnItsWay(s) ==
    \/ HoldsTarget(publisherQueue, TargetOf(s))
    \/ /\ message.trigger = "OnChange"
       /\ \/ publisherPc \in {"publish", "choose"} /\ message.target = TargetOf(s)
          \/ Contains(recipients, s)
    \/ mailboxes[s] # <<>>
    \/ HoldsId(callbackQueue, s)
    \/ calling.id = s

(***************************************************************************)
(* The last change of t was held back, within the interval after a change  *)
(* that was let pass: one of t, or in the old revisions of a target that   *)
(* has the same number.                                                    *)
(***************************************************************************)
HeldBack(t) ==
    /\ suppressedAt[t] # Never
    /\ \E u \in Targets :
          /\ LimiterKey(u) = LimiterKey(t)
          /\ passedAt[u] # Never
          /\ suppressedAt[t] - passedAt[u] < MinimumInterval[t]

(***************************************************************************)
(* A subscriber whose RIM_Subscribe has returned hears of every change     *)
(* made after that: whenever it has not looked since the last change,      *)
(* something on its way will make it look.  A mailbox that overflowed is   *)
(* no exception, since what fills it is unread; a callback looked up       *)
(* before it was registered is none either.  The one exception is the rate *)
(* limiter: a change it holds back is not announced later.                 *)
(***************************************************************************)
InformedUnlessLimited ==
    \A s \in Asking :
        /\ subscribePc[s] = "subscribed"
        /\ TriggerOf(s) = "OnChange"
        /\ MethodOf(s) # "Custom"
        /\ TargetOf(s) \in Routed
        /\ told[s] # version[TargetOf(s)]
        => OnItsWay(s) \/ HeldBack(TargetOf(s))

(***************************************************************************)
(* However often a target changes and however late the publisher delivers, *)
(* the n-th notification of a change subscription comes no sooner than     *)
(* n - 1 times minimumNotifyIntervalMs after the limiter's time stamp of   *)
(* its first one.  That time stamp may be older than the subscription,     *)
(* which RIM_Subscribe may store before the recipients are chosen: counted *)
(* from when it was stored, a second notification may come at once, and    *)
(* only every further one is paid for with an interval.                    *)
(***************************************************************************)
NotifiedAtLimitedRate ==
    \A s \in Asking :
        LET minimum == MinimumInterval[TargetOf(s)]
        IN  TriggerOf(s) = "OnChange" /\ delivered[s] > 0 =>
                /\ (delivered[s] - 1) * minimum <= now - chosenAt[s]
                /\ (delivered[s] - 2) * minimum <= now - storedAt[s]

\* No other periodic subscription publishes the target of s.
AloneOnTarget(s) ==
    \A u \in Asking \ {s} :
        ~(TriggerOf(u) = "Periodic" /\ TargetOf(u) = TargetOf(s))

(***************************************************************************)
(* A periodic subscription that shares its target with no other one is     *)
(* never notified early: its k-th notification comes no sooner than k      *)
(* intervals after it was scheduled, through every catch-up burst of a     *)
(* publisher that fell behind.                                             *)
(***************************************************************************)
PeriodicNeverEarly ==
    \A s \in Asking :
        TriggerOf(s) = "Periodic" /\ AloneOnTarget(s) /\ delivered[s] > 0 =>
            /\ scheduledAt[s] # Never
            /\ delivered[s] * IntervalOf(s) <= now - scheduledAt[s]

(***************************************************************************)
(* Periodic notifications do not drift: a condition's next time stays on   *)
(* the grid that starts when it was registered, and a condition belongs to *)
(* a subscription that Find finds, or that is being removed.               *)
(***************************************************************************)
PeriodicOnGrid ==
    \A s \in Asking : nextNotifyTime[s] # Never =>
        /\ Contains(subscriptions, s) \/ subscribePc[s] = "forgetCondition"
        /\ \E k \in 1 .. plan.time + 1 :
              nextNotifyTime[s] = scheduledAt[s] + k * IntervalOf(s)
-----------------------------------------------------------------------------
(***************************************************************************)
(* RIM_Unsubscribe does not wait for the callback thread.  Still, however  *)
(* many notifications are queued for it by then, a subscriber that has     *)
(* unsubscribed is called at most once more, by a call that was about to   *)
(* be made, and nothing is scheduled for it any longer.                    *)
(***************************************************************************)
SilentOnceUnsubscribed ==
    \A s \in Asking : subscribePc[s] = "unsubscribed" =>
        /\ lateCalls[s] + (IF callbackPc = "call" /\ calling.id = s THEN 1 ELSE 0) <= 1
        /\ nextNotifyTime[s] = Never
        /\ ~Contains(subscriptions, s)

(***************************************************************************)
(* A target is held back because of its own notifications only: targets of *)
(* different types that have the same number are independent of each       *)
(* other, as the later revisions' test of NotificationRateLimiter says.    *)
(***************************************************************************)
TargetsAreIndependent ==
    \A t \in Routed : suppressedAt[t] # Never =>
        passedAt[t] # Never /\ suppressedAt[t] - passedAt[t] < MinimumInterval[t]
-----------------------------------------------------------------------------
(***************************************************************************)
(* Every callback subscriber of an unlimited target is told of its last    *)
(* change in the end, also when periodic conditions keep the publisher     *)
(* busy: even one with an interval of 0 ms, which is due in every turn.    *)
(***************************************************************************)
Unlimited(s) ==
    /\ TriggerOf(s) = "OnChange"
    /\ MethodOf(s) = "Callback"
    /\ TargetOf(s) \in Routed
    /\ MinimumInterval[TargetOf(s)] = 0

EventuallyInformed ==
    \A s \in Subscribers :
        []<>(s \in Asking /\ Unlimited(s) /\ subscribePc[s] = "subscribed"
                => told[s] = version[TargetOf(s)])

(***************************************************************************)
(* A periodic condition that is due is served, with no change to publish,  *)
(* and a publisher that fell behind catches up, unless the interval is 0   *)
(* or RIM_Unsubscribe has just taken the subscription away from under it.  *)
(***************************************************************************)
PeriodicCatchesUp ==
    \A s \in Subscribers :
        []<>(/\ nextNotifyTime[s] # Never
             /\ IntervalOf(s) > 0
             /\ subscribePc[s] # "forgetCondition"
             => nextNotifyTime[s] > now)
=============================================================================
