--------------------------- MODULE PublisherProofs ---------------------------
(***************************************************************************)
(* Proofs about the publisher, for every set of subscriptions, targets and *)
(* plans, every interval and any number of changes.                        *)
(*                                                                         *)
(* The five invariants of PublisherProperties follow from one inductive    *)
(* invariant: the types, what the registration of a subscriber has reached *)
(* (RegistryOK), what the publisher thread holds between two steps         *)
(* (WorkerOK), what the callback thread holds (CallbackOK), how the        *)
(* limiter's table relates to what passed it (LimiterOK), and three        *)
(* countings of notifications (RateOK, GridOK, EarlyOK).                   *)
(***************************************************************************)
EXTENDS PublisherProperties, QueueLemmas, FiniteSetTheorems

-----------------------------------------------------------------------------
(* The inductive invariant *)

PublisherEvent == [target : Targets, priority : {Low}, compression : CompressionPolicies]
CallbackEvent  == [id : Subscribers, trigger : Triggers]
Message        == [target : Targets, trigger : Triggers]

\* Where RIM_Subscribe and RIM_Unsubscribe are with a subscriber.
InStore     ==
    {"periodic", "condition", "callback", "return", "subscribed", "forgetSubscription"}
InConditions == {"callback", "return", "subscribed", "forgetSubscription", "forgetCondition"}
SubscribeStates == InStore \cup {"store", "forgetCondition", "forgetMailbox", "unsubscribed"}

WorkerTypeOK ==
    /\ publisherQueue \in Seq(PublisherEvent)
    /\ publisherPc \in {"wait", "publish", "choose", "deliver", "periodic", "due"}
    /\ message \in Message \cup {NoMessage}
    /\ recipients \in Seq(Subscribers)
    /\ due \in Seq(Subscribers)
    /\ lastNotifyTimes \in [LimiterKeys -> Nat \cup {Never}]

RegistryTypeOK ==
    /\ subscribePc \in [Subscribers -> SubscribeStates]
    /\ subscriptions \in Seq(Subscribers)
    /\ nextNotifyTime \in [Subscribers -> Nat \cup {Never}]
    /\ callbacks \subseteq Subscribers

SinkTypeOK ==
    /\ mailboxes \in [Subscribers -> Seq(Triggers)]
    /\ callbackQueue \in Seq(CallbackEvent)
    /\ callbackPc \in {"wait", "lookup", "call"}
    /\ calling \in CallbackEvent \cup {NoCall}

HistoryTypeOK ==
    /\ version \in [Targets -> Nat]
    /\ told \in [Subscribers -> Nat]
    /\ suppressedAt \in [Targets -> Nat \cup {Never}]
    /\ passedAt \in [Targets -> Nat \cup {Never}]
    /\ storedAt \in [Subscribers -> Nat \cup {Never}]
    /\ scheduledAt \in [Subscribers -> Nat \cup {Never}]
    /\ chosenAt \in [Subscribers -> Nat \cup {Never}]
    /\ delivered \in [Subscribers -> Nat]
    /\ lateCalls \in [Subscribers -> Nat]

TypeOK ==
    /\ plan \in Plans /\ now \in 0 .. plan.time
    /\ WorkerTypeOK /\ RegistryTypeOK /\ SinkTypeOK /\ HistoryTypeOK

Distinct(q) == \A i, j \in DOMAIN q : i # j => q[i] # q[j]

(***************************************************************************)
(* What is registered for a subscriber is what its call has come to.       *)
(***************************************************************************)
RegistryOf(s) ==
    /\ subscribePc[s] # "store" =>
          s \in Asking /\ storedAt[s] # Never /\ storedAt[s] <= now
    /\ subscribePc[s] \in {"periodic", "condition"} => TriggerOf(s) = "Periodic"
    /\ Contains(subscriptions, s) <=> subscribePc[s] \in InStore
    /\ nextNotifyTime[s] # Never <=>
          subscribePc[s] \in InConditions /\ TriggerOf(s) = "Periodic"
    /\ subscribePc[s] \notin {"store", "periodic"} /\ TriggerOf(s) = "Periodic" =>
          scheduledAt[s] # Never /\ scheduledAt[s] <= now
    /\ s \in callbacks => subscribePc[s] \in {"return", "subscribed"}
    /\ subscribePc[s] \in {"return", "subscribed"} /\ MethodOf(s) = "Callback" =>
          s \in callbacks

\* The periodic condition of s, if it asks for one, has been registered.
Registered(s) == subscribePc[s] \notin {"store", "periodic", "condition"}

RegistryOK == Distinct(subscriptions) /\ \A s \in Subscribers : RegistryOf(s)

(***************************************************************************)
(* What the publisher thread holds: it delivers to subscriptions that the  *)
(* message is for, and the conditions it found due were due and have been  *)
(* served by nobody else.                                                  *)
(***************************************************************************)
RecipientOK(s) ==
    Contains(recipients, s) =>
        /\ subscribePc[s] # "store"
        /\ TargetOf(s) = message.target
        /\ TriggerOf(s) = message.trigger

DueOK(s) ==
    Contains(due, s) =>
        /\ Registered(s)
        /\ TriggerOf(s) = "Periodic"
        /\ nextNotifyTime[s] # Never => nextNotifyTime[s] <= now

ServingPeriodic == publisherPc \in {"choose", "deliver"} /\ message.trigger = "Periodic"

WorkerOK ==
    /\ publisherPc = "publish" => message.trigger = "OnChange"
    /\ message = NoMessage <=> publisherPc \in {"wait", "periodic", "due"}
    /\ recipients # <<>> => publisherPc = "deliver"
    /\ due # <<>> <=> publisherPc = "due" \/ ServingPeriodic
    /\ ServingPeriodic => message.target = TargetOf(Head(due))
    /\ Distinct(recipients) /\ Distinct(due)
    /\ \A s \in Subscribers : RecipientOK(s) /\ DueOK(s)

(***************************************************************************)
(* The callback thread holds notifications of callback subscribers, and    *)
(* is about to call at most one of a subscriber that has left.             *)
(***************************************************************************)
CallbackFor(s) == s \in Asking /\ MethodOf(s) = "Callback"

LateOK(s) ==
    IF subscribePc[s] = "unsubscribed"
    THEN lateCalls[s] + (IF callbackPc = "call" /\ calling.id = s THEN 1 ELSE 0) <= 1
    ELSE lateCalls[s] = 0

CallbackOK ==
    /\ callbackPc = "wait" <=> calling = NoCall
    /\ calling # NoCall => CallbackFor(calling.id)
    /\ \A k \in DOMAIN callbackQueue : CallbackFor(callbackQueue[k].id)
    /\ \A s \in Subscribers : LateOK(s)

(***************************************************************************)
(* An entry of the limiter is the time a target with its key passed last.  *)
(***************************************************************************)
PassedLast(k) ==
    lastNotifyTimes[k] # Never =>
        \E u \in Targets : LimiterKey(u) = k /\ passedAt[u] = lastNotifyTimes[k]

\* The change that recipients are being chosen for has just passed.
PassedNow ==
    publisherPc = "choose" /\ message.trigger = "OnChange" =>
        /\ passedAt[message.target] # Never
        /\ passedAt[message.target] = lastNotifyTimes[LimiterKey(message.target)]

LimiterOK ==
    /\ \A t \in Targets : /\ passedAt[t] # Never => passedAt[t] <= now
                          /\ suppressedAt[t] # Never => suppressedAt[t] <= now
    /\ \A k \in LimiterKeys : PassedLast(k)

(***************************************************************************)
(* Every notification of a change beyond the first was paid for with an    *)
(* interval of the limiter, counted from the change that the subscription  *)
(* was first chosen for up to the last one let pass; and every one beyond  *)
(* the second with an interval since the subscription was stored.          *)
(***************************************************************************)
LastPass(s) == lastNotifyTimes[LimiterKey(TargetOf(s))]
Minimum(s)  == MinimumInterval[TargetOf(s)]

\* One more notification of s has passed the limiter.
Granted(s) ==
    \/ publisherPc = "choose" /\ message.trigger = "OnChange" /\ message.target = TargetOf(s)
    \/ Contains(recipients, s)

RateOf(s) ==
    TriggerOf(s) = "OnChange" =>
        /\ chosenAt[s] = Never => delivered[s] = 0 /\ ~Contains(recipients, s)
        /\ chosenAt[s] # Never =>
              /\ subscribePc[s] # "store" /\ LastPass(s) # Never
              /\ (delivered[s] - 1) * Minimum(s) <= LastPass(s) - chosenAt[s]
              /\ delivered[s] > 1 =>
                    (delivered[s] - 2) * Minimum(s) <= LastPass(s) - storedAt[s]
              /\ Granted(s) =>
                    /\ delivered[s] * Minimum(s) <= LastPass(s) - chosenAt[s]
                    /\ delivered[s] > 0 =>
                          (delivered[s] - 1) * Minimum(s) <= LastPass(s) - storedAt[s]

RateOK == \A s \in Asking : RateOf(s)

OnGrid(s) ==
    nextNotifyTime[s] # Never =>
        \E k \in 1 .. plan.time + 1 :
            nextNotifyTime[s] = scheduledAt[s] + k * IntervalOf(s)

GridOK == \A s \in Asking : OnGrid(s)

(***************************************************************************)
(* The next time of a condition leaves room for one more notification than *)
(* there have been, unless the one for it has just been delivered.         *)
(***************************************************************************)
Served(s) ==
    /\ publisherPc = "deliver" /\ message.trigger = "Periodic"
    /\ Head(due) = s /\ ~Contains(recipients, s)

EarlyOf(s) ==
    TriggerOf(s) = "Periodic" /\ AloneOnTarget(s) =>
        /\ delivered[s] > 0 =>
              /\ Registered(s)
              /\ delivered[s] * IntervalOf(s) <= now - scheduledAt[s]
        /\ Contains(recipients, s) =>
              (delivered[s] + 1) * IntervalOf(s) <= now - scheduledAt[s]
        /\ nextNotifyTime[s] # Never =>
              (delivered[s] + (IF Served(s) THEN 0 ELSE 1)) * IntervalOf(s)
                  <= nextNotifyTime[s] - scheduledAt[s]

EarlyOK == \A s \in Asking : EarlyOf(s)

CountsOK == RateOK /\ GridOK /\ EarlyOK
IInv == TypeOK /\ RegistryOK /\ WorkerOK /\ CallbackOK /\ LimiterOK /\ PassedNow /\ CountsOK

USE DEF Asking, TargetOf, TriggerOf, MethodOf, IntervalOf, Registered

-----------------------------------------------------------------------------
(* What the proofs need to know of plans, lists and steps *)

\* What a subscriber asks for (RI_SUBSCRIPTION_REQUEST) has the types it should.
LEMMA RequestType ==
    ASSUME plan \in Plans, NEW s \in Asking
    PROVE  /\ s \in Subscribers
           /\ plan.request[s] \in [target : Targets, method : Methods,
                                   trigger : Triggers, interval : Nat]
           /\ MinimumInterval[TargetOf(s)] \in Nat
           /\ plan.time \in Nat
  BY PublisherAssumption DEF IsPlan

\* A limiter has an entry for every target.
LEMMA LimiterKeyType == \A t \in Targets : LimiterKey(t) \in LimiterKeys
  BY DEF LimiterKey, LimiterKeys

\* Never is no time, no target and no subscriber.
LEMMA NeverApart == Never \notin Nat /\ Never \notin Targets /\ Never \notin Subscribers
  BY PublisherAssumption

\* A list made of a finite set has each of its elements once.
LEMMA SetToSeqsProperties ==
    ASSUME NEW S, IsFiniteSet(S), NEW f \in SetToSeqs(S)
    PROVE  /\ f \in Seq(S)
           /\ Distinct(f)
           /\ \A x : Contains(f, x) <=> x \in S
  <1>1. f \in Seq(S) /\ (\A i, j \in DOMAIN f : i # j => f[i] # f[j]) /\ ToSet(f) = S
    BY SetToSeqsLists
  <1>2. QED
    BY <1>1 DEF Distinct, Contains, ToSet

\* The list SubscriptionStore::GetSubscriptions copies.
LEMMA GetSubscriptionsProperties ==
    ASSUME subscriptions \in Seq(Subscribers), NEW t, NEW trigger,
           NEW list \in GetSubscriptions(t, trigger)
    PROVE  /\ list \in Seq(Subscribers)
           /\ Distinct(list)
           /\ \A s : Contains(list, s) <=>
                 /\ Contains(subscriptions, s)
                 /\ TargetOf(s) = t
                 /\ TriggerOf(s) = trigger
  <1> DEFINE matching == {s \in ToSet(subscriptions) :
                             TargetOf(s) = t /\ TriggerOf(s) = trigger}
  <1>1. /\ DOMAIN subscriptions = 1 .. Len(subscriptions)
        /\ \A i \in DOMAIN subscriptions : subscriptions[i] \in Subscribers
    BY LenProperties, ElementOfSeq
  <1>2. matching \subseteq Subscribers
    BY <1>1 DEF ToSet
  <1>3. IsFiniteSet(matching)
    BY <1>2, PublisherAssumption, FS_Subset
  <1>4. \A s : s \in matching <=>
           Contains(subscriptions, s) /\ TargetOf(s) = t /\ TriggerOf(s) = trigger
    BY <1>1 DEF ToSet, Contains
  <1>5. list \in SetToSeqs(matching)
    BY DEF GetSubscriptions
  <1> HIDE DEF matching
  <1>6. list \in Seq(matching) /\ Distinct(list) /\ \A s : Contains(list, s) <=> s \in matching
    BY <1>3, <1>5, SetToSeqsProperties
  <1>7. list \in Seq(Subscribers)
    BY <1>2, <1>6, SeqMonotonic
  <1>8. QED
    BY <1>4, <1>6, <1>7

\* The conditions PeriodicNotifyManager::GetDueConditions finds, in any order.
Due == {s \in Subscribers : nextNotifyTime[s] # Never /\ nextNotifyTime[s] <= now}

\* They are a list of subscribers without repetition.
LEMMA DueProperties ==
    ASSUME NEW list \in SetToSeqs(Due)
    PROVE  /\ list \in Seq(Subscribers)
           /\ Distinct(list)
           /\ \A s : Contains(list, s) <=> s \in Due
  <1>1. Due \subseteq Subscribers
    BY DEF Due
  <1>2. IsFiniteSet(Due)
    BY <1>1, PublisherAssumption, FS_Subset
  <1>3. list \in Seq(Due) /\ Distinct(list) /\ \A s : Contains(list, s) <=> s \in Due
    BY <1>2, SetToSeqsProperties
  <1>4. QED
    BY <1>1, <1>3, SeqMonotonic

\* The empty list contains nothing.
LEMMA EmptyList == Distinct(<<>>) /\ \A x : ~Contains(<<>>, x)
  BY DEF Distinct, Contains

\* Adding an element to a list that does not have it.
LEMMA AppendDistinct ==
    ASSUME NEW S, NEW q \in Seq(S), NEW e \in S
    PROVE  /\ Append(q, e) \in Seq(S)
           /\ \A x : Contains(Append(q, e), x) <=> x = e \/ Contains(q, x)
           /\ Distinct(q) /\ ~Contains(q, e) => Distinct(Append(q, e))
  <1>1. /\ Append(q, e) \in Seq(S)
        /\ Len(Append(q, e)) = Len(q) + 1
        /\ \A i \in 1 .. Len(q) : Append(q, e)[i] = q[i]
        /\ Append(q, e)[Len(q) + 1] = e
    BY AppendProperties
  <1>2. /\ Len(q) \in Nat /\ DOMAIN q = 1 .. Len(q)
        /\ DOMAIN Append(q, e) = 1 .. Len(q) + 1
    BY <1>1, LenProperties
  <1> DEFINE r == Append(q, e)
             n == Len(q)
  <1> HIDE DEF r, n
  <1>3. \A k : k \in 1 .. n + 1 <=> k \in 1 .. n \/ k = n + 1
    BY <1>2 DEF n
  <1>4. \A x : Contains(r, x) <=> x = e \/ Contains(q, x)
    BY <1>1, <1>3 DEF Contains, r, n
  <1>5. Distinct(q) /\ ~Contains(q, e) => Distinct(r)
    BY <1>1, <1>2, <1>3 DEF Contains, Distinct, r, n
  <1>6. QED
    BY <1>1, <1>4, <1>5 DEF r

\* Taking the front off a list without repetition.
LEMMA TailDistinct ==
    ASSUME NEW S, NEW q \in Seq(S), q # <<>>
    PROVE  /\ Head(q) \in S
           /\ Tail(q) \in Seq(S)
           /\ Contains(q, Head(q))
           /\ \A x : Contains(q, x) <=> x = Head(q) \/ Contains(Tail(q), x)
           /\ Distinct(q) => Distinct(Tail(q)) /\ ~Contains(Tail(q), Head(q))
  <1>1. /\ Len(q) \in Nat \ {0}
        /\ DOMAIN q = 1 .. Len(q)
        /\ Head(q) \in S /\ Head(q) = q[1]
        /\ Tail(q) \in Seq(S)
        /\ DOMAIN Tail(q) = 1 .. Len(q) - 1
        /\ \A k \in 1 .. Len(q) - 1 : Tail(q)[k] = q[k + 1]
    BY TailProperties
  <1>2. Len(Tail(q)) = Len(q) - 1
    BY <1>1, HeadTailProperties
  <1> DEFINE t == Tail(q)
             n == Len(q)
  <1> HIDE DEF t, n
  <1>3. \A k : k \in 1 .. n <=> k = 1 \/ (\E j \in 1 .. n - 1 : k = j + 1)
    <2>1. ASSUME NEW k \in 1 .. n, k # 1 PROVE k - 1 \in 1 .. n - 1 /\ k = (k - 1) + 1
      BY <2>1, <1>1 DEF n
    <2>2. QED
      BY <2>1, <1>1 DEF n
  <1>4. \A j \in 1 .. n - 1 : t[j] = q[j + 1] /\ j + 1 \in 1 .. n /\ j + 1 # 1
    BY <1>1 DEF t, n
  <1>5. \A x : Contains(q, x) <=> x = q[1] \/ Contains(t, x)
    BY <1>1, <1>2, <1>3, <1>4 DEF Contains, t, n
  <1>6. ASSUME Distinct(q) PROVE Distinct(t) /\ ~Contains(t, q[1])
    <2>1. \A i, j \in 1 .. n : i # j => q[i] # q[j]
      BY <1>1, <1>6 DEF Distinct, n
    <2>2. \A j \in 1 .. n - 1 : t[j] # q[1]
      BY <2>1, <1>3, <1>4
    <2>3. ASSUME NEW i \in 1 .. n - 1, NEW j \in 1 .. n - 1, i # j PROVE t[i] # t[j]
      <3>1. i + 1 # j + 1
        BY <2>3
      <3>2. QED
        BY <3>1, <2>1, <1>4
    <2>4. QED
      BY <2>2, <2>3, <1>1, <1>2 DEF Distinct, Contains, t, n
  <1>7. QED
    BY <1>1, <1>5, <1>6 DEF t

\* Erasing an element of a list without repetition.
LEMMA EraseDistinct ==
    ASSUME NEW S, NEW q \in Seq(S), Distinct(q), NEW e,
           NEW M \in SUBSET DOMAIN q, \A i \in DOMAIN q : i \in M <=> q[i] = e
    PROVE  /\ EraseFirst(q, M) \in Seq(S)
           /\ Distinct(EraseFirst(q, M))
           /\ \A x : Contains(EraseFirst(q, M), x) <=> x # e /\ Contains(q, x)
  <1> DEFINE r == EraseFirst(q, M)
             n == Len(q)
  <1>1. n \in Nat /\ DOMAIN q = 1 .. n /\ \A i, j \in 1 .. n : i # j => q[i] # q[j]
    BY LenProperties DEF Distinct
  <1>2. M \in SUBSET DOMAIN q /\ \A i \in M : q[i] = e
    OBVIOUS
  <1>3. r \in Seq(S)
    BY <1>2, EraseFirstProperties
  <1>4. CASE M = {}
    <2>1. r = q
      BY <1>2, <1>4, EraseFirstProperties
    <2>2. ~Contains(q, e)
      BY <1>1, <1>4 DEF Contains
    <2> HIDE DEF r
    <2>3. QED
      BY <1>3, <2>1, <2>2 DEF r
  <1>5. CASE M # {}
    <2>1. Len(r) = n - 1
      BY <1>2, <1>5, EraseFirstProperties
    <2>2. PICK m \in M : \A k \in 1 .. n - 1 : r[k] = IF k < m THEN q[k] ELSE q[k + 1]
      BY <1>2, <1>5, EraseFirstProperties
    <2>3. DOMAIN r = 1 .. n - 1
      BY <2>1, <1>3, LenProperties
    <2>4. m \in 1 .. n /\ q[m] = e
      BY <1>1, <1>2
    <2> HIDE DEF r, n
    <2> DEFINE from(k) == IF k < m THEN k ELSE k + 1
    <2>5. \A k \in 1 .. n - 1 : from(k) \in 1 .. n /\ from(k) # m /\ r[k] = q[from(k)]
      BY <1>1, <2>2, <2>4
    <2>6. \A i, j \in 1 .. n - 1 : i # j => from(i) # from(j)
      BY <1>1, <2>4
    <2>7. ASSUME NEW j \in 1 .. n, j # m PROVE \E k \in 1 .. n - 1 : from(k) = j
      <3>1. CASE j < m
        <4>1. j \in 1 .. n - 1 /\ from(j) = j
          BY <3>1, <1>1, <2>4
        <4>2. QED
          BY <4>1
      <3>2. CASE ~(j < m)
        <4>1. j - 1 \in 1 .. n - 1 /\ from(j - 1) = j
          BY <3>2, <2>7, <1>1, <2>4
        <4>2. QED
          BY <4>1
      <3>3. QED
        BY <3>1, <3>2
    <2> HIDE DEF from
    <2>8. Distinct(r)
      BY <1>1, <2>3, <2>5, <2>6 DEF Distinct
    <2>9. ASSUME NEW x PROVE Contains(r, x) <=> x # e /\ Contains(q, x)
      <3>1. Contains(r, x) <=> \E k \in 1 .. n - 1 : r[k] = x
        BY <2>1 DEF Contains
      <3>2. Contains(q, x) <=> \E j \in 1 .. n : q[j] = x
        BY <1>1 DEF Contains, n
      <3>3. ASSUME NEW k \in 1 .. n - 1, r[k] = x PROVE x # e /\ Contains(q, x)
        <4>1. from(k) \in 1 .. n /\ from(k) # m /\ q[from(k)] = x
          BY <2>5, <3>3
        <4>2. QED
          BY <1>1, <2>4, <3>2, <4>1
      <3>4. ASSUME NEW j \in 1 .. n, q[j] = x, x # e PROVE Contains(r, x)
        <4>1. PICK k \in 1 .. n - 1 : from(k) = j
          BY <2>4, <2>7, <3>4
        <4>2. r[k] = x
          BY <2>5, <3>4, <4>1
        <4>3. QED
          BY <3>1, <4>2
      <3>5. QED
        BY <3>1, <3>2, <3>3, <3>4
    <2>10. QED
      BY <1>3, <2>8, <2>9 DEF r
  <1>6. QED
    BY <1>4, <1>5
-----------------------------------------------------------------------------
(* The steps, whatever the revision *)

ApplicationStep(s) ==
    \/ SubscribeStore(s) \/ SubscribeReadClock(s) \/ SubscribePeriodic(s)
    \/ SubscribeCallback(s) \/ SubscribeReturn(s) \/ GetNotification(s)
    \/ UnsubscribeCallback(s) \/ UnsubscribeStore(s) \/ UnsubscribePeriodic(s)
    \/ UnsubscribeMailbox(s)

PublisherStep ==
    \/ PublisherPop \/ PublisherTimeout \/ PublishChange \/ SuppressChange
    \/ PublishPeriodic \/ ChooseRecipients \/ Deliver \/ GetDueConditions \/ DeliverEnd

CallbackStep == CallbackPop \/ CallbackLookup \/ CallbackCall

\* Every revision takes the same steps, some of them fewer.
LEMMA NextIsStep ==
    ASSUME Next
    PROVE  \/ Tick
           \/ \E t \in Targets : Changed(t)
           \/ \E s \in Subscribers : ApplicationStep(s)
           \/ PublisherStep
           \/ CallbackStep
  <1>1. ASSUME NEW s \in Subscribers, Application(s) PROVE ApplicationStep(s)
    BY <1>1 DEF Application, ApplicationStep, SubscribeTop, Subscribe755, GetNotification755,
                Subscribe0818, GetNotification0818, Unsubscribe0818, Subscribe0820,
                GetNotification0820, Unsubscribe0820, Subscribe, Unsubscribe
  <1>2. PublisherTop \/ Publisher755 => PublisherStep
    BY DEF PublisherTop, PublisherWorker, Publisher755, PublisherWorker755, PublishManager755,
           ChangeNotifyManager755, PeriodicNotifyManager755, PublishManager,
           ChangeNotifyManager,
           PeriodicNotifyManager, PublisherStep
  <1>3. Publisher0818 \/ Publisher0820 => PublisherStep
    BY DEF Publisher0818, PublisherWorker0818, PublishManager0818, ChangeNotifyManager0818,
           PeriodicNotifyManager0818, Publisher0820, PublisherWorker0820, PublishManager0820,
           ChangeNotifyManager0820, PeriodicNotifyManager0820, PublishManager,
           ChangeNotifyManager,
           PeriodicNotifyManager, PublisherStep
  <1>4. CallbacksTop \/ Callbacks755 \/ Callbacks0818 \/ Callbacks0820 => CallbackStep
    BY DEF CallbacksTop, CallbackWorker, Callbacks755, CallbackPop755, CallbackRegistry755,
           Callbacks0818, CallbackPop0818, CallbackRegistry0818, Callbacks0820,
           CallbackPop0820, CallbackRegistry0820, CallbackStep
  <1>5. QED
    BY <1>1, <1>2, <1>3, <1>4 DEF Next

\* A behaviour keeps to its plan, and its clock does not run backwards.
LEMMA PlanAndClock ==
    ASSUME TypeOK, [Next]_vars
    PROVE  plan' = plan /\ now' \in 0 .. plan.time /\ now <= now'
  <1>1. plan.time \in Nat /\ now \in 0 .. plan.time
    BY PublisherAssumption DEF TypeOK, IsPlan
  <1>2. CASE UNCHANGED vars
    BY <1>1, <1>2 DEF vars
  <1>3. CASE Tick
    BY <1>1, <1>3 DEF Tick
  <1>4. ASSUME NEW t \in Targets, Changed(t) PROVE UNCHANGED <<plan, now>>
    BY <1>4 DEF Changed
  <1>5. ASSUME NEW s \in Subscribers, ApplicationStep(s) PROVE UNCHANGED <<plan, now>>
    BY <1>5 DEF ApplicationStep, SubscribeStore, SubscribeReadClock, SubscribePeriodic,
                SubscribeCallback,
       SubscribeReturn, GetNotification, UnsubscribeCallback, UnsubscribeStore,
       UnsubscribePeriodic, UnsubscribeMailbox
  <1>6. PublisherStep => UNCHANGED <<plan, now>>
    BY DEF PublisherStep, PublisherPop, PublisherTimeout, PublishChange, SuppressChange,
       PublishPeriodic, ChooseRecipients, Deliver, GetDueConditions, DeliverEnd
  <1>7. CallbackStep => UNCHANGED <<plan, now>>
    BY DEF CallbackStep, CallbackPop, CallbackLookup, CallbackCall
  <1>8. QED
    BY <1>1, <1>2, <1>3, <1>4, <1>5, <1>6, <1>7, NextIsStep
-----------------------------------------------------------------------------
(* Type correctness *)

\* The initial state is of the right type.
LEMMA TypeInit == Init => TypeOK
  <1> SUFFICES ASSUME Init PROVE TypeOK
    OBVIOUS
  <1>1. plan \in Plans /\ now \in 0 .. plan.time
    BY PublisherAssumption DEF Init, IsPlan
  <1>2. <<>> \in Seq(PublisherEvent) /\ <<>> \in Seq(Subscribers)
        /\ <<>> \in Seq(Triggers) /\ <<>> \in Seq(CallbackEvent)
    BY EmptySeq
  <1>3. WorkerTypeOK
    BY <1>2 DEF Init, WorkerTypeOK
  <1>4. RegistryTypeOK
    BY <1>2 DEF Init, RegistryTypeOK, SubscribeStates
  <1>5. SinkTypeOK
    BY <1>2 DEF Init, SinkTypeOK
  <1>6. HistoryTypeOK
    BY DEF Init, HistoryTypeOK
  <1>7. QED
    BY <1>1, <1>3, <1>4, <1>5, <1>6 DEF TypeOK

\* RIM_Subscribe, RIM_GetNotification and RIM_Unsubscribe keep the types.
LEMMA ApplicationType ==
    ASSUME TypeOK, RegistryOK, NEW s \in Subscribers, ApplicationStep(s)
    PROVE  WorkerTypeOK' /\ RegistryTypeOK' /\ SinkTypeOK' /\ HistoryTypeOK'
  <1> USE DEF TypeOK, workerVars, registryVars, callbackVars, historyVars, limiterHistory,
              timeHistory, SubscribeStates, InStore
  <1>0. now \in Nat /\ (subscribePc[s] # "store" => s \in Asking)
    BY PublisherAssumption DEF IsPlan, RegistryOK, RegistryOf
  <1>1. CASE SubscribeStore(s)
    <2>1. AfterStore(s) \in {"periodic", "callback", "return"}
      BY DEF AfterStore
    <2>2. Append(subscriptions, s) \in Seq(Subscribers)
      BY AppendProperties DEF RegistryTypeOK
    <2>3. WorkerTypeOK' /\ SinkTypeOK'
      BY <1>1 DEF SubscribeStore, WorkerTypeOK, SinkTypeOK
    <2>4. RegistryTypeOK'
      BY <1>1, <2>1, <2>2 DEF SubscribeStore, RegistryTypeOK
    <2>5. HistoryTypeOK'
      BY <1>0, <1>1 DEF SubscribeStore, HistoryTypeOK
    <2>6. QED
      BY <2>3, <2>4, <2>5
  <1>2. CASE SubscribePeriodic(s)
    <2>1. AfterPeriodic(s) \in {"callback", "return"}
      BY DEF AfterPeriodic
    <2>2. WorkerTypeOK' /\ SinkTypeOK'
      BY <1>2 DEF SubscribePeriodic, WorkerTypeOK, SinkTypeOK
    <2>3. scheduledAt[s] \in Nat /\ plan.request[s].interval \in Nat
      BY <1>0, <1>2, RequestType DEF SubscribePeriodic, RegistryOK, RegistryOf, HistoryTypeOK
    <2>4. RegistryTypeOK'
      BY <1>2, <2>1, <2>3 DEF SubscribePeriodic, RegistryTypeOK
    <2>5. HistoryTypeOK'
      BY <1>0, <1>2 DEF SubscribePeriodic, HistoryTypeOK
    <2>6. QED
      BY <2>2, <2>4, <2>5
  <1>3. CASE SubscribeCallback(s)
    BY <1>3 DEF SubscribeCallback, WorkerTypeOK, RegistryTypeOK, SinkTypeOK, HistoryTypeOK
  <1>4. CASE SubscribeReturn(s)
    <2>1. version[plan.request[s].target] \in Nat
      BY <1>0, <1>4, RequestType DEF SubscribeReturn, HistoryTypeOK
    <2>2. QED
      BY <1>4, <2>1 DEF SubscribeReturn, WorkerTypeOK, RegistryTypeOK, SinkTypeOK, HistoryTypeOK
  <1>5. CASE GetNotification(s)
    <2>1. version[plan.request[s].target] \in Nat
      BY <1>0, <1>5, RequestType DEF GetNotification, HistoryTypeOK
    <2>2. Tail(mailboxes[s]) \in Seq(Triggers)
      BY <1>5, TailProperties DEF GetNotification, SinkTypeOK
    <2>3. QED
      BY <1>5, <2>1, <2>2 DEF GetNotification, WorkerTypeOK, RegistryTypeOK, SinkTypeOK,
                              HistoryTypeOK
  <1>6. CASE UnsubscribeCallback(s)
    BY <1>6 DEF UnsubscribeCallback, WorkerTypeOK, RegistryTypeOK, SinkTypeOK, HistoryTypeOK
  <1>7. CASE UnsubscribeStore(s)
    <2>1. subscriptions' \in Seq(Subscribers)
      BY <1>7, EraseFirstProperties DEF UnsubscribeStore, RegistryTypeOK
    <2>2. QED
      BY <1>7, <2>1 DEF UnsubscribeStore, WorkerTypeOK, RegistryTypeOK, SinkTypeOK,
                        HistoryTypeOK
  <1>8. CASE UnsubscribePeriodic(s)
    BY <1>8 DEF UnsubscribePeriodic, WorkerTypeOK, RegistryTypeOK, SinkTypeOK, HistoryTypeOK
  <1>9. CASE UnsubscribeMailbox(s)
    BY <1>9, EmptySeq DEF UnsubscribeMailbox, WorkerTypeOK, RegistryTypeOK, SinkTypeOK,
                          HistoryTypeOK
  <1>10. CASE SubscribeReadClock(s)
    BY <1>0, <1>10
       DEF SubscribeReadClock, WorkerTypeOK, RegistryTypeOK, SinkTypeOK, HistoryTypeOK
  <1>11. QED
    BY <1>1, <1>2, <1>3, <1>4, <1>5, <1>6, <1>7, <1>8, <1>9, <1>10 DEF ApplicationStep

\* The data path and the publisher thread keep the types.
LEMMA PublisherType ==
    ASSUME TypeOK, RegistryOK, WorkerOK,
           PublisherStep \/ \E t \in Targets : Changed(t)
    PROVE  WorkerTypeOK' /\ RegistryTypeOK' /\ SinkTypeOK' /\ HistoryTypeOK'
  <1> USE DEF TypeOK, workerVars, registryVars, callbackVars, historyVars, limiterHistory,
              timeHistory
  <1>0. now \in Nat
    BY PublisherAssumption DEF IsPlan
  <1>1. ASSUME NEW t \in Targets, Changed(t)
        PROVE  WorkerTypeOK' /\ RegistryTypeOK' /\ SinkTypeOK' /\ HistoryTypeOK'
    <2> DEFINE e == [target |-> t, priority |-> Low, compression |-> Compression[t]]
    <2>1. e \in PublisherEvent
      BY PublisherAssumption DEF PublisherEvent
    <2>2. PriorityCompressionInsert(publisherQueue, e) \in Seq(PublisherEvent)
      BY <2>1, CompressionInsertType DEF WorkerTypeOK
    <2>3. publisherQueue' \in Seq(PublisherEvent)
      BY <1>1, <2>2 DEF Changed
    <2>4. version' \in [Targets -> Nat]
      BY <1>1 DEF Changed, HistoryTypeOK
    <2>5. WorkerTypeOK' /\ RegistryTypeOK' /\ SinkTypeOK'
      BY <1>1, <2>3 DEF Changed, WorkerTypeOK, RegistryTypeOK, SinkTypeOK
    <2>6. HistoryTypeOK'
      BY <1>1, <2>4 DEF Changed, HistoryTypeOK
    <2>7. QED
      BY <2>5, <2>6
  <1>2. CASE PublisherPop
    <2>1. Head(publisherQueue) \in PublisherEvent /\ Tail(publisherQueue) \in Seq(PublisherEvent)
      BY <1>2, TailProperties DEF PublisherPop, WorkerTypeOK
    <2>2. message' \in Message
      BY <1>2, <2>1 DEF PublisherPop, PublisherEvent, Message, Triggers
    <2>3. QED
      BY <1>2, <2>1, <2>2 DEF PublisherPop, WorkerTypeOK, RegistryTypeOK, SinkTypeOK,
                              HistoryTypeOK
  <1>3. CASE PublisherTimeout
    BY <1>3 DEF PublisherTimeout, WorkerTypeOK, RegistryTypeOK, SinkTypeOK, HistoryTypeOK
  <1>4. ASSUME publisherPc \in {"publish", "choose", "deliver"}
        PROVE  message.target \in Targets /\ message.trigger \in Triggers
    BY <1>4 DEF WorkerOK, WorkerTypeOK, Message
  <1>5. CASE PublishChange
    <2>2. lastNotifyTimes' \in [LimiterKeys -> Nat \cup {Never}]
      BY <1>0, <1>5 DEF PublishChange, WorkerTypeOK
    <2>3. suppressedAt' \in [Targets -> Nat \cup {Never}]
          /\ passedAt' \in [Targets -> Nat \cup {Never}]
      BY <1>0, <1>5 DEF PublishChange, HistoryTypeOK
    <2>4. WorkerTypeOK'
      BY <1>5, <2>2 DEF PublishChange, WorkerTypeOK
    <2>5. RegistryTypeOK' /\ SinkTypeOK' /\ HistoryTypeOK'
      BY <1>5, <2>3 DEF PublishChange, RegistryTypeOK, SinkTypeOK, HistoryTypeOK
    <2>6. QED
      BY <2>4, <2>5
  <1>6. CASE SuppressChange
    <2>1. suppressedAt' \in [Targets -> Nat \cup {Never}]
      BY <1>0, <1>6 DEF SuppressChange, HistoryTypeOK
    <2>2. QED
      BY <1>6, <2>1 DEF SuppressChange, WorkerTypeOK, RegistryTypeOK, SinkTypeOK, HistoryTypeOK
  <1>7. CASE PublishPeriodic
    <2>1. Head(due) \in Subscribers /\ Tail(due) \in Seq(Subscribers) /\ Contains(due, Head(due))
      BY <1>7, TailDistinct DEF PublishPeriodic, WorkerOK, WorkerTypeOK
    <2>2. Head(due) \in Asking
      BY <2>1 DEF WorkerOK, DueOK, RegistryOK, RegistryOf
    <2>3. plan.request[Head(due)].target \in Targets
      BY <2>2, RequestType
    <2> DEFINE sent == [target |-> plan.request[Head(due)].target, trigger |-> "Periodic"]
    <2>4. sent \in Message
      BY <2>3 DEF Message, Triggers
    <2>5. message' \in {message, sent} /\ due' \in {due, Tail(due)}
      BY <1>7 DEF PublishPeriodic
    <2>6. message' \in Message \cup {NoMessage} /\ due' \in Seq(Subscribers)
      BY <2>1, <2>4, <2>5 DEF WorkerTypeOK
    <2>7. publisherPc' \in {"wait", "choose", "due"}
      BY <1>7 DEF PublishPeriodic
    <2>8. QED
      BY <1>7, <2>6, <2>7
         DEF PublishPeriodic, WorkerTypeOK, RegistryTypeOK, SinkTypeOK, HistoryTypeOK
  <1>8. CASE Deliver
    <2> DEFINE s == Head(recipients)
    <2>1. s \in Subscribers /\ Tail(recipients) \in Seq(Subscribers)
      BY <1>8, TailDistinct DEF Deliver, WorkerTypeOK
    <2> HIDE DEF s
    <2>2. message.trigger \in Triggers
      BY <1>4, <1>8 DEF Deliver
    <2>3. Append(mailboxes[s], message.trigger) \in Seq(Triggers)
      BY <2>1, <2>2, AppendProperties DEF SinkTypeOK
    <2>4. mailboxes' \in [Subscribers -> Seq(Triggers)]
      BY <1>8, <2>1, <2>3 DEF Deliver, SinkTypeOK, s
    <2>5. [id |-> s, trigger |-> message.trigger] \in CallbackEvent
      BY <2>1, <2>2 DEF CallbackEvent
    <2>6. callbackQueue' \in Seq(CallbackEvent)
      BY <1>8, <2>5, AppendProperties DEF Deliver, SinkTypeOK, FifoInsert, s
    <2>7. delivered' \in [Subscribers -> Nat]
      BY <1>8, <2>1 DEF Deliver, HistoryTypeOK, s
    <2>8. WorkerTypeOK' /\ RegistryTypeOK'
      BY <1>8, <2>1 DEF Deliver, WorkerTypeOK, RegistryTypeOK
    <2>9. SinkTypeOK'
      BY <1>8, <2>4, <2>6 DEF Deliver, SinkTypeOK
    <2>10. HistoryTypeOK'
      BY <1>8, <2>7 DEF Deliver, HistoryTypeOK
    <2>11. QED
      BY <2>8, <2>9, <2>10
  <1>9. CASE GetDueConditions
    <2>1. due' \in Seq(Subscribers)
      BY <1>9, DueProperties DEF GetDueConditions, Due
    <2>2. QED
      BY <1>9, <2>1 DEF GetDueConditions, WorkerTypeOK, RegistryTypeOK, SinkTypeOK,
                        HistoryTypeOK
  <1>10. CASE DeliverEnd
    <2>1. CASE message.trigger = "Periodic"
      <3> DEFINE s == Head(due)
      <3>1. s \in Subscribers /\ Tail(due) \in Seq(Subscribers) /\ Contains(due, s)
        BY <1>10, <2>1, TailDistinct DEF DeliverEnd, WorkerOK, ServingPeriodic, WorkerTypeOK
      <3>2. s \in Asking
        BY <3>1 DEF WorkerOK, DueOK, RegistryOK, RegistryOf
      <3>3. plan.request[s].interval \in Nat
        BY <3>2, RequestType
      <3> HIDE DEF s
      <3>4. nextNotifyTime' = [nextNotifyTime EXCEPT ![s] =
                                  IF @ = Never THEN @ ELSE @ + plan.request[s].interval]
        BY <1>10, <2>1 DEF DeliverEnd, s
      <3>5. nextNotifyTime' \in [Subscribers -> Nat \cup {Never}]
        BY <3>1, <3>3, <3>4 DEF RegistryTypeOK
      <3>6. WorkerTypeOK'
        BY <1>10, <2>1, <3>1 DEF DeliverEnd, WorkerTypeOK, s
      <3>7. RegistryTypeOK' /\ SinkTypeOK' /\ HistoryTypeOK'
        BY <1>10, <3>5 DEF DeliverEnd, RegistryTypeOK, SinkTypeOK, HistoryTypeOK
      <3>8. QED
        BY <3>6, <3>7
    <2>2. CASE message.trigger # "Periodic"
      BY <1>10, <2>2 DEF DeliverEnd, WorkerTypeOK, RegistryTypeOK, SinkTypeOK, HistoryTypeOK
    <2>3. QED
      BY <2>1, <2>2
  <1>11. CASE ChooseRecipients
    <2>1. recipients' \in Seq(Subscribers)
      BY <1>11, GetSubscriptionsProperties DEF ChooseRecipients, RegistryTypeOK
    <2>2. passedAt[message.target] \in Nat \cup {Never}
      BY <1>4, <1>11 DEF ChooseRecipients, HistoryTypeOK
    <2>3. chosenAt' \in [Subscribers -> Nat \cup {Never}]
      BY <1>11, <2>2 DEF ChooseRecipients, HistoryTypeOK
    <2>4. WorkerTypeOK' /\ RegistryTypeOK' /\ SinkTypeOK'
      BY <1>11, <2>1 DEF ChooseRecipients, WorkerTypeOK, RegistryTypeOK, SinkTypeOK
    <2>5. HistoryTypeOK'
      BY <1>11, <2>3 DEF ChooseRecipients, HistoryTypeOK
    <2>6. QED
      BY <2>4, <2>5
  <1>12. QED
    BY <1>1, <1>2, <1>3, <1>5, <1>6, <1>7, <1>8, <1>9, <1>10, <1>11 DEF PublisherStep

\* The callback thread keeps the types.
LEMMA CallbackType ==
    ASSUME TypeOK, CallbackOK, CallbackStep
    PROVE  WorkerTypeOK' /\ RegistryTypeOK' /\ SinkTypeOK' /\ HistoryTypeOK'
  <1> USE DEF TypeOK, workerVars, registryVars, callbackVars, historyVars, limiterHistory,
              timeHistory
  <1>1. CASE CallbackPop
    <2>1. Head(callbackQueue) \in CallbackEvent /\ Tail(callbackQueue) \in Seq(CallbackEvent)
      BY <1>1, TailProperties DEF CallbackPop, SinkTypeOK
    <2>2. QED
      BY <1>1, <2>1 DEF CallbackPop, WorkerTypeOK, RegistryTypeOK, SinkTypeOK, HistoryTypeOK
  <1>2. CASE CallbackLookup
    BY <1>2 DEF CallbackLookup, WorkerTypeOK, RegistryTypeOK, SinkTypeOK, HistoryTypeOK
  <1>3. CASE CallbackCall
    <2>1. calling \in CallbackEvent /\ calling.id \in Asking
      BY <1>3 DEF CallbackCall, CallbackOK, CallbackFor, SinkTypeOK
    <2>2. version[plan.request[calling.id].target] \in Nat
      BY <2>1, RequestType DEF HistoryTypeOK
    <2>3. calling.id \in Subscribers
      BY <2>1 DEF CallbackEvent
    <2>4. told' \in [Subscribers -> Nat] /\ lateCalls' \in [Subscribers -> Nat]
      BY <1>3, <2>2, <2>3 DEF CallbackCall, HistoryTypeOK
    <2>5. WorkerTypeOK' /\ RegistryTypeOK'
      BY <1>3 DEF CallbackCall, WorkerTypeOK, RegistryTypeOK
    <2>6. SinkTypeOK' /\ HistoryTypeOK'
      BY <1>3, <2>4 DEF CallbackCall, SinkTypeOK, HistoryTypeOK
    <2>7. QED
      BY <2>5, <2>6
  <1>4. QED
    BY <1>1, <1>2, <1>3 DEF CallbackStep

\* The types are kept, given what the threads hold.
LEMMA TypeNext ==
    ASSUME TypeOK, RegistryOK, WorkerOK, CallbackOK, [Next]_vars
    PROVE  TypeOK'
  <1>1. plan' \in Plans /\ now' \in 0 .. plan'.time
    BY PlanAndClock DEF TypeOK
  <1>2. CASE Tick \/ UNCHANGED vars
    <2>1. UNCHANGED <<publisherQueue, workerVars, registryVars, mailboxes, callbackQueue,
                      callbackVars, version, historyVars>>
      BY <1>2 DEF Tick, vars
    <2>2. WorkerTypeOK' /\ RegistryTypeOK' /\ SinkTypeOK' /\ HistoryTypeOK'
      BY <2>1 DEF TypeOK, WorkerTypeOK, RegistryTypeOK, SinkTypeOK, HistoryTypeOK, workerVars,
                  registryVars, callbackVars, historyVars, limiterHistory, timeHistory
    <2>3. QED
      BY <1>1, <2>2 DEF TypeOK
  <1>3. CASE ~(Tick \/ UNCHANGED vars)
    BY <1>1, <1>3, NextIsStep, ApplicationType, PublisherType, CallbackType DEF TypeOK
  <1>4. QED
    BY <1>2, <1>3
-----------------------------------------------------------------------------
(* What is registered *)

\* Who took the steps that leave the registration tables alone.
LEMMA RegistryFrame ==
    ASSUME TypeOK, RegistryOK, [Next]_vars,
           UNCHANGED <<registryVars, storedAt, scheduledAt>>
    PROVE  RegistryOK'
  <1>1. plan' = plan /\ now' \in Nat /\ now \in Nat /\ now <= now'
    BY PlanAndClock, PublisherAssumption DEF TypeOK, IsPlan
  <1>2. UNCHANGED <<subscribePc, subscriptions, nextNotifyTime, callbacks, storedAt,
                    scheduledAt>>
    BY DEF registryVars
  <1>3. \A s \in Subscribers :
           storedAt[s] \in Nat \cup {Never} /\ scheduledAt[s] \in Nat \cup {Never}
    BY DEF TypeOK, HistoryTypeOK
  <1>4. ASSUME NEW s \in Subscribers PROVE RegistryOf(s)'
    BY <1>1, <1>2, <1>3 DEF RegistryOK, RegistryOf, Contains
  <1>5. QED
    BY <1>2, <1>4 DEF RegistryOK, Distinct

\* SubscriptionStore::Remove takes one subscription out and no other.
LEMMA StoreRemoves ==
    ASSUME TypeOK, RegistryOK, NEW s \in Subscribers, UnsubscribeStore(s)
    PROVE  /\ Distinct(subscriptions')
           /\ \A x : Contains(subscriptions', x) <=> x # s /\ Contains(subscriptions, x)
  <1> DEFINE M == {i \in DOMAIN subscriptions : subscriptions[i] = s}
  <1>1. subscriptions' = EraseFirst(subscriptions, M)
    BY DEF UnsubscribeStore
  <1>2. subscriptions \in Seq(Subscribers) /\ Distinct(subscriptions)
    BY DEF TypeOK, RegistryTypeOK, RegistryOK
  <1>3. /\ M \in SUBSET DOMAIN subscriptions
        /\ \A i \in DOMAIN subscriptions : i \in M <=> subscriptions[i] = s
    OBVIOUS
  <1> HIDE DEF M
  <1>4. /\ Distinct(EraseFirst(subscriptions, M))
        /\ \A x : Contains(EraseFirst(subscriptions, M), x)
                    <=> x # s /\ Contains(subscriptions, x)
    BY <1>2, <1>3, EraseDistinct
  <1>5. QED
    BY <1>1, <1>4

(***************************************************************************)
(* A call that registers or removes s leaves what is registered for the    *)
(* others as it was.                                                       *)
(***************************************************************************)
LEMMA OthersRegistered ==
    ASSUME TypeOK, RegistryOK, NEW s \in Subscribers, ApplicationStep(s),
           NEW u \in Subscribers, u # s
    PROVE  /\ RegistryOf(u)'
           /\ Contains(subscriptions, u)' <=> Contains(subscriptions, u)
  <1>1. Contains(subscriptions, u)' <=> Contains(subscriptions, u)
    <2>1. CASE SubscribeStore(s)
      BY <2>1, AppendDistinct DEF SubscribeStore, TypeOK, RegistryTypeOK
    <2>2. CASE UnsubscribeStore(s)
      BY <2>2, StoreRemoves
    <2>3. CASE ~(SubscribeStore(s) \/ UnsubscribeStore(s))
      <3>1. UNCHANGED subscriptions
        BY <2>3 DEF ApplicationStep, SubscribeReadClock, SubscribePeriodic,
                    SubscribeCallback, SubscribeReturn,
           GetNotification, UnsubscribeCallback, UnsubscribePeriodic, UnsubscribeMailbox,
           registryVars
      <3>2. QED
        BY <3>1
    <2>4. QED
      BY <2>1, <2>2, <2>3
  <1>2. /\ plan' = plan /\ now' = now
        /\ subscribePc'[u] = subscribePc[u] /\ nextNotifyTime'[u] = nextNotifyTime[u]
        /\ storedAt'[u] = storedAt[u] /\ scheduledAt'[u] = scheduledAt[u]
        /\ u \in callbacks' <=> u \in callbacks
    BY DEF ApplicationStep, SubscribeStore, SubscribeReadClock, SubscribePeriodic,
           SubscribeCallback, SubscribeReturn,
       GetNotification, UnsubscribeCallback, UnsubscribeStore, UnsubscribePeriodic,
       UnsubscribeMailbox, registryVars, historyVars, timeHistory, TypeOK, RegistryTypeOK,
       HistoryTypeOK
  <1>3. RegistryOf(u)
    BY DEF RegistryOK
  <1>4. QED
    BY <1>1, <1>2, <1>3 DEF RegistryOf

\* The tables stay in step with the calls, one table at a time.
LEMMA ApplicationRegistry ==
    ASSUME TypeOK, RegistryOK, NEW s \in Subscribers, ApplicationStep(s)
    PROVE  RegistryOK'
  <1>0. /\ RegistryOf(s) /\ Distinct(subscriptions)
        /\ now \in Nat
        /\ s \in Asking => plan.request[s].interval \in Nat
    BY PublisherAssumption, RequestType DEF RegistryOK, TypeOK, IsPlan
  <1> USE DEF TypeOK, RegistryTypeOK, HistoryTypeOK, SubscribeStates, InStore, InConditions,
              historyVars, timeHistory, registryVars
  <1>1. CASE SubscribeStore(s)
    <2>1. ~Contains(subscriptions, s)
      BY <1>0, <1>1 DEF SubscribeStore, RegistryOf
    <2>2. Contains(subscriptions', s) /\ Distinct(subscriptions')
      BY <1>0, <1>1, <2>1, AppendDistinct DEF SubscribeStore
    <2>3. AfterStore(s) = IF TriggerOf(s) = "Periodic" THEN "periodic"
                          ELSE IF MethodOf(s) = "Callback" THEN "callback" ELSE "return"
      BY DEF AfterStore
    <2>4. RegistryOf(s)'
      BY <1>0, <1>1, <2>2, <2>3, NeverApart DEF SubscribeStore, RegistryOf
    <2>5. QED
      BY <2>2, <2>4, OthersRegistered DEF RegistryOK
  <1>2. CASE SubscribePeriodic(s)
    <2>1. AfterPeriodic(s) = IF MethodOf(s) = "Callback" THEN "callback" ELSE "return"
      BY DEF AfterPeriodic
    <2>2. scheduledAt[s] \in Nat /\ scheduledAt[s] + plan.request[s].interval \in Nat
      BY <1>0, <1>2 DEF SubscribePeriodic, RegistryOf
    <2>3. RegistryOf(s)'
      BY <1>0, <1>2, <2>1, <2>2, NeverApart DEF SubscribePeriodic, RegistryOf
    <2>4. QED
      BY <1>0, <1>2, <2>3, OthersRegistered DEF RegistryOK, SubscribePeriodic
  <1>3. CASE SubscribeCallback(s)
    <2>1. RegistryOf(s)'
      BY <1>0, <1>3 DEF SubscribeCallback, RegistryOf
    <2>2. QED
      BY <1>0, <1>3, <2>1, OthersRegistered DEF RegistryOK, SubscribeCallback
  <1>4. CASE SubscribeReturn(s)
    <2>1. RegistryOf(s)'
      BY <1>0, <1>4 DEF SubscribeReturn, RegistryOf
    <2>2. QED
      BY <1>0, <1>4, <2>1, OthersRegistered DEF RegistryOK, SubscribeReturn
  <1>5. CASE GetNotification(s)
    <2>1. RegistryOf(s)'
      BY <1>0, <1>5 DEF GetNotification, RegistryOf
    <2>2. QED
      BY <1>0, <1>5, <2>1, OthersRegistered DEF RegistryOK, GetNotification
  <1>6. CASE UnsubscribeCallback(s)
    <2>1. RegistryOf(s)'
      BY <1>0, <1>6 DEF UnsubscribeCallback, RegistryOf
    <2>2. QED
      BY <1>0, <1>6, <2>1, OthersRegistered DEF RegistryOK, UnsubscribeCallback
  <1>7. CASE UnsubscribeStore(s)
    <2>1. Distinct(subscriptions') /\ ~Contains(subscriptions', s)
      BY <1>7, StoreRemoves
    <2>2. RegistryOf(s)'
      BY <1>0, <1>7, <2>1 DEF UnsubscribeStore, RegistryOf
    <2>3. QED
      BY <2>1, <2>2, OthersRegistered DEF RegistryOK
  <1>8. CASE UnsubscribePeriodic(s)
    <2>1. RegistryOf(s)'
      BY <1>0, <1>8 DEF UnsubscribePeriodic, RegistryOf
    <2>2. QED
      BY <1>0, <1>8, <2>1, OthersRegistered DEF RegistryOK, UnsubscribePeriodic
  <1>9. CASE UnsubscribeMailbox(s)
    <2>1. RegistryOf(s)'
      BY <1>0, <1>9 DEF UnsubscribeMailbox, RegistryOf
    <2>2. QED
      BY <1>0, <1>9, <2>1, OthersRegistered DEF RegistryOK, UnsubscribeMailbox
  <1>10. CASE SubscribeReadClock(s)
    <2>1. RegistryOf(s)'
      BY <1>0, <1>10, NeverApart DEF SubscribeReadClock, RegistryOf
    <2>2. QED
      BY <1>0, <1>10, <2>1, OthersRegistered DEF RegistryOK, SubscribeReadClock
  <1>11. QED
    BY <1>1, <1>2, <1>3, <1>4, <1>5, <1>6, <1>7, <1>8, <1>9, <1>10 DEF ApplicationStep

\* UpdateNextTime: a condition that is registered stays registered.
LEMMA UpdateNextTime ==
    ASSUME TypeOK, RegistryOK, WorkerOK, DeliverEnd
    PROVE  /\ UNCHANGED <<plan, now, subscribePc, subscriptions, callbacks, storedAt, scheduledAt>>
           /\ \A s \in Subscribers :
                 nextNotifyTime'[s] =
                    IF ServingPeriodic /\ s = Head(due) /\ nextNotifyTime[s] # Never
                    THEN nextNotifyTime[s] + IntervalOf(s) ELSE nextNotifyTime[s]
           /\ ServingPeriodic => Head(due) \in Asking /\ Contains(due, Head(due))
  <1>1. UNCHANGED <<plan, now, subscribePc, subscriptions, callbacks, storedAt, scheduledAt>>
    BY DEF DeliverEnd, historyVars, timeHistory
  <1>2. ServingPeriodic <=> message.trigger = "Periodic"
    BY DEF DeliverEnd, ServingPeriodic
  <1>3. ASSUME ServingPeriodic
        PROVE  Head(due) \in Asking /\ Contains(due, Head(due)) /\ Head(due) \in Subscribers
    <2>1. Head(due) \in Subscribers /\ Contains(due, Head(due))
      BY <1>3, TailDistinct DEF TypeOK, WorkerTypeOK, WorkerOK
    <2>2. Head(due) \in Asking
      BY <2>1 DEF WorkerOK, DueOK, RegistryOK, RegistryOf
    <2>3. QED
      BY <2>1, <2>2
  <1>4. ASSUME NEW s \in Subscribers
        PROVE  nextNotifyTime'[s] =
                  IF ServingPeriodic /\ s = Head(due) /\ nextNotifyTime[s] # Never
                  THEN nextNotifyTime[s] + IntervalOf(s) ELSE nextNotifyTime[s]
    BY <1>2, <1>3 DEF DeliverEnd, TypeOK, RegistryTypeOK
  <1>5. QED
    BY <1>1, <1>3, <1>4

\* What is registered stays what the calls have come to.
LEMMA RegistryNext ==
    ASSUME TypeOK, RegistryOK, WorkerOK, [Next]_vars
    PROVE  RegistryOK'
  <1>1. CASE Tick \/ UNCHANGED vars \/ CallbackStep \/ \E t \in Targets : Changed(t)
    <2>1. UNCHANGED <<registryVars, storedAt, scheduledAt>>
      BY <1>1 DEF Tick, vars, CallbackStep, CallbackPop, CallbackLookup, CallbackCall, Changed,
                  historyVars, timeHistory
    <2>2. QED
      BY <2>1, RegistryFrame
  <1>2. CASE PublisherStep /\ ~DeliverEnd
    <2>1. UNCHANGED <<registryVars, storedAt, scheduledAt>>
      BY <1>2 DEF PublisherStep, PublisherPop, PublisherTimeout, PublishChange, SuppressChange,
                  PublishPeriodic, ChooseRecipients, Deliver, GetDueConditions, historyVars,
                  timeHistory
    <2>2. QED
      BY <2>1, RegistryFrame
  <1>3. CASE DeliverEnd
    <2>1. ASSUME NEW s \in Subscribers PROVE RegistryOf(s)'
      <3>1. s \in Asking => plan.request[s].interval \in Nat
        BY RequestType DEF TypeOK
      <3>2. nextNotifyTime'[s] # Never <=> nextNotifyTime[s] # Never
        BY <1>3, <3>1, UpdateNextTime, NeverApart DEF TypeOK, RegistryTypeOK
      <3>3. RegistryOf(s)
        BY DEF RegistryOK
      <3>4. QED
        BY <1>3, <3>2, <3>3, UpdateNextTime DEF RegistryOf
    <2>2. QED
      BY <1>3, <2>1, UpdateNextTime DEF RegistryOK
  <1>4. ASSUME NEW s \in Subscribers, ApplicationStep(s) PROVE RegistryOK'
    BY <1>4, ApplicationRegistry
  <1>5. QED
    BY <1>1, <1>2, <1>3, <1>4, NextIsStep
-----------------------------------------------------------------------------
(* What the publisher thread holds *)

\* What a call of the application may change under the publisher thread.
LEMMA ApplicationMoves ==
    ASSUME TypeOK, RegistryOK, NEW s \in Subscribers, ApplicationStep(s)
    PROVE  /\ UNCHANGED <<plan, now, publisherQueue, workerVars, delivered, limiterHistory>>
           /\ subscribePc'[s] # "store"
           /\ Registered(s) =>
                 /\ Registered(s)'
                 /\ nextNotifyTime'[s] \in {nextNotifyTime[s], Never}
           /\ \A u \in Subscribers \ {s} :
                 /\ subscribePc'[u] = subscribePc[u]
                 /\ nextNotifyTime'[u] = nextNotifyTime[u]
                 /\ storedAt'[u] = storedAt[u]
                 /\ scheduledAt'[u] = scheduledAt[u]
  BY DEF ApplicationStep, SubscribeStore, SubscribeReadClock, SubscribePeriodic,
         SubscribeCallback, SubscribeReturn,
     GetNotification, UnsubscribeCallback, UnsubscribeStore, UnsubscribePeriodic,
     UnsubscribeMailbox, AfterStore, AfterPeriodic, TypeOK, RegistryTypeOK, HistoryTypeOK,
     historyVars, timeHistory, limiterHistory, registryVars, workerVars

\* A message that is being delivered is not NoMessage.
LEMMA MessageApart == \A m \in Message : m # NoMessage
  BY NeverApart DEF Message, NoMessage

\* A call of the application takes nothing away that the thread relies on.
LEMMA ApplicationWorker ==
    ASSUME TypeOK, RegistryOK, WorkerOK, NEW s \in Subscribers, ApplicationStep(s)
    PROVE  WorkerOK'
  <1>1. UNCHANGED <<plan, now, publisherPc, message, recipients, due>>
    BY ApplicationMoves DEF workerVars
  <1>2. ASSUME NEW u \in Subscribers PROVE RecipientOK(u)' /\ DueOK(u)'
    <2>1. RecipientOK(u) /\ DueOK(u)
      BY DEF WorkerOK
    <2>2. CASE u = s
      BY <1>1, <2>1, <2>2, ApplicationMoves DEF RecipientOK, DueOK, Contains
    <2>3. CASE u # s
      BY <1>1, <2>1, <2>3, ApplicationMoves DEF RecipientOK, DueOK, Contains
    <2>4. QED
      BY <2>2, <2>3
  <1>3. QED
    BY <1>1, <1>2 DEF WorkerOK, ServingPeriodic, Distinct

\* From one step of the publisher thread to the next it holds what it should.
LEMMA PublisherWorkerOK ==
    ASSUME TypeOK, RegistryOK, WorkerOK, PublisherStep
    PROVE  WorkerOK'
  <1> USE DEF TypeOK, WorkerTypeOK, registryVars
  <1>0. /\ plan.time \in Nat /\ now \in Nat
        /\ \A s \in Subscribers : RecipientOK(s) /\ DueOK(s)
        /\ \A s \in Subscribers : RegistryOf(s)
    BY PublisherAssumption DEF IsPlan, WorkerOK, RegistryOK
  <1>1. CASE PublisherPop
    <2>1. Head(publisherQueue) \in PublisherEvent
      BY <1>1, TailProperties DEF PublisherPop
    <2>2. message' \in Message /\ message'.trigger = "OnChange"
      BY <1>1, <2>1 DEF PublisherPop, PublisherEvent, Message, Triggers
    <2>3. recipients = <<>> /\ due = <<>>
      BY <1>1 DEF PublisherPop, WorkerOK, ServingPeriodic
    <2>4. QED
      BY <1>1, <2>2, <2>3, MessageApart, EmptyList
         DEF PublisherPop, WorkerOK, ServingPeriodic, RecipientOK, DueOK
  <1>2. CASE PublisherTimeout
    <2>1. recipients = <<>> /\ due = <<>> /\ message = NoMessage
      BY <1>2 DEF PublisherTimeout, WorkerOK, ServingPeriodic
    <2>2. QED
      BY <1>2, <2>1, EmptyList
         DEF PublisherTimeout, WorkerOK, ServingPeriodic, RecipientOK, DueOK
  <1>3. CASE PublishChange
    <2>1. recipients = <<>> /\ due = <<>> /\ message # NoMessage /\ message.trigger = "OnChange"
      BY <1>3 DEF PublishChange, WorkerOK, ServingPeriodic
    <2>2. QED
      BY <1>3, <2>1, EmptyList
         DEF PublishChange, WorkerOK, ServingPeriodic, RecipientOK, DueOK
  <1>4. CASE SuppressChange
    <2>1. recipients = <<>> /\ due = <<>>
      BY <1>4 DEF SuppressChange, WorkerOK, ServingPeriodic
    <2>2. QED
      BY <1>4, <2>1, EmptyList
         DEF SuppressChange, WorkerOK, ServingPeriodic, RecipientOK, DueOK
  <1>5. CASE PublishPeriodic
    <2>1. recipients = <<>> /\ due # <<>> /\ message = NoMessage /\ Distinct(due)
      BY <1>5 DEF PublishPeriodic, WorkerOK
    <2> DEFINE h == Head(due)
    <2>2. h \in Subscribers /\ Contains(due, h) /\ DueOK(h)
      BY <1>0, <2>1, TailDistinct
    <2>3. CASE Contains(subscriptions, h)
      <3>1. /\ message' = [target |-> TargetOf(h), trigger |-> "Periodic"]
            /\ publisherPc' = "choose"
            /\ UNCHANGED <<plan, now, due, recipients, subscribePc, nextNotifyTime>>
        BY <1>5, <2>3 DEF PublishPeriodic
      <3> HIDE DEF h
      <3>2. TargetOf(h) \in Targets
        BY <1>0, <2>2, RequestType DEF DueOK, RegistryOf, Registered
      <3>3. message' \in Message
        BY <3>1, <3>2 DEF Message, Triggers
      <3>4. \A s \in Subscribers : RecipientOK(s)' /\ DueOK(s)'
        BY <1>0, <2>1, <3>1, EmptyList DEF RecipientOK, DueOK, Registered
      <3>5. QED
        BY <2>1, <3>1, <3>3, <3>4, EmptyList, MessageApart DEF WorkerOK, ServingPeriodic, h
    <2>4. CASE ~Contains(subscriptions, h)
      <3>1. /\ due' = Tail(due)
            /\ publisherPc' = IF Tail(due) = <<>> THEN "wait" ELSE "due"
            /\ UNCHANGED <<plan, now, message, recipients, subscribePc, nextNotifyTime>>
        BY <1>5, <2>4 DEF PublishPeriodic
      <3>2. Distinct(due') /\ \A s : Contains(due', s) => Contains(due, s)
        BY <2>1, <3>1, TailDistinct
      <3>3. \A s \in Subscribers : DueOK(s)' /\ RecipientOK(s)'
        BY <1>0, <2>1, <3>1, <3>2, EmptyList DEF DueOK, RecipientOK
      <3>4. QED
        BY <2>1, <3>1, <3>2, <3>3, EmptyList DEF WorkerOK, ServingPeriodic
    <2>5. QED
      BY <2>3, <2>4
  <1>6. CASE Deliver
    <2>1. /\ recipients # <<>> /\ Distinct(recipients)
          /\ recipients' = Tail(recipients)
          /\ UNCHANGED <<plan, now, publisherPc, message, due, subscribePc, nextNotifyTime>>
      BY <1>6 DEF Deliver, WorkerOK
    <2>2. Distinct(recipients') /\ \A s : Contains(recipients', s) => Contains(recipients, s)
      BY <2>1, TailDistinct
    <2>3. \A s \in Subscribers : DueOK(s)' /\ RecipientOK(s)'
      BY <1>0, <2>1, <2>2 DEF DueOK, RecipientOK
    <2>4. publisherPc = "deliver"
      BY <1>6 DEF Deliver
    <2>5. QED
      BY <2>1, <2>2, <2>3, <2>4 DEF WorkerOK, ServingPeriodic, Distinct
  <1>7. CASE GetDueConditions
    <2>1. recipients = <<>> /\ message = NoMessage
      BY <1>7 DEF GetDueConditions, WorkerOK
    <2>2. Distinct(due') /\ \A s : Contains(due', s) => s \in Due
      BY <1>7, DueProperties DEF GetDueConditions, Due
    <2>3. \A s \in Subscribers : DueOK(s)' /\ RecipientOK(s)'
      BY <1>0, <1>7, <2>1, <2>2, EmptyList
         DEF GetDueConditions, DueOK, RecipientOK, Due, RegistryOf, InConditions
    <2>4. QED
      BY <1>7, <2>1, <2>2, <2>3, EmptyList DEF GetDueConditions, WorkerOK, ServingPeriodic
  <1>8. CASE DeliverEnd
    <2>1. recipients' = <<>> /\ message' = NoMessage /\ UNCHANGED <<plan, now, subscribePc>>
      BY <1>8 DEF DeliverEnd
    <2>2. CASE ServingPeriodic
      <3>1. /\ due # <<>> /\ Distinct(due)
            /\ due' = Tail(due)
            /\ publisherPc' = IF Tail(due) = <<>> THEN "wait" ELSE "due"
        BY <1>8, <2>2 DEF DeliverEnd, ServingPeriodic, WorkerOK
      <3>2. /\ Distinct(due')
            /\ \A s : Contains(due', s) => s # Head(due) /\ Contains(due, s)
        BY <3>1, TailDistinct
      <3>3. \A s \in Subscribers : s # Head(due) => nextNotifyTime'[s] = nextNotifyTime[s]
        BY <1>8, UpdateNextTime
      <3>4. \A s \in Subscribers : DueOK(s)' /\ RecipientOK(s)'
        BY <1>0, <2>1, <3>2, <3>3, EmptyList DEF DueOK, RecipientOK
      <3>5. QED
        BY <2>1, <3>1, <3>2, <3>4, EmptyList DEF WorkerOK, ServingPeriodic
    <2>3. CASE ~ServingPeriodic
      <3>1. publisherPc' = "periodic" /\ due' = <<>>
        BY <1>8, <2>3 DEF DeliverEnd, ServingPeriodic, WorkerOK
      <3>2. QED
        BY <2>1, <3>1, EmptyList DEF WorkerOK, ServingPeriodic, DueOK, RecipientOK
    <2>4. QED
      BY <2>2, <2>3
  <1>9. CASE ChooseRecipients
    <2>1. /\ recipients = <<>> /\ Distinct(due) /\ message # NoMessage
          /\ publisherPc = "choose" /\ publisherPc' = "deliver"
          /\ recipients' \in GetSubscriptions(message.target, message.trigger)
          /\ UNCHANGED <<plan, now, message, due, subscribePc, nextNotifyTime>>
      BY <1>9 DEF ChooseRecipients, WorkerOK
    <2>2. /\ Distinct(recipients')
          /\ \A s : Contains(recipients', s) =>
                /\ Contains(subscriptions, s)
                /\ TargetOf(s) = message.target
                /\ TriggerOf(s) = message.trigger
      BY <2>1, GetSubscriptionsProperties DEF RegistryTypeOK
    <2>3. \A s \in Subscribers : RecipientOK(s)'
      BY <1>0, <2>1, <2>2 DEF RecipientOK, RegistryOf, InStore
    <2>4. \A s \in Subscribers : DueOK(s)'
      BY <1>0, <2>1 DEF DueOK, Registered
    <2>5. QED
      BY <2>1, <2>2, <2>3, <2>4 DEF WorkerOK, ServingPeriodic
  <1>10. QED
    BY <1>1, <1>2, <1>3, <1>4, <1>5, <1>6, <1>7, <1>8, <1>9 DEF PublisherStep

\* The publisher thread holds what it should, whoever takes the step.
LEMMA WorkerNext ==
    ASSUME TypeOK, RegistryOK, WorkerOK, [Next]_vars
    PROVE  WorkerOK'
  <1>1. CASE Tick \/ UNCHANGED vars \/ CallbackStep \/ \E t \in Targets : Changed(t)
    <2>1. UNCHANGED <<plan, workerVars, registryVars>>
      BY <1>1 DEF Tick, vars, CallbackStep, CallbackPop, CallbackLookup, CallbackCall, Changed
    <2>2. UNCHANGED <<plan, publisherPc, message, recipients, due, subscribePc, nextNotifyTime>>
      BY <2>1 DEF workerVars, registryVars
    <2>3. now \in Nat /\ now' \in Nat /\ now <= now'
      BY PlanAndClock, PublisherAssumption DEF TypeOK, IsPlan
    <2>4. \A s \in Subscribers : nextNotifyTime[s] \in Nat \cup {Never}
      BY DEF TypeOK, RegistryTypeOK
    <2>5. ASSUME NEW s \in Subscribers PROVE RecipientOK(s)' /\ DueOK(s)'
      <3>1. RecipientOK(s) /\ DueOK(s)
        BY DEF WorkerOK
      <3>2. QED
        BY <2>2, <2>3, <2>4, <3>1 DEF RecipientOK, DueOK, Contains
    <2>6. QED
      BY <2>2, <2>5 DEF WorkerOK, ServingPeriodic, Distinct
  <1>2. CASE PublisherStep
    BY <1>2, PublisherWorkerOK
  <1>3. ASSUME NEW s \in Subscribers, ApplicationStep(s) PROVE WorkerOK'
    BY <1>3, ApplicationWorker
  <1>4. QED
    BY <1>1, <1>2, <1>3, NextIsStep
-----------------------------------------------------------------------------
(* What the callback thread holds *)

\* A call of the application reaches the callbacks of s alone, and forgets its
\* callback long before it is done.
LEMMA ApplicationCallback ==
    ASSUME TypeOK, RegistryOK, CallbackOK, NEW s \in Subscribers, ApplicationStep(s)
    PROVE  CallbackOK'
  <1>1. UNCHANGED <<plan, callbackQueue, callbackPc, calling, lateCalls>>
    BY DEF ApplicationStep, SubscribeStore, SubscribeReadClock, SubscribePeriodic,
           SubscribeCallback, SubscribeReturn,
     GetNotification, UnsubscribeCallback, UnsubscribeStore, UnsubscribePeriodic,
     UnsubscribeMailbox, historyVars, timeHistory, callbackVars
  <1>2. subscribePc[s] # "unsubscribed" \/ subscribePc'[s] = "unsubscribed"
    BY DEF ApplicationStep, SubscribeStore, SubscribeReadClock, SubscribePeriodic,
           SubscribeCallback, SubscribeReturn,
       GetNotification, UnsubscribeCallback, UnsubscribeStore, UnsubscribePeriodic,
       UnsubscribeMailbox, registryVars
  <1>3. ASSUME NEW u \in Subscribers PROVE LateOK(u)'
    <2>1. LateOK(u) /\ lateCalls[u] \in Nat
      BY DEF CallbackOK, TypeOK, HistoryTypeOK
    <2>2. subscribePc[u] # "unsubscribed" \/ subscribePc'[u] = "unsubscribed"
      BY <1>2, ApplicationMoves
    <2>3. QED
      BY <1>1, <2>1, <2>2 DEF LateOK
  <1>4. QED
    BY <1>1, <1>3 DEF CallbackOK, CallbackFor

\* The callback thread looks a callback up and calls it, once.
LEMMA CallbackThread ==
    ASSUME TypeOK, RegistryOK, CallbackOK, CallbackStep
    PROVE  CallbackOK'
  <1>1. UNCHANGED <<plan, subscribePc>>
    BY DEF CallbackStep, CallbackPop, CallbackLookup, CallbackCall, registryVars
  <1>2. \A e \in CallbackEvent : e # NoCall
    BY NeverApart DEF CallbackEvent, NoCall
  <1>3. \A u \in Subscribers : LateOK(u) /\ lateCalls[u] \in Nat
    BY DEF CallbackOK, TypeOK, HistoryTypeOK
  <1>4. CASE CallbackPop
    <2>1. /\ DOMAIN callbackQueue = 1 .. Len(callbackQueue)
          /\ Len(callbackQueue) \in Nat \ {0}
          /\ Head(callbackQueue) \in CallbackEvent /\ Head(callbackQueue) = callbackQueue[1]
          /\ DOMAIN Tail(callbackQueue) = 1 .. Len(callbackQueue) - 1
          /\ \A k \in 1 .. Len(callbackQueue) - 1 : Tail(callbackQueue)[k] = callbackQueue[k + 1]
      BY <1>4, TailProperties DEF CallbackPop, TypeOK, SinkTypeOK
    <2>2. \A k \in 1 .. Len(callbackQueue) - 1 : k + 1 \in 1 .. Len(callbackQueue)
      BY <2>1
    <2>3. /\ calling' = Head(callbackQueue) /\ callbackQueue' = Tail(callbackQueue)
          /\ callbackPc = "wait" /\ callbackPc' = "lookup" /\ UNCHANGED lateCalls
      BY <1>4 DEF CallbackPop, historyVars
    <2>4. 1 \in DOMAIN callbackQueue /\ CallbackFor(callbackQueue[1])' = CallbackFor(callbackQueue[1])'
      BY <2>1
    <2>5. \A k \in DOMAIN callbackQueue : CallbackFor(callbackQueue[k].id)
      BY DEF CallbackOK
    <2>6. \A k \in DOMAIN callbackQueue' : CallbackFor(callbackQueue'[k].id)
      BY <2>1, <2>2, <2>3, <2>5
    <2>7. \A u : CallbackFor(u)' <=> CallbackFor(u)
      BY <1>1 DEF CallbackFor
    <2>8. CallbackFor(calling'.id)
      BY <2>1, <2>3, <2>4, <2>5
    <2>9. \A u \in Subscribers : LateOK(u)'
      BY <1>1, <1>3, <2>3 DEF LateOK
    <2>10. QED
      BY <1>1, <1>2, <2>1, <2>3, <2>6, <2>8, <2>9 DEF CallbackOK, CallbackFor
  <1>5. CASE CallbackLookup
    <2>1. /\ callbackPc = "lookup" /\ UNCHANGED <<callbackQueue, lateCalls>>
          /\ IF calling.id \in callbacks THEN callbackPc' = "call" /\ UNCHANGED calling
             ELSE callbackPc' = "wait" /\ calling' = NoCall
      BY <1>5 DEF CallbackLookup, historyVars
    <2>2. \A u \in Subscribers : u \in callbacks => subscribePc[u] # "unsubscribed"
      BY DEF RegistryOK, RegistryOf
    <2>3. \A u \in Subscribers : LateOK(u)'
      BY <1>1, <1>3, <2>1, <2>2 DEF LateOK
    <2>4. QED
      BY <1>1, <2>1, <2>3 DEF CallbackOK, CallbackFor
  <1>6. CASE CallbackCall
    <2>1. /\ callbackPc = "call" /\ callbackPc' = "wait" /\ calling' = NoCall
          /\ UNCHANGED callbackQueue
          /\ lateCalls' = [lateCalls EXCEPT ![calling.id] =
                IF subscribePc[calling.id] = "unsubscribed" THEN @ + 1 ELSE @]
      BY <1>6 DEF CallbackCall
    <2>2. ASSUME NEW u \in Subscribers PROVE LateOK(u)'
      <3>1. lateCalls'[u] = IF u = calling.id /\ subscribePc[u] = "unsubscribed"
                            THEN lateCalls[u] + 1 ELSE lateCalls[u]
        BY <2>1 DEF TypeOK, HistoryTypeOK
      <3>2. QED
        BY <1>1, <1>3, <2>1, <3>1 DEF LateOK
    <2>3. QED
      BY <1>1, <2>1, <2>2 DEF CallbackOK, CallbackFor
  <1>7. QED
    BY <1>4, <1>5, <1>6 DEF CallbackStep

\* A notification is queued for callback subscribers only.
LEMMA DeliverCallback ==
    ASSUME TypeOK, RegistryOK, WorkerOK, CallbackOK, Deliver
    PROVE  CallbackOK'
  <1> DEFINE s == Head(recipients)
             e == [id |-> s, trigger |-> message.trigger]
  <1>1. s \in Subscribers /\ Contains(recipients, s)
    BY TailDistinct DEF Deliver, TypeOK, WorkerTypeOK
  <1>2. s \in Asking
    BY <1>1 DEF WorkerOK, RecipientOK, RegistryOK, RegistryOf
  <1>3. UNCHANGED <<plan, subscribePc, callbackPc, calling, lateCalls>>
    BY DEF Deliver, registryVars, callbackVars
  <1>4. e \in CallbackEvent
    BY <1>1 DEF CallbackEvent, Deliver, TypeOK, WorkerTypeOK, WorkerOK, Message
  <1>5. /\ Append(callbackQueue, e) \in Seq(CallbackEvent)
        /\ Len(Append(callbackQueue, e)) = Len(callbackQueue) + 1
        /\ \A k \in 1 .. Len(callbackQueue) : Append(callbackQueue, e)[k] = callbackQueue[k]
        /\ Append(callbackQueue, e)[Len(callbackQueue) + 1] = e
    BY <1>4, AppendProperties DEF TypeOK, SinkTypeOK
  <1>6. /\ DOMAIN callbackQueue = 1 .. Len(callbackQueue) /\ Len(callbackQueue) \in Nat
        /\ DOMAIN Append(callbackQueue, e) = 1 .. Len(callbackQueue) + 1
    BY <1>5, LenProperties DEF TypeOK, SinkTypeOK
  <1>7. callbackQueue' = IF MethodOf(s) = "Callback" THEN Append(callbackQueue, e)
                         ELSE callbackQueue
    BY DEF Deliver, FifoInsert
  <1> HIDE DEF s
  <1>8. e.id = s
    OBVIOUS
  <1> HIDE DEF e
  <1>9. \A k \in DOMAIN callbackQueue : CallbackFor(callbackQueue[k].id)
    BY DEF CallbackOK
  <1>10. \A k \in DOMAIN callbackQueue' : CallbackFor(callbackQueue'[k].id)
    <2>1. CASE callbackQueue' = callbackQueue
      BY <1>9, <2>1
    <2>2. CASE MethodOf(s) = "Callback" /\ callbackQueue' = Append(callbackQueue, e)
      <3>1. \A k \in 1 .. Len(callbackQueue) + 1 : k \in 1 .. Len(callbackQueue)
                                                    \/ k = Len(callbackQueue) + 1
        BY <1>6
      <3>2. CallbackFor(s)
        BY <1>2, <2>2 DEF CallbackFor
      <3>3. QED
        BY <1>5, <1>6, <1>8, <1>9, <2>2, <3>1, <3>2
    <2>3. QED
      BY <1>7, <2>1, <2>2
  <1>11. QED
    BY <1>3, <1>10 DEF CallbackOK, CallbackFor, LateOK

\* The callback thread holds what it should, whoever takes the step.
LEMMA CallbackNext ==
    ASSUME TypeOK, RegistryOK, WorkerOK, CallbackOK, [Next]_vars
    PROVE  CallbackOK'
  <1>1. CASE \/ Tick \/ UNCHANGED vars \/ (\E t \in Targets : Changed(t))
             \/ PublisherStep /\ ~Deliver
    <2>1. UNCHANGED <<plan, subscribePc, callbackQueue, callbackPc, calling, lateCalls>>
      BY <1>1 DEF Tick, vars, Changed, PublisherStep, PublisherPop, PublisherTimeout,
         PublishChange, SuppressChange, PublishPeriodic, ChooseRecipients, GetDueConditions,
         DeliverEnd,
         registryVars, callbackVars, historyVars
    <2>2. QED
      BY <2>1 DEF CallbackOK, CallbackFor, LateOK
  <1>2. CASE Deliver
    BY <1>2, DeliverCallback
  <1>3. CASE CallbackStep
    BY <1>3, CallbackThread
  <1>4. ASSUME NEW s \in Subscribers, ApplicationStep(s) PROVE CallbackOK'
    BY <1>4, ApplicationCallback
  <1>5. QED
    BY <1>1, <1>2, <1>3, <1>4, NextIsStep
-----------------------------------------------------------------------------
(* The rate limiter *)

\* Only PublishManager::Publish of a change uses the limiter.
LEMMA LimiterFrame ==
    ASSUME [Next]_vars, ~PublishChange, ~SuppressChange
    PROVE  UNCHANGED <<suppressedAt, passedAt, lastNotifyTimes>>
  <1>1. Tick \/ UNCHANGED vars \/ CallbackStep \/ (\E t \in Targets : Changed(t))
           => UNCHANGED <<suppressedAt, passedAt, lastNotifyTimes>>
    BY DEF Tick, vars, CallbackStep, CallbackPop, CallbackLookup, CallbackCall, Changed,
           historyVars, limiterHistory, workerVars
  <1>2. ASSUME NEW s \in Subscribers, ApplicationStep(s)
        PROVE  UNCHANGED <<suppressedAt, passedAt, lastNotifyTimes>>
    BY <1>2 DEF ApplicationStep, SubscribeStore, SubscribeReadClock, SubscribePeriodic,
                SubscribeCallback,
       SubscribeReturn, GetNotification, UnsubscribeCallback, UnsubscribeStore,
       UnsubscribePeriodic, UnsubscribeMailbox, historyVars, limiterHistory, workerVars
  <1>3. PublisherStep => UNCHANGED <<suppressedAt, passedAt, lastNotifyTimes>>
    BY DEF PublisherStep, PublisherPop, PublisherTimeout, PublishPeriodic, ChooseRecipients,
           Deliver,
       GetDueConditions, DeliverEnd, historyVars, limiterHistory
  <1>4. QED
    BY <1>1, <1>2, <1>3, NextIsStep

\* The table of the limiter and the history of what passed move together.
LEMMA LimiterNext ==
    ASSUME TypeOK, WorkerOK, LimiterOK, [Next]_vars
    PROVE  LimiterOK'
  <1>1. plan' = plan /\ now \in Nat /\ now' \in Nat /\ now <= now'
    BY PlanAndClock, PublisherAssumption DEF TypeOK, IsPlan
  <1>2. /\ \A t \in Targets : /\ passedAt[t] \in Nat \cup {Never}
                              /\ suppressedAt[t] \in Nat \cup {Never}
        /\ \A k \in LimiterKeys : lastNotifyTimes[k] \in Nat \cup {Never}
    BY DEF TypeOK, HistoryTypeOK, WorkerTypeOK
  <1>3. \A t : LimiterKey(t)' = LimiterKey(t)
    BY <1>1 DEF LimiterKey
  <1>4. message.target \in Targets \/ publisherPc # "publish"
    BY DEF WorkerOK, TypeOK, WorkerTypeOK, Message
  <1>5. CASE PublishChange
    <2> DEFINE t == message.target
    <2>1. /\ t \in Targets
          /\ lastNotifyTimes' = [lastNotifyTimes EXCEPT ![LimiterKey(t)] = now]
          /\ suppressedAt' = [suppressedAt EXCEPT ![t] = Never]
          /\ passedAt' = [passedAt EXCEPT ![t] = now]
          /\ now' = now
      BY <1>4, <1>5 DEF PublishChange
    <2> HIDE DEF t
    <2>2. /\ \A u \in Targets : /\ passedAt'[u] = IF u = t THEN now ELSE passedAt[u]
                                /\ suppressedAt'[u] = IF u = t THEN Never ELSE suppressedAt[u]
          /\ \A k \in LimiterKeys : lastNotifyTimes'[k] =
                IF k = LimiterKey(t) THEN now ELSE lastNotifyTimes[k]
      BY <2>1 DEF TypeOK, HistoryTypeOK, WorkerTypeOK
    <2>3. \A u \in Targets : /\ passedAt'[u] # Never => passedAt'[u] <= now'
                             /\ suppressedAt'[u] # Never => suppressedAt'[u] <= now'
      BY <1>1, <2>1, <2>2 DEF LimiterOK
    <2>4. ASSUME NEW k \in LimiterKeys PROVE PassedLast(k)'
      <3>1. CASE k = LimiterKey(t)
        BY <1>3, <2>1, <2>2, <3>1 DEF PassedLast
      <3>2. CASE k # LimiterKey(t)
        BY <1>3, <2>1, <2>2, <3>2 DEF PassedLast, LimiterOK
      <3>3. QED
        BY <3>1, <3>2
    <2>5. QED
      BY <2>3, <2>4 DEF LimiterOK
  <1>6. CASE SuppressChange
    <2>1. /\ message.target \in Targets
          /\ suppressedAt' = [suppressedAt EXCEPT ![message.target] = now]
          /\ UNCHANGED <<now, passedAt, lastNotifyTimes>>
      BY <1>4, <1>6 DEF SuppressChange
    <2>2. \A u \in Targets :
             suppressedAt'[u] = IF u = message.target THEN now ELSE suppressedAt[u]
      BY <2>1 DEF TypeOK, HistoryTypeOK
    <2>3. QED
      BY <1>1, <1>3, <2>1, <2>2 DEF LimiterOK, PassedLast
  <1>7. CASE ~PublishChange /\ ~SuppressChange
    <2>1. UNCHANGED <<suppressedAt, passedAt, lastNotifyTimes>>
      BY <1>7, LimiterFrame
    <2>2. QED
      BY <1>1, <1>2, <1>3, <2>1 DEF LimiterOK, PassedLast
  <1>8. QED
    BY <1>5, <1>6, <1>7
-----------------------------------------------------------------------------
(* Counting notifications *)

\* Products of an interval and a count, which the provers do not expand alone.
LEMMA OneMore ==
    ASSUME NEW k \in Int, NEW i \in Nat
    PROVE  /\ (k + 1) * i = k * i + i
           /\ k * i \in Int
           /\ k >= 0 => k * i >= 0
           /\ k >= 1 /\ i >= 1 => k * i >= k
           /\ i = 0 => k * i = 0
  OBVIOUS

\* Only the one delivery counts, and it counts one subscriber, by one at most.
LEMMA DeliveryCounts ==
    ASSUME TypeOK, RegistryOK, WorkerOK, [Next]_vars
    PROVE  IF Deliver
           THEN /\ recipients # <<>> /\ Head(recipients) \in Asking
                /\ recipients' = Tail(recipients)
                /\ UNCHANGED <<publisherPc, message, due, lastNotifyTimes, subscribePc,
                               nextNotifyTime, timeHistory, now>>
                /\ \A s \in Subscribers : s # Head(recipients) => delivered'[s] = delivered[s]
                /\ delivered'[Head(recipients)] \in
                      {delivered[Head(recipients)], delivered[Head(recipients)] + 1}
           ELSE delivered' = delivered
  <1>1. CASE Deliver
    <2>1. recipients # <<>> /\ recipients' = Tail(recipients)
      BY <1>1 DEF Deliver
    <2>2. Head(recipients) \in Subscribers /\ Contains(recipients, Head(recipients))
      BY <2>1, TailDistinct DEF TypeOK, WorkerTypeOK
    <2>3. Head(recipients) \in Asking
      BY <2>2 DEF WorkerOK, RecipientOK, RegistryOK, RegistryOf
    <2>4. UNCHANGED <<publisherPc, message, due, lastNotifyTimes, subscribePc,
                      nextNotifyTime, timeHistory, now>>
      BY <1>1 DEF Deliver, registryVars, timeHistory
    <2>5. delivered' = [delivered EXCEPT ![Head(recipients)] =
                           IF @ < MaxDelivered THEN @ + 1 ELSE @]
      BY <1>1 DEF Deliver
    <2>6. /\ \A s \in Subscribers : s # Head(recipients) => delivered'[s] = delivered[s]
          /\ delivered'[Head(recipients)] \in
                {delivered[Head(recipients)], delivered[Head(recipients)] + 1}
      BY <2>2, <2>5 DEF TypeOK, HistoryTypeOK
    <2>7. QED
      BY <1>1, <2>1, <2>3, <2>4, <2>6
  <1>2. CASE ~Deliver
    <2>1. Tick \/ UNCHANGED vars \/ CallbackStep \/ (\E t \in Targets : Changed(t))
             => delivered' = delivered
      BY DEF Tick, vars, CallbackStep, CallbackPop, CallbackLookup, CallbackCall, Changed,
             historyVars
    <2>2. ASSUME NEW s \in Subscribers, ApplicationStep(s) PROVE delivered' = delivered
      BY <2>2, ApplicationMoves
    <2>3. PublisherStep => delivered' = delivered
      BY <1>2 DEF PublisherStep, PublisherPop, PublisherTimeout, PublishChange, SuppressChange,
         PublishPeriodic, ChooseRecipients, GetDueConditions, DeliverEnd, historyVars
    <2>4. QED
      BY <1>2, <2>1, <2>2, <2>3, NextIsStep
  <1>3. QED
    BY <1>1, <1>2

(***************************************************************************)
(* Who is notified, and the time stamp of the first change it is notified  *)
(* of, are decided in one place, for a change that has passed the limiter  *)
(* or for a condition.                                                     *)
(***************************************************************************)
LEMMA RecipientsComeFrom ==
    ASSUME TypeOK, RegistryOK, WorkerOK, [Next]_vars, ~Deliver, ~ChooseRecipients
    PROVE  /\ recipients' = recipients /\ chosenAt' = chosenAt
           /\ publisherPc' = "choose" /\ message'.trigger = "OnChange" =>
                 \/ PublishChange
                 \/ publisherPc = "choose" /\ message' = message
  <1>1. Tick \/ UNCHANGED vars \/ CallbackStep \/ (\E t \in Targets : Changed(t))
           => UNCHANGED <<recipients, chosenAt, publisherPc, message>>
    BY DEF Tick, vars, CallbackStep, CallbackPop, CallbackLookup, CallbackCall, Changed,
           workerVars, historyVars, timeHistory
  <1>2. ASSUME NEW s \in Subscribers, ApplicationStep(s)
        PROVE  UNCHANGED <<recipients, chosenAt, publisherPc, message>>
    BY <1>2 DEF ApplicationStep, SubscribeStore, SubscribeReadClock, SubscribePeriodic,
       SubscribeCallback, SubscribeReturn, GetNotification, UnsubscribeCallback,
       UnsubscribeStore, UnsubscribePeriodic, UnsubscribeMailbox, workerVars, historyVars,
       timeHistory
  <1>3. PublisherStep => recipients' = recipients /\ chosenAt' = chosenAt
    BY DEF PublisherStep, PublisherPop, PublisherTimeout, PublishChange, SuppressChange,
       PublishPeriodic, GetDueConditions, DeliverEnd, historyVars, timeHistory
  <1>4. PublisherStep /\ publisherPc' = "choose" =>
           PublishChange \/ message'.trigger = "Periodic"
    BY DEF PublisherStep, PublisherPop, PublisherTimeout, SuppressChange, PublishPeriodic,
       GetDueConditions, DeliverEnd
  <1>5. QED
    BY <1>1, <1>2, <1>3, <1>4, NextIsStep

\* When a subscription was stored and scheduled is remembered for good.
LEMMA TimesStay ==
    ASSUME TypeOK, RegistryOK, WorkerOK, [Next]_vars, NEW s \in Subscribers
    PROVE  /\ subscribePc[s] # "store" =>
                 subscribePc'[s] # "store" /\ storedAt'[s] = storedAt[s]
           /\ Registered(s) =>
                 /\ Registered(s)'
                 /\ scheduledAt'[s] = scheduledAt[s]
  <1>1. Tick \/ UNCHANGED vars \/ CallbackStep \/ (\E t \in Targets : Changed(t))
           => UNCHANGED <<subscribePc, storedAt, scheduledAt>>
    BY DEF Tick, vars, CallbackStep, CallbackPop, CallbackLookup, CallbackCall, Changed,
           registryVars, historyVars, timeHistory
  <1>2. PublisherStep => UNCHANGED <<subscribePc, storedAt, scheduledAt>>
    BY DEF PublisherStep, PublisherPop, PublisherTimeout, PublishChange, SuppressChange,
       PublishPeriodic, ChooseRecipients, Deliver, GetDueConditions, DeliverEnd,
       registryVars, historyVars, timeHistory
  <1>3. ASSUME NEW u \in Subscribers, ApplicationStep(u), u # s
        PROVE  UNCHANGED <<subscribePc[s], storedAt[s], scheduledAt[s]>>
    BY <1>3, ApplicationMoves
  <1>4. ASSUME ApplicationStep(s)
        PROVE  /\ subscribePc[s] # "store" =>
                     subscribePc'[s] # "store" /\ storedAt'[s] = storedAt[s]
               /\ Registered(s) =>
                     /\ Registered(s)'
                     /\ scheduledAt'[s] = scheduledAt[s]
    <2>1. subscribePc[s] # "store" => storedAt'[s] = storedAt[s]
      BY <1>4 DEF ApplicationStep, SubscribeStore, SubscribeReadClock, SubscribePeriodic,
                  SubscribeCallback,
         SubscribeReturn, GetNotification, UnsubscribeCallback, UnsubscribeStore,
         UnsubscribePeriodic, UnsubscribeMailbox, historyVars, timeHistory
    <2>2. Registered(s) => scheduledAt'[s] = scheduledAt[s]
      BY <1>4 DEF ApplicationStep, SubscribeStore, SubscribeReadClock, SubscribePeriodic,
                  SubscribeCallback,
         SubscribeReturn, GetNotification, UnsubscribeCallback, UnsubscribeStore,
         UnsubscribePeriodic, UnsubscribeMailbox, historyVars, timeHistory
    <2>3. QED
      BY <1>4, <2>1, <2>2, ApplicationMoves
  <1>5. QED
    BY <1>1, <1>2, <1>3, <1>4, NextIsStep

\* A time in the limiter's table is past.
LEMMA LastPassIsPast ==
    ASSUME TypeOK, LimiterOK, NEW s \in Asking
    PROVE  /\ LastPass(s) \in Nat \cup {Never}
           /\ LastPass(s) # Never => LastPass(s) <= now
  <1>1. LimiterKey(TargetOf(s)) \in LimiterKeys
    BY RequestType, LimiterKeyType DEF TypeOK
  <1>2. LastPass(s) \in Nat \cup {Never}
    BY <1>1 DEF LastPass, TypeOK, WorkerTypeOK
  <1>3. LastPass(s) # Never => LastPass(s) <= now
    BY <1>1 DEF LastPass, LimiterOK, PassedLast
  <1>4. QED
    BY <1>2, <1>3

(***************************************************************************)
(* When recipients are chosen, the entry of the limiter is still the time  *)
(* stamp of the change that passed.                                        *)
(***************************************************************************)
LEMMA PassedNowNext ==
    ASSUME TypeOK, RegistryOK, WorkerOK, PassedNow, [Next]_vars
    PROVE  PassedNow'
  <1>1. plan' = plan /\ now \in Nat
    BY PlanAndClock, PublisherAssumption DEF TypeOK, IsPlan
  <1>2. CASE PublishChange
    <2> DEFINE t == message.target
    <2>1. /\ message' = message /\ publisherPc = "publish"
          /\ lastNotifyTimes' = [lastNotifyTimes EXCEPT ![LimiterKey(t)] = now]
          /\ passedAt' = [passedAt EXCEPT ![t] = now]
      BY <1>2 DEF PublishChange
    <2>2. t \in Targets
      BY <2>1 DEF WorkerOK, TypeOK, WorkerTypeOK, Message
    <2>3. LimiterKey(t)' = LimiterKey(t) /\ LimiterKey(t) \in LimiterKeys
      BY <1>1, <2>1, <2>2, LimiterKeyType DEF LimiterKey
    <2>4. passedAt'[t] = now /\ lastNotifyTimes'[LimiterKey(t)] = now
      BY <2>1, <2>2, <2>3 DEF TypeOK, HistoryTypeOK, WorkerTypeOK
    <2>5. QED
      BY <1>1, <2>1, <2>3, <2>4, NeverApart DEF PassedNow
  <1>3. CASE Deliver \/ ChooseRecipients \/ SuppressChange
    BY <1>3 DEF Deliver, ChooseRecipients, SuppressChange, PassedNow
  <1>4. CASE ~(PublishChange \/ Deliver \/ ChooseRecipients \/ SuppressChange)
    <2>1. UNCHANGED <<passedAt, lastNotifyTimes>>
      BY <1>4, LimiterFrame
    <2>2. publisherPc' = "choose" /\ message'.trigger = "OnChange" =>
             publisherPc = "choose" /\ message' = message
      BY <1>4, RecipientsComeFrom
    <2>3. QED
      BY <1>1, <2>1, <2>2 DEF PassedNow, LimiterKey
  <1>5. QED
    BY <1>2, <1>3, <1>4

\* The numbers that RateOf speaks of.
LEMMA RateNumbers ==
    ASSUME TypeOK, RegistryOK, LimiterOK, RateOK, NEW s \in Asking
    PROVE  /\ s \in Subscribers /\ TargetOf(s) \in Targets
           /\ now \in Nat /\ delivered[s] \in Nat /\ Minimum(s) \in Nat
           /\ chosenAt[s] \in Nat \cup {Never}
           /\ LastPass(s) # Never => LastPass(s) \in Nat /\ LastPass(s) <= now
           /\ subscribePc[s] # "store" => storedAt[s] \in Nat /\ storedAt[s] <= now
           /\ (delivered[s] - 2) * Minimum(s) \in Int
           /\ (delivered[s] - 1) * Minimum(s) = (delivered[s] - 2) * Minimum(s) + Minimum(s)
           /\ delivered[s] * Minimum(s) = (delivered[s] - 1) * Minimum(s) + Minimum(s)
           /\ delivered[s] = 0 => delivered[s] * Minimum(s) = 0
           /\ delivered[s] = 1 => (delivered[s] - 1) * Minimum(s) = 0
           /\ RateOf(s)
  <1> DEFINE D == delivered[s]
             m == Minimum(s)
  <1>1. /\ s \in Subscribers /\ TargetOf(s) \in Targets
        /\ now \in Nat /\ D \in Nat /\ m \in Nat /\ chosenAt[s] \in Nat \cup {Never}
    BY RequestType, PublisherAssumption DEF TypeOK, IsPlan, HistoryTypeOK, Minimum
  <1>2. LastPass(s) # Never => LastPass(s) \in Nat /\ LastPass(s) <= now
    BY LastPassIsPast
  <1>3. subscribePc[s] # "store" => storedAt[s] \in Nat /\ storedAt[s] <= now
    BY <1>1 DEF RegistryOK, RegistryOf, TypeOK, HistoryTypeOK
  <1> HIDE DEF D, m
  <1>4. D - 2 \in Int /\ D - 1 \in Int /\ (D - 2) + 1 = D - 1 /\ (D - 1) + 1 = D
    BY <1>1
  <1>5. (D - 2) * m \in Int /\ ((D - 2) + 1) * m = (D - 2) * m + m
    BY <1>1, <1>4, OneMore
  <1>6. ((D - 1) + 1) * m = (D - 1) * m + m
    BY <1>1, <1>4, OneMore
  <1>7. /\ (D - 1) * m = (D - 2) * m + m
        /\ D * m = (D - 1) * m + m
    BY <1>4, <1>5, <1>6
  <1>8. (D = 0 => D * m = 0) /\ (D = 1 => (D - 1) * m = 0)
    BY <1>1
  <1>9. RateOf(s)
    BY DEF RateOK
  <1>10. QED
    BY <1>1, <1>2, <1>3, <1>5, <1>7, <1>8, <1>9 DEF D, m

\* A change that is let pass pays for one more notification.
LEMMA PassPays ==
    ASSUME TypeOK, RegistryOK, WorkerOK, LimiterOK, RateOK, PublishChange, NEW s \in Asking
    PROVE  RateOf(s)'
  <1> DEFINE D == delivered[s]
             L == LastPass(s)
             m == Minimum(s)
             t == message.target
             fewer == (D - 2) * m
             one   == (D - 1) * m
             all   == D * m
  <1>1. /\ s \in Subscribers /\ TargetOf(s) \in Targets
        /\ now \in Nat /\ D \in Nat /\ m \in Nat /\ chosenAt[s] \in Nat \cup {Never}
        /\ L # Never => L \in Nat /\ L <= now
        /\ subscribePc[s] # "store" => storedAt[s] \in Nat /\ storedAt[s] <= now
    BY RateNumbers
  <1>2. fewer \in Int /\ one = fewer + m /\ all = one + m /\ (D = 1 => one = 0)
    BY RateNumbers
  <1>3. /\ UNCHANGED <<plan, now, message, recipients, delivered, subscribePc, storedAt,
                       chosenAt>>
        /\ lastNotifyTimes' = [lastNotifyTimes EXCEPT ![LimiterKey(t)] = now]
        /\ lastNotifyTimes[LimiterKey(t)] # Never =>
              now - lastNotifyTimes[LimiterKey(t)] >= MinimumInterval[t]
        /\ recipients = <<>>
    BY DEF PublishChange, registryVars, timeHistory, ShouldNotify, WorkerOK
  <1>4. LastPass(s)' = IF LimiterKey(TargetOf(s)) = LimiterKey(t) THEN now ELSE L
    <2>1. LimiterKey(TargetOf(s)) \in LimiterKeys
      BY <1>1, LimiterKeyType
    <2>2. LastPass(s)' = lastNotifyTimes'[LimiterKey(TargetOf(s))]
      BY <1>3 DEF LastPass, LimiterKey
    <2>3. QED
      BY <1>3, <2>1, <2>2 DEF LastPass, TypeOK, WorkerTypeOK
  <1>5. Minimum(s)' = m
    BY <1>3 DEF Minimum
  <1>6. ASSUME Granted(s)'
        PROVE  LastPass(s)' = now /\ (L # Never => now - L >= m)
    <2>1. t = TargetOf(s)
      BY <1>3, <1>6, EmptyList DEF Granted
    <2>2. QED
      BY <1>3, <1>4, <2>1 DEF L, m, LastPass, Minimum
  <1>7. ASSUME TriggerOf(s) = "OnChange", chosenAt[s] # Never
        PROVE  /\ subscribePc[s] # "store" /\ L # Never
               /\ one <= L - chosenAt[s]
               /\ D > 1 => fewer <= L - storedAt[s]
    BY <1>7, RateNumbers DEF RateOf
  <1>8. TriggerOf(s) = "OnChange" /\ chosenAt[s] = Never => D = 0 /\ ~Contains(recipients, s)
    BY RateNumbers DEF RateOf
  <1> HIDE DEF D, L, m, fewer, one, all
  <1>9. ASSUME TriggerOf(s) = "OnChange", chosenAt[s] # Never
        PROVE  /\ LastPass(s)' # Never
               /\ one <= LastPass(s)' - chosenAt[s]
               /\ D > 1 => fewer <= LastPass(s)' - storedAt[s]
               /\ Granted(s)' =>
                     /\ all <= LastPass(s)' - chosenAt[s]
                     /\ D > 0 => one <= LastPass(s)' - storedAt[s]
    <2>1. chosenAt[s] \in Nat /\ L \in Nat /\ L <= now /\ storedAt[s] \in Nat /\ storedAt[s] <= now
      BY <1>1, <1>7, <1>9
    <2>2. LastPass(s)' \in Nat /\ L <= LastPass(s)'
      BY <1>1, <1>4, <2>1
    <2>3. one \in Int /\ all \in Int
      BY <1>1, <1>2
    <2>4. /\ LastPass(s)' # Never
          /\ one <= LastPass(s)' - chosenAt[s]
          /\ D > 1 => fewer <= LastPass(s)' - storedAt[s]
      BY <1>2, <1>7, <1>9, <2>1, <2>2, <2>3, NeverApart
    <2>5. ASSUME Granted(s)'
          PROVE  /\ all <= LastPass(s)' - chosenAt[s]
                 /\ D > 0 => one <= LastPass(s)' - storedAt[s]
      <3>1. LastPass(s)' = now /\ now - L >= m
        BY <1>6, <1>7, <1>9, <2>5
      <3>2. all <= now - chosenAt[s]
        BY <1>1, <1>2, <1>7, <1>9, <2>1, <2>3, <3>1
      <3>3. CASE D = 1
        BY <1>1, <1>2, <2>1, <3>1, <3>2, <3>3
      <3>4. CASE D > 1
        BY <1>1, <1>2, <1>7, <1>9, <2>1, <2>3, <3>1, <3>2, <3>4
      <3>5. CASE D = 0
        BY <3>1, <3>2, <3>5
      <3>6. QED
        BY <1>1, <3>3, <3>4, <3>5
    <2>6. QED
      BY <2>4, <2>5
  <1>10. QED
    BY <1>3, <1>5, <1>7, <1>8, <1>9 DEF RateOf, D, fewer, one, all

(***************************************************************************)
(* Choosing the recipients grants nothing that the limiter has not let     *)
(* pass; a subscription chosen first starts its count at that time stamp.  *)
(***************************************************************************)
LEMMA ChoicePays ==
    ASSUME TypeOK, RegistryOK, WorkerOK, LimiterOK, PassedNow, RateOK, ChooseRecipients,
           NEW s \in Asking
    PROVE  RateOf(s)'
  <1>1. /\ s \in Subscribers /\ delivered[s] \in Nat /\ Minimum(s) \in Nat
        /\ LastPass(s) # Never => LastPass(s) \in Nat
        /\ RateOf(s)
    BY RateNumbers
  <1>2. /\ UNCHANGED <<plan, message, delivered, subscribePc, storedAt, lastNotifyTimes>>
        /\ publisherPc = "choose" /\ publisherPc' = "deliver"
        /\ recipients' \in GetSubscriptions(message.target, message.trigger)
        /\ chosenAt'[s] = IF message.trigger = "OnChange" /\ Contains(recipients', s)
                              /\ chosenAt[s] = Never
                          THEN passedAt[message.target] ELSE chosenAt[s]
    BY <1>1 DEF ChooseRecipients, registryVars
  <1>3. LastPass(s)' = LastPass(s) /\ Minimum(s)' = Minimum(s)
    BY <1>2 DEF LastPass, Minimum, LimiterKey
  <1>4. Granted(s)' => Contains(recipients', s)
    BY <1>2 DEF Granted
  <1>5. ASSUME TriggerOf(s) = "OnChange", Contains(recipients', s)
        PROVE  /\ message.trigger = "OnChange" /\ Granted(s)
               /\ subscribePc[s] # "store"
               /\ LastPass(s) # Never /\ passedAt[message.target] = LastPass(s)
    <2>1. Contains(subscriptions, s) /\ TargetOf(s) = message.target
          /\ TriggerOf(s) = message.trigger
      BY <1>2, <1>5, GetSubscriptionsProperties DEF TypeOK, RegistryTypeOK
    <2>2. subscribePc[s] # "store"
      BY <1>1, <2>1 DEF RegistryOK, RegistryOf, InStore
    <2>3. QED
      BY <1>2, <1>5, <2>1, <2>2 DEF PassedNow, LastPass, Granted
  <1>6. CASE TriggerOf(s) = "OnChange" /\ chosenAt[s] = Never /\ Contains(recipients', s)
    <2>1. delivered[s] = 0
      BY <1>1, <1>6 DEF RateOf
    <2>2. chosenAt'[s] = LastPass(s) /\ LastPass(s) \in Nat
      BY <1>1, <1>2, <1>5, <1>6
    <2>3. /\ delivered'[s] * Minimum(s) = 0
          /\ (delivered'[s] - 1) * Minimum(s) <= 0
          /\ LastPass(s) - chosenAt'[s] = 0
      BY <1>1, <1>2, <2>1, <2>2
    <2>4. ~(delivered'[s] > 1) /\ ~(delivered'[s] > 0)
      BY <1>2, <2>1
    <2>5. chosenAt'[s] # Never
      BY <2>2, NeverApart
    <2>6. QED
      BY <1>2, <1>3, <1>5, <1>6, <2>3, <2>4, <2>5 DEF RateOf
  <1>7. CASE TriggerOf(s) = "OnChange" /\ chosenAt[s] = Never /\ ~Contains(recipients', s)
    BY <1>1, <1>2, <1>7 DEF RateOf
  <1>8. CASE TriggerOf(s) = "OnChange" /\ chosenAt[s] # Never
    BY <1>1, <1>2, <1>3, <1>4, <1>5, <1>8 DEF RateOf
  <1>9. QED
    BY <1>2, <1>6, <1>7, <1>8 DEF RateOf

\* Delivering spends what was paid for.
LEMMA DeliverySpends ==
    ASSUME TypeOK, RegistryOK, WorkerOK, LimiterOK, RateOK, [Next]_vars, Deliver,
           NEW s \in Asking
    PROVE  RateOf(s)'
  <1>1. /\ recipients # <<>> /\ recipients' = Tail(recipients) /\ Distinct(recipients)
        /\ UNCHANGED <<publisherPc, message, due, lastNotifyTimes, subscribePc, storedAt,
                       chosenAt>>
        /\ \A u \in Subscribers : u # Head(recipients) => delivered'[u] = delivered[u]
        /\ delivered'[Head(recipients)] \in
              {delivered[Head(recipients)], delivered[Head(recipients)] + 1}
    BY DeliveryCounts DEF WorkerOK, timeHistory
  <1>2. /\ Contains(recipients, Head(recipients))
        /\ ~Contains(recipients', Head(recipients))
        /\ \A u : Contains(recipients', u) => Contains(recipients, u)
    BY <1>1, TailDistinct DEF TypeOK, WorkerTypeOK
  <1>3. plan' = plan /\ LastPass(s)' = LastPass(s) /\ Minimum(s)' = Minimum(s)
    BY <1>1, PlanAndClock DEF LastPass, Minimum, LimiterKey
  <1>4. s \in Subscribers /\ delivered[s] \in Nat /\ RateOf(s)
    BY RateNumbers
  <1>5. Granted(s)' => Granted(s)
    BY <1>1, <1>2, <1>3 DEF Granted
  <1>6. CASE delivered'[s] = delivered[s]
    BY <1>1, <1>2, <1>3, <1>4, <1>5, <1>6 DEF RateOf
  <1>7. CASE s = Head(recipients) /\ delivered'[s] = delivered[s] + 1
    <2>1. Granted(s) /\ ~Granted(s)'
      BY <1>1, <1>2, <1>7 DEF Granted, Deliver
    <2>2. /\ delivered'[s] - 1 = delivered[s]
          /\ delivered'[s] - 2 = delivered[s] - 1
          /\ delivered'[s] > 1 => delivered[s] > 0
      BY <1>4, <1>7
    <2>3. Contains(recipients, s)
      BY <1>2, <1>7
    <2>4. QED
      BY <1>1, <1>3, <1>4, <2>1, <2>2, <2>3 DEF RateOf
  <1>8. QED
    BY <1>1, <1>4, <1>6, <1>7

\* The count of notifications of a change stays paid for.
LEMMA RateNext ==
    ASSUME TypeOK, RegistryOK, WorkerOK, LimiterOK, PassedNow, RateOK, [Next]_vars
    PROVE  RateOK'
  <1>1. plan' = plan
    BY PlanAndClock
  <1>2. ASSUME NEW s \in Asking, ~Deliver, ~PublishChange, ~ChooseRecipients PROVE RateOf(s)'
    <2>1. s \in Subscribers /\ RateOf(s) /\ delivered' = delivered
      BY <1>2, RequestType, DeliveryCounts DEF RateOK, TypeOK
    <2>2. lastNotifyTimes' = lastNotifyTimes
      <3>1. SuppressChange => lastNotifyTimes' = lastNotifyTimes
        BY DEF SuppressChange
      <3>2. QED
        BY <1>2, <3>1, LimiterFrame
    <2>3. LastPass(s)' = LastPass(s) /\ Minimum(s)' = Minimum(s)
      BY <1>1, <2>2 DEF LastPass, Minimum, LimiterKey
    <2>4. /\ recipients' = recipients /\ chosenAt' = chosenAt
          /\ Granted(s)' => Granted(s)
      BY <1>1, <1>2, RecipientsComeFrom DEF Granted
    <2>5. subscribePc[s] # "store" => subscribePc'[s] # "store" /\ storedAt'[s] = storedAt[s]
      BY <2>1, TimesStay
    <2>6. QED
      BY <1>1, <2>1, <2>3, <2>4, <2>5 DEF RateOf
  <1>3. ASSUME NEW s \in Asking PROVE RateOf(s)'
    BY <1>2, PassPays, ChoicePays, DeliverySpends
  <1>4. QED
    BY <1>1, <1>3 DEF RateOK

\* Who changes the next time of a condition.
LEMMA NextTimes ==
    ASSUME TypeOK, RegistryOK, WorkerOK, [Next]_vars, NEW s \in Asking,
           nextNotifyTime'[s] # Never
    PROVE  \/ SubscribePeriodic(s)
           \/ /\ DeliverEnd /\ ServingPeriodic /\ s = Head(due) /\ nextNotifyTime[s] # Never
              /\ nextNotifyTime'[s] = nextNotifyTime[s] + IntervalOf(s)
              /\ scheduledAt'[s] = scheduledAt[s]
           \/ /\ nextNotifyTime[s] # Never
              /\ nextNotifyTime'[s] = nextNotifyTime[s]
              /\ scheduledAt'[s] = scheduledAt[s]
              /\ ~(DeliverEnd /\ ServingPeriodic /\ s = Head(due))
  <1>1. s \in Subscribers
    BY RequestType DEF TypeOK
  <1>2. nextNotifyTime[s] # Never => scheduledAt'[s] = scheduledAt[s]
    BY <1>1, TimesStay DEF RegistryOK, RegistryOf, InConditions
  <1>3. CASE DeliverEnd
    BY <1>1, <1>2, <1>3, UpdateNextTime
  <1>4. CASE ~DeliverEnd /\ \E u \in Subscribers : ApplicationStep(u)
    <2>1. PICK u \in Subscribers : ApplicationStep(u)
      BY <1>4
    <2>2. CASE u # s
      BY <1>1, <1>2, <1>4, <2>1, <2>2, ApplicationMoves
    <2>3. CASE u = s
      <3>1. SubscribePeriodic(s) \/ nextNotifyTime'[s] \in {nextNotifyTime[s], Never}
        BY <2>1, <2>3, <1>1 DEF ApplicationStep, SubscribeStore, SubscribeReadClock,
                                SubscribeCallback,
           SubscribeReturn, GetNotification, UnsubscribeCallback, UnsubscribeStore,
           UnsubscribePeriodic, UnsubscribeMailbox, registryVars, TypeOK, RegistryTypeOK
      <3>2. QED
        BY <1>2, <1>4, <3>1
    <2>4. QED
      BY <2>2, <2>3
  <1>5. CASE ~DeliverEnd /\ ~\E u \in Subscribers : ApplicationStep(u)
    <2>1. Tick \/ UNCHANGED vars \/ CallbackStep \/ (\E t \in Targets : Changed(t))
             => nextNotifyTime' = nextNotifyTime
      BY DEF Tick, vars, CallbackStep, CallbackPop, CallbackLookup, CallbackCall, Changed,
             registryVars
    <2>2. PublisherStep => nextNotifyTime' = nextNotifyTime
      BY <1>5 DEF PublisherStep, PublisherPop, PublisherTimeout, PublishChange, SuppressChange,
         PublishPeriodic, ChooseRecipients, Deliver, GetDueConditions, registryVars
    <2>3. QED
      BY <1>2, <1>5, <2>1, <2>2, NextIsStep
  <1>6. QED
    BY <1>3, <1>4, <1>5

\* A condition is due only up to the end of the plan, so its place on the grid is.
LEMMA GridNext ==
    ASSUME TypeOK, RegistryOK, WorkerOK, GridOK, [Next]_vars
    PROVE  GridOK'
  <1>1. plan' = plan /\ plan.time \in Nat /\ now \in 0 .. plan.time
    BY PlanAndClock, PublisherAssumption DEF TypeOK, IsPlan
  <1>2. ASSUME NEW s \in Asking, nextNotifyTime'[s] # Never
        PROVE  \E k \in 1 .. plan.time + 1 :
                  nextNotifyTime'[s] = scheduledAt'[s] + k * IntervalOf(s)
    <2>1. s \in Subscribers /\ IntervalOf(s) \in Nat
          /\ nextNotifyTime[s] \in Nat \cup {Never} /\ scheduledAt[s] \in Nat \cup {Never}
      BY RequestType DEF TypeOK, RegistryTypeOK, HistoryTypeOK
    <2>2. CASE SubscribePeriodic(s)
      <3>1. nextNotifyTime'[s] = scheduledAt[s] + IntervalOf(s) /\ scheduledAt' = scheduledAt
        BY <2>1, <2>2
           DEF SubscribePeriodic, TypeOK, RegistryTypeOK, historyVars, timeHistory
      <3>2. 1 \in 1 .. plan.time + 1 /\ 1 * IntervalOf(s) = IntervalOf(s)
        BY <1>1, <2>1
      <3>3. nextNotifyTime'[s] = scheduledAt'[s] + 1 * IntervalOf(s)
        BY <3>1, <3>2
      <3>4. QED
        BY <3>2, <3>3
    <2>3. ASSUME nextNotifyTime[s] # Never, nextNotifyTime'[s] = nextNotifyTime[s],
                 scheduledAt'[s] = scheduledAt[s]
          PROVE  \E k \in 1 .. plan.time + 1 :
                    nextNotifyTime'[s] = scheduledAt'[s] + k * IntervalOf(s)
      BY <2>3 DEF GridOK, OnGrid
    <2>4. ASSUME DeliverEnd, ServingPeriodic, s = Head(due), nextNotifyTime[s] # Never,
                 nextNotifyTime'[s] = nextNotifyTime[s] + IntervalOf(s),
                 scheduledAt'[s] = scheduledAt[s]
          PROVE  \E k \in 1 .. plan.time + 1 :
                    nextNotifyTime'[s] = scheduledAt'[s] + k * IntervalOf(s)
      <3>1. PICK k \in 1 .. plan.time + 1 :
               nextNotifyTime[s] = scheduledAt[s] + k * IntervalOf(s)
        BY <2>4 DEF GridOK, OnGrid
      <3>2. nextNotifyTime[s] \in Nat /\ nextNotifyTime[s] <= now
        <4>1. Contains(due, s)
          BY <2>4, UpdateNextTime
        <4>2. QED
          BY <2>1, <2>4, <4>1 DEF WorkerOK, DueOK
      <3>3. scheduledAt[s] \in Nat
        BY <2>1, <2>4 DEF RegistryOK, RegistryOf, InConditions
      <3>4. k \in Nat /\ k >= 1 /\ k \in Int
        BY <1>1
      <3>5. CASE IntervalOf(s) = 0
        <4>1. nextNotifyTime'[s] = scheduledAt'[s] + k * IntervalOf(s)
          BY <2>4, <3>1, <3>2, <3>5
        <4>2. QED
          BY <4>1
      <3>6. CASE IntervalOf(s) >= 1
        <4>1. k * IntervalOf(s) >= k /\ k * IntervalOf(s) \in Int
              /\ (k + 1) * IntervalOf(s) = k * IntervalOf(s) + IntervalOf(s)
          BY <2>1, <3>4, <3>6, OneMore
        <4>2. k <= plan.time
          BY <1>1, <3>1, <3>2, <3>3, <3>4, <4>1
        <4>3. k + 1 \in 1 .. plan.time + 1
          BY <1>1, <3>4, <4>2
        <4>4. nextNotifyTime'[s] = scheduledAt'[s] + (k + 1) * IntervalOf(s)
          BY <2>1, <2>4, <3>1, <3>3, <4>1
        <4>5. QED
          BY <4>3, <4>4
      <3>7. QED
        BY <2>1, <3>5, <3>6
    <2>5. QED
      BY <1>2, <2>2, <2>3, <2>4, NextTimes
  <1>3. QED
    BY <1>1, <1>2 DEF GridOK, OnGrid

\* A subscription alone on its target is only published by its own condition.
LEMMA AloneRecipient ==
    ASSUME TypeOK, RegistryOK, WorkerOK, NEW s \in Asking,
           TriggerOf(s) = "Periodic", AloneOnTarget(s), Contains(recipients, s)
    PROVE  /\ ServingPeriodic /\ Head(due) = s /\ Contains(due, s)
           /\ Registered(s)
  <1>1. s \in Subscribers
    BY RequestType DEF TypeOK
  <1>2. recipients # <<>>
    BY EmptyList
  <1>3. TargetOf(s) = message.target /\ message.trigger = "Periodic" /\ publisherPc = "deliver"
    BY <1>1, <1>2 DEF WorkerOK, RecipientOK
  <1>4. ServingPeriodic /\ due # <<>> /\ message.target = TargetOf(Head(due))
    BY <1>3 DEF WorkerOK, ServingPeriodic
  <1>5. Head(due) \in Subscribers /\ Contains(due, Head(due))
    BY <1>4, TailDistinct DEF TypeOK, WorkerTypeOK
  <1>6. TriggerOf(Head(due)) = "Periodic" /\ Head(due) \in Asking
    BY <1>5 DEF WorkerOK, DueOK, RegistryOK, RegistryOf
  <1>7. Head(due) = s
    BY <1>3, <1>4, <1>6 DEF AloneOnTarget
  <1>8. QED
    BY <1>1, <1>4, <1>5, <1>7 DEF WorkerOK, DueOK

(***************************************************************************)
(* What holds of s after a step that neither delivers nor chooses whom to  *)
(* deliver to: its count is still paid for by the time that has passed and *)
(* by the next time, which may have been set or moved.                     *)
(***************************************************************************)
LEMMA EarlyElsewhere ==
    ASSUME TypeOK, RegistryOK, WorkerOK, EarlyOK, [Next]_vars, NEW s \in Asking,
           TriggerOf(s) = "Periodic", AloneOnTarget(s), ~Deliver, ~ChooseRecipients
    PROVE  EarlyOf(s)'
  <1> DEFINE D == delivered[s]
             i == IntervalOf(s)
  <1>1. /\ s \in Subscribers /\ D \in Nat /\ i \in Nat
        /\ plan' = plan /\ now \in Nat /\ now' \in Nat /\ now <= now'
        /\ delivered' = delivered
    BY RequestType, PlanAndClock, DeliveryCounts, PublisherAssumption
       DEF TypeOK, IsPlan, HistoryTypeOK
  <1>2. /\ nextNotifyTime[s] \in Nat \cup {Never} /\ scheduledAt[s] \in Nat \cup {Never}
        /\ RegistryOf(s) /\ EarlyOf(s)
    BY <1>1 DEF TypeOK, RegistryTypeOK, HistoryTypeOK, RegistryOK, EarlyOK
  <1>3. /\ D * i \in Int /\ (D + 1) * i = D * i + i /\ (D + 1) * i \in Int
        /\ D = 0 => D * i = 0
    <2> HIDE DEF D, i
    <2>1. D * i \in Int /\ (D + 1) * i = D * i + i
      BY <1>1, OneMore
    <2>2. D = 0 => D * i = 0
      BY <1>1
    <2>3. QED
      BY <1>1, <2>1, <2>2
  <1>4. Contains(recipients', s) => Contains(recipients, s)
    BY RecipientsComeFrom
  <1>5. Registered(s) =>
           /\ Registered(s)' /\ scheduledAt'[s] = scheduledAt[s]
           /\ scheduledAt[s] \in Nat
    BY <1>1, <1>2, TimesStay DEF RegistryOf
  <1>6. Contains(recipients, s) => Registered(s)
    BY AloneRecipient
  <1> HIDE DEF D, i
  <1>7. D > 0 => Registered(s) /\ D * i <= now - scheduledAt[s]
    BY <1>2 DEF EarlyOf, D, i
  <1>8. Contains(recipients, s) => D * i + i <= now - scheduledAt[s]
    BY <1>2, <1>3 DEF EarlyOf, D, i
  <1>9. D > 0 => /\ Registered(s)'
                 /\ D * i <= now' - scheduledAt'[s]
    BY <1>1, <1>3, <1>5, <1>7
  <1>10. Contains(recipients', s) => (D + 1) * i <= now' - scheduledAt'[s]
    BY <1>1, <1>3, <1>4, <1>5, <1>6, <1>8
  <1>11. ASSUME nextNotifyTime'[s] # Never
         PROVE  (D + (IF Served(s)' THEN 0 ELSE 1)) * i <= nextNotifyTime'[s] - scheduledAt'[s]
    <2>1. SUFFICES \/ (D + 1) * i <= nextNotifyTime'[s] - scheduledAt'[s]
                   \/ Served(s)' /\ D * i <= nextNotifyTime'[s] - scheduledAt'[s]
      <3>1. CASE Served(s)'
        <4>1. D * i <= (D + 1) * i /\ (D + 1) * i \in Int /\ D * i \in Int
          BY <1>1, <1>3 DEF i
        <4>2. nextNotifyTime'[s] - scheduledAt'[s] \in Int
          <5>1. Registered(s) \/ SubscribePeriodic(s)
            BY <1>2, <1>11, NextTimes DEF RegistryOf, InConditions
          <5>2. CASE SubscribePeriodic(s)
            <6>1. /\ nextNotifyTime'[s] = scheduledAt[s] + i /\ scheduledAt'[s] = scheduledAt[s]
                  /\ scheduledAt[s] \in Nat
              BY <1>1, <1>2, <5>2
                 DEF SubscribePeriodic, TypeOK, RegistryTypeOK, RegistryOf, historyVars,
                     timeHistory, i
            <6>2. QED
              BY <1>1, <6>1
          <5>3. CASE Registered(s)
            <6>1. scheduledAt'[s] \in Nat
              BY <1>5, <5>3
            <6>2. ~SubscribePeriodic(s)
              BY <5>3 DEF SubscribePeriodic
            <6>3. nextNotifyTime'[s] \in {nextNotifyTime[s], nextNotifyTime[s] + i}
                  /\ nextNotifyTime[s] # Never
              BY <1>11, <6>2, NextTimes DEF i
            <6>4. nextNotifyTime'[s] \in Nat
              BY <1>1, <1>2, <6>3
            <6>5. QED
              BY <6>1, <6>4
          <5>4. QED
            BY <5>1, <5>2, <5>3
        <4>3. D + 0 = D
          BY <1>1
        <4>4. QED
          BY <2>1, <3>1, <4>1, <4>2, <4>3
      <3>2. CASE ~Served(s)'
        BY <2>1, <3>2
      <3>3. QED
        BY <3>1, <3>2
    <2>2. CASE SubscribePeriodic(s)
      <3>1. /\ nextNotifyTime'[s] = scheduledAt[s] + i /\ scheduledAt'[s] = scheduledAt[s]
            /\ scheduledAt[s] \in Nat /\ subscribePc[s] = "condition"
        BY <1>1, <1>2, <2>2
           DEF SubscribePeriodic, TypeOK, RegistryTypeOK, RegistryOf, historyVars,
               timeHistory, i
      <3>2. D = 0
        BY <1>1, <1>7, <3>1
      <3>3. (D + 1) * i = i
        BY <1>1, <1>3, <3>2
      <3>4. (D + 1) * i <= nextNotifyTime'[s] - scheduledAt'[s]
        BY <1>1, <3>1, <3>3
      <3>5. QED
        BY <3>4
    <2>3. CASE /\ DeliverEnd /\ ServingPeriodic /\ s = Head(due) /\ nextNotifyTime[s] # Never
               /\ nextNotifyTime'[s] = nextNotifyTime[s] + i
               /\ scheduledAt'[s] = scheduledAt[s]
      <3>1. recipients = <<>>
        BY <2>3 DEF DeliverEnd
      <3>2. Served(s)
        BY <2>3, <3>1, EmptyList DEF Served, ServingPeriodic, DeliverEnd
      <3>3. (D + 0) * i <= nextNotifyTime[s] - scheduledAt[s] /\ D + 0 = D
        BY <1>1, <1>2, <2>3, <3>2 DEF EarlyOf, D, i
      <3>4. scheduledAt[s] \in Nat /\ nextNotifyTime[s] \in Nat
        BY <1>2, <1>5, <2>3 DEF RegistryOf, InConditions
      <3>5. (D + 1) * i <= nextNotifyTime'[s] - scheduledAt'[s]
        BY <1>1, <1>3, <2>3, <3>3, <3>4
      <3>6. QED
        BY <3>5
    <2>4. CASE /\ nextNotifyTime[s] # Never
               /\ nextNotifyTime'[s] = nextNotifyTime[s]
               /\ scheduledAt'[s] = scheduledAt[s]
               /\ ~(DeliverEnd /\ ServingPeriodic /\ s = Head(due))
      <3>1. CASE ~Served(s)
        <4>1. (D + 1) * i <= nextNotifyTime[s] - scheduledAt[s]
          BY <1>2, <2>4, <3>1 DEF EarlyOf, D, i
        <4>2. QED
          BY <2>4, <4>1
      <3>2. CASE Served(s)
        <4>1. UNCHANGED <<publisherPc, message, due, recipients>>
          <5>1. ~PublisherStep
            BY <2>4, <3>2 DEF Served, ServingPeriodic, PublisherStep, PublisherPop,
               PublisherTimeout, PublishChange, SuppressChange, PublishPeriodic,
               GetDueConditions
          <5>2. Tick \/ UNCHANGED vars \/ CallbackStep \/ (\E t \in Targets : Changed(t))
                   => UNCHANGED <<publisherPc, message, due, recipients>>
            BY DEF Tick, vars, CallbackStep, CallbackPop, CallbackLookup, CallbackCall,
                   Changed, workerVars
          <5>3. ASSUME NEW u \in Subscribers, ApplicationStep(u)
                PROVE  UNCHANGED <<publisherPc, message, due, recipients>>
            BY <5>3, ApplicationMoves DEF workerVars
          <5>4. QED
            BY <5>1, <5>2, <5>3, NextIsStep
        <4>2. Served(s)'
          BY <3>2, <4>1 DEF Served, ServingPeriodic
        <4>3. (D + 0) * i <= nextNotifyTime[s] - scheduledAt[s] /\ D + 0 = D
          BY <1>1, <1>2, <2>4, <3>2 DEF EarlyOf, D, i
        <4>4. QED
          BY <2>4, <4>2, <4>3
      <3>3. QED
        BY <3>1, <3>2
    <2>5. QED
      BY <1>11, <2>2, <2>3, <2>4, NextTimes DEF i
  <1>12. QED
    BY <1>1, <1>9, <1>10, <1>11 DEF EarlyOf, D, i

\* Choosing s for its condition is paid for by the time it was due.
LEMMA EarlyChoose ==
    ASSUME TypeOK, RegistryOK, WorkerOK, EarlyOK, [Next]_vars, NEW s \in Asking,
           TriggerOf(s) = "Periodic", AloneOnTarget(s), ChooseRecipients
    PROVE  EarlyOf(s)'
  <1> DEFINE D == delivered[s]
             i == IntervalOf(s)
             h == Head(due)
  <1>1. /\ s \in Subscribers /\ D \in Nat /\ i \in Nat /\ now \in Nat
        /\ nextNotifyTime[s] \in Nat \cup {Never} /\ scheduledAt[s] \in Nat \cup {Never}
        /\ RegistryOf(s) /\ EarlyOf(s)
    BY RequestType, PublisherAssumption DEF TypeOK, IsPlan, RegistryTypeOK, HistoryTypeOK,
       RegistryOK, EarlyOK
  <1>2. /\ UNCHANGED <<plan, now, delivered, subscribePc, nextNotifyTime, scheduledAt>>
        /\ recipients = <<>> /\ publisherPc = "choose"
        /\ recipients' \in GetSubscriptions(message.target, message.trigger)
    BY DEF ChooseRecipients, registryVars, WorkerOK
  <1>3. D * i \in Int /\ (D + 1) * i = D * i + i
    BY <1>1, OneMore
  <1>4. nextNotifyTime[s] # Never => (D + 1) * i <= nextNotifyTime[s] - scheduledAt[s]
    BY <1>1, <1>2 DEF EarlyOf, Served
  <1>5. nextNotifyTime[s] # Never => scheduledAt[s] \in Nat /\ nextNotifyTime[s] \in Nat
    BY <1>1 DEF RegistryOf, InConditions
  <1>6. ASSUME Contains(recipients', s)
        PROVE  (D + 1) * i <= now - scheduledAt[s]
    <2>1. /\ Contains(subscriptions, s)
          /\ TargetOf(s) = message.target /\ message.trigger = "Periodic"
      BY <1>2, <1>6, GetSubscriptionsProperties DEF TypeOK, RegistryTypeOK
    <2>2. due # <<>> /\ TargetOf(s) = TargetOf(h) /\ Contains(subscriptions, s)
      BY <1>2, <2>1 DEF WorkerOK, ServingPeriodic
    <2>3. h \in Subscribers /\ Contains(due, h)
      BY <2>2, TailDistinct DEF TypeOK, WorkerTypeOK
    <2>4. h \in Asking /\ TriggerOf(h) = "Periodic"
      BY <2>3 DEF WorkerOK, DueOK, RegistryOK, RegistryOf
    <2>5. h = s
      BY <2>2, <2>4 DEF AloneOnTarget
    <2>6. Registered(s)
          /\ (nextNotifyTime[s] # Never => nextNotifyTime[s] <= now)
      BY <1>1, <2>3, <2>5 DEF WorkerOK, DueOK
    <2>7. nextNotifyTime[s] # Never
      BY <1>1, <2>2, <2>6 DEF RegistryOf, InStore, InConditions
    <2> HIDE DEF D, i
    <2>8. QED
      BY <1>1, <1>3, <1>4, <1>5, <2>6, <2>7
  <1>7. ASSUME nextNotifyTime[s] # Never
        PROVE  (D + (IF Served(s)' THEN 0 ELSE 1)) * i <= nextNotifyTime[s] - scheduledAt[s]
    <2>1. D + 0 = D
      BY <1>1
    <2>2. D * i <= nextNotifyTime[s] - scheduledAt[s]
      <3> HIDE DEF D
      <3>1. QED
        BY <1>1, <1>3, <1>4, <1>5, <1>7
    <2>3. QED
      BY <1>4, <1>7, <2>1, <2>2
  <1>8. D > 0 => /\ Registered(s)
                 /\ D * i <= now - scheduledAt[s]
    BY <1>1 DEF EarlyOf
  <1>9. QED
    BY <1>2, <1>6, <1>7, <1>8 DEF EarlyOf

\* Delivering to s spends what its condition paid for.
LEMMA EarlyDeliver ==
    ASSUME TypeOK, RegistryOK, WorkerOK, EarlyOK, [Next]_vars, NEW s \in Asking,
           TriggerOf(s) = "Periodic", AloneOnTarget(s), Deliver
    PROVE  EarlyOf(s)'
  <1> DEFINE D == delivered[s]
             i == IntervalOf(s)
  <1>1. /\ recipients # <<>> /\ recipients' = Tail(recipients) /\ Distinct(recipients)
        /\ UNCHANGED <<publisherPc, message, due, subscribePc, nextNotifyTime, scheduledAt,
                       now>>
        /\ \A u \in Subscribers : u # Head(recipients) => delivered'[u] = delivered[u]
        /\ delivered'[Head(recipients)] \in
              {delivered[Head(recipients)], delivered[Head(recipients)] + 1}
    BY DeliveryCounts DEF WorkerOK, timeHistory
  <1>2. /\ Contains(recipients, Head(recipients))
        /\ ~Contains(recipients', Head(recipients))
        /\ \A u : Contains(recipients, u) <=> u = Head(recipients) \/ Contains(recipients', u)
    BY <1>1, TailDistinct DEF TypeOK, WorkerTypeOK
  <1>3. plan' = plan
    BY PlanAndClock
  <1>4. /\ s \in Subscribers /\ D \in Nat /\ i \in Nat /\ now \in Nat
        /\ nextNotifyTime[s] \in Nat \cup {Never} /\ scheduledAt[s] \in Nat \cup {Never}
        /\ RegistryOf(s) /\ EarlyOf(s)
    BY RequestType, PublisherAssumption DEF TypeOK, IsPlan, RegistryTypeOK, HistoryTypeOK,
       RegistryOK, EarlyOK
  <1>5. CASE s # Head(recipients)
    <2>1. Contains(recipients', s) <=> Contains(recipients, s)
      BY <1>2, <1>5
    <2>2. Served(s)' <=> Served(s)
      BY <1>1, <2>1 DEF Served, ServingPeriodic
    <2>3. delivered'[s] = delivered[s]
      BY <1>1, <1>4, <1>5
    <2>4. QED
      BY <1>1, <1>3, <1>4, <2>1, <2>2, <2>3 DEF EarlyOf
  <1>6. CASE s = Head(recipients)
    <2>1. ServingPeriodic /\ Head(due) = s /\ Registered(s)
      BY <1>2, <1>6, AloneRecipient
    <2>2. Served(s)' /\ ~Served(s)
      BY <1>1, <1>2, <1>6, <2>1 DEF Served, ServingPeriodic, Deliver
    <2>3. D * i \in Int /\ (D + 1) * i = D * i + i
      BY <1>4, OneMore
    <2>4. scheduledAt[s] \in Nat
      BY <1>4, <2>1 DEF RegistryOf
    <2>5. (D + 1) * i <= now - scheduledAt[s]
      BY <1>2, <1>4, <1>6 DEF EarlyOf
    <2>6. nextNotifyTime[s] # Never => (D + 1) * i <= nextNotifyTime[s] - scheduledAt[s]
      BY <1>4, <2>2 DEF EarlyOf
    <2>7. delivered'[s] \in {D, D + 1} /\ delivered'[s] + 0 = delivered'[s]
      BY <1>1, <1>4, <1>6
    <2>8. delivered'[s] * i <= D * i + i /\ delivered'[s] * i \in Int
      BY <1>4, <2>3, <2>7
    <2> HIDE DEF D
    <2>9. delivered'[s] * i <= now - scheduledAt[s]
      BY <1>4, <2>3, <2>4, <2>5, <2>8
    <2>10. nextNotifyTime[s] # Never =>
              (delivered'[s] + 0) * i <= nextNotifyTime[s] - scheduledAt[s]
      BY <1>4, <2>3, <2>4, <2>6, <2>7, <2>8
    <2>11. QED
      BY <1>1, <1>2, <1>3, <1>6, <2>1, <2>2, <2>9, <2>10 DEF EarlyOf
  <1>7. QED
    BY <1>5, <1>6

\* The count of periodic notifications stays behind the clock.
LEMMA EarlyNext ==
    ASSUME TypeOK, RegistryOK, WorkerOK, EarlyOK, [Next]_vars
    PROVE  EarlyOK'
  <1>1. plan' = plan
    BY PlanAndClock
  <1>2. ASSUME NEW s \in Asking PROVE EarlyOf(s)'
    <2>1. CASE TriggerOf(s) = "Periodic" /\ AloneOnTarget(s)
      BY <2>1, EarlyElsewhere, EarlyChoose, EarlyDeliver
    <2>2. CASE ~(TriggerOf(s) = "Periodic" /\ AloneOnTarget(s))
      BY <1>1, <2>2 DEF EarlyOf, AloneOnTarget
    <2>3. QED
      BY <2>1, <2>2
  <1>3. QED
    BY <1>1, <1>2 DEF EarlyOK

-----------------------------------------------------------------------------
(* Every change is announced, unless the limiter holds it back *)

\* Subscriber s has not looked since the last change, and should be made to.
Uninformed(s) ==
    /\ subscribePc[s] = "subscribed"
    /\ TriggerOf(s) = "OnChange"
    /\ MethodOf(s) # "Custom"
    /\ TargetOf(s) \in Routed
    /\ told[s] # version[TargetOf(s)]

\* What InformedUnlessLimited says of one subscriber.
InformedOf(s) == Uninformed(s) => OnItsWay(s) \/ HeldBack(TargetOf(s))

\* InformedUnlessLimited is that of each.
LEMMA InformedOfEach == InformedUnlessLimited <=> \A s \in Asking : InformedOf(s)
  BY DEF InformedUnlessLimited, InformedOf, Uninformed

\* A target is held back by the times of the limiter's history alone.
LEMMA HeldBackFrame ==
    ASSUME UNCHANGED <<plan, limiterHistory>>, NEW t
    PROVE  HeldBack(t)' <=> HeldBack(t)
  BY DEF HeldBack, LimiterKey, limiterHistory

\* A call of the application, and a callback, make a subscriber look.
LEMMA InformedApplication ==
    ASSUME TypeOK, RegistryOK, NEW u \in Subscribers, ApplicationStep(u),
           NEW s \in Asking, InformedOf(s)
    PROVE  InformedOf(s)'
  <1>1. /\ UNCHANGED <<plan, publisherQueue, publisherPc, message, recipients>>
        /\ UNCHANGED <<plan, limiterHistory>>
    BY ApplicationMoves DEF workerVars
  <1>2. s \in Subscribers
    BY RequestType DEF TypeOK
  <1>3. HeldBack(TargetOf(s))' <=> HeldBack(TargetOf(s))
    BY <1>1, HeldBackFrame DEF HeldBack, LimiterKey
  <1>4. UNCHANGED <<callbackQueue, calling, version>>
    BY DEF ApplicationStep, SubscribeStore, SubscribeReadClock, SubscribePeriodic,
           SubscribeCallback,
       SubscribeReturn, GetNotification, UnsubscribeCallback, UnsubscribeStore,
       UnsubscribePeriodic, UnsubscribeMailbox, callbackVars
  <1>5. CASE u = s
    <2>1. subscribePc'[s] # "subscribed" \/ told'[s] = version[TargetOf(s)]
      BY <1>2, <1>5 DEF ApplicationStep, SubscribeStore, SubscribeReadClock,
                        SubscribePeriodic, SubscribeCallback,
         SubscribeReturn, GetNotification, UnsubscribeCallback, UnsubscribeStore,
         UnsubscribePeriodic, UnsubscribeMailbox, AfterStore, AfterPeriodic,
         TypeOK, RegistryTypeOK, HistoryTypeOK
    <2>2. QED
      BY <1>1, <1>4, <2>1 DEF InformedOf, Uninformed
  <1>6. CASE u # s
    <2>1. told'[s] = told[s] /\ mailboxes'[s] = mailboxes[s]
      BY <1>2, <1>6 DEF ApplicationStep, SubscribeStore, SubscribeReadClock,
                        SubscribePeriodic, SubscribeCallback,
         SubscribeReturn, GetNotification, UnsubscribeCallback, UnsubscribeStore,
         UnsubscribePeriodic, UnsubscribeMailbox, historyVars,
         TypeOK, SinkTypeOK, HistoryTypeOK
    <2>2. subscribePc'[s] = subscribePc[s]
      BY <1>2, <1>6, ApplicationMoves
    <2>3. Uninformed(s)' => Uninformed(s)
      BY <1>1, <1>4, <2>1, <2>2 DEF Uninformed
    <2>4. OnItsWay(s) => OnItsWay(s)'
      BY <1>1, <1>4, <2>1 DEF OnItsWay
    <2>5. QED
      BY <1>1, <1>3, <2>3, <2>4 DEF InformedOf
  <1>7. QED
    BY <1>5, <1>6

\* A change that is queued is on its way to every subscriber of its target.
LEMMA InformedChanged ==
    ASSUME TypeOK, NEW t \in Targets, Changed(t), NEW s \in Asking, InformedOf(s)
    PROVE  InformedOf(s)'
  <1> DEFINE e == [target |-> t, priority |-> Low, compression |-> Compression[t]]
  <1>1. /\ UNCHANGED <<plan, publisherPc, message, recipients, subscribePc, mailboxes,
                       callbackQueue, calling, told>>
        /\ UNCHANGED <<plan, limiterHistory>>
        /\ publisherQueue' = PriorityCompressionInsert(publisherQueue, e)
    BY DEF Changed, workerVars, registryVars, callbackVars, historyVars
  <1>2. e \in PublisherEvent /\ publisherQueue \in Seq(PublisherEvent)
    BY PublisherAssumption DEF PublisherEvent, TypeOK, WorkerTypeOK
  <1>3. \A x : HoldsTarget(publisherQueue', x) <=> x = e.target \/ HoldsTarget(publisherQueue, x)
    BY <1>1, <1>2, CompressionKeepsTargets
  <1>4. OnItsWay(s) => OnItsWay(s)'
    BY <1>1, <1>3 DEF OnItsWay
  <1>5. CASE TargetOf(s) = t
    <2>1. HoldsTarget(publisherQueue', TargetOf(s))
      BY <1>3, <1>5
    <2>2. QED
      BY <1>1, <2>1 DEF InformedOf, OnItsWay
  <1>6. CASE TargetOf(s) # t
    <2>1. version'[TargetOf(s)] = version[TargetOf(s)]
      BY <1>6, RequestType DEF Changed, TypeOK, HistoryTypeOK
    <2>2. Uninformed(s)' => Uninformed(s)
      BY <1>1, <2>1 DEF Uninformed
    <2>3. HeldBack(TargetOf(s)) => HeldBack(TargetOf(s))'
      BY <1>1, HeldBackFrame DEF HeldBack, LimiterKey
    <2>4. QED
      BY <1>4, <2>2, <2>3 DEF InformedOf
  <1>7. QED
    BY <1>5, <1>6

\* The steps of the publisher thread that let no change pass and hold none back.
LEMMA InformedLoop ==
    ASSUME TypeOK, WorkerOK, NEW s \in Asking, InformedOf(s),
           \/ PublisherPop \/ PublisherTimeout \/ PublishPeriodic
           \/ GetDueConditions \/ DeliverEnd
    PROVE  InformedOf(s)'
  <1>1. /\ UNCHANGED <<plan, subscribePc, mailboxes, callbackQueue, calling, told, version>>
        /\ UNCHANGED <<plan, limiterHistory>>
    BY DEF PublisherPop, PublisherTimeout, PublishPeriodic, GetDueConditions, DeliverEnd,
           registryVars, callbackVars, historyVars
  <1>2. Uninformed(s)' => Uninformed(s)
    BY <1>1 DEF Uninformed
  <1>3. HeldBack(TargetOf(s)) => HeldBack(TargetOf(s))'
    BY <1>1, HeldBackFrame DEF HeldBack, LimiterKey
  <1>4. publisherPc \notin {"publish", "choose"} /\ ~Contains(recipients, s)
    <2>1. recipients = <<>>
      BY DEF WorkerOK, PublisherPop, PublisherTimeout, PublishPeriodic, GetDueConditions,
             DeliverEnd
    <2>2. publisherPc \notin {"publish", "choose"}
      BY DEF PublisherPop, PublisherTimeout, PublishPeriodic, GetDueConditions, DeliverEnd
    <2>3. QED
      BY <2>1, <2>2, EmptyList
  <1>5. ASSUME HoldsTarget(publisherQueue, TargetOf(s))
        PROVE  OnItsWay(s)'
    <2>1. CASE PublisherPop
      <3>1. publisherQueue \in Seq(PublisherEvent) /\ publisherQueue # <<>>
        BY <2>1 DEF PublisherPop, TypeOK, WorkerTypeOK
      <3>2. TargetOf(s) = Head(publisherQueue).target
              \/ HoldsTarget(Tail(publisherQueue), TargetOf(s))
        BY <1>5, <3>1, TailTargets
      <3>3. /\ message'.target = Head(publisherQueue).target
            /\ message'.trigger = "OnChange"
            /\ publisherQueue' = Tail(publisherQueue) /\ publisherPc' = "publish"
        BY <2>1 DEF PublisherPop
      <3>4. QED
        BY <1>1, <3>2, <3>3 DEF OnItsWay
    <2>2. CASE ~PublisherPop
      <3>1. publisherQueue' = publisherQueue
        BY <2>2 DEF PublisherTimeout, PublishPeriodic, GetDueConditions, DeliverEnd
      <3>2. QED
        BY <1>1, <1>5, <3>1 DEF OnItsWay
    <2>3. QED
      BY <2>1, <2>2
  <1>6. OnItsWay(s) => OnItsWay(s)'
    BY <1>1, <1>4, <1>5 DEF OnItsWay
  <1>7. QED
    BY <1>2, <1>3, <1>6 DEF InformedOf

(***************************************************************************)
(* A change that is let pass is on its way to every subscription that will *)
(* be stored when its recipients are chosen; it makes no other target's    *)
(* suppression older than it was.                                          *)
(***************************************************************************)
LEMMA InformedPass ==
    ASSUME TypeOK, RegistryOK, WorkerOK, LimiterOK, NEW s \in Asking, InformedOf(s),
           PublishChange
    PROVE  InformedOf(s)'
  <1> DEFINE t == message.target
             T == TargetOf(s)
  <1>1. /\ UNCHANGED <<plan, publisherQueue, message, recipients, subscribePc, mailboxes,
                       callbackQueue, calling, told, version>>
        /\ publisherPc = "publish" /\ publisherPc' = "choose"
        /\ suppressedAt' = [suppressedAt EXCEPT ![t] = Never]
        /\ passedAt' = [passedAt EXCEPT ![t] = now]
    BY DEF PublishChange, registryVars, callbackVars
  <1>2. /\ s \in Subscribers /\ T \in Targets /\ t \in Targets
        /\ message.trigger = "OnChange" /\ recipients = <<>>
    BY <1>1, RequestType DEF TypeOK, WorkerOK, WorkerTypeOK, Message
  <1>3. Uninformed(s)' => Uninformed(s)
    BY <1>1 DEF Uninformed
  <1>4. ASSUME T = t PROVE OnItsWay(s)'
    BY <1>1, <1>2, <1>4 DEF OnItsWay
  <1>5. ASSUME T # t, OnItsWay(s) PROVE OnItsWay(s)'
    BY <1>1, <1>2, <1>5, EmptyList DEF OnItsWay
  <1>6. ASSUME T # t, HeldBack(T) PROVE HeldBack(T)'
    <2>1. PICK u \in Targets : /\ LimiterKey(u) = LimiterKey(T)
                               /\ passedAt[u] # Never
                               /\ suppressedAt[T] - passedAt[u] < MinimumInterval[T]
      BY <1>6 DEF HeldBack
    <2>2. suppressedAt'[T] = suppressedAt[T] /\ suppressedAt[T] \in Nat
      BY <1>1, <1>2, <1>6 DEF HeldBack, TypeOK, HistoryTypeOK
    <2>3. now \in Nat /\ MinimumInterval[T] \in Nat /\ passedAt[u] \in Nat /\ passedAt[u] <= now
      BY <1>2, <2>1, PublisherAssumption DEF TypeOK, IsPlan, HistoryTypeOK, LimiterOK
    <2>4. passedAt'[u] \in {passedAt[u], now}
      BY <1>1, <1>2, <2>1 DEF TypeOK, HistoryTypeOK
    <2>5. passedAt'[u] # Never /\ suppressedAt'[T] - passedAt'[u] < MinimumInterval[T]
      BY <2>1, <2>2, <2>3, <2>4, NeverApart
    <2>6. LimiterKey(u)' = LimiterKey(T)'
      BY <1>1, <2>1 DEF LimiterKey
    <2>7. suppressedAt'[T] # Never
      BY <2>2, NeverApart
    <2>8. QED
      BY <1>1, <2>5, <2>6, <2>7 DEF HeldBack
  <1>7. QED
    BY <1>1, <1>3, <1>4, <1>5, <1>6 DEF InformedOf

(***************************************************************************)
(* A change is held back within the interval after one that was let pass,  *)
(* since the limiter's entry is the time such a change passed.             *)
(***************************************************************************)
LEMMA InformedSuppressed ==
    ASSUME TypeOK, RegistryOK, WorkerOK, LimiterOK, NEW s \in Asking, InformedOf(s),
           SuppressChange
    PROVE  InformedOf(s)'
  <1> DEFINE t == message.target
             T == TargetOf(s)
  <1>1. /\ UNCHANGED <<plan, publisherQueue, recipients, subscribePc, mailboxes,
                       callbackQueue, calling, told, version, passedAt>>
        /\ publisherPc = "publish"
        /\ suppressedAt' = [suppressedAt EXCEPT ![t] = now]
        /\ ~(t \in Routed /\ ShouldNotify(t))
    BY DEF SuppressChange, registryVars, callbackVars
  <1>2. /\ T \in Targets /\ t \in Targets /\ recipients = <<>> /\ now \in Nat
    BY <1>1, RequestType, PublisherAssumption
       DEF TypeOK, IsPlan, WorkerOK, WorkerTypeOK, Message
  <1>3. Uninformed(s)' => Uninformed(s)
    BY <1>1 DEF Uninformed
  <1>4. ASSUME Uninformed(s), T = t PROVE HeldBack(T)'
    <2>1. /\ lastNotifyTimes[LimiterKey(T)] # Never
          /\ ~(now - lastNotifyTimes[LimiterKey(T)] >= MinimumInterval[T])
      BY <1>1, <1>4 DEF Uninformed, ShouldNotify
    <2>2. LimiterKey(T) \in LimiterKeys
      BY <1>2, LimiterKeyType
    <2>3. PICK u \in Targets : /\ LimiterKey(u) = LimiterKey(T)
                               /\ passedAt[u] = lastNotifyTimes[LimiterKey(T)]
      BY <2>1, <2>2 DEF LimiterOK, PassedLast
    <2>4. passedAt[u] \in Nat /\ MinimumInterval[T] \in Nat
      BY <1>2, <2>1, <2>3, PublisherAssumption DEF TypeOK, HistoryTypeOK
    <2>5. now - passedAt[u] < MinimumInterval[T]
      BY <1>2, <2>1, <2>3, <2>4
    <2>6. suppressedAt'[T] = now /\ now # Never
      BY <1>1, <1>2, <1>4, NeverApart DEF TypeOK, HistoryTypeOK
    <2>7. LimiterKey(u)' = LimiterKey(T)' /\ passedAt'[u] = passedAt[u] /\ passedAt[u] # Never
      BY <1>1, <2>1, <2>3 DEF LimiterKey
    <2>8. QED
      BY <1>1, <2>5, <2>6, <2>7 DEF HeldBack
  <1>5. ASSUME T # t, OnItsWay(s) PROVE OnItsWay(s)'
    BY <1>1, <1>2, <1>5, EmptyList DEF OnItsWay
  <1>6. ASSUME T # t, HeldBack(T) PROVE HeldBack(T)'
    <2>1. suppressedAt'[T] = suppressedAt[T]
      BY <1>1, <1>2, <1>6 DEF TypeOK, HistoryTypeOK
    <2>2. \A u \in Targets : LimiterKey(u)' = LimiterKey(u)
      BY <1>1 DEF LimiterKey
    <2>3. QED
      BY <1>1, <1>2, <1>6, <2>1, <2>2 DEF HeldBack
  <1>7. QED
    BY <1>1, <1>3, <1>4, <1>5, <1>6 DEF InformedOf

\* Whoever is subscribed when the recipients of a change are chosen is one.
LEMMA InformedChosen ==
    ASSUME TypeOK, RegistryOK, WorkerOK, NEW s \in Asking, InformedOf(s), ChooseRecipients
    PROVE  InformedOf(s)'
  <1>1. /\ UNCHANGED <<plan, publisherQueue, message, subscribePc, mailboxes, callbackQueue,
                       calling, told, version>>
        /\ UNCHANGED <<plan, limiterHistory>>
        /\ recipients = <<>> /\ publisherPc = "choose" /\ publisherPc' = "deliver"
        /\ recipients' \in GetSubscriptions(message.target, message.trigger)
    BY DEF ChooseRecipients, registryVars, callbackVars, WorkerOK
  <1>2. s \in Subscribers
    BY RequestType DEF TypeOK
  <1>3. Uninformed(s)' => Uninformed(s)
    BY <1>1 DEF Uninformed
  <1>4. HeldBack(TargetOf(s)) => HeldBack(TargetOf(s))'
    BY <1>1, HeldBackFrame DEF HeldBack, LimiterKey
  <1>5. ASSUME Uninformed(s), message.trigger = "OnChange", message.target = TargetOf(s)
        PROVE  OnItsWay(s)'
    <2>1. Contains(subscriptions, s) /\ TriggerOf(s) = "OnChange"
      BY <1>2, <1>5 DEF Uninformed, RegistryOK, RegistryOf, InStore
    <2>2. Contains(recipients', s)
      BY <1>1, <1>5, <2>1, GetSubscriptionsProperties DEF TypeOK, RegistryTypeOK
    <2>3. QED
      BY <1>1, <1>5, <2>2 DEF OnItsWay
  <1>6. ASSUME Uninformed(s), OnItsWay(s) PROVE OnItsWay(s)'
    BY <1>1, <1>5, <1>6, EmptyList DEF OnItsWay
  <1>7. QED
    BY <1>3, <1>4, <1>6 DEF InformedOf

\* What is delivered reaches the mailbox, which is not empty when it is full, or
\* the queue of the callback thread.
LEMMA InformedDelivered ==
    ASSUME TypeOK, WorkerOK, NEW s \in Asking, InformedOf(s), Deliver
    PROVE  InformedOf(s)'
  <1> DEFINE h == Head(recipients)
  <1>1. /\ UNCHANGED <<plan, publisherQueue, publisherPc, message, subscribePc, calling, told,
                       version>>
        /\ UNCHANGED <<plan, limiterHistory>>
        /\ recipients # <<>> /\ recipients' = Tail(recipients)
    BY DEF Deliver, registryVars, callbackVars
  <1>2. /\ s \in Subscribers /\ h \in Subscribers
        /\ \A x : Contains(recipients, x) <=> x = h \/ Contains(Tail(recipients), x)
    BY <1>1, RequestType, TailDistinct DEF TypeOK, WorkerTypeOK
  <1>3. Uninformed(s)' => Uninformed(s)
    BY <1>1 DEF Uninformed
  <1>4. HeldBack(TargetOf(s)) => HeldBack(TargetOf(s))'
    BY <1>1, HeldBackFrame DEF HeldBack, LimiterKey
  <1>5. /\ mailboxes[s] \in Seq(Triggers) /\ callbackQueue \in Seq(CallbackEvent)
        /\ message.trigger \in Triggers
    <2>1. message \in Message
      BY DEF Deliver, WorkerOK, TypeOK, WorkerTypeOK
    <2>2. QED
      BY <1>2, <2>1 DEF Message, TypeOK, SinkTypeOK
  <1>6. mailboxes[s] # <<>> => mailboxes'[s] # <<>>
    <2>1. Append(mailboxes[s], message.trigger) # <<>>
      BY <1>5, AppendProperties, EmptySeq
    <2>2. mailboxes'[s] \in {mailboxes[s], Append(mailboxes[s], message.trigger)}
      BY <1>2 DEF Deliver, TypeOK, SinkTypeOK
    <2>3. QED
      BY <2>1, <2>2
  <1>7. \A x : HoldsId(callbackQueue, x) => HoldsId(callbackQueue', x)
    <2> DEFINE e == [id |-> h, trigger |-> message.trigger]
    <2>1. e \in CallbackEvent
      BY <1>2, <1>5 DEF CallbackEvent
    <2>2. \A x : HoldsId(callbackQueue, x) => HoldsId(FifoInsert(callbackQueue, e), x)
      BY <1>5, <2>1, FifoIds
    <2>3. callbackQueue' \in {callbackQueue, FifoInsert(callbackQueue, e)}
      BY DEF Deliver
    <2>4. QED
      BY <2>2, <2>3
  <1>8. ASSUME Uninformed(s), s = h PROVE OnItsWay(s)'
    <2>1. MethodOf(s) \in {"Mailbox", "Callback"}
      BY <1>8, RequestType DEF Uninformed, TypeOK, Methods
    <2>2. CASE MethodOf(s) = "Mailbox"
      <3>1. CASE Len(mailboxes[s]) < MailboxLimit
        <4>1. mailboxes'[s] = Append(mailboxes[s], message.trigger)
          BY <1>2, <1>8, <2>2, <3>1 DEF Deliver, TypeOK, SinkTypeOK
        <4>2. mailboxes'[s] # <<>>
          BY <1>5, <4>1, AppendProperties, EmptySeq
        <4>3. QED
          BY <4>2 DEF OnItsWay
      <3>2. CASE ~(Len(mailboxes[s]) < MailboxLimit)
        <4>1. mailboxes[s] # <<>>
          BY <1>5, <3>2, PublisherAssumption, EmptySeq, LenProperties
        <4>2. QED
          BY <1>6, <4>1 DEF OnItsWay
      <3>3. QED
        BY <3>1, <3>2
    <2>3. CASE MethodOf(s) = "Callback"
      <3> DEFINE e == [id |-> s, trigger |-> message.trigger]
      <3>1. e \in CallbackEvent
        BY <1>2, <1>5 DEF CallbackEvent
      <3>2. callbackQueue' = FifoInsert(callbackQueue, e)
        BY <1>8, <2>3 DEF Deliver
      <3>3. HoldsId(callbackQueue', s)
        BY <1>5, <3>1, <3>2, FifoIds
      <3>4. QED
        BY <3>3 DEF OnItsWay
    <2>4. QED
      BY <2>1, <2>2, <2>3
  <1>9. ASSUME s # h, OnItsWay(s) PROVE OnItsWay(s)'
    BY <1>1, <1>2, <1>6, <1>7, <1>9 DEF OnItsWay
  <1>10. QED
    BY <1>3, <1>4, <1>8, <1>9 DEF InformedOf

\* A notification leaves the callback thread when its callback is made; that of
\* a subscriber is found.
LEMMA InformedCallback ==
    ASSUME TypeOK, RegistryOK, CallbackOK, NEW s \in Asking, InformedOf(s), CallbackStep
    PROVE  InformedOf(s)'
  <1>1. /\ UNCHANGED <<plan, publisherQueue, publisherPc, message, recipients, subscribePc,
                       mailboxes, version>>
        /\ UNCHANGED <<plan, limiterHistory>>
    BY DEF CallbackStep, CallbackPop, CallbackLookup, CallbackCall, workerVars, registryVars,
           historyVars
  <1>2. s \in Subscribers /\ s # Never
    BY RequestType, NeverApart DEF TypeOK
  <1>3. HeldBack(TargetOf(s)) => HeldBack(TargetOf(s))'
    BY <1>1, HeldBackFrame DEF HeldBack, LimiterKey
  <1>4. CASE CallbackPop
    <2>1. told' = told /\ calling' = Head(callbackQueue) /\ callbackQueue' = Tail(callbackQueue)
      BY <1>4 DEF CallbackPop, historyVars
    <2>2. calling.id # s
      BY <1>2, <1>4 DEF CallbackPop, CallbackOK, NoCall
    <2>3. callbackQueue \in Seq(CallbackEvent) /\ callbackQueue # <<>>
      BY <1>4 DEF CallbackPop, TypeOK, SinkTypeOK
    <2>4. HoldsId(callbackQueue, s) => calling'.id = s \/ HoldsId(callbackQueue', s)
      BY <2>1, <2>3, TailIds
    <2>5. OnItsWay(s) => OnItsWay(s)'
      BY <1>1, <2>2, <2>4 DEF OnItsWay
    <2>6. Uninformed(s)' => Uninformed(s)
      BY <1>1, <2>1 DEF Uninformed
    <2>7. QED
      BY <1>3, <2>5, <2>6 DEF InformedOf
  <1>5. CASE CallbackLookup
    <2>1. told' = told /\ callbackQueue' = callbackQueue
      BY <1>5 DEF CallbackLookup, historyVars
    <2>2. Uninformed(s)' => Uninformed(s)
      BY <1>1, <2>1 DEF Uninformed
    <2>3. ASSUME Uninformed(s), calling.id = s PROVE calling' = calling
      <3>1. calling # NoCall
        BY <1>2, <2>3 DEF NoCall
      <3>2. MethodOf(s) = "Callback"
        BY <2>3, <3>1 DEF CallbackOK, CallbackFor
      <3>3. s \in callbacks
        BY <1>2, <2>3, <3>2 DEF Uninformed, RegistryOK, RegistryOf
      <3>4. QED
        BY <1>5, <2>3, <3>3 DEF CallbackLookup
    <2>4. Uninformed(s) /\ OnItsWay(s) => OnItsWay(s)'
      BY <1>1, <2>1, <2>3 DEF OnItsWay
    <2>5. QED
      BY <1>3, <2>2, <2>4 DEF InformedOf
  <1>6. CASE CallbackCall
    <2>1. callbackQueue' = callbackQueue
      BY <1>6 DEF CallbackCall
    <2>2. CASE calling.id = s
      <3>1. told'[s] = version[TargetOf(s)]
        BY <1>2, <1>6, <2>2 DEF CallbackCall, TypeOK, HistoryTypeOK
      <3>2. QED
        BY <1>1, <3>1 DEF InformedOf, Uninformed
    <2>3. CASE calling.id # s
      <3>1. told'[s] = told[s]
        BY <1>2, <1>6, <2>3 DEF CallbackCall, TypeOK, HistoryTypeOK
      <3>2. OnItsWay(s) => OnItsWay(s)'
        BY <1>1, <2>1, <2>3 DEF OnItsWay
      <3>3. Uninformed(s)' => Uninformed(s)
        BY <1>1, <3>1 DEF Uninformed
      <3>4. QED
        BY <1>3, <3>2, <3>3 DEF InformedOf
    <2>4. QED
      BY <2>2, <2>3
  <1>7. QED
    BY <1>4, <1>5, <1>6 DEF CallbackStep

\* No step leaves a subscriber without an announcement under way.
LEMMA InformedNext ==
    ASSUME TypeOK, RegistryOK, WorkerOK, CallbackOK, LimiterOK, InformedUnlessLimited,
           [Next]_vars
    PROVE  InformedUnlessLimited'
  <1>1. plan' = plan
    BY PlanAndClock
  <1>2. ASSUME NEW s \in Asking PROVE InformedOf(s)'
    <2>1. InformedOf(s)
      BY InformedOfEach
    <2>2. CASE Tick \/ UNCHANGED vars
      <3>1. /\ UNCHANGED <<plan, publisherQueue, publisherPc, message, recipients, subscribePc,
                           mailboxes, callbackQueue, calling, told, version>>
            /\ UNCHANGED <<plan, limiterHistory>>
        BY <2>2 DEF Tick, vars, workerVars, registryVars, callbackVars, historyVars
      <3>2. HeldBack(TargetOf(s)) => HeldBack(TargetOf(s))'
        BY <3>1, HeldBackFrame DEF HeldBack, LimiterKey
      <3>3. OnItsWay(s)' = OnItsWay(s) /\ Uninformed(s)' = Uninformed(s)
        BY <3>1 DEF OnItsWay, Uninformed
      <3>4. QED
        BY <2>1, <3>2, <3>3 DEF InformedOf
    <2>3. CASE \E t \in Targets : Changed(t)
      BY <2>1, <2>3, InformedChanged
    <2>4. CASE \E u \in Subscribers : ApplicationStep(u)
      BY <2>1, <2>4, InformedApplication
    <2>5. CASE PublisherStep
      BY <2>1, <2>5, InformedLoop, InformedPass, InformedSuppressed, InformedChosen,
         InformedDelivered
         DEF PublisherStep
    <2>6. CASE CallbackStep
      BY <2>1, <2>6, InformedCallback
    <2>7. QED
      BY <2>2, <2>3, <2>4, <2>5, <2>6, NextIsStep
  <1>3. InformedUnlessLimited' <=> \A s \in Asking : InformedOf(s)'
    BY <1>1 DEF InformedUnlessLimited, InformedOf, Uninformed
  <1>4. QED
    BY <1>2, <1>3

-----------------------------------------------------------------------------
(* The theorems *)

\* Nothing is registered, held or counted when the publisher starts.
LEMMA InvInit == Init => IInv /\ InformedUnlessLimited
  <1> SUFFICES ASSUME Init PROVE IInv /\ InformedUnlessLimited
    OBVIOUS
  <1>1. TypeOK
    BY TypeInit
  <1>2. \A s \in Asking : s \in Subscribers /\ TargetOf(s) \in Targets
    BY <1>1, RequestType DEF TypeOK
  <1>3. RegistryOK
    BY EmptyList DEF Init, RegistryOK, RegistryOf, InStore, InConditions
  <1>4. WorkerOK
    BY EmptyList DEF Init, WorkerOK, RecipientOK, DueOK, ServingPeriodic
  <1>5. CallbackOK
    BY DEF Init, CallbackOK, LateOK
  <1>6. LimiterOK
    BY DEF Init, LimiterOK, PassedLast
  <1>7. PassedNow
    BY DEF Init, PassedNow
  <1>8. \A s \in Asking : delivered[s] = 0 /\ chosenAt[s] = Never
                          /\ nextNotifyTime[s] = Never /\ told[s] = 0
                          /\ version[TargetOf(s)] = 0 /\ ~Contains(recipients, s)
    BY <1>2, EmptyList DEF Init
  <1>9. RateOK /\ GridOK /\ EarlyOK
    BY <1>8 DEF RateOK, RateOf, GridOK, OnGrid, EarlyOK, EarlyOf
  <1>10. InformedUnlessLimited
    BY <1>8 DEF InformedUnlessLimited
  <1>11. QED
    BY <1>1, <1>3, <1>4, <1>5, <1>6, <1>7, <1>9, <1>10 DEF IInv, CountsOK

\* The invariant is inductive.
LEMMA InvNext ==
    ASSUME IInv, [Next]_vars
    PROVE  IInv'
  <1>1. /\ TypeOK /\ RegistryOK /\ WorkerOK /\ CallbackOK /\ LimiterOK /\ PassedNow
        /\ RateOK /\ GridOK /\ EarlyOK
    BY DEF IInv, CountsOK
  <1>2. TypeOK' /\ RegistryOK' /\ WorkerOK' /\ CallbackOK' /\ LimiterOK' /\ PassedNow'
    BY <1>1, TypeNext, RegistryNext, WorkerNext, CallbackNext, LimiterNext, PassedNowNext
  <1>3. RateOK' /\ GridOK' /\ EarlyOK'
    BY <1>1, RateNext, GridNext, EarlyNext
  <1>4. QED
    BY <1>2, <1>3 DEF IInv, CountsOK

\* It holds in every state.
LEMMA InvHolds == Spec => []IInv
  <1>1. Init => IInv
    BY InvInit
  <1>2. QED
    BY <1>1, InvNext, PTL DEF Spec

\* The queues, the store, the conditions and the mailboxes hold what they should.
THEOREM PublisherTypeCorrect == Spec => []TypeOK
  <1>1. IInv => TypeOK
    BY DEF IInv
  <1>2. QED
    BY <1>1, InvHolds, PTL

(***************************************************************************)
(* A subscriber hears of every change unless the limiter holds it back,    *)
(* for any number of subscribers, in every order in which RIM_Subscribe,   *)
(* RIM_Unsubscribe, the publisher and the callback thread take their       *)
(* critical sections.                                                      *)
(***************************************************************************)
THEOREM EveryChangeAnnounced == Spec => []InformedUnlessLimited
  <1>1. Init => IInv /\ InformedUnlessLimited
    BY InvInit
  <1>2. IInv /\ InformedUnlessLimited /\ [Next]_vars => (IInv /\ InformedUnlessLimited)'
    BY InvNext, InformedNext DEF IInv
  <1>3. QED
    BY <1>1, <1>2, PTL DEF Spec

(***************************************************************************)
(* Change notifications come at the limiter's rate, for every interval and *)
(* however slow the publisher thread is: counted from the limiter's time   *)
(* stamp of the first one, and, all but the first two, from when the       *)
(* subscription was stored, which may have been after that time stamp.     *)
(***************************************************************************)
THEOREM RateIsLimited == Spec => []NotifiedAtLimitedRate
  <1>1. ASSUME IInv PROVE NotifiedAtLimitedRate
    <2>1. TypeOK /\ RegistryOK /\ LimiterOK /\ RateOK
      BY <1>1 DEF IInv, CountsOK
    <2>2. ASSUME NEW s \in Asking, TriggerOf(s) = "OnChange", delivered[s] > 0
          PROVE  /\ (delivered[s] - 1) * Minimum(s) <= now - chosenAt[s]
                 /\ (delivered[s] - 2) * Minimum(s) <= now - storedAt[s]
      <3> DEFINE fewer == (delivered[s] - 2) * Minimum(s)
                 one   == (delivered[s] - 1) * Minimum(s)
                 L     == LastPass(s)
      <3>1. /\ now \in Nat /\ delivered[s] \in Nat /\ Minimum(s) \in Nat
            /\ chosenAt[s] \in Nat \cup {Never}
            /\ L # Never => L \in Nat /\ L <= now
            /\ subscribePc[s] # "store" => storedAt[s] \in Nat /\ storedAt[s] <= now
        BY <2>1, RateNumbers
      <3>2. fewer \in Int /\ one = fewer + Minimum(s) /\ (delivered[s] = 1 => one = 0)
        BY <2>1, RateNumbers
      <3>3. RateOf(s)
        BY <2>1 DEF RateOK
      <3>4. chosenAt[s] # Never
        BY <2>2, <3>1, <3>3 DEF RateOf
      <3>5. /\ subscribePc[s] # "store" /\ L # Never
            /\ one <= L - chosenAt[s]
            /\ delivered[s] > 1 => fewer <= L - storedAt[s]
        BY <2>2, <3>3, <3>4 DEF RateOf
      <3> HIDE DEF fewer, one, L
      <3>6. /\ chosenAt[s] \in Nat /\ L \in Nat /\ L <= now
            /\ storedAt[s] \in Nat /\ storedAt[s] <= now
        BY <3>1, <3>4, <3>5
      <3>7. one <= now - chosenAt[s]
        BY <3>1, <3>2, <3>5, <3>6
      <3>8. fewer <= now - storedAt[s]
        <4>1. CASE delivered[s] > 1
          BY <3>1, <3>2, <3>5, <3>6, <4>1
        <4>2. CASE delivered[s] = 1
          BY <3>1, <3>2, <3>6, <4>2
        <4>3. QED
          BY <2>2, <3>1, <4>1, <4>2
      <3>9. QED
        BY <3>7, <3>8 DEF fewer, one
    <2>3. QED
      BY <2>2 DEF NotifiedAtLimitedRate, Minimum
  <1>2. QED
    BY <1>1, InvHolds, PTL

\* A periodic subscription alone on its target is never notified early.
THEOREM NeverEarly == Spec => []PeriodicNeverEarly
  <1>1. ASSUME IInv PROVE PeriodicNeverEarly
    <2>1. TypeOK /\ RegistryOK /\ EarlyOK
      BY <1>1 DEF IInv, CountsOK
    <2>2. ASSUME NEW s \in Asking, TriggerOf(s) = "Periodic", AloneOnTarget(s), delivered[s] > 0
          PROVE  /\ scheduledAt[s] # Never
                 /\ delivered[s] * IntervalOf(s) <= now - scheduledAt[s]
      <3>1. s \in Subscribers
        BY <2>1, RequestType DEF TypeOK
      <3>2. /\ Registered(s)
            /\ delivered[s] * IntervalOf(s) <= now - scheduledAt[s]
        BY <2>1, <2>2 DEF EarlyOK, EarlyOf
      <3>3. QED
        BY <2>1, <2>2, <3>1, <3>2 DEF RegistryOK, RegistryOf
    <2>3. QED
      BY <2>2 DEF PeriodicNeverEarly
  <1>2. QED
    BY <1>1, InvHolds, PTL

\* Periodic notifications do not drift, and a condition has a subscription.
THEOREM NoDrift == Spec => []PeriodicOnGrid
  <1>1. ASSUME IInv PROVE PeriodicOnGrid
    <2>1. TypeOK /\ RegistryOK /\ GridOK
      BY <1>1 DEF IInv, CountsOK
    <2>2. \A s \in Asking : nextNotifyTime[s] # Never =>
             Contains(subscriptions, s) \/ subscribePc[s] = "forgetCondition"
      BY <2>1, RequestType DEF TypeOK, RegistryOK, RegistryOf, InStore, InConditions
    <2>3. QED
      BY <2>1, <2>2 DEF PeriodicOnGrid, GridOK, OnGrid
  <1>2. QED
    BY <1>1, InvHolds, PTL

\* A subscriber that has unsubscribed is called at most once more.
THEOREM AtMostOneLateCall == Spec => []SilentOnceUnsubscribed
  <1>1. ASSUME IInv PROVE SilentOnceUnsubscribed
    <2>1. TypeOK /\ RegistryOK /\ CallbackOK
      BY <1>1 DEF IInv
    <2>2. ASSUME NEW s \in Asking, subscribePc[s] = "unsubscribed"
          PROVE  /\ lateCalls[s] + (IF callbackPc = "call" /\ calling.id = s THEN 1 ELSE 0) <= 1
                 /\ nextNotifyTime[s] = Never
                 /\ ~Contains(subscriptions, s)
      <3>1. RegistryOf(s) /\ LateOK(s)
        BY <2>1, RequestType DEF TypeOK, RegistryOK, CallbackOK
      <3>2. QED
        BY <2>2, <3>1 DEF RegistryOf, LateOK, InStore, InConditions
    <2>3. QED
      BY <2>2 DEF SilentOnceUnsubscribed
  <1>2. QED
    BY <1>1, InvHolds, PTL
=============================================================================
