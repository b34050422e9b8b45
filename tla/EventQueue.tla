----------------------------- MODULE EventQueue -----------------------------
(***************************************************************************)
(* One EventQueue<T, Policy> between the threads that push to it and the   *)
(* threads that pop from it, down to its condition variable.  The mutex is *)
(* released while a consumer waits and held without a break otherwise, so  *)
(* a critical section is one step; notify_one and notify_all come after    *)
(* it, outside the mutex, and are steps of their own.                      *)
(*                                                                         *)
(* A consumer is "idle" between two calls, "waiting" inside cv_.wait or    *)
(* cv_.wait_for, "woken" once a notification (or nothing: a spurious wake) *)
(* released it, and "timedout" once wait_for's deadline did.  The last two *)
(* hold no lock yet: others may run before they look at the queue again.   *)
(***************************************************************************)
EXTENDS Integers, FiniteSets, QueuePolicies

CONSTANTS
    Producers, Consumers,
    Timed,             \* consumers that call WaitAndPopFor, the others WaitAndPop
    Kind,              \* the policy the queue was created with
    Ids,               \* compression keys of the events
    MaxPushes          \* bound: pushes accepted in one behaviour

ASSUME EventQueueAssumption ==
    /\ IsFiniteSet(Producers) /\ IsFiniteSet(Consumers)
    /\ Timed \subseteq Consumers
    /\ Kind \in QueueKinds
    /\ MaxPushes \in Nat

VARIABLES
    events,        \* events_
    shutdown,      \* shutdown_
    producer,      \* what each pushing thread does
    stopper,       \* what the thread that calls Shutdown does
    consumer,      \* what each popping thread does
    pushes         \* number of pushes accepted so far

queueVars == <<events, shutdown, producer, stopper, consumer, pushes>>

Event   == [id : Ids]
Waiting == {c \in Consumers : consumer[c] = "waiting"}
Awake   == {c \in Consumers : consumer[c] \in {"woken", "timedout"}}
Owing   == {p \in Producers : producer[p] = "notify"}

QueueInit ==
    /\ events = <<>> /\ shutdown = FALSE
    /\ producer = [p \in Producers |-> "idle"]
    /\ stopper = "idle"
    /\ consumer = [c \in Consumers |-> "idle"]
    /\ pushes = 0

-----------------------------------------------------------------------------
(* The producers *)

\* Mutant: notifies only when the queue was empty.
PushWhenEmptyNotifies(p, e) ==
    /\ producer[p] = "idle" /\ ~shutdown /\ pushes < MaxPushes
    /\ events' = RouteInsert(Kind, events, e)
    /\ producer' = [producer EXCEPT ![p] = IF events = <<>> THEN "notify" ELSE "idle"]
    /\ pushes' = pushes + 1
    /\ UNCHANGED <<shutdown, stopper, consumer>>

(***************************************************************************)
(* Push, up to the end of its critical section.  On a queue that is shut   *)
(* down it returns false and changes nothing.                              *)
(***************************************************************************)
Push(p, e) ==
    /\ producer[p] = "idle" /\ ~shutdown /\ pushes < MaxPushes
    /\ events' = RouteInsert(Kind, events, e)
    /\ producer' = [producer EXCEPT ![p] = "notify"]
    /\ pushes' = pushes + 1
    /\ UNCHANGED <<shutdown, stopper, consumer>>

\* cv_.notify_one: any one of the waiting threads, or nobody if none waits.
NotifyOne(p) ==
    /\ producer[p] = "notify"
    /\ producer' = [producer EXCEPT ![p] = "idle"]
    /\ \/ Waiting = {} /\ UNCHANGED consumer
       \/ \E c \in Waiting : consumer' = [consumer EXCEPT ![c] = "woken"]
    /\ UNCHANGED <<events, shutdown, stopper, pushes>>

-----------------------------------------------------------------------------
(* Shutdown, which nothing undoes *)

Shutdown ==
    /\ stopper = "idle"
    /\ shutdown' = TRUE
    /\ stopper' = "notify"
    /\ UNCHANGED <<events, producer, consumer, pushes>>

\* Mutant: notify_one in place of notify_all.
NotifyJustOne ==
    /\ stopper = "notify"
    /\ stopper' = "idle"
    /\ \/ Waiting = {} /\ UNCHANGED consumer
       \/ \E c \in Waiting : consumer' = [consumer EXCEPT ![c] = "woken"]
    /\ UNCHANGED <<events, shutdown, producer, pushes>>

\* A stop that is called again shuts the queue down again.
NotifyAll ==
    /\ stopper = "notify"
    /\ stopper' = "idle"
    /\ consumer' = [c \in Consumers |->
                       IF c \in Waiting THEN "woken" ELSE consumer[c]]
    /\ UNCHANGED <<events, shutdown, producer, pushes>>

-----------------------------------------------------------------------------
(* The consumers *)

\* The front event is moved out and the call returns true.
PopFront(c) ==
    /\ events # <<>>
    /\ events' = Tail(events)
    /\ consumer' = [consumer EXCEPT ![c] = "idle"]

\* The call returns false; the worker's loop may call again.
ReturnFalse(c) ==
    /\ consumer' = [consumer EXCEPT ![c] = "idle"]
    /\ UNCHANGED events

Sleep(c) ==
    /\ consumer' = [consumer EXCEPT ![c] = "waiting"]
    /\ UNCHANGED events

\* Mutant: waits for a notification before it has looked at the queue.
WaitBeforeTest(c) ==
    /\ consumer[c] = "idle"
    /\ ~shutdown /\ Sleep(c)
    /\ UNCHANGED <<shutdown, producer, stopper, pushes>>

(***************************************************************************)
(* WaitAndPop and WaitAndPopFor from their call: the predicate is tested   *)
(* before the first wait.                                                  *)
(***************************************************************************)
Wait(c) ==
    /\ consumer[c] = "idle"
    /\ \/ PopFront(c)
       \/ events = <<>> /\ shutdown /\ ReturnFalse(c)
       \/ events = <<>> /\ ~shutdown /\ Sleep(c)
    /\ UNCHANGED <<shutdown, producer, stopper, pushes>>

\* TryPop never waits.
TryPop(c) ==
    /\ consumer[c] = "idle"
    /\ PopFront(c)
    /\ UNCHANGED <<shutdown, producer, stopper, pushes>>

\* Mutant: the predicate forgets shutdown_.
RewaitOnShutdown(c) ==
    /\ consumer[c] = "woken"
    /\ \/ PopFront(c)
       \/ events = <<>> /\ Sleep(c)
    /\ UNCHANGED <<shutdown, producer, stopper, pushes>>

\* The predicate again, under the mutex, after a wake.
Resume(c) ==
    /\ consumer[c] = "woken"
    /\ \/ PopFront(c)
       \/ events = <<>> /\ shutdown /\ ReturnFalse(c)
       \/ events = <<>> /\ ~shutdown /\ Sleep(c)
    /\ UNCHANGED <<shutdown, producer, stopper, pushes>>

(***************************************************************************)
(* wait_for returns the predicate after the deadline: an event that        *)
(* arrived meanwhile is still taken.                                       *)
(***************************************************************************)
ResumeTimedOut(c) ==
    /\ consumer[c] = "timedout"
    /\ \/ PopFront(c)
       \/ events = <<>> /\ ReturnFalse(c)
    /\ UNCHANGED <<shutdown, producer, stopper, pushes>>

Timeout(c) ==
    /\ c \in Timed \cap Waiting
    /\ consumer' = [consumer EXCEPT ![c] = "timedout"]
    /\ UNCHANGED <<events, shutdown, producer, stopper, pushes>>

SpuriousWake(c) ==
    /\ c \in Waiting
    /\ consumer' = [consumer EXCEPT ![c] = "woken"]
    /\ UNCHANGED <<events, shutdown, producer, stopper, pushes>>

-----------------------------------------------------------------------------
QueueNext ==
    \/ \E p \in Producers : NotifyOne(p) \/ \E e \in Event : Push(p, e)
    \/ Shutdown \/ NotifyAll
    \/ \E c \in Consumers : \/ Wait(c) \/ TryPop(c) \/ Resume(c) \/ ResumeTimedOut(c)
                            \/ Timeout(c) \/ SpuriousWake(c)

QueueSpec == QueueInit /\ [][QueueNext]_queueVars

(***************************************************************************)
(* A thread that is inside a call of the queue finishes it, and a worker   *)
(* that got its event comes back for the next one while the queue is not   *)
(* shut down (a worker's running_ is cleared by the stop that shuts its    *)
(* queue down, and the bodies of the worker loops are bounded).  No        *)
(* fairness for pushing, for calling Shutdown, for TryPop, for a timeout   *)
(* or for a spurious wake: nothing below may depend on them.               *)
(***************************************************************************)
FairQueueSpec ==
    /\ QueueSpec
    /\ \A p \in Producers : WF_queueVars(NotifyOne(p))
    /\ WF_queueVars(NotifyAll)
    /\ \A c \in Consumers : /\ WF_queueVars(~shutdown /\ Wait(c))
                            /\ WF_queueVars(Resume(c))
                            /\ WF_queueVars(ResumeTimedOut(c))

-----------------------------------------------------------------------------
(* Properties *)

(***************************************************************************)
(* No lost wake-up: while a consumer sleeps, every queued event has a      *)
(* thread that will see to it, a consumer that is awake or a producer that *)
(* has still to notify.  Push notifies after it released the mutex, so     *)
(* another consumer may take the event, wait and be woken in between.      *)
(***************************************************************************)
NobodySleepsOverEvents ==
    Waiting # {} => Len(events) <= Cardinality(Awake) + Cardinality(Owing)

(***************************************************************************)
(* Nobody sleeps through Shutdown: a consumer that waits on a queue that   *)
(* is shut down is about to be notified, so the join that follows every    *)
(* Shutdown is not waiting for a thread nobody will wake.                  *)
(***************************************************************************)
NobodySleepsThroughShutdown ==
    shutdown /\ Waiting # {} => stopper = "notify"

(***************************************************************************)
(* An event that was accepted is popped, unless the queue is shut down     *)
(* first (pushes are bounded, so a queue that never drains holds an event  *)
(* that no worker comes for).                                              *)
(***************************************************************************)
EventuallyDrained == (events # <<>>) ~> (events = <<>> \/ shutdown)

\* From some point after Shutdown on, no consumer waits.
ShutdownReleases == shutdown ~> [](Waiting = {})
=============================================================================
