----------------------------- MODULE Lifecycle -----------------------------
(***************************************************************************)
(* RIM_Create, RIM_Start, RIM_Stop and RIM_Destroy against the worker      *)
(* threads they start, stop and join.  Each worker pops from one queue and *)
(* pushes to the next: the two workers of a route, then the                *)
(* PublisherWorker, then the CallbackWorker.  What flows is abstracted to  *)
(* a number of queued items, and a worker may push or not push for the     *)
(* item it took (modules Pipeline and Publisher say when).  The calls come *)
(* from one application thread, values are set from any.                   *)
(*                                                                         *)
(* Four revisions, as in module Publisher: "top", "755", "0818" and        *)
(* "0820".  In "0818" values arrive at a router thread, which hands them   *)
(* to the routes; in both old ones a route stops its CapabilityWorker      *)
(* first, and that worker shuts its queue down whether it runs or not.     *)
(***************************************************************************)
EXTENDS Integers, Sequences, SequencesExt

CONSTANTS
    RouteOrder,        \* RIManagerContext::routeExecutor
    Publisher, Callback, Router,
    Revisions,
    MaxQueued,         \* bound: items in one queue
    MaxCalls           \* revision -> bound: calls of the four functions

Routes == ToSet(RouteOrder)

Store(r)      == <<r, "store">>
Capability(r) == <<r, "capability">>
RouteWorkers  == Routes \X {"store", "capability"}
Workers       == RouteWorkers \cup {Publisher, Callback, Router}

ASSUME LifecycleAssumption ==
    /\ RouteOrder \in Seq(Routes)
    /\ \A i, j \in DOMAIN RouteOrder : i # j => RouteOrder[i] # RouteOrder[j]
    /\ Publisher # Callback /\ Router \notin {Publisher, Callback}
    /\ RouteWorkers \cap {Publisher, Callback, Router} = {}
    /\ Revisions \subseteq {"top", "755", "0818", "0820"}
    /\ MaxQueued \in Nat /\ MaxCalls \in [Revisions -> Nat]

\* The workers that the queues w pushes to belong to.
Downstream(w) ==
    {d \in Workers : \/ w = Router /\ \E r \in Routes : d = Store(r)
                     \/ \E r \in Routes : w = Store(r) /\ d = Capability(r)
                     \/ \E r \in Routes : w = Capability(r) /\ d = Publisher
                     \/ w = Publisher /\ d = Callback}

VARIABLES
    revision,          \* the code that runs
    context,           \* g_context is not null
    todo,              \* what is left of the call being made
    calls,             \* number of calls made so far
    phase,             \* history: "new", "started" or "stopped"
    everStopped,       \* history: RIM_Stop was called in this context
    restarted,         \* history: ... and RIM_Start after it
    running,           \* running_ of each worker
    thread,            \* where its thread is: none, test, pop, process, ended
    stopped,           \* RouteExecutor::stopped_
    shutdown,          \* EventQueue::shutdown_ of each worker's queue
    queue,             \* items queued for each worker
    terminated         \* std::terminate: a joinable std::thread was destroyed
                       \* or assigned to

vars == <<revision, context, todo, calls, phase, everStopped, restarted, running, thread, stopped,
          shutdown, queue, terminated>>

applicationVars == <<revision, context, calls, phase, everStopped, restarted>>

Is(v) == revision = v

Init ==
    /\ revision \in Revisions
    /\ context = FALSE
    /\ todo = <<>>
    /\ calls = 0
    /\ phase = "new" /\ everStopped = FALSE /\ restarted = FALSE
    /\ running = [w \in Workers |-> FALSE]
    /\ thread = [w \in Workers |-> "none"]
    /\ stopped = [r \in Routes |-> FALSE]
    /\ shutdown = [w \in Workers |-> FALSE]
    /\ queue = [w \in Workers |-> 0]
    /\ terminated = FALSE

-----------------------------------------------------------------------------
(* The calls.  One that finds no context returns RI_NOT_INITIALIZED. *)

Step(op, who) == [op |-> op, who |-> who]

\* for (auto& route : routeExecutor): one step for every route, in their order.
ForRoutes(op) == [i \in DOMAIN RouteOrder |-> Step(op, RouteOrder[i])]

\* RouteExecutor::Start, RoutePipeline::Start
StartRoute(r) == <<Step("start", Store(r)), Step("start", Capability(r))>>

\* What RouteExecutor::Stop and RoutePipeline::Stop stop, in this order.
StopTop(r)  == <<Step("stop", Store(r)), Step("stop", Capability(r))>>
Stop755(r)  == <<Step("stop", Store(r)), Step("stop", Capability(r))>>
Stop0818(r) == <<Step("stop", Capability(r)), Step("stop", Store(r))>>
Stop0820(r) == <<Step("stop", Capability(r)), Step("stop", Store(r))>>

StopOrder(r) ==
    CASE Is("top") -> StopTop(r) [] Is("755") -> Stop755(r)
      [] Is("0818") -> Stop0818(r) [] Is("0820") -> Stop0820(r)

\* ~RouteExecutor
DestroyRoute(r) ==
    <<Step("latch", r), Step("stop", Capability(r)), Step("free", Capability(r)),
      Step("stop", Store(r)), Step("free", Store(r))>>

\* The workers that RIM_Start, RIM_Stop and RIM_Destroy name, but for Publisher
\* and Callback: the router of "0818" goes first and last.
StartRouter   == IF Is("0818") THEN <<Step("start", Router)>> ELSE <<>>
StopRouter    == IF Is("0818") THEN <<Step("stop", Router)>> ELSE <<>>
DestroyRouter == IF Is("0818") THEN <<Step("stop", Router), Step("free", Router)>> ELSE <<>>

StopAll == <<Step("stop", Publisher), Step("stop", Callback)>> \o ForRoutes("latch")

Call ==
    /\ todo = <<>> /\ calls < MaxCalls[revision] /\ ~terminated
    /\ calls' = calls + 1

\* Initialize builds every queue, worker and executor anew.
Create ==
    /\ Call /\ ~context
    /\ context' = TRUE
    /\ phase' = "new" /\ everStopped' = FALSE /\ restarted' = FALSE
    /\ stopped' = [r \in Routes |-> FALSE]
    /\ shutdown' = [w \in Workers |-> FALSE]
    /\ queue' = [w \in Workers |-> 0]
    /\ UNCHANGED <<revision, todo, running, thread, terminated>>

Start ==
    /\ Call /\ context
    /\ todo' = StartRouter \o ForRoutes("startRoute")
                  \o <<Step("start", Callback), Step("start", Publisher)>>
    /\ phase' = "started" /\ restarted' = everStopped
    /\ UNCHANGED <<revision, context, everStopped, running, thread, stopped, shutdown, queue, terminated>>

Stop ==
    /\ Call /\ context
    /\ todo' = StopAll \o StopRouter
    /\ phase' = "stopped" /\ everStopped' = TRUE
    /\ UNCHANGED <<revision, context, restarted, running, thread, stopped, shutdown, queue, terminated>>

(***************************************************************************)
(* routeExecutor.clear() runs the destructors: ~RouteExecutor stops again, *)
(* then its members go in the reverse order of their declaration, and      *)
(* ~CapabilityWorker and ~DataStoreWorker stop what still runs.            *)
(***************************************************************************)
Destroy ==
    /\ Call /\ context
    /\ todo' = StopAll \o ForRoutes("destroyRoute") \o DestroyRouter
                  \o <<Step("free", Publisher), Step("free", Callback), Step("reset", Publisher)>>
    /\ phase' = "stopped" /\ everStopped' = TRUE
    /\ UNCHANGED <<revision, context, restarted, running, thread, stopped, shutdown, queue, terminated>>

-----------------------------------------------------------------------------
(* The steps of the calls *)

Doing(op, w) == todo # <<>> /\ Head(todo) = Step(op, w)

\* Mutant: a second start starts a second thread.
StartAgain(w) ==
    /\ Doing("start", w)
    /\ todo' = Tail(todo)
    /\ running' = [running EXCEPT ![w] = TRUE]
    /\ thread' = [thread EXCEPT ![w] = "test"]
    /\ terminated' = (terminated \/ thread[w] # "none")
    /\ UNCHANGED <<applicationVars, stopped, shutdown, queue>>

\* start() and Run(): nothing to do while running_ is set.
StartThread(w) ==
    /\ Doing("start", w)
    /\ todo' = Tail(todo)
    /\ IF running[w] THEN UNCHANGED <<running, thread, terminated>>
       ELSE /\ running' = [running EXCEPT ![w] = TRUE]
            /\ thread' = [thread EXCEPT ![w] = "test"]
            /\ terminated' = (terminated \/ thread[w] # "none")
    /\ UNCHANGED <<applicationVars, stopped, shutdown, queue>>

\* Mutant: RIM_Stop leaves the routes to their destructors.
LatchForgotten(r) ==
    /\ Doing("latch", r)
    /\ todo' = Tail(todo)
    /\ UNCHANGED <<applicationVars, running, thread, stopped, shutdown, queue, terminated>>

\* RouteExecutor::Start and ~RouteExecutor, one route after the other.
EnterRoute(r) ==
    /\ \/ Doing("startRoute", r) /\ todo' = StartRoute(r) \o Tail(todo)
       \/ Doing("destroyRoute", r) /\ todo' = DestroyRoute(r) \o Tail(todo)
    /\ UNCHANGED <<applicationVars, running, thread, stopped, shutdown, queue, terminated>>

\* RouteExecutor::Stop stops its two workers the first time it is called.
StopRouteOnce(r) ==
    /\ Doing("latch", r)
    /\ stopped' = [stopped EXCEPT ![r] = TRUE]
    /\ todo' = IF stopped[r] THEN Tail(todo)
               ELSE StopOrder(r) \o Tail(todo)
    /\ UNCHANGED <<applicationVars, running, thread, shutdown, queue, terminated>>

(***************************************************************************)
(* stop(): the workers of a route return at once if running_ is clear, but *)
(* for the CapabilityWorker of the old revisions; that one and the others  *)
(* shut their queue down and join in any case.                             *)
(***************************************************************************)
StopsOnlyRunning(w) ==
    /\ w \in RouteWorkers
    /\ revision \in {"0818", "0820"} => w[2] = "store"

ClearRunning(w) ==
    /\ Doing("stop", w)
    /\ running' = [running EXCEPT ![w] = FALSE]
    /\ todo' = IF StopsOnlyRunning(w) /\ ~running[w] THEN Tail(todo)
               ELSE <<Step("shutdown", w), Step("join", w)>> \o Tail(todo)
    /\ UNCHANGED <<applicationVars, thread, stopped, shutdown, queue, terminated>>

\* Mutant: the queue is left open.
ShutdownForgotten(w) ==
    /\ Doing("shutdown", w)
    /\ todo' = Tail(todo)
    /\ UNCHANGED <<applicationVars, running, thread, stopped, shutdown, queue, terminated>>

ShutdownQueue(w) ==
    /\ Doing("shutdown", w)
    /\ shutdown' = [shutdown EXCEPT ![w] = TRUE]
    /\ todo' = Tail(todo)
    /\ UNCHANGED <<applicationVars, running, thread, stopped, queue, terminated>>

\* Mutant: the thread is not joined while it still runs.
JoinOnlyEnded(w) ==
    /\ Doing("join", w)
    /\ thread' = [thread EXCEPT ![w] = IF @ = "ended" THEN "none" ELSE @]
    /\ todo' = Tail(todo)
    /\ UNCHANGED <<applicationVars, running, stopped, shutdown, queue, terminated>>

\* join waits for the thread's function to return; nothing to join is no error.
Join(w) ==
    /\ Doing("join", w)
    /\ thread[w] \in {"none", "ended"}
    /\ thread' = [thread EXCEPT ![w] = "none"]
    /\ todo' = Tail(todo)
    /\ UNCHANGED <<applicationVars, running, stopped, shutdown, queue, terminated>>

Free(w) ==
    /\ Doing("free", w)
    /\ terminated' = (terminated \/ thread[w] # "none")
    /\ todo' = Tail(todo)
    /\ UNCHANGED <<applicationVars, running, thread, stopped, shutdown, queue>>

\* g_context.reset()
Reset ==
    /\ Doing("reset", Publisher)
    /\ context' = FALSE
    /\ queue' = [w \in Workers |-> 0]
    /\ todo' = Tail(todo)
    /\ UNCHANGED <<revision, calls, phase, everStopped, restarted, running, thread, stopped, shutdown, terminated>>

Control(w) ==
    StartThread(w) \/ ClearRunning(w) \/ ShutdownQueue(w) \/ Join(w) \/ Free(w)

RouteControl(kind) == \E r \in Routes : Control(<<r, kind>>)

ControlTop == Is("top") /\ \E w \in Workers : Control(w)

StoreControl755      == Is("755") /\ RouteControl("store")
CapabilityControl755 == Is("755") /\ RouteControl("capability")
PublisherControl755  == Is("755") /\ Control(Publisher)
CallbackControl755   == Is("755") /\ Control(Callback)

StoreControl0818      == Is("0818") /\ RouteControl("store")
CapabilityControl0818 == Is("0818") /\ RouteControl("capability")
PublisherControl0818  == Is("0818") /\ Control(Publisher)
CallbackControl0818   == Is("0818") /\ Control(Callback)
RouterControl0818     == Is("0818") /\ Control(Router)

StoreControl0820      == Is("0820") /\ RouteControl("store")
CapabilityControl0820 == Is("0820") /\ RouteControl("capability")
PublisherControl0820  == Is("0820") /\ Control(Publisher)
CallbackControl0820   == Is("0820") /\ Control(Callback)

Lifecycle ==
    \/ ControlTop
    \/ StoreControl755  \/ CapabilityControl755  \/ PublisherControl755  \/ CallbackControl755
    \/ StoreControl0818 \/ CapabilityControl0818 \/ PublisherControl0818 \/ CallbackControl0818
    \/ RouterControl0818
    \/ StoreControl0820 \/ CapabilityControl0820 \/ PublisherControl0820 \/ CallbackControl0820
    \/ \E r \in Routes : EnterRoute(r) \/ StopRouteOnce(r)
    \/ Reset

-----------------------------------------------------------------------------
(* The worker threads *)

\* Push, dropped without a word by a queue that is shut down, except by the
\* router's, which does not look.
Pushed(w) == IF shutdown[w] /\ w # Router THEN queue ELSE [queue EXCEPT ![w] = @ + 1]

(***************************************************************************)
(* RIM_SetXxx: it returns RI_SUCCESS whatever Push returned.  It may come  *)
(* while the workers are started or stopped, but not while g_context is    *)
(* being destroyed.                                                        *)
(***************************************************************************)
Set(r) ==
    /\ context /\ ~terminated
    /\ ~\E i \in DOMAIN todo : todo[i].op = "reset"
    /\ LET first == IF Is("0818") THEN Router ELSE Store(r)
       IN  queue[first] < MaxQueued /\ queue' = Pushed(first)
    /\ UNCHANGED <<applicationVars, todo, running, thread, stopped, shutdown, terminated>>

\* while (running_)
TestRunning(w) ==
    /\ thread[w] = "test"
    /\ thread' = [thread EXCEPT ![w] = IF running[w] THEN "pop" ELSE "ended"]
    /\ UNCHANGED <<applicationVars, todo, running, stopped, shutdown, queue, terminated>>

PopItem(w) ==
    /\ thread[w] = "pop"
    /\ queue[w] > 0
    /\ queue' = [queue EXCEPT ![w] = @ - 1]
    /\ thread' = [thread EXCEPT ![w] = "process"]
    /\ UNCHANGED <<applicationVars, todo, running, stopped, shutdown, terminated>>

\* Mutant: a timeout ends the PublisherWorker's loop.
PopNothingEnds(w) ==
    /\ thread[w] = "pop"
    /\ queue[w] = 0
    /\ shutdown[w] \/ w = Publisher
    /\ thread' = [thread EXCEPT ![w] = IF w = Callback THEN "test" ELSE "ended"]
    /\ UNCHANGED <<applicationVars, todo, running, stopped, shutdown, queue, terminated>>

(***************************************************************************)
(* A queue that is shut down and empty: router and route workers leave     *)
(* their loop, the CallbackWorker looks at running_ again.  The            *)
(* PublisherWorker, whose wait also ends after 100 ms, serves its periodic *)
(* conditions.                                                             *)
(***************************************************************************)
PopNothing(w) ==
    /\ thread[w] = "pop"
    /\ queue[w] = 0
    /\ shutdown[w] \/ w = Publisher
    /\ thread' = [thread EXCEPT ![w] = IF w \in RouteWorkers \cup {Router} THEN "ended"
                                       ELSE IF w = Callback THEN "test" ELSE "process"]
    /\ UNCHANGED <<applicationVars, todo, running, stopped, shutdown, queue, terminated>>

Process(w) ==
    /\ thread[w] = "process"
    /\ thread' = [thread EXCEPT ![w] = "test"]
    /\ \/ UNCHANGED queue
       \/ \E d \in Downstream(w) : queue[d] < MaxQueued /\ queue' = Pushed(d)
    /\ UNCHANGED <<applicationVars, todo, running, stopped, shutdown, terminated>>

Worker(w) == TestRunning(w) \/ PopItem(w) \/ PopNothing(w) \/ Process(w)

Next ==
    \/ Create \/ Start \/ Stop \/ Destroy
    \/ Lifecycle
    \/ \E r \in Routes : Set(r)
    \/ ~terminated /\ \E w \in Workers : Worker(w)

Spec == Init /\ [][Next]_vars

(***************************************************************************)
(* A call that was made goes on and the threads run; a callback returns    *)
(* and does not itself call RIM_Stop or RIM_Destroy.  Nothing is assumed   *)
(* of the application.                                                     *)
(***************************************************************************)
FairSpec == Spec /\ WF_vars(Lifecycle) /\ \A w \in Workers : WF_vars(~terminated /\ Worker(w))

-----------------------------------------------------------------------------
(* Properties *)

Idle == todo = <<>>

(***************************************************************************)
(* In every order of the four calls (a start without a stop, a stop        *)
(* without a start, a restart) no joinable std::thread is overwritten or   *)
(* destroyed, which would end the program.                                 *)
(***************************************************************************)
NeverTerminates == ~terminated

(***************************************************************************)
(* Once g_context is gone no worker thread is left that could touch it,    *)
(* the route workers that a second RIM_Stop passes over included.          *)
(***************************************************************************)
NoThreadOutlivesContext ==
    ~context => \A w \in Workers : thread[w] = "none"

(***************************************************************************)
(* When RIM_Stop has returned nothing is published any more and no         *)
(* callback runs, and unless the context was restarted no worker is left   *)
(* at all: nothing is stored either.  (After a restart RouteExecutor::Stop *)
(* returns at once, and the workers of the route are left alone.)          *)
(***************************************************************************)
QuietAfterStop ==
    Idle /\ phase = "stopped" =>
       /\ \A w \in {Publisher, Callback, Router} : thread[w] = "none"
       /\ ~restarted => \A w \in RouteWorkers : thread[w] = "none"

(***************************************************************************)
(* Every call returns: no join waits for a thread that will not end,       *)
(* whatever each worker was doing when its stop came.                      *)
(***************************************************************************)
EveryCallReturns == ~Idle ~> Idle

(***************************************************************************)
(* While a context is started, and RIM_Stop was not yet called in it, no   *)
(* queue keeps what it accepted for ever: its worker comes back to it.     *)
(***************************************************************************)
StartedMeansServed ==
    \A w \in Workers :
       []<>(queue[w] = 0 \/ everStopped \/ ~(context /\ phase = "started"))
=============================================================================
