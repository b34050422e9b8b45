--------------------------- MODULE LifecycleProofs ---------------------------
(***************************************************************************)
(* Proofs about module Lifecycle, for any number of routes, of calls and   *)
(* of queued items and for the four revisions: whatever the order of the   *)
(* four calls, no std::thread is destroyed or assigned to while joinable,  *)
(* none is left once the context is gone, and after RIM_Stop all is quiet. *)
(*                                                                         *)
(* The argument is about what is left of the call being made (todo): every *)
(* destructor has a stop of the same worker before it, and every worker    *)
(* that may still run has a stop somewhere in it.                          *)
(***************************************************************************)
EXTENDS Lifecycle, SequenceTheorems, TLAPS

Operations == {"startRoute", "destroyRoute", "latch", "start", "stop",
               "shutdown", "join", "free", "reset"}
Steps      == [op : Operations, who : Workers \cup Routes]

TypeOK ==
    /\ revision \in Revisions /\ context \in BOOLEAN
    /\ todo \in Seq(Steps) /\ calls \in Nat
    /\ phase \in {"new", "started", "stopped"}
    /\ everStopped \in BOOLEAN /\ restarted \in BOOLEAN
    /\ running \in [Workers -> BOOLEAN]
    /\ thread \in [Workers -> {"none", "test", "pop", "process", "ended"}]
    /\ stopped \in [Routes -> BOOLEAN]
    /\ shutdown \in [Workers -> BOOLEAN]
    /\ queue \in [Workers -> Nat]
    /\ terminated \in BOOLEAN

WorkersOf(r) == {Store(r), Capability(r)}

\* Step s of a call stops worker w, or has it stopped; done says which routes
\* RouteExecutor::Stop passes over.
Stops(s, w, done) ==
    \/ s \in {Step("stop", w), Step("shutdown", w), Step("join", w)}
    \/ \E r \in Routes : /\ w \in WorkersOf(r)
                         /\ \/ s = Step("destroyRoute", r)
                            \/ s = Step("latch", r) /\ ~done[r]

\* The thread of w is gone, or goes before the call comes to its step i.
StoppedBefore(w, i) ==
    \/ thread[w] = "none"
    \/ \E j \in DOMAIN todo : j < i /\ Stops(todo[j], w, stopped)

\* The thread of w is gone or goes with the call.
BoundToStop(w) ==
    \/ thread[w] = "none"
    \/ \E j \in DOMAIN todo : Stops(todo[j], w, stopped)

\* No destructor of a joinable thread, and nothing left when the context goes.
EndOK ==
    \A i \in DOMAIN todo :
        /\ \A w \in Workers : todo[i] = Step("free", w) => StoppedBefore(w, i)
        /\ todo[i].op = "reset" =>
              i = Len(todo) /\ \A w \in Workers : StoppedBefore(w, i)

\* A thread whose running_ is clear is about to be joined.
RunningOK ==
    \A w \in Workers :
        thread[w] # "none" /\ ~running[w] =>
            /\ todo # <<>>
            /\ Head(todo) \in {Step("shutdown", w), Step("join", w)}

\* stop() joins after it has shut the queue down.
JoinOK ==
    \A i \in DOMAIN todo, w \in Workers :
        todo[i] = Step("shutdown", w) =>
            i + 1 \in DOMAIN todo /\ todo[i + 1] = Step("join", w)

Starting == {"start", "startRoute"}

\* What is being done fits the calls made so far.
PhaseOK ==
    /\ phase # "stopped" => \A i \in DOMAIN todo : todo[i].op \in Starting
    /\ phase = "stopped" =>
          everStopped /\ \A i \in DOMAIN todo : todo[i].op \notin Starting
    /\ everStopped /\ ~restarted => phase = "stopped"
    /\ ~everStopped => \A r \in Routes : ~stopped[r]

\* Only old_0818 has a router.
RouterOK ==
    ~Is("0818") =>
        /\ thread[Router] = "none"
        /\ \A i \in DOMAIN todo : todo[i] # Step("start", Router)

ContextOK ==
    ~context => todo = <<>> /\ \A w \in Workers : thread[w] = "none"

\* After RIM_Stop whatever still runs is bound to stop.
QuietOK ==
    phase = "stopped" =>
        /\ \A w \in {Publisher, Callback, Router} : BoundToStop(w)
        /\ ~restarted => \A w \in RouteWorkers : BoundToStop(w)

Inv ==
    /\ TypeOK /\ JoinOK /\ PhaseOK /\ RouterOK /\ RunningOK
    /\ EndOK /\ ContextOK /\ QuietOK /\ ~terminated
-----------------------------------------------------------------------------
(***************************************************************************)
(* Steps, workers and what a call's first step is replaced by.             *)
(***************************************************************************)
LEMMA StepFields ==
    \A o, w : Step(o, w).op = o /\ Step(o, w).who = w
  BY DEF Step

\* Steps are equal when both their parts are.
LEMMA StepInjective ==
    \A o, w, p, v : Step(o, w) = Step(p, v) <=> o = p /\ w = v
  BY StepFields

\* A step of a worker or of a route is one of Steps.
LEMMA StepType ==
    ASSUME NEW o \in Operations, NEW w \in Workers \cup Routes
    PROVE  Step(o, w) \in Steps
  BY DEF Step, Steps

\* The two workers of a route are workers, and a route worker is one of them.
LEMMA WorkerFacts ==
    /\ \A r \in Routes : WorkersOf(r) \subseteq RouteWorkers
    /\ \A w \in RouteWorkers : \E r \in Routes : w \in WorkersOf(r)
    /\ RouteWorkers \subseteq Workers
    /\ {Publisher, Callback, Router} \subseteq Workers
    /\ \A w \in Workers : w \in RouteWorkers \/ w \in {Publisher, Callback, Router}
    /\ RouteWorkers \cap {Publisher, Callback, Router} = {}
  <1>1. \A r \in Routes : WorkersOf(r) \subseteq RouteWorkers
    BY DEF WorkersOf, RouteWorkers, Store, Capability
  <1>2. \A w \in RouteWorkers : \E r \in Routes : w \in WorkersOf(r)
    BY DEF WorkersOf, RouteWorkers, Store, Capability
  <1>3. QED
    BY <1>1, <1>2, LifecycleAssumption DEF Workers

\* What stops a worker is neither a start nor a destructor nor the reset.
LEMMA StopsOperation ==
    ASSUME NEW s, NEW w, NEW done, Stops(s, w, done)
    PROVE  s.op \notin {"free", "reset", "start", "startRoute"}
  BY StepFields DEF Stops

\* t is q with its first step replaced by the steps n.
Spliced(n, q, t) ==
    /\ t \in Seq(Steps)
    /\ Len(n) \in Nat /\ DOMAIN n = 1 .. Len(n)
    /\ Len(q) \in Nat \ {0} /\ DOMAIN q = 1 .. Len(q) /\ Head(q) = q[1]
    /\ Len(t) = Len(n) + Len(q) - 1 /\ DOMAIN t = 1 .. Len(n) + Len(q) - 1
    /\ \A i \in DOMAIN n : i \in DOMAIN t /\ t[i] = n[i]
    /\ \A k \in 2 .. Len(q) : k - 1 + Len(n) \in DOMAIN t /\ t[k - 1 + Len(n)] = q[k]
    /\ \A i \in DOMAIN t : \/ i \in DOMAIN n
                           \/ \E k \in 2 .. Len(q) : i = k - 1 + Len(n)

\* Putting n before the rest of q replaces q's first step by n.
LEMMA Splice ==
    ASSUME NEW q \in Seq(Steps), q # <<>>, NEW n \in Seq(Steps), NEW t, t = n \o Tail(q)
    PROVE  Spliced(n, q, t)
  <1>1. Len(q) \in Nat \ {0} /\ DOMAIN q = 1 .. Len(q) /\ Head(q) = q[1]
    BY EmptySeq, LenProperties, HeadTailProperties
  <1>2. PICK rest \in Seq(Steps) :
           /\ rest = Tail(q) /\ Len(rest) = Len(q) - 1
           /\ \A i \in 1 .. Len(rest) : rest[i] = q[i + 1]
    BY HeadTailProperties
  <1>3. /\ t \in Seq(Steps) /\ Len(t) = Len(n) + Len(rest)
        /\ \A i \in 1 .. Len(n) + Len(rest) :
              t[i] = IF i <= Len(n) THEN n[i] ELSE rest[i - Len(n)]
    BY <1>2, ConcatProperties
  <1>4. PICK a \in Nat : a = Len(n)
    BY LenProperties
  <1>5. PICK b \in Nat : b = Len(rest) /\ Len(q) = b + 1
    <2>1. Len(rest) \in Nat
      BY LenProperties
    <2>2. Len(q) = Len(rest) + 1
      BY <1>1, <1>2, <2>1
    <2>3. QED
      BY <2>1, <2>2
  <1>6. DOMAIN n = 1 .. a /\ DOMAIN t = 1 .. a + b
    BY <1>3, <1>4, <1>5, LenProperties
  <1>7. ASSUME NEW i \in DOMAIN n PROVE i \in DOMAIN t /\ t[i] = n[i]
    <2>1. i \in 1 .. a + b /\ i <= a
      BY <1>6
    <2>2. QED
      BY <1>3, <1>4, <1>5, <1>6, <2>1
  <1>8. ASSUME NEW k \in 2 .. Len(q)
        PROVE  k - 1 + Len(n) \in DOMAIN t /\ t[k - 1 + Len(n)] = q[k]
    <2>1. PICK i \in 1 .. a + b : i = k - 1 + a /\ ~(i <= a) /\ i - a = k - 1
      BY <1>5
    <2>2. k - 1 \in 1 .. b /\ (k - 1) + 1 = k
      BY <1>5
    <2>3. t[i] = rest[k - 1]
      BY <1>3, <1>4, <1>5, <2>1
    <2>4. rest[k - 1] = q[k]
      BY <1>2, <1>5, <2>2
    <2>5. QED
      BY <1>4, <1>6, <2>1, <2>3, <2>4
  <1>9. ASSUME NEW i \in DOMAIN t, i \notin DOMAIN n
        PROVE  \E k \in 2 .. Len(q) : i = k - 1 + Len(n)
    <2>1. i - a + 1 \in 2 .. b + 1 /\ i = (i - a + 1) - 1 + a
      BY <1>6, <1>9
    <2>2. QED
      BY <1>4, <1>5, <2>1
  <1>10. QED
    BY <1>1, <1>3, <1>4, <1>5, <1>6, <1>7, <1>8, <1>9 DEF Spliced

\* The empty sequence holds no step.
LEMMA NoSteps == <<>> \in Seq(Steps) /\ DOMAIN <<>> = {} /\ Len(<<>>) = 0
  BY EmptySeq, LenProperties

\* Taking the first step away is replacing it by nothing.
LEMMA NothingInstead ==
    ASSUME NEW q \in Seq(Steps), q # <<>>
    PROVE  Tail(q) = <<>> \o Tail(q) /\ <<>> \in Seq(Steps) /\ DOMAIN <<>> = {}
  <1>1. Tail(q) \in Seq(Steps)
    BY HeadTailProperties
  <1>2. QED
    BY <1>1, EmptySeq, LenProperties, ConcatEmptySeq
-----------------------------------------------------------------------------
(***************************************************************************)
(* A step of RIM_Stop or RIM_Destroy, which puts the steps n in the place  *)
(* of the first one, keeps the order of stops and destructors if whatever  *)
(* it stopped is stopped by it, by n or by the step that comes next.       *)
(***************************************************************************)
LEMMA StoppingStep ==
    ASSUME TypeOK, JoinOK, PhaseOK, RouterOK, EndOK, QuietOK, ContextOK,
           todo # <<>>, Head(todo).op \notin Starting,
           NEW n \in Seq(Steps), todo' = n \o Tail(todo),
           UNCHANGED <<revision, phase, everStopped, restarted>>,
           \A w \in Workers : thread[w] = "none" => thread'[w] = "none",
           \A w \in Workers, k \in DOMAIN todo :
              Stops(todo[k], w, stopped) =>
                 \/ thread'[w] = "none"
                 \/ \E j \in DOMAIN n : Stops(n[j], w, stopped')
                 \/ \E j \in 2 .. Len(todo) :
                       (j <= k \/ j = 2) /\ Stops(todo[j], w, stopped'),
           \A i \in DOMAIN n :
              /\ n[i].op \notin Starting \cup {"reset"}
              /\ \A w \in Workers :
                    /\ n[i] = Step("free", w) =>
                          \E j \in DOMAIN n : j < i /\ Stops(n[j], w, stopped')
                    /\ n[i] = Step("shutdown", w) =>
                          i + 1 \in DOMAIN n /\ n[i + 1] = Step("join", w)
    PROVE  /\ todo' \in Seq(Steps)
           /\ JoinOK' /\ PhaseOK' /\ RouterOK' /\ EndOK' /\ QuietOK'
  <1>0. PICK q \in Seq(Steps) : q = todo
    BY DEF TypeOK
  <1>t. PICK t : t = todo'
    OBVIOUS
  <1>n. t = n \o Tail(q) /\ q # <<>> /\ Head(q).op \notin Starting
    BY <1>0, <1>t
  <1>s. Spliced(n, q, t)
    BY <1>n, Splice
  <1> USE <1>0, <1>t
  <1>1. /\ t \in Seq(Steps)
        /\ Len(n) \in Nat /\ DOMAIN n = 1 .. Len(n)
        /\ Len(q) \in Nat \ {0} /\ DOMAIN q = 1 .. Len(q) /\ Head(q) = q[1]
        /\ Len(t) = Len(n) + Len(q) - 1 /\ DOMAIN t = 1 .. Len(n) + Len(q) - 1
        /\ \A i \in DOMAIN n : i \in DOMAIN t /\ t[i] = n[i]
        /\ \A k \in 2 .. Len(q) : k - 1 + Len(n) \in DOMAIN t /\ t[k - 1 + Len(n)] = q[k]
        /\ \A i \in DOMAIN t : \/ i \in DOMAIN n
                               \/ \E k \in 2 .. Len(q) : i = k - 1 + Len(n)
    BY <1>s DEF Spliced
  <1>2. phase = "stopped" /\ everStopped
    <2>1. 1 \in DOMAIN q /\ q[1].op \notin Starting
      BY <1>1, <1>n
    <2>2. QED
      BY <2>1 DEF PhaseOK
  <1>3. JoinOK'
    <2> SUFFICES ASSUME NEW i \in DOMAIN t, NEW w \in Workers, t[i] = Step("shutdown", w)
                 PROVE  i + 1 \in DOMAIN t /\ t[i + 1] = Step("join", w)
      BY DEF JoinOK
    <2>1. CASE i \in DOMAIN n
      BY <1>1, <2>1
    <2>2. CASE \E k \in 2 .. Len(q) : i = k - 1 + Len(n)
      <3>1. PICK k \in 2 .. Len(q) : i = k - 1 + Len(n) /\ t[i] = q[k] /\ k \in DOMAIN q
        BY <1>1, <2>2
      <3>2. k + 1 \in DOMAIN q /\ q[k + 1] = Step("join", w)
        <4>1. \A j \in DOMAIN q :
                 q[j] = Step("shutdown", w) => j + 1 \in DOMAIN q /\ q[j + 1] = Step("join", w)
          BY DEF JoinOK
        <4>2. q[k] = Step("shutdown", w)
          BY <3>1
        <4>3. QED
          BY <3>1, <4>1, <4>2
      <3>3. k + 1 \in 2 .. Len(q) /\ (k + 1) - 1 + Len(n) = i + 1
        <4>1. k + 1 \in 2 .. Len(q)
          BY <1>1, <3>1, <3>2
        <4>2. PICK a \in Nat : a = Len(n)
          BY <1>1
        <4>3. QED
          BY <3>1, <4>1, <4>2
      <3>4. QED
        BY <1>1, <3>2, <3>3
    <2>3. QED
      BY <1>1, <2>1, <2>2
  <1>4. PhaseOK'
    <2>1. \A i \in DOMAIN t : t[i].op \notin Starting
      BY <1>1, <1>2 DEF PhaseOK
    <2>2. QED
      BY <1>2, <2>1 DEF PhaseOK
  <1>5. RouterOK'
    <2>1. Router \in Workers
      BY WorkerFacts
    <2>2. \A i \in DOMAIN t : t[i].op \notin Starting
      BY <1>2, <1>4 DEF PhaseOK
    <2>3. ASSUME NEW i \in DOMAIN t PROVE t[i] # Step("start", Router)
      <3>1. Step("start", Router).op = "start" /\ t[i].op # "start"
        BY <2>2, StepFields DEF Starting
      <3>2. QED
        BY <3>1
    <2>4. QED
      BY <2>1, <2>3 DEF RouterOK, Is
  \* Where a stop of w that stood before step k stands now.
  <1>6. ASSUME NEW w \in Workers, NEW k \in DOMAIN q, Stops(q[k], w, stopped)
        PROVE  \/ thread'[w] = "none"
               \/ \E j \in DOMAIN t : /\ Stops(t[j], w, stopped')
                                      /\ j <= Len(n) \/ j <= k - 1 + Len(n) \/ j = 1 + Len(n)
    <2>1. CASE \E j \in DOMAIN n : Stops(n[j], w, stopped')
      BY <1>1, <2>1
    <2>2. CASE \E j \in 2 .. Len(q) : (j <= k \/ j = 2) /\ Stops(q[j], w, stopped')
      <3>1. PICK j \in 2 .. Len(q) : (j <= k \/ j = 2) /\ Stops(q[j], w, stopped')
        BY <2>2
      <3>2. j - 1 + Len(n) \in DOMAIN t /\ Stops(t[j - 1 + Len(n)], w, stopped')
        BY <1>1, <3>1
      <3>3. j - 1 + Len(n) <= k - 1 + Len(n) \/ j - 1 + Len(n) = 1 + Len(n)
        BY <1>1, <3>1
      <3>4. QED
        BY <3>2, <3>3
    <2>3. QED
      BY <1>6, <2>1, <2>2
  <1>7. EndOK'
    <2> SUFFICES ASSUME NEW i \in DOMAIN t
                 PROVE  /\ \A w \in Workers : t[i] = Step("free", w) => StoppedBefore(w, i)'
                        /\ t[i].op = "reset" =>
                              i = Len(t) /\ \A w \in Workers : StoppedBefore(w, i)'
      BY DEF EndOK
    <2>1. CASE i \in DOMAIN n
      <3>1. t[i].op # "reset"
        BY <1>1, <2>1
      <3>2. ASSUME NEW w \in Workers, t[i] = Step("free", w) PROVE StoppedBefore(w, i)'
        <4>1. PICK j \in DOMAIN n : j < i /\ Stops(n[j], w, stopped')
          BY <1>1, <2>1, <3>2
        <4>2. QED
          BY <1>1, <4>1 DEF StoppedBefore
      <3>3. QED
        BY <3>1, <3>2
    <2>2. CASE \E k \in 2 .. Len(q) : i = k - 1 + Len(n)
      <3>1. PICK k \in 2 .. Len(q) : i = k - 1 + Len(n) /\ t[i] = q[k] /\ k \in DOMAIN q
        BY <1>1, <2>2
      <3>2. ASSUME NEW w \in Workers, StoppedBefore(w, k), q[k].op \in {"free", "reset"}
            PROVE  StoppedBefore(w, i)'
        <4>1. CASE thread[w] = "none"
          BY <4>1 DEF StoppedBefore
        <4>2. CASE \E j \in DOMAIN q : j < k /\ Stops(q[j], w, stopped)
          <5>1. PICK j \in DOMAIN q : j < k /\ Stops(q[j], w, stopped)
            BY <4>2
          <5>2. CASE thread'[w] = "none"
            BY <5>2 DEF StoppedBefore
          <5>3. CASE \E m \in DOMAIN t : /\ Stops(t[m], w, stopped')
                                         /\ m <= Len(n) \/ m <= j - 1 + Len(n) \/ m = 1 + Len(n)
            <6>1. PICK m \in DOMAIN t : /\ Stops(t[m], w, stopped')
                                        /\ m <= Len(n) \/ m <= j - 1 + Len(n) \/ m = 1 + Len(n)
              BY <5>3
            <6>2. m # i
              BY <3>1, <3>2, <6>1, StopsOperation
            <6>3. m < i
              <7>1. PICK a \in Nat : a = Len(n)
                BY <1>1
              <7>2. m \in Nat /\ j \in Nat /\ j < k /\ k \in Nat /\ 2 <= k /\ i = k - 1 + a
                BY <1>1, <3>1, <5>1, <7>1
              <7>3. m <= a \/ m <= j - 1 + a \/ m = 1 + a
                BY <6>1, <7>1
              <7>4. QED
                BY <6>2, <7>2, <7>3
            <6>4. QED
              BY <6>1, <6>3 DEF StoppedBefore
          <5>4. QED
            BY <1>6, <5>1, <5>2, <5>3
        <4>3. QED
          BY <3>2, <4>1, <4>2 DEF StoppedBefore
      <3>3. ASSUME NEW w \in Workers, q[k] = Step("free", w) PROVE StoppedBefore(w, i)'
        <4>1. StoppedBefore(w, k)
          BY <3>1, <3>3 DEF EndOK
        <4>2. q[k].op = "free"
          BY <3>3, StepFields
        <4>3. QED
          BY <3>2, <4>1, <4>2
      <3>4. q[k].op = "reset" => i = Len(t) /\ \A w \in Workers : StoppedBefore(w, i)'
        <4>1. q[k].op = "reset" => k = Len(q) /\ \A w \in Workers : StoppedBefore(w, k)
          BY <3>1 DEF EndOK
        <4>2. k = Len(q) => i = Len(t)
          BY <1>1, <3>1
        <4>3. QED
          BY <3>2, <4>1, <4>2
      <3>5. QED
        BY <3>1, <3>3, <3>4
    <2>3. QED
      BY <1>1, <2>1, <2>2
  <1>8. QuietOK'
    <2>1. ASSUME NEW w \in Workers, BoundToStop(w) PROVE BoundToStop(w)'
      BY <1>6, <2>1 DEF BoundToStop
    <2>2. QED
      BY <1>2, <2>1, WorkerFacts DEF QuietOK
  <1>9. QED
    BY <1>1, <1>3, <1>4, <1>5, <1>7, <1>8
-----------------------------------------------------------------------------
(***************************************************************************)
(* The initial states, and the four calls.                                 *)
(***************************************************************************)
LEMMA InvInit == Init => Inv
  <1> SUFFICES ASSUME Init PROVE Inv
    OBVIOUS
  <1>1. TypeOK
    <2>1. <<>> \in Seq(Steps)
      BY EmptySeq
    <2>2. QED
      BY <2>1, LifecycleAssumption DEF Init, TypeOK
  <1>2. DOMAIN todo = {} /\ todo = <<>>
    BY NoSteps DEF Init
  <1>3. JoinOK /\ EndOK
    BY <1>2 DEF JoinOK, EndOK
  <1>4. PhaseOK /\ RouterOK
    BY <1>2, WorkerFacts DEF Init, PhaseOK, RouterOK
  <1>5. RunningOK /\ ContextOK /\ QuietOK /\ ~terminated
    BY <1>2 DEF Init, RunningOK, ContextOK, QuietOK
  <1>6. QED
    BY <1>1, <1>3, <1>4, <1>5 DEF Inv

\* One step for every route.
LEMMA ForRoutesProperties ==
    ASSUME NEW op \in Operations
    PROVE  /\ ForRoutes(op) \in Seq(Steps)
           /\ \A i \in DOMAIN ForRoutes(op) : \E r \in Routes : ForRoutes(op)[i] = Step(op, r)
           /\ \A r \in Routes : \E i \in DOMAIN ForRoutes(op) : ForRoutes(op)[i] = Step(op, r)
  <1>1. /\ DOMAIN RouteOrder = 1 .. Len(RouteOrder) /\ Len(RouteOrder) \in Nat
        /\ \A i \in DOMAIN RouteOrder : RouteOrder[i] \in Routes
        /\ \A r \in Routes : \E i \in DOMAIN RouteOrder : RouteOrder[i] = r
    BY LifecycleAssumption, LenProperties, ElementOfSeq DEF Routes, ToSet
  <1>2. \A i \in DOMAIN RouteOrder : Step(op, RouteOrder[i]) \in Steps
    BY <1>1, StepType
  <1>3. ForRoutes(op) \in Seq(Steps)
    BY <1>1, <1>2, IsASeq DEF ForRoutes
  <1>4. QED
    BY <1>1, <1>3 DEF ForRoutes

\* Two steps in a row.
LEMMA Pair ==
    ASSUME NEW x \in Steps, NEW y \in Steps
    PROVE  /\ <<x, y>> \in Seq(Steps) /\ Len(<<x, y>>) = 2 /\ DOMAIN <<x, y>> = 1 .. 2
           /\ <<x, y>>[1] = x /\ <<x, y>>[2] = y
  OBVIOUS

\* t is a followed by b: the steps of both, in their order.
Joined(a, b, t) ==
    /\ t \in Seq(Steps)
    /\ Len(a) \in Nat /\ DOMAIN a = 1 .. Len(a)
    /\ Len(b) \in Nat /\ DOMAIN b = 1 .. Len(b)
    /\ Len(t) = Len(a) + Len(b)
    /\ \A i \in DOMAIN a : i \in DOMAIN t /\ t[i] = a[i]
    /\ \A j \in DOMAIN b : Len(a) + j \in DOMAIN t /\ t[Len(a) + j] = b[j]
    /\ \A i \in DOMAIN t : i \in DOMAIN a \/ \E j \in DOMAIN b : i = Len(a) + j

\* Concatenation keeps the steps of both sequences and their order.
LEMMA Concatenated ==
    ASSUME NEW a \in Seq(Steps), NEW b \in Seq(Steps), NEW t, t = a \o b
    PROVE  Joined(a, b, t) /\ t \in Seq(Steps)
  <1>1. /\ t \in Seq(Steps) /\ Len(t) = Len(a) + Len(b)
        /\ \A i \in 1 .. Len(a) + Len(b) : t[i] = IF i <= Len(a) THEN a[i] ELSE b[i - Len(a)]
    BY ConcatProperties
  <1>2. DOMAIN t = 1 .. Len(t)
    BY <1>1, LenProperties
  <1>3. PICK m \in Nat : m = Len(a) /\ DOMAIN a = 1 .. m
    BY LenProperties
  <1>4. PICK n \in Nat : n = Len(b) /\ DOMAIN b = 1 .. n
    BY LenProperties
  <1>5. \A i \in 1 .. m : i \in 1 .. m + n /\ i <= m
    OBVIOUS
  <1>6. \A j \in 1 .. n : m + j \in 1 .. m + n /\ ~(m + j <= m) /\ (m + j) - m = j
    OBVIOUS
  <1>7. \A i \in 1 .. m + n : i \in 1 .. m \/ (i - m \in 1 .. n /\ i = m + (i - m))
    OBVIOUS
  <1>8. DOMAIN t = 1 .. m + n
    BY <1>1, <1>2, <1>3, <1>4
  <1>9. \A i \in DOMAIN a : i \in DOMAIN t /\ t[i] = a[i]
    BY <1>1, <1>3, <1>4, <1>5, <1>8
  <1>10. \A j \in DOMAIN b : Len(a) + j \in DOMAIN t /\ t[Len(a) + j] = b[j]
    BY <1>1, <1>3, <1>4, <1>6, <1>8
  <1>11. \A i \in DOMAIN t : i \in DOMAIN a \/ \E j \in DOMAIN b : i = Len(a) + j
    BY <1>3, <1>4, <1>7, <1>8
  <1>12. QED
    BY <1>1, <1>3, <1>4, <1>9, <1>10, <1>11 DEF Joined

\* RIM_Create: the new context finds no thread.
LEMMA CreateStep == ASSUME Inv, Create PROVE Inv'
  <1>1. todo = <<>> /\ DOMAIN todo = {} /\ UNCHANGED <<todo, running, thread, terminated, revision>>
    BY NoSteps DEF Create, Call
  <1>2. /\ phase' = "new" /\ everStopped' = FALSE /\ restarted' = FALSE /\ context' = TRUE
        /\ \A r \in Routes : ~stopped'[r]
    BY DEF Create
  <1>3. TypeOK'
    <2>1. calls' \in Nat /\ todo' \in Seq(Steps)
      <3>1. calls \in Nat /\ todo \in Seq(Steps)
        BY DEF Inv, TypeOK
      <3>2. calls' = calls + 1
        BY DEF Create, Call
      <3>3. QED
        BY <1>1, <3>1, <3>2
    <2>2. queue' \in [Workers -> Nat]
      BY DEF Create
    <2>3. stopped' \in [Routes -> BOOLEAN] /\ shutdown' \in [Workers -> BOOLEAN]
      BY DEF Create
    <2>4. QED
      BY <1>1, <1>2, <2>1, <2>2, <2>3 DEF Inv, TypeOK
  <1>4. JoinOK' /\ EndOK' /\ RouterOK' /\ RunningOK'
    BY <1>1 DEF Inv, JoinOK, EndOK, RouterOK, RunningOK, Is
  <1>5. PhaseOK' /\ ContextOK' /\ QuietOK' /\ ~terminated'
    BY <1>1, <1>2 DEF Inv, PhaseOK, ContextOK, QuietOK
  <1>6. QED
    BY <1>3, <1>4, <1>5 DEF Inv

\* The steps of RIM_Start start things, and a router in old_0818 only.
LEMMA StartSteps ==
    ASSUME NEW s, s = StartRouter \o ForRoutes("startRoute")
                         \o <<Step("start", Callback), Step("start", Publisher)>>
    PROVE  /\ s \in Seq(Steps)
           /\ \A i \in DOMAIN s : /\ s[i].op \in Starting
                                  /\ ~Is("0818") => s[i] # Step("start", Router)
  <1>1. PICK a \in Seq(Steps) :
           /\ a = StartRouter
           /\ \A i \in DOMAIN a : Is("0818") /\ a[i] = Step("start", Router)
    <2>1. Step("start", Router) \in Steps
      BY StepType, WorkerFacts DEF Operations
    <2>2. StartRouter \in Seq(Steps)
      BY <2>1, EmptySeq DEF StartRouter
    <2>3. \A i \in DOMAIN StartRouter : Is("0818") /\ StartRouter[i] = Step("start", Router)
      BY NoSteps DEF StartRouter
    <2>4. QED
      BY <2>2, <2>3
  <1>2. PICK b \in Seq(Steps) :
           /\ b = ForRoutes("startRoute")
           /\ \A i \in DOMAIN b : \E r \in Routes : b[i] = Step("startRoute", r)
    BY ForRoutesProperties DEF Operations
  <1>3. PICK c \in Seq(Steps) :
           /\ c = <<Step("start", Callback), Step("start", Publisher)>>
           /\ \A i \in DOMAIN c : c[i] \in {Step("start", Callback), Step("start", Publisher)}
    <2>1. PICK x \in Steps : x = Step("start", Callback)
      BY StepType, WorkerFacts DEF Operations
    <2>2. PICK y \in Steps : y = Step("start", Publisher)
      BY StepType, WorkerFacts DEF Operations
    <2>3. <<x, y>> \in Seq(Steps) /\ \A i \in DOMAIN <<x, y>> : <<x, y>>[i] \in {x, y}
      BY Pair
    <2>4. QED
      BY <2>1, <2>2, <2>3, Zenon
  <1>4. PICK ab : ab = a \o b
    OBVIOUS
  <1>5. Joined(a, b, ab)
    BY <1>4, Concatenated
  <1>6. ab \in Seq(Steps) /\ s = ab \o c
    BY <1>1, <1>2, <1>3, <1>4, <1>5 DEF Joined
  <1>7. Joined(ab, c, s)
    BY <1>6, Concatenated
  <1>8. Router \notin {Callback, Publisher}
    BY LifecycleAssumption
  <1>9. ASSUME NEW i \in DOMAIN s
        PROVE  s[i].op \in Starting /\ (~Is("0818") => s[i] # Step("start", Router))
    <2>1. \/ Is("0818") /\ s[i] = Step("start", Router)
          \/ \E r \in Routes : s[i] = Step("startRoute", r)
          \/ s[i] \in {Step("start", Callback), Step("start", Publisher)}
      BY <1>1, <1>2, <1>3, <1>5, <1>7 DEF Joined
    <2>2. CASE Is("0818") /\ s[i] = Step("start", Router)
      BY <2>2, StepFields DEF Starting
    <2>3. CASE \E r \in Routes : s[i] = Step("startRoute", r)
      BY <2>3, StepFields, StepInjective DEF Starting
    <2>4. CASE s[i] = Step("start", Callback) \/ s[i] = Step("start", Publisher)
      BY <1>8, <2>4, StepFields, StepInjective DEF Starting
    <2>5. QED
      BY <2>1, <2>2, <2>3, <2>4
  <1>10. QED
    BY <1>9, <1>7 DEF Joined

\* RIM_Start: whatever it will do is a start, and nothing stops.
LEMMA StartStep == ASSUME Inv, Start PROVE Inv'
  <1>1. /\ todo = <<>> /\ context /\ ~terminated
        /\ phase' = "started" /\ restarted' = everStopped
        /\ UNCHANGED <<revision, context, everStopped, running, thread, stopped, shutdown,
                       queue, terminated>>
    BY DEF Start, Call, Inv
  <1>2. /\ todo' \in Seq(Steps)
        /\ \A i \in DOMAIN todo' : /\ todo'[i].op \in Starting
                                   /\ ~Is("0818") => todo'[i] # Step("start", Router)
    BY StartSteps DEF Start
  <1>3. TypeOK'
    BY <1>1, <1>2 DEF Inv, TypeOK, Start, Call
  <1>4. JoinOK' /\ EndOK'
    BY <1>2, StepFields DEF JoinOK, EndOK, Starting
  <1>5. PhaseOK' /\ RouterOK'
    BY <1>1, <1>2 DEF Inv, PhaseOK, RouterOK, Is
  <1>6. RunningOK' /\ ContextOK' /\ QuietOK' /\ ~terminated'
    BY <1>1 DEF Inv, RunningOK, ContextOK, QuietOK
  <1>7. QED
    BY <1>3, <1>4, <1>5, <1>6 DEF Inv

\* A call that stops everything, in whatever order.
LEMMA StopCall ==
    ASSUME Inv, todo = <<>>, context, NEW s \in Seq(Steps), todo' = s, calls' \in Nat,
           phase' = "stopped", everStopped',
           UNCHANGED <<revision, context, restarted, running, thread, stopped, shutdown, queue,
                       terminated>>,
           \A i \in DOMAIN s : s[i].op \notin Starting \cup {"shutdown"},
           \E i \in DOMAIN s : s[i] = Step("stop", Publisher),
           \E i \in DOMAIN s : s[i] = Step("stop", Callback),
           Is("0818") => \E i \in DOMAIN s : s[i] = Step("stop", Router),
           \A r \in Routes : \E i \in DOMAIN s : s[i] = Step("latch", r),
           \A i \in DOMAIN s, w \in Workers :
              s[i] = Step("free", w) => \E j \in DOMAIN s : j < i /\ Stops(s[j], w, stopped),
           \A i \in DOMAIN s :
              s[i].op = "reset" => /\ i = Len(s)
                                   /\ \A w \in Workers :
                                         \/ thread[w] = "none"
                                         \/ \E j \in DOMAIN s : j < i /\ Stops(s[j], w, stopped)
    PROVE  Inv'
  <1>1. TypeOK'
    BY DEF Inv, TypeOK
  <1>2. JoinOK'
    BY StepFields DEF JoinOK
  <1>3. PhaseOK'
    BY DEF PhaseOK
  <1>4. RouterOK'
    BY StepFields DEF Inv, RouterOK, Is, Starting
  <1>5. RunningOK'
    BY DEF Inv, RunningOK
  <1>6. EndOK'
    BY DEF EndOK, StoppedBefore
  <1>7. ContextOK' /\ ~terminated'
    BY DEF ContextOK, Inv
  <1>8. QuietOK'
    <2>1. ASSUME NEW w \in {Publisher, Callback, Router} PROVE BoundToStop(w)'
      <3>1. CASE \E i \in DOMAIN s : s[i] = Step("stop", w)
        BY <3>1 DEF BoundToStop, Stops
      <3>2. CASE w = Router /\ ~Is("0818")
        BY <3>2 DEF BoundToStop, Inv, RouterOK
      <3>3. QED
        BY <2>1, <3>1, <3>2
    <2>2. ASSUME ~restarted, NEW w \in RouteWorkers PROVE BoundToStop(w)'
      <3>1. CASE everStopped
        <4>1. phase = "stopped"
          BY <2>2, <3>1 DEF Inv, PhaseOK
        <4>2. BoundToStop(w)
          BY <2>2, <4>1 DEF Inv, QuietOK
        <4>3. thread[w] = "none"
          BY <4>2, NoSteps DEF BoundToStop
        <4>4. QED
          BY <4>3 DEF BoundToStop
      <3>2. CASE ~everStopped
        <4>1. PICK r \in Routes : w \in WorkersOf(r) /\ ~stopped[r]
          BY <2>2, <3>2, WorkerFacts DEF Inv, PhaseOK
        <4>2. PICK i \in DOMAIN s : s[i] = Step("latch", r)
          OBVIOUS
        <4>3. Stops(s[i], w, stopped)
          BY <4>1, <4>2 DEF Stops
        <4>4. QED
          BY <4>3 DEF BoundToStop
      <3>3. QED
        BY <3>1, <3>2
    <2>3. QED
      BY <2>1, <2>2 DEF QuietOK
  <1>9. QED
    BY <1>1, <1>2, <1>3, <1>4, <1>5, <1>6, <1>7, <1>8 DEF Inv

\* RIM_Stop stops the publisher, the callbacks and every route.
LEMMA StopAllSteps ==
    /\ StopAll \in Seq(Steps)
    /\ \A i \in DOMAIN StopAll : StopAll[i].op \in {"stop", "latch"}
    /\ \E i \in DOMAIN StopAll : StopAll[i] = Step("stop", Publisher)
    /\ \E i \in DOMAIN StopAll : StopAll[i] = Step("stop", Callback)
    /\ \A r \in Routes : \E i \in DOMAIN StopAll : StopAll[i] = Step("latch", r)
  <1>1. PICK x \in Steps : x = Step("stop", Publisher) /\ x.op = "stop"
    BY StepType, StepFields, WorkerFacts DEF Operations
  <1>2. PICK y \in Steps : y = Step("stop", Callback) /\ y.op = "stop"
    BY StepType, StepFields, WorkerFacts DEF Operations
  <1>3. PICK a : a = <<x, y>>
    OBVIOUS
  <1>4. PICK b \in Seq(Steps) :
           /\ b = ForRoutes("latch")
           /\ \A i \in DOMAIN b : \E r \in Routes : b[i] = Step("latch", r)
           /\ \A r \in Routes : \E i \in DOMAIN b : b[i] = Step("latch", r)
    BY ForRoutesProperties DEF Operations
  <1>5. a \in Seq(Steps) /\ DOMAIN a = 1 .. 2 /\ a[1] = x /\ a[2] = y
    BY <1>3, Pair
  <1>6. PICK s : s = StopAll
    OBVIOUS
  <1>7. s = a \o b
    BY <1>1, <1>2, <1>3, <1>4, <1>6 DEF StopAll
  <1>8. Joined(a, b, s)
    BY <1>5, <1>7, Concatenated
  <1>9. \A i \in DOMAIN s : s[i].op \in {"stop", "latch"}
    BY <1>1, <1>2, <1>4, <1>5, <1>8, StepFields DEF Joined
  <1>10. 1 \in DOMAIN a /\ 2 \in DOMAIN a
    BY <1>5
  <1>11. \A i \in DOMAIN a : \E j \in DOMAIN s : s[j] = a[i]
    BY <1>8 DEF Joined
  <1>12. \A i \in DOMAIN b : \E j \in DOMAIN s : s[j] = b[i]
    BY <1>8 DEF Joined
  <1>13. s \in Seq(Steps)
    BY <1>8 DEF Joined
  <1>14. \A r \in Routes : \E i \in DOMAIN s : s[i] = Step("latch", r)
    BY <1>4, <1>12
  <1>15. /\ \E i \in DOMAIN s : s[i] = Step("stop", Publisher)
         /\ \E i \in DOMAIN s : s[i] = Step("stop", Callback)
    BY <1>1, <1>2, <1>5, <1>10, <1>11
  <1>16. QED
    BY <1>6, <1>9, <1>13, <1>14, <1>15

\* RIM_Stop: every worker gets a stop, those of the routes behind their latch.
LEMMA StopStep == ASSUME Inv, Stop PROVE Inv'
  <1>1. PICK a \in Seq(Steps) :
           /\ a = StopAll
           /\ \A i \in DOMAIN a : a[i].op \in {"stop", "latch"}
           /\ \E i \in DOMAIN a : a[i] = Step("stop", Publisher)
           /\ \E i \in DOMAIN a : a[i] = Step("stop", Callback)
           /\ \A r \in Routes : \E i \in DOMAIN a : a[i] = Step("latch", r)
    BY StopAllSteps
  <1>2. PICK b \in Seq(Steps) :
           /\ b = StopRouter
           /\ \A i \in DOMAIN b : b[i].op = "stop"
           /\ Is("0818") => \E i \in DOMAIN b : b[i] = Step("stop", Router)
    <2>1. PICK x \in Steps : x = Step("stop", Router) /\ x.op = "stop"
      BY StepType, StepFields, WorkerFacts DEF Operations
    <2>2. CASE Is("0818")
      <3>1. <<x>> \in Seq(Steps) /\ DOMAIN <<x>> = {1} /\ <<x>>[1] = x
        OBVIOUS
      <3>2. StopRouter = <<x>>
        BY <2>1, <2>2 DEF StopRouter
      <3>3. QED
        BY <2>1, <3>1, <3>2
    <2>3. CASE ~Is("0818")
      BY <2>3, NoSteps, Zenon DEF StopRouter
    <2>4. QED
      BY <2>2, <2>3
  <1>3. PICK s : s = a \o b
    OBVIOUS
  <1>4. Joined(a, b, s)
    BY <1>3, Concatenated
  <1>5. /\ s \in Seq(Steps)
        /\ \A i \in DOMAIN s : s[i].op \in {"stop", "latch"}
        /\ \E i \in DOMAIN s : s[i] = Step("stop", Publisher)
        /\ \E i \in DOMAIN s : s[i] = Step("stop", Callback)
        /\ Is("0818") => \E i \in DOMAIN s : s[i] = Step("stop", Router)
        /\ \A r \in Routes : \E i \in DOMAIN s : s[i] = Step("latch", r)
    <2>1. /\ s \in Seq(Steps)
          /\ \A i \in DOMAIN a : i \in DOMAIN s /\ s[i] = a[i]
          /\ \A j \in DOMAIN b : \E i \in DOMAIN s : s[i] = b[j]
          /\ \A i \in DOMAIN s : \/ \E j \in DOMAIN a : s[i] = a[j]
                                 \/ \E j \in DOMAIN b : s[i] = b[j]
      BY <1>4 DEF Joined
    <2>2. \A i \in DOMAIN s : s[i].op \in {"stop", "latch"}
      BY <1>1, <1>2, <2>1
    <2>3. Is("0818") => \E i \in DOMAIN s : s[i] = Step("stop", Router)
      BY <1>2, <2>1
    <2>4. /\ \E i \in DOMAIN s : s[i] = Step("stop", Publisher)
          /\ \E i \in DOMAIN s : s[i] = Step("stop", Callback)
          /\ \A r \in Routes : \E i \in DOMAIN s : s[i] = Step("latch", r)
      BY <1>1, <2>1
    <2>5. QED
      BY <2>1, <2>2, <2>3, <2>4
  <1>6. /\ todo = <<>> /\ context /\ todo' = s
        /\ phase' = "stopped" /\ everStopped'
        /\ UNCHANGED <<revision, context, restarted, running, thread, stopped, shutdown, queue,
                       terminated>>
    BY <1>1, <1>2, <1>3 DEF Stop, Call
  <1>7. calls' \in Nat
    <2>1. calls \in Nat /\ calls' = calls + 1
      BY DEF Inv, TypeOK, Stop, Call
    <2>2. QED
      BY <2>1
  <1>8. \A i \in DOMAIN s : s[i].op \notin Starting \cup {"shutdown", "free", "reset"}
    BY <1>5 DEF Starting
  <1>9. \A i \in DOMAIN s, w \in Workers : s[i] # Step("free", w)
    BY <1>8, StepFields
  <1>10. QED
    BY <1>5, <1>6, <1>7, <1>8, <1>9, StopCall

\* RIM_Destroy stops everything, destroys the routes and the router, each
\* after its stop, and only then the rest of the context.
LEMMA DestroyStep == ASSUME Inv, Destroy PROVE Inv'
  <1>1. PICK a \in Seq(Steps) :
           /\ a = StopAll
           /\ \A i \in DOMAIN a : a[i].op \in {"stop", "latch"}
           /\ \E i \in DOMAIN a : a[i] = Step("stop", Publisher)
           /\ \E i \in DOMAIN a : a[i] = Step("stop", Callback)
           /\ \A r \in Routes : \E i \in DOMAIN a : a[i] = Step("latch", r)
    BY StopAllSteps
  <1>2. PICK b \in Seq(Steps) :
           /\ b = ForRoutes("destroyRoute")
           /\ \A i \in DOMAIN b : b[i].op = "destroyRoute"
           /\ \A r \in Routes : \E i \in DOMAIN b : b[i] = Step("destroyRoute", r)
    <2>1. "destroyRoute" \in Operations
      BY DEF Operations
    <2>2. PICK b : b = ForRoutes("destroyRoute")
      OBVIOUS
    <2>3. /\ b \in Seq(Steps)
          /\ \A i \in DOMAIN b : \E r \in Routes : b[i] = Step("destroyRoute", r)
          /\ \A r \in Routes : \E i \in DOMAIN b : b[i] = Step("destroyRoute", r)
      BY <2>1, <2>2, ForRoutesProperties
    <2>4. QED
      BY <2>2, <2>3, StepFields
  <1>3. PICK c \in Seq(Steps) :
           /\ c = DestroyRouter
           /\ \A i \in DOMAIN c : \/ c[i] = Step("stop", Router)
                                  \/ c[i] = Step("free", Router) /\ i = 2
           /\ Is("0818") => 1 \in DOMAIN c /\ c[1] = Step("stop", Router)
           /\ \A i \in DOMAIN c : i \in Nat /\ 1 \in DOMAIN c /\ c[1] = Step("stop", Router)
    <2>1. PICK x \in Steps : x = Step("stop", Router)
      BY StepType, WorkerFacts DEF Operations
    <2>2. PICK y \in Steps : y = Step("free", Router)
      BY StepType, WorkerFacts DEF Operations
    <2>3. CASE Is("0818")
      <3>1. PICK c : c = <<x, y>>
        OBVIOUS
      <3>2. c = DestroyRouter
        BY <2>1, <2>2, <2>3, <3>1 DEF DestroyRouter
      <3>3. c \in Seq(Steps) /\ DOMAIN c = 1 .. 2 /\ c[1] = x /\ c[2] = y
        BY <3>1, Pair
      <3>4. \A i \in 1 .. 2 : i \in Nat /\ (i = 1 \/ i = 2)
        OBVIOUS
      <3>5. \A i \in DOMAIN c : \/ c[i] = Step("stop", Router)
                                \/ c[i] = Step("free", Router) /\ i = 2
        BY <2>1, <2>2, <3>3, <3>4
      <3>6. 1 \in DOMAIN c /\ c[1] = Step("stop", Router) /\ \A i \in DOMAIN c : i \in Nat
        BY <2>1, <3>3, <3>4
      <3>7. QED
        BY <3>2, <3>3, <3>5, <3>6
    <2>4. CASE ~Is("0818")
      <3>1. DestroyRouter = <<>>
        BY <2>4 DEF DestroyRouter
      <3>2. QED
        BY <2>4, <3>1, NoSteps
    <2>5. QED
      BY <2>3, <2>4
  <1>4. PICK e \in Seq(Steps) :
           /\ e = <<Step("free", Publisher), Step("free", Callback), Step("reset", Publisher)>>
           /\ DOMAIN e = 1 .. 3 /\ Len(e) = 3
           /\ e[1] = Step("free", Publisher) /\ e[2] = Step("free", Callback)
           /\ e[3] = Step("reset", Publisher)
    <2>1. PICK x \in Steps, y \in Steps, z \in Steps :
             /\ x = Step("free", Publisher) /\ y = Step("free", Callback)
             /\ z = Step("reset", Publisher)
      BY StepType, WorkerFacts DEF Operations
    <2>2. /\ <<x, y, z>> \in Seq(Steps) /\ DOMAIN <<x, y, z>> = 1 .. 3 /\ Len(<<x, y, z>>) = 3
          /\ <<x, y, z>>[1] = x /\ <<x, y, z>>[2] = y /\ <<x, y, z>>[3] = z
      OBVIOUS
    <2>3. QED
      BY <2>1, <2>2, Zenon
  <1>5. PICK ab : ab = a \o b
    OBVIOUS
  <1>6. Joined(a, b, ab) /\ ab \in Seq(Steps)
    BY <1>5, Concatenated
  <1>7. PICK abc : abc = ab \o c
    OBVIOUS
  <1>8. Joined(ab, c, abc) /\ abc \in Seq(Steps)
    BY <1>6, <1>7, Concatenated
  <1>9. PICK s : s = abc \o e
    OBVIOUS
  <1>10. Joined(abc, e, s) /\ s \in Seq(Steps)
    BY <1>8, <1>9, Concatenated
  <1>11. /\ todo = <<>> /\ context /\ todo' = s
         /\ phase' = "stopped" /\ everStopped'
         /\ UNCHANGED <<revision, context, restarted, running, thread, stopped, shutdown, queue,
                        terminated>>
    BY <1>1, <1>2, <1>3, <1>4, <1>5, <1>7, <1>9 DEF Destroy, Call
  <1>12. calls' \in Nat
    <2>1. calls \in Nat /\ calls' = calls + 1
      BY DEF Inv, TypeOK, Destroy, Call
    <2>2. QED
      BY <2>1
  \* The routes and the router.
  <1>13. /\ \A i \in DOMAIN ab : ab[i].op \in {"stop", "latch", "destroyRoute"}
         /\ \A i \in DOMAIN a : \E j \in DOMAIN ab : ab[j] = a[i]
         /\ \A i \in DOMAIN b : \E j \in DOMAIN ab : ab[j] = b[i]
    <2>1. /\ \A i \in DOMAIN a : \E j \in DOMAIN ab : ab[j] = a[i]
          /\ \A i \in DOMAIN b : \E j \in DOMAIN ab : ab[j] = b[i]
          /\ \A i \in DOMAIN ab : \/ \E j \in DOMAIN a : ab[i] = a[j]
                                  \/ \E j \in DOMAIN b : ab[i] = b[j]
      BY <1>6 DEF Joined
    <2>2. \A i \in DOMAIN ab : ab[i].op \in {"stop", "latch", "destroyRoute"}
      BY <1>1, <1>2, <2>1
    <2>3. QED
      BY <2>1, <2>2
  <1>14. ASSUME NEW i \in DOMAIN abc
         PROVE  \/ abc[i].op \in {"stop", "latch", "destroyRoute"}
                \/ /\ abc[i] = Step("free", Router)
                   /\ \E j \in DOMAIN abc : j < i /\ abc[j] = Step("stop", Router)
    <2>1. CASE i \in DOMAIN ab
      BY <1>8, <1>13, <2>1 DEF Joined
    <2>2. CASE \E j \in DOMAIN c : i = Len(ab) + j
      <3>1. PICK j \in DOMAIN c : i = Len(ab) + j /\ abc[i] = c[j]
        BY <1>8, <2>2 DEF Joined
      <3>2. CASE c[j] = Step("stop", Router)
        BY <3>1, <3>2, StepFields
      <3>3. CASE c[j] = Step("free", Router) /\ j = 2
        <4>1. 1 \in DOMAIN c /\ c[1] = Step("stop", Router) /\ Len(ab) \in Nat
          BY <1>3, <1>8 DEF Joined
        <4>2. Len(ab) + 1 \in DOMAIN abc /\ abc[Len(ab) + 1] = c[1]
          BY <1>8, <4>1 DEF Joined
        <4>3. Len(ab) + 1 < i
          BY <3>1, <3>3, <4>1
        <4>4. QED
          BY <3>1, <3>3, <4>1, <4>2, <4>3
      <3>4. QED
        BY <1>3, <3>2, <3>3
    <2>3. QED
      BY <1>8, <2>1, <2>2 DEF Joined
  <1>15. /\ \A i \in DOMAIN ab : \E j \in DOMAIN abc : abc[j] = ab[i]
         /\ \A i \in DOMAIN c : \E j \in DOMAIN abc : abc[j] = c[i]
    BY <1>8 DEF Joined
  <1>16. /\ \E i \in DOMAIN abc : abc[i] = Step("stop", Publisher)
         /\ \E i \in DOMAIN abc : abc[i] = Step("stop", Callback)
         /\ Is("0818") => \E i \in DOMAIN abc : abc[i] = Step("stop", Router)
         /\ \A r \in Routes : /\ \E i \in DOMAIN abc : abc[i] = Step("latch", r)
                              /\ \E i \in DOMAIN abc : abc[i] = Step("destroyRoute", r)
    <2>1. \A i \in DOMAIN a : \E j \in DOMAIN abc : abc[j] = a[i]
      BY <1>13, <1>15
    <2>2. \A i \in DOMAIN b : \E j \in DOMAIN abc : abc[j] = b[i]
      BY <1>13, <1>15
    <2>3. Is("0818") => \E i \in DOMAIN abc : abc[i] = Step("stop", Router)
      BY <1>3, <1>15
    <2>4. QED
      BY <1>1, <1>2, <2>1, <2>2, <2>3
  \* The whole of it.
  <1>17. /\ \A i \in DOMAIN abc : i \in DOMAIN s /\ s[i] = abc[i]
         /\ \A i \in DOMAIN s : \/ i \in DOMAIN abc
                                \/ /\ \A j \in DOMAIN abc : j < i
                                   /\ \/ s[i] = Step("free", Publisher)
                                      \/ s[i] = Step("free", Callback)
                                      \/ s[i] = Step("reset", Publisher) /\ i = Len(s)
    <2>1. ASSUME NEW i \in DOMAIN s, i \notin DOMAIN abc
          PROVE  /\ \A j \in DOMAIN abc : j < i
                 /\ \/ s[i] = Step("free", Publisher)
                    \/ s[i] = Step("free", Callback)
                    \/ s[i] = Step("reset", Publisher) /\ i = Len(s)
      <3>1. PICK j \in 1 .. 3 : i = Len(abc) + j /\ s[i] = e[j]
        BY <1>4, <1>10, <2>1 DEF Joined
      <3>2. DOMAIN abc = 1 .. Len(abc) /\ Len(abc) \in Nat /\ Len(s) = Len(abc) + 3
        BY <1>4, <1>10 DEF Joined
      <3>3. PICK n \in Nat : n = Len(abc)
        BY <3>2
      <3>4. \A k \in DOMAIN abc : k < i
        BY <3>1, <3>2, <3>3
      <3>5. j = 1 \/ j = 2 \/ j = 3
        OBVIOUS
      <3>6. j = 3 => i = Len(s)
        BY <3>1, <3>2, <3>3
      <3>7. QED
        BY <1>4, <3>1, <3>4, <3>5, <3>6
    <2>2. QED
      BY <1>10, <2>1 DEF Joined
  <1>18. \A i \in DOMAIN s : s[i].op \notin Starting \cup {"shutdown"}
    BY <1>14, <1>17, StepFields DEF Starting
  <1>19. ASSUME NEW i \in DOMAIN s, NEW w \in Workers, s[i] = Step("free", w)
         PROVE  \E j \in DOMAIN s : j < i /\ Stops(s[j], w, stopped)
    <2>1. \E j \in DOMAIN s : j < i /\ s[j] = Step("stop", w)
      <3>1. CASE i \in DOMAIN abc
        <4>1. w = Router /\ \E j \in DOMAIN abc : j < i /\ abc[j] = Step("stop", Router)
          BY <1>14, <1>17, <1>19, <3>1, StepFields
        <4>2. QED
          BY <1>17, <4>1
      <3>2. CASE i \notin DOMAIN abc
        <4>1. \/ s[i] = Step("free", Publisher)
              \/ s[i] = Step("free", Callback)
              \/ s[i] = Step("reset", Publisher)
          BY <1>17, <3>2
        <4>2. w = Publisher \/ w = Callback
          BY <1>19, <4>1, StepInjective
        <4>3. \A j \in DOMAIN abc : j < i /\ j \in DOMAIN s /\ s[j] = abc[j]
          BY <1>17, <3>2
        <4>4. QED
          BY <1>16, <4>2, <4>3
      <3>3. QED
        BY <3>1, <3>2
    <2>2. QED
      BY <2>1 DEF Stops
  <1>20. ASSUME NEW i \in DOMAIN s, s[i].op = "reset"
         PROVE  /\ i = Len(s)
                /\ \A w \in Workers : \/ thread[w] = "none"
                                      \/ \E j \in DOMAIN s : j < i /\ Stops(s[j], w, stopped)
    <2>1. i \notin DOMAIN abc
      <3>1. \A j \in DOMAIN abc : abc[j].op # "reset"
        BY <1>14, StepFields
      <3>2. QED
        BY <1>17, <1>20, <3>1
    <2>2. i = Len(s) /\ \A j \in DOMAIN abc : j \in DOMAIN s /\ j < i /\ s[j] = abc[j]
      BY <1>17, <1>20, <2>1, StepFields
    <2>3. ASSUME NEW w \in RouteWorkers PROVE \E j \in DOMAIN s : j < i /\ Stops(s[j], w, stopped)
      <3>1. PICK r \in Routes : w \in WorkersOf(r)
        BY WorkerFacts
      <3>2. PICK j \in DOMAIN abc : abc[j] = Step("destroyRoute", r)
        BY <1>16
      <3>3. Stops(s[j], w, stopped)
        BY <2>2, <3>1, <3>2 DEF Stops
      <3>4. QED
        BY <2>2, <3>3
    <2>4. ASSUME NEW w \in {Publisher, Callback, Router}
          PROVE  \/ thread[w] = "none"
                 \/ \E j \in DOMAIN s : j < i /\ Stops(s[j], w, stopped)
      <3>1. CASE \E j \in DOMAIN abc : abc[j] = Step("stop", w)
        BY <2>2, <3>1 DEF Stops
      <3>2. CASE w = Router /\ ~Is("0818")
        BY <3>2 DEF Inv, RouterOK
      <3>3. QED
        BY <1>16, <2>4, <3>1, <3>2
    <2>5. QED
      BY <2>2, <2>3, <2>4, WorkerFacts
  <1>21. /\ \E i \in DOMAIN s : s[i] = Step("stop", Publisher)
         /\ \E i \in DOMAIN s : s[i] = Step("stop", Callback)
         /\ Is("0818") => \E i \in DOMAIN s : s[i] = Step("stop", Router)
         /\ \A r \in Routes : \E i \in DOMAIN s : s[i] = Step("latch", r)
    BY <1>16, <1>17
  <1>22. QED
    BY <1>10, <1>11, <1>12, <1>18, <1>19, <1>20, <1>21, StopCall
-----------------------------------------------------------------------------
(***************************************************************************)
(* The steps of a call.                                                    *)
(***************************************************************************)
LEMMA FirstStep ==
    ASSUME TypeOK, NEW op, NEW w, Doing(op, w)
    PROVE  /\ todo # <<>> /\ Head(todo) = Step(op, w) /\ Head(todo).op = op
           /\ DOMAIN todo = 1 .. Len(todo) /\ Len(todo) \in Nat \ {0} /\ todo[1] = Step(op, w)
           /\ Tail(todo) \in Seq(Steps)
           /\ Tail(todo) = <<>> \o Tail(todo)
  <1>1. todo # <<>> /\ Head(todo) = Step(op, w) /\ todo \in Seq(Steps)
    BY DEF Doing, TypeOK
  <1>2. QED
    BY <1>1, StepFields, EmptySeq, LenProperties, HeadTailProperties, NothingInstead

\* start() comes in RIM_Start only, where nothing is stopped or destroyed.
LEMMA StartingStep ==
    ASSUME Inv, todo # <<>>, Head(todo).op \in Starting,
           NEW n \in Seq(Steps), todo' = n \o Tail(todo),
           UNCHANGED <<applicationVars, stopped>>,
           \A i \in DOMAIN n : n[i].op = "start" /\ n[i].who \in RouteWorkers,
           thread'[Router] = thread[Router] \/ Is("0818")
    PROVE  /\ todo' \in Seq(Steps) /\ context
           /\ JoinOK' /\ PhaseOK' /\ RouterOK' /\ EndOK' /\ QuietOK' /\ ContextOK'
  <1>0. PICK q \in Seq(Steps) : q = todo
    BY DEF Inv, TypeOK
  <1>t. PICK t : t = todo'
    OBVIOUS
  <1>s. Spliced(n, q, t)
    BY <1>0, <1>t, Splice
  <1>1. /\ t \in Seq(Steps)
        /\ 1 \in DOMAIN q /\ Head(q) = q[1]
        /\ \A i \in DOMAIN t : \/ \E j \in DOMAIN n : t[i] = n[j]
                               \/ \E k \in DOMAIN q : t[i] = q[k]
    BY <1>s DEF Spliced
  <1>2. phase # "stopped" /\ \A i \in DOMAIN q : q[i].op \in Starting
    BY <1>0, <1>1 DEF Inv, PhaseOK
  <1>3. \A i \in DOMAIN t : t[i].op \in Starting
    BY <1>1, <1>2 DEF Starting
  <1>4. JoinOK' /\ EndOK'
    <2>1. \A i \in DOMAIN t :
             /\ t[i].op # "reset"
             /\ \A w \in Workers : t[i] # Step("shutdown", w) /\ t[i] # Step("free", w)
      BY <1>3, StepFields DEF Starting
    <2>2. QED
      BY <1>t, <2>1 DEF JoinOK, EndOK
  <1>5. PhaseOK' /\ QuietOK'
    BY <1>2, <1>3, <1>t DEF Inv, PhaseOK, QuietOK, applicationVars
  <1>6. RouterOK'
    <2> SUFFICES ASSUME ~Is("0818")
                 PROVE  thread'[Router] = "none" /\ \A i \in DOMAIN t : t[i] # Step("start", Router)
      BY <1>t DEF RouterOK, Is, applicationVars
    <2>1. \A j \in DOMAIN n : n[j] # Step("start", Router)
      BY StepFields, WorkerFacts
    <2>2. \A k \in DOMAIN q : q[k] # Step("start", Router)
      BY <1>0 DEF Inv, RouterOK
    <2>3. QED
      BY <1>1, <2>1, <2>2 DEF Inv, RouterOK
  <1>7. context /\ ContextOK'
    BY <1>0 DEF Inv, ContextOK, applicationVars
  <1>8. QED
    BY <1>1, <1>4, <1>5, <1>6, <1>7, <1>t

\* start(), Run(): a worker whose running_ is clear has no thread left to be
\* assigned to.
LEMMA StartThreadStep == ASSUME Inv, NEW w \in Workers, StartThread(w) PROVE Inv'
  <1>1. /\ Doing("start", w) /\ todo' = Tail(todo)
        /\ UNCHANGED <<applicationVars, stopped, shutdown, queue>>
    BY DEF StartThread
  <1>2. /\ todo # <<>> /\ Head(todo) = Step("start", w) /\ Head(todo).op \in Starting
        /\ todo' = <<>> \o Tail(todo) /\ todo[1] = Step("start", w) /\ 1 \in DOMAIN todo
    <2>1. TypeOK
      BY DEF Inv
    <2>2. QED
      BY <1>1, <2>1, FirstStep DEF Starting
  <1>3. \A v \in Workers : v # w => thread'[v] = thread[v] /\ running'[v] = running[v]
    BY DEF StartThread, Inv, TypeOK
  <1>4. running'[w] = TRUE
    BY DEF StartThread, Inv, TypeOK
  <1>5. ~running[w] => thread[w] = "none"
    <2>1. Head(todo) \notin {Step("shutdown", w), Step("join", w)}
      BY <1>2, StepInjective
    <2>2. QED
      BY <2>1 DEF Inv, RunningOK
  <1>6. ~terminated'
    BY <1>5 DEF StartThread, Inv
  <1>7. thread'[Router] = thread[Router] \/ Is("0818")
    <2>1. w = Router => Is("0818")
      BY <1>2 DEF Inv, RouterOK
    <2>2. QED
      BY <1>3, <2>1, WorkerFacts
  <1>8. /\ todo' \in Seq(Steps) /\ context
        /\ JoinOK' /\ PhaseOK' /\ RouterOK' /\ EndOK' /\ QuietOK' /\ ContextOK'
    BY <1>1, <1>2, <1>7, NoSteps, StartingStep
  <1>9. TypeOK'
    <2>1. /\ running' \in [Workers -> BOOLEAN] /\ terminated' \in BOOLEAN
          /\ thread' \in [Workers -> {"none", "test", "pop", "process", "ended"}]
      BY <1>6 DEF StartThread, Inv, TypeOK
    <2>2. QED
      BY <1>1, <1>8, <2>1 DEF Inv, TypeOK, applicationVars
  <1>10. RunningOK'
    <2>1. ASSUME NEW v \in Workers, thread[v] # "none", ~running[v] PROVE FALSE
      BY <1>2, <2>1, StepInjective DEF Inv, RunningOK
    <2>2. QED
      BY <1>3, <1>4, <2>1 DEF RunningOK
  <1>11. QED
    BY <1>6, <1>8, <1>9, <1>10 DEF Inv

\* RouteExecutor::Start and ~RouteExecutor.
LEMMA EnterRouteStep == ASSUME Inv, NEW r \in Routes, EnterRoute(r) PROVE Inv'
  <1>0. TypeOK /\ UNCHANGED <<applicationVars, running, thread, stopped, shutdown, queue, terminated>>
    BY DEF Inv, EnterRoute
  <1>1. CASE Doing("startRoute", r) /\ todo' = StartRoute(r) \o Tail(todo)
    <2>1. todo # <<>> /\ Head(todo) = Step("startRoute", r) /\ Head(todo).op \in Starting
          /\ todo[1] = Step("startRoute", r)
      BY <1>0, <1>1, FirstStep DEF Starting
    <2>2. PICK x \in Steps :
             x = Step("start", Store(r)) /\ x.op = "start" /\ x.who \in RouteWorkers
      <3>1. Store(r) \in RouteWorkers /\ Store(r) \in Workers
        BY WorkerFacts DEF WorkersOf
      <3>2. QED
        BY <3>1, StepType, StepFields DEF Operations
    <2>3. PICK y \in Steps :
             y = Step("start", Capability(r)) /\ y.op = "start" /\ y.who \in RouteWorkers
      <3>1. Capability(r) \in RouteWorkers /\ Capability(r) \in Workers
        BY WorkerFacts DEF WorkersOf
      <3>2. QED
        BY <3>1, StepType, StepFields DEF Operations
    <2>4. PICK n : n = <<x, y>>
      OBVIOUS
    <2>5. /\ n \in Seq(Steps) /\ todo' = n \o Tail(todo)
          /\ \A i \in DOMAIN n : n[i] \in {x, y}
      BY <1>1, <2>2, <2>3, <2>4, Pair DEF StartRoute
    <2>6. /\ todo' \in Seq(Steps) /\ context
          /\ JoinOK' /\ PhaseOK' /\ RouterOK' /\ EndOK' /\ QuietOK' /\ ContextOK'
      BY <1>0, <2>1, <2>2, <2>3, <2>5, StartingStep
    <2>7. TypeOK' /\ ~terminated'
      BY <1>0, <2>6 DEF Inv, TypeOK, applicationVars
    <2>8. RunningOK'
      <3>1. ASSUME NEW v \in Workers, thread[v] # "none", ~running[v] PROVE FALSE
        BY <2>1, <3>1, StepInjective DEF Inv, RunningOK
      <3>2. QED
        BY <1>0, <3>1 DEF RunningOK
    <2>9. QED
      BY <2>6, <2>7, <2>8 DEF Inv
  <1>2. CASE Doing("destroyRoute", r) /\ todo' = DestroyRoute(r) \o Tail(todo)
    <2>1. todo # <<>> /\ Head(todo) = Step("destroyRoute", r) /\ Head(todo).op = "destroyRoute"
          /\ DOMAIN todo = 1 .. Len(todo) /\ Len(todo) \in Nat /\ todo[1] = Step("destroyRoute", r)
      BY <1>0, <1>2, FirstStep
    <2>2. PICK s1 \in Steps, s2 \in Steps, s3 \in Steps, s4 \in Steps, s5 \in Steps :
             /\ s1 = Step("latch", r)
             /\ s2 = Step("stop", Capability(r)) /\ s3 = Step("free", Capability(r))
             /\ s4 = Step("stop", Store(r)) /\ s5 = Step("free", Store(r))
      <3>1. Capability(r) \in Workers /\ Store(r) \in Workers
        BY WorkerFacts DEF WorkersOf
      <3>2. QED
        BY <3>1, StepType DEF Operations
    <2>3. PICK n : n = <<s1, s2, s3, s4, s5>>
      OBVIOUS
    <2>4. /\ n \in Seq(Steps) /\ DOMAIN n = 1 .. 5
          /\ n[1] = s1 /\ n[2] = s2 /\ n[3] = s3 /\ n[4] = s4 /\ n[5] = s5
      BY <2>3
    <2>5. todo' = n \o Tail(todo)
      BY <1>2, <2>2, <2>3 DEF DestroyRoute
    <2>6. ASSUME NEW i \in DOMAIN n
          PROVE  /\ n[i].op \notin Starting \cup {"reset", "shutdown"}
                 /\ \A w \in Workers : n[i] = Step("free", w) =>
                       \E j \in DOMAIN n : j < i /\ Stops(n[j], w, stopped')
      <3>1. i = 1 \/ i = 2 \/ i = 3 \/ i = 4 \/ i = 5
        BY <2>4
      <3>2. n[i].op \in {"latch", "stop", "free"}
        BY <2>2, <2>4, <3>1, StepFields
      <3>3. ASSUME NEW w \in Workers, n[i] = Step("free", w)
            PROVE  \E j \in DOMAIN n : j < i /\ Stops(n[j], w, stopped')
        <4>1. CASE i = 3
          <5>1. 2 \in DOMAIN n /\ 2 < i /\ n[2] = Step("stop", w)
            BY <2>2, <2>4, <3>3, <4>1, StepInjective
          <5>2. QED
            BY <5>1 DEF Stops
        <4>2. CASE i = 5
          <5>1. 4 \in DOMAIN n /\ 4 < i /\ n[4] = Step("stop", w)
            BY <2>2, <2>4, <3>3, <4>2, StepInjective
          <5>2. QED
            BY <5>1 DEF Stops
        <4>3. QED
          BY <2>2, <2>4, <3>1, <3>3, <4>1, <4>2, StepInjective
      <3>4. QED
        BY <3>2, <3>3 DEF Starting
    <2>7. ASSUME NEW w \in Workers, NEW k \in DOMAIN todo, Stops(todo[k], w, stopped)
          PROVE  \/ thread'[w] = "none"
                 \/ \E j \in DOMAIN n : Stops(n[j], w, stopped')
                 \/ \E j \in 2 .. Len(todo) : (j <= k \/ j = 2) /\ Stops(todo[j], w, stopped')
      <3>1. CASE k = 1
        <4>1. w \in WorkersOf(r)
          BY <2>1, <2>7, <3>1, StepInjective DEF Stops
        <4>2. 2 \in DOMAIN n /\ 4 \in DOMAIN n
          BY <2>4
        <4>3. \E j \in DOMAIN n : n[j] = Step("stop", w)
          BY <2>2, <2>4, <4>1, <4>2 DEF WorkersOf
        <4>4. QED
          BY <4>3 DEF Stops
      <3>2. CASE k # 1
        <4>1. k \in 2 .. Len(todo) /\ k <= k
          BY <2>1, <3>2
        <4>2. QED
          BY <1>0, <2>7, <4>1
      <3>3. QED
        BY <3>1, <3>2
    <2>8. Head(todo).op \notin Starting
      BY <2>1 DEF Starting
    <2>9. /\ todo' \in Seq(Steps)
          /\ JoinOK' /\ PhaseOK' /\ RouterOK' /\ EndOK' /\ QuietOK'
      <3>1. \A i \in DOMAIN n, w \in Workers : n[i] # Step("shutdown", w)
        BY <2>6, StepFields
      <3>2. QED
        BY <1>0, <2>1, <2>4, <2>5, <2>6, <2>7, <2>8, <3>1, StoppingStep DEF Inv, applicationVars
    <2>10. TypeOK' /\ ~terminated' /\ ContextOK'
      BY <1>0, <2>1, <2>9 DEF Inv, TypeOK, ContextOK, applicationVars
    <2>11. RunningOK'
      <3>1. ASSUME NEW v \in Workers, thread[v] # "none", ~running[v] PROVE FALSE
        BY <2>1, <3>1, StepInjective DEF Inv, RunningOK
      <3>2. QED
        BY <1>0, <3>1 DEF RunningOK
    <2>12. QED
      BY <2>9, <2>10, <2>11 DEF Inv
  <1>3. QED
    BY <1>1, <1>2 DEF EnterRoute

\* RouteExecutor::Stop: the first time, both workers follow; after that none.
LEMMA StopRouteStep == ASSUME Inv, NEW r \in Routes, StopRouteOnce(r) PROVE Inv'
  <1>0. /\ TypeOK
        /\ UNCHANGED <<applicationVars, running, thread, shutdown, queue, terminated>>
        /\ stopped' = [stopped EXCEPT ![r] = TRUE]
    BY DEF Inv, StopRouteOnce
  <1>1. /\ todo # <<>> /\ Head(todo) = Step("latch", r) /\ Head(todo).op = "latch"
        /\ DOMAIN todo = 1 .. Len(todo) /\ Len(todo) \in Nat \ {0} /\ todo[1] = Step("latch", r)
        /\ Tail(todo) = <<>> \o Tail(todo)
    BY <1>0, FirstStep DEF StopRouteOnce
  <1>2. PICK n \in Seq(Steps) :
           /\ todo' = n \o Tail(todo)
           /\ \A i \in DOMAIN n : n[i].op = "stop"
           /\ ~stopped[r] => \A w \in WorkersOf(r) : \E i \in DOMAIN n : n[i] = Step("stop", w)
    <2>1. CASE stopped[r]
      <3>1. todo' = <<>> \o Tail(todo)
        BY <1>1, <2>1 DEF StopRouteOnce
      <3>2. QED
        BY <2>1, <3>1, NoSteps
    <2>2. CASE ~stopped[r]
      <3>1. PICK x \in Steps : x = Step("stop", Store(r)) /\ x.op = "stop"
        BY StepType, StepFields, WorkerFacts DEF Operations, WorkersOf
      <3>2. PICK y \in Steps : y = Step("stop", Capability(r)) /\ y.op = "stop"
        BY StepType, StepFields, WorkerFacts DEF Operations, WorkersOf
      <3>3. revision \in {"top", "755", "0818", "0820"}
        BY <1>0, LifecycleAssumption DEF TypeOK
      <3>4. StopOrder(r) = <<x, y>> \/ StopOrder(r) = <<y, x>>
        BY <3>1, <3>2, <3>3 DEF StopOrder, StopTop, Stop755, Stop0818, Stop0820, Is
      <3>5. ASSUME NEW n, n = <<x, y>> \/ n = <<y, x>>
            PROVE  /\ n \in Seq(Steps) /\ \A i \in DOMAIN n : n[i].op = "stop"
                   /\ (\E i \in DOMAIN n : n[i] = x) /\ (\E i \in DOMAIN n : n[i] = y)
        <4>1. 1 \in 1 .. 2 /\ 2 \in 1 .. 2 /\ \A i \in 1 .. 2 : i = 1 \/ i = 2
          OBVIOUS
        <4>2. /\ n \in Seq(Steps) /\ DOMAIN n = 1 .. 2
              /\ \/ n[1] = x /\ n[2] = y
                 \/ n[1] = y /\ n[2] = x
          <5>1. CASE n = <<x, y>>
            BY <5>1, Pair
          <5>2. CASE n = <<y, x>>
            BY <5>2, Pair
          <5>3. QED
            BY <3>5, <5>1, <5>2
        <4>3. QED
          BY <3>1, <3>2, <4>1, <4>2
      <3>6. todo' = StopOrder(r) \o Tail(todo)
        BY <2>2 DEF StopRouteOnce
      <3>7. QED
        BY <3>1, <3>2, <3>4, <3>5, <3>6 DEF WorkersOf
    <2>3. QED
      BY <2>1, <2>2
  <1>3. \A h \in Routes : h # r => stopped'[h] = stopped[h]
    BY <1>0 DEF TypeOK
  <1>4. ASSUME NEW w \in Workers, NEW k \in DOMAIN todo, Stops(todo[k], w, stopped)
        PROVE  \/ thread'[w] = "none"
               \/ \E j \in DOMAIN n : Stops(n[j], w, stopped')
               \/ \E j \in 2 .. Len(todo) : (j <= k \/ j = 2) /\ Stops(todo[j], w, stopped')
    <2>1. CASE w \in WorkersOf(r) /\ todo[k] = Step("latch", r) /\ ~stopped[r]
      BY <1>2, <2>1 DEF Stops
    <2>2. CASE ~(w \in WorkersOf(r) /\ todo[k] = Step("latch", r) /\ ~stopped[r])
      <3>1. Stops(todo[k], w, stopped')
        BY <1>3, <1>4, <2>2, StepInjective DEF Stops
      <3>2. k # 1
        BY <1>1, <1>4, <2>2, StepInjective DEF Stops
      <3>3. k \in 2 .. Len(todo) /\ k <= k
        BY <1>1, <3>2
      <3>4. QED
        BY <3>1, <3>3
    <2>3. QED
      BY <2>1, <2>2
  <1>5. \A i \in DOMAIN n :
           /\ n[i].op \notin Starting \cup {"reset"}
           /\ \A w \in Workers : n[i] # Step("free", w) /\ n[i] # Step("shutdown", w)
    BY <1>2, StepFields DEF Starting
  <1>6. Head(todo).op \notin Starting
    BY <1>1 DEF Starting
  <1>7. /\ todo' \in Seq(Steps)
        /\ JoinOK' /\ PhaseOK' /\ RouterOK' /\ EndOK' /\ QuietOK'
    <2>1. /\ TypeOK /\ JoinOK /\ PhaseOK /\ RouterOK /\ EndOK /\ QuietOK /\ ContextOK
          /\ UNCHANGED <<revision, phase, everStopped, restarted>>
          /\ \A w \in Workers : thread[w] = "none" => thread'[w] = "none"
      BY <1>0 DEF Inv, applicationVars
    <2>2. todo # <<>> /\ todo' = n \o Tail(todo)
      BY <1>1, <1>2
    <2>3. \A i \in DOMAIN n :
             /\ n[i].op \notin Starting \cup {"reset"}
             /\ \A w \in Workers :
                   /\ n[i] = Step("free", w) =>
                         \E j \in DOMAIN n : j < i /\ Stops(n[j], w, stopped')
                   /\ n[i] = Step("shutdown", w) =>
                         i + 1 \in DOMAIN n /\ n[i + 1] = Step("join", w)
      BY <1>5
    <2>4. QED
      BY <1>4, <1>6, <2>1, <2>2, <2>3, StoppingStep
  <1>8. TypeOK' /\ ~terminated' /\ ContextOK'
    <2>1. stopped' \in [Routes -> BOOLEAN]
      BY <1>0 DEF TypeOK
    <2>2. QED
      BY <1>0, <1>1, <1>7, <2>1 DEF Inv, TypeOK, ContextOK, applicationVars
  <1>9. RunningOK'
    <2>1. ASSUME NEW v \in Workers, thread[v] # "none", ~running[v] PROVE FALSE
      BY <1>1, <2>1, StepInjective DEF Inv, RunningOK
    <2>2. QED
      BY <1>0, <2>1 DEF RunningOK
  <1>10. QED
    BY <1>7, <1>8, <1>9 DEF Inv

\* stop(): what is passed over has no thread any more.
LEMMA ClearRunningStep == ASSUME Inv, NEW w \in Workers, ClearRunning(w) PROVE Inv'
  <1>0. /\ TypeOK
        /\ UNCHANGED <<applicationVars, thread, stopped, shutdown, queue, terminated>>
        /\ running' = [running EXCEPT ![w] = FALSE]
    BY DEF Inv, ClearRunning
  <1>1. /\ todo # <<>> /\ Head(todo) = Step("stop", w) /\ Head(todo).op = "stop"
        /\ DOMAIN todo = 1 .. Len(todo) /\ Len(todo) \in Nat \ {0} /\ todo[1] = Step("stop", w)
        /\ Tail(todo) = <<>> \o Tail(todo)
    BY <1>0, FirstStep DEF ClearRunning
  <1>2. ASSUME NEW v \in Workers, thread[v] # "none" PROVE running[v]
    BY <1>1, <1>2, StepInjective DEF Inv, RunningOK
  <1>3. PICK x \in Steps : x = Step("shutdown", w) /\ x.op = "shutdown"
    BY StepType, StepFields DEF Operations
  <1>4. PICK y \in Steps : y = Step("join", w) /\ y.op = "join"
    BY StepType, StepFields DEF Operations
  <1>5. PICK n \in Seq(Steps) :
           /\ todo' = n \o Tail(todo)
           /\ \/ n = <<>> /\ thread[w] = "none"
              \/ DOMAIN n = 1 .. 2 /\ n[1] = x /\ n[2] = y
    <2>1. CASE StopsOnlyRunning(w) /\ ~running[w]
      <3>1. todo' = <<>> \o Tail(todo)
        BY <1>1, <2>1 DEF ClearRunning
      <3>2. QED
        BY <1>2, <2>1, <3>1, NoSteps
    <2>2. CASE ~(StopsOnlyRunning(w) /\ ~running[w])
      <3>1. todo' = <<x, y>> \o Tail(todo)
        BY <1>3, <1>4, <2>2 DEF ClearRunning
      <3>2. PICK m : m = <<x, y>>
        OBVIOUS
      <3>3. m \in Seq(Steps) /\ DOMAIN m = 1 .. 2 /\ m[1] = x /\ m[2] = y
        BY <3>2, Pair
      <3>4. QED
        BY <3>1, <3>2, <3>3
    <2>3. QED
      BY <2>1, <2>2
  <1>6. 1 \in 1 .. 2 /\ 2 \in 1 .. 2 /\ \A i \in 1 .. 2 : i = 1 \/ i = 2
    OBVIOUS
  <1>7. ASSUME NEW v \in Workers, NEW k \in DOMAIN todo, Stops(todo[k], v, stopped)
        PROVE  \/ thread'[v] = "none"
               \/ \E j \in DOMAIN n : Stops(n[j], v, stopped')
               \/ \E j \in 2 .. Len(todo) : (j <= k \/ j = 2) /\ Stops(todo[j], v, stopped')
    <2>1. CASE k = 1
      <3>1. v = w
        BY <1>1, <1>7, <2>1, StepInjective DEF Stops
      <3>2. CASE thread[w] = "none"
        BY <1>0, <3>1, <3>2
      <3>3. CASE DOMAIN n = 1 .. 2 /\ n[1] = x
        BY <1>3, <1>6, <3>1, <3>3 DEF Stops
      <3>4. QED
        BY <1>5, <3>2, <3>3
    <2>2. CASE k # 1
      <3>1. k \in 2 .. Len(todo) /\ k <= k
        BY <1>1, <2>2
      <3>2. QED
        BY <1>0, <1>7, <3>1
    <2>3. QED
      BY <2>1, <2>2
  <1>8. \A i \in DOMAIN n :
           /\ n[i].op \notin Starting \cup {"reset"}
           /\ \A v \in Workers :
                 /\ n[i] # Step("free", v)
                 /\ n[i] = Step("shutdown", v) => i + 1 \in DOMAIN n /\ n[i + 1] = Step("join", v)
    <2>1. CASE n = <<>>
      BY <2>1, NoSteps
    <2>2. CASE DOMAIN n = 1 .. 2 /\ n[1] = x /\ n[2] = y
      <3>1. \A i \in DOMAIN n : i = 1 \/ i = 2
        BY <2>2
      <3>2. 1 + 1 = 2 /\ 2 \in DOMAIN n
        BY <2>2
      <3>3. QED
        BY <1>3, <1>4, <2>2, <3>1, <3>2, StepInjective, StepFields DEF Starting
    <2>3. QED
      BY <1>5, <2>1, <2>2
  <1>9. Head(todo).op \notin Starting
    BY <1>1 DEF Starting
  <1>10. /\ todo' \in Seq(Steps)
         /\ JoinOK' /\ PhaseOK' /\ RouterOK' /\ EndOK' /\ QuietOK'
    <2>1. /\ TypeOK /\ JoinOK /\ PhaseOK /\ RouterOK /\ EndOK /\ QuietOK /\ ContextOK
          /\ UNCHANGED <<revision, phase, everStopped, restarted>>
          /\ \A v \in Workers : thread[v] = "none" => thread'[v] = "none"
      BY <1>0 DEF Inv, applicationVars
    <2>2. todo # <<>> /\ todo' = n \o Tail(todo)
      BY <1>1, <1>5
    <2>3. \A i \in DOMAIN n :
             /\ n[i].op \notin Starting \cup {"reset"}
             /\ \A v \in Workers :
                   /\ n[i] = Step("free", v) =>
                         \E j \in DOMAIN n : j < i /\ Stops(n[j], v, stopped')
                   /\ n[i] = Step("shutdown", v) =>
                         i + 1 \in DOMAIN n /\ n[i + 1] = Step("join", v)
      BY <1>8
    <2>4. QED
      BY <1>7, <1>9, <2>1, <2>2, <2>3, StoppingStep
  <1>11. TypeOK' /\ ~terminated' /\ ContextOK'
    <2>1. running' \in [Workers -> BOOLEAN]
      BY <1>0 DEF TypeOK
    <2>2. QED
      BY <1>0, <1>1, <1>10, <2>1 DEF Inv, TypeOK, ContextOK, applicationVars
  <1>12. RunningOK'
    <2> SUFFICES ASSUME NEW v \in Workers, thread'[v] # "none", ~running'[v]
                 PROVE  todo' # <<>> /\ Head(todo') \in {Step("shutdown", v), Step("join", v)}
      BY DEF RunningOK
    <2>1. v = w /\ thread[w] # "none"
      BY <1>0, <1>2 DEF TypeOK
    <2>2. PICK q \in Seq(Steps) : q = todo
      BY <1>0 DEF TypeOK
    <2>3. PICK t \in Seq(Steps) : t = todo'
      BY <1>10
    <2>4. n[1] = x /\ 1 \in DOMAIN n
      BY <1>5, <1>6, <2>1
    <2>5. Spliced(n, q, t)
      BY <1>1, <1>5, <2>2, <2>3, Splice
    <2>6. 1 \in DOMAIN t /\ t[1] = x
      BY <2>4, <2>5 DEF Spliced
    <2>7. t # <<>> /\ Head(t) = x
      BY <2>6, NoSteps, HeadTailProperties
    <2>8. QED
      BY <1>3, <2>1, <2>3, <2>7
  <1>13. QED
    BY <1>10, <1>11, <1>12 DEF Inv

\* The first step of a RIM_Stop or RIM_Destroy is done and taken away; what it
\* had stopped is gone, or is stopped by the step that comes next.
LEMMA TailStep ==
    ASSUME Inv, todo # <<>>, Head(todo).op \notin Starting, todo' = Tail(todo),
           UNCHANGED <<revision, phase, everStopped, restarted, stopped>>,
           \A w \in Workers : thread[w] = "none" => thread'[w] = "none",
           \A w \in Workers :
              Stops(todo[1], w, stopped) =>
                 \/ thread'[w] = "none"
                 \/ 2 \in DOMAIN todo /\ Stops(todo[2], w, stopped)
    PROVE  /\ todo' \in Seq(Steps)
           /\ JoinOK' /\ PhaseOK' /\ RouterOK' /\ EndOK' /\ QuietOK'
  <1>1. PICK n : n = <<>>
    OBVIOUS
  <1>2. todo \in Seq(Steps)
    BY DEF Inv, TypeOK
  <1>3. n \in Seq(Steps) /\ DOMAIN n = {} /\ todo' = n \o Tail(todo)
    BY <1>1, <1>2, NoSteps, NothingInstead
  <1>4. DOMAIN todo = 1 .. Len(todo) /\ Len(todo) \in Nat
    BY <1>2, LenProperties
  <1>5. ASSUME NEW w \in Workers, NEW k \in DOMAIN todo, Stops(todo[k], w, stopped)
        PROVE  \/ thread'[w] = "none"
               \/ \E j \in DOMAIN n : Stops(n[j], w, stopped')
               \/ \E j \in 2 .. Len(todo) : (j <= k \/ j = 2) /\ Stops(todo[j], w, stopped')
    <2>1. CASE k = 1
      BY <1>4, <1>5, <2>1
    <2>2. CASE k # 1
      <3>1. k \in 2 .. Len(todo) /\ k <= k
        BY <1>4, <2>2
      <3>2. QED
        BY <1>5, <3>1
    <2>3. QED
      BY <2>1, <2>2
  <1>6. /\ TypeOK /\ JoinOK /\ PhaseOK /\ RouterOK /\ EndOK /\ QuietOK /\ ContextOK
        /\ UNCHANGED <<revision, phase, everStopped, restarted>>
    BY DEF Inv
  <1>7. \A i \in DOMAIN n :
           /\ n[i].op \notin Starting \cup {"reset"}
           /\ \A w \in Workers :
                 /\ n[i] = Step("free", w) =>
                       \E j \in DOMAIN n : j < i /\ Stops(n[j], w, stopped')
                 /\ n[i] = Step("shutdown", w) =>
                       i + 1 \in DOMAIN n /\ n[i + 1] = Step("join", w)
    BY <1>3
  <1>8. QED
    BY <1>3, <1>5, <1>6, <1>7, StoppingStep

\* Queue::Shutdown in stop(); the join comes next.
LEMMA ShutdownStep == ASSUME Inv, NEW w \in Workers, ShutdownQueue(w) PROVE Inv'
  <1>0. /\ TypeOK /\ todo' = Tail(todo)
        /\ UNCHANGED <<applicationVars, running, thread, stopped, queue, terminated>>
        /\ shutdown' = [shutdown EXCEPT ![w] = TRUE]
    BY DEF Inv, ShutdownQueue
  <1>1. /\ todo # <<>> /\ Head(todo) = Step("shutdown", w) /\ Head(todo).op = "shutdown"
        /\ DOMAIN todo = 1 .. Len(todo) /\ Len(todo) \in Nat \ {0} /\ todo[1] = Step("shutdown", w)
    BY <1>0, FirstStep DEF ShutdownQueue
  <1>2. 2 \in DOMAIN todo /\ todo[2] = Step("join", w)
    <2>1. 1 \in DOMAIN todo /\ 1 + 1 = 2
      BY <1>1
    <2>2. QED
      BY <1>1, <2>1 DEF Inv, JoinOK
  <1>3. \A v \in Workers :
           Stops(todo[1], v, stopped) => 2 \in DOMAIN todo /\ Stops(todo[2], v, stopped)
    BY <1>1, <1>2, StepInjective DEF Stops
  <1>4. Head(todo).op \notin Starting
    BY <1>1 DEF Starting
  <1>5. /\ todo' \in Seq(Steps)
        /\ JoinOK' /\ PhaseOK' /\ RouterOK' /\ EndOK' /\ QuietOK'
    BY <1>0, <1>1, <1>3, <1>4, TailStep DEF applicationVars
  <1>6. TypeOK' /\ ~terminated' /\ ContextOK'
    <2>1. shutdown' \in [Workers -> BOOLEAN]
      BY <1>0 DEF TypeOK
    <2>2. QED
      BY <1>0, <1>1, <1>5, <2>1 DEF Inv, TypeOK, ContextOK, applicationVars
  <1>7. todo' # <<>> /\ Head(todo') = Step("join", w)
    <2>1. PICK q \in Seq(Steps) : q = todo
      BY <1>0 DEF TypeOK
    <2>2. Tail(q) \in Seq(Steps) /\ Len(Tail(q)) = Len(q) - 1
          /\ \A i \in 1 .. Len(Tail(q)) : Tail(q)[i] = q[i + 1]
      BY <1>1, <2>1, HeadTailProperties
    <2>3. 1 \in 1 .. Len(Tail(q)) /\ 1 + 1 = 2
      BY <1>1, <1>2, <2>1, <2>2
    <2>4. Tail(q)[1] = q[2]
      BY <2>2, <2>3
    <2>5. Tail(q) # <<>> /\ Head(Tail(q)) = Tail(q)[1]
      <3>1. PICK t \in Seq(Steps) : t = Tail(q)
        BY <2>2
      <3>2. Len(t) # 0
        BY <2>3, <3>1
      <3>3. t # <<>>
        BY <3>2, NoSteps
      <3>4. QED
        BY <3>1, <3>3, HeadTailProperties
    <2>6. QED
      BY <1>0, <1>2, <2>1, <2>4, <2>5
  <1>8. RunningOK'
    <2>1. ASSUME NEW v \in Workers, thread[v] # "none", ~running[v] PROVE v = w
      BY <1>1, <2>1, StepInjective DEF Inv, RunningOK
    <2>2. QED
      BY <1>0, <1>7, <2>1 DEF RunningOK
  <1>9. QED
    BY <1>5, <1>6, <1>8 DEF Inv

\* join: the thread of w is gone.
LEMMA JoinStep == ASSUME Inv, NEW w \in Workers, Join(w) PROVE Inv'
  <1>0. /\ TypeOK /\ todo' = Tail(todo)
        /\ UNCHANGED <<applicationVars, running, stopped, shutdown, queue, terminated>>
        /\ thread' = [thread EXCEPT ![w] = "none"]
    BY DEF Inv, Join
  <1>1. /\ todo # <<>> /\ Head(todo) = Step("join", w) /\ Head(todo).op = "join"
        /\ todo[1] = Step("join", w)
    BY <1>0, FirstStep DEF Join
  <1>2. /\ thread' \in [Workers -> {"none", "test", "pop", "process", "ended"}]
        /\ thread'[w] = "none" /\ \A v \in Workers : v # w => thread'[v] = thread[v]
    BY <1>0 DEF TypeOK
  <1>3. \A v \in Workers : Stops(todo[1], v, stopped) => thread'[v] = "none"
    BY <1>1, <1>2, StepInjective DEF Stops
  <1>4. Head(todo).op \notin Starting
    BY <1>1 DEF Starting
  <1>5. /\ todo' \in Seq(Steps)
        /\ JoinOK' /\ PhaseOK' /\ RouterOK' /\ EndOK' /\ QuietOK'
    BY <1>0, <1>1, <1>2, <1>3, <1>4, TailStep DEF applicationVars
  <1>6. TypeOK' /\ ~terminated' /\ ContextOK'
    BY <1>0, <1>1, <1>2, <1>5 DEF Inv, TypeOK, ContextOK, applicationVars
  <1>7. RunningOK'
    <2>1. ASSUME NEW v \in Workers, thread[v] # "none", ~running[v] PROVE v = w
      BY <1>1, <2>1, StepInjective DEF Inv, RunningOK
    <2>2. QED
      BY <1>0, <1>2, <2>1 DEF RunningOK
  <1>8. QED
    BY <1>5, <1>6, <1>7 DEF Inv

\* A destructor finds no joinable thread.
LEMMA FreeStep == ASSUME Inv, NEW w \in Workers, Free(w) PROVE Inv'
  <1>0. /\ TypeOK /\ todo' = Tail(todo)
        /\ UNCHANGED <<applicationVars, running, thread, stopped, shutdown, queue>>
        /\ terminated' = (terminated \/ thread[w] # "none")
    BY DEF Inv, Free
  <1>1. /\ todo # <<>> /\ Head(todo) = Step("free", w) /\ Head(todo).op = "free"
        /\ DOMAIN todo = 1 .. Len(todo) /\ Len(todo) \in Nat \ {0} /\ todo[1] = Step("free", w)
    BY <1>0, FirstStep DEF Free
  <1>2. thread[w] = "none"
    <2>1. 1 \in DOMAIN todo /\ \A j \in DOMAIN todo : ~(j < 1)
      BY <1>1
    <2>2. StoppedBefore(w, 1)
      BY <1>1, <2>1 DEF Inv, EndOK
    <2>3. QED
      BY <2>1, <2>2 DEF StoppedBefore
  <1>3. ~terminated' /\ terminated' \in BOOLEAN
    BY <1>0, <1>2 DEF Inv
  <1>4. Head(todo).op \notin Starting
    BY <1>1 DEF Starting
  <1>5. \A v \in Workers : ~Stops(todo[1], v, stopped)
    BY <1>1, StepFields, StopsOperation
  <1>6. /\ todo' \in Seq(Steps)
        /\ JoinOK' /\ PhaseOK' /\ RouterOK' /\ EndOK' /\ QuietOK'
    BY <1>0, <1>1, <1>4, <1>5, TailStep DEF applicationVars
  <1>7. TypeOK' /\ ContextOK'
    BY <1>0, <1>1, <1>3, <1>6 DEF Inv, TypeOK, ContextOK, applicationVars
  <1>8. RunningOK'
    <2>1. ASSUME NEW v \in Workers, thread[v] # "none", ~running[v] PROVE FALSE
      BY <1>1, <2>1, StepInjective DEF Inv, RunningOK
    <2>2. QED
      BY <1>0, <2>1 DEF RunningOK
  <1>9. QED
    BY <1>3, <1>6, <1>7, <1>8 DEF Inv

\* g_context.reset() is the last step, and no thread is left.
LEMMA ResetStep == ASSUME Inv, Reset PROVE Inv'
  <1>0. /\ TypeOK /\ todo' = Tail(todo) /\ context' = FALSE
        /\ queue' = [w \in Workers |-> 0]
        /\ UNCHANGED <<revision, calls, phase, everStopped, restarted, running, thread,
                       stopped, shutdown, terminated>>
    BY DEF Inv, Reset
  <1>1. /\ todo # <<>> /\ Head(todo) = Step("reset", Publisher) /\ Head(todo).op = "reset"
        /\ DOMAIN todo = 1 .. Len(todo) /\ Len(todo) \in Nat \ {0}
        /\ todo[1] = Step("reset", Publisher)
    BY <1>0, FirstStep DEF Reset
  <1>2. Len(todo) = 1 /\ \A w \in Workers : thread[w] = "none"
    <2>1. 1 \in DOMAIN todo /\ (\A j \in DOMAIN todo : ~(j < 1)) /\ todo[1].op = "reset"
      BY <1>1, StepFields
    <2>2. 1 = Len(todo) /\ \A w \in Workers : StoppedBefore(w, 1)
      BY <2>1 DEF Inv, EndOK
    <2>3. QED
      BY <2>1, <2>2 DEF StoppedBefore
  <1>3. Head(todo).op \notin Starting
    BY <1>1 DEF Starting
  <1>4. /\ todo' \in Seq(Steps)
        /\ JoinOK' /\ PhaseOK' /\ RouterOK' /\ EndOK' /\ QuietOK'
    BY <1>0, <1>1, <1>2, <1>3, TailStep
  <1>5. todo' = <<>>
    <2>1. PICK q \in Seq(Steps) : q = todo
      BY <1>0 DEF TypeOK
    <2>2. Tail(q) \in Seq(Steps) /\ Len(Tail(q)) = Len(q) - 1
      BY <1>1, <2>1, HeadTailProperties
    <2>3. Len(Tail(q)) = 0
      BY <1>2, <2>1, <2>2
    <2>4. QED
      BY <1>0, <2>1, <2>2, <2>3, EmptySeq
  <1>6. TypeOK' /\ ~terminated' /\ ContextOK'
    <2>1. queue' \in [Workers -> Nat]
      BY <1>0
    <2>2. QED
      BY <1>0, <1>2, <1>4, <1>5, <2>1 DEF Inv, TypeOK, ContextOK
  <1>7. RunningOK'
    BY <1>0, <1>2 DEF RunningOK
  <1>8. QED
    BY <1>4, <1>6, <1>7 DEF Inv
-----------------------------------------------------------------------------
(***************************************************************************)
(* The worker threads and RIM_SetXxx: they neither take part in a call nor *)
(* end one another's threads.                                              *)
(***************************************************************************)
LEMMA WorkersStep ==
    ASSUME Inv,
           UNCHANGED <<applicationVars, todo, running, stopped, shutdown, terminated>>,
           thread' \in [Workers -> {"none", "test", "pop", "process", "ended"}],
           queue' \in [Workers -> Nat],
           \A w \in Workers : thread'[w] = "none" <=> thread[w] = "none"
    PROVE  Inv'
  <1>1. /\ revision' = revision /\ context' = context /\ calls' = calls /\ phase' = phase
        /\ everStopped' = everStopped /\ restarted' = restarted
        /\ todo' = todo /\ running' = running /\ stopped' = stopped
        /\ shutdown' = shutdown /\ terminated' = terminated
    BY DEF applicationVars
  <1>2. TypeOK' /\ JoinOK' /\ PhaseOK' /\ ~terminated'
    BY <1>1 DEF Inv, TypeOK, JoinOK, PhaseOK
  <1>3. RouterOK' /\ ContextOK' /\ RunningOK'
    BY <1>1, WorkerFacts DEF Inv, RouterOK, ContextOK, RunningOK, Is
  <1>4. /\ \A w \in Workers : BoundToStop(w) => BoundToStop(w)'
        /\ \A i : \A w \in Workers : StoppedBefore(w, i) => StoppedBefore(w, i)'
    BY <1>1 DEF BoundToStop, StoppedBefore
  <1>5. EndOK'
    BY <1>1, <1>4 DEF Inv, EndOK
  <1>6. QuietOK'
    BY <1>1, <1>4, WorkerFacts DEF Inv, QuietOK
  <1>7. QED
    BY <1>2, <1>3, <1>5, <1>6 DEF Inv

\* Pushing leaves a number of items in every queue.
LEMMA PushedType ==
    ASSUME TypeOK, NEW w \in Workers
    PROVE  Pushed(w) \in [Workers -> Nat]
  BY DEF TypeOK, Pushed

\* RIM_SetXxx only pushes.
LEMMA SetStep == ASSUME Inv, NEW r \in Routes, Set(r) PROVE Inv'
  <1>1. PICK w \in Workers : queue' = Pushed(w)
    <2>1. Router \in Workers /\ Store(r) \in Workers
      BY WorkerFacts DEF WorkersOf
    <2>2. QED
      BY <2>1 DEF Set
  <1>2. queue' \in [Workers -> Nat] /\ thread' = thread
    BY <1>1, PushedType DEF Inv, Set
  <1>3. thread' \in [Workers -> {"none", "test", "pop", "process", "ended"}]
    BY <1>2 DEF Inv, TypeOK
  <1>4. UNCHANGED <<applicationVars, todo, running, stopped, shutdown, terminated>>
    BY DEF Set
  <1>5. QED
    BY <1>2, <1>3, <1>4, WorkersStep

\* A worker's loop, until it ends: its thread stays joinable.
LEMMA WorkerStep == ASSUME Inv, NEW w \in Workers, Worker(w) PROVE Inv'
  <1>0. TypeOK
    BY DEF Inv
  <1>1. UNCHANGED <<applicationVars, todo, running, stopped, shutdown, terminated>>
    BY DEF Worker, TestRunning, PopItem, PopNothing, Process
  <1>2. queue' \in [Workers -> Nat]
    <2>1. CASE TestRunning(w) \/ PopNothing(w)
      BY <1>0, <2>1 DEF TestRunning, PopNothing, TypeOK
    <2>2. CASE PopItem(w)
      BY <1>0, <2>2 DEF PopItem, TypeOK
    <2>3. CASE Process(w)
      <3>1. CASE UNCHANGED queue
        BY <1>0, <3>1 DEF TypeOK
      <3>2. CASE \E d \in Downstream(w) : queue' = Pushed(d)
        BY <1>0, <3>2, PushedType DEF Downstream
      <3>3. QED
        BY <2>3, <3>1, <3>2 DEF Process
    <2>4. QED
      BY <2>1, <2>2, <2>3 DEF Worker
  <1>3. PICK at \in {"test", "pop", "process", "ended"} :
           thread' = [thread EXCEPT ![w] = at] /\ thread[w] # "none"
    <2>1. CASE TestRunning(w)
      BY <2>1 DEF TestRunning
    <2>2. CASE PopItem(w)
      BY <2>2 DEF PopItem
    <2>3. CASE PopNothing(w)
      BY <2>3 DEF PopNothing
    <2>4. CASE Process(w)
      BY <2>4 DEF Process
    <2>5. QED
      BY <2>1, <2>2, <2>3, <2>4 DEF Worker
  <1>4. /\ thread' \in [Workers -> {"none", "test", "pop", "process", "ended"}]
        /\ \A v \in Workers : thread'[v] = "none" <=> thread[v] = "none"
    BY <1>0, <1>3 DEF TypeOK
  <1>5. QED
    BY <1>1, <1>2, <1>4, WorkersStep
-----------------------------------------------------------------------------
(***************************************************************************)
(* The invariant and what follows from it.                                 *)
(***************************************************************************)
LEMMA ControlStep == ASSUME Inv, NEW w \in Workers, Control(w) PROVE Inv'
  BY StartThreadStep, ClearRunningStep, ShutdownStep, JoinStep, FreeStep DEF Control

\* Every step of a call in progress, in each revision.
LEMMA LifecycleStep == ASSUME Inv, Lifecycle PROVE Inv'
  <1>1. \A r \in Routes : <<r, "store">> \in Workers /\ <<r, "capability">> \in Workers
    BY WorkerFacts DEF WorkersOf, Store, Capability
  <1>2. Publisher \in Workers /\ Callback \in Workers /\ Router \in Workers
    BY WorkerFacts
  <1>3. CASE \E w \in Workers : Control(w)
    BY <1>3, ControlStep
  <1>4. CASE \E r \in Routes : EnterRoute(r) \/ StopRouteOnce(r)
    BY <1>4, EnterRouteStep, StopRouteStep
  <1>5. CASE Reset
    BY <1>5, ResetStep
  <1>6. \/ \E w \in Workers : Control(w)
        \/ \E r \in Routes : EnterRoute(r) \/ StopRouteOnce(r)
        \/ Reset
    BY <1>1, <1>2 DEF Lifecycle, ControlTop, RouteControl,
          StoreControl755, CapabilityControl755, PublisherControl755, CallbackControl755,
          StoreControl0818, CapabilityControl0818, PublisherControl0818, CallbackControl0818,
          RouterControl0818,
          StoreControl0820, CapabilityControl0820, PublisherControl0820, CallbackControl0820
  <1>7. QED
    BY <1>3, <1>4, <1>5, <1>6

\* Every step keeps the invariant.
LEMMA InvStep == ASSUME Inv, [Next]_vars PROVE Inv'
  <1>1. CASE Next
    <2>1. CASE Create
      BY <2>1, CreateStep
    <2>2. CASE Start
      BY <2>2, StartStep
    <2>3. CASE Stop
      BY <2>3, StopStep
    <2>4. CASE Destroy
      BY <2>4, DestroyStep
    <2>5. CASE Lifecycle
      BY <2>5, LifecycleStep
    <2>6. CASE \E r \in Routes : Set(r)
      BY <2>6, SetStep
    <2>7. CASE \E w \in Workers : Worker(w)
      BY <2>7, WorkerStep
    <2>8. QED
      BY <1>1, <2>1, <2>2, <2>3, <2>4, <2>5, <2>6, <2>7 DEF Next
  <1>2. CASE UNCHANGED vars
    <2>1. /\ UNCHANGED <<applicationVars, todo, running, stopped, shutdown, terminated>>
          /\ thread' = thread /\ queue' = queue
      BY <1>2 DEF vars, applicationVars
    <2>2. /\ thread' \in [Workers -> {"none", "test", "pop", "process", "ended"}]
          /\ queue' \in [Workers -> Nat]
      BY <2>1 DEF Inv, TypeOK
    <2>3. QED
      BY <2>1, <2>2, WorkersStep
  <1>3. QED
    BY <1>1, <1>2

\* The invariant holds in every reachable state.
LEMMA Invariance == Spec => []Inv
  <1>1. Init => Inv
    BY InvInit
  <1>2. Inv /\ [Next]_vars => Inv'
    BY InvStep
  <1>3. QED
    BY <1>1, <1>2, PTL DEF Spec

\* The variables keep their types, and what is left of a call is a sequence of
\* steps of workers and routes.
THEOREM LifecycleTypeCorrect == Spec => []TypeOK
  <1>1. Inv => TypeOK
    BY DEF Inv
  <1>2. QED
    BY <1>1, Invariance, PTL

\* In whatever order RIM_Create, RIM_Start, RIM_Stop and RIM_Destroy are called
\* no joinable std::thread is destroyed or assigned to.
THEOREM NoTermination == Spec => []NeverTerminates
  <1>1. Inv => NeverTerminates
    BY DEF Inv, NeverTerminates
  <1>2. QED
    BY <1>1, Invariance, PTL

\* Once RIM_Destroy has reset g_context, no worker thread is left.
THEOREM NoneOutlivesContext == Spec => []NoThreadOutlivesContext
  <1>1. Inv => NoThreadOutlivesContext
    BY DEF Inv, ContextOK, NoThreadOutlivesContext
  <1>2. QED
    BY <1>1, Invariance, PTL

\* When RIM_Stop has returned, publisher and callback threads are gone, and
\* without a restart the route workers too.
THEOREM QuietOnceStopped == Spec => []QuietAfterStop
  <1>1. ASSUME Inv PROVE QuietAfterStop
    <2> SUFFICES ASSUME Idle, phase = "stopped" PROVE QuietAfterStop
      BY DEF QuietAfterStop
    <2>1. DOMAIN todo = {}
      BY NoSteps DEF Idle
    <2>2. \A w \in Workers : BoundToStop(w) => thread[w] = "none"
      BY <2>1 DEF BoundToStop
    <2>3. QED
      BY <1>1, <2>2, WorkerFacts DEF Inv, QuietOK, QuietAfterStop
  <1>2. QED
    BY <1>1, Invariance, PTL
=============================================================================
