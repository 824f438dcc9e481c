---------------------------- MODULE BrokerProofs ----------------------------
(***************************************************************************)
(* The safety of delivery through the broker, for every number of groups,  *)
(* messages, consumers, workers and channels, every capacity and every     *)
(* limit, from what its steps preserve (module BrokerSteps).               *)
(***************************************************************************)
EXTENDS BrokerSteps, FiniteSetTheorems

LEMMA ShapesAlways == Spec => []Shapes
<1>1. SizesAreNumbers
  BY BrokerAssumption, FS_Subset, FS_CardinalityType DEF SizesAreNumbers
<1>2. Shapes /\ [Next]_vars => Shapes'
  BY <1>1, ShapesPreserved
<1> QED
  BY <1>2, ShapesInitially, PTL DEF Spec

(* Every reachable state has the shapes of TypeOK: the channels stay       *)
(* within their capacities, a passed deadline belongs to a message that is *)
(* leased or waits for a retry, and no goroutine works on a missing        *)
(* message, group or connection.                                           *)
THEOREM TypeCorrect == Spec => []TypeOK
<1>1. Shapes => TypeOK
  BY DEF Shapes
<1> QED
  BY <1>1, ShapesAlways, PTL

(* A group's flag is set exactly while one activation of it is under way.  *)
(* Activate and the worker that resets the flag are not atomic with the    *)
(* channel's send and receive, yet no group is queued twice and none is    *)
(* left marked and out of the queue, whatever the number of workers and    *)
(* the capacity of the channel.                                            *)
THEOREM OneActivation == Spec => []FlagMeansQueued
<1>1. Init => QueuedOnce
  BY DEF Init, QueuedOnce, Queued, Taken, IdleWorker
<1>2. Shapes /\ QueuedOnce /\ [Next]_vars => QueuedOnce'
  BY QueuedOncePreserved DEF Shapes
<1>3. QueuedOnce => FlagMeansQueued
  <2> SUFFICES ASSUME QueuedOnce, NEW g \in Groups
               PROVE  Cardinality(Queued(g)) + Cardinality(Taken(g))
                        = IF g \in scheduled THEN 1 ELSE 0
    BY DEF FlagMeansQueued
  <2>1. CASE g \notin scheduled
    <3>1. Queued(g) = {} /\ Taken(g) = {}
      BY <2>1 DEF QueuedOnce
    <3>2. Cardinality(Queued(g)) = 0 /\ Cardinality(Taken(g)) = 0
      BY <3>1, FS_EmptySet
    <3> QED
      BY <2>1, <3>2
  <2>2. CASE g \in scheduled
    <3>1. \/ Taken(g) = {} /\ \E i : Queued(g) = {i}
          \/ Queued(g) = {} /\ \E w : Taken(g) = {w}
      BY Zenon, <2>2 DEF QueuedOnce
    <3>2. \/ Cardinality(Taken(g)) = 0 /\ Cardinality(Queued(g)) = 1
          \/ Cardinality(Queued(g)) = 0 /\ Cardinality(Taken(g)) = 1
      BY Zenon, <3>1, FS_EmptySet, FS_Singleton
    <3> QED
      BY <2>2, <3>2
  <2> QED
    BY <2>1, <2>2
<1> QED
  BY <1>1, <1>2, <1>3, ShapesAlways, PTL DEF Spec

-----------------------------------------------------------------------------
(* The timing wheel.                                                       *)

(* What the steps other than SetWake, ArmTimer and FireTimer do to the     *)
(* wake-ups: nothing, and a worker about to arm a timer stays so.          *)
WakesKept ==
  /\ wake' = wake /\ timers' = timers
  /\ \A w \in Workers : worker[w].pc = "arm" => worker'[w] = worker[w]

LEMMA WakeSteps ==
  ASSUME TypeOK, [Next]_vars
  PROVE  \/ \E w \in Workers : SetWake(w) \/ ArmTimer(w)
         \/ \E g \in Groups, m \in Msgs : FireTimer(g, m)
         \/ WakesKept
<1>1. UNCHANGED <<worker, wake, timers>> => WakesKept
  BY DEF WakesKept
<1>2. ASSUME NEW w \in Workers, NEW r, Step(w, r), worker[w].pc # "arm",
             UNCHANGED <<wake, timers>>
      PROVE  WakesKept
  BY <1>2 DEF TypeOK, Step, WakesKept
<1>3. ASSUME NEW w \in Workers, ScheduleStep(w), ~SetWake(w), ~ArmTimer(w)
      PROVE  WakesKept
  <2>1. worker[w].pc # "arm"
    BY <1>3 DEF ScheduleStep, Take, Unschedule, Drain, HandOver, GoAgain
  <2>2. UNCHANGED <<wake, timers>>
    BY <1>3 DEF ScheduleStep, Take, Unschedule, Drain, HandOver, GoAgain, wakeVars
  <2>3. \E r : Step(w, r)
    BY Zenon, <1>3 DEF ScheduleStep, Take, Unschedule, Drain, HandOver, GoAgain
  <2> QED
    BY <1>2, <2>1, <2>2, <2>3
<1>4. ASSUME NEW l \in Lanes, DispatchStep(l)
      PROVE  WakesKept
  BY <1>1, <1>4
     DEF DispatchStep, Pick, TryAcquire, AcquireCredit, Write, WriteFails, GiveBack, wakeVars
<1>5. CASE TimeStep
  <2>1. CASE \E g \in Groups, m \in Msgs : FireTimer(g, m)
    BY <2>1
  <2>2. CASE ~\E g \in Groups, m \in Msgs : FireTimer(g, m)
    BY Zenon, <1>1, <1>5, <2>2 DEF TimeStep, WakeUp, Sweep, SweepActivate, Lapse, LapseEarly, wakeVars
  <2> QED
    BY <2>1, <2>2
<1>6. CASE FrameStep
  <2>1. CASE \E c \in Conns : HandlerStep(c)
    BY Zenon, <1>1, <2>1 DEF HandlerStep, Notify, ActivateNext, CompleteAndNext,
                             FailAndNext, PublishLetter, wakeVars
  <2>2. CASE \E c \in Conns, m \in Msgs : ACK(c, m) \/ NACK(c, m)
    BY <1>1, <2>2 DEF ACK, NACK, Answer, wakeVars
  <2>3. CASE \/ \E m \in Msgs : Publish(m)
             \/ TryDispatchOne \/ Notify(Producer)
             \/ \E c \in Conns : Subscribe(c) \/ WALFails(c)
    BY Zenon, <1>1, <2>3 DEF Publish, TryDispatchOne, Notify, Subscribe, WALFails, wakeVars
  <2> QED
    BY Zenon, <1>6, <2>1, <2>2, <2>3 DEF FrameStep
<1>7. ASSUME NEW c \in Conns, LeaveStep(c)
      PROVE  WakesKept
  BY <1>1, <1>7 DEF LeaveStep, Leave, Unregister, Close, wakeVars
<1>8. CASE UNCHANGED vars
  BY <1>1, <1>8 DEF vars, wakeVars
<1> QED
  BY <1>3, <1>4, <1>5, <1>6, <1>7, <1>8, StepKinds

LEMMA WakePreserved ==
  ASSUME TypeOK, WakeHasTimer, [Next]_vars
  PROVE  WakeHasTimer'
<1>1. worker \in [Workers -> WorkerType] /\ wake \in [Groups -> Msgs \cup {NoMsg}]
  BY DEF TypeOK
<1>2. ASSUME NEW w \in Workers, SetWake(w)
      PROVE  WakeHasTimer'
  <2> DEFINE r == worker[w]
             a == [r EXCEPT !.pc = "arm"]
  <2>1. r.pc = "hand" /\ r.then \in Msgs /\ r.g \in Groups /\ timers' = timers
    BY <1>1, <1>2 DEF SetWake, WorkerType
  <2>2. CASE wake' = [wake EXCEPT ![r.g] = r.then] /\ worker' = [worker EXCEPT ![w] = a]
    <3>1. a.pc = "arm" /\ a.g = r.g /\ a.then = r.then
      BY <1>1 DEF WorkerType
    <3>2. worker'[w] = a /\ \A v \in Workers : v # w => worker'[v] = worker[v]
      BY <1>1, <2>2
    <3>3. \A v \in Workers : worker[v].pc = "arm" => worker'[v] = worker[v]
      BY <2>1, <3>2
    <3>4. wake'[r.g] = r.then /\ \A g \in Groups : g # r.g => wake'[g] = wake[g]
      BY <1>1, <2>1, <2>2
    <3> HIDE DEF r, a
    <3> QED
      BY <2>1, <3>1, <3>2, <3>3, <3>4 DEF WakeHasTimer
  <2>3. CASE wake' = wake /\ worker' = [worker EXCEPT ![w] = IdleWorker]
    <3>1. \A v \in Workers : worker[v].pc = "arm" => worker'[v] = worker[v]
      BY <1>1, <2>1, <2>3
    <3> QED
      BY <2>1, <2>3, <3>1 DEF WakeHasTimer
  <2> QED
    BY <1>2, <2>2, <2>3 DEF SetWake, Step
<1>3. ASSUME NEW w \in Workers, ArmTimer(w)
      PROVE  WakeHasTimer'
  <2>1. /\ worker[w].pc = "arm" /\ wake' = wake
        /\ timers' = timers \cup {<<worker[w].g, worker[w].then>>}
        /\ worker' = [worker EXCEPT ![w] = IdleWorker]
    BY <1>3 DEF ArmTimer, Step
  <2>2. \A v \in Workers : v # w => worker'[v] = worker[v]
    BY <1>1, <2>1
  <2> QED
    BY <2>1, <2>2 DEF WakeHasTimer
<1>4. ASSUME NEW g \in Groups, NEW m \in Msgs, FireTimer(g, m)
      PROVE  WakeHasTimer'
  <2>1. /\ timers' = timers \ {<<g, m>>} /\ worker' = worker
        /\ wake' = IF wake[g] = m THEN [wake EXCEPT ![g] = NoMsg] ELSE wake
    BY <1>4 DEF FireTimer
  <2>2. /\ wake'[g] # m
        /\ \A h \in Groups : h # g => wake'[h] = wake[h]
        /\ wake'[g] # NoMsg => wake'[g] = wake[g]
    BY <1>1, <2>1, Missing
  <2> QED
    BY <2>1, <2>2 DEF WakeHasTimer
<1>5. CASE WakesKept
  BY <1>5 DEF WakesKept, WakeHasTimer
<1> QED
  BY <1>2, <1>3, <1>4, <1>5, WakeSteps

(* A deadline in a group's wake word always has its callback in the wheel  *)
(* or a worker about to put it there, although scheduleWake sets the word  *)
(* before it arms the timer, the callback clears the word before it        *)
(* activates the group, and workers and callbacks of one group interleave. *)
THEOREM NoLostWake == Spec => []WakeHasTimer
<1>1. Init => WakeHasTimer
  BY DEF Init, WakeHasTimer
<1>2. Shapes /\ WakeHasTimer /\ [Next]_vars => WakeHasTimer'
  BY WakePreserved DEF Shapes
<1> QED
  BY <1>1, <1>2, ShapesAlways, PTL DEF Spec

-----------------------------------------------------------------------------
(* Deliveries under way, counted.                                          *)

(* The deliveries that h leaves unanswered, of one consumer and of all;    *)
(* the channels whose workers, by d, write to c; those that have taken     *)
(* from the broker's quota.                                                *)
Given(h, c) == UNION {{<<c, m, n>> : n \in 1..h[c][m]} : m \in Msgs}
AllGiven(h) == UNION {Given(h, c) : c \in Conns}
Writing(d, c) == {l \in Lanes : d[l].c = c /\ d[l].pc = "write"}
Counted(d) == {l \in Lanes : d[l].pc \in {"credit", "write"}}

(* CreditExact, with the finiteness that counting needs, from before the   *)
(* consumer subscribes: until then no dispatch worker has chosen it.       *)
CreditKept ==
  \A c \in Conns :
    /\ conn[c] = "away" => \A l \in Lanes : dispatcher[l].c # c
    /\ conn[c] \in {"away", "up"} =>
         /\ IsFiniteSet(Given(held, c)) /\ IsFiniteSet(Writing(dispatcher, c))
         /\ credit[c] = Cardinality(Given(held, c)) + Cardinality(Writing(dispatcher, c))

AllStay == \A c \in Conns : conn[c] \in {"away", "up"}

QuotaKept ==
  GlobalMax > 0 /\ AllStay =>
    /\ IsFiniteSet(AllGiven(held)) /\ IsFiniteSet(Counted(dispatcher))
    /\ quota <= GlobalMax
    /\ quota = Cardinality(AllGiven(held)) + Cardinality(Counted(dispatcher))

Holdings == [Conns -> [Msgs -> Nat]]

(* k is h with one delivery more, of message m to consumer c.              *)
Increases(h, k, c, m) ==
  /\ k[c][m] = h[c][m] + 1
  /\ \A d \in Conns, y \in Msgs : <<d, y>> # <<c, m>> => k[d][y] = h[d][y]

(* One more delivery is one more element.                                  *)
LEMMA OneMore ==
  ASSUME NEW h \in Holdings, NEW k \in Holdings, NEW c \in Conns, NEW m \in Msgs,
         Increases(h, k, c, m)
  PROVE  \E x : /\ x \notin Given(h, c) /\ Given(k, c) = Given(h, c) \cup {x}
                /\ x \notin AllGiven(h) /\ AllGiven(k) = AllGiven(h) \cup {x}
                /\ \A d \in Conns : d # c => Given(k, d) = Given(h, d)
<1> DEFINE x == <<c, m, h[c][m] + 1>>
<1>1. /\ k[c][m] = h[c][m] + 1 /\ h[c][m] \in Nat
      /\ \A d \in Conns, y \in Msgs : <<d, y>> # <<c, m>> => k[d][y] = h[d][y]
      /\ \A d \in Conns, y \in Msgs : h[d][y] \in Nat
  BY DEF Holdings, Increases
<1>2. ASSUME NEW d \in Conns, NEW y \in Msgs
      PROVE  {<<d, y, n>> : n \in 1..k[d][y]}
               = IF <<d, y>> = <<c, m>> THEN {<<d, y, n>> : n \in 1..h[d][y]} \cup {x}
                 ELSE {<<d, y, n>> : n \in 1..h[d][y]}
  <2>1. CASE <<d, y>> = <<c, m>>
    <3>1. d = c /\ y = m
      BY <2>1
    <3>2. \A n : n \in 1..(h[c][m] + 1) <=> n \in 1..h[c][m] \/ n = h[c][m] + 1
      BY <1>1
    <3> QED
      BY <1>1, <2>1, <3>1, <3>2
  <2>2. CASE <<d, y>> # <<c, m>>
    BY <1>1, <2>2
  <2> QED
    BY <2>1, <2>2
<1>3. \A d \in Conns, y \in Msgs : x \notin {<<d, y, n>> : n \in 1..h[d][y]}
  BY <1>1
<1> HIDE DEF x
<1>4. x \notin Given(h, c) /\ x \notin AllGiven(h)
  BY <1>3 DEF Given, AllGiven
<1>5. Given(k, c) = Given(h, c) \cup {x}
  BY <1>2 DEF Given
<1>6. ASSUME NEW d \in Conns, d # c
      PROVE  Given(k, d) = Given(h, d)
  BY <1>2, <1>6 DEF Given
<1>7. AllGiven(k) = AllGiven(h) \cup {x}
  BY <1>5, <1>6 DEF AllGiven
<1> QED
  BY <1>4, <1>5, <1>6, <1>7

(* One answer is one element less.                                         *)
LEMMA OneLess ==
  ASSUME NEW h \in Holdings, NEW k \in Holdings, NEW c \in Conns, NEW m \in Msgs,
         Increases(k, h, c, m)
  PROVE  \E x : /\ x \in Given(h, c) /\ Given(k, c) = Given(h, c) \ {x}
                /\ x \in AllGiven(h) /\ AllGiven(k) = AllGiven(h) \ {x}
                /\ \A d \in Conns : d # c => Given(k, d) = Given(h, d)
<1>1. PICK x : /\ x \notin Given(k, c) /\ Given(h, c) = Given(k, c) \cup {x}
               /\ x \notin AllGiven(k) /\ AllGiven(h) = AllGiven(k) \cup {x}
               /\ \A d \in Conns : d # c => Given(h, d) = Given(k, d)
  BY OneMore
<1>2. x \in Given(h, c) /\ Given(k, c) = Given(h, c) \ {x}
  BY <1>1
<1>3. x \in AllGiven(h) /\ AllGiven(k) = AllGiven(h) \ {x}
  BY <1>1
<1> QED
  BY <1>1, <1>2, <1>3

(* A dispatch worker's progress adds or removes its channel.               *)
LEMMA OneWorker ==
  ASSUME NEW d \in [Lanes -> DispatcherType], NEW e \in [Lanes -> DispatcherType],
         NEW l \in Lanes, \A k \in Lanes : k # l => e[k] = d[k]
  PROVE  /\ \A c : Writing(e, c) = IF e[l].c = c /\ e[l].pc = "write" THEN Writing(d, c) \cup {l}
                                   ELSE Writing(d, c) \ {l}
         /\ Counted(e) = IF e[l].pc \in {"credit", "write"} THEN Counted(d) \cup {l}
                         ELSE Counted(d) \ {l}
BY DEF Writing, Counted

LEMMA CountSteps ==
  ASSUME [Next]_vars
  PROVE  \/ \E l \in Lanes : DispatchStep(l)
         \/ \E c \in Conns : Subscribe(c)
         \/ \E c \in Conns, m \in Msgs : \E pc : Answer(c, m, pc)
         \/ \E c \in Conns : LeaveStep(c)
         \/ UNCHANGED <<dispatcher, countVars>>
<1>1. ASSUME NEW w \in Workers, ScheduleStep(w)
      PROVE  UNCHANGED <<dispatcher, countVars>>
  BY <1>1 DEF ScheduleStep, Take, Unschedule, Drain, HandOver, GoAgain, SetWake, ArmTimer
<1>2. CASE TimeStep
  BY Zenon, <1>2 DEF TimeStep, FireTimer, WakeUp, Sweep, SweepActivate, Lapse, LapseEarly
<1>3. CASE FrameStep
  BY Zenon, <1>3 DEF FrameStep, HandlerStep, Publish, TryDispatchOne, Notify, WALFails,
              ActivateNext, CompleteAndNext, FailAndNext, PublishLetter, ACK, NACK
<1>4. CASE UNCHANGED vars
  BY <1>4 DEF vars
<1> QED
  BY <1>1, <1>2, <1>3, <1>4, StepKinds

(* What a dispatch worker does to the counters, by its record before and   *)
(* after.                                                                  *)
CountsNothing(r, s) ==
  /\ r.pc \in {"idle", "quota", "return"} /\ s.pc \in {"idle", "quota", "return"}
  /\ s.c = r.c \/ s.c \notin Conns \/ conn[s.c] # "away"
  /\ UNCHANGED <<held, credit, quota>>

TakesQuota(r, s) ==
  /\ r.pc = "quota" /\ s.pc = "credit" /\ s.c = r.c
  /\ GlobalMax > 0 => quota < GlobalMax
  /\ quota' = Acquired /\ UNCHANGED <<held, credit>>

TakesCredit(r, s) ==
  /\ r.pc = "credit" /\ s.pc = "write" /\ s.c = r.c /\ r.c \in Conns
  /\ credit' = [credit EXCEPT ![r.c] = @ + 1] /\ UNCHANGED <<held, quota>>

ReturnsQuota(r, s) ==
  /\ r.pc = "credit" /\ s.pc = "return" /\ s.c = r.c
  /\ quota' = Released(1) /\ UNCHANGED <<held, credit>>

Delivers(r, s) ==
  /\ r.pc = "write" /\ s.pc = "idle" /\ s.c = NoConn /\ r.c \in Conns /\ r.m \in Msgs
  /\ held' = IF conn[r.c] = "up" THEN [held EXCEPT ![r.c][r.m] = @ + 1] ELSE held
  /\ UNCHANGED <<credit, quota>>

ReturnsBoth(r, s) ==
  /\ r.pc = "write" /\ s.pc = "return" /\ s.c = r.c /\ r.c \in Conns
  /\ credit' = [credit EXCEPT ![r.c] = @ - 1]
  /\ quota' = Released(1) /\ UNCHANGED held

DispatchKinds(r, s) == \/ CountsNothing(r, s) \/ TakesQuota(r, s) \/ TakesCredit(r, s)
                       \/ ReturnsQuota(r, s) \/ Delivers(r, s) \/ ReturnsBoth(r, s)

LEMMA DispatchStepKinds ==
  ASSUME TypeOK, NEW l \in Lanes, DispatchStep(l)
  PROVE  /\ UNCHANGED conn
         /\ \E r \in DispatcherType, s \in DispatcherType :
              /\ r = dispatcher[l] /\ dispatcher' = [dispatcher EXCEPT ![l] = s]
              /\ DispatchKinds(r, s)
<1> DEFINE r == dispatcher[l]
           s == dispatcher'[l]
<1>1. TypeOK'
  BY DispatchTyped
<1>2. /\ dispatcher \in [Lanes -> DispatcherType] /\ r \in DispatcherType
      /\ dispatcher' \in [Lanes -> DispatcherType] /\ s \in DispatcherType
  <2>1. dispatcher \in [Lanes -> DispatcherType]
    BY DEF TypeOK
  <2>2. dispatcher' \in [Lanes -> DispatcherType]
    BY <1>1 DEF TypeOK
  <2> QED
    BY <2>1, <2>2
<1>3. UNCHANGED conn
  BY DEF DispatchStep, Pick, TryAcquire, AcquireCredit, Write, WriteFails, GiveBack, countVars
<1>4. ASSUME NEW pc, Proceed(l, pc)
      PROVE  s.pc = pc /\ s.c = r.c /\ dispatcher' = [dispatcher EXCEPT ![l] = s]
  <2>1. dispatcher' = [dispatcher EXCEPT ![l] = [r EXCEPT !.pc = pc]]
    BY <1>2, <1>4 DEF Proceed
  <2>2. s = [r EXCEPT !.pc = pc]
    BY <1>2, <2>1
  <2>3. [r EXCEPT !.pc = pc].pc = pc /\ [r EXCEPT !.pc = pc].c = r.c
    BY <1>2 DEF DispatcherType
  <2> QED
    BY Zenon, <2>1, <2>2, <2>3
<1>5. ASSUME dispatcher' = [dispatcher EXCEPT ![l] = IdleDispatcher]
      PROVE  s.pc = "idle" /\ s.c = NoConn /\ dispatcher' = [dispatcher EXCEPT ![l] = s]
  <2>1. s = IdleDispatcher
    BY <1>2, <1>5
  <2>2. IdleDispatcher.pc = "idle" /\ IdleDispatcher.c = NoConn
    BY DEF IdleDispatcher
  <2> HIDE DEF s
  <2> QED
    BY <1>5, <2>1, <2>2
<1>6. r.pc = "write" => r.c \in Conns /\ r.m \in Msgs
  BY <1>2 DEF DispatcherType
<1>7. r.pc = "credit" => r.c \in Conns
  BY <1>2 DEF DispatcherType
<1>8. dispatcher' = [dispatcher EXCEPT ![l] = s] /\ DispatchKinds(r, s)
  <2>1. CASE Pick(l)
    <3> DEFINE m == Head(lane[l])
               S == Subscribers(HomeOf[m])
    <3>1. PICK t \in IF S = {} THEN {[pc |-> "return", m |-> m, c |-> NoConn]}
                      ELSE {[pc |-> "quota", m |-> m, c |-> c] : c \in S} :
            dispatcher' = [dispatcher EXCEPT ![l] = t]
      BY <2>1 DEF Pick
    <3>2. s = t
      BY <1>2, <3>1
    <3>3. S \subseteq {c \in Conns : conn[c] # "away"}
      BY DEF Subscribers, Registered
    <3>4. t.pc \in {"quota", "return"} /\ (t.c = NoConn \/ t.c \in S)
      <4> HIDE DEF m, S
      <4> QED
        BY <3>1
    <3>5. t.c \notin Conns \/ conn[t.c] # "away"
      BY <3>3, <3>4, Missing
    <3>6. r.pc = "idle" /\ UNCHANGED <<held, credit, quota>>
      BY <2>1 DEF Pick, countVars
    <3> HIDE DEF r, s
    <3> QED
      BY <3>1, <3>2, <3>4, <3>5, <3>6 DEF DispatchKinds, CountsNothing
  <2>2. CASE TryAcquire(l)
    <3>1. CASE Proceed(l, "return") /\ UNCHANGED quota
      <4>1. r.pc = "quota" /\ UNCHANGED <<held, credit, quota>>
        BY <2>2, <3>1 DEF TryAcquire
      <4>2. s.pc = "return" /\ s.c = r.c /\ dispatcher' = [dispatcher EXCEPT ![l] = s]
        BY <1>4, <3>1
      <4> HIDE DEF r, s
      <4> QED
        BY <4>1, <4>2 DEF DispatchKinds, CountsNothing
    <3>2. CASE ~(GlobalMax > 0 /\ quota >= GlobalMax) /\ Proceed(l, "credit") /\ quota' = Acquired
      <4>1. r.pc = "quota" /\ UNCHANGED <<held, credit>>
        BY <2>2 DEF TryAcquire
      <4>2. s.pc = "credit" /\ s.c = r.c /\ dispatcher' = [dispatcher EXCEPT ![l] = s]
        BY <1>4, <3>2
      <4>3. GlobalMax > 0 => quota < GlobalMax
        BY <3>2, Limits DEF TypeOK
      <4> HIDE DEF r, s
      <4> QED
        BY <3>2, <4>1, <4>2, <4>3 DEF DispatchKinds, TakesQuota
    <3> QED
      BY <2>2, <3>1, <3>2 DEF TryAcquire
  <2>3. CASE AcquireCredit(l)
    <3>1. CASE Proceed(l, "return") /\ quota' = Released(1) /\ UNCHANGED credit
      <4>1. r.pc = "credit" /\ UNCHANGED held
        BY <2>3 DEF AcquireCredit
      <4>2. s.pc = "return" /\ s.c = r.c /\ dispatcher' = [dispatcher EXCEPT ![l] = s]
        BY <1>4, <3>1
      <4> HIDE DEF r, s
      <4> QED
        BY <3>1, <4>1, <4>2 DEF DispatchKinds, ReturnsQuota
    <3>2. CASE /\ Proceed(l, "write") /\ UNCHANGED quota
               /\ credit' = [credit EXCEPT ![r.c] = @ + 1]
      <4>1. r.pc = "credit" /\ UNCHANGED held
        BY <2>3 DEF AcquireCredit
      <4>2. s.pc = "write" /\ s.c = r.c /\ dispatcher' = [dispatcher EXCEPT ![l] = s]
        BY <1>4, <3>2
      <4> HIDE DEF r, s
      <4> QED
        BY <1>7, <3>2, <4>1, <4>2 DEF DispatchKinds, TakesCredit
    <3> QED
      BY <2>3, <3>1, <3>2 DEF AcquireCredit
  <2>4. CASE Write(l)
    <3>1. /\ r.pc = "write" /\ UNCHANGED <<credit, quota>>
          /\ held' = IF conn[r.c] = "up" THEN [held EXCEPT ![r.c][r.m] = @ + 1] ELSE held
      BY <2>4 DEF Write
    <3>2. s.pc = "idle" /\ s.c = NoConn /\ dispatcher' = [dispatcher EXCEPT ![l] = s]
      BY <1>5, <2>4 DEF Write
    <3> HIDE DEF r, s
    <3> QED
      BY <1>6, <3>1, <3>2 DEF DispatchKinds, Delivers
  <2>5. CASE WriteFails(l)
    <3>1. /\ r.pc = "write" /\ UNCHANGED held /\ quota' = Released(1)
          /\ credit' = [credit EXCEPT ![r.c] = @ - 1]
      BY <2>5 DEF WriteFails
    <3>2. s.pc = "return" /\ s.c = r.c /\ dispatcher' = [dispatcher EXCEPT ![l] = s]
      BY <1>4, <2>5 DEF WriteFails
    <3> HIDE DEF r, s
    <3> QED
      BY <1>6, <3>1, <3>2 DEF DispatchKinds, ReturnsBoth
  <2>6. CASE GiveBack(l)
    <3>1. r.pc = "return" /\ UNCHANGED <<held, credit, quota>>
      BY <2>6 DEF GiveBack, countVars
    <3>2. s.pc = "idle" /\ s.c = NoConn /\ dispatcher' = [dispatcher EXCEPT ![l] = s]
      BY <1>5, <2>6 DEF GiveBack
    <3> HIDE DEF r, s
    <3> QED
      BY <3>1, <3>2, Missing DEF DispatchKinds, CountsNothing
  <2> QED
    BY <2>1, <2>2, <2>3, <2>4, <2>5, <2>6 DEF DispatchStep
<1> QED
  BY <1>2, <1>3, <1>8

(* The number of elements of a finite set to which x is added, or from     *)
(* which it is removed.                                                    *)
LEMMA Count ==
  ASSUME NEW S, IsFiniteSet(S), NEW x
  PROVE  /\ Cardinality(S) \in Nat
         /\ IsFiniteSet(S \cup {x}) /\ IsFiniteSet(S \ {x})
         /\ Cardinality(S \cup {x}) = IF x \in S THEN Cardinality(S) ELSE Cardinality(S) + 1
         /\ Cardinality(S \ {x}) = IF x \in S THEN Cardinality(S) - 1 ELSE Cardinality(S)
BY FS_CardinalityType, FS_AddElement, FS_RemoveElement

(* Every step of a dispatch worker keeps the credit counters exact.        *)
LEMMA CreditDispatch ==
  ASSUME TypeOK, CreditKept, NEW l \in Lanes, DispatchStep(l)
  PROVE  CreditKept'
<1>1. UNCHANGED conn
  BY DispatchStepKinds
<1>2. PICK r \in DispatcherType, s \in DispatcherType :
        /\ r = dispatcher[l] /\ dispatcher' = [dispatcher EXCEPT ![l] = s]
        /\ DispatchKinds(r, s)
  BY DispatchStepKinds
<1>3. /\ dispatcher \in [Lanes -> DispatcherType] /\ credit \in [Conns -> Int]
      /\ held \in Holdings
  BY DEF TypeOK, Holdings
<1> SUFFICES ASSUME NEW c \in Conns
             PROVE  /\ conn[c] = "away" => \A k \in Lanes : dispatcher'[k].c # c
                    /\ conn[c] \in {"away", "up"} =>
                         /\ IsFiniteSet(Given(held', c)) /\ IsFiniteSet(Writing(dispatcher', c))
                         /\ credit'[c] = Cardinality(Given(held', c))
                                           + Cardinality(Writing(dispatcher', c))
  BY Zenon, <1>1 DEF CreditKept, Given, Writing
<1>4. /\ conn[c] = "away" => \A k \in Lanes : dispatcher[k].c # c
      /\ conn[c] \in {"away", "up"} =>
           /\ IsFiniteSet(Given(held, c)) /\ IsFiniteSet(Writing(dispatcher, c))
           /\ credit[c] = Cardinality(Given(held, c)) + Cardinality(Writing(dispatcher, c))
  BY DEF CreditKept
<1>5. Writing(dispatcher', c) = IF s.c = c /\ s.pc = "write" THEN Writing(dispatcher, c) \cup {l}
                               ELSE Writing(dispatcher, c) \ {l}
  <2>1. dispatcher' \in [Lanes -> DispatcherType] /\ dispatcher'[l] = s
        /\ \A k \in Lanes : k # l => dispatcher'[k] = dispatcher[k]
    BY <1>2, <1>3
  <2> QED
    BY <1>3, <2>1, OneWorker
<1>6. l \in Writing(dispatcher, c) <=> r.c = c /\ r.pc = "write"
  BY <1>2 DEF Writing
<1>7. ASSUME conn[c] = "away", NEW k \in Lanes
      PROVE  dispatcher'[k].c # c
  <2>1. s.c # c
    <3>1. s.c = r.c \/ s.c \notin Conns \/ conn[s.c] # "away"
      BY <1>2, Missing DEF DispatchKinds, CountsNothing, TakesQuota, TakesCredit, ReturnsQuota,
                  Delivers, ReturnsBoth
    <3>2. r.c # c
      BY <1>2, <1>4, <1>7
    <3> QED
      BY <1>7, <3>1, <3>2
  <2>2. dispatcher'[k] = IF k = l THEN s ELSE dispatcher[k]
    BY <1>2, <1>3
  <2> QED
    BY <1>4, <1>7, <2>1, <2>2
<1>8. ASSUME conn[c] \in {"away", "up"}
      PROVE  /\ IsFiniteSet(Given(held', c)) /\ IsFiniteSet(Writing(dispatcher', c))
             /\ credit'[c] = Cardinality(Given(held', c)) + Cardinality(Writing(dispatcher', c))
  <2>1. /\ IsFiniteSet(Given(held, c)) /\ IsFiniteSet(Writing(dispatcher, c))
        /\ credit[c] = Cardinality(Given(held, c)) + Cardinality(Writing(dispatcher, c))
    BY <1>4, <1>8
  <2>2. /\ IsFiniteSet(Writing(dispatcher', c))
        /\ Cardinality(Writing(dispatcher, c)) \in Nat /\ Cardinality(Given(held, c)) \in Nat
        /\ Cardinality(Writing(dispatcher', c)) = Cardinality(Writing(dispatcher, c))
             + (IF s.c = c /\ s.pc = "write" THEN 1 ELSE 0)
             - (IF r.c = c /\ r.pc = "write" THEN 1 ELSE 0)
    <3> DEFINE W == Writing(dispatcher, c)
    <3>1. /\ Cardinality(W) \in Nat /\ IsFiniteSet(W \cup {l}) /\ IsFiniteSet(W \ {l})
          /\ Cardinality(W \cup {l}) = IF l \in W THEN Cardinality(W) ELSE Cardinality(W) + 1
          /\ Cardinality(W \ {l}) = IF l \in W THEN Cardinality(W) - 1 ELSE Cardinality(W)
      BY Zenon, <2>1, Count
    <3>2. Cardinality(Given(held, c)) \in Nat
      BY <2>1, FS_CardinalityType
    <3>3. ~(s.c = c /\ s.pc = "write" /\ r.c = c /\ r.pc = "write")
      BY <1>2 DEF DispatchKinds, CountsNothing, TakesQuota, TakesCredit, ReturnsQuota,
                  Delivers, ReturnsBoth
    <3> HIDE DEF W
    <3>4. W = Writing(dispatcher, c)
      BY DEF W
    <3> QED
      BY <1>5, <1>6, <3>1, <3>2, <3>3, <3>4
  <2>3. CASE CountsNothing(r, s)
    BY <2>1, <2>2, <2>3 DEF CountsNothing
  <2>4. CASE TakesQuota(r, s)
    BY <2>1, <2>2, <2>4 DEF TakesQuota
  <2>5. CASE TakesCredit(r, s)
    BY <1>3, <2>1, <2>2, <2>5 DEF TakesCredit
  <2>6. CASE ReturnsQuota(r, s)
    BY <2>1, <2>2, <2>6 DEF ReturnsQuota
  <2>7. CASE ReturnsBoth(r, s)
    BY <1>3, <2>1, <2>2, <2>7 DEF ReturnsBoth
  <2>8. CASE Delivers(r, s)
    <3>1. s.pc = "idle" /\ r.pc = "write" /\ r.c \in Conns /\ r.m \in Msgs /\ credit' = credit
      BY <2>8 DEF Delivers
    <3>2. CASE conn[r.c] = "up"
      <4>1. held' = [held EXCEPT ![r.c][r.m] = @ + 1]
        BY <2>8, <3>2 DEF Delivers
      <4>2. held' \in Holdings /\ Increases(held, held', r.c, r.m)
        BY <1>3, <3>1, <4>1 DEF Holdings, Increases
      <4>3. PICK x : /\ x \notin Given(held, r.c) /\ Given(held', r.c) = Given(held, r.c) \cup {x}
                     /\ \A d \in Conns : d # r.c => Given(held', d) = Given(held, d)
        BY <1>3, <3>1, <4>2, OneMore
      <4>4. CASE r.c = c
        <5>1. /\ IsFiniteSet(Given(held', c))
              /\ Cardinality(Given(held', c)) = Cardinality(Given(held, c)) + 1
          BY <2>1, <4>3, <4>4, Count
        <5> QED
          BY <2>1, <2>2, <3>1, <4>4, <5>1
      <4>5. CASE r.c # c
        BY <2>1, <2>2, <3>1, <4>3, <4>5
      <4> QED
        BY <4>4, <4>5
    <3>3. CASE conn[r.c] # "up"
      <4>1. held' = held
        BY <2>8, <3>3 DEF Delivers
      <4>2. r.c # c
        BY <1>2, <1>4, <1>8, <3>3
      <4> QED
        BY <2>1, <2>2, <3>1, <4>1, <4>2
    <3> QED
      BY <3>2, <3>3
  <2> QED
    BY <1>2, <2>3, <2>4, <2>5, <2>6, <2>7, <2>8 DEF DispatchKinds
<1> QED
  BY <1>7, <1>8

(* An answer takes one delivery from what was given.                       *)
LEMMA AnswerTakes ==
  ASSUME TypeOK, NEW c \in Conns, NEW m \in Msgs, NEW pc, Answer(c, m, pc)
  PROVE  /\ conn' = conn /\ dispatcher' = dispatcher /\ conn[c] = "up"
         /\ credit' = [credit EXCEPT ![c] = @ - 1] /\ quota' = Released(1)
         /\ \E x : /\ x \in Given(held, c) /\ Given(held', c) = Given(held, c) \ {x}
                   /\ x \in AllGiven(held) /\ AllGiven(held') = AllGiven(held) \ {x}
                   /\ \A d \in Conns : d # c => Given(held', d) = Given(held, d)
<1>1. held \in Holdings
  BY DEF TypeOK, Holdings
<1>2. /\ conn' = conn /\ dispatcher' = dispatcher /\ conn[c] = "up"
      /\ credit' = [credit EXCEPT ![c] = @ - 1] /\ quota' = Released(1)
      /\ held[c][m] > 0 /\ held' = [held EXCEPT ![c][m] = @ - 1]
  BY DEF Answer
<1>3. held' \in Holdings /\ Increases(held', held, c, m)
  BY <1>1, <1>2 DEF Holdings, Increases
<1>4. \E x : /\ x \in Given(held, c) /\ Given(held', c) = Given(held, c) \ {x}
             /\ x \in AllGiven(held) /\ AllGiven(held') = AllGiven(held) \ {x}
             /\ \A d \in Conns : d # c => Given(held', d) = Given(held, d)
  BY <1>1, <1>3, OneLess
<1> QED
  BY Zenon, <1>2, <1>4

LEMMA CreditPreserved ==
  ASSUME TypeOK, CreditKept, [Next]_vars
  PROVE  CreditKept'
<1>1. /\ conn \in [Conns -> {"away", "up", "leaving", "removed", "closed"}]
      /\ credit \in [Conns -> Int] /\ held \in Holdings
  BY DEF TypeOK, Holdings
<1>2. ASSUME NEW c \in Conns, Subscribe(c)
      PROVE  CreditKept'
  <2>1. /\ conn[c] = "away" /\ conn' = [conn EXCEPT ![c] = "up"]
        /\ dispatcher' = dispatcher /\ held' = held /\ credit' = credit
    BY <1>2 DEF Subscribe
  <2>2. \A d \in Conns : conn'[d] = IF d = c THEN "up" ELSE conn[d]
    BY <1>1, <2>1
  <2> QED
    BY <2>1, <2>2 DEF CreditKept, Given, Writing
<1>3. ASSUME NEW c \in Conns, NEW m \in Msgs, NEW pc, Answer(c, m, pc)
      PROVE  CreditKept'
  <2>1. /\ conn' = conn /\ dispatcher' = dispatcher /\ conn[c] = "up"
        /\ credit' = [credit EXCEPT ![c] = @ - 1]
    BY <1>3, AnswerTakes
  <2>2. PICK x : /\ x \in Given(held, c) /\ Given(held', c) = Given(held, c) \ {x}
                 /\ \A d \in Conns : d # c => Given(held', d) = Given(held, d)
    BY <1>3, AnswerTakes
  <2> SUFFICES ASSUME NEW d \in Conns
               PROVE  /\ conn'[d] = "away" => \A k \in Lanes : dispatcher'[k].c # d
                      /\ conn'[d] \in {"away", "up"} =>
                           /\ IsFiniteSet(Given(held', d)) /\ IsFiniteSet(Writing(dispatcher', d))
                           /\ credit'[d] = Cardinality(Given(held', d))
                                             + Cardinality(Writing(dispatcher', d))
    BY Zenon DEF CreditKept, Given, Writing
  <2>3. /\ conn[d] = "away" => \A k \in Lanes : dispatcher[k].c # d
        /\ conn[d] \in {"away", "up"} =>
             /\ IsFiniteSet(Given(held, d)) /\ IsFiniteSet(Writing(dispatcher, d))
             /\ credit[d] = Cardinality(Given(held, d)) + Cardinality(Writing(dispatcher, d))
    BY DEF CreditKept
  <2>4. CASE d = c
    <3>1. IsFiniteSet(Given(held, c)) /\ IsFiniteSet(Writing(dispatcher, c))
      BY <2>1, <2>3, <2>4
    <3>2. /\ IsFiniteSet(Given(held', c)) /\ Cardinality(Given(held, c)) \in Nat
          /\ Cardinality(Given(held', c)) = Cardinality(Given(held, c)) - 1
      BY <2>2, <3>1, Count
    <3>3. Cardinality(Writing(dispatcher, c)) \in Nat
      BY <3>1, FS_CardinalityType
    <3>4. credit'[c] = credit[c] - 1
      BY <1>1, <2>1
    <3> QED
      BY <2>1, <2>3, <2>4, <3>1, <3>2, <3>3, <3>4
  <2>5. CASE d # c
    <3>1. credit'[d] = credit[d] /\ Given(held', d) = Given(held, d)
      BY <1>1, <2>1, <2>2, <2>5
    <3> QED
      BY <2>1, <2>3, <3>1
  <2> QED
    BY <2>4, <2>5
<1>4. ASSUME NEW c \in Conns, LeaveStep(c)
      PROVE  CreditKept'
  <2>1. /\ dispatcher' = dispatcher /\ credit' = credit
        /\ conn'[c] \in {"leaving", "removed", "closed"}
        /\ \A d \in Conns : d # c => conn'[d] = conn[d] /\ held'[d] = held[d]
    <3>1. CASE Leave(c)
      BY <1>1, <3>1 DEF Leave, Holdings
    <3>2. CASE Unregister(c)
      BY <1>1, <3>2 DEF Unregister
    <3>3. CASE Close(c)
      BY <1>1, <3>3 DEF Close
    <3> QED
      BY <1>4, <3>1, <3>2, <3>3 DEF LeaveStep
  <2>2. \A d \in Conns : d # c => Given(held', d) = Given(held, d)
    BY <2>1 DEF Given
  <2> SUFFICES ASSUME NEW d \in Conns
               PROVE  /\ conn'[d] = "away" => \A k \in Lanes : dispatcher'[k].c # d
                      /\ conn'[d] \in {"away", "up"} =>
                           /\ IsFiniteSet(Given(held', d)) /\ IsFiniteSet(Writing(dispatcher', d))
                           /\ credit'[d] = Cardinality(Given(held', d))
                                            + Cardinality(Writing(dispatcher', d))
    BY DEF CreditKept, Given, Writing
  <2> QED
    BY <2>1, <2>2 DEF CreditKept
<1>5. ASSUME UNCHANGED <<dispatcher, countVars>>
      PROVE  CreditKept'
  <2>1. conn' = conn /\ dispatcher' = dispatcher /\ held' = held /\ credit' = credit
    BY <1>5 DEF countVars
  <2> SUFFICES ASSUME NEW d \in Conns
               PROVE  /\ conn'[d] = "away" => \A k \in Lanes : dispatcher'[k].c # d
                      /\ conn'[d] \in {"away", "up"} =>
                           /\ IsFiniteSet(Given(held', d)) /\ IsFiniteSet(Writing(dispatcher', d))
                           /\ credit'[d] = Cardinality(Given(held', d))
                                            + Cardinality(Writing(dispatcher', d))
    BY DEF CreditKept, Given, Writing
  <2> QED
    BY <2>1 DEF CreditKept
<1> QED
  BY <1>2, <1>3, <1>4, <1>5, CountSteps, CreditDispatch

(* Every step of a dispatch worker keeps the broker's counter exact.       *)
LEMMA QuotaDispatch ==
  ASSUME TypeOK, CreditKept, QuotaKept, NEW l \in Lanes, DispatchStep(l)
  PROVE  QuotaKept'
<1>1. UNCHANGED conn
  BY DispatchStepKinds
<1>2. PICK r \in DispatcherType, s \in DispatcherType :
        /\ r = dispatcher[l] /\ dispatcher' = [dispatcher EXCEPT ![l] = s]
        /\ DispatchKinds(r, s)
  BY DispatchStepKinds
<1>3. /\ dispatcher \in [Lanes -> DispatcherType] /\ quota \in Int /\ GlobalMax \in Nat
      /\ held \in Holdings
  BY Limits DEF TypeOK, Holdings
<1> SUFFICES ASSUME GlobalMax > 0, AllStay
             PROVE  /\ IsFiniteSet(AllGiven(held')) /\ IsFiniteSet(Counted(dispatcher'))
                    /\ quota' <= GlobalMax
                    /\ quota' = Cardinality(AllGiven(held')) + Cardinality(Counted(dispatcher'))
  BY Zenon, <1>1 DEF QuotaKept, AllStay, AllGiven, Given, Counted
<1>4. /\ IsFiniteSet(AllGiven(held)) /\ IsFiniteSet(Counted(dispatcher))
      /\ quota <= GlobalMax
      /\ quota = Cardinality(AllGiven(held)) + Cardinality(Counted(dispatcher))
  BY DEF QuotaKept
<1>5. Counted(dispatcher') = IF s.pc \in {"credit", "write"} THEN Counted(dispatcher) \cup {l}
                            ELSE Counted(dispatcher) \ {l}
  <2>1. dispatcher' \in [Lanes -> DispatcherType] /\ dispatcher'[l] = s
        /\ \A k \in Lanes : k # l => dispatcher'[k] = dispatcher[k]
    BY <1>2, <1>3
  <2> QED
    BY <1>3, <2>1, OneWorker
<1>6. l \in Counted(dispatcher) <=> r.pc \in {"credit", "write"}
  BY <1>2 DEF Counted
<1>7. /\ IsFiniteSet(Counted(dispatcher')) /\ Cardinality(Counted(dispatcher)) \in Nat
      /\ r.pc \in {"credit", "write"} /\ s.pc \notin {"credit", "write"} =>
           Cardinality(Counted(dispatcher')) = Cardinality(Counted(dispatcher)) - 1
      /\ r.pc \notin {"credit", "write"} /\ s.pc \in {"credit", "write"} =>
           Cardinality(Counted(dispatcher')) = Cardinality(Counted(dispatcher)) + 1
      /\ (r.pc \in {"credit", "write"} <=> s.pc \in {"credit", "write"}) =>
           Cardinality(Counted(dispatcher')) = Cardinality(Counted(dispatcher))
  <2> DEFINE W == Counted(dispatcher)
  <2>1. /\ Cardinality(W) \in Nat /\ IsFiniteSet(W \cup {l}) /\ IsFiniteSet(W \ {l})
        /\ Cardinality(W \cup {l}) = IF l \in W THEN Cardinality(W) ELSE Cardinality(W) + 1
        /\ Cardinality(W \ {l}) = IF l \in W THEN Cardinality(W) - 1 ELSE Cardinality(W)
    BY Zenon, <1>4, Count
  <2>2. W = Counted(dispatcher)
    OBVIOUS
  <2> HIDE DEF W
  <2> QED
    BY <1>5, <1>6, <2>1, <2>2
<1>8. Cardinality(AllGiven(held)) \in Nat
  BY <1>4, FS_CardinalityType
<1>9. CASE CountsNothing(r, s)
  BY <1>4, <1>7, <1>9 DEF CountsNothing
<1>10. CASE TakesQuota(r, s)
  <2>1. quota < GlobalMax /\ quota' = quota + 1 /\ held' = held
    BY <1>10 DEF TakesQuota, Acquired
  <2>2. Cardinality(Counted(dispatcher')) = Cardinality(Counted(dispatcher)) + 1
    BY <1>7, <1>10 DEF TakesQuota
  <2> QED
    BY <1>3, <1>4, <1>7, <1>8, <2>1, <2>2
<1>11. CASE TakesCredit(r, s)
  BY <1>4, <1>7, <1>11 DEF TakesCredit
<1>12. CASE ReturnsQuota(r, s) \/ ReturnsBoth(r, s)
  <2>1. quota' = quota - 1 /\ held' = held
    BY <1>12 DEF ReturnsQuota, ReturnsBoth, Released
  <2>2. Cardinality(Counted(dispatcher')) = Cardinality(Counted(dispatcher)) - 1
    BY <1>7, <1>12 DEF ReturnsQuota, ReturnsBoth
  <2>3. IsFiniteSet(Counted(dispatcher')) /\ Cardinality(Counted(dispatcher)) \in Nat
    BY <1>7
  <2>4. quota' <= GlobalMax
    BY <1>3, <1>4, <2>1
  <2>5. IsFiniteSet(AllGiven(held')) /\ AllGiven(held') = AllGiven(held)
    BY <1>4, <2>1
  <2>6. quota - 1 = Cardinality(AllGiven(held)) + (Cardinality(Counted(dispatcher)) - 1)
    BY <1>4, <1>8, <2>3
  <2> QED
    BY <2>1, <2>2, <2>3, <2>4, <2>5, <2>6
<1>13. CASE Delivers(r, s)
  <2>1. /\ r.pc = "write" /\ s.pc = "idle" /\ r.c \in Conns /\ r.m \in Msgs /\ quota' = quota
    BY <1>13 DEF Delivers
  <2>2. conn[r.c] = "up"
    BY <1>2, <2>1 DEF CreditKept, AllStay
  <2>3. held' = [held EXCEPT ![r.c][r.m] = @ + 1]
    BY <1>13, <2>2 DEF Delivers
  <2>4. held' \in Holdings /\ Increases(held, held', r.c, r.m)
    BY <1>3, <2>1, <2>3 DEF Holdings, Increases
  <2>5. PICK x : x \notin AllGiven(held) /\ AllGiven(held') = AllGiven(held) \cup {x}
    BY <1>3, <2>1, <2>4, OneMore
  <2>6. /\ IsFiniteSet(AllGiven(held'))
        /\ Cardinality(AllGiven(held')) = Cardinality(AllGiven(held)) + 1
    BY <1>4, <2>5, Count
  <2>7. Cardinality(Counted(dispatcher')) = Cardinality(Counted(dispatcher)) - 1
    BY <1>7, <2>1
  <2> QED
    BY <1>3, <1>4, <1>7, <1>8, <2>1, <2>6, <2>7
<1> QED
  BY <1>2, <1>9, <1>10, <1>11, <1>12, <1>13 DEF DispatchKinds

LEMMA QuotaPreserved ==
  ASSUME TypeOK, CreditKept, QuotaKept, [Next]_vars
  PROVE  QuotaKept'
<1>1. /\ conn \in [Conns -> {"away", "up", "leaving", "removed", "closed"}] /\ quota \in Int
      /\ GlobalMax \in Nat
  BY BrokerAssumption DEF TypeOK
<1>2. ASSUME NEW c \in Conns, Subscribe(c)
      PROVE  QuotaKept'
  <2>1. /\ conn[c] = "away" /\ conn' = [conn EXCEPT ![c] = "up"]
        /\ dispatcher' = dispatcher /\ held' = held /\ quota' = quota
    BY <1>2 DEF Subscribe
  <2>2. AllStay' => AllStay
    BY <1>1, <2>1 DEF AllStay
  <2> QED
    BY <2>1, <2>2 DEF QuotaKept, AllGiven, Given, Counted
<1>3. ASSUME NEW c \in Conns, NEW m \in Msgs, NEW pc, Answer(c, m, pc)
      PROVE  QuotaKept'
  <2>1. conn' = conn /\ dispatcher' = dispatcher /\ quota' = Released(1)
    BY <1>3, AnswerTakes
  <2>2. PICK x : x \in AllGiven(held) /\ AllGiven(held') = AllGiven(held) \ {x}
    BY <1>3, AnswerTakes
  <2> SUFFICES ASSUME GlobalMax > 0, AllStay
               PROVE  /\ IsFiniteSet(AllGiven(held')) /\ IsFiniteSet(Counted(dispatcher))
                      /\ quota' <= GlobalMax
                      /\ quota' = Cardinality(AllGiven(held')) + Cardinality(Counted(dispatcher))
    BY <2>1 DEF QuotaKept, AllStay, AllGiven, Given, Counted
  <2>3. /\ IsFiniteSet(AllGiven(held)) /\ IsFiniteSet(Counted(dispatcher))
        /\ quota <= GlobalMax
        /\ quota = Cardinality(AllGiven(held)) + Cardinality(Counted(dispatcher))
    BY DEF QuotaKept
  <2>4. quota' = quota - 1
    BY <2>1 DEF Released
  <2>5. /\ IsFiniteSet(AllGiven(held')) /\ Cardinality(AllGiven(held)) \in Nat
        /\ Cardinality(AllGiven(held')) = Cardinality(AllGiven(held)) - 1
    <3>1. IsFiniteSet(AllGiven(held))
      BY <2>3
    <3> QED
      BY <2>2, <3>1, Count
  <2>6. Cardinality(Counted(dispatcher)) \in Nat
    BY <2>3, FS_CardinalityType
  <2> QED
    BY <1>1, <2>3, <2>4, <2>5, <2>6
<1>4. ASSUME NEW c \in Conns, LeaveStep(c)
      PROVE  QuotaKept'
  <2>1. conn'[c] \in {"leaving", "removed", "closed"}
    BY <1>1, <1>4 DEF LeaveStep, Leave, Unregister, Close
  <2> QED
    BY <2>1 DEF QuotaKept, AllStay
<1>5. CASE UNCHANGED <<dispatcher, countVars>>
  BY <1>5 DEF countVars, QuotaKept, AllStay, AllGiven, Given, Counted
<1> QED
  BY <1>2, <1>3, <1>4, <1>5, CountSteps, QuotaDispatch

LEMMA CountsInitially ==
  ASSUME Init
  PROVE  CreditKept /\ QuotaKept
<1>1. /\ \A l \in Lanes : dispatcher[l] = IdleDispatcher
      /\ \A c \in Conns : conn[c] = "away" /\ credit[c] = 0 /\ \A m \in Msgs : held[c][m] = 0
      /\ quota = 0
  BY DEF Init
<1>2. IdleDispatcher.pc = "idle" /\ IdleDispatcher.c = NoConn
  BY DEF IdleDispatcher
<1>3. \A c \in Conns : Given(held, c) = {}
  <2>1. 1..0 = {}
    OBVIOUS
  <2> QED
    BY <1>1, <2>1 DEF Given
<1>4. AllGiven(held) = {}
  BY <1>3 DEF AllGiven
<1>5. Counted(dispatcher) = {} /\ \A c \in Conns : Writing(dispatcher, c) = {}
  BY <1>1, <1>2 DEF Counted, Writing
<1>6. IsFiniteSet({}) /\ Cardinality({}) = 0
  BY FS_EmptySet
<1>7. CreditKept
  <2> SUFFICES ASSUME NEW c \in Conns
               PROVE  /\ \A l \in Lanes : dispatcher[l].c # c
                      /\ IsFiniteSet(Given(held, c)) /\ IsFiniteSet(Writing(dispatcher, c))
                      /\ credit[c] = Cardinality(Given(held, c)) + Cardinality(Writing(dispatcher, c))
    BY DEF CreditKept
  <2>1. \A l \in Lanes : dispatcher[l].c # c
    BY <1>1, <1>2, Missing
  <2>2. Given(held, c) = {} /\ Writing(dispatcher, c) = {} /\ credit[c] = 0
    BY <1>1, <1>3, <1>5
  <2> QED
    BY <1>6, <2>1, <2>2
<1>8. QuotaKept
  BY <1>1, <1>4, <1>5, <1>6, Limits DEF QuotaKept
<1> QED
  BY <1>7, <1>8

(* While its consumer stays, a connection's credit counter is the number   *)
(* of messages it was given and has not answered or is about to be given:  *)
(* dispatch's AcquireCredit and ReleaseCredit and those of onACK and       *)
(* onNACK balance on every path.                                           *)
THEOREM CreditBalances == Spec => []CreditExact
<1>1. Init => CreditKept
  BY CountsInitially
<1>2. TypeOK /\ CreditKept /\ [Next]_vars => CreditKept'
  BY CreditPreserved
<1>3. CreditKept => CreditExact
  BY DEF CreditKept, CreditExact, Unanswered, Reserved, DeliveriesTo, Given, Writing
<1> QED
  BY <1>1, <1>2, <1>3, TypeCorrect, PTL DEF Spec

(* While all consumers stay, the broker's in-flight counter is within its  *)
(* limit and is the number of deliveries unanswered or under way: what     *)
(* dispatch takes from brokerQuota it returns on every path.               *)
THEOREM QuotaBalances == Spec => []QuotaExact
<1>1. Init => CreditKept /\ QuotaKept
  BY CountsInitially
<1>2. TypeOK /\ CreditKept /\ [Next]_vars => CreditKept'
  BY CreditPreserved
<1>3. TypeOK /\ CreditKept /\ QuotaKept /\ [Next]_vars => QuotaKept'
  BY QuotaPreserved
<1>4. QuotaKept => QuotaExact
  BY DEF QuotaKept, AllStay, QuotaExact, AllUnanswered, DeliveriesTo, AllGiven, Given, Counted
<1> QED
  BY <1>1, <1>2, <1>3, <1>4, TypeCorrect, PTL DEF Spec
=============================================================================
