---------------------------- MODULE BrokerSteps -----------------------------
(***************************************************************************)
(* What the steps of Broker preserve, one kind of step at a time: the      *)
(* shapes of its variables, the activation channel, the wake-ups, and what *)
(* they add to or remove from the deliveries under way.                    *)
(***************************************************************************)
EXTENDS Broker, TLAPS

Places == {"new", "pending", "leased", "delayed", "done", "dead"}
Handlers == Conns \cup {Producer}

(* A dead letter is being published by one handler at most, for a message  *)
(* that has died, and has not been published before.  Without it a letter  *)
(* might be put back in the pending ones under a deadline that has passed. *)
LettersOnce ==
  /\ \A h \in Handlers : handler[h].lost # NoMsg =>
       /\ place[handler[h].lost] = "new"
       /\ \E m \in Msgs : Letter[m] = handler[h].lost /\ place[m] = "dead"
  /\ \A h, k \in Handlers :
       handler[h].lost = handler[k].lost /\ handler[h].lost # NoMsg => h = k
  /\ \A m \in Msgs : Letter[m] # NoMsg /\ place[Letter[m]] # "new" => place[m] = "dead"

Shapes == TypeOK /\ LettersOnce

(* What these lemmas need to know of the size of a batch; BrokerProofs     *)
(* has it from the finiteness of Msgs.                                     *)
SizesAreNumbers == \A B \in SUBSET Msgs : Cardinality(B) \in Nat

(* The assumption on the constants, taken apart.                           *)
LEMMA Limits ==
  /\ LaneCap \in Nat \ {0} /\ ActiveCap \in Nat \ {0}
  /\ GlobalMax \in Nat /\ MaxMishaps \in Nat
BY BrokerAssumption

LEMMA Tables ==
  /\ HomeOf \in [Msgs -> Groups] /\ Letter \in [Msgs -> Msgs \cup {NoMsg}]
  /\ Wants \in [Conns -> SUBSET Groups] /\ LaneOf \in [Groups -> Lanes]
BY BrokerAssumption

LEMMA Missing ==
  NoMsg \notin Msgs /\ NoGroup \notin Groups /\ NoConn \notin Conns /\ Producer \notin Conns
BY BrokerAssumption

LEMMA LettersFresh ==
  \A m, x \in Msgs : Letter[m] = Letter[x] /\ Letter[m] # NoMsg => m = x
BY BrokerAssumption

(* Next by kinds of steps: of the wheel, the sweeper and time; of the      *)
(* handlers on a frame they have read; of a consumer that leaves.          *)
TimeStep ==
  \/ \E g \in Groups, m \in Msgs : FireTimer(g, m)
  \/ WakeUp
  \/ \E g \in Groups : Sweep(g) \/ SweepActivate(g)
  \/ \E m \in Msgs : Lapse(m) \/ LapseEarly(m)

FrameStep ==
  \/ \E m \in Msgs : Publish(m)
  \/ TryDispatchOne
  \/ Notify(Producer)
  \/ \E c \in Conns : HandlerStep(c) \/ Subscribe(c) \/ WALFails(c)
  \/ \E c \in Conns, m \in Msgs : ACK(c, m) \/ NACK(c, m)

LeaveStep(c) == Leave(c) \/ Unregister(c) \/ Close(c)

LEMMA StepKinds ==
  ASSUME Next
  PROVE  \/ \E w \in Workers : ScheduleStep(w)
         \/ \E l \in Lanes : DispatchStep(l)
         \/ TimeStep
         \/ FrameStep
         \/ \E c \in Conns : LeaveStep(c)
BY DEF Next, TimeStep, FrameStep, LeaveStep

-----------------------------------------------------------------------------
(* The shapes of the variables.                                            *)

(* Activate leaves the flags and the channel well formed.                  *)
LEMMA ActivateTyped ==
  ASSUME TypeOK, NEW g \in Groups, Activate(g)
  PROVE  /\ scheduled' \subseteq Groups
         /\ active' \in Seq(Groups) /\ Len(active') <= ActiveCap
<1>1. scheduled \subseteq Groups /\ active \in Seq(Groups) /\ Len(active) <= ActiveCap
  BY DEF TypeOK
<1>2. CASE g \in Known /\ g \notin scheduled /\ Len(active) < ActiveCap
  <2>1. active' = Append(active, g) /\ scheduled' = scheduled \cup {g}
    BY <1>2 DEF Activate
  <2>2. active' \in Seq(Groups) /\ Len(active') = Len(active) + 1
    BY <1>1, <2>1
  <2>3. Len(active) \in Nat
    BY <1>1
  <2> QED
    BY <1>1, <1>2, <2>1, <2>2, <2>3, Limits
<1>3. CASE ~(g \in Known /\ g \notin scheduled /\ Len(active) < ActiveCap)
  BY <1>1, <1>3 DEF Activate, schedVars
<1> QED
  BY <1>2, <1>3

(* A message sent to a channel that has room.                              *)
LEMMA SentTyped ==
  ASSUME TypeOK, NEW g \in Groups, NEW m \in Msgs, Room(g)
  PROVE  /\ Sent(g, m) \in [Lanes -> Seq(Msgs)]
         /\ \A l \in Lanes : Len(Sent(g, m)[l]) <= LaneCap
<1> DEFINE k == LaneOf[g]
<1>1. k \in Lanes /\ LaneCap \in Nat
  BY BrokerAssumption
<1>2. lane \in [Lanes -> Seq(Msgs)] /\ \A l \in Lanes : Len(lane[l]) <= LaneCap
  BY DEF TypeOK
<1>3. lane[k] \in Seq(Msgs) /\ Len(lane[k]) < LaneCap
  BY <1>1, <1>2 DEF Room
<1>4. /\ Append(lane[k], m) \in Seq(Msgs)
      /\ Len(Append(lane[k], m)) = Len(lane[k]) + 1
  BY <1>3
<1>5. Len(lane[k]) \in Nat
  BY <1>3
<1>6. Sent(g, m) = [lane EXCEPT ![k] = Append(lane[k], m)]
  BY DEF Sent
<1> HIDE DEF k
<1> QED
  BY <1>1, <1>2, <1>3, <1>4, <1>5, <1>6

(* Messages that are moved.                                                *)
LEMMA MovedTyped ==
  ASSUME NEW p \in [Msgs -> Places], NEW S, NEW s \in Places
  PROVE  /\ Moved(p, S, s) \in [Msgs -> Places]
         /\ \A m \in Msgs : Moved(p, S, s)[m] = IF m \in S THEN s ELSE p[m]
BY DEF Moved

(* DispatchNext, whether or not the handler ignores a full channel.        *)
Dispatches(p, D, g) ==
  LET q == Promoted(p, D, g)
  IN  /\ due' = StillDue(g)
      /\ \E x \in NextOf(q, g) :
           /\ place' = q \/ (x # NoMsg /\ place' = Moved(q, {x}, "leased"))
           /\ lane' = IF x # NoMsg /\ Room(g) THEN Sent(g, x) ELSE lane

(* Promotion and dispatch concern one group, and of it the messages that   *)
(* are pending, leased or delayed, which they leave among these.           *)
LEMMA DispatchesTyped ==
  ASSUME TypeOK, NEW p \in [Msgs -> Places], NEW D, NEW g \in Groups,
         Dispatches(p, D, g)
  PROVE  /\ place' \in [Msgs -> Places]
         /\ due' = StillDue(g)
         /\ lane' \in [Lanes -> Seq(Msgs)]
         /\ \A l \in Lanes : Len(lane'[l]) <= LaneCap
         /\ \A m \in Msgs : HomeOf[m] # g => place'[m] = p[m]
         /\ \A m \in Msgs : p[m] \in {"new", "done", "dead"} => place'[m] = p[m]
         /\ \A m \in Msgs : place'[m] \in {"new", "done", "dead"} => place'[m] = p[m]
<1> DEFINE q == Promoted(p, D, g)
           P == {m \in D : HomeOf[m] = g /\ p[m] \in {"leased", "delayed"}}
<1>1. /\ q \in [Msgs -> Places]
      /\ \A m \in Msgs : q[m] = IF m \in P THEN "pending" ELSE p[m]
  BY MovedTyped DEF Promoted, Places
<1>2. due' = StillDue(g)
  BY DEF Dispatches
<1>3. PICK x \in NextOf(q, g) :
        /\ place' = q \/ (x # NoMsg /\ place' = Moved(q, {x}, "leased"))
        /\ lane' = IF x # NoMsg /\ Room(g) THEN Sent(g, x) ELSE lane
  BY DEF Dispatches
<1>4. x # NoMsg => x \in Msgs /\ HomeOf[x] = g /\ q[x] = "pending"
  BY <1>3 DEF NextOf, Eligible, In
<1>5. lane' \in [Lanes -> Seq(Msgs)] /\ \A l \in Lanes : Len(lane'[l]) <= LaneCap
  <2>1. CASE x # NoMsg /\ Room(g)
    BY <2>1, <1>3, <1>4, SentTyped
  <2>2. CASE ~(x # NoMsg /\ Room(g))
    BY <2>2, <1>3 DEF TypeOK
  <2> QED
    BY <2>1, <2>2
<1>6. /\ place' \in [Msgs -> Places]
      /\ \A m \in Msgs : place'[m] = q[m] \/ (m = x /\ x # NoMsg /\ place'[m] = "leased")
  <2>1. CASE x # NoMsg /\ place' = Moved(q, {x}, "leased")
    <3>1. /\ place' \in [Msgs -> Places]
          /\ \A m \in Msgs : place'[m] = IF m \in {x} THEN "leased" ELSE q[m]
      BY <2>1, <1>1, MovedTyped DEF Places
    <3> QED
      BY <3>1, <2>1
  <2>2. CASE place' = q
    BY <2>2, <1>1
  <2> QED
    BY <1>3, <2>1, <2>2
<1> HIDE DEF q
<1> QED
  BY <1>1, <1>2, <1>4, <1>5, <1>6

(* Messages returned to pending lose their deadline.                       *)
LEMMA ReturnTyped ==
  ASSUME TypeOK, NEW S, ReturnToPending(S)
  PROVE  /\ place' \in [Msgs -> Places]
         /\ due' \subseteq {m \in Msgs : place'[m] \in {"leased", "delayed"}}
         /\ \A m \in Msgs : place'[m] = place[m]
                            \/ (place[m] = "leased" /\ place'[m] = "pending")
<1>1. place \in [Msgs -> Places] /\ due \subseteq {m \in Msgs : place[m] \in {"leased", "delayed"}}
  BY DEF TypeOK, Places
<1>2. /\ place' = Moved(place, {m \in S : place[m] = "leased"}, "pending")
      /\ due' = due \ S
  BY DEF ReturnToPending
<1>3. /\ place' \in [Msgs -> Places]
      /\ \A m \in Msgs : place'[m] = IF m \in {x \in S : place[x] = "leased"}
                                     THEN "pending" ELSE place[m]
  BY <1>1, <1>2, MovedTyped DEF Places
<1> QED
  BY <1>1, <1>2, <1>3

(* The steps of a scheduler worker.                                        *)
LEMMA ScheduleTyped ==
  ASSUME SizesAreNumbers, TypeOK, NEW w \in Workers, ScheduleStep(w)
  PROVE  TypeOK'
<1>1. worker[w] \in WorkerType
  BY DEF TypeOK
<1>2. IdleWorker \in WorkerType
  BY DEF IdleWorker, WorkerType
<1>3. CASE Take(w)
  <2>1. Head(active) \in Groups /\ Tail(active) \in Seq(Groups) /\ Len(Tail(active)) <= ActiveCap
    <3>1. active \in Seq(Groups) /\ active # <<>> /\ Len(active) <= ActiveCap
      BY <1>3 DEF Take, TypeOK
    <3>2. /\ Head(active) \in Groups /\ Tail(active) \in Seq(Groups)
          /\ Len(Tail(active)) = Len(active) - 1 /\ Len(active) \in Nat
      BY <3>1
    <3> QED
      BY <3>1, <3>2, Limits
  <2>2. [IdleWorker EXCEPT !.pc = "taken", !.g = Head(active)] \in WorkerType
    <3>1. \A r \in WorkerType, g \in Groups : [r EXCEPT !.pc = "taken", !.g = g] \in WorkerType
      BY Zenon DEF WorkerType
    <3> QED
      BY <1>2, <2>1, <3>1, Zenon
  <2>3. worker' \in [Workers -> WorkerType]
    BY <2>2, <1>3 DEF Take, Step, TypeOK
  <2> QED
    BY <2>1, <2>3, <1>3 DEF Take, TypeOK, groupVars, wakeVars, countVars
<1>4. CASE Unschedule(w)
  <2>1. [worker[w] EXCEPT !.pc = "drain"] \in WorkerType
    BY <1>1, <1>4 DEF Unschedule, WorkerType
  <2>2. worker' \in [Workers -> WorkerType]
    BY <2>1, <1>4 DEF Unschedule, Step, TypeOK
  <2> QED
    BY <2>2, <1>4 DEF Unschedule, TypeOK, groupVars, wakeVars, countVars
<1>5. CASE Drain(w)
  <2> DEFINE g == worker[w].g
             p == Promoted(place, due, g)
  <2>1. g \in Groups
    BY <1>1, <1>5 DEF Drain, WorkerType
  <2>2. PICK B \in Batches(p, g) : \E b \in Arrangements(B), t \in Afterwards(p, g, B) :
          /\ place' = Moved(p, B, "leased")
          /\ Step(w, [pc |-> "hand", g |-> g, batch |-> b, then |-> t])
    BY <1>5 DEF Drain
  <2>3. PICK b \in Arrangements(B), t \in Afterwards(p, g, B) :
          /\ place' = Moved(p, B, "leased")
          /\ Step(w, [pc |-> "hand", g |-> g, batch |-> b, then |-> t])
    BY <2>2
  <2>4. /\ p \in [Msgs -> Places]
        /\ \A m \in Msgs : p[m] = IF m \in {x \in due : HomeOf[x] = g /\ place[x] \in {"leased", "delayed"}}
                                  THEN "pending" ELSE place[m]
    <3>1. place \in [Msgs -> Places]
      BY DEF TypeOK, Places
    <3> QED
      BY <3>1, MovedTyped DEF Promoted, Places
  <2>5. B \subseteq {m \in Msgs : HomeOf[m] = g /\ p[m] = "pending"}
    BY DEF Batches, In
  <2>6. b \in Seq(Msgs)
    <3>1. Cardinality(B) \in Nat
      BY <2>5 DEF SizesAreNumbers
    <3> QED
      BY <2>3, <2>5, <3>1 DEF Arrangements
  <2>7. t \in Msgs \cup {"stop", "again"}
    BY <2>3 DEF Afterwards, Waiting, In
  <2> HIDE DEF g, p
  <2>8. worker' \in [Workers -> WorkerType]
    <3>1. [pc |-> "hand", g |-> g, batch |-> b, then |-> t] \in WorkerType
      BY <2>1, <2>6, <2>7 DEF WorkerType
    <3> QED
      BY <2>3, <3>1 DEF Step, TypeOK
  <2>9. /\ place' \in [Msgs -> Places]
        /\ \A m \in Msgs : place'[m] = IF m \in B THEN "leased" ELSE p[m]
    BY <2>3, <2>4, MovedTyped DEF Places
  <2>10. due' = {m \in due : HomeOf[m] # g}
    BY <1>5 DEF Drain, StillDue, g
  <2>11. due' \subseteq {m \in Msgs : place'[m] \in {"leased", "delayed"}}
    <3>1. due \subseteq {m \in Msgs : place[m] \in {"leased", "delayed"}}
      BY DEF TypeOK
    <3> QED
      BY <3>1, <2>4, <2>5, <2>9, <2>10
  <2> QED
    BY <1>5, <2>8, <2>9, <2>11
       DEF Drain, TypeOK, Places, schedVars, wakeVars, countVars
<1>6. CASE HandOver(w)
  <2> DEFINE r == worker[w]
  <2>1. r.g \in Groups /\ r.batch \in Seq(Msgs) /\ r.batch # <<>>
    BY <1>1, <1>6 DEF HandOver, WorkerType
  <2>2. Head(r.batch) \in Msgs /\ Tail(r.batch) \in Seq(Msgs)
    BY <2>1
  <2>3. CASE /\ Room(r.g)
             /\ lane' = Sent(r.g, Head(r.batch))
             /\ Step(w, [r EXCEPT !.batch = Tail(@)])
             /\ UNCHANGED groupVars
    <3>1. [r EXCEPT !.batch = Tail(@)] \in WorkerType
      BY Zenon, <1>1, <2>2 DEF WorkerType
    <3>2. worker' \in [Workers -> WorkerType]
      BY <2>3, <3>1 DEF Step, TypeOK
    <3>3. lane' \in [Lanes -> Seq(Msgs)] /\ \A l \in Lanes : Len(lane'[l]) <= LaneCap
      BY <2>1, <2>2, <2>3, SentTyped
    <3> QED
      BY <1>6, <2>3, <3>2, <3>3
         DEF HandOver, TypeOK, groupVars, schedVars, wakeVars, countVars
  <2>4. CASE /\ ~Room(r.g)
             /\ ReturnToPending({r.batch[i] : i \in DOMAIN r.batch})
             /\ Step(w, IdleWorker)
             /\ UNCHANGED lane
    <3>1. worker' \in [Workers -> WorkerType]
      BY <1>2, <2>4 DEF Step, TypeOK
    <3>2. /\ place' \in [Msgs -> Places]
          /\ due' \subseteq {m \in Msgs : place'[m] \in {"leased", "delayed"}}
      BY <2>4, ReturnTyped
    <3> QED
      BY <1>6, <2>4, <3>1, <3>2
         DEF HandOver, TypeOK, Places, schedVars, wakeVars, countVars
  <2> QED
    BY <1>6, <2>3, <2>4 DEF HandOver
<1>7. CASE GoAgain(w)
  <2>1. worker' \in [Workers -> WorkerType]
    BY <1>2, <1>7 DEF GoAgain, Step, TypeOK
  <2>2. /\ scheduled' \subseteq Groups
        /\ active' \in Seq(Groups) /\ Len(active') <= ActiveCap
    <3>1. worker[w].g \in Groups
      BY <1>1, <1>7 DEF GoAgain, WorkerType
    <3>2. CASE Activate(worker[w].g)
      BY <3>1, <3>2, ActivateTyped
    <3>3. CASE UNCHANGED schedVars
      BY <3>3 DEF schedVars, TypeOK
    <3> QED
      BY <1>7, <3>2, <3>3 DEF GoAgain
  <2> QED
    BY <1>7, <2>1, <2>2 DEF GoAgain, TypeOK, groupVars, wakeVars, countVars
<1>8. CASE SetWake(w)
  <2> DEFINE r == worker[w]
  <2>1. r.g \in Groups /\ r.then \in Msgs
    BY <1>1, <1>8 DEF SetWake, WorkerType
  <2>2. [r EXCEPT !.pc = "arm"] \in WorkerType
    BY <1>1, <2>1 DEF WorkerType
  <2>3. worker' \in [Workers -> WorkerType]
    <3>1. worker' = [worker EXCEPT ![w] = [r EXCEPT !.pc = "arm"]]
          \/ worker' = [worker EXCEPT ![w] = IdleWorker]
      BY <1>8 DEF SetWake, Step
    <3> QED
      BY Zenon, <1>2, <2>2, <3>1 DEF TypeOK
  <2>4. wake' \in [Groups -> Msgs \cup {NoMsg}]
    BY Zenon, <1>8, <2>1 DEF SetWake, TypeOK
  <2> QED
    BY <1>8, <2>3, <2>4 DEF SetWake, TypeOK, groupVars, schedVars, countVars
<1>9. CASE ArmTimer(w)
  <2>1. worker' \in [Workers -> WorkerType]
    BY <1>2, <1>9 DEF ArmTimer, Step, TypeOK
  <2>2. worker[w].g \in Groups /\ worker[w].then \in Msgs
    BY <1>1, <1>9 DEF ArmTimer, WorkerType
  <2>3. timers' \subseteq Groups \X Msgs
    BY <1>9, <2>2 DEF ArmTimer, TypeOK
  <2> QED
    BY <1>9, <2>1, <2>3 DEF ArmTimer, TypeOK, groupVars, schedVars, countVars
<1> QED
  BY <1>3, <1>4, <1>5, <1>6, <1>7, <1>8, <1>9 DEF ScheduleStep

(* The steps of a dispatch worker.                                         *)
LEMMA DispatchTyped ==
  ASSUME TypeOK, NEW l \in Lanes, DispatchStep(l)
  PROVE  TypeOK'
<1>1. dispatcher[l] \in DispatcherType /\ dispatcher \in [Lanes -> DispatcherType]
  BY DEF TypeOK
<1>2. IdleDispatcher \in DispatcherType
  BY DEF IdleDispatcher, DispatcherType
<1>3. ASSUME NEW pc \in {"credit", "write", "return"}, Proceed(l, pc),
             dispatcher[l].pc \in {"quota", "credit", "write"}
      PROVE  dispatcher' \in [Lanes -> DispatcherType]
  <2>1. [dispatcher[l] EXCEPT !.pc = pc] \in DispatcherType
    BY <1>1, <1>3 DEF DispatcherType
  <2>2. dispatcher' = [dispatcher EXCEPT ![l] = [dispatcher[l] EXCEPT !.pc = pc]]
    BY <1>1, <1>3 DEF Proceed
  <2> QED
    BY <1>1, <2>1, <2>2
<1>4. CASE Pick(l)
  <2>1. lane[l] \in Seq(Msgs) /\ lane[l] # <<>> /\ Len(lane[l]) <= LaneCap
    BY <1>4 DEF Pick, TypeOK
  <2>2. /\ Head(lane[l]) \in Msgs /\ Tail(lane[l]) \in Seq(Msgs)
        /\ Len(Tail(lane[l])) <= LaneCap
    <3>1. /\ Head(lane[l]) \in Msgs /\ Tail(lane[l]) \in Seq(Msgs)
          /\ Len(Tail(lane[l])) = Len(lane[l]) - 1 /\ Len(lane[l]) \in Nat
      BY <2>1
    <3> QED
      BY <2>1, <3>1, Limits
  <2>3. lane' \in [Lanes -> Seq(Msgs)] /\ \A k \in Lanes : Len(lane'[k]) <= LaneCap
    BY <1>4, <2>2 DEF Pick, TypeOK
  <2>4. \A m \in Msgs : [pc |-> "return", m |-> m, c |-> NoConn] \in DispatcherType
    BY DEF DispatcherType
  <2>5. \A m \in Msgs, c \in Conns : [pc |-> "quota", m |-> m, c |-> c] \in DispatcherType
    BY DEF DispatcherType
  <2>6. dispatcher' \in [Lanes -> DispatcherType]
    <3> DEFINE m == Head(lane[l])
               S == Subscribers(HomeOf[m])
    <3>1. S \subseteq Conns
      BY DEF Subscribers, Registered
    <3>2. PICK r \in IF S = {} THEN {[pc |-> "return", m |-> m, c |-> NoConn]}
                      ELSE {[pc |-> "quota", m |-> m, c |-> c] : c \in S} :
            dispatcher' = [dispatcher EXCEPT ![l] = r]
      BY <1>4 DEF Pick
    <3>3. m \in Msgs
      BY <2>2
    <3> HIDE DEF m, S
    <3>4. r \in DispatcherType
      BY <2>4, <2>5, <3>1, <3>2, <3>3
    <3> QED
      BY <1>1, <3>2, <3>4
  <2> QED
    BY <1>4, <2>3, <2>6 DEF Pick, TypeOK, groupVars, schedVars, wakeVars, countVars
<1>5. CASE TryAcquire(l)
  <2>1. dispatcher' \in [Lanes -> DispatcherType]
    BY <1>3, <1>5 DEF TryAcquire
  <2>2. quota' \in Int
    BY <1>5 DEF TryAcquire, Acquired, TypeOK
  <2> QED
    BY <1>5, <2>1, <2>2 DEF TryAcquire, TypeOK, groupVars, schedVars, wakeVars
<1>6. CASE AcquireCredit(l)
  <2>1. dispatcher' \in [Lanes -> DispatcherType]
    BY <1>3, <1>6 DEF AcquireCredit
  <2>2. quota' \in Int
    BY <1>6 DEF AcquireCredit, Released, TypeOK
  <2>3. credit' \in [Conns -> Int]
    BY <1>6 DEF AcquireCredit, TypeOK
  <2> QED
    BY <1>6, <2>1, <2>2, <2>3 DEF AcquireCredit, TypeOK, groupVars, schedVars, wakeVars
<1>7. CASE Write(l)
  <2>1. dispatcher' \in [Lanes -> DispatcherType]
    BY <1>1, <1>2, <1>7 DEF Write
  <2>2. held' \in [Conns -> [Msgs -> Nat]]
    <3> DEFINE c == dispatcher[l].c
               m == dispatcher[l].m
    <3>1. c \in Conns /\ m \in Msgs
      BY <1>1, <1>7 DEF Write, DispatcherType
    <3>2. held \in [Conns -> [Msgs -> Nat]]
      BY DEF TypeOK
    <3>3. held' = held \/ held' = [held EXCEPT ![c][m] = @ + 1]
      BY <1>7 DEF Write
    <3> HIDE DEF c, m
    <3> QED
      BY <3>1, <3>2, <3>3
  <2> QED
    BY <1>7, <2>1, <2>2 DEF Write, TypeOK, groupVars, schedVars, wakeVars
<1>8. CASE WriteFails(l)
  <2>1. dispatcher' \in [Lanes -> DispatcherType]
    BY <1>3, <1>8 DEF WriteFails
  <2>2. quota' \in Int
    BY <1>8 DEF WriteFails, Released, TypeOK
  <2>3. credit' \in [Conns -> Int]
    <3>1. dispatcher[l].c \in Conns
      BY <1>1, <1>8 DEF WriteFails, DispatcherType
    <3>2. credit' = [credit EXCEPT ![dispatcher[l].c] = @ - 1]
      BY <1>8 DEF WriteFails
    <3> QED
      BY <3>1, <3>2 DEF TypeOK
  <2>4. mishaps' \in 0..MaxMishaps
    BY <1>8, Limits DEF WriteFails, Mishap, TypeOK
  <2> QED
    BY <1>8, <2>1, <2>2, <2>3, <2>4 DEF WriteFails, TypeOK, groupVars, schedVars, wakeVars
<1>9. CASE GiveBack(l)
  <2>1. dispatcher' \in [Lanes -> DispatcherType]
    BY <1>1, <1>2, <1>9 DEF GiveBack
  <2>2. /\ place' \in [Msgs -> Places]
        /\ due' \subseteq {m \in Msgs : place'[m] \in {"leased", "delayed"}}
    BY <1>9, ReturnTyped DEF GiveBack
  <2> QED
    BY <1>9, <2>1, <2>2 DEF GiveBack, TypeOK, Places, schedVars, wakeVars, countVars
<1> QED
  BY <1>4, <1>5, <1>6, <1>7, <1>8, <1>9 DEF DispatchStep

(* The steps of the timing wheel, of the lease sweeper and of time.        *)
LEMMA TimeTyped ==
  ASSUME TypeOK, TimeStep
  PROVE  TypeOK'
<1>1. ASSUME NEW g \in Groups, NEW m \in Msgs, FireTimer(g, m)
      PROVE  TypeOK'
  <2>1. wake' \in [Groups -> Msgs \cup {NoMsg}]
    BY <1>1 DEF FireTimer, TypeOK
  <2> QED
    BY <1>1, <2>1 DEF FireTimer, TypeOK, groupVars, schedVars, countVars
<1>2. CASE WakeUp
  <2>1. firing \in Groups /\ Activate(firing)
    BY <1>2 DEF WakeUp, TypeOK
  <2>2. /\ scheduled' \subseteq Groups
        /\ active' \in Seq(Groups) /\ Len(active') <= ActiveCap
    BY <2>1, ActivateTyped
  <2> QED
    BY <1>2, <2>2 DEF WakeUp, TypeOK, groupVars, countVars
<1>3. ASSUME NEW g \in Groups, Sweep(g)
      PROVE  TypeOK'
  <2>1. /\ place' \in [Msgs -> Places]
        /\ due' \subseteq {m \in Msgs : place'[m] \in {"leased", "delayed"}}
    BY Zenon, <1>3, ReturnTyped DEF Sweep
  <2> QED
    BY <1>3, <2>1 DEF Sweep, TypeOK, Places, schedVars, wakeVars, countVars
<1>4. ASSUME NEW g \in Groups, SweepActivate(g)
      PROVE  TypeOK'
  <2>1. /\ scheduled' \subseteq Groups
        /\ active' \in Seq(Groups) /\ Len(active') <= ActiveCap
    BY <1>4, ActivateTyped DEF SweepActivate
  <2> QED
    BY <1>4, <2>1 DEF SweepActivate, TypeOK, groupVars, wakeVars, countVars
<1>5. ASSUME NEW m \in Msgs, Lapse(m)
      PROVE  TypeOK'
  BY <1>5 DEF Lapse, TypeOK, schedVars, wakeVars, countVars
<1>6. ASSUME NEW m \in Msgs, LapseEarly(m)
      PROVE  TypeOK'
  <2>1. mishaps' \in 0..MaxMishaps
    BY <1>6, Limits DEF LapseEarly, Mishap, TypeOK
  <2> QED
    BY <1>6, <2>1 DEF LapseEarly, TypeOK, schedVars, wakeVars, countVars
<1> QED
  BY <1>1, <1>2, <1>3, <1>4, <1>5, <1>6 DEF TimeStep

(* What a handler becomes.                                                 *)
LEMMA HandlerRecords ==
  /\ IdleHandler \in HandlerType /\ IdleHandler.lost = NoMsg /\ IdleHandler.todo = {}
  /\ \A r \in HandlerType, m \in Msgs, pc \in {"try", "ack", "nack"} :
       /\ [r EXCEPT !.pc = pc, !.m = m] \in HandlerType
       /\ [r EXCEPT !.pc = pc, !.m = m].lost = r.lost
  /\ \A r \in HandlerType, T \in SUBSET Groups, pc \in {"notify", "activate"} :
       /\ [r EXCEPT !.pc = pc, !.todo = T] \in HandlerType
       /\ [r EXCEPT !.pc = pc, !.todo = T].lost = r.lost
  /\ \A r \in HandlerType, T \in SUBSET Groups, x \in Msgs \cup {NoMsg} :
       /\ [r EXCEPT !.pc = "activate", !.todo = T, !.lost = x] \in HandlerType
       /\ [r EXCEPT !.pc = "activate", !.todo = T, !.lost = x].lost = x
  /\ \A r \in HandlerType : r.lost # NoMsg =>
       /\ [r EXCEPT !.pc = "letter"] \in HandlerType
       /\ [r EXCEPT !.pc = "letter"].lost = r.lost
  /\ \A r \in HandlerType : \A g : r.pc = "activate" =>
       /\ [r EXCEPT !.todo = @ \ {g}] \in HandlerType
       /\ [r EXCEPT !.todo = @ \ {g}].lost = r.lost
<1>1. IdleHandler \in HandlerType /\ IdleHandler.lost = NoMsg /\ IdleHandler.todo = {}
  BY DEF IdleHandler, HandlerType
<1>2. ASSUME NEW r \in HandlerType, NEW m \in Msgs, NEW pc \in {"try", "ack", "nack"}
      PROVE  /\ [r EXCEPT !.pc = pc, !.m = m] \in HandlerType
             /\ [r EXCEPT !.pc = pc, !.m = m].lost = r.lost
  BY Zenon DEF HandlerType
<1>3. ASSUME NEW r \in HandlerType, NEW T \in SUBSET Groups, NEW pc \in {"notify", "activate"}
      PROVE  /\ [r EXCEPT !.pc = pc, !.todo = T] \in HandlerType
             /\ [r EXCEPT !.pc = pc, !.todo = T].lost = r.lost
  BY Zenon DEF HandlerType
<1>4. ASSUME NEW r \in HandlerType, NEW T \in SUBSET Groups, NEW x \in Msgs \cup {NoMsg}
      PROVE  /\ [r EXCEPT !.pc = "activate", !.todo = T, !.lost = x] \in HandlerType
             /\ [r EXCEPT !.pc = "activate", !.todo = T, !.lost = x].lost = x
  BY Zenon DEF HandlerType
<1>5. ASSUME NEW r \in HandlerType, r.lost # NoMsg
      PROVE  /\ [r EXCEPT !.pc = "letter"] \in HandlerType
             /\ [r EXCEPT !.pc = "letter"].lost = r.lost
  BY <1>5 DEF HandlerType
<1>6. ASSUME NEW r \in HandlerType, NEW g, r.pc = "activate"
      PROVE  /\ [r EXCEPT !.todo = @ \ {g}] \in HandlerType
             /\ [r EXCEPT !.todo = @ \ {g}].lost = r.lost
  BY <1>6 DEF HandlerType
<1> QED
  BY Zenon, <1>1, <1>2, <1>3, <1>4, <1>5, <1>6

(* The steps of a connection's handler, and of the connection.             *)
LEMMA HandlerTyped ==
  ASSUME Shapes, FrameStep
  PROVE  TypeOK'
<1> TypeOK
  BY DEF Shapes
<1>1. handler \in [Handlers -> HandlerType] /\ place \in [Msgs -> Places]
  BY DEF TypeOK, Handlers, Places
<1>2. ASSUME NEW h \in Handlers, NEW r \in HandlerType, Become(h, r)
      PROVE  handler' \in [Conns \cup {Producer} -> HandlerType]
  BY <1>1, <1>2 DEF Become, Handlers
<1>3. Producer \in Handlers /\ Conns \subseteq Handlers
  BY DEF Handlers
<1>a. \A g \in Groups, pc \in {"notify", "activate"}, r \in HandlerType :
        [r EXCEPT !.pc = pc, !.todo = {g}] \in HandlerType
  <2>1. \A g \in Groups : {g} \in SUBSET Groups
    OBVIOUS
  <2> QED
    BY Zenon, <2>1, HandlerRecords
<1>b. \A g \in Groups, x \in Msgs \cup {NoMsg} :
        [IdleHandler EXCEPT !.pc = "activate", !.todo = {g}, !.lost = x] \in HandlerType
  <2>1. \A g \in Groups : {g} \in SUBSET Groups
    OBVIOUS
  <2> QED
    BY Zenon, <2>1, HandlerRecords
<1>c. IdleHandler \in HandlerType
  BY Zenon, HandlerRecords
<1>4. ASSUME NEW m \in Msgs, Publish(m)
      PROVE  TypeOK'
  <2>1. handler' \in [Conns \cup {Producer} -> HandlerType]
    BY Zenon, <1>2, <1>3, <1>4, HandlerRecords DEF Publish
  <2>2. /\ place' \in [Msgs -> Places]
        /\ \A x \in Msgs : place'[x] = IF x \in {m} THEN "pending" ELSE place[x]
    <3>1. place' = Moved(place, {m}, "pending")
      BY <1>4 DEF Publish
    <3> QED
      BY <1>1, <3>1, MovedTyped DEF Places
  <2>3. due' \subseteq {x \in Msgs : place'[x] \in {"leased", "delayed"}}
    BY Zenon, <1>4, <2>2 DEF Publish, TypeOK
  <2>4. globalMsgs' \in Int
    <3>1. globalMsgs' = globalMsgs + 1
      BY <1>4 DEF Publish, IncGlobalMsgs
    <3> QED
      BY <3>1 DEF TypeOK
  <2> QED
    BY Zenon, <1>4, <2>1, <2>2, <2>3, <2>4 DEF Publish, TypeOK, Places, schedVars, wakeVars, countVars
<1>5. CASE TryDispatchOne
  <2> DEFINE r == handler[Producer]
             g == HomeOf[r.m]
  <2>1. r \in HandlerType /\ r.m \in Msgs /\ g \in Groups
    BY <1>1, <1>3, <1>5, Tables DEF TryDispatchOne, HandlerType
  <2>2. handler' \in [Conns \cup {Producer} -> HandlerType]
    <3>1. [r EXCEPT !.pc = "notify", !.todo = {g}] \in HandlerType
      BY Zenon, <1>a, <2>1
    <3> QED
      BY <1>2, <1>3, <1>5, <3>1 DEF TryDispatchOne
  <2>3. Dispatches(place, due, g)
    BY Zenon, <1>5 DEF TryDispatchOne, DispatchNext, Dispatches
  <2> HIDE DEF g
  <2>4. /\ place' \in [Msgs -> Places]
        /\ due' = StillDue(g)
        /\ lane' \in [Lanes -> Seq(Msgs)]
        /\ \A l \in Lanes : Len(lane'[l]) <= LaneCap
        /\ \A m \in Msgs : HomeOf[m] # g => place'[m] = place[m]
    BY <1>1, <2>1, <2>3, DispatchesTyped
  <2>5. due' \subseteq {x \in Msgs : place'[x] \in {"leased", "delayed"}}
    BY <2>4 DEF StillDue, TypeOK
  <2> QED
    BY <1>5, <2>2, <2>4, <2>5
       DEF TryDispatchOne, TypeOK, Places, schedVars, wakeVars, countVars
<1>6. ASSUME NEW h \in Handlers, Notify(h)
      PROVE  TypeOK'
  <2>1. handler' \in [Conns \cup {Producer} -> HandlerType]
    BY Zenon, <1>2, <1>6, HandlerRecords DEF Notify
  <2>2. /\ scheduled' \subseteq Groups
        /\ active' \in Seq(Groups) /\ Len(active') <= ActiveCap
    <3>1. PICK g \in handler[h].todo :
            IF Subscribers(g) # {} THEN Activate(g) ELSE UNCHANGED schedVars
      BY Zenon, <1>6 DEF Notify
    <3>2. g \in Groups
      BY <1>1 DEF HandlerType
    <3>3. CASE Activate(g)
      BY <3>2, <3>3, ActivateTyped
    <3>4. CASE UNCHANGED schedVars
      BY <3>4 DEF schedVars, TypeOK
    <3> QED
      BY <3>1, <3>3, <3>4
  <2> QED
    BY Zenon, <1>6, <2>1, <2>2 DEF Notify, TypeOK, groupVars, wakeVars, countVars
<1>7. ASSUME NEW c \in Conns, ActivateNext(c)
      PROVE  TypeOK'
  <2> DEFINE r == handler[c]
  <2>1. PICK g \in r.todo :
          /\ Activate(g)
          /\ Become(c, IF r.todo # {g} THEN [r EXCEPT !.todo = @ \ {g}]
                       ELSE IF r.lost # NoMsg THEN [r EXCEPT !.pc = "letter"]
                       ELSE IdleHandler)
    BY Zenon, <1>7 DEF ActivateNext
  <2>2. r \in HandlerType /\ g \in Groups /\ r.pc = "activate"
    BY <1>1, <1>3, <1>7 DEF ActivateNext, HandlerType
  <2> HIDE DEF r
  <2>3. handler' \in [Conns \cup {Producer} -> HandlerType]
    <3>1. (IF r.todo # {g} THEN [r EXCEPT !.todo = @ \ {g}]
           ELSE IF r.lost # NoMsg THEN [r EXCEPT !.pc = "letter"]
           ELSE IdleHandler) \in HandlerType
      <4>1. r.lost # NoMsg => [r EXCEPT !.pc = "letter"] \in HandlerType
        BY Zenon, <2>2, HandlerRecords
      <4>2. [r EXCEPT !.todo = @ \ {g}] \in HandlerType
        BY Zenon, <2>2, HandlerRecords
      <4> QED
        BY Zenon, <4>1, <4>2, HandlerRecords
    <3> QED
      BY <1>2, <1>3, <2>1, <3>1
  <2>4. /\ scheduled' \subseteq Groups
        /\ active' \in Seq(Groups) /\ Len(active') <= ActiveCap
    BY <2>1, <2>2, ActivateTyped
  <2> QED
    BY <1>7, <2>3, <2>4 DEF ActivateNext, TypeOK, groupVars, wakeVars, countVars
<1>8. ASSUME NEW c \in Conns, CompleteAndNext(c)
      PROVE  TypeOK'
  <2> DEFINE m == handler[c].m
             g == HomeOf[m]
             p == Moved(place, {m} \cap In(place, g, "leased"), "done")
  <2>1. m \in Msgs /\ g \in Groups
    BY <1>1, <1>3, <1>8, Tables DEF CompleteAndNext, HandlerType
  <2>2. handler' \in [Conns \cup {Producer} -> HandlerType]
    <3>1. [IdleHandler EXCEPT !.pc = "activate", !.todo = {g}] \in HandlerType
      BY Zenon, <1>a, <1>c, <2>1
    <3>2. Become(c, [IdleHandler EXCEPT !.pc = "activate", !.todo = {g}])
      BY <1>8 DEF CompleteAndNext
    <3> QED
      BY Zenon, <1>2, <1>3, <3>1, <3>2
  <2>3. Dispatches(p, due, g)
    BY <1>8 DEF CompleteAndNext, DispatchNext, Dispatches
  <2>4. /\ p \in [Msgs -> Places]
        /\ \A x \in Msgs : HomeOf[x] # g => p[x] = place[x]
    BY <1>1, <2>1, MovedTyped DEF Places
  <2> HIDE DEF g, p
  <2>5. /\ place' \in [Msgs -> Places]
        /\ due' = StillDue(g)
        /\ lane' \in [Lanes -> Seq(Msgs)]
        /\ \A l \in Lanes : Len(lane'[l]) <= LaneCap
        /\ \A x \in Msgs : HomeOf[x] # g => place'[x] = p[x]
    BY <2>1, <2>3, <2>4, DispatchesTyped
  <2>6. due' \subseteq {x \in Msgs : place'[x] \in {"leased", "delayed"}}
    BY <2>4, <2>5 DEF StillDue, TypeOK
  <2>7. globalMsgs' \in Int
    BY <1>8 DEF CompleteAndNext, TypeOK
  <2> QED
    BY <1>8, <2>2, <2>5, <2>6, <2>7
       DEF CompleteAndNext, TypeOK, Places, schedVars, wakeVars, countVars
<1>9. ASSUME NEW c \in Conns, FailAndNext(c)
      PROVE  TypeOK'
  <2> DEFINE m == handler[c].m
             g == HomeOf[m]
             S == {m} \cap In(place, g, "leased")
  <2>1. m \in Msgs /\ g \in Groups
    BY <1>1, <1>3, <1>9, Tables DEF FailAndNext, HandlerType
  <2>2. PICK s \in {"delayed", "dead"} :
          LET lost == IF S # {} /\ s = "dead" THEN Letter[m] ELSE NoMsg
          IN  /\ globalMsgs' = IF lost # NoMsg THEN globalMsgs - 1 ELSE globalMsgs
              /\ DispatchNext(Moved(place, S, s), due \ S, g, TRUE)
              /\ Become(c, [IdleHandler EXCEPT !.pc = "activate", !.todo = {g},
                                               !.lost = lost])
    BY Zenon, <1>9 DEF FailAndNext
  <2> DEFINE lost == IF S # {} /\ s = "dead" THEN Letter[m] ELSE NoMsg
             p == Moved(place, S, s)
  <2>3. lost \in Msgs \cup {NoMsg}
    BY <2>1, Tables
  <2>4. /\ p \in [Msgs -> Places]
        /\ \A x \in Msgs : HomeOf[x] # g => p[x] = place[x]
    BY <1>1, <2>1, MovedTyped DEF Places
  <2>5. Dispatches(p, due \ S, g)
    BY Zenon, <2>2 DEF DispatchNext, Dispatches
  <2>6. globalMsgs' = IF lost # NoMsg THEN globalMsgs - 1 ELSE globalMsgs
    BY <2>2
  <2>7. Become(c, [IdleHandler EXCEPT !.pc = "activate", !.todo = {g}, !.lost = lost])
    BY <2>2
  <2> HIDE DEF g, p, lost
  <2>8. handler' \in [Conns \cup {Producer} -> HandlerType]
    <3>1. [IdleHandler EXCEPT !.pc = "activate", !.todo = {g}, !.lost = lost] \in HandlerType
      BY Zenon, <1>b, <2>1, <2>3
    <3> QED
      BY Zenon, <1>2, <1>3, <2>7, <3>1
  <2>9. /\ place' \in [Msgs -> Places]
        /\ due' = StillDue(g)
        /\ lane' \in [Lanes -> Seq(Msgs)]
        /\ \A l \in Lanes : Len(lane'[l]) <= LaneCap
        /\ \A x \in Msgs : HomeOf[x] # g => place'[x] = p[x]
    BY Zenon, <2>1, <2>4, <2>5, DispatchesTyped
  <2>10. due' \subseteq {x \in Msgs : place'[x] \in {"leased", "delayed"}}
    BY <2>4, <2>9 DEF StillDue, TypeOK
  <2>11. globalMsgs' \in Int
    BY <2>6 DEF TypeOK
  <2> QED
    BY <1>9, <2>8, <2>9, <2>10, <2>11
       DEF FailAndNext, TypeOK, Places, schedVars, wakeVars, countVars
<1>10. ASSUME NEW c \in Conns, PublishLetter(c)
       PROVE  TypeOK'
  <2> DEFINE m == handler[c].lost
  <2>1. m \in Msgs /\ HomeOf[m] \in Groups /\ place[m] = "new"
    BY <1>1, <1>3, <1>10, Tables, Missing DEF PublishLetter, HandlerType, Shapes, LettersOnce
  <2>2. handler' \in [Conns \cup {Producer} -> HandlerType]
    <3>1. [IdleHandler EXCEPT !.pc = "notify", !.todo = {HomeOf[m]}] \in HandlerType
      BY Zenon, <1>a, <1>c, <2>1
    <3>2. Become(c, [IdleHandler EXCEPT !.pc = "notify", !.todo = {HomeOf[m]}])
      BY <1>10 DEF PublishLetter
    <3> QED
      BY Zenon, <1>2, <1>3, <3>1, <3>2
  <2>3. place' = Moved(place, {m}, "pending") /\ due' = due
    BY <1>10 DEF PublishLetter
  <2> HIDE DEF m
  <2>4. /\ place' \in [Msgs -> Places]
        /\ \A x \in Msgs : place'[x] = IF x \in {m} THEN "pending" ELSE place[x]
    BY <1>1, <2>3, MovedTyped DEF Places
  <2>5. due' \subseteq {x \in Msgs : place'[x] \in {"leased", "delayed"}}
    BY Zenon, <2>1, <2>3, <2>4 DEF TypeOK
  <2> QED
    BY Zenon, <1>10, <2>2, <2>4, <2>5
       DEF PublishLetter, TypeOK, Places, schedVars, wakeVars, countVars
<1>11. ASSUME NEW c \in Conns, Subscribe(c)
       PROVE  TypeOK'
  <2>1. handler' \in [Conns \cup {Producer} -> HandlerType]
    BY Zenon, <1>2, <1>3, <1>11, HandlerRecords, Tables DEF Subscribe
  <2> QED
    BY Zenon, <1>11, <2>1 DEF Subscribe, TypeOK, groupVars, schedVars, wakeVars
<1>12. ASSUME NEW c \in Conns, WALFails(c)
       PROVE  TypeOK'
  <2>1. handler' \in [Conns \cup {Producer} -> HandlerType]
    BY Zenon, <1>2, <1>3, <1>12, HandlerRecords DEF WALFails
  <2>2. mishaps' \in 0..MaxMishaps
    BY <1>12, Limits DEF WALFails, Mishap, TypeOK
  <2> QED
    BY <1>12, <2>1, <2>2 DEF WALFails, TypeOK, groupVars, schedVars, wakeVars, countVars
<1>13. ASSUME NEW c \in Conns, NEW m \in Msgs, ACK(c, m) \/ NACK(c, m)
       PROVE  TypeOK'
  <2>1. PICK pc \in {"ack", "nack"} : Answer(c, m, pc)
    BY <1>13 DEF ACK, NACK
  <2>2. mishaps' \in 0..MaxMishaps
    <3>1. mishaps' = mishaps \/ (mishaps < MaxMishaps /\ mishaps' = mishaps + 1)
      BY <1>13 DEF ACK, NACK, Mishap
    <3>2. mishaps \in Nat /\ mishaps <= MaxMishaps /\ MaxMishaps \in Nat
      BY Limits DEF TypeOK
    <3> QED
      BY <3>1, <3>2
  <2>3. handler' \in [Conns \cup {Producer} -> HandlerType]
    BY Zenon, <1>2, <1>3, <2>1, HandlerRecords DEF Answer
  <2>4. held' \in [Conns -> [Msgs -> Nat]]
    <3>1. held[c][m] > 0 /\ held' = [held EXCEPT ![c][m] = @ - 1]
      BY <2>1 DEF Answer
    <3>2. held \in [Conns -> [Msgs -> Nat]]
      BY DEF TypeOK
    <3> QED
      BY <3>1, <3>2
  <2>5. credit' \in [Conns -> Int] /\ quota' \in Int
    <3>1. credit' = [credit EXCEPT ![c] = @ - 1] /\ quota' = Released(1)
      BY <2>1 DEF Answer
    <3>2. credit \in [Conns -> Int] /\ quota \in Int
      BY DEF TypeOK
    <3> QED
      BY <3>1, <3>2 DEF Released
  <2> QED
    BY <2>1, <2>2, <2>3, <2>4, <2>5 DEF Answer, TypeOK, groupVars, schedVars, wakeVars
<1> QED
  BY <1>3, <1>4, <1>5, <1>6, <1>7, <1>8, <1>9, <1>10, <1>11, <1>12, <1>13 DEF FrameStep, HandlerStep

(* A consumer leaves.                                                      *)
LEMMA LeaveTyped ==
  ASSUME TypeOK, NEW c \in Conns, LeaveStep(c)
  PROVE  TypeOK'
<1>1. CASE Leave(c)
  <2>1. held' \in [Conns -> [Msgs -> Nat]]
    BY <1>1 DEF Leave, TypeOK
  <2>2. quota' \in Int
    BY <1>1 DEF Leave, Released, TypeOK
  <2>3. mishaps' \in 0..MaxMishaps
    <3>1. mishaps < MaxMishaps /\ mishaps' = mishaps + 1
      BY Zenon, <1>1 DEF Leave, Mishap
    <3> QED
      BY <3>1, Limits DEF TypeOK
  <2> QED
    BY <1>1, <2>1, <2>2, <2>3 DEF Leave, TypeOK, groupVars, schedVars, wakeVars
<1>2. CASE Unregister(c)
  BY <1>2 DEF Unregister, TypeOK, groupVars, schedVars, wakeVars
<1>3. CASE Close(c)
  BY <1>3 DEF Close, TypeOK, groupVars, schedVars, wakeVars
<1> QED
  BY <1>1, <1>2, <1>3 DEF LeaveStep

-----------------------------------------------------------------------------
(* Dead letters.                                                           *)

(* No message is published and none that died comes back.                  *)
FatesKept ==
  \A m \in Msgs : /\ place'[m] = "new" <=> place[m] = "new"
                  /\ place[m] = "dead" => place'[m] = "dead"

LettersKept == \A h \in Handlers : handler'[h].lost \in {handler[h].lost, NoMsg}

LEMMA LettersStay ==
  ASSUME Shapes, FatesKept, LettersKept
  PROVE  LettersOnce'
<1>1. \A h \in Handlers : handler[h].lost \in Msgs \cup {NoMsg}
  BY DEF Shapes, TypeOK, Handlers, HandlerType
<1>2. \A m \in Msgs : Letter[m] \in Msgs \cup {NoMsg}
  BY Tables
<1>3. ASSUME NEW h \in Handlers, handler'[h].lost # NoMsg
      PROVE  /\ handler[h].lost = handler'[h].lost /\ handler'[h].lost \in Msgs
             /\ place'[handler'[h].lost] = "new"
             /\ \E m \in Msgs : Letter[m] = handler'[h].lost /\ place'[m] = "dead"
  <2>1. handler[h].lost = handler'[h].lost /\ handler'[h].lost \in Msgs
    BY <1>1, <1>3 DEF LettersKept
  <2>2. place[handler'[h].lost] = "new"
    BY <1>3, <2>1 DEF Shapes, LettersOnce
  <2>3. PICK m \in Msgs : Letter[m] = handler'[h].lost /\ place[m] = "dead"
    BY <1>3, <2>1 DEF Shapes, LettersOnce
  <2>4. place'[handler'[h].lost] = "new" /\ place'[m] = "dead"
    BY <2>1, <2>2, <2>3 DEF FatesKept
  <2> QED
    BY <2>1, <2>3, <2>4
<1>4. ASSUME NEW h \in Handlers, NEW k \in Handlers,
             handler'[h].lost = handler'[k].lost, handler'[h].lost # NoMsg
      PROVE  h = k
  <2>1. handler[h].lost = handler[k].lost /\ handler[h].lost # NoMsg
    BY Zenon, <1>3, <1>4
  <2> QED
    BY Zenon, <2>1 DEF Shapes, LettersOnce
<1>5. ASSUME NEW m \in Msgs, Letter[m] # NoMsg, place'[Letter[m]] # "new"
      PROVE  place'[m] = "dead"
  <2>1. Letter[m] \in Msgs /\ place[Letter[m]] # "new"
    BY <1>2, <1>5 DEF FatesKept
  <2>2. place[m] = "dead"
    BY Zenon, <1>5, <2>1 DEF Shapes, LettersOnce
  <2> QED
    BY Zenon, <2>2 DEF FatesKept
<1> QED
  BY Zenon, <1>3, <1>4, <1>5 DEF LettersOnce

LEMMA LetterSteps ==
  ASSUME Shapes, [Next]_vars
  PROVE  \/ FatesKept /\ LettersKept
         \/ \E m \in Msgs : Publish(m)
         \/ \E c \in Conns : FailAndNext(c) \/ PublishLetter(c)
<1>0. TypeOK
  BY DEF Shapes
<1>1. handler \in [Handlers -> HandlerType] /\ place \in [Msgs -> Places]
  BY <1>0 DEF TypeOK, Handlers, Places
<1>2. UNCHANGED handler => LettersKept
  BY DEF LettersKept
<1>3. UNCHANGED place => FatesKept
  BY DEF FatesKept
<1>4. \A S : ReturnToPending(S) => FatesKept
  BY <1>0, ReturnTyped DEF FatesKept
<1>5. ASSUME NEW h \in Handlers, NEW r, Become(h, r), r.lost \in {handler[h].lost, NoMsg}
      PROVE  LettersKept
  BY <1>1, <1>5 DEF Become, LettersKept
<1>6. ASSUME NEW w \in Workers, ScheduleStep(w)
      PROVE  FatesKept /\ LettersKept
  <2>1. UNCHANGED handler
    BY <1>6 DEF ScheduleStep, Take, Unschedule, Drain, HandOver, GoAgain, SetWake, ArmTimer
  <2>2. CASE Drain(w)
    <3> DEFINE g == worker[w].g
               p == Promoted(place, due, g)
    <3>1. PICK B \in Batches(p, g) : place' = Moved(p, B, "leased")
      BY Zenon, <2>2 DEF Drain
    <3>2. /\ p \in [Msgs -> Places]
          /\ \A m \in Msgs : p[m] = IF m \in {x \in due : HomeOf[x] = g /\ place[x] \in {"leased", "delayed"}}
                                    THEN "pending" ELSE place[m]
      BY <1>1, MovedTyped DEF Promoted, Places
    <3>3. B \subseteq {m \in Msgs : HomeOf[m] = g /\ p[m] = "pending"}
      BY DEF Batches, In
    <3> HIDE DEF g, p
    <3>4. \A m \in Msgs : place'[m] = IF m \in B THEN "leased" ELSE p[m]
      BY <3>1, <3>2, MovedTyped DEF Places
    <3> QED
      BY <1>2, <2>1, <3>2, <3>3, <3>4 DEF FatesKept
  <2>3. CASE HandOver(w)
    BY <1>2, <1>3, <1>4, <2>1, <2>3 DEF HandOver, groupVars
  <2>4. CASE ~Drain(w) /\ ~HandOver(w)
    BY <1>2, <1>3, <1>6, <2>1, <2>4
       DEF ScheduleStep, Take, Unschedule, GoAgain, SetWake, ArmTimer, groupVars
  <2> QED
    BY <2>2, <2>3, <2>4
<1>7. ASSUME NEW l \in Lanes, DispatchStep(l)
      PROVE  FatesKept /\ LettersKept
  BY <1>2, <1>3, <1>4, <1>7
     DEF DispatchStep, Pick, TryAcquire, AcquireCredit, Write, WriteFails, GiveBack, groupVars
<1>8. ASSUME NEW g \in Groups,
             \/ \E m \in Msgs : FireTimer(g, m)
             \/ Sweep(g) \/ SweepActivate(g)
      PROVE  FatesKept /\ LettersKept
  BY Zenon, <1>2, <1>3, <1>4, <1>8 DEF FireTimer, Sweep, SweepActivate, groupVars
<1>9. ASSUME WakeUp \/ \E m \in Msgs : Lapse(m) \/ LapseEarly(m)
      PROVE  FatesKept /\ LettersKept
  BY Zenon, <1>2, <1>3, <1>9 DEF WakeUp, Lapse, LapseEarly, groupVars
<1>10. CASE TryDispatchOne
  <2> DEFINE r == handler[Producer]
             g == HomeOf[r.m]
  <2>1. r \in HandlerType /\ g \in Groups
    BY <1>1, <1>10, Tables DEF TryDispatchOne, HandlerType, Handlers
  <2>2. Dispatches(place, due, g)
    BY <1>10 DEF TryDispatchOne, DispatchNext, Dispatches
  <2>3. Become(Producer, [r EXCEPT !.pc = "notify", !.todo = {g}])
    BY <1>10 DEF TryDispatchOne
  <2>4. [r EXCEPT !.pc = "notify", !.todo = {g}].lost = handler[Producer].lost
    BY <2>1 DEF HandlerType
  <2>5. LettersKept
    BY Zenon, <1>5, <2>3, <2>4 DEF Handlers
  <2> HIDE DEF g
  <2>6. FatesKept
    BY <1>0, <1>1, <2>1, <2>2, DispatchesTyped DEF FatesKept
  <2> QED
    BY <2>5, <2>6
<1>11. ASSUME NEW h \in Handlers, Notify(h)
       PROVE  FatesKept /\ LettersKept
  <2>1. LettersKept
    BY Zenon, <1>5, <1>11, HandlerRecords DEF Notify
  <2> QED
    BY Zenon, <1>3, <1>11, <2>1 DEF Notify, groupVars
<1>12. ASSUME NEW c \in Conns, ActivateNext(c)
       PROVE  FatesKept /\ LettersKept
  <2> DEFINE r == handler[c]
  <2>1. PICK g \in r.todo :
          Become(c, IF r.todo # {g} THEN [r EXCEPT !.todo = @ \ {g}]
                    ELSE IF r.lost # NoMsg THEN [r EXCEPT !.pc = "letter"]
                    ELSE IdleHandler)
    BY Zenon, <1>12 DEF ActivateNext
  <2>2. r \in HandlerType /\ r.pc = "activate"
    BY <1>1, <1>12 DEF ActivateNext, Handlers
  <2>3. /\ [r EXCEPT !.todo = @ \ {g}].lost = r.lost
        /\ [r EXCEPT !.pc = "letter"].lost = r.lost
        /\ IdleHandler.lost = NoMsg
    BY <2>2 DEF HandlerType, IdleHandler
  <2>4. (IF r.todo # {g} THEN [r EXCEPT !.todo = @ \ {g}]
         ELSE IF r.lost # NoMsg THEN [r EXCEPT !.pc = "letter"]
         ELSE IdleHandler).lost \in {handler[c].lost, NoMsg}
    BY <2>3
  <2>5. LettersKept
    BY Zenon, <1>5, <2>1, <2>4 DEF Handlers
  <2> QED
    BY <1>3, <1>12, <2>5 DEF ActivateNext, groupVars
<1>13. ASSUME NEW c \in Conns, CompleteAndNext(c)
       PROVE  FatesKept /\ LettersKept
  <2> DEFINE m == handler[c].m
             g == HomeOf[m]
             p == Moved(place, {m} \cap In(place, g, "leased"), "done")
  <2>1. m \in Msgs /\ g \in Groups
    BY <1>1, <1>13, Tables DEF CompleteAndNext, HandlerType, Handlers
  <2>2. Dispatches(p, due, g)
    BY Zenon, <1>13 DEF CompleteAndNext, DispatchNext, Dispatches
  <2>3. /\ p \in [Msgs -> Places]
        /\ \A x \in Msgs : p[x] = place[x] \/ (place[x] = "leased" /\ p[x] = "done")
    <3>1. /\ p \in [Msgs -> Places]
          /\ \A x \in Msgs : p[x] = IF x \in {m} \cap In(place, g, "leased") THEN "done" ELSE place[x]
      BY <1>1, MovedTyped DEF Places
    <3> HIDE DEF p
    <3> QED
      BY <3>1 DEF In
  <2>4. LettersKept
    <3>1. [IdleHandler EXCEPT !.pc = "activate", !.todo = {g}].lost = NoMsg
      BY DEF IdleHandler
    <3>2. Become(c, [IdleHandler EXCEPT !.pc = "activate", !.todo = {g}])
      BY <1>13 DEF CompleteAndNext
    <3> QED
      BY Zenon, <1>5, <3>1, <3>2 DEF Handlers
  <2> HIDE DEF g, p
  <2>5. FatesKept
    BY <1>0, <2>1, <2>2, <2>3, DispatchesTyped DEF FatesKept
  <2> QED
    BY <2>4, <2>5
<1>14. ASSUME NEW c \in Conns, Subscribe(c)
       PROVE  FatesKept /\ LettersKept
  <2>1. [IdleHandler EXCEPT !.pc = "activate", !.todo = Wants[c]].lost = NoMsg
    BY DEF IdleHandler
  <2>2. Become(c, [IdleHandler EXCEPT !.pc = "activate", !.todo = Wants[c]])
    BY <1>14 DEF Subscribe
  <2>3. LettersKept
    BY Zenon, <1>5, <2>1, <2>2 DEF Handlers
  <2> QED
    BY <1>3, <1>14, <2>3 DEF Subscribe, groupVars
<1>15. ASSUME NEW c \in Conns, WALFails(c)
       PROVE  FatesKept /\ LettersKept
  <2>1. LettersKept
    BY Zenon, <1>5, <1>15, HandlerRecords DEF WALFails, Handlers
  <2> QED
    BY <1>3, <1>15, <2>1 DEF WALFails, groupVars
<1>16. ASSUME NEW c \in Conns, NEW m \in Msgs, ACK(c, m) \/ NACK(c, m)
       PROVE  FatesKept /\ LettersKept
  <2>1. PICK pc \in {"ack", "nack"} : Answer(c, m, pc)
    BY <1>16 DEF ACK, NACK
  <2>2. [IdleHandler EXCEPT !.pc = pc, !.m = m].lost = NoMsg
    BY DEF IdleHandler
  <2>3. Become(c, [IdleHandler EXCEPT !.pc = pc, !.m = m])
    BY <2>1 DEF Answer
  <2>4. LettersKept
    BY Zenon, <1>5, <2>2, <2>3 DEF Handlers
  <2> QED
    BY <1>3, <2>1, <2>4 DEF Answer, groupVars
<1>17. ASSUME NEW c \in Conns, Leave(c) \/ Unregister(c) \/ Close(c)
       PROVE  FatesKept /\ LettersKept
  BY <1>2, <1>3, <1>17 DEF Leave, Unregister, Close, groupVars
<1>18. CASE UNCHANGED vars
  BY <1>2, <1>3, <1>18 DEF vars, groupVars
<1> QED
  BY <1>6, <1>7, <1>8, <1>9, <1>10, <1>11, <1>12, <1>13, <1>14, <1>15, <1>16, <1>17, <1>18
     DEF Next, HandlerStep, Handlers

LEMMA LettersPreserved ==
  ASSUME Shapes, [Next]_vars
  PROVE  LettersOnce'
<1>0. TypeOK /\ LettersOnce
  BY DEF Shapes
<1>1. handler \in [Handlers -> HandlerType] /\ place \in [Msgs -> Places]
  BY <1>0 DEF TypeOK, Handlers, Places
<1>2. \A h \in Handlers : handler[h].lost \in Msgs \cup {NoMsg}
  BY <1>1 DEF HandlerType
<1>3. CASE FatesKept /\ LettersKept
  BY <1>3, LettersStay
<1>4. ASSUME NEW m \in Msgs, Publish(m)
      PROVE  LettersOnce'
  <2>1. \A h \in Handlers : handler'[h].lost \in {handler[h].lost, NoMsg}
    <3>1. [IdleHandler EXCEPT !.pc = "try", !.m = m].lost = NoMsg
      BY DEF IdleHandler
    <3>2. handler' = [handler EXCEPT ![Producer] = [IdleHandler EXCEPT !.pc = "try", !.m = m]]
      BY <1>4 DEF Publish, Become
    <3> QED
      BY <1>1, <3>1, <3>2
  <2>2. \A x \in Msgs : place'[x] = IF x = m THEN "pending" ELSE place[x]
    BY <1>4 DEF Publish, Moved
  <2>3. place[m] = "new" /\ \A x \in Msgs : Letter[x] # m
    BY <1>4 DEF Publish, Published
  <2>4. ASSUME NEW h \in Handlers, handler'[h].lost # NoMsg
        PROVE  /\ handler[h].lost = handler'[h].lost
               /\ place'[handler'[h].lost] = "new"
               /\ \E x \in Msgs : Letter[x] = handler'[h].lost /\ place'[x] = "dead"
    <3>1. handler[h].lost = handler'[h].lost /\ handler'[h].lost \in Msgs
      BY <1>2, <2>1, <2>4
    <3>2. PICK x \in Msgs : Letter[x] = handler'[h].lost /\ place[x] = "dead"
      BY <1>0, <2>4, <3>1 DEF LettersOnce
    <3>3. place[handler'[h].lost] = "new"
      BY <1>0, <2>4, <3>1 DEF LettersOnce
    <3>4. handler'[h].lost # m /\ x # m
      BY <2>3, <3>2
    <3> QED
      BY <2>2, <3>1, <3>2, <3>3, <3>4
  <2>5. ASSUME NEW h \in Handlers, NEW k \in Handlers,
               handler'[h].lost = handler'[k].lost, handler'[h].lost # NoMsg
        PROVE  h = k
    <3>1. handler[h].lost = handler[k].lost /\ handler[h].lost # NoMsg
      BY Zenon, <2>4, <2>5
    <3> QED
      BY Zenon, <1>0, <3>1 DEF LettersOnce
  <2>6. ASSUME NEW x \in Msgs, Letter[x] # NoMsg, place'[Letter[x]] # "new"
        PROVE  place'[x] = "dead"
    <3>1. Letter[x] \in Msgs /\ Letter[x] # m
      BY <2>3, <2>6, Tables
    <3>2. place[x] = "dead"
      BY <1>0, <2>2, <2>6, <3>1 DEF LettersOnce
    <3> QED
      BY <2>2, <2>3, <3>2
  <2> QED
    BY Zenon, <2>4, <2>5, <2>6 DEF LettersOnce
<1>5. ASSUME NEW c \in Conns, FailAndNext(c)
      PROVE  LettersOnce'
  <2> DEFINE m == handler[c].m
             g == HomeOf[m]
             S == {m} \cap In(place, g, "leased")
  <2>1. m \in Msgs /\ g \in Groups
    BY <1>1, <1>5, Tables DEF FailAndNext, HandlerType, Handlers
  <2>2. PICK s \in {"delayed", "dead"} :
          LET lost == IF S # {} /\ s = "dead" THEN Letter[m] ELSE NoMsg
          IN  /\ DispatchNext(Moved(place, S, s), due \ S, g, TRUE)
              /\ Become(c, [IdleHandler EXCEPT !.pc = "activate", !.todo = {g},
                                               !.lost = lost])
    BY Zenon, <1>5 DEF FailAndNext
  <2> DEFINE lost == IF S # {} /\ s = "dead" THEN Letter[m] ELSE NoMsg
             p == Moved(place, S, s)
  <2>3. lost \in Msgs \cup {NoMsg}
    BY <2>1, Tables
  <2>4. lost # NoMsg => place[m] = "leased" /\ s = "dead" /\ m \in S /\ lost = Letter[m]
    BY DEF In
  <2>5. /\ p \in [Msgs -> Places]
        /\ \A x \in Msgs : p[x] = IF x \in S THEN s ELSE place[x]
    BY <1>1, MovedTyped DEF Places
  <2>6. \A x \in S : place[x] = "leased"
    BY DEF In
  <2>7. Dispatches(p, due \ S, g)
    BY Zenon, <2>2 DEF DispatchNext, Dispatches
  <2>8. handler' = [handler EXCEPT ![c] = [IdleHandler EXCEPT !.pc = "activate", !.todo = {g}, !.lost = lost]]
    BY <2>2 DEF Become
  <2>9. [IdleHandler EXCEPT !.pc = "activate", !.todo = {g}, !.lost = lost].lost = lost
    BY DEF IdleHandler
  <2> HIDE DEF g, S, p, lost
  <2>10. \A h \in Handlers : handler'[h].lost = IF h = c THEN lost ELSE handler[h].lost
    BY <1>1, <2>8, <2>9
  <2>11. /\ \A x \in Msgs : place'[x] = "new" <=> place[x] = "new"
         /\ \A x \in Msgs : place[x] = "dead" => place'[x] = "dead"
         /\ s = "dead" => \A x \in S \cap Msgs : place'[x] = "dead"
    <3>1. /\ \A x \in Msgs : p[x] \in {"new", "done", "dead"} => place'[x] = p[x]
          /\ \A x \in Msgs : place'[x] \in {"new", "done", "dead"} => place'[x] = p[x]
      BY <1>0, <2>1, <2>5, <2>7, DispatchesTyped
    <3> QED
      BY <2>5, <2>6, <3>1
  <2>12. lost # NoMsg =>
           /\ place[lost] = "new" /\ place'[m] = "dead"
           /\ \A h \in Handlers : handler[h].lost # lost
    <3>1. SUFFICES ASSUME lost # NoMsg
                   PROVE  /\ place[lost] = "new" /\ place'[m] = "dead"
                          /\ \A h \in Handlers : handler[h].lost # lost
      OBVIOUS
    <3>2. place[lost] = "new" /\ place'[m] = "dead"
      BY <1>0, <2>1, <2>3, <2>4, <2>11, <3>1 DEF LettersOnce
    <3>3. ASSUME NEW h \in Handlers, handler[h].lost = lost
          PROVE  FALSE
      <4>1. PICK x \in Msgs : Letter[x] = lost /\ place[x] = "dead"
        BY <1>0, <3>1, <3>3 DEF LettersOnce
      <4>2. x = m
        BY <2>1, <2>4, <3>1, <4>1, LettersFresh
      <4> QED
        BY <2>4, <3>1, <4>1, <4>2
    <3> QED
      BY <3>2, <3>3
  <2>13. \A h \in Handlers : handler'[h].lost # NoMsg =>
           /\ place'[handler'[h].lost] = "new"
           /\ \E x \in Msgs : Letter[x] = handler'[h].lost /\ place'[x] = "dead"
    <3> SUFFICES ASSUME NEW h \in Handlers, handler'[h].lost # NoMsg
                 PROVE  /\ place'[handler'[h].lost] = "new"
                        /\ \E x \in Msgs : Letter[x] = handler'[h].lost /\ place'[x] = "dead"
      OBVIOUS
    <3>1. CASE h = c
      <4>1. handler'[h].lost = lost /\ lost # NoMsg /\ lost \in Msgs
        BY <2>3, <2>10, <3>1
      <4>2. place[lost] = "new" /\ place'[m] = "dead" /\ Letter[m] = lost
        BY <2>4, <2>12, <4>1
      <4> QED
        BY <2>1, <2>11, <4>1, <4>2
    <3>2. CASE h # c
      <4>1. handler'[h].lost = handler[h].lost /\ handler[h].lost # NoMsg
            /\ handler[h].lost \in Msgs
        BY <1>2, <2>10, <3>2
      <4>2. /\ place[handler[h].lost] = "new"
            /\ \E x \in Msgs : Letter[x] = handler[h].lost /\ place[x] = "dead"
        BY <1>0, <4>1 DEF LettersOnce
      <4> QED
        BY <2>11, <4>1, <4>2
    <3> QED
      BY <3>1, <3>2
  <2>14. \A h, k \in Handlers :
           handler'[h].lost = handler'[k].lost /\ handler'[h].lost # NoMsg => h = k
    BY <1>0, <2>10, <2>12 DEF LettersOnce
  <2>15. ASSUME NEW x \in Msgs, Letter[x] # NoMsg, place'[Letter[x]] # "new"
         PROVE  place'[x] = "dead"
    <3>1. Letter[x] \in Msgs
      BY <2>15, Tables
    <3>2. place[x] = "dead"
      BY Zenon, <1>0, <2>11, <2>15, <3>1 DEF LettersOnce
    <3> QED
      BY Zenon, <2>11, <3>2
  <2> QED
    BY Zenon, <2>13, <2>14, <2>15 DEF LettersOnce
<1>6. ASSUME NEW c \in Conns, PublishLetter(c)
      PROVE  LettersOnce'
  <2> DEFINE m == handler[c].lost
  <2>1. m \in Msgs /\ m # NoMsg
    BY <1>1, <1>6, Missing DEF PublishLetter, HandlerType, Handlers
  <2>2. \A h \in Handlers : handler'[h].lost = IF h = c THEN NoMsg ELSE handler[h].lost
    <3>1. [IdleHandler EXCEPT !.pc = "notify", !.todo = {HomeOf[m]}].lost = NoMsg
      BY DEF IdleHandler
    <3>2. handler' = [handler EXCEPT ![c] = [IdleHandler EXCEPT !.pc = "notify", !.todo = {HomeOf[m]}]]
      BY <1>6 DEF PublishLetter, Become
    <3> QED
      BY <1>1, <3>1, <3>2
  <2>3. \A x \in Msgs : place'[x] = IF x = m THEN "pending" ELSE place[x]
    BY <1>6 DEF PublishLetter, Moved
  <2>4. place[m] = "new" /\ \E x \in Msgs : Letter[x] = m /\ place[x] = "dead"
    BY <1>0, <2>1 DEF LettersOnce, Handlers
  <2>5. \A h \in Handlers : handler[h].lost = m => h = c
    BY <1>0, <2>1 DEF LettersOnce, Handlers
  <2> HIDE DEF m
  <2>6. ASSUME NEW h \in Handlers, handler'[h].lost # NoMsg
        PROVE  /\ handler[h].lost = handler'[h].lost
               /\ place'[handler'[h].lost] = "new"
               /\ \E x \in Msgs : Letter[x] = handler'[h].lost /\ place'[x] = "dead"
    <3>1. /\ handler[h].lost = handler'[h].lost /\ handler'[h].lost \in Msgs
          /\ handler'[h].lost # m
      BY <1>2, <2>2, <2>5, <2>6
    <3>2. PICK x \in Msgs : Letter[x] = handler'[h].lost /\ place[x] = "dead"
      BY <1>0, <2>6, <3>1 DEF LettersOnce
    <3>3. place[handler'[h].lost] = "new"
      BY <1>0, <2>6, <3>1 DEF LettersOnce
    <3>4. x # m
      BY <2>4, <3>2
    <3> QED
      BY <2>3, <3>1, <3>2, <3>3, <3>4
  <2>7. ASSUME NEW h \in Handlers, NEW k \in Handlers,
               handler'[h].lost = handler'[k].lost, handler'[h].lost # NoMsg
        PROVE  h = k
    <3>1. handler[h].lost = handler[k].lost /\ handler[h].lost # NoMsg
      BY Zenon, <2>6, <2>7
    <3> QED
      BY Zenon, <1>0, <3>1 DEF LettersOnce
  <2>8. ASSUME NEW x \in Msgs, Letter[x] # NoMsg, place'[Letter[x]] # "new"
        PROVE  place'[x] = "dead"
    <3>1. Letter[x] \in Msgs
      BY <2>8, Tables
    <3>2. place[x] = "dead"
      <4>1. CASE Letter[x] = m
        <5>1. PICK y \in Msgs : Letter[y] = m /\ place[y] = "dead"
          BY <2>4
        <5> QED
          BY Zenon, <2>8, <4>1, <5>1, LettersFresh
      <4>2. CASE Letter[x] # m
        BY Zenon, <1>0, <2>3, <2>8, <3>1, <4>2 DEF LettersOnce
      <4> QED
        BY <4>1, <4>2
    <3> QED
      BY <2>3, <2>4, <3>2
  <2> QED
    BY Zenon, <2>6, <2>7, <2>8 DEF LettersOnce
<1> QED
  BY <1>3, <1>4, <1>5, <1>6, LetterSteps

LEMMA ShapesInitially == Init => Shapes
<1> SUFFICES ASSUME Init
             PROVE  Shapes
  OBVIOUS
<1>1. IdleWorker \in WorkerType /\ IdleDispatcher \in DispatcherType
  BY DEF IdleWorker, WorkerType, IdleDispatcher, DispatcherType
<1>2. IdleHandler \in HandlerType /\ IdleHandler.lost = NoMsg
  BY Zenon, HandlerRecords
<1>3. TypeOK
  <2>1. <<>> \in Seq(Groups) /\ <<>> \in Seq(Msgs) /\ Len(<<>>) = 0
    OBVIOUS
  <2> QED
    BY <1>1, <1>2, <2>1, Limits DEF Init, TypeOK
<1>4. LettersOnce
  BY <1>2, Tables, Missing DEF Init, LettersOnce, Handlers
<1> QED
  BY <1>3, <1>4 DEF Shapes

LEMMA ShapesPreserved ==
  ASSUME SizesAreNumbers
  PROVE  Shapes /\ [Next]_vars => Shapes'
<1> SUFFICES ASSUME Shapes, [Next]_vars
             PROVE  TypeOK' /\ LettersOnce'
  BY DEF Shapes
<1>1. TypeOK
  BY DEF Shapes
<1>2. TypeOK'
  <2>1. ASSUME NEW w \in Workers, ScheduleStep(w)
        PROVE  TypeOK'
    BY <1>1, <2>1, ScheduleTyped
  <2>2. ASSUME NEW l \in Lanes, DispatchStep(l)
        PROVE  TypeOK'
    BY <1>1, <2>2, DispatchTyped
  <2>3. CASE TimeStep
    BY <1>1, <2>3, TimeTyped
  <2>4. CASE FrameStep
    BY <2>4, HandlerTyped
  <2>5. ASSUME NEW c \in Conns, LeaveStep(c)
        PROVE  TypeOK'
    BY <1>1, <2>5, LeaveTyped
  <2>6. CASE UNCHANGED vars
    BY <1>1, <2>6 DEF vars, groupVars, schedVars, wakeVars, countVars, TypeOK
  <2> QED
    BY <2>1, <2>2, <2>3, <2>4, <2>5, <2>6, StepKinds
<1> QED
  BY <1>2, LettersPreserved

-----------------------------------------------------------------------------
(* The activation channel.                                                 *)

(* FlagMeansQueued without numbers: a group whose flag is set is in one    *)
(* place of the channel, or with one worker, and a group whose flag is not *)
(* set is nowhere.  It is inductive with the shapes.                       *)
QueuedOnce ==
  \A g \in Groups :
    /\ g \notin scheduled => Queued(g) = {} /\ Taken(g) = {}
    /\ g \in scheduled => \/ Taken(g) = {} /\ \E i : Queued(g) = {i}
                          \/ Queued(g) = {} /\ \E w : Taken(g) = {w}

(* What the steps other than Take and Unschedule do to the channel.        *)
Activates == UNCHANGED schedVars \/ \E g \in Groups : Activate(g)
TakenKept == \A g \in Groups : Taken(g)' = Taken(g)

(* A worker that has not just taken a group, and does not.                 *)
LEMMA OtherStep ==
  ASSUME TypeOK, NEW w \in Workers, NEW r, Step(w, r),
         worker[w].pc # "taken", r.pc # "taken"
  PROVE  TakenKept
BY DEF TypeOK, Step, TakenKept, Taken

LEMMA QueueSteps ==
  ASSUME TypeOK, [Next]_vars
  PROVE  \/ \E w \in Workers : Take(w) \/ Unschedule(w)
         \/ Activates /\ TakenKept
<1>1. UNCHANGED worker => TakenKept
  BY DEF TakenKept, Taken
<1>2. UNCHANGED schedVars => Activates
  BY DEF Activates
<1>3. ASSUME NEW w \in Workers, ScheduleStep(w), ~Take(w), ~Unschedule(w)
      PROVE  Activates /\ TakenKept
  <2>1. worker[w] \in WorkerType
    BY DEF TypeOK
  <2>2. IdleWorker.pc = "idle"
    BY DEF IdleWorker
  <2>3. CASE Drain(w)
    <3>1. PICK b, t : Step(w, [pc |-> "hand", g |-> worker[w].g, batch |-> b, then |-> t])
      BY Zenon, <2>3 DEF Drain
    <3>2. worker[w].pc = "drain" /\ UNCHANGED schedVars
      BY Zenon, <2>3 DEF Drain
    <3> QED
      BY <1>2, <3>1, <3>2, OtherStep
  <2>4. CASE HandOver(w)
    <3>1. /\ worker[w].pc = "hand" /\ UNCHANGED schedVars
          /\ \/ Step(w, [worker[w] EXCEPT !.batch = Tail(@)])
             \/ Step(w, IdleWorker)
      BY <2>4 DEF HandOver
    <3>2. [worker[w] EXCEPT !.batch = Tail(@)].pc = "hand"
      BY <2>1, <3>1 DEF WorkerType
    <3> QED
      BY Zenon, <1>2, <2>2, <3>1, <3>2, OtherStep
  <2>5. CASE GoAgain(w)
    <3>1. worker[w].pc = "hand" /\ Step(w, IdleWorker)
      BY Zenon, <2>5 DEF GoAgain
    <3>2. Activates
      <4>1. worker[w].g \in Groups
        BY <2>1, <3>1 DEF WorkerType
      <4> QED
        BY <2>5, <4>1 DEF GoAgain, Activates
    <3> QED
      BY <2>2, <3>1, <3>2, OtherStep
  <2>6. CASE SetWake(w)
    <3>1. /\ worker[w].pc = "hand" /\ UNCHANGED schedVars
          /\ Step(w, [worker[w] EXCEPT !.pc = "arm"]) \/ Step(w, IdleWorker)
      BY <2>6 DEF SetWake
    <3>2. [worker[w] EXCEPT !.pc = "arm"].pc = "arm"
      BY <2>1 DEF WorkerType
    <3> QED
      BY Zenon, <1>2, <2>2, <3>1, <3>2, OtherStep
  <2>7. CASE ArmTimer(w)
    <3>1. worker[w].pc = "arm" /\ Step(w, IdleWorker) /\ UNCHANGED schedVars
      BY <2>7 DEF ArmTimer
    <3> QED
      BY <1>2, <2>2, <3>1, OtherStep
  <2> QED
    BY <1>3, <2>3, <2>4, <2>5, <2>6, <2>7 DEF ScheduleStep
<1>4. ASSUME NEW l \in Lanes, DispatchStep(l)
      PROVE  Activates /\ TakenKept
  BY Zenon, <1>1, <1>2, <1>4
     DEF DispatchStep, Pick, TryAcquire, AcquireCredit, Write, WriteFails, GiveBack
<1>5. CASE TimeStep
  <2>1. UNCHANGED worker
    BY Zenon, <1>5 DEF TimeStep, FireTimer, WakeUp, Sweep, SweepActivate, Lapse, LapseEarly
  <2>2. WakeUp => Activates
    BY DEF TypeOK, WakeUp, Activates
  <2>3. \A g \in Groups : SweepActivate(g) => Activates
    BY DEF SweepActivate, Activates
  <2>4. \A g \in Groups, m \in Msgs : FireTimer(g, m) \/ Sweep(g) \/ Lapse(m) \/ LapseEarly(m)
          => UNCHANGED schedVars
    BY Zenon DEF FireTimer, Sweep, Lapse, LapseEarly
  <2>6. \A m \in Msgs : Lapse(m) \/ LapseEarly(m) => UNCHANGED schedVars
    BY Zenon DEF Lapse, LapseEarly
  <2>7. \A g \in Groups : Sweep(g) => UNCHANGED schedVars
    BY DEF Sweep
  <2> QED
    BY <1>1, <1>2, <1>5, <2>1, <2>2, <2>3, <2>4, <2>6, <2>7 DEF TimeStep
<1>6. CASE FrameStep
  <2>1. UNCHANGED worker
    BY Zenon, <1>6 DEF FrameStep, HandlerStep, Publish, TryDispatchOne, Notify, Subscribe, WALFails,
                ActivateNext, CompleteAndNext, FailAndNext, PublishLetter, ACK, NACK, Answer
  <2>2. ASSUME NEW h \in Handlers
        PROVE  handler[h].todo \subseteq Groups
    BY DEF TypeOK, HandlerType, Handlers
  <2>3. ASSUME NEW h \in Handlers, Notify(h)
        PROVE  Activates
    BY Zenon, <2>2, <2>3 DEF Notify, Activates
  <2>4. ASSUME NEW h \in Conns, ActivateNext(h)
        PROVE  Activates
    BY <2>2, <2>4 DEF ActivateNext, Activates, Handlers
  <2>5. \/ \E h \in Handlers : Notify(h)
        \/ \E h \in Conns : ActivateNext(h)
        \/ UNCHANGED schedVars
    BY Zenon, <1>6 DEF FrameStep, HandlerStep, Handlers, Publish, TryDispatchOne, Subscribe, WALFails,
                CompleteAndNext, FailAndNext, PublishLetter, ACK, NACK, Answer
  <2> QED
    BY <1>1, <1>2, <2>1, <2>3, <2>4, <2>5
<1>7. ASSUME NEW c \in Conns, LeaveStep(c)
      PROVE  Activates /\ TakenKept
  BY <1>1, <1>2, <1>7 DEF LeaveStep, Leave, Unregister, Close
<1>8. CASE UNCHANGED vars
  BY <1>1, <1>2, <1>8 DEF vars
<1> QED
  BY <1>3, <1>4, <1>5, <1>6, <1>7, <1>8, StepKinds

LEMMA QueuedOncePreserved ==
  ASSUME TypeOK, QueuedOnce, [Next]_vars
  PROVE  QueuedOnce'
<1>1. /\ active \in Seq(Groups) /\ Len(active) \in Nat /\ DOMAIN active = 1..Len(active)
      /\ \A i \in 1..Len(active) : active[i] \in Groups
  BY DEF TypeOK
<1>2. worker \in [Workers -> WorkerType]
  BY DEF TypeOK
<1>3. ASSUME NEW w \in Workers, Take(w)
      PROVE  QueuedOnce'
  <2>1. active # <<>> /\ worker[w].pc = "idle" /\ scheduled' = scheduled
    BY <1>3 DEF Take
  <2>0. PICK h \in Groups : h = Head(active)
    BY <1>1, <2>1
  <2>2. /\ h = active[1] /\ h \in Groups /\ Len(active) > 0
        /\ active' = Tail(active) /\ Len(active') = Len(active) - 1
        /\ DOMAIN active' = 1..(Len(active) - 1)
        /\ \A i \in 1..(Len(active) - 1) : active'[i] = active[i + 1]
    <3>1. active' = Tail(active) /\ active' \in Seq(Groups)
      BY <1>1, <1>3, <2>1 DEF Take
    <3>2. /\ Len(Tail(active)) = Len(active) - 1
          /\ \A i \in 1..Len(Tail(active)) : Tail(active)[i] = active[i + 1]
      BY <1>1, <2>1
    <3>3. Len(active) > 0
      BY <1>1, <2>1
    <3>4. h = active[1]
      BY <1>1, <2>0, <2>1
    <3> QED
      BY <1>1, <3>1, <3>2, <3>3, <3>4
  <2>3. worker' = [worker EXCEPT ![w] = [IdleWorker EXCEPT !.pc = "taken", !.g = h]]
    BY <1>3, <2>0 DEF Take, Step
  <2>4. /\ [IdleWorker EXCEPT !.pc = "taken", !.g = h].pc = "taken"
        /\ [IdleWorker EXCEPT !.pc = "taken", !.g = h].g = h
    BY DEF IdleWorker
  <2>5. \A g \in Groups : Taken(g)' = IF g = h THEN Taken(g) \cup {w} ELSE Taken(g)
    BY <1>2, <2>1, <2>3, <2>4 DEF Taken
  <2>6. 1 \in Queued(h)
    BY <1>1, <2>2 DEF Queued
  <2>7. h \in scheduled /\ Taken(h) = {} /\ Queued(h) = {1}
    BY <2>2, <2>6 DEF QueuedOnce
  <2>8. Queued(h)' = {}
    BY <1>1, <2>2, <2>7 DEF Queued
  <2>9. ASSUME NEW g \in Groups, g # h
        PROVE  /\ Queued(g) = {} => Queued(g)' = {}
               /\ \A i : Queued(g) = {i} => Queued(g)' = {i - 1}
    <3>1. \A j : j \in Queued(g)' <=> j \in 1..(Len(active) - 1) /\ j + 1 \in Queued(g)
      BY <1>1, <2>2 DEF Queued
    <3>2. 1 \notin Queued(g)
      BY <2>2, <2>9 DEF Queued
    <3>3. Queued(g) \subseteq 1..Len(active)
      BY <1>1 DEF Queued
    <3>4. Queued(g) = {} => Queued(g)' = {}
      BY <3>1
    <3>5. ASSUME NEW i, Queued(g) = {i}
          PROVE  Queued(g)' = {i - 1}
      <4>1. i \in 2..Len(active)
        BY <1>1, <3>2, <3>3, <3>5
      <4>2. i - 1 \in Queued(g)'
        <5>1. i - 1 \in 1..(Len(active) - 1) /\ (i - 1) + 1 = i /\ i \in Queued(g)
          BY <1>1, <3>5, <4>1
        <5> QED
          BY <3>1, <5>1
      <4>3. \A j \in Queued(g)' : j = i - 1
        BY <1>1, <3>1, <3>5, <4>1
      <4> QED
        BY <4>2, <4>3
    <3> QED
      BY <3>4, <3>5
  <2>10. \E x : Taken(h)' = {x}
    BY <2>5, <2>7
  <2>11. ASSUME NEW g \in Groups, g # h
         PROVE  /\ Taken(g)' = Taken(g)
                /\ Queued(g) = {} => Queued(g)' = {}
                /\ (\E i : Queued(g) = {i}) => \E i : Queued(g)' = {i}
    BY Zenon, <2>5, <2>9, <2>11
  <2>12. ASSUME NEW g \in Groups
         PROVE  /\ g \notin scheduled => Queued(g)' = {} /\ Taken(g)' = {}
                /\ g \in scheduled => \/ Taken(g)' = {} /\ \E i : Queued(g)' = {i}
                                      \/ Queued(g)' = {} /\ \E x : Taken(g)' = {x}
    <3>1. CASE g = h
      BY <2>7, <2>8, <2>10, <3>1
    <3>2. CASE g # h
      BY Zenon, <2>11, <3>2 DEF QueuedOnce
    <3> QED
      BY Zenon, <3>1, <3>2
  <2> QED
    BY Zenon, <2>1, <2>12 DEF QueuedOnce
<1>4. ASSUME NEW w \in Workers, Unschedule(w)
      PROVE  QueuedOnce'
  <2>0. PICK h \in Groups : h = worker[w].g
    BY <1>2, <1>4 DEF Unschedule, WorkerType
  <2>1. /\ worker[w].pc = "taken" /\ scheduled' = scheduled \ {h} /\ active' = active
        /\ worker' = [worker EXCEPT ![w] = [worker[w] EXCEPT !.pc = "drain"]]
    BY <1>4, <2>0 DEF Unschedule, Step
  <2>2. [worker[w] EXCEPT !.pc = "drain"].pc = "drain"
    BY <1>2, <2>1 DEF WorkerType
  <2>3. w \in Taken(h)
    BY <2>0, <2>1 DEF Taken
  <2>4. Taken(h) = {w} /\ Queued(h) = {}
    BY <2>2, <2>3 DEF QueuedOnce
  <2>5. \A g \in Groups : Taken(g)' = Taken(g) \ {w}
    BY <1>2, <2>1, <2>2 DEF Taken
  <2>6. \A g \in Groups : g # h => w \notin Taken(g)
    BY <2>0, <2>1 DEF Taken
  <2>7. \A g \in Groups : Queued(g)' = Queued(g)
    BY <2>1 DEF Queued
  <2>8. Taken(h)' = {} /\ Queued(h)' = {}
    BY <2>2, <2>4, <2>5, <2>7
  <2>9. \A g \in Groups : g # h => Taken(g)' = Taken(g) /\ Queued(g)' = Queued(g)
    BY <1>2, <2>0, <2>1, <2>2 DEF Taken, Queued
  <2> QED
    BY Zenon, <2>1, <2>8, <2>9 DEF QueuedOnce
<1>5. CASE Activates /\ TakenKept
  <2>1. CASE UNCHANGED schedVars
    BY Zenon, <1>5, <2>1 DEF schedVars, TakenKept, QueuedOnce, Queued
  <2>2. ASSUME NEW h \in Groups, Activate(h), ~UNCHANGED schedVars
        PROVE  QueuedOnce'
    <3>1. /\ h \notin scheduled
          /\ scheduled' = scheduled \cup {h} /\ active' = Append(active, h)
      BY <2>2 DEF Activate
    <3>2. /\ DOMAIN active' = 1..(Len(active) + 1)
          /\ \A i \in 1..Len(active) : active'[i] = active[i]
          /\ active'[Len(active) + 1] = h
      BY <1>1, <3>1
    <3>3. Queued(h) = {} /\ Taken(h) = {}
      BY <3>1 DEF QueuedOnce
    <3>4. Queued(h)' = {Len(active) + 1}
      <4>1. \A j \in 1..Len(active) : active[j] # h
        BY <1>1, <3>3 DEF Queued
      <4>2. \A j \in 1..(Len(active) + 1) : active'[j] = h <=> j = Len(active) + 1
        BY <1>1, <3>2, <4>1
      <4> QED
        BY <1>1, <3>2, <4>2 DEF Queued
    <3>5. \A g \in Groups : g # h => Queued(g)' = Queued(g)
      BY <1>1, <3>2 DEF Queued
    <3> QED
      BY Zenon, <1>5, <3>1, <3>3, <3>4, <3>5 DEF QueuedOnce, TakenKept
  <2> QED
    BY <1>5, <2>1, <2>2 DEF Activates
<1> QED
  BY <1>3, <1>4, <1>5, QueueSteps
=============================================================================
