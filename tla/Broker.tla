------------------------------- MODULE Broker -------------------------------
(***************************************************************************)
(* Delivery through the broker: connection handlers, scheduler workers,    *)
(* dispatch workers, the timing wheel and the lease sweeper, which share   *)
(* the groups, the activation channel, the dispatch channels and the       *)
(* counters of messages in flight (internal/broker, internal/scheduler,    *)
(* internal/server/credit.go).                                             *)
(*                                                                         *)
(* A group is seen here only by what its operations promise (module Group  *)
(* has the operations themselves): which of its messages are pending,      *)
(* leased or delayed, and whose deadline has passed.  Time is abstracted   *)
(* to that last set.  Groups have no rate limit.                           *)
(***************************************************************************)
EXTENDS Integers, Sequences, FiniteSets

CONSTANTS Groups, Msgs, Conns, Workers, Lanes,
          HomeOf,         \* message -> its group
          Letter,         \* message -> the ID of its dead letter, or NoMsg
          Wants,          \* consumer -> the groups its pattern matches
          LaneOf,         \* group -> its dispatch channel (HashKey % n)
          LaneCap,        \* capacity of a dispatch channel
          ActiveCap,      \* capacity of the activation channel
          Parallelism,    \* leases a group may have
          MaxInflight,    \* deliveries a connection may leave unanswered
          GlobalMax,      \* the same for the broker; 0 is no limit
          GlobalMaxMsgs,  \* messages in the broker; 0 is no limit
          Mishaps,        \* what may go wrong, some of: "nack", "leave" (a
                          \* consumer), "lease" (expires under a delivery),
                          \* "wal" (refuses an event), "buffer" (is full)
          MaxMishaps,     \* bound on how often
          Producer, NoMsg, NoGroup, NoConn

ASSUME BrokerAssumption ==
  /\ IsFiniteSet(Msgs)
  /\ HomeOf \in [Msgs -> Groups] /\ Letter \in [Msgs -> Msgs \cup {NoMsg}]
  /\ Wants \in [Conns -> SUBSET Groups] /\ LaneOf \in [Groups -> Lanes]
  /\ {LaneCap, ActiveCap, Parallelism, MaxInflight} \subseteq Nat \ {0}
  /\ {GlobalMax, GlobalMaxMsgs, MaxMishaps} \subseteq Nat
  /\ Mishaps \subseteq {"nack", "leave", "lease", "wal", "buffer"}
  /\ NoMsg \notin Msgs /\ NoGroup \notin Groups /\ NoConn \notin Conns
  /\ Producer \notin Conns
  \* The ID of a dead letter is fresh.
  /\ \A m, x \in Msgs : Letter[m] = Letter[x] /\ Letter[m] # NoMsg => m = x

VARIABLES place,       \* message -> where its group has it
          due,         \* leased and delayed messages whose deadline passed
          scheduled,   \* the groups whose isScheduled is 1
          active,      \* Scheduler.active
          worker,      \* scheduler worker -> its progress
          wake,        \* group -> wakeScheduledAt, as the message whose
                       \* deadline it is, or NoMsg for 0
          timers,      \* the wheel: <<group, message>> for each callback
          firing,      \* the group of the callback that is running
          expired,     \* groups the sweeper has still to activate
          lane,        \* dispatch channel -> its contents
          dispatcher,  \* dispatch channel -> the progress of its worker
          conn,        \* consumer -> the state of its connection
          held,        \* consumer -> message -> deliveries not yet answered
          credit,      \* consumer -> credit.inflight
          quota,       \* brokerQuota.inflight
          handler,     \* connection -> the progress of its handler
          globalMsgs,  \* Broker.globalMsgs
          mishaps      \* mishaps so far

Mishap(k) == k \in Mishaps /\ mishaps < MaxMishaps /\ mishaps' = mishaps + 1

groupVars   == <<place, due>>
schedVars   == <<scheduled, active>>
wakeVars    == <<wake, timers, firing>>
countVars   == <<conn, held, credit, quota>>
vars == <<groupVars, schedVars, worker, wakeVars, expired, lane, dispatcher,
          countVars, handler, globalMsgs, mishaps>>

-----------------------------------------------------------------------------
(* Groups.                                                                 *)

In(p, g, s) == {m \in Msgs : HomeOf[m] = g /\ p[m] = s}

(* Messages that a deadline still keeps in place.                          *)
Waiting(g) == (In(place, g, "leased") \cup In(place, g, "delayed")) \ due

Moved(p, S, s) == [m \in Msgs |-> IF m \in S THEN s ELSE p[m]]

(* promoteDelayed: what is due, by D, becomes pending.                     *)
Promoted(p, D, g) == Moved(p, {m \in D : HomeOf[m] = g
                                         /\ p[m] \in {"leased", "delayed"}}, "pending")

StillDue(g) == {m \in due : HomeOf[m] # g}

(* What next() may hand out from p; its order is the group's concern.      *)
Eligible(p, g) ==
  IF Cardinality(In(p, g, "leased")) < Parallelism THEN In(p, g, "pending") ELSE {}

NextOf(p, g) == IF Eligible(p, g) = {} THEN {NoMsg} ELSE Eligible(p, g)

Known == {HomeOf[m] : m \in {x \in Msgs : place[x] # "new"}}

(* What registry.has and registry.next find.                               *)
Registered == {c \in Conns : conn[c] \in {"up", "leaving"}}
Subscribers(g) == {c \in Registered : g \in Wants[c]}

ReturnToPending(S) ==
  /\ place' = Moved(place, {m \in S : place[m] = "leased"}, "pending")
  /\ due' = due \ S

-----------------------------------------------------------------------------
(* The scheduler's side.                                                   *)

\* Mutant of Activate: the flag stays set when the channel is full.
ActivateKeepsFlag(g) ==
  IF g \in Known /\ g \notin scheduled
  THEN /\ scheduled' = scheduled \cup {g}
       /\ active' = IF Len(active) < ActiveCap THEN Append(active, g) ELSE active
  ELSE UNCHANGED schedVars

(* Activate: TrySchedule, and a send that does not block.                  *)
Activate(g) ==
  IF g \in Known /\ g \notin scheduled /\ Len(active) < ActiveCap
  THEN scheduled' = scheduled \cup {g} /\ active' = Append(active, g)
  ELSE UNCHANGED schedVars

IdleWorker == [pc |-> "idle", g |-> NoGroup, batch |-> <<>>, then |-> "stop"]

Step(w, r) == worker' = [worker EXCEPT ![w] = r]

Take(w) ==
  /\ worker[w].pc = "idle" /\ active # <<>>
  /\ Step(w, [IdleWorker EXCEPT !.pc = "taken", !.g = Head(active)])
  /\ active' = Tail(active)
  /\ UNCHANGED <<groupVars, scheduled, wakeVars, expired, lane, dispatcher,
                 countVars, handler, globalMsgs, mishaps>>

\* Mutant of Unschedule: the flag is not reset before the drain.
UnscheduleLater(w) ==
  /\ worker[w].pc = "taken"
  /\ Step(w, [worker[w] EXCEPT !.pc = "drain"])
  /\ UNCHANGED <<groupVars, schedVars, wakeVars, expired, lane, dispatcher,
                 countVars, handler, globalMsgs, mishaps>>

Unschedule(w) ==
  /\ worker[w].pc = "taken"
  /\ scheduled' = scheduled \ {worker[w].g}
  /\ Step(w, [worker[w] EXCEPT !.pc = "drain"])
  /\ UNCHANGED <<groupVars, active, wakeVars, expired, lane, dispatcher,
                 countVars, handler, globalMsgs, mishaps>>

Arrangements(S) == {s \in [1..Cardinality(S) -> S] : {s[i] : i \in DOMAIN s} = S}

(* What drainRound may hand out from p: all it can, or what its quantum    *)
(* allows, at least one message.                                           *)
Batches(p, g) ==
  LET free == Parallelism - Cardinality(In(p, g, "leased"))
  IN  {B \in SUBSET In(p, g, "pending") :
         /\ Cardinality(B) <= free
         /\ B = {} => Eligible(p, g) = {}}

(* What processActivation does next: register a wake-up at a deadline that *)
(* was known before the drain, or give the group another turn, or, when    *)
(* nothing is left or all leases are out, neither.                         *)
Afterwards(p, g, B) ==
  IF Waiting(g) # {} THEN Waiting(g)
  ELSE IF B = In(p, g, "pending") THEN {"stop"}
  ELSE IF Cardinality(B) = Parallelism - Cardinality(In(p, g, "leased"))
  THEN {"stop", "again"}
  ELSE {"again"}

Drain(w) ==
  LET g == worker[w].g
      p == Promoted(place, due, g)
  IN  /\ worker[w].pc = "drain"
      /\ \E B \in Batches(p, g) : \E b \in Arrangements(B), t \in Afterwards(p, g, B) :
           /\ place' = Moved(p, B, "leased")
           /\ Step(w, [pc |-> "hand", g |-> g, batch |-> b, then |-> t])
      /\ due' = StillDue(g)
      /\ UNCHANGED <<schedVars, wakeVars, expired, lane, dispatcher, countVars,
                     handler, globalMsgs, mishaps>>

Room(g) == Len(lane[LaneOf[g]]) < LaneCap
Sent(g, m) == [lane EXCEPT ![LaneOf[g]] = Append(@, m)]

(* One message of the batch to its dispatch channel; if the channel is     *)
(* full, it and the rest go back and the activation ends there.            *)
HandOver(w) ==
  LET r == worker[w]
  IN  /\ r.pc = "hand" /\ r.batch # <<>>
      /\ \/ /\ Room(r.g)
            /\ lane' = Sent(r.g, Head(r.batch))
            /\ Step(w, [r EXCEPT !.batch = Tail(@)])
            /\ UNCHANGED groupVars
         \/ /\ ~Room(r.g)
            /\ ReturnToPending({r.batch[i] : i \in DOMAIN r.batch})
            /\ Step(w, IdleWorker)
            /\ UNCHANGED lane
      /\ UNCHANGED <<schedVars, wakeVars, expired, dispatcher, countVars,
                     handler, globalMsgs, mishaps>>

(* stillPending: another activation; or the end.                           *)
GoAgain(w) ==
  LET r == worker[w]
  IN  /\ r.pc = "hand" /\ r.batch = <<>> /\ r.then \in {"again", "stop"}
      /\ IF r.then = "again" THEN Activate(r.g) ELSE UNCHANGED schedVars
      /\ Step(w, IdleWorker)
      /\ UNCHANGED <<groupVars, wakeVars, expired, lane, dispatcher, countVars,
                     handler, globalMsgs, mishaps>>

(* scheduleWake up to its CAS.  Of two deadlines either may be the earlier;*)
(* a word that holds the same deadline is left alone.                      *)
SetWake(w) ==
  LET r == worker[w]
  IN  /\ r.pc = "hand" /\ r.batch = <<>> /\ r.then \in Msgs
      /\ \/ /\ wake[r.g] # r.then
            /\ wake' = [wake EXCEPT ![r.g] = r.then]
            /\ Step(w, [r EXCEPT !.pc = "arm"])
         \/ /\ wake[r.g] # NoMsg
            /\ Step(w, IdleWorker)
            /\ UNCHANGED wake
      /\ UNCHANGED <<groupVars, schedVars, timers, firing, expired, lane,
                     dispatcher, countVars, handler, globalMsgs, mishaps>>

ArmTimer(w) ==
  /\ worker[w].pc = "arm"
  /\ timers' = timers \cup {<<worker[w].g, worker[w].then>>}
  /\ Step(w, IdleWorker)
  /\ UNCHANGED <<groupVars, schedVars, wake, firing, expired, lane, dispatcher,
                 countVars, handler, globalMsgs, mishaps>>

\* Mutant of FireTimer: the callback does not clear the word.
FireTimerNoClear(g, m) ==
  /\ <<g, m>> \in timers /\ firing = NoGroup
  /\ m \notin Waiting(g)
  /\ timers' = timers \ {<<g, m>>}
  /\ firing' = g
  /\ UNCHANGED <<groupVars, schedVars, wake, worker, expired, lane, dispatcher,
                 countVars, handler, globalMsgs, mishaps>>

(* The wheel runs a callback, not before its deadline: ClearWake ...       *)
FireTimer(g, m) ==
  /\ <<g, m>> \in timers /\ firing = NoGroup
  /\ m \notin Waiting(g)
  /\ timers' = timers \ {<<g, m>>}
  /\ wake' = IF wake[g] = m THEN [wake EXCEPT ![g] = NoMsg] ELSE wake
  /\ firing' = g
  /\ UNCHANGED <<groupVars, schedVars, worker, expired, lane, dispatcher,
                 countVars, handler, globalMsgs, mishaps>>

(* ... and then Activate.                                                  *)
WakeUp ==
  /\ firing # NoGroup
  /\ Activate(firing)
  /\ firing' = NoGroup
  /\ UNCHANGED <<groupVars, worker, wake, timers, expired, lane, dispatcher,
                 countVars, handler, globalMsgs, mishaps>>

(* SweepExpiredLeases, for one group under its shard's lock.               *)
Sweep(g) ==
  /\ In(place, g, "leased") \cap due # {}
  /\ ReturnToPending(In(place, g, "leased") \cap due)
  /\ expired' = expired \cup {g}
  /\ UNCHANGED <<schedVars, worker, wakeVars, lane, dispatcher, countVars,
                 handler, globalMsgs, mishaps>>

SweepActivate(g) ==
  /\ g \in expired
  /\ Activate(g)
  /\ expired' = expired \ {g}
  /\ UNCHANGED <<groupVars, worker, wakeVars, lane, dispatcher, countVars,
                 handler, globalMsgs, mishaps>>

-----------------------------------------------------------------------------
(* Dispatch workers.                                                       *)

IdleDispatcher == [pc |-> "idle", m |-> NoMsg, c |-> NoConn]

Proceed(l, pc) == dispatcher' = [dispatcher EXCEPT ![l].pc = pc]

(* registry.next: some subscriber, or none; which one is the cursor's      *)
(* affair.                                                                 *)
Pick(l) ==
  /\ dispatcher[l].pc = "idle" /\ lane[l] # <<>>
  /\ lane' = [lane EXCEPT ![l] = Tail(@)]
  /\ LET m == Head(lane[l])
         S == Subscribers(HomeOf[m])
     IN  dispatcher' \in {[dispatcher EXCEPT ![l] = r] : r \in
           IF S = {} THEN {[pc |-> "return", m |-> m, c |-> NoConn]}
                     ELSE {[pc |-> "quota", m |-> m, c |-> c] : c \in S}}
  /\ UNCHANGED <<groupVars, schedVars, worker, wakeVars, expired, countVars,
                 handler, globalMsgs, mishaps>>

Acquired == IF GlobalMax > 0 THEN quota + 1 ELSE quota
Released(n) == IF GlobalMax > 0 THEN quota - n ELSE quota

\* Mutant of TryAcquire: the limit itself is let through.
TryAcquireOneMore(l) ==
  /\ dispatcher[l].pc = "quota"
  /\ IF GlobalMax > 0 /\ quota > GlobalMax
     THEN Proceed(l, "return") /\ UNCHANGED quota
     ELSE Proceed(l, "credit") /\ quota' = Acquired
  /\ UNCHANGED <<groupVars, schedVars, worker, wakeVars, expired, lane, conn,
                 held, credit, handler, globalMsgs, mishaps>>

TryAcquire(l) ==
  /\ dispatcher[l].pc = "quota"
  /\ IF GlobalMax > 0 /\ quota >= GlobalMax
     THEN Proceed(l, "return") /\ UNCHANGED quota
     ELSE Proceed(l, "credit") /\ quota' = Acquired
  /\ UNCHANGED <<groupVars, schedVars, worker, wakeVars, expired, lane, conn,
                 held, credit, handler, globalMsgs, mishaps>>

HasCredit(c) == credit[c] < MaxInflight

AcquireCredit(l) ==
  LET c == dispatcher[l].c
  IN  /\ dispatcher[l].pc = "credit"
      /\ IF ~HasCredit(c)
         THEN /\ Proceed(l, "return")
              /\ quota' = Released(1)
              /\ UNCHANGED credit
         ELSE /\ Proceed(l, "write")
              /\ credit' = [credit EXCEPT ![c] = @ + 1]
              /\ UNCHANGED quota
      /\ UNCHANGED <<groupVars, schedVars, worker, wakeVars, expired, lane,
                     conn, held, handler, globalMsgs, mishaps>>

(* WriteMessage puts the frame in the connection's buffer.  The select may *)
(* choose the buffer even when the connection is closed; a handler that    *)
(* has left will not read the answer.                                      *)
Write(l) ==
  LET c == dispatcher[l].c
      m == dispatcher[l].m
  IN  /\ dispatcher[l].pc = "write"
      /\ dispatcher' = [dispatcher EXCEPT ![l] = IdleDispatcher]
      /\ held' = IF conn[c] = "up" THEN [held EXCEPT ![c][m] = @ + 1] ELSE held
      /\ UNCHANGED <<groupVars, schedVars, worker, wakeVars, expired, lane,
                     conn, credit, quota, handler, globalMsgs, mishaps>>

\* Mutant of WriteFails: only the quota is returned.
WriteFailsKeepsCredit(l) ==
  LET c == dispatcher[l].c
  IN  /\ dispatcher[l].pc = "write"
      /\ IF conn[c] = "closed" THEN UNCHANGED mishaps ELSE Mishap("buffer")
      /\ Proceed(l, "return")
      /\ quota' = Released(1)
      /\ UNCHANGED <<groupVars, schedVars, worker, wakeVars, expired, lane,
                     conn, held, credit, handler, globalMsgs>>

(* WriteMessage fails: the connection is closed, or its buffer full.       *)
WriteFails(l) ==
  LET c == dispatcher[l].c
  IN  /\ dispatcher[l].pc = "write"
      /\ IF conn[c] = "closed" THEN UNCHANGED mishaps ELSE Mishap("buffer")
      /\ Proceed(l, "return")
      /\ credit' = [credit EXCEPT ![c] = @ - 1]
      /\ quota' = Released(1)
      /\ UNCHANGED <<groupVars, schedVars, worker, wakeVars, expired, lane,
                     conn, held, handler, globalMsgs>>

(* Undeliverable: the message goes back to its group.  Nothing activates   *)
(* the group.                                                              *)
GiveBack(l) ==
  /\ dispatcher[l].pc = "return"
  /\ ReturnToPending({dispatcher[l].m})
  /\ dispatcher' = [dispatcher EXCEPT ![l] = IdleDispatcher]
  /\ UNCHANGED <<schedVars, worker, wakeVars, expired, lane, countVars,
                 handler, globalMsgs, mishaps>>

-----------------------------------------------------------------------------
(* Connection handlers, each of which works through its frames in order.   *)

IdleHandler == [pc |-> "idle", m |-> NoMsg, todo |-> {}, lost |-> NoMsg]

Become(h, r) == handler' = [handler EXCEPT ![h] = r]

Published == {m \in Msgs : \A x \in Msgs : Letter[x] # m}

IncGlobalMsgs ==
  /\ GlobalMaxMsgs > 0 => globalMsgs < GlobalMaxMsgs
  /\ globalMsgs' = globalMsgs + 1

(* onPublish up to PUBLISH_OK: the WAL write, PublishWithID.  A rejected   *)
(* publish changes nothing.                                                *)
Publish(m) ==
  /\ handler[Producer].pc = "idle"
  /\ m \in Published /\ place[m] = "new"
  /\ IncGlobalMsgs
  /\ place' = Moved(place, {m}, "pending")
  /\ Become(Producer, [IdleHandler EXCEPT !.pc = "try", !.m = m])
  /\ UNCHANGED <<due, schedVars, worker, wakeVars, expired, lane, dispatcher,
                 countVars, mishaps>>

(* Promote group g of p, lease its next message and send it to the         *)
(* dispatch channel; if that is full it is returned or, by a handler that  *)
(* ignores the result of enqueueDispatch, stays leased.                    *)
DispatchNext(p, D, g, ignoring) ==
  LET q == Promoted(p, D, g)
  IN  /\ due' = StillDue(g)
      /\ \E x \in NextOf(q, g) :
           /\ place' = IF x # NoMsg /\ (Room(g) \/ ignoring)
                       THEN Moved(q, {x}, "leased") ELSE q
           /\ lane' = IF x # NoMsg /\ Room(g) THEN Sent(g, x) ELSE lane

TryDispatchOne ==
  LET r == handler[Producer]
  IN  /\ r.pc = "try"
      /\ DispatchNext(place, due, HomeOf[r.m], FALSE)
      /\ Become(Producer, [r EXCEPT !.pc = "notify", !.todo = {HomeOf[r.m]}])
      /\ UNCHANGED <<schedVars, worker, wakeVars, expired, dispatcher,
                     countVars, globalMsgs, mishaps>>

(* Activate if registry.has, the end of onPublish and of a dead letter.    *)
Notify(h) ==
  /\ handler[h].pc = "notify"
  /\ \E g \in handler[h].todo :
       IF Subscribers(g) # {} THEN Activate(g) ELSE UNCHANGED schedVars
  /\ Become(h, IdleHandler)
  /\ UNCHANGED <<groupVars, worker, wakeVars, expired, lane, dispatcher,
                 countVars, globalMsgs, mishaps>>

\* Mutant of Subscribe: only later publishes reach the new subscriber.
SubscribeSilently(c) ==
  /\ conn[c] = "away"
  /\ conn' = [conn EXCEPT ![c] = "up"]
  /\ UNCHANGED <<groupVars, schedVars, worker, wakeVars, expired, lane,
                 dispatcher, held, credit, quota, handler, globalMsgs, mishaps>>

Subscribe(c) ==
  /\ conn[c] = "away"
  /\ conn' = [conn EXCEPT ![c] = "up"]
  /\ Become(c, [IdleHandler EXCEPT !.pc = "activate", !.todo = Wants[c]])
  /\ UNCHANGED <<groupVars, schedVars, worker, wakeVars, expired, lane,
                 dispatcher, held, credit, quota, globalMsgs, mishaps>>

ActivateNext(c) ==
  LET r == handler[c]
  IN  /\ r.pc = "activate"
      /\ \E g \in r.todo :
           /\ Activate(g)
           /\ Become(c, IF r.todo # {g} THEN [r EXCEPT !.todo = @ \ {g}]
                        ELSE IF r.lost # NoMsg THEN [r EXCEPT !.pc = "letter"]
                        ELSE IdleHandler)
      /\ UNCHANGED <<groupVars, worker, wakeVars, expired, lane, dispatcher,
                     countVars, globalMsgs, mishaps>>

(* onACK or onNACK up to the WAL: credit and quota are returned whatever   *)
(* the answer is about.                                                    *)
Answer(c, m, pc) ==
  /\ conn[c] = "up" /\ handler[c].pc = "idle"
  /\ held[c][m] > 0
  /\ held' = [held EXCEPT ![c][m] = @ - 1]
  /\ credit' = [credit EXCEPT ![c] = @ - 1]
  /\ quota' = Released(1)
  /\ Become(c, [IdleHandler EXCEPT !.pc = pc, !.m = m])
  /\ UNCHANGED <<groupVars, schedVars, worker, wakeVars, expired, lane,
                 dispatcher, conn, globalMsgs>>

ACK(c, m) == Answer(c, m, "ack") /\ UNCHANGED mishaps

NACK(c, m) ==
  /\ Mishap("nack")
  /\ Answer(c, m, "nack")

(* The WAL refuses the event and the handler returns.                      *)
WALFails(c) ==
  /\ handler[c].pc \in {"ack", "nack"}
  /\ Mishap("wal")
  /\ Become(c, IdleHandler)
  /\ UNCHANGED <<groupVars, schedVars, worker, wakeVars, expired, lane,
                 dispatcher, countVars, globalMsgs>>

CompleteAndNext(c) ==
  LET m == handler[c].m
      g == HomeOf[m]
      S == {m} \cap In(place, g, "leased")
  IN  /\ handler[c].pc = "ack"
      /\ globalMsgs' = globalMsgs - 1
      /\ DispatchNext(Moved(place, S, "done"), due, g, TRUE)
      /\ Become(c, [IdleHandler EXCEPT !.pc = "activate", !.todo = {g}])
      /\ UNCHANGED <<schedVars, worker, wakeVars, expired, dispatcher,
                     countVars, mishaps>>

(* fail: a retry after a fresh delay or, with no attempts left, the end:   *)
(* the message is handed back if the group has a DLQ and dropped if not.   *)
FailAndNext(c) ==
  LET m == handler[c].m
      g == HomeOf[m]
      S == {m} \cap In(place, g, "leased")
  IN  /\ handler[c].pc = "nack"
      /\ \E s \in {"delayed", "dead"} :
           LET lost == IF S # {} /\ s = "dead" THEN Letter[m] ELSE NoMsg
           IN  /\ globalMsgs' = IF lost # NoMsg THEN globalMsgs - 1 ELSE globalMsgs
               /\ DispatchNext(Moved(place, S, s), due \ S, g, TRUE)
               /\ Become(c, [IdleHandler EXCEPT !.pc = "activate", !.todo = {g},
                                                !.lost = lost])
      /\ UNCHANGED <<schedVars, worker, wakeVars, expired, dispatcher,
                     countVars, mishaps>>

(* The dead letter is published to its own queue.                          *)
PublishLetter(c) ==
  LET m == handler[c].lost
  IN  /\ handler[c].pc = "letter"
      /\ place' = Moved(place, {m}, "pending")
      /\ Become(c, [IdleHandler EXCEPT !.pc = "notify", !.todo = {HomeOf[m]}])
      /\ UNCHANGED <<due, schedVars, worker, wakeVars, expired, lane,
                     dispatcher, countVars, globalMsgs, mishaps>>

(* handleConnection ends: the quota of unanswered deliveries is returned,  *)
(* the subscriptions are removed, and the server closes the connection.    *)
Leave(c) ==
  /\ Mishap("leave")
  /\ conn[c] = "up" /\ handler[c].pc = "idle"
  /\ conn' = [conn EXCEPT ![c] = "leaving"]
  /\ quota' = Released(IF credit[c] > 0 THEN credit[c] ELSE 0)
  /\ held' = [held EXCEPT ![c] = [m \in Msgs |-> 0]]
  /\ UNCHANGED <<groupVars, schedVars, worker, wakeVars, expired, lane,
                 dispatcher, credit, handler, globalMsgs>>

Unregister(c) ==
  /\ conn[c] = "leaving"
  /\ conn' = [conn EXCEPT ![c] = "removed"]
  /\ UNCHANGED <<groupVars, schedVars, worker, wakeVars, expired, lane,
                 dispatcher, held, credit, quota, handler, globalMsgs, mishaps>>

Close(c) ==
  /\ conn[c] = "removed"
  /\ conn' = [conn EXCEPT ![c] = "closed"]
  /\ UNCHANGED <<groupVars, schedVars, worker, wakeVars, expired, lane,
                 dispatcher, held, credit, quota, handler, globalMsgs, mishaps>>

-----------------------------------------------------------------------------

(* m is in a batch, in a channel, with a dispatch worker, with a consumer  *)
(* or under an answer.                                                     *)
OnItsWay(m) ==
  \/ \E w \in Workers : \E i \in DOMAIN worker[w].batch : worker[w].batch[i] = m
  \/ \E l \in Lanes : dispatcher[l].m = m \/ \E i \in DOMAIN lane[l] : lane[l][i] = m
  \/ \E c \in Conns : held[c][m] > 0 \/ handler[c].m = m

(* The deadline of a lease that nobody will answer, or of a retry, passes. *)
Lapse(m) ==
  /\ m \notin due
  /\ place[m] = "delayed" \/ (place[m] = "leased" /\ ~OnItsWay(m))
  /\ due' = due \cup {m}
  /\ UNCHANGED <<place, schedVars, worker, wakeVars, expired, lane, dispatcher,
                 countVars, handler, globalMsgs, mishaps>>

(* A lease runs out although the message is still on its way.              *)
LapseEarly(m) ==
  /\ m \notin due
  /\ place[m] = "leased" /\ OnItsWay(m)
  /\ Mishap("lease")
  /\ due' = due \cup {m}
  /\ UNCHANGED <<place, schedVars, worker, wakeVars, expired, lane, dispatcher,
                 countVars, handler, globalMsgs>>

Init ==
  /\ place = [m \in Msgs |-> "new"] /\ due = {}
  /\ scheduled = {} /\ active = <<>>
  /\ worker = [w \in Workers |-> IdleWorker]
  /\ wake = [g \in Groups |-> NoMsg] /\ timers = {} /\ firing = NoGroup
  /\ expired = {}
  /\ lane = [l \in Lanes |-> <<>>]
  /\ dispatcher = [l \in Lanes |-> IdleDispatcher]
  /\ conn = [c \in Conns |-> "away"]
  /\ held = [c \in Conns |-> [m \in Msgs |-> 0]]
  /\ credit = [c \in Conns |-> 0] /\ quota = 0
  /\ handler = [h \in Conns \cup {Producer} |-> IdleHandler]
  /\ globalMsgs = 0 /\ mishaps = 0

ScheduleStep(w) == \/ Take(w) \/ Unschedule(w) \/ Drain(w) \/ HandOver(w)
                   \/ GoAgain(w) \/ SetWake(w) \/ ArmTimer(w)

DispatchStep(l) == \/ Pick(l) \/ TryAcquire(l) \/ AcquireCredit(l)
                   \/ Write(l) \/ WriteFails(l) \/ GiveBack(l)

HandlerStep(c) == \/ Notify(c) \/ ActivateNext(c) \/ CompleteAndNext(c)
                  \/ FailAndNext(c) \/ PublishLetter(c)

Next ==
  \/ \E w \in Workers : ScheduleStep(w)
  \/ \E l \in Lanes : DispatchStep(l)
  \/ \E g \in Groups, m \in Msgs : FireTimer(g, m)
  \/ WakeUp
  \/ \E g \in Groups : Sweep(g) \/ SweepActivate(g)
  \/ \E m \in Msgs : Publish(m) \/ Lapse(m) \/ LapseEarly(m)
  \/ TryDispatchOne
  \/ Notify(Producer)
  \/ \E c \in Conns : \/ HandlerStep(c) \/ Subscribe(c) \/ WALFails(c)
                      \/ Leave(c) \/ Unregister(c) \/ Close(c)
                      \/ \E m \in Msgs : ACK(c, m) \/ NACK(c, m)

Spec == Init /\ [][Next]_vars

(* Goroutines are scheduled, deadlines pass, consumers come and answer     *)
(* what they are given.  Nothing obliges a producer to publish or a        *)
(* consumer to reject or to leave.                                         *)
Fairness ==
  /\ \A w \in Workers : WF_vars(ScheduleStep(w))
  /\ \A l \in Lanes : WF_vars(DispatchStep(l))
  /\ \A g \in Groups, m \in Msgs : WF_vars(FireTimer(g, m))
  /\ WF_vars(WakeUp)
  /\ \A g \in Groups : WF_vars(Sweep(g)) /\ WF_vars(SweepActivate(g))
  /\ \A m \in Msgs : WF_vars(Lapse(m))
  /\ WF_vars(TryDispatchOne \/ Notify(Producer))
  /\ \A c \in Conns : /\ WF_vars(HandlerStep(c))
                      /\ WF_vars(Subscribe(c))
                      /\ WF_vars(Unregister(c) \/ Close(c))
                      /\ \A m \in Msgs : WF_vars(ACK(c, m))

FairSpec == Spec /\ Fairness

-----------------------------------------------------------------------------

(* The shapes of the variables: a deadline has passed only for a message   *)
(* that has one, and a goroutine under way has all it is to work on.       *)
WorkerType ==
  {r \in [pc : {"idle", "taken", "drain", "hand", "arm"}, g : Groups \cup {NoGroup},
          batch : Seq(Msgs), then : Msgs \cup {"stop", "again"}] :
     /\ r.pc # "idle" => r.g \in Groups
     /\ r.pc = "arm" => r.then \in Msgs}

DispatcherType ==
  {r \in [pc : {"idle", "quota", "credit", "write", "return"}, m : Msgs \cup {NoMsg},
          c : Conns \cup {NoConn}] :
     /\ r.pc # "idle" => r.m \in Msgs
     /\ r.pc \in {"quota", "credit", "write"} => r.c \in Conns}

HandlerType ==
  {r \in [pc : {"idle", "try", "notify", "activate", "ack", "nack", "letter"},
          m : Msgs \cup {NoMsg}, todo : SUBSET Groups, lost : Msgs \cup {NoMsg}] :
     /\ r.pc \in {"try", "ack", "nack"} => r.m \in Msgs
     /\ r.pc = "letter" => r.lost \in Msgs}

TypeOK ==
  /\ place \in [Msgs -> {"new", "pending", "leased", "delayed", "done", "dead"}]
  /\ due \subseteq {m \in Msgs : place[m] \in {"leased", "delayed"}}
  /\ scheduled \subseteq Groups /\ expired \subseteq Groups
  /\ active \in Seq(Groups) /\ Len(active) <= ActiveCap
  /\ worker \in [Workers -> WorkerType]
  /\ wake \in [Groups -> Msgs \cup {NoMsg}]
  /\ timers \subseteq Groups \X Msgs
  /\ firing \in Groups \cup {NoGroup}
  /\ lane \in [Lanes -> Seq(Msgs)] /\ \A l \in Lanes : Len(lane[l]) <= LaneCap
  /\ dispatcher \in [Lanes -> DispatcherType]
  /\ conn \in [Conns -> {"away", "up", "leaving", "removed", "closed"}]
  /\ held \in [Conns -> [Msgs -> Nat]]
  /\ credit \in [Conns -> Int] /\ quota \in Int
  /\ handler \in [Conns \cup {Producer} -> HandlerType]
  /\ globalMsgs \in Int /\ mishaps \in 0..MaxMishaps

(* Mentions of group g by the activation machinery before its flag is      *)
(* reset: its places in the channel and the workers that have taken it.    *)
Queued(g) == {i \in DOMAIN active : active[i] = g}
Taken(g) == {w \in Workers : worker[w].pc = "taken" /\ worker[w].g = g}

(* Activate's comment: "CAS lets exactly one caller enqueue the group".    *)
(* isScheduled is 1 exactly while the group is in the channel or with a    *)
(* worker that has not reset it, and it is there once: were it 1 with no   *)
(* activation under way, no caller could ever activate the group again.    *)
FlagMeansQueued ==
  \A g \in Groups :
    Cardinality(Queued(g)) + Cardinality(Taken(g)) = IF g \in scheduled THEN 1 ELSE 0

(* A word wakeScheduledAt that is set has a timer behind it, in the wheel  *)
(* or about to be put there; otherwise every later wake-up of the group    *)
(* would be ignored as a duplicate (scheduleWake).                         *)
WakeHasTimer ==
  \A g \in Groups : wake[g] # NoMsg =>
    \/ <<g, wake[g]>> \in timers
    \/ \E w \in Workers : worker[w].pc = "arm" /\ worker[w].g = g
                          /\ worker[w].then = wake[g]

(* No goroutine has anything left to do for any group.                     *)
Quiet == /\ \A w \in Workers : worker[w].pc = "idle"
         /\ \A l \in Lanes : dispatcher[l].pc = "idle" /\ lane[l] = <<>>
         /\ \A h \in DOMAIN handler : handler[h].pc = "idle"
         /\ active = <<>> /\ firing = NoGroup /\ expired = {}

(* When all is quiet, no group with work is forgotten: a retry that waits, *)
(* or a message that could be delivered to a subscriber, has beside it a   *)
(* lease whose end or a delivery whose answer brings the group back, or a  *)
(* timer.                                                                  *)
NothingForgotten ==
  Quiet => \A g \in Groups :
    \/ In(place, g, "delayed") \cup In(place, g, "pending") = {}
    \/ In(place, g, "delayed") = {} /\ Subscribers(g) = {}
    \/ In(place, g, "leased") # {}
    \/ \E c \in Conns, m \in Msgs : HomeOf[m] = g /\ held[c][m] > 0
    \/ wake[g] # NoMsg

(* Deliveries a dispatch worker has counted and not yet written.           *)
Reserved(c) == Cardinality({l \in Lanes : dispatcher[l].c = c /\ dispatcher[l].pc = "write"})

(* The deliveries to consumer c that are not answered, numbered.           *)
DeliveriesTo(c) == UNION {{<<c, m, n>> : n \in 1..held[c][m]} : m \in Msgs}

Unanswered(c) == Cardinality(DeliveriesTo(c))

(* While its consumer stays, a connection's counter is the number of       *)
(* messages it was given and has not answered: every path of dispatch that *)
(* gives a message back returns exactly what it took.                      *)
CreditExact == \A c \in Conns : conn[c] = "up" => credit[c] = Unanswered(c) + Reserved(c)

AllUnanswered == Cardinality(UNION {DeliveriesTo(c) : c \in Conns})

(* While all consumers stay, the broker's counter is within its limit and  *)
(* is the number of deliveries that are unanswered or under way: also a    *)
(* dispatch that fails for lack of credit, or late, returns what it took.  *)
QuotaExact ==
  (GlobalMax > 0 /\ \A c \in Conns : conn[c] \in {"away", "up"}) =>
    /\ quota <= GlobalMax
    /\ quota = AllUnanswered
               + Cardinality({l \in Lanes : dispatcher[l].pc \in {"credit", "write"}})

(* "the broker-wide hard cap across all connections" (config.go:32): no    *)
(* more than GlobalMax deliveries to the connections that are open are     *)
(* unanswered.                                                             *)
InflightCapped == GlobalMax > 0 => AllUnanswered <= GlobalMax

(* "every group with pending messages gets served in each round"           *)
(* (docs/introduction.md:73): a pending message is some day completed or   *)
(* dropped, as its consumers stay and answer.                              *)
EveryMessageServed ==
  \A m \in Msgs : place[m] = "pending" ~> place[m] \in {"done", "dead"}

(* The lease sweeper "handles consumer crashes without message loss"       *)
(* (docs/modules/broker.md:97): a lease that nobody will answer, because   *)
(* its consumer has left or the dispatch channel was full, comes to an     *)
(* end, whether or not the group still has a subscriber.                   *)
LeasesComeBack ==
  \A m \in Msgs : (place[m] = "leased" /\ ~OnItsWay(m)) ~> place[m] # "leased"

(* "max pending msgs system-wide" (config.go:52): what globalMsgs counts   *)
(* and IncGlobalMsgs limits is the number of messages in the queues.       *)
CountsMessages ==
  (\A h \in DOMAIN handler : handler[h].pc = "idle") =>
    globalMsgs = Cardinality({m \in Msgs : place[m] \in {"pending", "leased", "delayed"}})
=============================================================================
