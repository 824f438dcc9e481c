------------------------------- MODULE Group -------------------------------
(***************************************************************************)
(* The runtime state of one consumer group (type group of                  *)
(* internal/queue/group.go) and its operations, as pure operators on a     *)
(* group record.  Everything here happens under the shard lock, so every   *)
(* operator is one atomic step of the modules that use it.                 *)
(*                                                                         *)
(*   cfg         the GroupConfig in force                                  *)
(*   ready       ready[readyHead:], oldest first; a slot may be Nil after  *)
(*               a WAL replay (Queue.ReplayLease, Queue.RemoveMessage)     *)
(*   urgent      urgent[urgentHead:], oldest first                         *)
(*   delayed     the messages in the retry heap                            *)
(*   processing  the messages in the processing map                        *)
(*   attempts, at   Message.Attempts and Message.ScheduledAt               *)
(*   deficit     the DRR counter                                           *)
(*   events      the rate limiter's memory                                 *)
(*                                                                         *)
(* A message is its ID.  IDs are numbers because the retry heap orders by  *)
(* ID the messages that become due at the same time.                       *)
(***************************************************************************)
EXTENDS SlidingWindow, Functions

CONSTANTS Ids,               \* message IDs
          Nil,               \* an emptied slot of ready
          Configs,           \* the GroupConfigs an operator may install
          RetryDelay(_, _),  \* group.retryDelay: config, attempt -> delay
          HasLimiter         \* whether the group was created with a RateLimit

ASSUME IdsAssumption == Ids \subseteq Nat /\ IsFiniteSet(Ids) /\ Nil \notin Ids
ASSUME LimiterAssumption == HasLimiter \in BOOLEAN

ConfigType == [parallelism : Int, quantum : Int, lease : Int,
               maxAttempts : Int, maxPending : Int]

ASSUME ConfigsAssumption == Configs \subseteq ConfigType

GroupType == [cfg : ConfigType,
              ready : Seq(Ids \cup {Nil}), urgent : Seq(Ids),
              delayed : SUBSET Ids, processing : SUBSET Ids,
              attempts : [Ids -> Nat], at : [Ids -> Int],
              deficit : Nat, events : Seq(Int)]

(* Retry.MaxAttempts of defaultGroupConfig; the delays of a default config *)
(* are the business of RetryDelay.                                         *)
DefaultMaxAttempts == 3

(* newGroup replaces missing values by those of defaultGroupConfig.        *)
WithDefaults(c) ==
  [c EXCEPT !.parallelism = IF @ <= 0 THEN 1 ELSE @,
            !.quantum     = IF @ <= 0 THEN 1 ELSE @,
            !.maxAttempts = IF @ = 0 THEN DefaultMaxAttempts ELSE @]

(* SetGroupConfig hands an existing group the values as they are, except   *)
(* for the quantum.                                                        *)
Installed(c) == [c EXCEPT !.quantum = IF @ <= 0 THEN 1 ELSE @]

(* The configs a group can run with.                                       *)
InForce == {WithDefaults(c) : c \in Configs} \cup {Installed(c) : c \in Configs}

ASSUME RetryDelayAssumption ==
  \A c \in InForce : \A a \in 1..c.maxAttempts : RetryDelay(c, a) \in Int

NewGroup(c) ==
  [cfg |-> WithDefaults(c), ready |-> <<>>, urgent |-> <<>>,
   delayed |-> {}, processing |-> {},
   attempts |-> [m \in Ids |-> 0], at |-> [m \in Ids |-> 0],
   deficit |-> 0, events |-> <<>>]

(* The messages in the slots of ready or urgent.                           *)
Live(slots) == Range(slots) \ {Nil}

(* Every message the group holds.                                          *)
Held(g) == Live(g.ready) \cup Live(g.urgent) \cup g.delayed \cup g.processing

NoRepeat(slots) ==
  \A i, j \in DOMAIN slots : slots[i] = slots[j] /\ slots[i] # Nil => i = j

(* No message is in two places.                                            *)
WellPlaced(g) ==
  /\ NoRepeat(g.ready) /\ NoRepeat(g.urgent)
  /\ Live(g.ready) \cap Live(g.urgent) = {}
  /\ (Live(g.ready) \cup Live(g.urgent)) \cap (g.delayed \cup g.processing) = {}
  /\ g.delayed \cap g.processing = {}

(* group.pendingCount: an emptied slot still counts.                       *)
PendingCount(g) == Len(g.urgent) + Len(g.ready) + Cardinality(g.delayed)

Enqueue(g, m, now) ==
  [g EXCEPT !.ready = Append(@, m), !.attempts[m] = 0, !.at[m] = now]

-----------------------------------------------------------------------------
(* promoteDelayed.                                                         *)

(* Mutant of Expired: a lease lapses one instant early.                    *)
ExpiredEarly(g, now) == {m \in g.processing : now >= g.at[m]}

Expired(g, now) == {m \in g.processing : now > g.at[m]}

(* Mutant of Due: once one retry is due the heap is emptied.               *)
DueEmptiesHeap(g, now) ==
  {m \in g.delayed : \E n \in g.delayed : g.at[n] <= now}

Due(g, now) == {m \in g.delayed : g.at[m] <= now}

(* All the orders in which a loop can visit the elements of S.             *)
Orders(S) == Bijection(1..Cardinality(S), S)

(* delayedHeap.Less.                                                       *)
HeapBefore(g, m, n) == g.at[m] < g.at[n] \/ (g.at[m] = g.at[n] /\ m < n)

HeapOrders(g, S) ==
  {s \in Orders(S) : \A i, j \in DOMAIN s : i < j => HeapBefore(g, s[i], s[j])}

Promote(g, lapsed, ripe) ==
  [g EXCEPT !.processing = @ \ Range(lapsed), !.urgent = @ \o lapsed,
            !.delayed = @ \ Range(ripe), !.ready = @ \o ripe]

(* The processing map is ranged over in an arbitrary order, the heap is    *)
(* popped in its own.                                                      *)
Promotions(g, now) ==
  {Promote(g, lapsed, ripe) : lapsed \in Orders(Expired(g, now)),
                              ripe \in HeapOrders(g, Due(g, now))}

(* {} when S is empty (time.Time{}), else the singleton of its minimum.    *)
Earliest(S) == {t \in S : \A u \in S : t <= u}

(* Mutant of PromotedWake: the retries are forgotten.                      *)
PromotedWakeLeases(g) == Earliest({g.at[m] : m \in g.processing})

(* What promoteDelayed returns: the earliest of the running leases and of  *)
(* the retries that are not due, looked up after the promotion.            *)
PromotedWake(g) == Earliest({g.at[m] : m \in g.processing \cup g.delayed})

-----------------------------------------------------------------------------
(* nextDispatchable, called until `budget' messages were obtained or one   *)
(* call returns none.  drainRound's loop has the deficit as its budget and *)
(* next() a budget of one.                                                 *)

(* Mutant of Free: len(processing) > Parallelism instead of >=.            *)
FreeOffByOne(g) == g.cfg.parallelism - Cardinality(g.processing) + 1

Free(g) == g.cfg.parallelism - Cardinality(g.processing)

LiveIn(g, r) == Cardinality({i \in 1..r : g.ready[i] # Nil})

Available(g) == Len(g.urgent) + LiveIn(g, Len(g.ready))

LimiterRoom(g, now, budget) ==
  IF HasLimiter THEN Room(g.events, now) ELSE budget

(* How many messages the calls return.                                     *)
Obtained(g, now, budget) ==
  Max({0, Min({budget, Free(g), LimiterRoom(g, now, budget), Available(g)})})

(* Why the calls end; one call checks the parallelism cap, then the rate   *)
(* limiter, then whether a message is left.                                *)
StopReason(g, now, budget) ==
  LET n == Obtained(g, now, budget)
  IN  CASE n = budget -> "budget"
        [] n # budget /\ Free(g) <= n -> "capacity"
        [] n # budget /\ Free(g) > n /\ LimiterRoom(g, now, budget) <= n
             -> "rate"
        [] OTHER -> "empty"

(* How many calls pass the cap and the limiter.  The one that then finds   *)
(* no message has emptied ready of its Nil slots and spent a token.        *)
Passed(g, now, budget) ==
  Obtained(g, now, budget)
    + (IF StopReason(g, now, budget) = "empty" THEN 1 ELSE 0)

(* Mutant of UrgentTaken: ready is served before urgent.                   *)
UrgentLast(g, n) ==
  LET live == LiveIn(g, Len(g.ready))
  IN  IF n <= live THEN 0 ELSE Min({n - live, Len(g.urgent)})

UrgentTaken(g, n) == IF n <= Len(g.urgent) THEN n ELSE Len(g.urgent)

ReadyTaken(g, n) ==
  Min({r \in 0..Len(g.ready) :
         r = Len(g.ready) \/ LiveIn(g, r) = n - UrgentTaken(g, n)})

(* The slots n passed calls consume, urgent before ready.                  *)
Consumed(g, n) == SubSeq(g.urgent, 1, UrgentTaken(g, n))
                    \o SubSeq(g.ready, 1, ReadyTaken(g, n))

(* The messages they return, in order.                                     *)
Batch(g, now, budget) ==
  SelectSeq(Consumed(g, Passed(g, now, budget)), LAMBDA m : m # Nil)

Lease(g, n, now) ==
  LET taken == Live(Consumed(g, n))
  IN  [g EXCEPT !.urgent = SubSeq(@, UrgentTaken(g, n) + 1, Len(@)),
                !.ready = SubSeq(@, ReadyTaken(g, n) + 1, Len(@)),
                !.processing = @ \cup taken,
                !.at = [m \in Ids |-> IF m \in taken THEN now + g.cfg.lease
                                                     ELSE @[m]]]

Dispatch(g, now, budget) ==
  LET n == Passed(g, now, budget)
  IN  [Lease(g, n, now) EXCEPT
         !.events = IF HasLimiter /\ Free(g) > 0 THEN Admit(@, now, n) ELSE @]

-----------------------------------------------------------------------------
(* drainRound, from the point where g has been promoted.                   *)

Quantum(g) == IF g.cfg.quantum <= 0 THEN 1 ELSE g.cfg.quantum

Drained(g, now) ==
  LET budget == g.deficit + Quantum(g)
  IN  IF PendingCount(g) = 0 THEN g
      ELSE [Dispatch(g, now, budget) EXCEPT
              !.deficit = budget - Obtained(g, now, budget)]

(* The values drainRound returns besides the batch: wakeAt and hasWake as  *)
(* a set of at most one time, and stillPending.  A stop for lack of        *)
(* messages also offers the next retry time, which promoteDelayed has      *)
(* already counted.                                                        *)
DrainReturn(g, now) ==
  LET stop == StopReason(g, now, g.deficit + Quantum(g))
      wake == IF PendingCount(g) > 0 /\ stop = "rate"
              THEN Earliest(PromotedWake(g)
                              \cup {RetryAt(Drained(g, now).events, now)})
              ELSE PromotedWake(g)
  IN  [wake |-> wake,
       still |-> /\ PendingCount(g) > 0
                 /\ stop = "budget"
                 /\ wake = {}
                 /\ PendingCount(Drained(g, now)) > 0]

-----------------------------------------------------------------------------
(* Completion and failure.                                                 *)

(* Mutant of Complete: the ACK also removes a message that waits for a     *)
(* retry.                                                                  *)
CompleteDelayedToo(g, m) ==
  [g EXCEPT !.processing = @ \ {m}, !.delayed = @ \ {m}]

Complete(g, m) == [g EXCEPT !.processing = @ \ {m}]

(* fail has no retry left for m: the message leaves the group, for the     *)
(* dead-letter queue when there is one.                                    *)
Exhausted(g, m) ==
  m \in g.processing /\ g.attempts[m] + 1 >= g.cfg.maxAttempts

(* Mutant of Fail: the message is not pushed back on the heap.             *)
FailForgetsRetry(g, m, now) ==
  IF m \notin g.processing THEN g
  ELSE [g EXCEPT !.processing = @ \ {m}, !.attempts[m] = @ + 1]

Fail(g, m, now) ==
  IF m \notin g.processing THEN g
  ELSE LET attempt == g.attempts[m] + 1
           failed == [g EXCEPT !.processing = @ \ {m}, !.attempts[m] = attempt]
       IN  IF Exhausted(g, m) THEN failed
           ELSE [failed EXCEPT !.at[m] = now + RetryDelay(g.cfg, attempt),
                               !.delayed = @ \cup {m}]

(* Mutant of ReturnToPending: the lease is not deleted.                    *)
ReturnKeepsLease(g, m) ==
  IF m \notin g.processing THEN g ELSE [g EXCEPT !.urgent = Append(@, m)]

ReturnToPending(g, m) ==
  IF m \notin g.processing THEN g
  ELSE [g EXCEPT !.processing = @ \ {m}, !.urgent = Append(@, m)]
=============================================================================
