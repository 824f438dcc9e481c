--------------------------- MODULE ConsumerGroup ---------------------------
(***************************************************************************)
(* One consumer group under the operations of Queue (internal/queue/       *)
(* queue.go): publishers, ACK and NACK handlers, dispatch workers, the     *)
(* lease sweeper, scheduler workers and the admin API all call them        *)
(* concurrently, each call atomic under the shard lock.  An ACK or NACK    *)
(* may name any published message at any time: a consumer can answer late, *)
(* twice, or after its lease was given to another.                         *)
(***************************************************************************)
EXTENDS Group

CONSTANTS MaxTime,     \* bound on the clock
          MaxDeficit,  \* bound on the DRR deficit a drain may start from
          MaxHoles     \* bound on the Nil slots a replayed group starts with

ASSUME BoundsAssumption == MaxTime \in Nat /\ MaxDeficit \in Nat /\ MaxHoles \in Nat

VARIABLES grp,        \* the group
          now,        \* the clock (xtime.Now)
          published,  \* IDs accepted so far
          done,       \* IDs completed
          dead,       \* IDs dropped by fail, to the DLQ or for good
          drained     \* {} or what the last step, a drain, returned

vars == <<grp, now, published, done, dead, drained>>

-----------------------------------------------------------------------------

(* A group is created empty by its first publish; one rebuilt by a replay  *)
(* may start with slots whose messages were acknowledged before the crash. *)
Init == /\ \E c \in Configs, n \in 0..MaxHoles :
             grp = [NewGroup(c) EXCEPT !.ready = [i \in 1..n |-> Nil]]
        /\ now = 0
        /\ published = {} /\ done = {} /\ dead = {}
        /\ drained = {}

(* PublishWithID, Publish.  A group at its depth limit refuses.            *)
Publish(m) ==
  /\ m \notin published
  /\ ~(grp.cfg.maxPending > 0 /\ PendingCount(grp) >= grp.cfg.maxPending)
  /\ grp' = Enqueue(grp, m, now)
  /\ published' = published \cup {m}
  /\ drained' = {}
  /\ UNCHANGED <<now, done, dead>>

(* promoteDelayed and then next, the common tail of the direct dispatch    *)
(* path, from group g.                                                     *)
PromoteAndNext(g) ==
  \E p \in Promotions(g, now) : grp' = Dispatch(p, now, 1)

TryDispatchOne ==
  /\ PromoteAndNext(grp)
  /\ drained' = {}
  /\ UNCHANGED <<now, published, done, dead>>

CompleteAndNext(m) ==
  /\ PromoteAndNext(Complete(grp, m))
  /\ done' = IF m \in grp.processing THEN done \cup {m} ELSE done
  /\ drained' = {}
  /\ UNCHANGED <<now, published, dead>>

FailAndNext(m) ==
  /\ PromoteAndNext(Fail(grp, m, now))
  /\ dead' = IF Exhausted(grp, m) THEN dead \cup {m} ELSE dead
  /\ drained' = {}
  /\ UNCHANGED <<now, published, done>>

(* Queue.ReturnToPending, after a dispatch worker could not deliver m.     *)
GiveBack(m) ==
  /\ grp' = ReturnToPending(grp, m)
  /\ drained' = {}
  /\ UNCHANGED <<now, published, done, dead>>

SweepExpiredLeases ==
  /\ \E lapsed \in Orders(Expired(grp, now)) : grp' = Promote(grp, lapsed, <<>>)
  /\ drained' = {}
  /\ UNCHANGED <<now, published, done, dead>>

DrainGroup ==
  /\ grp.deficit <= MaxDeficit
  /\ \E p \in Promotions(grp, now) :
       grp' = Drained(p, now) /\ drained' = {DrainReturn(p, now)}
  /\ UNCHANGED <<now, published, done, dead>>

(* The propagation of SetGroupConfig to an active group.                   *)
SetGroupConfig(c) ==
  /\ grp' = [grp EXCEPT !.cfg = Installed(c)]
  /\ drained' = {}
  /\ UNCHANGED <<now, published, done, dead>>

Tick == /\ now < MaxTime
        /\ now' = now + 1
        /\ drained' = {}
        /\ UNCHANGED <<grp, published, done, dead>>

Next == \/ \E m \in Ids : Publish(m)
        \/ TryDispatchOne
        \/ \E m \in published : \/ CompleteAndNext(m)
                                \/ FailAndNext(m)
                                \/ GiveBack(m)
        \/ SweepExpiredLeases
        \/ DrainGroup
        \/ \E c \in Configs : SetGroupConfig(c)
        \/ Tick

Spec == Init /\ [][Next]_vars

-----------------------------------------------------------------------------
(* Types.                                                                  *)

(* Every variable has the shape the code gives it.  In particular urgent   *)
(* never holds a Nil slot: nextDispatchable dereferences its slots without *)
(* the nil check it makes for ready (group.go:312-320).                    *)
TypeOK == /\ grp \in GroupType /\ grp.cfg \in InForce
          /\ now \in Nat
          /\ published \subseteq Ids /\ done \subseteq Ids /\ dead \subseteq Ids
          /\ drained \subseteq [wake : SUBSET Int, still : BOOLEAN]

-----------------------------------------------------------------------------
(* Safety.                                                                 *)

(* A message sits in exactly one place: one slot of ready or of urgent,    *)
(* the retry heap or the processing map.  Two places would mean a second   *)
(* delivery that no lease covers, and an ACK that removes only one copy.   *)
OnePlace == WellPlaced(grp)

(* Every accepted message is held by the group until it is completed or    *)
(* its retries are exhausted, and then it is gone: no operation loses one, *)
(* and a late or repeated ACK or NACK ends nothing twice.                  *)
Conservation ==
  /\ published = Held(grp) \cup done \cup dead
  /\ Held(grp) \cap (done \cup dead) = {}
  /\ done \cap dead = {}

(* What the scheduler relies on after a drain (scheduler.go:260-266), for  *)
(* no message to be forgotten: if messages are left, either the group is   *)
(* to be drained again, or a wake-up is asked for, or the group is at its  *)
(* parallelism and an ACK, a NACK or a lapsed lease will come; and the     *)
(* wake-up is no later than any retry.                                     *)
DrainCoversPending ==
  \A r \in drained :
    /\ PendingCount(grp) > 0 =>
         r.still \/ r.wake # {} \/ Free(grp) <= 0
    /\ \A m \in grp.delayed : \E t \in r.wake : t <= grp.at[m]

(* What docs/modules/queue.md:67 says of a drain: a group that still has   *)
(* messages it could dispatch "gets a turn in the next round".  Not so     *)
(* when drainRound has found a running lease or a pending retry: it then   *)
(* only asks to be woken at that time.                                     *)
PendingGetsNextRound ==
  \A r \in drained :
    ~HasLimiter /\ Available(grp) > 0 /\ Free(grp) > 0 => r.still

-----------------------------------------------------------------------------
(* Action properties.                                                      *)

(* Messages are only handed out while the group stays within its           *)
(* parallelism, by whichever of the four dispatch paths.  (Lowering the    *)
(* parallelism of a busy group leaves it above; nothing is then added.)    *)
ParallelismRespected ==
  [][grp'.processing \subseteq grp.processing
       \/ Cardinality(grp'.processing) <= grp.cfg.parallelism]_vars

(* A leased message is leased again only once its lease has run out, or a  *)
(* NACK has counted an attempt and its retry is due at once: two consumers *)
(* never hold it within one lease.                                         *)
LeaseExclusive ==
  [][\A m \in grp.processing \cap grp'.processing :
       grp'.at[m] # grp.at[m] =>
         now > grp.at[m] \/ grp'.attempts[m] > grp.attempts[m]]_vars

(* A message waiting for its retry stays in the heap until its backoff has *)
(* elapsed.                                                                *)
NoEarlyRetry ==
  [][\A m \in grp.delayed \ grp'.delayed : grp.at[m] <= now]_vars

(* A message handed back, or whose lease lapsed, is dispatched before any  *)
(* message of ready (group.go:311), and ready is served in order.          *)
DispatchOrder ==
  [][\A i \in DOMAIN grp.ready :
       grp.ready[i] \in grp'.processing =>
         /\ Live(grp.urgent) \cap Live(grp'.urgent) = {}
         /\ \A j \in 1..(i - 1) : grp.ready[j] \notin Live(grp'.ready)]_vars

-----------------------------------------------------------------------------
(* Refinement: the group implements MessageLifecycle.                      *)

StateOf(m) ==
  CASE m \in done -> "done"
    [] m \in dead -> "dead"
    [] m \in grp.processing -> "processing"
    [] m \in Held(grp) \ grp.processing -> "pending"
    [] m \notin published -> "new"
    [] OTHER -> "lost"

Lifecycle == INSTANCE MessageLifecycle WITH state <- [m \in Ids |-> StateOf(m)]

(* Seen through the State of its messages, every step of the group is a    *)
(* legal one: see MessageLifecycle.                                        *)
ImplementsLifecycle == Lifecycle!Spec
=============================================================================
