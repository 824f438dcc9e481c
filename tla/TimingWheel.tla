---------------------------- MODULE TimingWheel ----------------------------
(***************************************************************************)
(* The timing wheel of the scheduler (internal/scheduler/timingwheel.go):  *)
(* callers Add timers while the wheel's goroutine ticks.  Add reads the    *)
(* clock before it takes the lock, and tick examines the bucket it         *)
(* detached after it released the lock, so other calls come in between.    *)
(* A bucket is a set: the order of its linked list decides only the order  *)
(* of callbacks within one tick.                                           *)
(***************************************************************************)
EXTENDS Integers, FiniteSets

CONSTANTS Timers,      \* calls of Add
          Delays,      \* the delays they ask for
          Slots,       \* len(buckets)
          BucketTime,  \* length of a tick
          MaxTime,     \* bound on the clock
          Prompt       \* TRUE: no goroutine stalls and the ticker drops no
                       \* tick, the case in which lateness can be bounded

VARIABLES now,        \* xtime.UnixNano()
          current,    \* the bucket the next tick examines
          buckets,    \* bucket -> the timers in it
          executeAt,  \* timer -> its time, for the timers added so far
          adding,     \* timer -> ticks, for the Adds not yet under the lock
          hand,       \* the timers tick detached and has still to examine
          seen,       \* {} or {the time tick compares them with}
          ticking,    \* the goroutine is in tick()
          tickAt,     \* when the ticker fires next, if Prompt
          firedAt     \* timer -> when its callback ran

vars == <<now, current, buckets, executeAt, adding, hand, seen, ticking,
          tickAt, firedAt>>

Added == DOMAIN executeAt
Fired == DOMAIN firedAt

With(f, x, v) == [y \in DOMAIN f \cup {x} |-> IF y = x THEN v ELSE f[y]]
Without(f, x) == [y \in DOMAIN f \ {x} |-> f[y]]

Init == /\ now = 0 /\ current = 0 /\ tickAt = BucketTime
        /\ buckets = [i \in 0..(Slots - 1) |-> {}]
        /\ executeAt = <<>> /\ adding = <<>> /\ firedAt = <<>>
        /\ hand = {} /\ seen = {} /\ ticking = FALSE

TicksFor(d) == IF d \div BucketTime = 0 THEN 1 ELSE d \div BucketTime

Add(t, d) ==
  /\ t \notin Added
  /\ now + d <= MaxTime
  /\ executeAt' = With(executeAt, t, now + d)
  /\ adding' = With(adding, t, TicksFor(d))
  /\ UNCHANGED <<now, current, buckets, hand, seen, ticking, tickAt, firedAt>>

InsertSlot(ticks) == (current + ticks) % Slots

(* The part of Add under the lock.                                         *)
Insert(t) ==
  /\ t \in DOMAIN adding
  /\ buckets' = [buckets EXCEPT ![InsertSlot(adding[t])] = @ \cup {t}]
  /\ adding' = Without(adding, t)
  /\ UNCHANGED <<now, current, executeAt, hand, seen, ticking, tickAt, firedAt>>

(* tick, under the lock: detach the current bucket and move on.            *)
Detach ==
  /\ ~ticking
  /\ Prompt => now = tickAt
  /\ ticking' = TRUE
  /\ hand' = buckets[current]
  /\ buckets' = [buckets EXCEPT ![current] = {}]
  /\ current' = (current + 1) % Slots
  /\ tickAt' = IF Prompt THEN tickAt + BucketTime ELSE tickAt
  /\ UNCHANGED <<now, executeAt, adding, seen, firedAt>>

ReadClock ==
  /\ ticking /\ seen = {}
  /\ seen' = {now}
  /\ UNCHANGED <<now, current, buckets, executeAt, adding, hand, ticking,
                 tickAt, firedAt>>

\* Mutant of Ripe: every timer of the bucket fires when it is reached.
RipeOnFirstVisit(t, s) == TRUE

Ripe(t, s) == executeAt[t] <= s

Fire(t) ==
  /\ t \in hand
  /\ \E s \in seen : Ripe(t, s)
  /\ firedAt' = With(firedAt, t, now)
  /\ hand' = hand \ {t}
  /\ UNCHANGED <<now, current, buckets, executeAt, adding, seen, ticking, tickAt>>

\* Mutant of Reinsert: the timer of a later rotation is dropped with its
\* bucket.
ReinsertForgets(t) ==
  /\ t \in hand
  /\ \E s \in seen : ~Ripe(t, s)
  /\ hand' = hand \ {t}
  /\ UNCHANGED <<now, current, buckets, executeAt, adding, seen, ticking,
                 tickAt, firedAt>>

(* The wheel has wrapped: the timer goes back in, under the lock.          *)
Reinsert(t) ==
  /\ t \in hand
  /\ \E s \in seen :
       /\ ~Ripe(t, s)
       /\ LET ticks == TicksFor(executeAt[t] - s)
              slot  == (current + ticks - 1 + Slots) % Slots
          IN  buckets' = [buckets EXCEPT ![slot] = @ \cup {t}]
  /\ hand' = hand \ {t}
  /\ UNCHANGED <<now, current, executeAt, adding, seen, ticking, tickAt, firedAt>>

TickDone ==
  /\ ticking /\ hand = {} /\ seen # {}
  /\ ticking' = FALSE
  /\ seen' = {}
  /\ UNCHANGED <<now, current, buckets, executeAt, adding, hand, tickAt, firedAt>>

(* Time passes; if Prompt, not before the tick that is due and the calls   *)
(* that have begun are through.                                            *)
Advance ==
  /\ now < MaxTime
  /\ Prompt => now < tickAt /\ ~ticking /\ adding = <<>>
  /\ now' = now + 1
  /\ UNCHANGED <<current, buckets, executeAt, adding, hand, seen, ticking,
                 tickAt, firedAt>>

Next == \/ \E t \in Timers, d \in Delays : Add(t, d)
        \/ \E t \in Timers : Insert(t) \/ Fire(t) \/ Reinsert(t)
        \/ Detach \/ ReadClock \/ TickDone \/ Advance

(* The ticker keeps ticking, tick() and Add() terminate, time passes.      *)
Fairness == /\ WF_vars(Detach) /\ WF_vars(ReadClock) /\ WF_vars(TickDone)
            /\ WF_vars(Advance)
            /\ \A t \in Timers : WF_vars(Insert(t)) /\ WF_vars(Fire(t) \/ Reinsert(t))

Spec == Init /\ [][Next]_vars
FairSpec == Spec /\ Fairness

-----------------------------------------------------------------------------

(* The shapes of the variables.                                            *)
TypeOK == /\ now \in 0..MaxTime /\ current \in 0..(Slots - 1)
          /\ \A i \in 0..(Slots - 1) : buckets[i] \subseteq Added
          /\ DOMAIN buckets = 0..(Slots - 1)
          /\ Added \subseteq Timers /\ Fired \subseteq Added
          /\ DOMAIN adding \subseteq Added
          /\ hand \subseteq Added /\ seen \subseteq 0..MaxTime
          /\ ticking \in BOOLEAN

(* A timer is neither lost nor doubled while buckets are detached and      *)
(* refilled under two separate holds of the lock: at any time it is in one *)
(* bucket, on its way into one, in tick's hand, or fired.                  *)
OnePlace ==
  \A t \in Added :
    Cardinality({i \in 0..(Slots - 1) : t \in buckets[i]})
      + Cardinality({t} \cap DOMAIN adding) + Cardinality({t} \cap hand)
      + Cardinality({t} \cap Fired) = 1

(* No callback runs before its delay is over, however often the wheel has  *)
(* gone round and however late the tick: a wake-up that comes early finds  *)
(* nothing to promote, and the group would have to be woken again.         *)
NeverEarly == \A t \in Fired : firedAt[t] >= executeAt[t]

(* How late a callback can be when nothing stalls: two ticks.  Add counts   *)
(* from the bucket that is examined next, so a delay shorter than a tick   *)
(* waits for the end of the tick under way and one more.                   *)
Punctual == /\ \A t \in Fired : firedAt[t] <= executeAt[t] + 2 * BucketTime
            /\ \A t \in Added \ Fired : now <= executeAt[t] + 2 * BucketTime

(* Neither before its time nor, unless something stalls, more than two     *)
(* ticks after it.                                                         *)
Timely == NeverEarly /\ (Prompt => Punctual)

(* TimingWheel's comment: "resolution is bounded by the tick interval      *)
(* (~10 ms here)" (timingwheel.go:26).                                     *)
WithinOneTick == \A t \in Fired : firedAt[t] <= executeAt[t] + BucketTime

(* Every timer fires, also one that needs several rotations of the wheel,  *)
(* whatever the stalls of the goroutines and the ticks that are dropped.   *)
EveryTimerFires == \A t \in Timers : t \in Added ~> t \in Fired
=============================================================================
