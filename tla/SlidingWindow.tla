--------------------------- MODULE SlidingWindow ---------------------------
(***************************************************************************)
(* The sliding-window rate limiter of internal/queue/ratelimit.go as pure  *)
(* operators on its only state, the sequence of the times of the events it *)
(* still remembers (slidingWindowLimiter.events).  Module RateLimiter runs *)
(* it on its own, module Group uses it inside a consumer group.            *)
(*                                                                         *)
(* Times are integers, in whatever unit the caller uses for its clock.     *)
(***************************************************************************)
EXTENDS Integers, Sequences, FiniteSets, FiniteSetsExt

CONSTANTS RateMax,     \* slidingWindowLimiter.max
          RateWindow   \* slidingWindowLimiter.window

(* allow() reads events[0] as soon as len(events) >= max, so max = 0 would *)
(* index an empty slice; the limiter is only meaningful for max >= 1.      *)
ASSUME RateAssumption == RateMax \in Nat \ {0} /\ RateWindow \in Nat

(* How many leading events allow() drops at time now: it scans from the    *)
(* oldest event and stops at the first one that is not before the cutoff.  *)
Stale(events, now) ==
  Min({i \in 0..Len(events) :
         i = Len(events) \/ events[i + 1] >= now - RateWindow})

(* events after the eviction at the start of allow().                      *)
Evict(events, now) ==
  SubSeq(events, Stale(events, now) + 1, Len(events))

(* Mutant of Room: len(events) > max instead of >=.                        *)
RoomOffByOne(events, now) == RateMax - Len(Evict(events, now)) + 1

(* How many more events allow() would admit at time now.                   *)
Room(events, now) == RateMax - Len(Evict(events, now))

(* The time at which a refused caller is told to retry, computed from the  *)
(* events that remain after the eviction.                                  *)
RetryAt(events, now) ==
  LET oldest == Head(Evict(events, now))
  IN  IF oldest + RateWindow < now THEN now ELSE oldest + RateWindow

(* events after n consecutive admitted calls of allow() at the same time.  *)
Admit(events, now, n) == Evict(events, now) \o [i \in 1..n |-> now]
=============================================================================
