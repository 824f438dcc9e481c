---------------------------- MODULE RateLimiter ----------------------------
(***************************************************************************)
(* The rate limiter of a group on its own: allow() called at arbitrary     *)
(* times (nextDispatchable calls it on every dispatch path, group.go:307)  *)
(* of a clock that does not go back.                                       *)
(*                                                                         *)
(* The names every module has (Init, Next, ...) carry the module's here,   *)
(* so that what is proved of the limiter can be used in the proofs of the  *)
(* group that owns it.                                                     *)
(***************************************************************************)
EXTENDS SlidingWindow

CONSTANTS MaxClock,    \* bound on the clock
          MaxGrants   \* bound on the calls that are admitted

VARIABLES clock,    \* the clock
          events,   \* slidingWindowLimiter.events
          granted,  \* history: the times of all admitted calls
          retryAt   \* {} or what the last call, refused, returned; kept
                    \* until the next admitted call

limiterVars == <<clock, events, granted, retryAt>>

LimiterInit == clock = 0 /\ events = <<>> /\ granted = <<>> /\ retryAt = {}

(* allow() admits the call.                                                *)
Grant == /\ Len(granted) < MaxGrants
         /\ Room(events, clock) > 0
         /\ events' = Admit(events, clock, 1)
         /\ granted' = Append(granted, clock)
         /\ retryAt' = {}
         /\ UNCHANGED clock

(* allow() refuses the call; it has evicted all the same.                  *)
Refuse == /\ Room(events, clock) <= 0
          /\ events' = Evict(events, clock)
          /\ retryAt' = {RetryAt(events, clock)}
          /\ UNCHANGED <<clock, granted>>

LimiterTick == /\ clock < MaxClock
               /\ clock' = clock + 1
               /\ UNCHANGED <<events, granted, retryAt>>

LimiterNext == Grant \/ Refuse \/ LimiterTick

LimiterSpec == LimiterInit /\ [][LimiterNext]_limiterVars

-----------------------------------------------------------------------------

(* The shapes of the variables.                                            *)
LimiterTypeOK == /\ clock \in Nat
                 /\ events \in Seq(Nat)
                 /\ granted \in Seq(Nat)
                 /\ retryAt \subseteq Nat

(* The limit itself: of any RateMax + 1 admitted calls, the first and the  *)
(* last are more than a window apart, although allow() forgets events and  *)
(* compares only with those it still remembers.                            *)
WindowRespected ==
  \A i \in 1..(Len(granted) - RateMax) :
    granted[i + RateMax] > granted[i] + RateWindow

(* The limit is not stricter than configured: a call is refused only while *)
(* RateMax calls were admitted within the last window.                     *)
RefusedOnlyWhenFull ==
  Room(events, clock) <= 0 =>
    Cardinality({i \in 1..Len(granted) : granted[i] >= clock - RateWindow})
      >= RateMax

(* The comments of allow() say of the time a refused caller gets that it   *)
(* is "the earliest time the caller may retry" and "the moment the oldest  *)
(* slot frees up" (ratelimit.go:43, 67): a call at that time, with no      *)
(* other call admitted since, would be admitted.                           *)
RetryAtHonoured == \A t \in retryAt : clock >= t => Room(events, clock) > 0
=============================================================================
