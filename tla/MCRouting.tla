----------------------------- MODULE MCRouting -----------------------------
(***************************************************************************)
(* The data structures and policies a dispatch consults: the subscriber    *)
(* registry (Registry) and its patterns (Glob), the rate limiter           *)
(* (RateLimiter) and the retry delays (MCBackoff).  They share nothing, so *)
(* each behaviour is one of them at work while the variables of the others *)
(* keep their first values.                                                *)
(***************************************************************************)
EXTENDS RateLimiter

VARIABLES part,
          listAt, members, cursor, used, entries, proc, arrived, calls, wrong,
          pattern, name,
          strategy, base, maxDelay, attempt

registryVars == <<listAt, members, cursor, used, entries, proc, arrived, calls,
                  wrong>>
globVars     == <<pattern, name>>
backoffVars  == <<strategy, base, maxDelay, attempt>>
allVars == <<part, registryVars, globVars, limiterVars, backoffVars>>

(* Two connections that come and go, the group's own key and a pattern.    *)
R == INSTANCE Registry
  WITH Conns <- {"c1", "c2"}, Exact <- "g", Patterns <- {"p"},
       Lists <- {"l1", "l2", "l3"}, MaxSubs <- 2, MaxCalls <- 3,
       NoList <- "none", NoConn <- "none", NoKey <- "none"

(* A letter, a separator, and a character other glob dialects treat        *)
(* specially.                                                              *)
G == INSTANCE Glob WITH Letters <- {"a", "[", "/"}, MaxPattern <- 4, MaxName <- 3

B == INSTANCE MCBackoff WITH IntBits <- 8, MaxDelays <- 12, MaxTries <- 10

MCInit ==
  /\ R!Init /\ G!Init /\ LimiterInit
  /\ \/ /\ part \in {"registry", "glob", "limiter"}
        /\ strategy = "fixed" /\ base = 1 /\ maxDelay = 1 /\ attempt = 1
     \/ part = "backoff" /\ B!Init

MCNext ==
  \/ part = "registry" /\ R!Next
     /\ UNCHANGED <<part, globVars, limiterVars, backoffVars>>
  \/ part = "glob" /\ G!Next
     /\ UNCHANGED <<part, registryVars, limiterVars, backoffVars>>
  \/ part = "limiter" /\ LimiterNext
     /\ UNCHANGED <<part, registryVars, globVars, backoffVars>>
  \/ part = "backoff" /\ B!FailAgain
     /\ UNCHANGED <<part, registryVars, globVars, limiterVars>>

MCSpec == MCInit /\ [][MCNext]_allVars

(* See Registry: a connection that has gone is never offered a message.    *)
NoGhosts == R!NoGhosts

(* See Registry: within a key, the subscribers are served in turn.         *)
RoundRobin == R!RoundRobin

(* The two pure functions: matchGlob matches what its comment says (Glob), *)
(* and retryDelay is right as long as its product fits (MCBackoff).        *)
PoliciesAsIntended == G!MatchesAsDocumented /\ B!DelayAsIntended
=============================================================================
