----------------------------- MODULE MCBackoff -----------------------------
(***************************************************************************)
(* A message that keeps failing, under every small retry configuration:    *)
(* retryDelay against the formulas of docs/modules/queue.md:91-95.         *)
(***************************************************************************)
EXTENDS Backoff

CONSTANTS MaxDelays,   \* bound on InitialDelay and MaxDelay
          MaxTries     \* bound on the attempts of the message

VARIABLES strategy, base, maxDelay, attempt

vars == <<strategy, base, maxDelay, attempt>>

Init == /\ strategy \in Strategies
        /\ base \in 1..MaxDelays
        /\ maxDelay \in base..MaxDelays
        /\ attempt = 1

(* fail increments Attempts before it asks for the delay.                  *)
FailAgain == /\ attempt < MaxTries
             /\ attempt' = attempt + 1
             /\ UNCHANGED <<strategy, base, maxDelay>>

Spec == Init /\ [][FailAgain]_vars

Delay == BackoffDelay(strategy, base, maxDelay, attempt)

Smaller(a, b) == IF a <= b THEN a ELSE b

(* What the raw delay is before it is stored in a time.Duration.           *)
Unbounded == CASE strategy = "exponential" -> base * 2 ^ attempt
               [] strategy = "linear" -> base * (attempt + 1)
               [] OTHER -> base

Fits == Unbounded < 2 ^ (IntBits - 1)

(* As long as the product fits an int64, the delay is the smaller of the   *)
(* product and MaxDelay, as retryDelay intends (group.go:407-418).         *)
DelayAsIntended == Fits => Delay = Smaller(Unbounded, maxDelay)

(* docs/modules/queue.md:95: the exponential delay is                      *)
(* min(initial_delay * 2^attempt, max_delay), for every attempt.           *)
ExponentialAsDocumented ==
  strategy = "exponential" => Delay = Smaller(base * 2 ^ attempt, maxDelay)

(* docs/modules/queue.md:94: the linear delay is initial_delay * attempt   *)
(* (cut at max_delay like the others).                                     *)
LinearAsDocumented ==
  strategy = "linear" => Delay = Smaller(base * attempt, maxDelay)
=============================================================================
