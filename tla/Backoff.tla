------------------------------ MODULE Backoff ------------------------------
(***************************************************************************)
(* group.retryDelay (internal/queue/group.go): the delay before the next   *)
(* attempt of a failed message.  Durations are signed integers of IntBits  *)
(* bits (64 in the code) that wrap around on overflow.                     *)
(***************************************************************************)
EXTENDS Integers

CONSTANT IntBits

Strategies == {"fixed", "linear", "exponential"}

(* The value an IntBits-bit signed variable holds after being assigned n.  *)
Wrap(n) ==
  LET half == 2 ^ (IntBits - 1)
  IN  ((n + half) % (2 * half)) - half

(* 1 << attempt; the bit is shifted out when attempt >= IntBits.           *)
Shifted(attempt) == IF attempt >= IntBits THEN 0 ELSE Wrap(2 ^ attempt)

RawDelay(strategy, base, attempt) ==
  CASE strategy = "exponential" -> Wrap(base * Shifted(attempt))
    [] strategy = "linear" -> Wrap(base * (attempt + 1))
    [] OTHER -> base

(* retryDelay: the raw delay, cut at MaxDelay.                             *)
BackoffDelay(strategy, base, maxDelay, attempt) ==
  LET d == RawDelay(strategy, base, attempt)
  IN  IF d > maxDelay THEN maxDelay ELSE d
=============================================================================
