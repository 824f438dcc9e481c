--------------------------- MODULE MCConsumerGroup ---------------------------
(***************************************************************************)
(* ConsumerGroup on small instances.  A slow config and a fast one, so     *)
(* that SetGroupConfig both raises and lowers the parallelism, the retry   *)
(* budget and the depth limit while messages are in flight.                *)
(***************************************************************************)
EXTENDS ConsumerGroup

Narrow == [parallelism |-> 1, quantum |-> 1, lease |-> 1,
           maxAttempts |-> 2, maxPending |-> 2]
Wide == [parallelism |-> 2, quantum |-> 2, lease |-> 1,
         maxAttempts |-> 0, maxPending |-> 0]

MCConfigs == {Narrow, Wide}

B == INSTANCE Backoff WITH IntBits <- 8

(* Two clock units between attempts.                                       *)
MCRetryDelay(c, attempt) == B!BackoffDelay("linear", 1, 2, attempt)
=============================================================================
