------------------------------ MODULE Listener ------------------------------
(***************************************************************************)
(* The accept loop of the TCP server: the token bucket for new             *)
(* connections, the count of active connections and the goroutines that    *)
(* handle them (internal/server/tcp_server.go).                            *)
(***************************************************************************)
EXTENDS Naturals, Sequences, FiniteSets

CONSTANTS Conns,          \* the connections that clients may dial
          MaxConnections, \* 0: not limited, and not counted
          Rate,           \* ConnRateLimit; 0: no limiter
          Second,         \* clock units in a second; a token is as many parts
          MaxTime,        \* bound on the clock
          Mishaps         \* some of: "timeout", "panic", "exhausted", "stop"

VARIABLES now,
          bucket,      \* its tokens, in parts, and the time of its last use
          acceptor,    \* where acceptLoop is, and with which connection
          conn,        \* connection -> where it is
          activeConns,
          admitted,    \* history: the times at which the limiter said yes
          open         \* the listener has not been closed

vars == <<now, bucket, acceptor, conn, activeConns, admitted, open>>

Limited == MaxConnections > 0

Burst == Rate * Second

Loop == [pc |-> "accept"]

At(pc, c) == acceptor' = [pc |-> pc, conn |-> c]

Move(c, to) == conn' = [conn EXCEPT ![c] = to]

-----------------------------------------------------------------------------
(* A client dials; the kernel completes the handshake by itself.           *)
Dial(c) ==
  /\ conn[c] = "none" /\ open /\ Move(c, "dialled")
  /\ UNCHANGED <<now, bucket, acceptor, activeConns, admitted, open>>

Accept(c) ==
  /\ acceptor = Loop /\ open /\ conn[c] = "dialled"
  /\ At("limit", c) /\ Move(c, "accepted")
  /\ UNCHANGED <<now, bucket, activeConns, admitted, open>>

(* Accept fails with a timeout: the loop sleeps, and goes on.              *)
AcceptTimeout ==
  /\ "timeout" \in Mishaps /\ acceptor = Loop /\ open
  /\ acceptor' = [pc |-> "sleep"]
  /\ UNCHANGED <<now, bucket, conn, activeConns, admitted, open>>

AfterBackoff ==
  /\ acceptor.pc = "sleep" /\ acceptor' = Loop
  /\ UNCHANGED <<now, bucket, conn, activeConns, admitted, open>>

(* Any other error, of a closed listener or for want of descriptors, ends  *)
(* the loop.                                                               *)
AcceptFails ==
  /\ acceptor = Loop /\ (~open \/ "exhausted" \in Mishaps)
  /\ acceptor' = [pc |-> "done"]
  /\ UNCHANGED <<now, bucket, conn, activeConns, admitted, open>>

Refilled ==
  LET t == bucket.tokens + (now - bucket.last) * Rate
  IN  IF t > Burst THEN Burst ELSE t

(* tokenBucket.allow, and the rejection.                                   *)
Limit ==
  /\ acceptor.pc = "limit"
  /\ LET c   == acceptor.conn
         yes == Rate = 0 \/ Refilled >= Second
     IN  /\ bucket' = IF Rate = 0 THEN bucket
                      ELSE [tokens |-> IF yes THEN Refilled - Second ELSE Refilled,
                            last   |-> now]
         /\ admitted' = IF yes THEN Append(admitted, now) ELSE admitted
         /\ IF yes THEN At("count", c) /\ UNCHANGED conn
                   ELSE acceptor' = Loop /\ Move(c, "rejected")
  /\ UNCHANGED <<now, activeConns, open>>

Full == activeConns >= MaxConnections

(* The test of the limit; the count may fall before the next step.         *)
Count ==
  /\ acceptor.pc = "count"
  /\ LET c == acceptor.conn
     IN  IF Limited /\ Full THEN acceptor' = Loop /\ Move(c, "rejected")
                            ELSE At("start", c) /\ UNCHANGED conn
  /\ UNCHANGED <<now, bucket, activeConns, admitted, open>>

(* The count, and the goroutine.                                           *)
Start ==
  /\ acceptor.pc = "start"
  /\ activeConns' = IF Limited THEN activeConns + 1 ELSE activeConns
  /\ acceptor' = Loop /\ Move(acceptor.conn, "running")
  /\ UNCHANGED <<now, bucket, admitted, open>>

-----------------------------------------------------------------------------
\* Mutant of Ended: a handler that panics does not give its place back.
EndedUnlessPanic(c, panics) ==
  /\ activeConns' = IF Limited /\ ~panics THEN activeConns - 1 ELSE activeConns
  /\ Move(c, "gone")

(* The deferred calls of handleConn, for every way out of it.              *)
Ended(c, panics) ==
  /\ activeConns' = IF Limited THEN activeConns - 1 ELSE activeConns
  /\ Move(c, "gone")

(* handleConn returns: the peer is refused, or leaves, or the handler      *)
(* panics.                                                                 *)
HandleConn(c) ==
  /\ conn[c] = "running"
  /\ \/ Ended(c, FALSE)
     \/ "panic" \in Mishaps /\ Ended(c, TRUE)
  /\ UNCHANGED <<now, bucket, acceptor, admitted, open>>

(* Stop closes the listener, and nothing else.                             *)
Stop ==
  /\ "stop" \in Mishaps /\ open /\ open' = FALSE
  /\ UNCHANGED <<now, bucket, acceptor, conn, activeConns, admitted>>

Tick ==
  /\ now < MaxTime /\ now' = now + 1
  /\ UNCHANGED <<bucket, acceptor, conn, activeConns, admitted, open>>

Init ==
  /\ now = 0 /\ bucket = [tokens |-> Burst, last |-> 0]
  /\ acceptor = Loop /\ conn = [c \in Conns |-> "none"]
  /\ activeConns = 0 /\ admitted = <<>> /\ open = TRUE

Next ==
  \/ \E c \in Conns : Dial(c) \/ Accept(c) \/ HandleConn(c)
  \/ AcceptTimeout \/ AfterBackoff \/ AcceptFails
  \/ Limit \/ Count \/ Start \/ Stop \/ Tick

Spec == Init /\ [][Next]_vars

(* The loop runs whenever it can; the backlog is served in turn.           *)
FairSpec == /\ Spec
            /\ \A c \in Conns : SF_vars(Accept(c))
            /\ WF_vars(AfterBackoff) /\ WF_vars(Limit) /\ WF_vars(Count) /\ WF_vars(Start)

-----------------------------------------------------------------------------
Alive == {c \in Conns : conn[c] = "running"}

(* Types; the bucket never holds more than its burst.                      *)
TypeOK ==
  /\ now \in 0..MaxTime
  /\ bucket.tokens \in 0..Burst /\ bucket.last \in 0..now
  /\ conn \in [Conns -> {"none", "dialled", "accepted", "rejected", "running", "gone"}]
  /\ activeConns \in Nat

(* The counter is the number of connections that are being handled,        *)
(* whichever way each of them ends, so that no slot leaks.                 *)
ActiveExact == Limited => activeConns = Cardinality(Alive)

(* Load and Add are two steps, but only this loop adds: there are never    *)
(* more than MaxConnections handlers.                                      *)
Capped == Limited => Cardinality(Alive) <= MaxConnections

(* Over any stretch of time the limiter admits at most a burst and what    *)
(* Rate yields in that time.                                               *)
RateBound ==
  Rate > 0 => \A i, j \in DOMAIN admitted :
    i <= j => (j - i + 1) * Second <= Burst + (admitted[j] - admitted[i]) * Rate

(* The two limits together: the counter of connections leaks no slot and   *)
(* caps the handlers, and the token bucket bounds the rate.                *)
LimitsKept == ActiveExact /\ Capped /\ RateBound

(* "max new connections/s": no second admits more than Rate.               *)
PerSecond ==
  Rate > 0 => \A i, j \in DOMAIN admitted :
    i <= j /\ admitted[j] - admitted[i] < Second => j - i + 1 <= Rate

(* Every client that dials is accepted or turned away, unless the server   *)
(* is stopped: errors of Accept that pass are retried.                     *)
EveryDialDecided ==
  \A c \in Conns : (conn[c] = "dialled") ~> (conn[c] \notin {"dialled", "accepted"} \/ ~open)
=============================================================================
