------------------------------ MODULE MCServer ------------------------------
(***************************************************************************)
(* The goroutines of the server process: the accept loop (Listener), one   *)
(* connection with its writer goroutine (Connection), and how the process  *)
(* stops (Shutdown).  Each behaviour is one of them at work while the      *)
(* variables of the others keep their first values.                        *)
(***************************************************************************)
EXTENDS Shutdown

VARIABLES part,
          now, bucket, acceptor, conn, activeConns, admitted, open,
          handler, subscribed, outCh, queued, writer, drained, buffer, wire,
          stopped, socket

listenerVars   == <<now, bucket, acceptor, conn, activeConns, admitted, open>>
connectionVars == <<handler, subscribed, outCh, queued, writer, drained, buffer,
                    wire, stopped, socket>>
allVars == <<part, listenerVars, connectionVars, vars>>

(* One place for three clients, and one new connection per three units.    *)
L == INSTANCE Listener
  WITH Conns <- {"c1", "c2", "c3"}, MaxConnections <- 1, Rate <- 1, Second <- 3,
       MaxTime <- 6, Mishaps <- {"panic", "timeout", "stop"}

(* A channel of two frames and batches of two; the peer is refused, stops  *)
(* reading or disappears at any time.                                      *)
C == INSTANCE Connection
  WITH OutCap <- 2, DrainMax <- 1, MaxFrames <- 5,
       Mishaps <- {"refused", "stall", "reset"}

(* In Shutdown a connection, a dispatch worker and the sweeper share a     *)
(* queue's log.                                                            *)
MCInit == /\ part \in {"listener", "connection", "shutdown"}
          /\ L!Init /\ C!Init /\ Init
          (* Only the part at work makes a choice. *)
          /\ part # "shutdown" => \A q \in Queues : log[q] = "open"

MCNext ==
  \/ part = "listener" /\ L!Next /\ UNCHANGED <<part, connectionVars, vars>>
  \/ part = "connection" /\ C!Next /\ UNCHANGED <<part, listenerVars, vars>>
  \/ part = "shutdown" /\ Next /\ UNCHANGED <<part, listenerVars, connectionVars>>

MCSpec == /\ MCInit /\ [][MCNext]_allVars
          /\ part = "connection" => C!Fairness
          /\ part = "shutdown" => Fairness

(* See Listener: connections are counted exactly, and capped; so are those *)
(* of any stretch of time.                                                 *)
LimitsKept == L!LimitsKept

(* See Connection: frames reach the peer in the order of outCh, each once. *)
InOrder == C!InOrder

(* See Connection: nothing stays behind in outCh or in the buffer.         *)
NothingWithheld == part = "connection" => C!NothingWithheld

=============================================================================
