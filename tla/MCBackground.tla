---------------------------- MODULE MCBackground ----------------------------
(***************************************************************************)
(* The goroutines that work behind the handlers: a queue's log writer      *)
(* (WriteAhead), for publishes of different connections and of the same    *)
(* one, and the scheduler's wheel (TimingWheel), with stalls and without.  *)
(* They share nothing, so each behaviour is one of them at work while the  *)
(* variables of the others keep their first values.                        *)
(***************************************************************************)
EXTENDS WriteAhead

VARIABLES part,
          now, current, buckets, executeAt, adding, hand, seen, ticking,
          tickAt, firedAt

wheelVars == <<now, current, buckets, executeAt, adding, hand, seen, ticking,
               tickAt, firedAt>>
allVars == <<part, vars, wheelVars>>

(* WriteAhead itself has two publishers and a worker that logs a lease, a  *)
(* channel that fills up and a disk that fails once.                       *)
TwoConns == [p1 |-> "c1", p2 |-> "c2"]

(* The same two publishes by one connection, which share its buffer.       *)
Frames == INSTANCE WriteAhead
  WITH Conn <- [p1 |-> "c1", p2 |-> "c1"]

(* Two timers on two buckets: a delay of 5 goes more than once round.      *)
Wheel == INSTANCE TimingWheel
  WITH Timers <- {"t1", "t2"}, Delays <- {0, 5}, Slots <- 2, BucketTime <- 2,
       MaxTime <- 6, Prompt <- FALSE

Prompt == INSTANCE TimingWheel
  WITH Timers <- {"t1", "t2"}, Delays <- {0, 1, 2, 3, 5, 10}, Slots <- 3,
       BucketTime <- 3, MaxTime <- 16, Prompt <- TRUE

MCInit == \/ part \in {"log", "wheel"} /\ Init /\ Wheel!Init
          \/ part = "frames" /\ Frames!Init /\ Wheel!Init
          \/ part = "prompt" /\ Init /\ Prompt!Init

MCNext == \/ part = "log" /\ Next /\ UNCHANGED <<part, wheelVars>>
          \/ part = "frames" /\ Frames!Next /\ UNCHANGED <<part, wheelVars>>
          \/ part = "wheel" /\ Wheel!Next /\ UNCHANGED <<part, vars>>
          \/ part = "prompt" /\ Prompt!Next /\ UNCHANGED <<part, vars>>

(* The log's fairness asks nothing where no event is ever appended, and is *)
(* that of Frames too: it does not mention connections.                    *)
MCSpec == /\ MCInit /\ [][MCNext]_allVars
          /\ Fairness
          /\ part = "wheel" => Wheel!Fairness

(* See TimingWheel: no callback before its time nor, without stalls, more  *)
(* than two ticks after it.                                                *)
Timely == IF part = "prompt" THEN Prompt!Timely ELSE Wheel!Timely

(* See TimingWheel: no timer is lost.                                      *)
EveryTimerFires == part = "wheel" => Wheel!EveryTimerFires
=============================================================================
