--------------------------- MODULE ShutdownProofs ---------------------------
(***************************************************************************)
(* For any number of connections, workers, queues and channels: what the   *)
(* dispatch workers and the sweeper gave to the log is on disk once        *)
(* Broker.Stop is through (module Shutdown).                               *)
(***************************************************************************)
EXTENDS Shutdown, TLAPS

Stages == {"select", "lookup", "send", "wait", "answer", "away", "gone"}

Event == [from : Actors, waits : BOOLEAN]

Shape ==
  /\ actor \in [Actors -> [pc : Stages, q : Queues]]
  /\ log \in [Queues -> {"none", "open", "stopping", "gone"}]
  /\ ch \in [Queues -> Seq(Event)]

(* Append does not wait, so only connections are told of a write.          *)
Waiters == \A q \in Queues : \A i \in DOMAIN ch[q] :
             ch[q][i].waits => ch[q][i].from \in Handlers

(* No event without a log to hold it: a sender has looked its log up.      *)
Opened == /\ \A a \in Actors : At(a, "send") => log[actor[a].q] # "none"
          /\ \A q \in Queues : log[q] = "none" => ch[q] = <<>>

Late == app \in {"scheduler", "listener", "closing", "closed", "exited"}

(* Past dispatchWG.Wait the background is gone.                            *)
Quiet == Late => \A a \in Background : At(a, "gone")

Clean(q) == \A i \in DOMAIN ch[q] : ch[q][i].from \notin Background

(* A writer stops only for Close, and leaves nothing of the background     *)
(* behind; after Close no channel has any.                                 *)
Sealed ==
  /\ \A q \in Queues : log[q] \in {"stopping", "gone"} => app \in {"closing", "closed", "exited"}
  /\ \A q \in Queues : log[q] = "gone" => Clean(q)
  /\ app \in {"closed", "exited"} => \A q \in Queues : Clean(q)

IInv == Shape /\ Waiters /\ Opened /\ Quiet /\ Sealed

-----------------------------------------------------------------------------
(* The steps that touch neither the actors nor the log.                    *)
LEMMA StillStep ==
  ASSUME IInv, UNCHANGED <<actor, log, ch>>,
         Late' => \A a \in Background : At(a, "gone"),
         app \in {"closing", "closed", "exited"} => app' \in {"closing", "closed", "exited"},
         app' \in {"closed", "exited"} => \A q \in Queues : Clean(q)
  PROVE  IInv'
BY DEF IInv, Shape, Waiters, Opened, Quiet, Sealed, Clean, At, Late

(* App.Stop's own steps.                                                   *)
LEMMA StopSteps ==
  ASSUME IInv, Signal \/ StopAPI \/ StopAPIFails \/ WaitDispatch \/ StopScheduler
               \/ StopListener \/ Closed \/ Exit
  PROVE  IInv'
<1>1. CASE Signal
  BY <1>1, StillStep DEF Signal, Late
<1>2. CASE StopAPI
  BY <1>2, StillStep DEF StopAPI, Late
<1>3. CASE StopAPIFails
  BY <1>3, StillStep DEF StopAPIFails, Late
<1>4. CASE WaitDispatch
  BY <1>4, StillStep DEF WaitDispatch, Late
<1>5. CASE StopScheduler
  BY <1>5, StillStep DEF StopScheduler, Late, IInv, Quiet
<1>6. CASE StopListener
  BY <1>6, StillStep DEF StopListener, Late, IInv, Quiet
<1>7. CASE Closed
  <2>1. \A q \in Queues : Clean(q)
    BY <1>7 DEF Closed, IInv, Sealed, Opened, Clean
  <2> QED
    BY <1>7, <2>1, StillStep DEF Closed, Late, IInv, Quiet
<1>8. CASE Exit
  BY <1>8, StillStep DEF Exit, Late, IInv, Quiet, Sealed
<1> QED
  BY <1>1, <1>2, <1>3, <1>4, <1>5, <1>6, <1>7, <1>8

LEMMA LogSteps ==
  ASSUME IInv, NEW q \in Queues, CloseQueueWAL(q) \/ WriterDone(q)
  PROVE  IInv'
<1>1. CASE CloseQueueWAL(q)
  BY <1>1 DEF CloseQueueWAL, IInv, Shape, Waiters, Opened, Quiet, Sealed, Clean, At, Late
<1>2. CASE WriterDone(q)
  BY <1>2 DEF WriterDone, IInv, Shape, Waiters, Opened, Quiet, Sealed, Clean, At, Late
<1> QED
  BY <1>1, <1>2

LEMMA LookupStep ==
  ASSUME IInv, NEW a \in Actors, GetQueueWAL(a)
  PROVE  IInv'
BY DEF GetQueueWAL, Go, IInv, Shape, Waiters, Opened, Quiet, Sealed, Clean, At, Late, Stages, Locked

(* Go, written with whole records.                                         *)
LEMMA Goes ==
  ASSUME Shape, NEW a \in Actors, NEW pc, Go(a, pc)
  PROVE  /\ actor[a].q \in Queues
         /\ actor' = [actor EXCEPT ![a] = [pc |-> pc, q |-> actor[a].q]]
<1> DEFINE r == actor[a]
<1>1. r \in [pc : Stages, q : Queues]
  BY DEF Shape
<1>2. actor' = [actor EXCEPT ![a] = [r EXCEPT !.pc = pc]]
  BY DEF Go
<1> HIDE DEF r
<1>3. r.q \in Queues /\ [r EXCEPT !.pc = pc] = [pc |-> pc, q |-> r.q]
  BY <1>1
<1>4. r.q \in Queues /\ actor' = [actor EXCEPT ![a] = [pc |-> pc, q |-> r.q]]
  BY <1>2, <1>3, Zenon
<1> QED
  BY <1>4, Zenon DEF r

(* An actor that moves on in its loop, and sends nothing.                  *)
LEMMA MoveStep ==
  ASSUME IInv, NEW a \in Actors, NEW pc \in Stages \ {"send"}, NEW q \in Queues,
         actor' = [actor EXCEPT ![a] = [pc |-> pc, q |-> q]],
         UNCHANGED <<app, log, ch>>,
         a \in Background => pc = "gone" \/ ~At(a, "gone")
  PROVE  IInv'
BY DEF IInv, Shape, Waiters, Opened, Quiet, Sealed, Clean, At, Late

(* An event is put in a channel; the background does so only while it is   *)
(* there.                                                                  *)
LEMMA SendStep ==
  ASSUME IInv, NEW a \in Actors, At(a, "send"), NEW pc \in Stages \ {"send", "gone"},
         NEW waits \in BOOLEAN, waits => a \in Handlers,
         Sent(a, waits), Go(a, pc), UNCHANGED <<app, log>>
  PROVE  IInv'
<1> DEFINE q == actor[a].q
           e == [from |-> a, waits |-> waits]
<1>1. /\ q \in Queues /\ e \in Event /\ ch[q] \in Seq(Event) /\ log[q] # "none"
      /\ a \in Background => ~Late
  BY Zenon DEF IInv, Shape, Event, Opened, Quiet, At
<1>2. /\ ch' = [ch EXCEPT ![q] = Append(ch[q], e)]
      /\ actor' = [actor EXCEPT ![a] = [pc |-> pc, q |-> q]]
  BY Goes DEF Sent, IInv
<1>3. /\ Append(ch[q], e) \in Seq(Event)
      /\ \A i \in DOMAIN Append(ch[q], e) :
           Append(ch[q], e)[i] = e \/ (i \in DOMAIN ch[q] /\ Append(ch[q], e)[i] = ch[q][i])
  BY <1>1
<1> HIDE DEF q
<1>4. Shape' /\ Waiters'
  BY <1>1, <1>2, <1>3 DEF IInv, Shape, Waiters, Event
<1>5. Opened' /\ Quiet'
  BY <1>1, <1>2, <1>3 DEF IInv, Shape, Opened, Quiet, At, Late
<1>6. \A p \in Queues : Clean(p) /\ a \notin Background => Clean(p)'
  BY <1>1, <1>2, <1>3 DEF IInv, Shape, Clean
<1>7. \A p \in Queues : Clean(p) /\ p # q => Clean(p)'
  BY <1>1, <1>2, <1>3 DEF IInv, Shape, Clean
<1>8. Sealed'
  BY <1>1, <1>2, <1>6, <1>7 DEF IInv, Sealed, Late
<1> QED
  BY <1>4, <1>5, <1>8 DEF IInv

-----------------------------------------------------------------------------
LEMMA WriteStep ==
  ASSUME IInv, NEW q \in Queues, Write(q)
  PROVE  IInv'
<1> USE ActorsAssumption
<1> DEFINE e == Head(ch[q])
<1>1. /\ ch[q] \in Seq(Event) /\ ch[q] # <<>> /\ log[q] # "none"
      /\ ch' = [ch EXCEPT ![q] = Tail(ch[q])]
      /\ UNCHANGED <<app, log>>
  BY DEF Write, IInv, Shape
<1>2. /\ Tail(ch[q]) \in Seq(Event)
      /\ \A i \in DOMAIN Tail(ch[q]) : i + 1 \in DOMAIN ch[q] /\ Tail(ch[q])[i] = ch[q][i + 1]
      /\ e = ch[q][1] /\ 1 \in DOMAIN ch[q] /\ e \in Event
  BY <1>1
<1>3. /\ ch' \in [Queues -> Seq(Event)]
      /\ \A p \in Queues : \A i \in DOMAIN ch'[p] : \E j \in DOMAIN ch[p] : ch'[p][i] = ch[p][j]
      /\ \A p \in Queues : ch[p] = <<>> => ch'[p] = <<>>
  BY <1>1, <1>2 DEF IInv, Shape
<1>4. \/ UNCHANGED actor
      \/ \E h \in Handlers : Go(h, "answer")
  BY <1>2 DEF Write, IInv, Waiters
<1>5. /\ actor' \in [Actors -> [pc : Stages, q : Queues]]
      /\ \A a \in Actors :
           actor'[a] = actor[a] \/ (a \in Handlers /\ actor'[a].pc = "answer")
  <2>1. CASE UNCHANGED actor
    BY <2>1 DEF IInv, Shape
  <2>2. CASE \E h \in Handlers : Go(h, "answer")
    <3>1. PICK h \in Handlers : Go(h, "answer")
      BY <2>2
    <3>2. h \in Actors
      BY DEF Actors
    <3> QED
      BY <3>1, <3>2, Goes DEF IInv, Shape, Stages
  <2> QED
    BY <1>4, <2>1, <2>2
<1>6. Shape' /\ Waiters'
  BY <1>1, <1>3, <1>5 DEF IInv, Shape, Waiters
<1>7. Opened'
  BY ZenonT(60), <1>1, <1>3, <1>5 DEF IInv, Opened, At
<1>8. Quiet'
  BY <1>1, <1>5 DEF IInv, Quiet, At, Late, Actors
<1>9. \A p \in Queues : Clean(p) => Clean(p)'
  BY <1>3 DEF Clean
<1>10. Sealed'
  BY <1>1, <1>9 DEF IInv, Sealed
<1> QED
  BY <1>6, <1>7, <1>8, <1>10 DEF IInv

(* What a timeout does to a channel: nothing but that some wait no longer. *)
Forget(s, h) ==
  [i \in DOMAIN s |-> IF s[i].from = h THEN [s[i] EXCEPT !.waits = FALSE] ELSE s[i]]

FewerWait(s, t) ==
  /\ t \in Seq(Event) /\ DOMAIN t = DOMAIN s
  /\ s = <<>> => t = <<>>
  /\ \A i \in DOMAIN s : t[i].from = s[i].from /\ (t[i].waits => s[i].waits)

LEMMA Forgotten ==
  ASSUME NEW s \in Seq(Event), NEW h
  PROVE  FewerWait(s, Forget(s, h))
<1> DEFINE t == Forget(s, h)
<1>1. \A e \in Event : /\ [e EXCEPT !.waits = FALSE] \in Event
                       /\ [e EXCEPT !.waits = FALSE].from = e.from
                       /\ ~[e EXCEPT !.waits = FALSE].waits
  BY Zenon DEF Event
<1>2. Len(s) \in Nat /\ DOMAIN s = 1..Len(s) /\ \A i \in DOMAIN s : s[i] \in Event
  OBVIOUS
<1>3. DOMAIN t = 1..Len(s)
  BY <1>2 DEF Forget
<1>4. \A i \in 1..Len(s) : /\ t[i] \in Event
                          /\ t[i].from = s[i].from /\ (t[i].waits => s[i].waits)
  BY <1>1, <1>2, Zenon DEF Forget
<1>5. t \in [1..Len(s) -> Event]
  BY <1>2, <1>4 DEF Forget
<1>6. t \in Seq(Event)
  BY <1>2, <1>5
<1>7. s = <<>> => t = <<>>
  BY <1>2, <1>3, <1>6
<1> QED
  BY <1>2, <1>3, <1>4, <1>6, <1>7 DEF FewerWait

LEMMA FewerWaitStep ==
  ASSUME IInv, NEW h \in Handlers, NEW q \in Queues,
         NEW t, FewerWait(ch[q], t), ch' = [ch EXCEPT ![q] = t],
         actor' = [actor EXCEPT ![h] = [pc |-> "select", q |-> q]],
         UNCHANGED <<app, log>>
  PROVE  IInv'
<1> USE ActorsAssumption
<1>0. h \in Actors /\ h \notin Background
  BY DEF Actors
<1>1. /\ ch[q] \in Seq(Event) /\ ch \in [Queues -> Seq(Event)]
      /\ t \in Seq(Event) /\ DOMAIN t = DOMAIN ch[q] /\ (ch[q] = <<>> => t = <<>>)
      /\ \A i \in DOMAIN ch[q] : t[i].from = ch[q][i].from /\ (t[i].waits => ch[q][i].waits)
  BY DEF IInv, Shape, FewerWait
<1>5. Shape' /\ Waiters'
  BY <1>0, <1>1 DEF IInv, Shape, Waiters, Stages
<1>6. Opened' /\ Quiet'
  BY <1>0, <1>1 DEF IInv, Shape, Opened, Quiet, At, Late, Actors
<1>7. \A p \in Queues : Clean(p) => Clean(p)'
  BY <1>1 DEF Clean
<1>8. Sealed'
  BY <1>7 DEF IInv, Sealed
<1> QED
  BY <1>5, <1>6, <1>8 DEF IInv

(* Connections.                                                            *)
LEMMA HandlerSteps ==
  ASSUME IInv, NEW h \in Handlers, HandlerStep(h)
  PROVE  IInv'
<1> USE ActorsAssumption
<1>0. h \in Actors /\ h \notin Background /\ Shape
  BY DEF Actors, IInv
<1>1. CASE ReadFrame(h)
  BY Zenon, <1>0, <1>1, MoveStep DEF ReadFrame, Stages
<1>2. CASE AppendSync(h)
  <2>1. At(h, "send") /\ Sent(h, TRUE) /\ Go(h, "wait") /\ UNCHANGED <<app, log>>
    BY Zenon, <1>2 DEF AppendSync
  <2> QED
    BY Zenon, <1>0, <2>1, SendStep DEF Stages
<1>3. CASE TimesOut(h)
  <2>1. actor[h].q \in Queues /\ UNCHANGED <<app, log>>
        /\ actor' = [actor EXCEPT ![h] = [pc |-> "select", q |-> actor[h].q]]
    BY <1>0, <1>3, Goes DEF TimesOut
  <2>2. ch' = [ch EXCEPT ![actor[h].q] = Forget(ch[actor[h].q], h)]
    BY <1>3, Zenon DEF TimesOut, Forget
  <2>3. ch[actor[h].q] \in Seq(Event)
    BY <1>0, <2>1 DEF Shape
  <2>4. FewerWait(ch[actor[h].q], Forget(ch[actor[h].q], h))
    BY <2>3, Forgotten, Zenon
  <2> QED
    BY <2>1, <2>2, <2>4, FewerWaitStep, Zenon
<1>4. CASE Answer(h)
  BY <1>0, <1>4, Goes, MoveStep DEF Answer, Stages
<1>5. CASE AppendAnswer(h)
  <2>1. /\ At(h, "send") /\ Go(h, "select") /\ UNCHANGED <<app, log>>
        /\ Sent(h, FALSE) \/ UNCHANGED ch
    BY Zenon, <1>5 DEF AppendAnswer
  <2>2. CASE Sent(h, FALSE)
    BY Zenon, <1>0, <2>1, <2>2, SendStep DEF Stages
  <2>3. CASE UNCHANGED ch
    BY <1>0, <2>1, <2>3, Goes, MoveStep DEF Stages
  <2> QED
    BY Zenon, <2>1, <2>2, <2>3
<1>6. CASE Leave(h)
  BY <1>0, <1>6, Goes, MoveStep DEF Leave, Stages
<1>7. CASE Accept(h)
  BY <1>0, <1>7, Goes, MoveStep DEF Accept, Stages
<1> QED
  BY <1>1, <1>2, <1>3, <1>4, <1>5, <1>6, <1>7 DEF HandlerStep

-----------------------------------------------------------------------------
(* Workers and the sweeper.                                                *)
LEMMA BackgroundSteps ==
  ASSUME IInv, NEW a \in Background,
         AppendBackground(a) \/ SeeStop(a) \/ (a \in Dispatchers /\ Dispatch(a))
         \/ (a = Sweeper /\ Sweep)
  PROVE  IInv'
<1> USE ActorsAssumption
<1>0. a \in Actors /\ Shape
  BY DEF Actors, IInv
<1>1. CASE AppendBackground(a)
  <2>1. /\ At(a, "send") /\ Go(a, "select") /\ UNCHANGED <<app, log>>
        /\ Sent(a, FALSE) \/ UNCHANGED ch
    BY Zenon, <1>1 DEF AppendBackground
  <2>2. CASE Sent(a, FALSE)
    BY Zenon, <1>0, <2>1, <2>2, SendStep DEF Stages
  <2>3. CASE UNCHANGED ch
    BY <1>0, <2>1, <2>3, Goes, MoveStep DEF Stages, At
  <2> QED
    BY Zenon, <2>1, <2>2, <2>3
<1>2. CASE SeeStop(a)
  BY <1>0, <1>2, Goes, MoveStep DEF SeeStop, Stages
<1>3. CASE Dispatch(a)
  BY Zenon, <1>0, <1>3, MoveStep DEF Dispatch, Stages, At
<1>4. CASE a = Sweeper /\ Sweep
  BY Zenon, <1>0, <1>4, MoveStep DEF Sweep, Stages, At
<1> QED
  BY <1>1, <1>2, <1>3, <1>4

LEMMA Initially == Init => IInv
BY DEF Init, IInv, Shape, Waiters, Opened, Quiet, Sealed, Clean, At, Late, Stages

LEMMA Inductive ==
  ASSUME IInv, [Next]_vars
  PROVE  IInv'
<1>1. CASE UNCHANGED vars
  BY <1>1, StillStep DEF vars, IInv, Quiet, Late, Sealed
<1>2. CASE Signal \/ StopStep
  BY <1>2, StopSteps, LogSteps DEF StopStep
<1>3. CASE \E a \in Actors : GetQueueWAL(a)
  BY <1>3, LookupStep
<1>4. CASE \E q \in Queues : Write(q) \/ WriterDone(q)
  BY <1>4, WriteStep, LogSteps
<1>5. CASE Activation \/ SchedulerLeaves \/ Request \/ RequestEnds
  <2>1. UNCHANGED <<app, actor, log, ch>>
    BY <1>5 DEF Activation, SchedulerLeaves, Request, RequestEnds
  <2> QED
    BY <2>1, StillStep DEF IInv, Quiet, Late, Sealed
<1>6. CASE (\E d \in Dispatchers : Dispatch(d)) \/ Sweep
           \/ \E a \in Background : AppendBackground(a) \/ SeeStop(a)
  BY <1>6, BackgroundSteps DEF Background
<1>7. CASE \E h \in Handlers : HandlerStep(h)
  BY <1>7, HandlerSteps
<1> QED
  BY <1>1, <1>2, <1>3, <1>4, <1>5, <1>6, <1>7 DEF Next

(* Once Broker.Stop is through, the workers and the sweeper are gone and   *)
(* none of their events is still in a channel, whatever the connections,   *)
(* the scheduler and HTTP requests do meanwhile.                           *)
THEOREM DeliveriesAreLogged == Spec => []DeliveriesLogged
<1>1. IInv => DeliveriesLogged
  BY DEF IInv, DeliveriesLogged, Quiet, Late, Sealed, Clean
<1> QED
  BY <1>1, Initially, Inductive, PTL DEF Spec
=============================================================================
