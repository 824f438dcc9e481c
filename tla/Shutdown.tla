------------------------------ MODULE Shutdown ------------------------------
(***************************************************************************)
(* How the process stops: App.Stop, and under it the API server's, the     *)
(* broker's, the scheduler's, the TCP server's and the log's own Stop or   *)
(* Close (internal/app/app.go, broker/broker.go, storage/wal.go), while    *)
(* connection handlers, dispatch workers and the lease sweeper are at      *)
(* work.  The disk is sound, and a writer's batch is on disk at once:      *)
(* WriteAhead has the writer in detail.                                    *)
(***************************************************************************)
EXTENDS Naturals, Sequences, FiniteSets

CONSTANTS Handlers,     \* connections; each publishes and acknowledges for ever
          Dispatchers,  \* dispatch workers, and the lanes they read
          Sweeper,      \* the goroutine of startLeaseSweeper
          Queues,
          LaneCap,      \* capacity of a dispatch channel
          ChanCap,      \* capacity of a QueueWAL's ch
          SlowRequests  \* an HTTP request may outlast the five seconds of App.Stop

(* The members of dispatchWG that write to the log.                        *)
Background == Dispatchers \cup {Sweeper}

Actors == Handlers \cup Background

(* A goroutine serves a connection or works in the background.             *)
ASSUME ActorsAssumption == Handlers \cap Background = {}

VARIABLES app,      \* how far App.Stop is; "aborted" is its early return
          request,  \* an HTTP request is under way
          lane,     \* dispatcher -> messages in its channel
          sched,    \* a worker of the scheduler runs
          actor,    \* actor -> where it is in its loop, and the queue it is at
          log,      \* queue -> its QueueWAL's writer: none, open, stopping, gone
          ch        \* queue -> QueueWAL.ch: who sent each event, and if they wait

vars == <<app, request, lane, sched, actor, log, ch>>

Running == app \notin {"exited", "aborted"}

(* App.Stop has closed dispatchStop, has stopped the scheduler, has closed *)
(* the listener; WAL.Close holds w.mu.                                     *)
DispatchStop == app \in {"dispatch", "scheduler", "listener", "closing", "closed"}

SchedulerStop == app \in {"listener", "closing", "closed"}

Listening == app \notin {"closing", "closed"}

Locked == app = "closing"

At(a, pc) == actor[a].pc = pc

Go(a, pc) == actor' = [actor EXCEPT ![a].pc = pc]

Init ==
  /\ app = "serving" /\ request = FALSE /\ sched = TRUE
  /\ lane = [d \in Dispatchers |-> 0]
  /\ actor \in [Actors -> [pc : {"select"}, q : Queues]]
  /\ log \in [Queues -> {"none", "open"}]
  /\ ch = [q \in Queues |-> <<>>]

-----------------------------------------------------------------------------
(* App.Stop.                                                               *)

Signal ==
  /\ app = "serving" /\ app' = "api"
  /\ UNCHANGED <<request, lane, sched, actor, log, ch>>

(* http.Server.Shutdown waits for the requests under way, ...              *)
StopAPI ==
  /\ app = "api" /\ ~request
  /\ app' = "dispatch"
  /\ UNCHANGED <<request, lane, sched, actor, log, ch>>

(* ... for five seconds; then App.Stop returns its error, and main exits.  *)
StopAPIFails ==
  /\ app = "api" /\ request /\ SlowRequests
  /\ app' = "aborted"
  /\ UNCHANGED <<request, lane, sched, actor, log, ch>>

\* Mutant of WaitDispatch: nobody waits for the workers.
WaitDispatchNot ==
  /\ app = "dispatch" /\ app' = "scheduler"
  /\ UNCHANGED <<request, lane, sched, actor, log, ch>>

(* dispatchWG.Wait().                                                      *)
WaitDispatch ==
  /\ app = "dispatch" /\ \A a \in Background : At(a, "gone")
  /\ app' = "scheduler"
  /\ UNCHANGED <<request, lane, sched, actor, log, ch>>

StopScheduler ==
  /\ app = "scheduler" /\ app' = "listener"
  /\ UNCHANGED <<request, lane, sched, actor, log, ch>>

(* TCPServer.Stop closes the listener; connections stay.  Then WAL.Close   *)
(* takes the lock ...                                                      *)
StopListener ==
  /\ app = "listener" /\ app' = "closing"
  /\ UNCHANGED <<request, lane, sched, actor, log, ch>>

(* ... and stops one writer after the other, waiting for each.             *)
CloseQueueWAL(q) ==
  /\ app = "closing" /\ log[q] = "open"
  /\ \A p \in Queues : log[p] # "stopping"
  /\ log' = [log EXCEPT ![q] = "stopping"]
  /\ UNCHANGED <<app, request, lane, sched, actor, ch>>

Closed ==
  /\ app = "closing" /\ \A q \in Queues : log[q] \in {"none", "gone"}
  /\ app' = "closed"
  /\ UNCHANGED <<request, lane, sched, actor, log, ch>>

(* main returns.                                                           *)
Exit ==
  /\ app = "closed" /\ app' = "exited"
  /\ UNCHANGED <<request, lane, sched, actor, log, ch>>

StopStep ==
  \/ StopAPI \/ StopAPIFails \/ WaitDispatch \/ StopScheduler \/ StopListener
  \/ (\E q \in Queues : CloseQueueWAL(q)) \/ Closed \/ Exit

-----------------------------------------------------------------------------
(* The log.                                                                *)

\* Mutant of GetQueueWAL: Close does not hold the lock.
GetQueueWALUnlocked(a) ==
  /\ Running /\ At(a, "lookup")
  /\ log' = [log EXCEPT ![actor[a].q] = IF @ = "none" THEN "open" ELSE @]
  /\ Go(a, "send")
  /\ UNCHANGED <<app, request, lane, sched, ch>>

(* getQueueWAL: the log is opened if need be, and left to Close otherwise. *)
GetQueueWAL(a) ==
  /\ Running /\ At(a, "lookup") /\ ~Locked
  /\ log' = [log EXCEPT ![actor[a].q] = IF @ = "none" THEN "open" ELSE @]
  /\ Go(a, "send")
  /\ UNCHANGED <<app, request, lane, sched, ch>>

Sent(a, waits) ==
  ch' = [ch EXCEPT ![actor[a].q] = Append(@, [from |-> a, waits |-> waits])]

HasRoom(a) == Len(ch[actor[a].q]) < ChanCap

(* The writer puts the next event on disk, and tells who waits for it.     *)
Write(q) ==
  /\ Running /\ log[q] \in {"open", "stopping"} /\ ch[q] # <<>>
  /\ ch' = [ch EXCEPT ![q] = Tail(@)]
  /\ IF Head(ch[q]).waits THEN Go(Head(ch[q]).from, "answer") ELSE UNCHANGED actor
  /\ UNCHANGED <<app, request, lane, sched, log>>

(* After a stop, the writer is gone once it finds the channel empty.       *)
WriterDone(q) ==
  /\ Running /\ log[q] = "stopping" /\ ch[q] = <<>>
  /\ log' = [log EXCEPT ![q] = "gone"]
  /\ UNCHANGED <<app, request, lane, sched, actor, ch>>

-----------------------------------------------------------------------------
(* Who gives work to the dispatchers, and who reports to the log.          *)

(* enqueueDispatch does not wait, and may refuse once dispatchStop is      *)
(* closed.                                                                 *)
EnqueueDispatch ==
  \/ \E d \in Dispatchers : lane[d] < LaneCap /\ lane' = [lane EXCEPT ![d] = @ + 1]
  \/ (DispatchStop \/ \E d \in Dispatchers : lane[d] = LaneCap) /\ UNCHANGED lane

(* A worker of the scheduler activates a group; nobody waits for it.       *)
Activation ==
  /\ Running /\ sched
  /\ EnqueueDispatch
  /\ UNCHANGED <<app, request, sched, actor, log, ch>>

SchedulerLeaves ==
  /\ Running /\ sched /\ SchedulerStop
  /\ sched' = FALSE
  /\ UNCHANGED <<app, request, lane, actor, log, ch>>

(* dispatch: the message is written to its consumer, then leased in the    *)
(* log.                                                                    *)
Dispatch(d) ==
  /\ Running /\ At(d, "select") /\ lane[d] > 0
  /\ lane' = [lane EXCEPT ![d] = @ - 1]
  /\ \E q \in Queues : actor' = [actor EXCEPT ![d] = [pc |-> "lookup", q |-> q]]
  /\ UNCHANGED <<app, request, sched, log, ch>>

(* sweepLeases finds a lease that has lapsed.                              *)
Sweep ==
  /\ Running /\ At(Sweeper, "select")
  /\ \E q \in Queues : actor' = [actor EXCEPT ![Sweeper] = [pc |-> "lookup", q |-> q]]
  /\ UNCHANGED <<app, request, lane, sched, log, ch>>

(* Append: the event is sent if there is room, and forgotten otherwise.    *)
AppendBackground(a) ==
  /\ Running /\ a \in Background /\ At(a, "send")
  /\ IF HasRoom(a) THEN Sent(a, FALSE) ELSE UNCHANGED ch
  /\ Go(a, "select")
  /\ UNCHANGED <<app, request, lane, sched, log>>

(* The select of a worker's or of the sweeper's loop takes dispatchStop.   *)
SeeStop(a) ==
  /\ Running /\ a \in Background /\ At(a, "select") /\ DispatchStop
  /\ Go(a, "gone")
  /\ UNCHANGED <<app, request, lane, sched, log, ch>>

-----------------------------------------------------------------------------
(* Connections.                                                            *)

(* A frame that has to be logged is read.                                  *)
ReadFrame(h) ==
  /\ Running /\ At(h, "select")
  /\ \E q \in Queues : actor' = [actor EXCEPT ![h] = [pc |-> "lookup", q |-> q]]
  /\ UNCHANGED <<app, request, lane, sched, log, ch>>

(* onPublish: AppendSync sends as soon as there is room, and waits ...     *)
AppendSync(h) ==
  /\ Running /\ At(h, "send") /\ HasRoom(h)
  /\ Sent(h, TRUE) /\ Go(h, "wait")
  /\ UNCHANGED <<app, request, lane, sched, log>>

(* ... for thirty seconds, for the room and for the writer; the event      *)
(* stays where it is.                                                      *)
TimesOut(h) ==
  /\ Running
  /\ At(h, "wait") \/ (At(h, "send") /\ ~HasRoom(h))
  /\ Go(h, "select")
  /\ ch' = [ch EXCEPT ![actor[h].q] =
              [i \in DOMAIN @ |-> IF @[i].from = h THEN [@[i] EXCEPT !.waits = FALSE] ELSE @[i]]]
  /\ UNCHANGED <<app, request, lane, sched, log>>

(* PUBLISH_OK, and perhaps an immediate dispatch.                          *)
Answer(h) ==
  /\ Running /\ At(h, "answer")
  /\ Go(h, "select")
  /\ EnqueueDispatch \/ UNCHANGED lane
  /\ UNCHANGED <<app, request, sched, log, ch>>

(* onACK and onNACK: Append, and if that worked perhaps the next message.  *)
AppendAnswer(h) ==
  /\ Running /\ At(h, "send")
  /\ IF HasRoom(h) THEN Sent(h, FALSE) /\ (EnqueueDispatch \/ UNCHANGED lane)
                   ELSE UNCHANGED <<ch, lane>>
  /\ Go(h, "select")
  /\ UNCHANGED <<app, request, sched, log>>

Leave(h) ==
  /\ Running /\ At(h, "select")
  /\ Go(h, "away")
  /\ UNCHANGED <<app, request, lane, sched, log, ch>>

Accept(h) ==
  /\ Running /\ At(h, "away") /\ Listening
  /\ Go(h, "select")
  /\ UNCHANGED <<app, request, lane, sched, log, ch>>

(* The management API.                                                     *)
Request ==
  /\ app = "serving" /\ ~request /\ request' = TRUE
  /\ UNCHANGED <<app, lane, sched, actor, log, ch>>

RequestEnds ==
  /\ Running /\ request /\ request' = FALSE
  /\ UNCHANGED <<app, lane, sched, actor, log, ch>>

-----------------------------------------------------------------------------
HandlerStep(h) ==
  \/ ReadFrame(h) \/ AppendSync(h) \/ TimesOut(h) \/ Answer(h) \/ AppendAnswer(h)
  \/ Leave(h) \/ Accept(h)

Next ==
  \/ Signal \/ StopStep
  \/ \E a \in Actors : GetQueueWAL(a)
  \/ \E q \in Queues : Write(q) \/ WriterDone(q)
  \/ Activation \/ SchedulerLeaves
  \/ \E d \in Dispatchers : Dispatch(d)
  \/ Sweep
  \/ \E a \in Background : AppendBackground(a) \/ SeeStop(a)
  \/ \E h \in Handlers : HandlerStep(h)
  \/ Request \/ RequestEnds

Spec == Init /\ [][Next]_vars

(* Goroutines that can run do.  A select that finds both a message and     *)
(* dispatchStop picks one at random, so that it takes the stop in the end. *)
(* Nothing is assumed of the peers, of the scheduler or of HTTP requests,  *)
(* except that without SlowRequests a request ends.                        *)
Fairness ==
  /\ WF_vars(StopStep)
  /\ \A q \in Queues : WF_vars(Write(q)) /\ WF_vars(WriterDone(q))
  /\ \A a \in Background : /\ SF_vars(SeeStop(a))
                           /\ WF_vars(GetQueueWAL(a)) /\ WF_vars(AppendBackground(a))
  /\ ~SlowRequests => WF_vars(RequestEnds)

-----------------------------------------------------------------------------
(* Types.                                                                  *)
TypeOK ==
  /\ app \in {"serving", "api", "dispatch", "scheduler", "listener", "closing",
              "closed", "exited", "aborted"}
  /\ {request, sched} \subseteq BOOLEAN
  /\ lane \in [Dispatchers -> 0..LaneCap]
  /\ actor \in [Actors -> [pc : {"select", "lookup", "send", "wait", "answer",
                                 "away", "gone"}, q : Queues]]
  /\ log \in [Queues -> {"none", "open", "stopping", "gone"}]
  /\ ch \in [Queues -> Seq([from : Actors, waits : BOOLEAN])]
  /\ \A q \in Queues : \A i \in DOMAIN ch[q] : ch[q][i].waits =>
       ch[q][i].from \in Handlers /\ At(ch[q][i].from, "wait")

(* What the dispatch workers and the sweeper have given to the log is on   *)
(* disk once Broker.Stop is through, and they hold nothing back: every     *)
(* delivery is leased in the log that the next process replays.  It rests  *)
(* on the order of Broker.Stop, which waits for them before WAL.Close.     *)
DeliveriesLogged ==
  app \in {"closed", "exited"} =>
    /\ \A a \in Background : At(a, "gone")
    /\ \A q \in Queues : \A i \in DOMAIN ch[q] : ch[q][i].from \notin Background

(* A stop ends, although connections go on publishing: Close holds the     *)
(* lock that they need for their next event, so the channels it waits for  *)
(* run dry.                                                                *)
StopReturns == app = "api" ~> ~Running

(* "the broker stops accepting new connections, drains in-flight messages, *)
(* flushes the WAL" (docs/modules/app.md:18): nothing is left in a channel *)
(* or in a handler's hand when the process ends.                           *)
FlushedAtExit ==
  ~Running => /\ \A q \in Queues : ch[q] = <<>>
              /\ \A h \in Handlers : At(h, "select") \/ At(h, "away")
=============================================================================
