----------------------------- MODULE Connection -----------------------------
(***************************************************************************)
(* One connection of the TCP server: the goroutine that authenticates the  *)
(* peer and answers its frames, the dispatchers that send it messages, and *)
(* the writer goroutine that batches what they put into outCh              *)
(* (internal/server/connection.go, tcp_server.go handleConn).              *)
(***************************************************************************)
EXTENDS Naturals, Sequences, SequencesExt

CONSTANTS OutCap,    \* capacity of outCh (1024)
          DrainMax,  \* frames a batch may take after its first (100)
          MaxFrames, \* bound on the frames that are sent
          Mishaps    \* what may happen, some of: "refused", "stall", "reset"

VARIABLES handler,    \* where handleConn is
          subscribed, \* a dispatcher may have picked the connection
          outCh, queued, \* the channel; all that was ever put into it
          writer,     \* where writerLoop is
          drained,    \* its counter
          buffer,     \* frames in the encoder's bufio.Writer
          wire,       \* frames the peer was sent
          stopped,    \* stopCh is closed
          socket      \* "open", "stalled" (the peer does not read) or "dead"

vars == <<handler, subscribed, outCh, queued, writer, drained, buffer, wire,
          stopped, socket>>

Frames == {"connectOK", "connectErr", "reply", "message"}

Room == Len(outCh) < OutCap

Put(f) == outCh' = Append(outCh, f) /\ queued' = Append(queued, f)

-----------------------------------------------------------------------------
(* handleConn.  Authenticate decides, ...                                  *)
Authenticate ==
  /\ handler = "connect"
  /\ \/ handler' = "greet"
     \/ "refused" \in Mishaps /\ handler' = "refuse"
  /\ UNCHANGED <<subscribed, outCh, queued, writer, drained, buffer, wire, stopped, socket>>

(* ... and puts its answer into outCh; the send waits for room only.       *)
Greet ==
  /\ handler \in {"greet", "refuse"} /\ Room
  /\ Put(IF handler = "greet" THEN "connectOK" ELSE "connectErr")
  /\ handler' = IF handler = "greet" THEN "serve" ELSE "leave"
  /\ UNCHANGED <<subscribed, writer, drained, buffer, wire, stopped, socket>>

(* The broker's handler reads a frame: a SUBSCRIBE, or one that it answers *)
(* (PUBLISH, HEARTBEAT).                                                   *)
Request ==
  /\ handler = "serve" /\ socket # "dead" /\ Len(queued) < MaxFrames
  /\ \/ subscribed' = TRUE /\ UNCHANGED handler
     \/ handler' = "answer" /\ UNCHANGED subscribed
  /\ UNCHANGED <<outCh, queued, writer, drained, buffer, wire, stopped, socket>>

(* WritePublishOK, WriteError, WriteHeartbeat: wait for room.  They would  *)
(* also give up on stopCh, which only this goroutine closes, later.        *)
Answer ==
  /\ handler = "answer" /\ Room
  /\ Put("reply")
  /\ handler' = "serve"
  /\ UNCHANGED <<subscribed, writer, drained, buffer, wire, stopped, socket>>

(* WriteBackpressure, on a PUBLISH beyond a limit: dropped if outCh is     *)
(* full.                                                                   *)
Backpressure ==
  /\ handler = "serve" /\ socket # "dead" /\ Len(queued) < MaxFrames
  /\ Room /\ Put("reply")
  /\ UNCHANGED <<handler, subscribed, writer, drained, buffer, wire, stopped, socket>>

(* The read fails, or its deadline passes: the handler returns.            *)
EndOfInput ==
  /\ handler = "serve" /\ handler' = "leave"
  /\ UNCHANGED <<subscribed, outCh, queued, writer, drained, buffer, wire, stopped, socket>>

(* Close, deferred by handleConn: stopCh, then the socket.                 *)
Close ==
  /\ handler = "leave" /\ handler' = "gone"
  /\ stopped' = TRUE /\ socket' = "dead"
  /\ UNCHANGED <<subscribed, outCh, queued, writer, drained, buffer, wire>>

(* A dispatcher's WriteMessage never waits: it fails if outCh is full or,  *)
(* maybe, if stopCh is closed.  It may hold the connection after Close.    *)
WriteMessage ==
  /\ subscribed /\ Room /\ Len(queued) < MaxFrames
  /\ Put("message")
  /\ UNCHANGED <<handler, subscribed, writer, drained, buffer, wire, stopped, socket>>

-----------------------------------------------------------------------------
(* writerLoop.                                                             *)
SeeStop ==
  /\ writer = "select" /\ stopped /\ writer' = "done"
  /\ UNCHANGED <<handler, subscribed, outCh, queued, drained, buffer, wire, stopped, socket>>

(* writeMsg: into the buffer, which the encoder may have to write out      *)
(* first.  The errors of a dead socket are ignored, and stick.             *)
WriteMsg(f) ==
  \/ buffer' = Append(buffer, f) /\ UNCHANGED wire
  \/ /\ buffer # <<>> /\ socket = "open"
     /\ wire' = wire \o buffer /\ buffer' = <<f>>
  \/ socket = "dead" /\ buffer' = <<>> /\ UNCHANGED wire

Take ==
  /\ writer = "select" /\ outCh # <<>>
  /\ outCh' = Tail(outCh) /\ WriteMsg(Head(outCh))
  /\ writer' = "drain" /\ drained' = 0
  /\ UNCHANGED <<handler, subscribed, queued, stopped, socket>>

\* Mutant of Drain: a batch that reaches its limit is left in the buffer.
DrainNoFlush ==
  /\ writer = "drain"
  /\ \/ /\ outCh # <<>> /\ outCh' = Tail(outCh) /\ WriteMsg(Head(outCh))
        /\ drained' = drained + 1
        /\ writer' = IF drained + 1 >= DrainMax THEN "select" ELSE "drain"
     \/ /\ outCh = <<>> /\ writer' = "flush"
        /\ UNCHANGED <<outCh, buffer, wire, drained>>
  /\ UNCHANGED <<handler, subscribed, queued, stopped, socket>>

(* The inner loop takes what is there, up to its limit.                    *)
Drain ==
  /\ writer = "drain"
  /\ \/ /\ outCh # <<>> /\ outCh' = Tail(outCh) /\ WriteMsg(Head(outCh))
        /\ drained' = drained + 1
        /\ writer' = IF drained + 1 >= DrainMax THEN "flush" ELSE "drain"
     \/ /\ outCh = <<>> /\ writer' = "flush"
        /\ UNCHANGED <<outCh, buffer, wire, drained>>
  /\ UNCHANGED <<handler, subscribed, queued, stopped, socket>>

\* Mutant of Flush: the buffer is written again after it was spilled.
FlushTwice ==
  /\ writer = "flush" /\ socket # "stalled"
  /\ wire' = IF socket = "open" THEN wire \o buffer ELSE wire
  /\ UNCHANGED buffer
  /\ writer' = "select"
  /\ UNCHANGED <<handler, subscribed, outCh, queued, drained, stopped, socket>>

(* Flush: waits while the peer does not read; no write deadline is set.    *)
Flush ==
  /\ writer = "flush" /\ socket # "stalled"
  /\ wire' = IF socket = "open" THEN wire \o buffer ELSE wire
  /\ buffer' = <<>>
  /\ writer' = "select"
  /\ UNCHANGED <<handler, subscribed, outCh, queued, drained, stopped, socket>>

-----------------------------------------------------------------------------
(* The peer stops reading, or is gone.                                     *)
Stall ==
  /\ "stall" \in Mishaps /\ socket = "open" /\ socket' = "stalled"
  /\ UNCHANGED <<handler, subscribed, outCh, queued, writer, drained, buffer, wire, stopped>>

Reset ==
  /\ "reset" \in Mishaps /\ socket # "dead" /\ socket' = "dead"
  /\ UNCHANGED <<handler, subscribed, outCh, queued, writer, drained, buffer, wire, stopped>>

Init ==
  /\ handler = "connect" /\ subscribed = FALSE
  /\ outCh = <<>> /\ queued = <<>>
  /\ writer = "select" /\ drained = 0 /\ buffer = <<>> /\ wire = <<>>
  /\ stopped = FALSE /\ socket = "open"

HandlerSteps ==
  Authenticate \/ Greet \/ Request \/ Answer \/ Backpressure \/ EndOfInput \/ Close

WriterSteps == SeeStop \/ Take \/ Drain \/ Flush

Next == HandlerSteps \/ WriteMessage \/ WriterSteps \/ Stall \/ Reset

Spec == Init /\ [][Next]_vars

(* Goroutines that can run do run; nobody has to send anything.            *)
Fairness == /\ WF_vars(WriterSteps)
            /\ WF_vars(Authenticate \/ Greet \/ Answer \/ Close)

FairSpec == Spec /\ Fairness

-----------------------------------------------------------------------------
(* Types; a batch holds at most DrainMax frames after its first.           *)
TypeOK ==
  /\ handler \in {"connect", "greet", "refuse", "serve", "answer", "leave", "gone"}
  /\ writer \in {"select", "drain", "flush", "done"} /\ drained \in 0..DrainMax
  /\ outCh \in Seq(Frames) /\ Len(outCh) <= OutCap
  /\ queued \in Seq(Frames) /\ buffer \in Seq(Frames) /\ wire \in Seq(Frames)
  /\ socket \in {"open", "stalled", "dead"} /\ {subscribed, stopped} \subseteq BOOLEAN

(* The peer gets the frames in the order in which they entered outCh, each *)
(* once, and as long as the socket lives none is lost on the way.          *)
InOrder ==
  /\ IsPrefix(wire, queued)
  /\ socket # "dead" => wire \o buffer \o outCh = queued

(* The first frame answers the CONNECT, also if a dispatcher finds the     *)
(* connection at once; a refused peer gets nothing else.                   *)
GreetingFirst ==
  wire # <<>> => \/ wire[1] = "connectOK"
                 \/ wire = <<"connectErr">>

(* Nothing stays behind in the buffer or in outCh: what was queued reaches *)
(* the peer, unless the socket dies or the peer stops reading.             *)
NothingWithheld ==
  \A k \in 1..MaxFrames :
    (Len(queued) >= k) ~> (Len(wire) >= k \/ socket # "open")

(* A handler that has an answer gets rid of it and reads on, whatever the  *)
(* peer does: "write_timeout".                                             *)
HandlerGoesOn == (handler = "answer") ~> (handler # "answer")

(* A peer that is refused and keeps reading is told so: "ConnectErrFrame   *)
(* is sent by the broker when authentication fails".                       *)
RefusalSent == (handler = "refuse") ~> ("connectErr" \in Range(wire) \/ socket = "stalled")
=============================================================================
