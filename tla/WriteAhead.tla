----------------------------- MODULE WriteAhead -----------------------------
(***************************************************************************)
(* The write path of one queue's log: Append and AppendSync in their       *)
(* callers' goroutines, and writerLoop with flushBatch in the writer's     *)
(* (internal/storage/wal.go, internal/storage/writer.go), with disks that  *)
(* fail and a Close at any time. A publish hands over its payload as a     *)
(* slice of its connection's read buffer (protocol/codec.go), which the    *)
(* next frame of that connection overwrites.                               *)
(***************************************************************************)
EXTENDS Naturals, Sequences, Functions

CONSTANTS SyncEvents, AsyncEvents,  \* calls of AppendSync and of Append
          Conns, Conn,   \* connections; event of SyncEvents -> the one that publishes it
          ChanCap,       \* capacity of ch
          FlushMax,      \* FlushMaxMessages
          Durable,       \* fsync after each flush
          MaxFailures    \* bound on the failures of the disk

Events == SyncEvents \cup AsyncEvents

(* Every publish comes in on a connection.                                 *)
ASSUME ConnAssumption == Conn \in [SyncEvents -> Conns]

VARIABLES call,      \* event -> the progress of its call
          buffer,    \* connection -> the event, if any, whose payload Decoder.buf holds
          ch,        \* QueueWAL.ch
          batch,     \* the writer's batch
          writer,    \* where writerLoop is; "last" is its final flush
          flushing,  \* where flushBatch is
          stop,      \* Close has closed q.stop
          file,      \* the events in the segment, as the OS has it
          body,      \* event in the file -> the event whose payload is in its record
          synced,    \* the events an fsync has covered
          stuck,     \* the bufio.Writer has met an error, which it keeps
          errored,   \* QueueWAL.errored
          failures,  \* failures of the disk so far
          order      \* history: the events in the order of their sends

vars == <<call, buffer, ch, batch, writer, flushing, stop, file, body, synced,
          stuck, errored, failures, order>>

writerVars == <<batch, writer, flushing>>

diskVars == <<file, body, synced, stuck, errored, failures>>

(* A waiter's channel has room for one answer; who has timed out never     *)
(* looks at it.                                                            *)
Reply(S, r) == [e \in Events |-> IF e \in S \cap SyncEvents /\ call[e] = "sent"
                                 THEN r ELSE call[e]]

Init ==
  /\ call = [e \in Events |-> "idle"]
  /\ buffer = [c \in Conns |-> {}] /\ body = [e \in {} |-> {}]
  /\ ch = <<>> /\ batch = <<>> /\ file = <<>> /\ order = <<>>
  /\ writer = "loop" /\ flushing = "no"
  /\ stop = FALSE /\ stuck = FALSE /\ errored = FALSE
  /\ synced = {} /\ failures = 0

-----------------------------------------------------------------------------
(* Callers.                                                                *)

(* A connection's frames are handled one after the other.                  *)
Ready(e) ==
  /\ call[e] = "idle"
  /\ e \in SyncEvents =>
       \A f \in SyncEvents : Conn[f] = Conn[e] => call[f] \notin {"sending", "sent"}

(* The frame is read, and Err() is asked ...                               *)
Begin(e) ==
  /\ Ready(e)
  /\ call' = [call EXCEPT ![e] = IF errored THEN "error" ELSE "sending"]
  /\ buffer' = IF e \in SyncEvents THEN [buffer EXCEPT ![Conn[e]] = {e}] ELSE buffer
  /\ UNCHANGED <<ch, writerVars, stop, diskVars, order>>

(* ... then the event is sent, whatever has happened meanwhile.            *)
Send(e) ==
  /\ call[e] = "sending" /\ Len(ch) < ChanCap
  /\ ch' = Append(ch, e)
  /\ order' = Append(order, e)
  /\ call' = [call EXCEPT ![e] = IF e \in SyncEvents THEN "sent" ELSE "ok"]
  /\ UNCHANGED <<buffer, writerVars, stop, diskVars>>

(* Append does not wait for room.                                          *)
Full(e) ==
  /\ e \in AsyncEvents
  /\ call[e] = "sending" /\ Len(ch) >= ChanCap
  /\ call' = [call EXCEPT ![e] = "error"]
  /\ UNCHANGED <<buffer, ch, writerVars, stop, diskVars, order>>

\* Mutant of TimedOut: only the send is limited.
TimedOutSending(e) == e \in SyncEvents /\ call[e] = "sending" /\ Len(ch) >= ChanCap

TimedOut(e) == /\ e \in SyncEvents
               /\ call[e] = "sent" \/ (call[e] = "sending" /\ Len(ch) >= ChanCap)

(* appendSyncTimeout passes, for the send or for the confirmation.         *)
Timeout(e) ==
  /\ TimedOut(e)
  /\ call' = [call EXCEPT ![e] = "error"]
  /\ UNCHANGED <<buffer, ch, writerVars, stop, diskVars, order>>

Close ==
  /\ ~stop
  /\ stop' = TRUE
  /\ UNCHANGED <<call, buffer, ch, writerVars, diskVars, order>>

-----------------------------------------------------------------------------
(* writerLoop.                                                             *)

Free == flushing = "no"

(* An event is received, in the loop or while draining after a stop; a     *)
(* full batch is flushed at once.                                          *)
Receive ==
  /\ Free /\ ch # <<>>
  /\ (writer = "loop" /\ ~errored) \/ writer = "stopping"
  /\ ch' = Tail(ch)
  /\ batch' = Append(batch, Head(ch))
  /\ flushing' = IF Len(batch') >= FlushMax THEN "write" ELSE "no"
  /\ UNCHANGED <<call, buffer, writer, stop, diskVars, order>>

(* The flush ticker.                                                       *)
Tick ==
  /\ Free /\ writer = "loop" /\ ~errored /\ batch # <<>>
  /\ flushing' = "write"
  /\ UNCHANGED <<call, buffer, ch, batch, writer, stop, diskVars, order>>

SeeStop ==
  /\ Free /\ writer = "loop" /\ ~errored /\ stop
  /\ writer' = "stopping"
  /\ UNCHANGED <<call, buffer, ch, batch, flushing, stop, diskVars, order>>

\* Mutant of Drained: the writer leaves with its batch in hand.
DrainedNoFlush ==
  /\ Free /\ writer = "stopping" /\ ch = <<>>
  /\ writer' = "done"
  /\ UNCHANGED <<call, buffer, ch, batch, flushing, stop, diskVars, order>>

(* The channel is found empty: one last flush, then the writer is gone.    *)
Drained ==
  /\ Free /\ writer = "stopping" /\ ch = <<>>
  /\ IF batch = <<>> THEN writer' = "done" /\ UNCHANGED flushing
                     ELSE writer' = "last" /\ flushing' = "write"
  /\ UNCHANGED <<call, buffer, ch, batch, stop, diskVars, order>>

(* After a permanent failure the channel is emptied, waiters get the error,*)
(* and the writer is gone.                                                 *)
ErrDrain ==
  /\ Free /\ writer = "loop" /\ errored
  /\ IF ch = <<>>
     THEN writer' = "done" /\ UNCHANGED <<call, ch>>
     ELSE /\ call' = Reply({Head(ch)}, "error")
          /\ ch' = Tail(ch)
          /\ UNCHANGED writer
  /\ UNCHANGED <<buffer, batch, flushing, stop, diskVars, order>>

-----------------------------------------------------------------------------
(* flushBatch: the records and logBuf.Flush(), then the fsync.             *)

(* writeRecord takes the payload from where the event points to.           *)
Records(written) ==
  /\ file' = file \o written
  /\ body' = [e \in Range(file') |->
               IF e \notin Range(written) THEN body[e]
               ELSE IF e \in SyncEvents THEN buffer[Conn[e]] ELSE {e}]

(* signalDone, and the return to the loop, which empties the batch.        *)
Signal(r) ==
  /\ call' = Reply(Range(batch), r)
  /\ batch' = <<>> /\ flushing' = "no"
  /\ writer' = IF writer = "last" THEN "done" ELSE writer
  /\ UNCHANGED <<buffer, ch, stop, order>>

\* Mutant of Flushed: the waiters are told before the fsync.
FlushedTellsFirst ==
  /\ flushing = "write" /\ ~stuck
  /\ Records(batch)
  /\ flushing' = IF Durable THEN "sync" ELSE "no"
  /\ call' = Reply(Range(batch), "ok")
  /\ IF Durable
     THEN UNCHANGED <<batch, writer>>
     ELSE batch' = <<>> /\ writer' = IF writer = "last" THEN "done" ELSE writer
  /\ UNCHANGED <<buffer, ch, stop, order, synced, stuck, errored, failures>>

Flushed ==
  /\ flushing = "write" /\ ~stuck
  /\ Records(batch)
  /\ IF Durable
     THEN flushing' = "sync" /\ UNCHANGED <<call, buffer, ch, batch, writer, stop, order>>
     ELSE Signal("ok")
  /\ UNCHANGED <<synced, stuck, errored, failures>>

\* Mutant of FlushFails: the batch is kept and written again.
FlushFailsRetries(full) ==
  /\ flushing = "write" /\ ~full
  /\ failures < MaxFailures /\ failures' = failures + 1
  /\ \E n \in 0 .. Len(batch) - 1 : Records(SubSeq(batch, 1, n))
  /\ UNCHANGED <<call, buffer, ch, writerVars, stop, synced, stuck, errored, order>>

(* The file takes some of the batch, or none when the buffer is stuck;     *)
(* only a full disk is a permanent failure.                                *)
FlushFails(full) ==
  /\ flushing = "write"
  /\ IF stuck
     THEN ~full /\ UNCHANGED <<file, body, failures>>
     ELSE /\ failures < MaxFailures /\ failures' = failures + 1
          /\ \E n \in 0 .. Len(batch) - 1 : Records(SubSeq(batch, 1, n))
  /\ stuck' = TRUE
  /\ errored' = (errored \/ full)
  /\ Signal("error")
  /\ UNCHANGED synced

Synced ==
  /\ flushing = "sync"
  /\ synced' = synced \cup Range(batch)
  /\ Signal("ok")
  /\ UNCHANGED <<file, body, stuck, errored, failures>>

SyncFails(full) ==
  /\ flushing = "sync" /\ failures < MaxFailures
  /\ failures' = failures + 1
  /\ errored' = (errored \/ full)
  /\ Signal("error")
  /\ UNCHANGED <<file, body, synced, stuck>>

-----------------------------------------------------------------------------
WriterStep ==
  \/ Receive \/ Tick \/ SeeStop \/ Drained \/ ErrDrain
  \/ Flushed \/ Synced
  \/ \E full \in BOOLEAN : FlushFails(full) \/ SyncFails(full)

Next ==
  \/ \E e \in Events : Begin(e) \/ Send(e) \/ Full(e) \/ Timeout(e)
  \/ Close
  \/ WriterStep

Spec == Init /\ [][Next]_vars

(* The goroutines run; a caller's timer fires only if it has to.           *)
Fairness ==
  /\ WF_vars(WriterStep)
  /\ \A e \in Events : WF_vars(Send(e)) /\ WF_vars(Full(e)) /\ WF_vars(Timeout(e))

FairSpec == Spec /\ Fairness

-----------------------------------------------------------------------------
(* Types, and where the goroutines can be: flushBatch only ever has a      *)
(* batch, a batch never outgrows FlushMaxMessages, and a writer that is    *)
(* gone has nothing in hand.                                               *)
TypeOK ==
  /\ call \in [Events -> {"idle", "sending", "sent", "ok", "error"}]
  /\ Len(ch) <= ChanCap
  /\ Len(batch) <= FlushMax
  /\ flushing \in {"no", "write", "sync"}
  /\ flushing # "no" => batch # <<>>
  /\ writer \in {"loop", "stopping", "last", "done"}
  /\ writer = "last" => flushing # "no"
  /\ writer = "done" => batch = <<>>
  /\ {stop, stuck, errored} \subseteq BOOLEAN
  /\ failures \in 0 .. MaxFailures

(* AppendSync returns nil only for an event that is in the file with its   *)
(* own payload and, when the queue is durable, that an fsync has covered:  *)
(* "if the broker sent ACK to the publisher, the message must survive a    *)
(* crash".                                                                 *)
AckedIsOnDisk ==
  \A e \in SyncEvents :
    call[e] = "ok" => /\ e \in Range(file) /\ body[e] = {e}
                      /\ Durable => e \in synced

(* Every record has the payload that was published with it: "Callers must  *)
(* copy this if they want to retain the payload beyond the current frame". *)
RecordsAsPublished == \A e \in Range(file) : body[e] = {e}

(* The log has the events in the order in which their senders got them     *)
(* into the channel, none of them twice, whatever batches were cut short   *)
(* by a failure: replay relies on a PUBLISH preceding its LEASE.           *)
LogFollowsOrder ==
  /\ IsInjective(file)
  /\ \A i, j \in DOMAIN file :
       i < j => \E k, l \in DOMAIN order : k < l /\ order[k] = file[i] /\ order[l] = file[j]

(* A writer that is stopped while the disk is sound leaves nothing behind: *)
(* every event ever sent is in the file, or came after the drain ("Close   *)
(* stops all per-queue writer goroutines and flushes pending data").       *)
StopLosesNothing ==
  writer = "done" /\ failures = 0 =>
    Range(order) = Range(file) \cup Range(ch)

(* Every call returns: AppendSync answers its caller even when the writer  *)
(* is gone before it sees the event ("prevents goroutine leaks when the    *)
(* WAL channel is full or the disk is hung").                              *)
EveryCallReturns ==
  \A e \in Events : call[e] \in {"sending", "sent"} ~> call[e] \in {"ok", "error"}
=============================================================================
