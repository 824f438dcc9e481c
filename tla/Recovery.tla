------------------------------ MODULE Recovery ------------------------------
(***************************************************************************)
(* What the write-ahead log, the snapshots and the replay at startup make  *)
(* of one queue with one group when the broker crashes and restarts        *)
(* (internal/storage, internal/storage/recovery, internal/storage/snapshot,*)
(* internal/broker/recovery.go, and the handlers that append events).      *)
(*                                                                         *)
(* The group is reduced to how many copies of a message it has in which    *)
(* place; urgent and ready count as one.  The writer goroutine flushes one *)
(* event at a time (module WriteAhead has batches and failures).           *)
(***************************************************************************)
EXTENDS Naturals, Sequences, SequencesExt, FiniteSets, FiniteSetsExt

CONSTANTS Msgs,
          Kinds,          \* what may happen, some of: "nack", "late" (an
                          \* answer after the lease lapsed), "expire" (the
                          \* sweeper finds the lapsed lease), "full" (the
                          \* WAL's channel), "rotate", "snapshot", "tear"
          Provided,       \* the queue's first life has a state provider
          MaxAttempts,    \* RetryConfig.MaxAttempts
          ChanCap,        \* capacity of the WAL's channel
          MaxSegment, MaxDeliveries, MaxCrashes  \* bounds

VARIABLES up,          \* the process runs
          mem,         \* message -> what the group in memory has of it
          chan,        \* QueueWAL.ch
          disk,        \* segment -> the records in its .log file
          snaps,       \* segment -> its .snap file; both remember, as
                       \* history, the life of the process that wrote them
          segmentID, seq, provider,  \* fields of QueueWAL
          snapper,     \* the goroutine in saveSnapshot
          pub,         \* message -> the progress of its onPublish
          unlogged,    \* deliveries whose LEASE dispatch has still to append
          held,        \* message -> deliveries a consumer has not answered
          delivered,   \* deliveries so far
          consumed,    \* history: messages a consumer has acknowledged
          dropped,     \* history: messages that ran out of attempts
          crashes

vars == <<up, mem, chan, disk, snaps, segmentID, seq, provider, snapper, pub,
          unlogged, held, delivered, consumed, dropped, crashes>>

logVars  == <<disk, snaps, segmentID, seq, provider, snapper>>
liveVars == <<unlogged, held, delivered>>
pastVars == <<consumed, dropped, crashes>>

-----------------------------------------------------------------------------
(* The group, by message.                                                  *)

Nowhere == [ready |-> 0, proc |-> FALSE, delayed |-> 0, tries |-> 0]
NoMem == [m \in Msgs |-> Nowhere]

Has(g, m) == g[m].ready > 0 \/ g[m].proc \/ g[m].delayed > 0

Enqueue(g, m) == [g EXCEPT ![m].ready = @ + 1]

(* A lease, also ReplayLease, which looks for the message in urgent and    *)
(* ready only.                                                             *)
Lease(g, m) ==
  IF g[m].ready > 0 THEN [g EXCEPT ![m].ready = @ - 1, ![m].proc = TRUE] ELSE g

Complete(g, m) == [g EXCEPT ![m].proc = FALSE]

(* RemoveMessage looks in urgent, ready and processing.                    *)
RemoveMessage(g, m) ==
  IF g[m].ready > 0 THEN [g EXCEPT ![m].ready = @ - 1] ELSE Complete(g, m)

Exhausted(g, m) == g[m].proc /\ g[m].tries + 1 >= MaxAttempts

Fail(g, m) ==
  IF ~g[m].proc THEN g
  ELSE IF Exhausted(g, m) THEN [g EXCEPT ![m].proc = FALSE, ![m].tries = 0]
  ELSE [g EXCEPT ![m].proc = FALSE, ![m].delayed = @ + 1, ![m].tries = @ + 1]

\* Mutant of ReturnToPending: the lease is kept.
ReturnKeepsLease(g, m) ==
  IF g[m].proc THEN [g EXCEPT ![m].ready = @ + 1] ELSE g

ReturnToPending(g, m) ==
  IF g[m].proc THEN [g EXCEPT ![m].proc = FALSE, ![m].ready = @ + 1] ELSE g

Promote(g, m) == [g EXCEPT ![m].ready = @ + g[m].delayed, ![m].delayed = 0]

-----------------------------------------------------------------------------
(* Replay.                                                                 *)

\* Mutant of OnACK: an ACK that was logged before its LEASE is ignored.
OnACKProcessingOnly(g, m) == Complete(g, m)

OnACK(g, m) == IF g[m].proc THEN Complete(g, m) ELSE RemoveMessage(g, m)

\* Mutant of OnNACK: a message that was rejected once is taken for failed.
OnNACKRemoves(g, m) == RemoveMessage(g, m)

(* Queue.Fail reports an error only for an unknown group.                  *)
OnNACK(g, m) == Fail(g, m)

(* An expired lease is completed.                                          *)
OnExpire(g, m) == Complete(g, m)

Dispatched(g, r) ==
  CASE r.type = "PUBLISH" -> Enqueue(g, r.m)
    [] r.type = "LEASE"   -> Lease(g, r.m)
    [] r.type = "ACK"     -> OnACK(g, r.m)
    [] r.type = "NACK"    -> OnNACK(g, r.m)
    [] r.type = "EXPIRE"  -> OnExpire(g, r.m)

(* replayFile reads up to the first record that is cut short; what was     *)
(* appended behind it is read as the rest of that record.                  *)
Readable(s) ==
  LET torn == {i \in DOMAIN s : s[i].type = "torn"}
  IN  IF torn = {} THEN s ELSE SubSeq(s, 1, Min(torn) - 1)

NoSnap == [kind |-> "none", seq |-> 0, mem |-> NoMem, life |-> 0]

(* A snapshot file that was cut short is refused, a whole one comes back   *)
(* as it was written.                                                      *)
Read(s) == snaps[s].kind = "whole"

(* FindLatestSnapshot, which never returns that of segment 0.              *)
LatestSnap == Max({0} \cup {s \in DOMAIN snaps : snaps[s].kind # "none"})

(* DiscoverQueues: without a readable snapshot, replay from the start.     *)
Usable == LatestSnap > 0 /\ Read(LatestSnap)

(* ImportState, of one message's copies.                                   *)
ImportState(r, ready, delayed) == [r EXCEPT !.ready = ready, !.delayed = delayed]

(* OnSnapshot: a pending message whose ScheduledAt is in the future goes   *)
(* to the heap, the others to ready.                                       *)
Imported(g, future) ==
  [m \in Msgs |->
     LET n == g[m].ready + g[m].delayed
     IN  IF m \in future THEN ImportState(g[m], 0, n) ELSE ImportState(g[m], n, 0)]

(* ReplayFromSnapshot.                                                     *)
Recovered(future) ==
  LET first == IF Usable THEN LatestSnap ELSE 0
      start == IF Usable THEN snaps[LatestSnap].seq + 1 ELSE 1
      files == [i \in 1..(MaxSegment + 1 - first) |-> Readable(disk[first + i - 1])]
      mine  == SelectSeq(FlattenSeq(files), LAMBDA r : r.seq >= start)
  IN  FoldLeft(Dispatched,
               IF Usable THEN Imported(snaps[LatestSnap].mem, future) ELSE NoMem,
               mine)

-----------------------------------------------------------------------------
(* The broker while it runs.                                               *)

Idle == [pc |-> "idle", seq |-> 0, seg |-> 0, mem |-> NoMem]

Event(type, m) == [type |-> type, m |-> m]

(* Append: the event is sent, or the channel is full and it is refused.    *)
Sent(type, m) == Len(chan) < ChanCap /\ chan' = Append(chan, Event(type, m))
Refused == "full" \in Kinds /\ Len(chan) >= ChanCap /\ UNCHANGED chan

(* onPublish up to AppendSync, which waits for room and for the flush.     *)
Publish(m) ==
  /\ up /\ pub[m] = "new"
  /\ Sent("PUBLISH", m)
  /\ pub' = [pub EXCEPT ![m] = "sent"]
  /\ UNCHANGED <<up, mem, logVars, liveVars, pastVars>>

(* ... PublishWithID and PUBLISH_OK.                                       *)
PublishWithID(m) ==
  /\ up /\ pub[m] = "logged"
  /\ mem' = Enqueue(mem, m)
  /\ pub' = [pub EXCEPT ![m] = "ok"]
  /\ UNCHANGED <<up, chan, logVars, liveVars, pastVars>>

(* A dispatch path leases m and the dispatch worker writes it to a         *)
(* consumer.                                                               *)
Deliver(m) ==
  /\ up /\ mem[m].ready > 0 /\ delivered < MaxDeliveries
  /\ mem' = Lease(mem, m)
  /\ delivered' = delivered + 1
  /\ held' = [held EXCEPT ![m] = @ + 1]
  /\ unlogged' = [unlogged EXCEPT ![m] = @ + 1]
  /\ UNCHANGED <<up, chan, logVars, pub, pastVars>>

(* ... and appends LEASE afterwards, perhaps after the answer.             *)
LogLease(m) ==
  /\ up /\ unlogged[m] > 0
  /\ Sent("LEASE", m) \/ Refused
  /\ unlogged' = [unlogged EXCEPT ![m] = @ - 1]
  /\ UNCHANGED <<up, mem, logVars, pub, held, delivered, pastVars>>

Answered(m) ==
  /\ up /\ held[m] > 0
  /\ mem[m].proc \/ "late" \in Kinds
  /\ held' = [held EXCEPT ![m] = @ - 1]

(* onACK; it gives up when the event is refused.                           *)
ACK(m) ==
  /\ Answered(m)
  /\ \/ /\ Sent("ACK", m)
        /\ mem' = Complete(mem, m)
        /\ consumed' = consumed \cup {m}
     \/ Refused /\ UNCHANGED <<mem, consumed>>
  /\ UNCHANGED <<up, logVars, pub, unlogged, delivered, dropped, crashes>>

(* onNACK, likewise; the dead-letter queue is another queue.               *)
NACK(m) ==
  /\ "nack" \in Kinds
  /\ Answered(m)
  /\ \/ /\ Sent("NACK", m)
        /\ mem' = Fail(mem, m)
        /\ dropped' = IF Exhausted(mem, m) THEN dropped \cup {m} ELSE dropped
     \/ Refused /\ UNCHANGED <<mem, dropped>>
  /\ UNCHANGED <<up, logVars, pub, unlogged, delivered, consumed, crashes>>

(* A lapsed lease is found by the sweeper, which logs it ...               *)
Expire(m) ==
  /\ "expire" \in Kinds
  /\ up /\ mem[m].proc
  /\ mem' = ReturnToPending(mem, m)
  /\ Sent("EXPIRE", m) \/ Refused
  /\ UNCHANGED <<up, logVars, pub, liveVars, pastVars>>

(* ... or by promoteDelayed, which does not; so do deliveries that fail.   *)
Lapse(m) ==
  /\ up /\ mem[m].proc
  /\ mem' = ReturnToPending(mem, m)
  /\ UNCHANGED <<up, chan, logVars, pub, liveVars, pastVars>>

Retry(m) ==
  /\ up /\ mem[m].delayed > 0
  /\ mem' = Promote(mem, m)
  /\ UNCHANGED <<up, chan, logVars, pub, liveVars, pastVars>>

-----------------------------------------------------------------------------
(* The writer goroutine and the snapshots.                                 *)

(* rotateSegment, and a snapshot unless one is being made.                 *)
RotateSegment ==
  /\ "rotate" \in Kinds /\ segmentID < MaxSegment
  /\ segmentID' = segmentID + 1
  /\ snapper' = IF snapper.pc = "idle" THEN [Idle EXCEPT !.pc = "begin"] ELSE snapper

(* flushBatch of one event, which unblocks its AppendSync; a segment that  *)
(* has grown too large is followed by a new one.                           *)
Flush ==
  LET r == [type |-> Head(chan).type, m |-> Head(chan).m, seq |-> seq + 1,
            life |-> crashes]
  IN  /\ up /\ chan # <<>>
      /\ chan' = Tail(chan)
      /\ seq' = seq + 1
      /\ disk' = [disk EXCEPT ![segmentID] = Append(@, r)]
      /\ pub' = IF r.type = "PUBLISH" THEN [pub EXCEPT ![r.m] = "logged"] ELSE pub
      /\ UNCHANGED <<segmentID, snapper>> \/ RotateSegment
      /\ UNCHANGED <<up, mem, snaps, provider, liveVars, pastVars>>

(* The snapshot interval has passed, or a snapshot is asked for.           *)
SaveSnapshot ==
  /\ "snapshot" \in Kinds
  /\ up /\ snapper.pc = "idle"
  /\ snapper' = [Idle EXCEPT !.pc = "begin"]
  /\ UNCHANGED <<up, mem, chan, disk, snaps, segmentID, seq, provider, pub,
                 liveVars, pastVars>>

(* saveSnapshot: the metadata, under q.mu ...                              *)
SnapMeta ==
  /\ up /\ snapper.pc = "begin"
  /\ snapper' = [Idle EXCEPT !.pc = "export", !.seq = seq, !.seg = segmentID]
  /\ UNCHANGED <<up, mem, chan, disk, snaps, segmentID, seq, provider, pub,
                 liveVars, pastVars>>

(* The state that goes into a snapshot: all the places, if there is a      *)
(* provider.                                                               *)
Exported == IF provider THEN mem ELSE NoMem

(* ... then the state, under the shards' locks;                            *)
(* os.Create empties the file ...                                          *)
SnapState ==
  /\ up /\ snapper.pc = "export"
  /\ snapper' = [snapper EXCEPT !.pc = "write", !.mem = Exported]
  /\ snaps' = [snaps EXCEPT ![snapper.seg].kind = "cut"]
  /\ UNCHANGED <<up, mem, chan, disk, segmentID, seq, provider, pub, liveVars,
                 pastVars>>

KeepFrom(seg) == IF seg > 1 THEN seg - 1 ELSE 0

(* ... which is then written and synced, and older segments are removed.   *)
SnapWritten ==
  LET keep == KeepFrom(snapper.seg)
  IN  /\ up /\ snapper.pc = "write"
      /\ snaps' = [s \in DOMAIN snaps |->
                     IF s < keep THEN NoSnap
                     ELSE IF s = snapper.seg
                     THEN [kind |-> "whole", seq |-> snapper.seq, mem |-> snapper.mem,
                           life |-> crashes]
                     ELSE snaps[s]]
      /\ disk' = [s \in DOMAIN disk |-> IF s < keep THEN <<>> ELSE disk[s]]
      /\ snapper' = Idle
      /\ UNCHANGED <<up, mem, chan, segmentID, seq, provider, pub, liveVars,
                     pastVars>>

-----------------------------------------------------------------------------
(* Crashes.  A clean stop is a crash with an empty channel.                *)

(* The process or the machine stops, perhaps in the middle of a write.     *)
Crash ==
  /\ up /\ crashes < MaxCrashes
  /\ up' = FALSE
  /\ crashes' = crashes + 1
  /\ mem' = NoMem /\ chan' = <<>> /\ snapper' = Idle
  /\ pub' = [m \in Msgs |-> IF pub[m] \in {"sent", "logged"} THEN "unknown" ELSE pub[m]]
  /\ unlogged' = [m \in Msgs |-> 0] /\ held' = [m \in Msgs |-> 0]
  /\ \/ UNCHANGED disk
     \/ /\ "tear" \in Kinds /\ chan # <<>>
        /\ disk' = [disk EXCEPT ![segmentID] =
                      Append(@, [type |-> "torn", m |-> Head(chan).m, seq |-> seq + 1,
                                 life |-> crashes])]
  /\ UNCHANGED <<snaps, segmentID, seq, provider, delivered, consumed, dropped>>

(* NewBroker and recoverQueues, before the first connection; newQueueWAL   *)
(* goes on with the last segment, counts records from 1 again, and finds   *)
(* no provider: RegisterQueueState came before it.                         *)
Restart ==
  /\ ~up
  /\ up' = TRUE
  /\ \E future \in SUBSET {m \in Msgs : Usable /\ Has(snaps[LatestSnap].mem, m)} :
       mem' = Recovered(future)
  /\ seq' = 0
  /\ provider' = FALSE
  /\ UNCHANGED <<chan, disk, snaps, segmentID, snapper, pub, liveVars, pastVars>>

Init ==
  /\ up = TRUE /\ mem = NoMem /\ chan = <<>>
  /\ disk = [s \in 0..MaxSegment |-> <<>>]
  /\ snaps = [s \in 0..MaxSegment |-> NoSnap]
  /\ segmentID = 0 /\ seq = 0 /\ provider = Provided /\ snapper = Idle
  /\ pub = [m \in Msgs |-> "new"]
  /\ unlogged = [m \in Msgs |-> 0] /\ held = [m \in Msgs |-> 0]
  /\ delivered = 0 /\ consumed = {} /\ dropped = {} /\ crashes = 0

Next ==
  \/ \E m \in Msgs : \/ Publish(m) \/ PublishWithID(m) \/ Deliver(m) \/ LogLease(m)
                     \/ ACK(m) \/ NACK(m) \/ Expire(m) \/ Lapse(m) \/ Retry(m)
  \/ Flush \/ SaveSnapshot \/ SnapMeta \/ SnapState \/ SnapWritten
  \/ Crash \/ Restart

Spec == Init /\ [][Next]_vars

-----------------------------------------------------------------------------

Records == UNION {{disk[s][i] : i \in DOMAIN disk[s]} : s \in DOMAIN disk}

(* The shapes of the variables.                                            *)
TypeOK ==
  /\ up \in BOOLEAN /\ provider \in BOOLEAN
  /\ \A m \in Msgs : /\ mem[m].ready \in Nat /\ mem[m].delayed \in Nat
                     /\ mem[m].proc \in BOOLEAN /\ mem[m].tries < MaxAttempts
  /\ Len(chan) <= ChanCap
  /\ pub \in [Msgs -> {"new", "sent", "logged", "ok", "unknown"}]
  /\ segmentID \in 0..MaxSegment /\ seq \in Nat

(* "if the broker sent ACK to the publisher, the message must survive a    *)
(* crash" (wal.go:214-215): whatever was confirmed, and neither consumed   *)
(* nor out of attempts, is in memory whenever the broker runs.             *)
AckedSurvives ==
  up => \A m \in Msgs : pub[m] = "ok" /\ m \notin consumed \cup dropped => Has(mem, m)

ReadableRecords == UNION {ToSet(Readable(disk[s])) : s \in DOMAIN disk}

(* What a replay would look at: the readable records that it takes for     *)
(* newer than the snapshot.                                                *)
Replayed ==
  UNION {{r \in ToSet(Readable(disk[s])) : Usable => r.seq > snaps[LatestSnap].seq} :
           s \in {s \in DOMAIN disk : Usable => s >= LatestSnap}}

(* Of m the replay sees neither a PUBLISH nor a copy in the snapshot: its  *)
(* record is behind a torn one, or is numbered as if it were older than a  *)
(* snapshot that does not have it.                                         *)
Unseen(m) ==
  /\ ~\E r \in Replayed : r.type = "PUBLISH" /\ r.m = m
  /\ Usable => ~Has(snaps[LatestSnap].mem, m)

Expired(m) == \E r \in Replayed : r.type = "EXPIRE" /\ r.m = m

(* A rejection is replayed for more than it was: one that came after the   *)
(* lease had lapsed finds the message leased again, and one that the       *)
(* snapshot counts already (its state is later than its number, which is   *)
(* read first) is counted again.  It takes the last attempt.               *)
Overcounted(m) ==
  /\ (IF Usable THEN snaps[LatestSnap].mem[m].tries ELSE 0) + 1 >= MaxAttempts
  /\ \E r \in Replayed : r.type = "NACK" /\ r.m = m

Live(m) == pub[m] = "ok" /\ m \notin consumed \cup dropped

(* Nothing but these three takes a confirmed message out of the queue while  *)
(* it is neither consumed nor out of attempts: whatever the consumers do,  *)
(* whatever events the log refuses, and wherever crashes, torn records,    *)
(* rotations and snapshots fall, a message that the replay sees, that did  *)
(* not expire and whose rejections are counted once is there again, and no *)
(* step of a running broker loses one.                                     *)
LossIsExplained ==
  \A m \in Msgs : Live(m)' /\ up' /\ ~Has(mem, m)' =>
    IF up THEN Live(m) /\ ~Has(mem, m) ELSE Unseen(m) \/ Expired(m) \/ Overcounted(m)

LossExplained == [][LossIsExplained]_vars

(* "a consumer that ACK'd message "abc" before the crash will not receive  *)
(* "abc" again after recovery" (queue.go:469-471), once the ACK is on disk *)
(* and not behind a torn record: a restart does not bring the message back.*)
(* Only without rejections (the replay of a NACK puts the message where    *)
(* that of an ACK does not look) and without a provider (a snapshot that is*)
(* later than its number makes second copies, and the ACK takes one).      *)
ConsumedAreGone ==
  ~up /\ up' => \A m \in Msgs :
    (\E r \in ReadableRecords : r.type = "ACK" /\ r.m = m) => ~Has(mem, m)'

ConsumedStaysConsumed == [][ConsumedAreGone]_vars

(* "Replay WAL events since the snapshot sequence number" (docs/modules/   *)
(* storage.md:140): no record written by a later process is among those    *)
(* that replay takes for older than the snapshot.                          *)
EventsSinceSnapshotReplayed ==
  Usable => \A r \in Records :
    r.life > snaps[LatestSnap].life => r.seq > snaps[LatestSnap].seq

(* The group never has a message twice: neither a replay that follows      *)
(* other crashes, torn records and snapshots, nor a lease that lapses while*)
(* its answer is on the way, makes a second copy.  Only without a provider.*)
OneCopy ==
  \A m \in Msgs : mem[m].ready + mem[m].delayed + (IF mem[m].proc THEN 1 ELSE 0) <= 1
=============================================================================
