-------------------------- MODULE WriteAheadProofs --------------------------
(***************************************************************************)
(* What AppendSync confirms is on disk, and a stop with a sound disk loses *)
(* nothing, for any number of publishers, connections and failures, any    *)
(* capacity of the channel and any size of the batches.                    *)
(***************************************************************************)
EXTENDS WriteAhead, TLAPS

-----------------------------------------------------------------------------
(* What the sequences of the write path hold.                              *)

LEMMA RangeEmpty == Range(<<>>) = {}
  BY SMT DEF Range

LEMMA RangeAppend ==
  ASSUME NEW S, NEW s \in Seq(S), NEW e \in S
  PROVE  Append(s, e) \in Seq(S) /\ Range(Append(s, e)) = Range(s) \cup {e}
<1>1. Append(s, e) \in Seq(S)
  BY SMT
<1>2. Range(Append(s, e)) \subseteq Range(s) \cup {e}
  BY SMT DEF Range
<1>3. e \in Range(Append(s, e))
  <2>1. Len(s) + 1 \in DOMAIN Append(s, e) /\ Append(s, e)[Len(s) + 1] = e
    BY SMT
  <2> QED  BY <2>1 DEF Range
<1>4. Range(s) \subseteq Range(Append(s, e))
  <2> SUFFICES ASSUME NEW i \in DOMAIN s  PROVE s[i] \in Range(Append(s, e))
    BY DEF Range
  <2>1. i \in DOMAIN Append(s, e) /\ Append(s, e)[i] = s[i]
    BY SMT
  <2> QED  BY <2>1, SMT DEF Range
<1> QED  BY <1>1, <1>2, <1>3, <1>4

LEMMA RangeConcat ==
  ASSUME NEW S, NEW s \in Seq(S), NEW t \in Seq(S)
  PROVE  s \o t \in Seq(S) /\ Range(s \o t) = Range(s) \cup Range(t)
<1>1. s \o t \in Seq(S)
  BY SMT
<1>2. Range(s \o t) \subseteq Range(s) \cup Range(t)
  <2> SUFFICES ASSUME NEW i \in DOMAIN (s \o t)
               PROVE  (s \o t)[i] \in Range(s) \cup Range(t)
    BY DEF Range
  <2>1. CASE i <= Len(s)
    <3>1. i \in DOMAIN s /\ (s \o t)[i] = s[i]
      BY <2>1, SMT
    <3> QED  BY <3>1, SMT DEF Range
  <2>2. CASE ~(i <= Len(s))
    <3>1. i - Len(s) \in DOMAIN t /\ (s \o t)[i] = t[i - Len(s)]
      BY <2>2, SMT
    <3> QED  BY <3>1, SMT DEF Range
  <2> QED  BY <2>1, <2>2
<1>3. Range(s) \subseteq Range(s \o t)
  <2> SUFFICES ASSUME NEW i \in DOMAIN s  PROVE s[i] \in Range(s \o t)
    BY DEF Range
  <2>1. i \in DOMAIN (s \o t) /\ (s \o t)[i] = s[i]
    BY SMT
  <2> QED  BY <2>1, SMT DEF Range
<1>4. Range(t) \subseteq Range(s \o t)
  <2> SUFFICES ASSUME NEW i \in DOMAIN t  PROVE t[i] \in Range(s \o t)
    BY DEF Range
  <2>1. Len(s) + i \in DOMAIN (s \o t) /\ (s \o t)[Len(s) + i] = t[i]
    BY SMT
  <2> QED  BY <2>1, SMT DEF Range
<1> QED  BY <1>1, <1>2, <1>3, <1>4

LEMMA RangePrefix ==
  ASSUME NEW S, NEW s \in Seq(S), NEW n \in 0 .. Len(s)
  PROVE  SubSeq(s, 1, n) \in Seq(S) /\ Range(SubSeq(s, 1, n)) \subseteq Range(s)
<1>1. SubSeq(s, 1, n) \in Seq(S)
  BY SMT
<1> SUFFICES ASSUME NEW i \in DOMAIN SubSeq(s, 1, n)
             PROVE  SubSeq(s, 1, n)[i] \in Range(s)
  BY <1>1 DEF Range
<1>2. i \in DOMAIN s /\ SubSeq(s, 1, n)[i] = s[i]
  BY SMT
<1> QED  BY <1>2, SMT DEF Range

(* No event is twice in the sequence.                                      *)
Distinct(s) == \A i, j \in 1 .. Len(s) : s[i] = s[j] => i = j

LEMMA RangeTail ==
  ASSUME NEW S, NEW s \in Seq(S), s # <<>>
  PROVE  /\ Tail(s) \in Seq(S) /\ Head(s) \in S
         /\ Range(s) = {Head(s)} \cup Range(Tail(s))
<1>1. Tail(s) \in Seq(S) /\ Head(s) \in S
  BY SMT
<1>2. Range(s) \subseteq {Head(s)} \cup Range(Tail(s))
  <2> SUFFICES ASSUME NEW i \in DOMAIN s, i # 1  PROVE s[i] \in Range(Tail(s))
    BY SMT DEF Range
  <2>1. i - 1 \in DOMAIN Tail(s) /\ Tail(s)[i - 1] = s[i]
    BY SMT
  <2> QED  BY <2>1, SMT DEF Range
<1>3. Range(Tail(s)) \subseteq Range(s)
  <2> SUFFICES ASSUME NEW i \in DOMAIN Tail(s)  PROVE Tail(s)[i] \in Range(s)
    BY DEF Range
  <2>1. i + 1 \in DOMAIN s /\ Tail(s)[i] = s[i + 1]
    BY SMT
  <2> QED  BY <2>1, SMT DEF Range
<1>4. Head(s) \in Range(s)
  <2>1. 1 \in DOMAIN s /\ Head(s) = s[1]
    BY SMT
  <2> QED  BY <2>1, SMT DEF Range
<1> QED  BY <1>1, <1>2, <1>3, <1>4

LEMMA DistinctTail ==
  ASSUME NEW S, NEW s \in Seq(S), s # <<>>, Distinct(s)
  PROVE  Distinct(Tail(s)) /\ Head(s) \notin Range(Tail(s))
<1>1. \A i \in 1 .. Len(Tail(s)) : i + 1 \in 1 .. Len(s) /\ Tail(s)[i] = s[i + 1]
  BY SMT
<1>2. Distinct(Tail(s))
  BY <1>1, SMT DEF Distinct
<1>3. ASSUME NEW i \in DOMAIN Tail(s), Tail(s)[i] = Head(s)  PROVE FALSE
  <2>1. i \in 1 .. Len(Tail(s)) /\ 1 \in 1 .. Len(s) /\ Head(s) = s[1]
    BY SMT
  <2> QED  BY <1>1, <1>3, <2>1, SMT DEF Distinct
<1> QED  BY <1>2, <1>3, Zenon DEF Range

LEMMA DistinctAppend ==
  ASSUME NEW S, NEW s \in Seq(S), NEW e \in S, Distinct(s), e \notin Range(s)
  PROVE  Distinct(Append(s, e))
<1>1. \A i \in 1 .. Len(s) : s[i] # e
  BY SMT DEF Range
<1>2. /\ Len(Append(s, e)) = Len(s) + 1 /\ Append(s, e)[Len(s) + 1] = e
      /\ \A i \in 1 .. Len(s) : Append(s, e)[i] = s[i]
  BY SMT
<1> QED  BY <1>1, <1>2, SMT DEF Distinct
-----------------------------------------------------------------------------
(* The inductive invariant.                                                *)

Shape ==
  /\ call \in [Events -> {"idle", "sending", "sent", "ok", "error"}]
  /\ buffer \in [Conns -> SUBSET Events]
  /\ ch \in Seq(Events) /\ batch \in Seq(Events)
  /\ file \in Seq(Events) /\ order \in Seq(Events)

(* A connection has one publish in progress, whose payload is what its     *)
(* buffer holds.                                                           *)
Carried == \A e \in SyncEvents :
             call[e] \in {"sending", "sent"} => buffer[Conn[e]] = {e}

(* An event is in the channel or in the batch, once, and only after its    *)
(* send and before its answer.                                             *)
Passing ==
  /\ Distinct(ch) /\ Range(ch) \cap Range(batch) = {}
  /\ \A e \in Range(ch) \cup Range(batch) :
       call[e] \notin {"idle", "sending"} /\ (e \in SyncEvents => call[e] # "ok")

(* During the fsync the batch is in the file; whoever still waits kept the *)
(* buffer while the records were written.                                  *)
Written ==
  flushing = "sync" =>
    \A e \in Range(batch) :
      /\ e \in Range(file)
      /\ e \in SyncEvents /\ call[e] = "sent" => body[e] = {e}

(* While the disk is sound every event sent is on its way or in the file;  *)
(* a writer that is gone has nothing in hand.                              *)
Complete ==
  /\ failures \in Nat
  /\ failures = 0 =>
       /\ ~stuck /\ ~errored
       /\ Range(order) = Range(file) \cup Range(batch) \cup Range(ch)
       /\ writer = "done" => batch = <<>> /\ flushing = "no"

IInv == Shape /\ Carried /\ Passing /\ Written /\ Complete /\ AckedIsOnDisk

-----------------------------------------------------------------------------
LEMMA InitSound == Init => IInv
<1> SUFFICES ASSUME Init  PROVE IInv
  OBVIOUS
<1>1. Shape /\ Carried
  BY SMT DEF Init, Shape, Carried, Events
<1>2. Range(ch) = {} /\ Range(batch) = {} /\ Range(file) = {} /\ Range(order) = {}
  BY RangeEmpty DEF Init
<1>3. Distinct(ch)
  BY SMT DEF Init, Distinct
<1>4. Passing /\ Written
  BY <1>2, <1>3 DEF Passing, Written
<1>5. Complete
  BY <1>2, SMT DEF Init, Complete
<1>6. AckedIsOnDisk
  BY SMT DEF Init, AckedIsOnDisk, Events
<1> QED  BY <1>1, <1>4, <1>5, <1>6 DEF IInv
LEMMA BeginSound ==
  ASSUME IInv, NEW e \in Events, Begin(e)
  PROVE  IInv'
<1> USE ConnAssumption
<1> USE DEF IInv
<1>1. /\ call[e] = "idle" /\ call'[e] \in {"error", "sending"}
      /\ \A f \in Events : f # e => call'[f] = call[f]
      /\ UNCHANGED <<ch, batch, writer, flushing, file, body, synced, stuck, errored,
                    failures, order>>
  BY SMT DEF Begin, Ready, Shape, writerVars, diskVars
<1>2. Shape'
  BY <1>1, SMT DEF Begin, Shape, Events
<1>3. Carried'
  <2> SUFFICES ASSUME NEW f \in SyncEvents, call'[f] \in {"sending", "sent"}
               PROVE  buffer'[Conn[f]] = {f}
    BY DEF Carried
  <2>1. CASE f = e
    BY <2>1, SMT DEF Begin, Shape
  <2>2. CASE f # e
    <3>1. call[f] \in {"sending", "sent"} /\ buffer[Conn[f]] = {f}
      BY <1>1, <2>2 DEF Carried, Events
    <3>2. buffer'[Conn[f]] = buffer[Conn[f]]
      BY <3>1, SMT DEF Begin, Ready, Shape
    <3> QED  BY <3>1, <3>2
  <2> QED  BY <2>1, <2>2
<1>4. e \notin Range(ch) \cup Range(batch)
  BY <1>1 DEF Passing
<1>5. Range(ch) \subseteq Events /\ Range(batch) \subseteq Events
  BY SMT DEF Shape, Range
<1>6. Passing' /\ Written'
  BY <1>1, <1>4, <1>5, SMT DEF Passing, Written
<1>7. Complete'
  BY <1>1, SMT DEF Complete
<1>8. AckedIsOnDisk'
  BY <1>1, SMT DEF AckedIsOnDisk, Events
<1> QED  BY <1>2, <1>3, <1>6, <1>7, <1>8

LEMMA SendSound ==
  ASSUME IInv, NEW e \in Events, Send(e)
  PROVE  IInv'
<1> USE DEF IInv
<1>1. /\ call[e] = "sending" /\ call'[e] = IF e \in SyncEvents THEN "sent" ELSE "ok"
      /\ \A f \in Events : f # e => call'[f] = call[f]
      /\ ch' = Append(ch, e) /\ order' = Append(order, e)
      /\ UNCHANGED <<buffer, batch, writer, flushing, file, body, synced, stuck, errored,
                    failures>>
  BY SMT DEF Send, Shape, writerVars, diskVars
<1>2. /\ ch' \in Seq(Events) /\ Range(ch') = Range(ch) \cup {e}
      /\ order' \in Seq(Events) /\ Range(order') = Range(order) \cup {e}
  BY <1>1, RangeAppend DEF Shape
<1>3. Shape'
  BY <1>1, <1>2, SMT DEF Send, Shape
<1>4. Carried'
  BY <1>1, SMT DEF Carried, Events
<1>5. e \notin Range(ch) \cup Range(batch)
  BY <1>1 DEF Passing
<1>6. Distinct(ch')
  BY <1>1, <1>5, DistinctAppend DEF Shape, Passing
<1>7. Range(ch) \subseteq Events /\ Range(batch) \subseteq Events
  BY SMT DEF Shape, Range
<1>8. Passing' /\ Written'
  <2>1. Passing'
    BY <1>1, <1>2, <1>5, <1>6, <1>7, SMT DEF Passing
  <2>2. Written'
    BY <1>1, <1>5, <1>7, SMT DEF Written
  <2> QED  BY <2>1, <2>2
<1>9. Complete'
  BY <1>1, <1>2, SMT DEF Complete
<1>10. AckedIsOnDisk'
  BY <1>1, SMT DEF AckedIsOnDisk, Events
<1> QED  BY <1>3, <1>4, <1>8, <1>9, <1>10

(* A call that gives up.                                                   *)
GivesUp(e) ==
  /\ call' = [call EXCEPT ![e] = "error"]
  /\ UNCHANGED <<buffer, ch, batch, writer, flushing, file, body, synced, stuck,
                errored, failures, order>>

LEMMA GivesUpSound ==
  ASSUME IInv, NEW e \in Events, GivesUp(e)
  PROVE  IInv'
<1> USE DEF IInv
<1>1. /\ call'[e] = "error"
      /\ \A f \in Events : f # e => call'[f] = call[f]
      /\ call' \in [Events -> {"idle", "sending", "sent", "ok", "error"}]
      /\ UNCHANGED <<buffer, ch, batch, writer, flushing, file, body, synced, stuck,
                    errored, failures, order>>
  BY SMT DEF GivesUp, Shape
<1>2. Range(ch) \subseteq Events /\ Range(batch) \subseteq Events
  BY SMT DEF Shape, Range
<1>3. Shape' /\ Carried'
  BY <1>1, SMT DEF Shape, Carried, Events
<1>4. Passing' /\ Written'
  BY <1>1, <1>2, SMT DEF Passing, Written
<1>5. Complete'
  BY <1>1, SMT DEF Complete
<1>6. AckedIsOnDisk'
  BY <1>1, SMT DEF AckedIsOnDisk, Events
<1> QED  BY <1>3, <1>4, <1>5, <1>6
LEMMA CloseSound == ASSUME IInv, Close  PROVE IInv'
<1>1. UNCHANGED <<call, buffer, ch, batch, writer, flushing, file, body, synced, stuck,
                  errored, failures, order>>
  BY DEF Close, writerVars, diskVars
<1> QED
  BY <1>1 DEF IInv, Shape, Carried, Passing, Written, Complete, AckedIsOnDisk

LEMMA ReceiveSound == ASSUME IInv, Receive  PROVE IInv'
<1> USE DEF IInv
<1>1. /\ flushing = "no" /\ flushing' \in {"write", "no"} /\ writer # "done" /\ ch # <<>>
      /\ ch' = Tail(ch) /\ batch' = Append(batch, Head(ch))
      /\ UNCHANGED <<call, buffer, writer, file, body, synced, stuck, errored, failures, order>>
  BY DEF Receive, Free, diskVars
<1>2. /\ ch' \in Seq(Events) /\ Head(ch) \in Events
      /\ Range(ch) = {Head(ch)} \cup Range(ch')
  BY <1>1, RangeTail DEF Shape
<1>3. Distinct(ch') /\ Head(ch) \notin Range(ch')
  BY <1>1, DistinctTail DEF Shape, Passing
<1>4. batch' \in Seq(Events) /\ Range(batch') = Range(batch) \cup {Head(ch)}
  BY <1>1, <1>2, RangeAppend DEF Shape
<1>5. Shape' /\ Carried'
  BY <1>1, <1>2, <1>4 DEF Shape, Carried
<1>6. Passing'
  BY <1>1, <1>2, <1>3, <1>4, SMT DEF Passing
<1>7. Written' /\ AckedIsOnDisk'
  BY <1>1 DEF Written, AckedIsOnDisk
<1>8. Complete'
  BY <1>1, <1>2, <1>4, SMT DEF Complete
<1> QED  BY <1>5, <1>6, <1>7, <1>8

(* The loop begins a flush, sees the stop or finds the channel empty.      *)
LEMMA TurnSound == ASSUME IInv, Tick \/ SeeStop \/ Drained  PROVE IInv'
<1> USE DEF IInv
<1>1. /\ flushing = "no" /\ flushing' \in {"write", "no"} /\ writer # "done"
      /\ writer' = "done" => flushing' = "no" /\ batch = <<>>
      /\ UNCHANGED <<call, buffer, ch, batch, file, body, synced, stuck, errored, failures, order>>
  BY DEF Tick, SeeStop, Drained, Free, diskVars
<1>2. Shape' /\ Carried' /\ Passing' /\ Written' /\ AckedIsOnDisk'
  BY <1>1 DEF Shape, Carried, Passing, Written, AckedIsOnDisk
<1>3. Complete'
  BY <1>1 DEF Complete
<1> QED  BY <1>2, <1>3

LEMMA ReplyValues ==
  ASSUME Shape, NEW S, NEW r \in {"ok", "error"}, call' = Reply(S, r)
  PROVE  /\ call' \in [Events -> {"idle", "sending", "sent", "ok", "error"}]
         /\ \A e \in Events : call'[e] = call[e] \/ (e \in S /\ call[e] = "sent" /\ call'[e] = r)
         /\ \A e \in SyncEvents : e \in S => call'[e] # "sent"
BY SMT DEF Shape, Reply, Events

LEMMA ErrDrainSound == ASSUME IInv, ErrDrain  PROVE IInv'
<1> USE DEF IInv
<1>1. /\ flushing = "no" /\ errored
      /\ UNCHANGED <<buffer, batch, flushing, file, body, synced, stuck, errored, failures, order>>
  BY DEF ErrDrain, Free, diskVars
<1>2. CASE ch = <<>>
  <2>1. UNCHANGED <<call, ch>>
    BY <1>2 DEF ErrDrain
  <2> QED
    BY Zenon, <1>1, <2>1
      DEF Shape, Carried, Passing, Written, Complete, AckedIsOnDisk
<1>3. CASE ch # <<>>
  <2>1. ch' = Tail(ch) /\ call' = Reply({Head(ch)}, "error")
    BY <1>3 DEF ErrDrain
  <2>2. /\ ch' \in Seq(Events) /\ Range(ch) = {Head(ch)} \cup Range(ch')
    BY <1>3, <2>1, RangeTail DEF Shape
  <2>3. Distinct(ch')
    BY <1>3, <2>1, DistinctTail DEF Shape, Passing
  <2>4. /\ call' \in [Events -> {"idle", "sending", "sent", "ok", "error"}]
        /\ \A e \in Events : call'[e] = call[e] \/ (call[e] = "sent" /\ call'[e] = "error")
    BY Zenon, <2>1, ReplyValues
  <2>5. Range(ch) \subseteq Events /\ Range(batch) \subseteq Events
    BY SMT DEF Shape, Range
  <2>6. Shape' /\ Written' /\ Complete'
    BY <1>1, <2>2, <2>4 DEF Shape, Written, Complete
  <2>7. Carried'
    BY <1>1, <2>4 DEF Carried, Events
  <2>8. Passing'
    BY <1>1, <2>2, <2>3, <2>4, <2>5, SMT DEF Passing
  <2>9. AckedIsOnDisk'
    BY <1>1, <2>4, SMT DEF AckedIsOnDisk, Events
  <2> QED  BY <2>6, <2>7, <2>8, <2>9
<1> QED  BY <1>2, <1>3
-----------------------------------------------------------------------------
(* flushBatch.                                                             *)

(* Records of the batch leave the records of confirmed events alone, and   *)
(* have the payload of every event whose caller still waits.               *)
LEMMA RecordsSound ==
  ASSUME IInv, NEW w \in Seq(Events), Range(w) \subseteq Range(batch), Records(w)
  PROVE  /\ file' \in Seq(Events) /\ Range(file') = Range(file) \cup Range(w)
         /\ \A e \in SyncEvents :
              call[e] = "ok" => e \in Range(file') /\ body'[e] = {e}
         /\ \A e \in SyncEvents \cap Range(w) :
              call[e] = "sent" => body'[e] = {e}
<1> USE DEF IInv
<1>1. file' \in Seq(Events) /\ Range(file') = Range(file) \cup Range(w)
  BY RangeConcat DEF Records, Shape
<1>2. ASSUME NEW e \in SyncEvents, call[e] = "ok"
      PROVE  e \in Range(file') /\ body'[e] = {e}
  <2>1. e \in Range(file) /\ body[e] = {e}
    BY <1>2 DEF AckedIsOnDisk
  <2>2. e \notin Range(w)
    BY <1>2 DEF Passing
  <2>3. e \in Range(file')
    BY <1>1, <2>1
  <2> QED  BY <2>1, <2>2, <2>3 DEF Records
<1>3. ASSUME NEW e \in SyncEvents \cap Range(w), call[e] = "sent"
      PROVE  body'[e] = {e}
  <2>1. e \in Range(file') /\ buffer[Conn[e]] = {e}
    BY <1>1, <1>3 DEF Carried
  <2> QED  BY <2>1 DEF Records
<1> QED  BY <1>1, <1>2, <1>3

(* What a flush must have achieved for its answer r to be sound.           *)
Earned(r) ==
  /\ file' \in Seq(Events)
  /\ \A e \in SyncEvents :
       call[e] = "ok" \/ (r = "ok" /\ e \in Range(batch) /\ call[e] = "sent") =>
         e \in Range(file') /\ body'[e] = {e} /\ (Durable => e \in synced')
  /\ failures' \in Nat
  /\ failures' = 0 => /\ failures = 0 /\ ~stuck' /\ ~errored'
                      /\ Range(file') = Range(file) \cup Range(batch)

LEMMA SignalSound ==
  ASSUME IInv, NEW r \in {"ok", "error"}, Signal(r), Earned(r)
  PROVE  IInv'
<1> USE DEF IInv
<1>1. /\ batch' = <<>> /\ flushing' = "no" /\ Range(batch') = {}
      /\ UNCHANGED <<buffer, ch, order>>
  BY RangeEmpty DEF Signal
<1>2. /\ call' \in [Events -> {"idle", "sending", "sent", "ok", "error"}]
      /\ \A e \in Events :
           call'[e] = call[e] \/ (e \in Range(batch) /\ call[e] = "sent" /\ call'[e] = r)
  BY ReplyValues DEF Signal
<1>3. Shape'
  <2>1. batch' \in Seq(Events)
    BY <1>1, SMT
  <2> QED  BY <1>1, <1>2, <2>1 DEF Shape, Earned
<1>4. Carried'
  BY <1>1, <1>2 DEF Carried, Events
<1>5. Range(ch) \subseteq Events
  BY SMT DEF Shape, Range
<1>6. Passing'
  BY <1>1, <1>2, <1>5, SMT DEF Passing
<1>7. Written'
  BY <1>1 DEF Written
<1>8. Complete'
  BY <1>1, SMT DEF Complete, Earned
<1>9. AckedIsOnDisk'
  BY <1>2, SMT DEF AckedIsOnDisk, Earned, Events
<1> QED  BY <1>3, <1>4, <1>6, <1>7, <1>8, <1>9

LEMMA FlushedSound == ASSUME IInv, Flushed  PROVE IInv'
<1> USE DEF IInv
<1>1. Records(batch) /\ UNCHANGED <<synced, stuck, errored, failures>>
  BY DEF Flushed
<1>2. /\ file' \in Seq(Events) /\ Range(file') = Range(file) \cup Range(batch)
      /\ \A e \in SyncEvents : call[e] = "ok" => e \in Range(file') /\ body'[e] = {e}
      /\ \A e \in SyncEvents \cap Range(batch) : call[e] = "sent" => body'[e] = {e}
  BY <1>1, RecordsSound DEF Shape
<1>3. CASE Durable
  <2>1. UNCHANGED <<call, buffer, ch, batch, writer, order>> /\ flushing' = "sync"
    BY <1>3 DEF Flushed
  <2>2. flushing = "write"
    BY DEF Flushed
  <2>3. Shape' /\ Carried' /\ Passing' /\ Written'
    BY <1>2, <2>1 DEF Shape, Carried, Passing, Written
  <2>4. Complete'
    BY SMTT(30), <1>1, <1>2, <2>1, <2>2 DEF Complete
  <2>5. AckedIsOnDisk'
    BY <1>1, <1>2, <2>1 DEF AckedIsOnDisk
  <2> QED  BY <2>3, <2>4, <2>5
<1>4. CASE ~Durable
  <2>1. Signal("ok")
    BY <1>4 DEF Flushed
  <2>2. Earned("ok")
    BY <1>1, <1>2, <1>4, SMT DEF Earned, Complete
  <2> QED  BY <2>1, <2>2, SignalSound
<1> QED  BY <1>3, <1>4

LEMMA FlushFailsSound == ASSUME IInv, NEW full \in BOOLEAN, FlushFails(full)  PROVE IInv'
<1> USE DEF IInv
<1>1. Signal("error") /\ UNCHANGED synced
  BY DEF FlushFails
<1>2. /\ file' \in Seq(Events)
      /\ \A e \in SyncEvents : call[e] = "ok" => e \in Range(file') /\ body'[e] = {e}
      /\ failures' \in Nat /\ failures' # 0
  <2>1. CASE stuck
    <3>1. UNCHANGED <<file, body, failures>>
      BY <2>1 DEF FlushFails
    <3> QED  BY <2>1, <3>1 DEF Shape, AckedIsOnDisk, Complete
  <2>2. CASE ~stuck
    <3>1. PICK n \in 0 .. Len(batch) - 1 : Records(SubSeq(batch, 1, n))
      BY <2>2 DEF FlushFails
    <3>2. n \in 0 .. Len(batch)
      BY SMT DEF Shape
    <3>3. SubSeq(batch, 1, n) \in Seq(Events) /\ Range(SubSeq(batch, 1, n)) \subseteq Range(batch)
      BY <3>2, RangePrefix DEF Shape
    <3>4. failures' = failures + 1
      BY <2>2 DEF FlushFails
    <3>5. failures' \in Nat /\ failures' # 0
      BY <3>4, SMT DEF Complete
    <3> QED  BY Zenon, <3>1, <3>3, <3>5, RecordsSound
  <2> QED  BY <2>1, <2>2
<1>3. Earned("error")
  BY <1>1, <1>2 DEF Earned, AckedIsOnDisk
<1> QED  BY <1>1, <1>3, SignalSound

LEMMA SyncedSound == ASSUME IInv, Synced  PROVE IInv'
<1> USE DEF IInv
<1>1. /\ Signal("ok") /\ flushing = "sync" /\ synced' = synced \cup Range(batch)
      /\ UNCHANGED <<file, body, stuck, errored, failures>>
  BY DEF Synced
<1>2. Range(batch) \subseteq Range(file)
  BY <1>1 DEF Written
<1>3. Earned("ok")
  BY <1>1, <1>2, SMT DEF Earned, Shape, Written, AckedIsOnDisk, Complete
<1> QED  BY <1>1, <1>3, SignalSound

LEMMA SyncFailsSound == ASSUME IInv, NEW full \in BOOLEAN, SyncFails(full)  PROVE IInv'
<1> USE DEF IInv
<1>1. Signal("error") /\ failures' = failures + 1 /\ UNCHANGED <<file, body, synced>>
  BY DEF SyncFails
<1>2. failures' \in Nat /\ failures' # 0
  BY <1>1, SMT DEF Complete
<1>3. Earned("error")
  BY <1>1, <1>2 DEF Earned, Shape, AckedIsOnDisk
<1> QED  BY <1>1, <1>3, SignalSound

-----------------------------------------------------------------------------
LEMMA NextSound == ASSUME IInv, [Next]_vars  PROVE IInv'
<1>1. ASSUME NEW e \in Events, Begin(e)  PROVE IInv'
  BY <1>1, BeginSound
<1>2. ASSUME NEW e \in Events, Send(e)  PROVE IInv'
  BY <1>2, SendSound
<1>3. ASSUME NEW e \in Events, Full(e)  PROVE IInv'
  BY Zenon, <1>3, GivesUpSound DEF Full, GivesUp, writerVars, diskVars
<1>4. ASSUME NEW e \in Events, Timeout(e)  PROVE IInv'
  BY ZenonT(60), <1>4, GivesUpSound DEF Timeout, GivesUp, writerVars, diskVars
<1>5. CASE WriterStep
  BY <1>5, ReceiveSound, TurnSound, ErrDrainSound, FlushedSound, SyncedSound,
     FlushFailsSound, SyncFailsSound DEF WriterStep
<1>6. CASE UNCHANGED vars
  BY <1>6 DEF vars, IInv, Shape, Carried, Passing, Written, Complete, AckedIsOnDisk
<1> QED  BY <1>1, <1>2, <1>3, <1>4, <1>5, <1>6, CloseSound DEF Next

LEMMA InvariantHolds == Spec => []IInv
<1>1. Init => IInv
  BY InitSound
<1>2. IInv /\ [Next]_vars => IInv'
  BY NextSound
<1> QED  BY <1>1, <1>2, PTL DEF Spec

(* AppendSync returns nil only for an event that is in the file with its   *)
(* own payload and, when the queue is durable, under an fsync: whatever    *)
(* the disk does, and although the payload stays in the connection's read  *)
(* buffer until the writer comes to it.                                    *)
THEOREM ConfirmedIsOnDisk == Spec => []AckedIsOnDisk
<1>1. IInv => AckedIsOnDisk
  BY DEF IInv
<1> QED  BY <1>1, InvariantHolds, PTL

(* A writer that Close stops while the disk is sound has put every event   *)
(* that was sent before its drain into the file.                           *)
THEOREM StopKeepsEverything == Spec => []StopLosesNothing
<1>1. IInv => StopLosesNothing
  BY SMTT(30), RangeEmpty DEF IInv, Complete, StopLosesNothing
<1> QED  BY <1>1, InvariantHolds, PTL
-----------------------------------------------------------------------------
(* The order of the log.                                                   *)

(* The pairs of events of which the first was sent before the second.      *)
Sent(o) == {p \in Events \X Events :
              \E k, l \in DOMAIN o : k < l /\ o[k] = p[1] /\ o[l] = p[2]}

Ordered(s, R) == \A i, j \in 1 .. Len(s) : i < j => <<s[i], s[j]>> \in R

(* Whatever is sent comes after what was sent before.                      *)
LEMMA SentAppend ==
  ASSUME NEW o \in Seq(Events), NEW e \in Events
  PROVE  Sent(o) \cup (Range(o) \X {e}) \subseteq Sent(Append(o, e))
<1>1. /\ Len(o) \in Nat /\ DOMAIN o = 1 .. Len(o) /\ \A k \in 1 .. Len(o) : o[k] \in Events
      /\ DOMAIN Append(o, e) = 1 .. Len(o) + 1 /\ Append(o, e)[Len(o) + 1] = e
      /\ \A k \in 1 .. Len(o) : Append(o, e)[k] = o[k]
  BY SMT
<1>2. ASSUME NEW a \in Events, NEW b \in Events, <<a, b>> \in Sent(o)
      PROVE  <<a, b>> \in Sent(Append(o, e))
  BY <1>1, <1>2, SMT DEF Sent
<1>3. ASSUME NEW a \in Range(o)  PROVE a \in Events /\ <<a, e>> \in Sent(Append(o, e))
  <2>1. PICK k \in 1 .. Len(o) : o[k] = a
    BY <1>1 DEF Range
  <2>2. k \in DOMAIN Append(o, e) /\ Len(o) + 1 \in DOMAIN Append(o, e) /\ k < Len(o) + 1
    BY <1>1, SMT
  <2> QED  BY <1>1, <2>1, <2>2, SMT DEF Sent
<1> QED  BY SMTT(30), <1>2, <1>3 DEF Sent

(* Nothing is sent before itself.                                          *)
LEMMA SentStrict ==
  ASSUME NEW o \in Seq(Events), Distinct(o), NEW a, <<a, a>> \in Sent(o)
  PROVE  FALSE
BY SMT DEF Sent, Distinct

LEMMA OrderedConcat ==
  ASSUME NEW S, NEW R, NEW s \in Seq(S), NEW t \in Seq(S),
         Ordered(s, R), Ordered(t, R), Range(s) \X Range(t) \subseteq R
  PROVE  Ordered(s \o t, R)
<1> SUFFICES ASSUME NEW i \in 1 .. Len(s \o t), NEW j \in 1 .. Len(s \o t), i < j
             PROVE  <<(s \o t)[i], (s \o t)[j]>> \in R
  BY DEF Ordered
<1>1. Len(s) \in Nat /\ Len(t) \in Nat /\ Len(s \o t) = Len(s) + Len(t)
  BY SMT
<1>2. CASE j <= Len(s)
  <2>1. i \in 1 .. Len(s) /\ j \in 1 .. Len(s) /\ (s \o t)[i] = s[i] /\ (s \o t)[j] = s[j]
    BY <1>1, <1>2, SMT
  <2> QED  BY <2>1 DEF Ordered
<1>3. CASE i > Len(s)
  <2>1. /\ i - Len(s) \in 1 .. Len(t) /\ j - Len(s) \in 1 .. Len(t) /\ i - Len(s) < j - Len(s)
        /\ (s \o t)[i] = t[i - Len(s)] /\ (s \o t)[j] = t[j - Len(s)]
    BY <1>1, <1>3, SMT
  <2> QED  BY SMTT(30), <2>1 DEF Ordered
<1>4. CASE i <= Len(s) /\ j > Len(s)
  <2>1. /\ i \in DOMAIN s /\ j - Len(s) \in DOMAIN t
        /\ (s \o t)[i] = s[i] /\ (s \o t)[j] = t[j - Len(s)]
    BY <1>1, <1>4, SMT
  <2>2. s[i] \in Range(s) /\ t[j - Len(s)] \in Range(t)
    BY <2>1 DEF Range
  <2> QED  BY <2>1, <2>2
<1>5. j <= Len(s) \/ i > Len(s) \/ (i <= Len(s) /\ j > Len(s))
  BY <1>1, SMT
<1> QED  BY <1>2, <1>3, <1>4, <1>5, Zenon

LEMMA OrderedAppend ==
  ASSUME NEW S, NEW R, NEW s \in Seq(S), NEW e \in S,
         Ordered(s, R), Range(s) \X {e} \subseteq R
  PROVE  Ordered(Append(s, e), R)
<1>1. /\ Len(s) \in Nat /\ Len(Append(s, e)) = Len(s) + 1 /\ Append(s, e)[Len(s) + 1] = e
      /\ \A k \in 1 .. Len(s) : Append(s, e)[k] = s[k] /\ k \in DOMAIN s
  BY SMT
<1>2. \A k \in 1 .. Len(s) : <<s[k], e>> \in R
  BY <1>1 DEF Range
<1> QED  BY <1>1, <1>2, SMT DEF Ordered

LEMMA OrderedTail ==
  ASSUME NEW S, NEW R, NEW s \in Seq(S), s # <<>>, Ordered(s, R)
  PROVE  Ordered(Tail(s), R) /\ {Head(s)} \X Range(Tail(s)) \subseteq R
<1>1. /\ Len(s) \in Nat /\ 1 \in 1 .. Len(s) /\ Head(s) = s[1]
      /\ Len(Tail(s)) = Len(s) - 1 /\ DOMAIN Tail(s) = 1 .. Len(s) - 1
      /\ \A k \in 1 .. Len(s) - 1 : Tail(s)[k] = s[k + 1] /\ k + 1 \in 1 .. Len(s)
  BY SMT
<1>2. Ordered(Tail(s), R)
  BY <1>1, SMT DEF Ordered
<1>3. \A k \in DOMAIN Tail(s) : <<Head(s), Tail(s)[k]>> \in R
  BY <1>1, SMT DEF Ordered
<1> QED  BY <1>2, <1>3 DEF Range

LEMMA OrderedPrefix ==
  ASSUME NEW S, NEW R, NEW s \in Seq(S), NEW n \in 0 .. Len(s), Ordered(s, R)
  PROVE  Ordered(SubSeq(s, 1, n), R)
<1>1. /\ Len(s) \in Nat /\ Len(SubSeq(s, 1, n)) = n
      /\ \A k \in 1 .. n : SubSeq(s, 1, n)[k] = s[k] /\ k \in 1 .. Len(s)
  BY SMT
<1> QED  BY <1>1, SMT DEF Ordered
(* The file, the batch and the channel each have the order of the sends,   *)
(* and follow each other; during the fsync the batch is already in the     *)
(* file.                                                                   *)
Sequenced ==
  /\ Distinct(order)
  /\ \A e \in Range(order) : call[e] \notin {"idle", "sending"}
  /\ Ordered(file, Sent(order)) /\ Ordered(batch, Sent(order)) /\ Ordered(ch, Sent(order))
  /\ Range(file) \cup Range(batch) \cup Range(ch) \subseteq Range(order)
  /\ (Range(file) \cup Range(batch)) \X Range(ch) \subseteq Sent(order)
  /\ flushing # "sync" => Range(file) \X Range(batch) \subseteq Sent(order)

LEMMA InitSequenced == Init => Sequenced
<1> SUFFICES ASSUME Init  PROVE Sequenced
  OBVIOUS
<1>1. Range(<<>>) = {} /\ Distinct(<<>>) /\ \A R : Ordered(<<>>, R)
  BY RangeEmpty, SMT DEF Distinct, Ordered
<1> QED  BY <1>1, SMT DEF Init, Sequenced

(* The steps that move no event.                                           *)
LEMMA StillSequenced ==
  ASSUME Sequenced, UNCHANGED <<ch, batch, file, order>>, flushing = "sync" => flushing' = "sync",
         \A e \in Range(order) : call'[e] \notin {"idle", "sending"}
  PROVE  Sequenced'
BY DEF Sequenced

LEMMA SendSequenced ==
  ASSUME IInv, Sequenced, NEW e \in Events, Send(e)
  PROVE  Sequenced'
<1>1. /\ call[e] = "sending" /\ call'[e] \in {"sent", "ok"}
      /\ \A f \in Events : f # e => call'[f] = call[f]
      /\ ch' = Append(ch, e) /\ order' = Append(order, e)
      /\ UNCHANGED <<batch, flushing, file>>
  BY SMT DEF Send, IInv, Shape, writerVars, diskVars
<1>2. ch \in Seq(Events) /\ order \in Seq(Events)
  BY DEF IInv, Shape
<1>3. Range(order) \subseteq Events
  BY SMTT(30), <1>2 DEF Range
<1>4. e \notin Range(order)
  BY <1>1 DEF Sequenced
<1>5. Distinct(order') /\ Range(order') = Range(order) \cup {e} /\ Range(ch') = Range(ch) \cup {e}
  BY SMTT(30), <1>1, <1>2, <1>4, DistinctAppend, RangeAppend DEF Sequenced
<1>6. Sent(order) \cup (Range(order) \X {e}) \subseteq Sent(order')
  BY <1>1, <1>2, SentAppend
<1>7. ASSUME NEW s, Ordered(s, Sent(order))  PROVE Ordered(s, Sent(order'))
  BY <1>6, <1>7 DEF Ordered
<1>8. Ordered(ch', Sent(order'))
  <2>1. Range(ch) \X {e} \subseteq Sent(order')
    BY <1>6 DEF Sequenced
  <2>2. Ordered(ch, Sent(order'))
    BY <1>7 DEF Sequenced
  <2> QED  BY <1>1, <1>2, <2>1, <2>2, OrderedAppend
<1>9. \A f \in Range(order') : call'[f] \notin {"idle", "sending"}
  BY <1>1, <1>3, <1>5 DEF Sequenced
<1>10. Ordered(file', Sent(order')) /\ Ordered(batch', Sent(order'))
  BY <1>1, <1>7 DEF Sequenced
<1>11. Range(file') \cup Range(batch') \cup Range(ch') \subseteq Range(order')
  BY <1>1, <1>5 DEF Sequenced
<1>12. (Range(file') \cup Range(batch')) \X Range(ch') \subseteq Sent(order')
  BY SMTT(30), <1>1, <1>5, <1>6 DEF Sequenced
<1>13. flushing' # "sync" => Range(file') \X Range(batch') \subseteq Sent(order')
  BY <1>1, <1>6 DEF Sequenced
<1> QED  BY <1>5, <1>8, <1>9, <1>10, <1>11, <1>12, <1>13, Zenon DEF Sequenced

LEMMA ReceiveSequenced == ASSUME IInv, Sequenced, Receive  PROVE Sequenced'
<1>1. /\ flushing = "no" /\ ch # <<>> /\ ch' = Tail(ch) /\ batch' = Append(batch, Head(ch))
      /\ UNCHANGED <<call, file, order>>
  BY DEF Receive, Free, diskVars
<1>2. ch \in Seq(Events) /\ batch \in Seq(Events)
  BY DEF IInv, Shape
<1>3. Head(ch) \in Events /\ Range(ch) = {Head(ch)} \cup Range(ch')
  BY <1>1, <1>2, RangeTail
<1>4. Ordered(ch', Sent(order)) /\ {Head(ch)} \X Range(ch') \subseteq Sent(order)
  BY Zenon, <1>1, <1>2, OrderedTail DEF Sequenced
<1>5. Range(batch') = Range(batch) \cup {Head(ch)}
  BY <1>1, <1>2, <1>3, RangeAppend
<1>6. Range(batch) \X {Head(ch)} \subseteq Sent(order) /\ Range(file) \X {Head(ch)} \subseteq Sent(order)
  BY <1>3 DEF Sequenced
<1>7. Ordered(batch', Sent(order))
  BY <1>1, <1>2, <1>3, <1>6, OrderedAppend DEF Sequenced
<1>8. Range(file) \cup Range(batch') \cup Range(ch') \subseteq Range(order)
  BY <1>3, <1>5 DEF Sequenced
<1>9. (Range(file) \cup Range(batch')) \X Range(ch') \subseteq Sent(order)
  BY <1>3, <1>4, <1>5, SMT DEF Sequenced
<1>10. Range(file) \X Range(batch') \subseteq Sent(order)
  BY <1>1, <1>5, <1>6, SMT DEF Sequenced
<1> QED  BY <1>1, <1>4, <1>7, <1>8, <1>9, <1>10, Zenon DEF Sequenced
LEMMA ErrDrainSequenced == ASSUME IInv, Sequenced, ErrDrain  PROVE Sequenced'
<1>1. UNCHANGED <<batch, flushing, file, order>>
  BY DEF ErrDrain, diskVars
<1>2. CASE ch = <<>>
  <2>1. UNCHANGED <<call, ch>>
    BY <1>2 DEF ErrDrain
  <2> QED  BY <1>1, <2>1 DEF Sequenced
<1>3. CASE ch # <<>>
  <2>1. ch' = Tail(ch) /\ call' = Reply({Head(ch)}, "error")
    BY <1>3 DEF ErrDrain
  <2>2. ch \in Seq(Events) /\ Range(order) \subseteq Events
    BY SMT DEF IInv, Shape, Range
  <2>3. Ordered(ch', Sent(order)) /\ Range(ch') \subseteq Range(ch)
    BY <1>3, <2>1, <2>2, OrderedTail, RangeTail DEF Sequenced
  <2>4. \A e \in Events : call'[e] = call[e] \/ call'[e] = "error"
    BY Zenon, <2>1, ReplyValues DEF IInv
  <2>5. \A e \in Range(order) : call'[e] \notin {"idle", "sending"}
    BY <2>2, <2>4, SMT DEF Sequenced
  <2>6. /\ Range(file) \cup Range(batch) \cup Range(ch') \subseteq Range(order)
        /\ (Range(file) \cup Range(batch)) \X Range(ch') \subseteq Sent(order)
    BY <2>3, SMT DEF Sequenced
  <2> QED  BY <1>1, <2>3, <2>5, <2>6, Zenon DEF Sequenced
<1> QED  BY <1>2, <1>3

(* The records of the batch, or of its first events, after the file's.     *)
LEMMA RecordsSequenced ==
  ASSUME IInv, Sequenced, NEW w \in Seq(Events), Range(w) \subseteq Range(batch),
         Ordered(w, Sent(order)), Records(w), flushing # "sync"
  PROVE  /\ Ordered(file', Sent(order)) /\ Range(file') = Range(file) \cup Range(w)
         /\ Range(file') \subseteq Range(order) /\ Range(file') \X Range(ch) \subseteq Sent(order)
<1>1. file \in Seq(Events) /\ file' = file \o w
  BY DEF IInv, Shape, Records
<1>2. Range(file') = Range(file) \cup Range(w)
  BY <1>1, RangeConcat
<1>3. Range(file) \X Range(w) \subseteq Sent(order)
  BY DEF Sequenced
<1>4. Ordered(file', Sent(order))
  BY <1>1, <1>3, OrderedConcat DEF Sequenced
<1>5. Range(file') \subseteq Range(order) /\ Range(file') \X Range(ch) \subseteq Sent(order)
  BY <1>2, SMT DEF Sequenced
<1> QED  BY <1>2, <1>4, <1>5

LEMMA SignalSequenced ==
  ASSUME IInv, Sequenced, NEW r \in {"ok", "error"}, Signal(r),
         Ordered(file', Sent(order)), Range(file') \subseteq Range(order),
         Range(file') \X Range(ch) \subseteq Sent(order)
  PROVE  Sequenced'
<1>1. batch' = <<>> /\ UNCHANGED <<ch, order>> /\ call' = Reply(Range(batch), r)
  BY DEF Signal
<1>2. Range(batch') = {} /\ Ordered(batch', Sent(order))
  BY <1>1, RangeEmpty, SMT DEF Ordered
<1>3. Range(order) \subseteq Events
  BY SMT DEF IInv, Shape, Range
<1>4. \A e \in Events : call'[e] = call[e] \/ call'[e] = r
  BY SMTT(30), <1>1, ReplyValues DEF IInv
<1>5. \A e \in Range(order) : call'[e] \notin {"idle", "sending"}
  BY <1>3, <1>4, SMT DEF Sequenced
<1>6. /\ Range(file') \cup Range(batch') \cup Range(ch) \subseteq Range(order)
      /\ (Range(file') \cup Range(batch')) \X Range(ch) \subseteq Sent(order)
      /\ Range(file') \X Range(batch') \subseteq Sent(order)
  BY <1>2, SMT DEF Sequenced
<1> QED  BY <1>1, <1>2, <1>5, <1>6, Zenon DEF Sequenced

LEMMA FlushSequenced ==
  ASSUME IInv, Sequenced, NEW full \in BOOLEAN,
         Flushed \/ FlushFails(full) \/ Synced \/ SyncFails(full)
  PROVE  Sequenced'
<1>1. batch \in Seq(Events) /\ Ordered(batch, Sent(order))
  BY DEF IInv, Shape, Sequenced
<1>2. CASE Flushed
  <2>1. Records(batch) /\ flushing = "write"
    BY <1>2 DEF Flushed
  <2>2. /\ Ordered(file', Sent(order)) /\ Range(file') = Range(file) \cup Range(batch)
        /\ Range(file') \subseteq Range(order) /\ Range(file') \X Range(ch) \subseteq Sent(order)
    BY <1>1, <2>1, RecordsSequenced
  <2>3. CASE Durable
    <3>1. UNCHANGED <<call, ch, batch, order>> /\ flushing' = "sync"
      BY <1>2, <2>3 DEF Flushed
    <3>2. /\ Range(file') \cup Range(batch) \cup Range(ch) \subseteq Range(order)
          /\ (Range(file') \cup Range(batch)) \X Range(ch) \subseteq Sent(order)
      BY <2>2, SMT DEF Sequenced
    <3> QED  BY <2>2, <3>1, <3>2, Zenon DEF Sequenced
  <2>4. CASE ~Durable
    <3>1. Signal("ok")
      BY <1>2, <2>4 DEF Flushed
    <3> QED  BY <2>2, <3>1, SignalSequenced
  <2> QED  BY <2>3, <2>4
<1>3. CASE FlushFails(full)
  <2>1. Signal("error") /\ flushing = "write"
    BY <1>3 DEF FlushFails
  <2>2. CASE stuck
    <3>1. UNCHANGED file
      BY <1>3, <2>2 DEF FlushFails
    <3>2. /\ Ordered(file, Sent(order)) /\ Range(file) \subseteq Range(order)
          /\ Range(file) \X Range(ch) \subseteq Sent(order)
      BY SMT DEF Sequenced
    <3> QED  BY <2>1, <3>1, <3>2, SignalSequenced
  <2>3. CASE ~stuck
    <3>1. PICK n \in 0 .. Len(batch) - 1 : Records(SubSeq(batch, 1, n))
      BY <1>3, <2>3 DEF FlushFails
    <3>2. n \in 0 .. Len(batch)
      BY <1>1, SMT
    <3>3. /\ SubSeq(batch, 1, n) \in Seq(Events) /\ Range(SubSeq(batch, 1, n)) \subseteq Range(batch)
          /\ Ordered(SubSeq(batch, 1, n), Sent(order))
      BY <1>1, <3>2, RangePrefix, OrderedPrefix
    <3>4. /\ Ordered(file', Sent(order)) /\ Range(file') \subseteq Range(order)
          /\ Range(file') \X Range(ch) \subseteq Sent(order)
      BY <2>1, <3>1, <3>3, RecordsSequenced, Zenon
    <3> QED  BY <2>1, <3>4, SignalSequenced
  <2> QED  BY <2>2, <2>3
<1>4. CASE Synced \/ SyncFails(full)
  <2>1. PICK r \in {"ok", "error"} : Signal(r)
    BY <1>4 DEF Synced, SyncFails
  <2>2. UNCHANGED file
    BY <1>4 DEF Synced, SyncFails
  <2>3. /\ Ordered(file, Sent(order)) /\ Range(file) \subseteq Range(order)
        /\ Range(file) \X Range(ch) \subseteq Sent(order)
    BY SMT DEF Sequenced
  <2> QED  BY <2>1, <2>2, <2>3, SignalSequenced
<1> QED  BY <1>2, <1>3, <1>4
LEMMA NextSequenced == ASSUME IInv, Sequenced, [Next]_vars  PROVE Sequenced'
<1>0. Range(order) \subseteq Events /\ call \in [Events -> {"idle", "sending", "sent", "ok", "error"}]
  BY SMT DEF IInv, Shape, Range
<1>1. ASSUME NEW e \in Events, Begin(e)  PROVE Sequenced'
  <2>1. /\ UNCHANGED <<ch, batch, file, order, flushing>> /\ call[e] = "idle"
        /\ \A f \in Events : f # e => call'[f] = call[f]
    BY SMTT(30), <1>0, <1>1 DEF Begin, Ready, writerVars, diskVars
  <2>2. e \notin Range(order)
    BY <2>1 DEF Sequenced
  <2>3. \A f \in Range(order) : call'[f] \notin {"idle", "sending"}
    BY <1>0, <2>1, <2>2, SMT DEF Sequenced
  <2> QED  BY SMTT(30), <2>1, <2>3, StillSequenced
<1>2. ASSUME NEW e \in Events, Full(e) \/ Timeout(e)  PROVE Sequenced'
  <2>1. GivesUp(e)
    BY <1>2, Zenon DEF Full, Timeout, GivesUp, writerVars, diskVars
  <2>2. UNCHANGED <<ch, batch, file, order, flushing>>
    BY <2>1 DEF GivesUp
  <2>3. \A f \in Range(order) : call'[f] \notin {"idle", "sending"}
    BY <1>0, <2>1, SMT DEF GivesUp, Sequenced
  <2> QED  BY <2>2, <2>3, StillSequenced
<1>3. CASE Close \/ Tick \/ SeeStop \/ Drained \/ UNCHANGED vars
  <2>1. /\ UNCHANGED <<call, ch, batch, file, order>>
        /\ flushing = "sync" => flushing' = "sync"
    BY <1>3, Zenon DEF Close, Tick, SeeStop, Drained, Free, vars, writerVars, diskVars
  <2>2. \A f \in Range(order) : call'[f] \notin {"idle", "sending"}
    BY <2>1 DEF Sequenced
  <2> QED  BY <2>1, <2>2, StillSequenced
<1>4. CASE WriterStep
  BY Zenon, <1>3, <1>4, ReceiveSequenced, ErrDrainSequenced, FlushSequenced
    DEF WriterStep
<1> QED  BY <1>1, <1>2, <1>3, <1>4, SendSequenced DEF Next

(* The file has the events in the order in which they were sent, and none  *)
(* of them twice, however the batches are cut and whatever the disk        *)
(* refuses: a replay meets a message's PUBLISH before its LEASE.           *)
THEOREM LogKeepsOrder == Spec => []LogFollowsOrder
<1>1. IInv /\ Sequenced => LogFollowsOrder
  <2> SUFFICES ASSUME IInv, Sequenced  PROVE LogFollowsOrder
    OBVIOUS
  <2>1. /\ order \in Seq(Events) /\ file \in Seq(Events)
        /\ Len(file) \in Nat /\ DOMAIN file = 1 .. Len(file)
    BY SMT DEF IInv, Shape
  <2>2. ASSUME NEW i \in DOMAIN file, NEW j \in DOMAIN file, i < j
        PROVE  <<file[i], file[j]>> \in Sent(order)
    BY <2>1, <2>2 DEF Sequenced, Ordered
  <2>3. ASSUME NEW i \in DOMAIN file, NEW j \in DOMAIN file, i < j
        PROVE  \E k, l \in DOMAIN order : k < l /\ order[k] = file[i] /\ order[l] = file[j]
    <3>1. <<file[i], file[j]>> \in Sent(order)
      BY <2>2, <2>3
    <3> QED  BY <3>1, SMT DEF Sent
  <2>4. ASSUME NEW i \in DOMAIN file, NEW j \in DOMAIN file, file[i] = file[j]
        PROVE  i = j
    <3>1. ~(i < j) /\ ~(j < i)
      BY <2>1, <2>2, <2>4, SentStrict, Zenon DEF Sequenced
    <3> QED  BY <2>1, <3>1, SMT
  <2> QED  BY <2>3, <2>4 DEF LogFollowsOrder, IsInjective
<1>2. Init => IInv /\ Sequenced
  BY InitSound, InitSequenced
<1>3. IInv /\ Sequenced /\ [Next]_vars => (IInv /\ Sequenced)'
  BY NextSound, NextSequenced
<1> QED  BY <1>1, <1>2, <1>3, PTL DEF Spec
=============================================================================
