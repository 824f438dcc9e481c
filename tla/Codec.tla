------------------------------- MODULE Codec -------------------------------
(***************************************************************************)
(* The binary frames of the TCP data plane: several goroutines write       *)
(* frames through one Encoder, the other end reads them with one Decoder   *)
(* (internal/protocol/codec.go, frame.go).  A byte takes Base values, so   *)
(* that the two-, four- and eight-byte lengths and numbers of the code     *)
(* reach their limits with short fields.                                   *)
(***************************************************************************)
EXTENDS Integers, Sequences, SequencesExt

CONSTANTS
    Base,            \* number of values of a byte (256 in the code)
    MaxPayloadSize,  \* maxPayloadSize: the hard cap of a frame
    MaxIdent,        \* the longest identifier isValidIdent accepts
    IdentBytes,      \* the bytes isValidIdent accepts
    Writers,         \* the goroutines that share the Encoder
    Strings,         \* the strings put in a frame, as sequences of bytes
    Blobs,           \* the payloads put in a frame
    MessageID,       \* the ID the broker gives a message
    MaxFrames        \* bound: frames written in a behaviour

VARIABLES
    mu,      \* Encoder.mu: the writer that holds it, or {}
    writer,  \* writer |-> its step, the frame it writes and the byteWriter's buffer
    stream,  \* the bytes on their way
    sent,    \* the frames, in the order in which they took the mutex
    read,    \* the frames ReadFrame returned
    broken   \* whether ReadFrame returned an error, which ends the connection

vars == <<mu, writer, stream, sent, read, broken>>

Types == <<"connect", "connectOK", "connectErr", "publish", "publishOK", "subscribe",
           "message", "ack", "nack", "error", "backpressure", "heartbeat">>

(* The fields of each frame, in the order in which they are written and read. *)
Layout == [connect      |-> <<"str", "str", "str", "str", "str">>,
           connectOK    |-> <<"str">>,
           connectErr   |-> <<"str">>,
           publish      |-> <<"str", "str", "blob">>,
           publishOK    |-> <<"str", "u64">>,
           subscribe    |-> <<"str", "str">>,
           message      |-> <<"str", "str", "str", "blob", "i32">>,
           ack          |-> <<"str", "str", "str">>,
           nack         |-> <<"str", "str", "str", "str">>,
           error        |-> <<"u32", "str">>,
           backpressure |-> <<"str", "u32">>,
           heartbeat    |-> <<>>]

(* The fields ReadFrame checks with isValidIdent. *)
Identifiers(t) == CASE t = "connect" -> {1}
                    [] t \in {"publish", "subscribe"} -> {1, 2}
                    [] t \in {"ack", "nack"} -> {2, 3}
                    [] OTHER -> {}

IsValidIdent(s) == Len(s) \in 1..MaxIdent /\ Range(s) \subseteq IdentBytes

(* The values a field may hold, the largest of its width among them. *)
Values == [str |-> Strings, blob |-> Blobs,
           u32 |-> {0, Base ^ 4 - 1}, u64 |-> {0, Base ^ 8 - 1},
           i32 |-> {0, (Base ^ 4) \div 2 - 1}]

Frames(t) == LET extend(S, kind) == {Append(p, v) : p \in S, v \in Values[kind]}
             IN  {[type |-> t, fields |-> v] : v \in FoldLeft(extend, {<<>>}, Layout[t])}
-----------------------------------------------------------------------------
(* byteWriter: numbers are big-endian, strings and payloads carry their length. *)

Digits(n, width) == [i \in 1..width |-> (n \div Base ^ (width - i)) % Base]

PutField(kind, v) == CASE kind = "str"  -> Digits(Len(v), 2) \o v
                       [] kind = "blob" -> Digits(Len(v), 4) \o v
                       [] kind \in {"u32", "i32"} -> Digits(v, 4)
                       [] kind = "u64"  -> Digits(v, 8)

Encode(f) == FlattenSeq([i \in DOMAIN f.fields |-> PutField(Layout[f.type][i], f.fields[i])])

(* byteReader: a field that does not fit in what is left reads as empty or 0. *)

Number(s) == FoldLeft(LAMBDA n, d : n * Base + d, 0, s)

GetSized(buf, pos, width) ==
    LET n     == Number(SubSeq(buf, pos + 1, pos + width))
        start == pos + width
    IN  IF start > Len(buf) THEN [val |-> <<>>, pos |-> pos]
        ELSE IF start + n > Len(buf) THEN [val |-> <<>>, pos |-> start]
        ELSE [val |-> SubSeq(buf, start + 1, start + n), pos |-> start + n]

GetNumber(buf, pos, width) ==
    IF pos + width > Len(buf) THEN [val |-> 0, pos |-> pos]
    ELSE [val |-> Number(SubSeq(buf, pos + 1, pos + width)), pos |-> pos + width]

Signed(n) == IF 2 * n >= Base ^ 4 THEN n - Base ^ 4 ELSE n

GetField(kind, buf, pos) ==
    CASE kind = "str"  -> GetSized(buf, pos, 2)
      [] kind = "blob" -> GetSized(buf, pos, 4)
      [] kind = "u32"  -> GetNumber(buf, pos, 4)
      [] kind = "u64"  -> GetNumber(buf, pos, 8)
      [] kind = "i32"  -> LET r == GetNumber(buf, pos, 4) IN [r EXCEPT !.val = Signed(@)]

Decode(t, buf) ==
    LET step(acc, kind) == LET r == GetField(kind, buf, acc.pos)
                           IN  [fields |-> Append(acc.fields, r.val), pos |-> r.pos]
    IN  [type |-> t, fields |-> FoldLeft(step, [fields |-> <<>>, pos |-> 0], Layout[t]).fields]
-----------------------------------------------------------------------------
(* Encoder.write: the frame is built in a pooled buffer, then the header   *)
(* and the payload are written under the mutex.                            *)

Idle == [pc |-> "idle", type |-> "heartbeat", body |-> <<>>]

\* Mutant of Lock: the mutex is not taken.
LockNot(w) ==
    /\ writer[w] = Idle /\ Len(sent) < MaxFrames
    /\ mu' = {w}
    /\ \E t \in Range(Types) : \E f \in Frames(t) :
         /\ writer' = [writer EXCEPT ![w] = [pc |-> "header", type |-> t, body |-> Encode(f)]]
         /\ sent' = Append(sent, f)
    /\ UNCHANGED <<stream, read, broken>>

Lock(w) ==
    /\ writer[w] = Idle /\ Len(sent) < MaxFrames
    /\ mu = {}
    /\ mu' = {w}
    /\ \E t \in Range(Types) : \E f \in Frames(t) :
         /\ writer' = [writer EXCEPT ![w] = [pc |-> "header", type |-> t, body |-> Encode(f)]]
         /\ sent' = Append(sent, f)
    /\ UNCHANGED <<stream, read, broken>>

TypeCode(t) == CHOOSE i \in DOMAIN Types : Types[i] = t

(* An empty payload is not written: the mutex is released after the header. *)
WriteHeader(w) ==
    LET b == writer[w].body
    IN  /\ writer[w].pc = "header"
        /\ stream' = stream \o <<TypeCode(writer[w].type)>> \o Digits(Len(b), 4)
        /\ writer' = [writer EXCEPT ![w] = IF b = <<>> THEN Idle ELSE [@ EXCEPT !.pc = "payload"]]
        /\ mu' = IF b = <<>> THEN {} ELSE mu
        /\ UNCHANGED <<sent, read, broken>>

WritePayload(w) ==
    /\ writer[w].pc = "payload"
    /\ stream' = stream \o writer[w].body
    /\ writer' = [writer EXCEPT ![w] = Idle]
    /\ mu' = {}
    /\ UNCHANGED <<sent, read, broken>>
-----------------------------------------------------------------------------
(* Decoder.ReadFrame: the header, then the payload, decoded and validated. *)

HeaderSize == 5

Length == Number(SubSeq(stream, 2, HeaderSize))

Refused(t, f) == \E i \in Identifiers(t) : ~IsValidIdent(f.fields[i])

TooLarge ==
    /\ ~broken /\ Len(stream) >= HeaderSize /\ Length > MaxPayloadSize
    /\ broken' = TRUE
    /\ UNCHANGED <<mu, writer, stream, sent, read>>

ReadFrame ==
    /\ ~broken /\ Len(stream) >= HeaderSize
    /\ Length <= MaxPayloadSize /\ Len(stream) >= HeaderSize + Length
    /\ LET f == Decode(Types[stream[1]], SubSeq(stream, HeaderSize + 1, HeaderSize + Length))
       IN  IF stream[1] \notin DOMAIN Types \/ Refused(f.type, f)
           THEN broken' = TRUE /\ UNCHANGED <<stream, read>>
           ELSE /\ read' = Append(read, f)
                /\ stream' = SubSeq(stream, HeaderSize + Length + 1, Len(stream))
                /\ UNCHANGED broken
    /\ UNCHANGED <<mu, writer, sent>>

Init ==
    /\ mu = {} /\ writer = [w \in Writers |-> Idle]
    /\ stream = <<>> /\ sent = <<>> /\ read = <<>> /\ broken = FALSE

Next ==
    \/ \E w \in Writers : Lock(w) \/ WriteHeader(w) \/ WritePayload(w)
    \/ ReadFrame \/ TooLarge

Spec == Init /\ [][Next]_vars
-----------------------------------------------------------------------------
(* Type correctness: the byteWriter's buffer holds bytes, and one goroutine *)
(* at a time holds the Encoder's mutex (codec.go:148-178).                  *)
TypeOK ==
    /\ \A w \in Writers : Range(writer[w].body) \subseteq 0..Base - 1
    /\ mu = {w \in Writers : writer[w] # Idle}
    /\ Len(stream) \in Nat /\ broken \in BOOLEAN
    /\ Len(read) <= Len(sent)

(* Frames of different goroutines never interleave and every field comes   *)
(* out of ReadFrame as it went into the Encoder: what has been read is a   *)
(* prefix of what was sent (codec.go:22-23, 148-178, 197-322).             *)
FramesArriveWhole == IsPrefix(read, sent)

(* The connection ends only at a frame over the cap or with an identifier  *)
(* that isValidIdent refuses: ReadFrame never loses its place in the       *)
(* stream (codec.go:203-217, 229-280).                                     *)
EndsOnlyAtRefused ==
    broken => LET f == sent[Len(read) + 1]
              IN  Len(Encode(f)) > MaxPayloadSize \/ Refused(f.type, f)

(* What the broker accepts in a PUBLISH frame it can deliver in a MESSAGE  *)
(* frame: that frame is not over the cap of the decoder that reads it      *)
(* (codec.go:18, 120-128, 205-207).                                        *)
AcceptedIsDeliverable ==
    \A i \in DOMAIN read : read[i].type = "publish" =>
        Len(Encode([type |-> "message", fields |-> <<MessageID>> \o read[i].fields \o <<0>>]))
            <= MaxPayloadSize
=============================================================================
