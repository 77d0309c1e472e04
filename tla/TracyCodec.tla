----------------------------- MODULE TracyCodec -----------------------------
(***************************************************************************)
(* The wire codec of src/tcp_handler.rs and the batching arithmetic of     *)
(* src/lib.rs, as pure operators:                                          *)
(*   - push_front_header and check_parse_header over the 12-byte header;   *)
(*   - BufferElement::len and the send_trace_data packing loop, which      *)
(*     splits the buffer into TracePush frames.                            *)
(* A buffer element is any record with a field  size  that holds           *)
(* BufferElement::len() (name length + 8 + data length).                   *)
(* The reference definitions (Spec...) state what spec.md 4.3/4.4 asks.   *)
(***************************************************************************)
EXTENDS Integers, Sequences, SequencesExt

\* Constants of src/lib.rs and src/tcp_handler.rs.
MAX_TRACEPOINT_NAME_LEN == 32
MAX_SUBMIT_LEN == 2048
QUEUE_TOTAL_SIZE == 4096
TIMESTAMP_LEN == 8
HEADER_LEN == 12
MAGIC_NUMB == <<\H52, \H75, \H53, \H74>>   \* "RuSt"

\* Command codes of enum Command; every unknown code maps to Invalid.
TracepointListRequest == 1
TracepointListReply == 2
TracepointEnableRequest == 3
TracepointDisableRequest == 4
TracePush == 5
Invalid == 42

-----------------------------------------------------------------------------
(* Integers to and from network byte order (to_be_bytes/from_be_bytes).    *)
U16ToBE(x) == << (x \div 256) % 256, x % 256 >>
U32ToBE(x) == << (x \div 2^24) % 256, (x \div 2^16) % 256,
                 (x \div 256) % 256, x % 256 >>
FromBE(bytes) == FoldLeft(LAMBDA acc, b : acc * 256 + b, 0, bytes)

(* Mutant: the length written little-endian (bytes pushed without .rev()). *)
PushFrontHeaderLE(cmd, bodyLen) ==
    MAGIC_NUMB \o U16ToBE(0) \o U16ToBE(cmd) \o Reverse(U32ToBE(bodyLen))

(* push_front_header: magic, zero flags, command and the body length as   *)
(* u32, all prepended to the body.  que.len() as u32 would truncate only a *)
(* body of 4 GiB, which a flush (at most 4096 bytes) or a list reply never *)
(* reaches; TLC's integers stop at 2^31 - 1, so lengths are kept below.    *)
PushFrontHeader(cmd, bodyLen) ==
    MAGIC_NUMB \o U16ToBE(0) \o U16ToBE(cmd) \o U32ToBE(bodyLen)

cmd_number_to_enum(c) ==
    IF c \in {TracepointListRequest, TracepointEnableRequest,
              TracepointDisableRequest, TracepointListReply, TracePush}
    THEN c ELSE Invalid

check_cmd_validity(cmd, len) ==
    CASE cmd = TracepointListRequest -> len = 0
      [] cmd \in {TracepointEnableRequest, TracepointDisableRequest} -> len # 0
      [] OTHER -> FALSE

(* check_parse_header: a magic mismatch or non-zero flags is an error; a   *)
(* failed check_cmd_validity is only logged, and the header is accepted.   *)
CheckParseHeader(h) ==
    LET magicOk == SubSeq(h, 1, 4) = MAGIC_NUMB
        flags   == FromBE(SubSeq(h, 5, 6))
        cmd     == cmd_number_to_enum(FromBE(SubSeq(h, 7, 8)))
        len     == FromBE(SubSeq(h, 9, 12))
    IN  IF magicOk /\ flags = 0
        THEN [ok |-> TRUE, cmd |-> cmd, len |-> len]
        ELSE [ok |-> FALSE, cmd |-> Invalid, len |-> 0]

(* spec.md 4.4: the header checks the agent must make on input.            *)
SpecHeaderValid(h) ==
    LET cmd == FromBE(SubSeq(h, 7, 8))
        len == FromBE(SubSeq(h, 9, 12))
    IN  /\ SubSeq(h, 1, 4) = MAGIC_NUMB
        /\ FromBE(SubSeq(h, 5, 6)) = 0
        /\ cmd \in {TracepointListRequest, TracepointEnableRequest,
                    TracepointDisableRequest}
        /\ cmd \in {TracepointEnableRequest, TracepointDisableRequest} => len # 0
        /\ cmd = TracepointListRequest => len = 0

-----------------------------------------------------------------------------
(* Batching.                                                               *)

\* BufferElement::len: what append adds to buffer_occupancy.
ElementLen(nameLen, dataLen) == nameLen + TIMESTAMP_LEN + dataLen

\* encode_append_trace_data: u16 name length, name, u64 timestamp, u16 data
\* length, data; i.e. four bytes more than BufferElement::len.
EncodedLen(e) == e.size + 4

BodyLen(frame) == FoldLeft(LAMBDA acc, e : acc + EncodedLen(e), 0, frame)

(* Mutant: the trailing partially filled frame is not sent (the           *)
(* last_was_complete test after the loop forgotten).                       *)
RECURSIVE PackNoTail(_, _, _)
PackNoTail(buf, que, frames) ==
    IF buf = <<>> THEN frames
    ELSE IF Head(buf).size + BodyLen(que) + HEADER_LEN < QUEUE_TOTAL_SIZE
         THEN PackNoTail(Tail(buf), Append(que, Head(buf)), frames)
         ELSE PackNoTail(buf, <<>>, Append(frames, que))

(* The loop of send_trace_data: the head element is encoded into que while *)
(* front.len() + que.len() + HEADER_LEN < QUEUE_TOTAL_SIZE, otherwise que  *)
(* is sent as one TracePush frame and emptied; after the loop a non-empty  *)
(* que (last_was_complete false) is sent as the final frame.  The result   *)
(* is the sequence of frames, each the sequence of elements it carries.    *)
RECURSIVE Pack(_, _, _)
Pack(buf, que, frames) ==
    IF buf = <<>> THEN IF que = <<>> THEN frames ELSE Append(frames, que)
    ELSE IF Head(buf).size + BodyLen(que) + HEADER_LEN < QUEUE_TOTAL_SIZE
         THEN Pack(Tail(buf), Append(que, Head(buf)), frames)
         ELSE Pack(buf, <<>>, Append(frames, que))

Frames(buf) == Pack(buf, <<>>, <<>>)

(* timestamp_to_u64: nanoseconds since the epoch, or 0 when the clock is  *)
(* before it.  A timestamp is [after, secs, nanos]; the inputs keep the   *)
(* product below 2^31, TLC's limit, so the u64 multiply never wraps here. *)
timestamp_to_u64(t) == IF t.after THEN t.secs * 1000000000 + t.nanos ELSE 0

\* u64::to_be_bytes for a value below 2^32.
U64ToBE(x) == <<0, 0, 0, 0>> \o U32ToBE(x)

(* Mutant: data_len written with to_le_bytes.                             *)
EncodeElementLE(e) ==
    U16ToBE(Len(e.name)) \o e.name \o U64ToBE(timestamp_to_u64(e.ts))
      \o Reverse(U16ToBE(Len(e.data))) \o e.data

(* encode_append_trace_data over an element with byte fields name and     *)
(* data and a timestamp ts: u16 name length, name, u64 timestamp, u16     *)
(* data length, data.                                                     *)
EncodeElement(e) ==
    U16ToBE(Len(e.name)) \o e.name \o U64ToBE(timestamp_to_u64(e.ts))
      \o U16ToBE(Len(e.data)) \o e.data

(* The bytes send_trace_data writes for one buffer: every frame of Pack,  *)
(* its elements encoded into que and push_front_header(TracePush) put in  *)
(* front, written in order.                                               *)
FlushBytes(buf) ==
    LET fs == Frames(buf)
        Body(f) == FoldLeft(LAMBDA acc, e : acc \o EncodeElement(e), <<>>, f)
    IN  FlattenSeq([i \in DOMAIN fs |-> PushFrontHeader(TracePush, Len(Body(fs[i])))
                                         \o Body(fs[i])])

-----------------------------------------------------------------------------
(* Enable/Disable bodies.  set_tracepoints reads from the stream that      *)
(* follows the header: while i < len, a u16 name length (i += 2), a close  *)
(* if it exceeds MAX_TRACEPOINT_NAME_LEN, then the name (i += name_len).   *)
(* Any short read_exact closes.  The result says whether the connection   *)
(* was closed, how many bytes were consumed and which names were looked   *)
(* up, in order.                                                           *)
SetResult(closed, used, names) == [closed |-> closed, used |-> used, names |-> names]

(* Mutant: the loop condition written  while i <= len .                   *)
RECURSIVE SetBodyInclusive(_, _, _, _)
SetBodyInclusive(bytes, i, len, names) ==
    IF i > len THEN SetResult(FALSE, i, names)
    ELSE IF Len(bytes) < i + 2 THEN SetResult(TRUE, i, names)
    ELSE LET n == FromBE(SubSeq(bytes, i + 1, i + 2))
         IN  IF n > MAX_TRACEPOINT_NAME_LEN THEN SetResult(TRUE, i + 2, names)
             ELSE IF Len(bytes) < i + 2 + n THEN SetResult(TRUE, i + 2, names)
             ELSE SetBodyInclusive(bytes, i + 2 + n, len,
                                   Append(names, SubSeq(bytes, i + 3, i + 2 + n)))

RECURSIVE SetBody(_, _, _, _)
SetBody(bytes, i, len, names) ==
    IF i >= len THEN SetResult(FALSE, i, names)
    ELSE IF Len(bytes) < i + 2 THEN SetResult(TRUE, i, names)
    ELSE LET n == FromBE(SubSeq(bytes, i + 1, i + 2))
         IN  IF n > MAX_TRACEPOINT_NAME_LEN THEN SetResult(TRUE, i + 2, names)
             ELSE IF Len(bytes) < i + 2 + n THEN SetResult(TRUE, i + 2, names)
             ELSE SetBody(bytes, i + 2 + n, len,
                          Append(names, SubSeq(bytes, i + 3, i + 2 + n)))

set_tracepoints_body(bytes, len) == SetBody(bytes, 0, len, <<>>)

\* The encoding of a name list: u16 length, then the name's bytes.
EncodeNames(names) == FoldLeft(LAMBDA acc, nm : acc \o U16ToBE(Len(nm)) \o nm, <<>>, names)

\* str::is_ascii, and to_lowercase on an ASCII string (bytes are codes).
IsAscii(str) == \A i \in DOMAIN str : str[i] < 128
ToLower(str) == [i \in DOMAIN str |-> IF str[i] \in 65..90 THEN str[i] + 32 ELSE str[i]]

(* Mutant: the truncation to MAX_TRACEPOINT_NAME_LEN left out.            *)
fix_tracepoint_str_notrunc(str) ==
    IF ~IsAscii(str) THEN [ok |-> FALSE, name |-> <<>>]
    ELSE [ok |-> TRUE, name |-> ToLower(str)]

(* fix_tracepoint_str: a non-ASCII name is rejected (Err); a longer one   *)
(* is cut to MAX_TRACEPOINT_NAME_LEN bytes; the result is lower-cased.    *)
fix_tracepoint_str(str) ==
    IF ~IsAscii(str) THEN [ok |-> FALSE, name |-> <<>>]
    ELSE [ok |-> TRUE,
          name |-> ToLower(IF Len(str) > MAX_TRACEPOINT_NAME_LEN
                           THEN SubSeq(str, 1, MAX_TRACEPOINT_NAME_LEN) ELSE str)]

\* spec.md 4.3: a send window holds at most QUEUE_TOTAL_SIZE bytes including
\* the frame header (8.B: every TracePush body is at most 4084 bytes).
SpecFrameFits(frame) == HEADER_LEN + BodyLen(frame) <= QUEUE_TOTAL_SIZE

(* spec.md 4.4 and 8.2: a reader of TracePush frames.  A frame is the     *)
(* magic, zero flags, command 5 and a non-zero body length; a body is a   *)
(* sequence of records  u16 name_len | name | u64 ts | u16 data_len |     *)
(* data .  Anything else decodes to Malformed.                            *)
Malformed == [bad |-> TRUE]

RECURSIVE SpecDecodeRecords(_)
SpecDecodeRecords(b) ==
    IF b = <<>> THEN <<>>
    ELSE IF Len(b) < 2 THEN <<Malformed>>
    ELSE LET nl == FromBE(SubSeq(b, 1, 2))
         IN  IF Len(b) < nl + 12 THEN <<Malformed>>
             ELSE LET dl == FromBE(SubSeq(b, nl + 11, nl + 12))
                  IN  IF Len(b) < nl + 12 + dl THEN <<Malformed>>
                      ELSE << [name |-> SubSeq(b, 3, nl + 2),
                               ts   |-> FromBE(SubSeq(b, nl + 3, nl + 10)),
                               data |-> SubSeq(b, nl + 13, nl + 12 + dl)] >>
                           \o SpecDecodeRecords(SubSeq(b, nl + 13 + dl, Len(b)))

RECURSIVE SpecDecodeFrames(_)
SpecDecodeFrames(b) ==
    IF b = <<>> THEN <<>>
    ELSE IF \/ Len(b) < HEADER_LEN
            \/ SubSeq(b, 1, 4) # MAGIC_NUMB
            \/ FromBE(SubSeq(b, 5, 8)) # TracePush
         THEN <<Malformed>>
    ELSE LET len == FromBE(SubSeq(b, 9, 12))
         IN  IF len = 0 \/ Len(b) < HEADER_LEN + len THEN <<Malformed>>
             ELSE SpecDecodeRecords(SubSeq(b, HEADER_LEN + 1, HEADER_LEN + len))
                  \o SpecDecodeFrames(SubSeq(b, HEADER_LEN + len + 1, Len(b)))

=============================================================================
