---------------------------- MODULE MCTracyCodec ----------------------------
(***************************************************************************)
(* Checks the pure operators of TracyCodec over bounded inputs.  The one   *)
(* variable holds an input and never changes, so TLC evaluates every       *)
(* invariant once per input: a header (12 bytes built from the field       *)
(* values below) and a buffer of elements of the sizes in Sizes.           *)
(***************************************************************************)
EXTENDS TracyCodec, FiniteSets

CONSTANTS
    Sizes,     \* BufferElement::len() values the buffer elements take
    MaxElems,  \* longest buffer handed to send_trace_data
    NameLens,  \* byte lengths of the names in an enable/disable body
    MaxNames,  \* most names in one body
    RecNameLens, \* tracepoint name lengths of encoded buffer elements
    RecDataLens, \* data lengths of encoded buffer elements
    MaxRecords   \* longest buffer encoded byte by byte

ASSUME Sizes \subseteq 0..(MAX_TRACEPOINT_NAME_LEN + TIMESTAMP_LEN + MAX_SUBMIT_LEN)
ASSUME MaxElems \in Nat

VARIABLE input

\* Header field values: magic right or wrong, flags, every command code of
\* enum Command plus unknown codes, and lengths at the u16/u32 boundaries.
Magics == {MAGIC_NUMB, <<0, 0, 0, 0>>}
FlagValues == {0, 1, 2^16 - 1}
CmdValues == 0..6 \cup {Invalid, 2^16 - 1}
LenValues == {0, 1, 255, 256, 2^16, 2^24 + 1, 2147483647}

HeaderInputs ==
    { [kind |-> "header", magic |-> m, flags |-> f, cmd |-> c, len |-> l,
       bytes |-> m \o U16ToBE(f) \o U16ToBE(c) \o U32ToBE(l)] :
        m \in Magics, f \in FlagValues, c \in CmdValues, l \in LenValues }

\* Buffers: element i carries id i, so a reordering or a loss is visible.
BufferInputs ==
    { [kind |-> "buffer",
       buf |-> [i \in 1..n |-> [id |-> i, size |-> sz[i]]]] :
        n \in 0..MaxElems, sz \in [1..MaxElems -> Sizes] }

\* Enable/disable bodies of up to MaxNames names (name i made of byte i),
\* with the header's length exact, one short, one long, 1 and 0; a list
\* request follows on the stream.
NameLists ==
    UNION { {[i \in 1..n |-> [j \in 1..nl[i] |-> i]] : nl \in [1..n -> NameLens]} :
              n \in 0..MaxNames }

SetInput(names, l) ==
    [kind |-> "setbody", names |-> names, body |-> EncodeNames(names), len |-> l,
     stream |-> EncodeNames(names) \o PushFrontHeader(TracepointListRequest, 0)]

SetInputs ==
    UNION { { SetInput(nm, l) :
                l \in ({0, 1} \cup {Len(EncodeNames(nm)) + d : d \in {-1, 0, 1}}) \cap Nat } :
            nm \in NameLists }

\* Names handed to tracy_register: lengths from NameLens, a first byte and
\* the rest drawn from an upper-case letter, a lower-case letter and a
\* non-ASCII byte.
NameBytes == {65, 97, 200}
RawNameInputs ==
    { [kind |-> "name", raw |-> [j \in 1..n |-> IF j = 1 THEN c1 ELSE c2]] :
        n \in NameLens, c1 \in NameBytes, c2 \in NameBytes }

\* Buffers of encoded elements: a name of 'x' bytes, data whose every byte
\* is the element's position (a reordering or a loss is visible), and a
\* clock before the epoch or at 1.999999999 s.
Stamps == { [after |-> FALSE, secs |-> 0, nanos |-> 0],
            [after |-> TRUE, secs |-> 1, nanos |-> 999999999] }
Record(i, nl, dl, ts) ==
    [name |-> [j \in 1..nl |-> 120], data |-> [j \in 1..dl |-> i], ts |-> ts,
     size |-> ElementLen(nl, dl)]
RecordInputs ==
    UNION { { [kind |-> "records",
               buf |-> [i \in 1..n |-> Record(i, nl[i], dl[i], ts[i])]] :
                nl \in [1..n -> RecNameLens], dl \in [1..n -> RecDataLens],
                ts \in [1..n -> Stamps] } : n \in 0..MaxRecords }

Init == input \in HeaderInputs \cup BufferInputs \cup SetInputs \cup RawNameInputs
                  \cup RecordInputs
Next == UNCHANGED input

(* spec.md 8.10: a header written by push_front_header parses back, in     *)
(* check_parse_header, to the same command and length, for every command   *)
(* the agent sends and every u32 length.                                   *)
HeaderRoundTrip ==
    input.kind = "header" /\ input.cmd \in {TracepointListReply, TracePush} =>
        CheckParseHeader(PushFrontHeader(input.cmd, input.len))
            = [ok |-> TRUE, cmd |-> input.cmd, len |-> input.len]

(* send_trace_data hands every buffered element to exactly one frame, in   *)
(* buffer order, and never sends an empty TracePush frame (spec.md 4.3 and *)
(* 8.1: the concatenated bodies decode to the submissions in order).       *)
PackPreservesOrder ==
    input.kind = "buffer" =>
        LET fs == Frames(input.buf)
        IN  /\ FlattenSeq(fs) = input.buf
            /\ \A i \in DOMAIN fs : fs[i] # <<>>

(* spec.md 4.4: a well-formed enable/disable body (every name at most 32  *)
(* bytes, the header's length equal to the body's) is read completely:    *)
(* set_tracepoints looks up exactly its names, in order, consumes exactly *)
(* its bytes, so the next header is read from the right place, and does   *)
(* not close the connection.                                              *)
SetBodyRoundTrip ==
    (/\ input.kind = "setbody"
     /\ input.len = Len(input.body)
     /\ \A i \in DOMAIN input.names : Len(input.names[i]) <= MAX_TRACEPOINT_NAME_LEN)
      => set_tracepoints_body(input.stream, input.len)
             = SetResult(FALSE, input.len, input.names)

(* spec.md 8.1 and 8.2: the bytes a flush writes (send_trace_data with   *)
(* encode_append_trace_data and push_front_header) read back, frame by    *)
(* frame, as the buffered elements in order: name, timestamp in ns since  *)
(* the epoch (0 before it) and data, with no empty or malformed frame,    *)
(* also when the buffer is split over several frames.                     *)
FlushStreamDecodes ==
    input.kind = "records" =>
        SpecDecodeFrames(FlushBytes(input.buf))
          = [i \in DOMAIN input.buf |->
               [name |-> input.buf[i].name,
                ts   |-> IF input.buf[i].ts.after
                         THEN input.buf[i].ts.secs * 1000000000 + input.buf[i].ts.nanos
                         ELSE 0,
                data |-> input.buf[i].data]]

(* spec.md 3 and 4.4: every name tracy_register stores (after           *)
(* fix_tracepoint_str) can be switched by the collector: its entry in the *)
(* list reply (send_tracepoint_list), echoed as an enable body, is read   *)
(* by set_tracepoints as exactly the registry key, without closing the    *)
(* connection.                                                            *)
RegisteredNameEnableable ==
    input.kind = "name" /\ fix_tracepoint_str(input.raw).ok =>
        LET key  == fix_tracepoint_str(input.raw).name
            body == EncodeNames(<<key>>)
        IN  set_tracepoints_body(body \o PushFrontHeader(TracepointListRequest, 0), Len(body))
                = SetResult(FALSE, Len(body), <<key>>)

(* spec.md 4.4: check_parse_header rejects exactly the headers the spec    *)
(* rejects (bad magic, non-zero flags, a command other than 1, 3, 4, or a  *)
(* length that does not fit the command).                                  *)
HeaderCheckMatchesSpec ==
    input.kind = "header" =>
        (CheckParseHeader(input.bytes).ok <=> SpecHeaderValid(input.bytes))

(* spec.md 4.3 / 8.B: no TracePush frame send_trace_data builds exceeds    *)
(* QUEUE_TOTAL_SIZE bytes including its 12-byte header.                    *)
FrameWithinWindow ==
    input.kind = "buffer" =>
        \A i \in DOMAIN Frames(input.buf) : SpecFrameFits(Frames(input.buf)[i])
=============================================================================
