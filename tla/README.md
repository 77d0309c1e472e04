# TLA+ models of libtracy

libtracy is a tracing agent embedded in a C application. This directory
holds TLA+ models of its three source files: `src/lib.rs`,
`src/tcp_handler.rs` and `src/udp_beacon.rs`. TLC checks them, and
`PROJECT.json` records the runs, mutants, source map, findings and hazards.

## The system

- **Producers.** Application threads call `tracy_register`, `tracy_submit`
  and `tracy_finit`. `tracy_submit` loads the atomic `client_connected`.
  It then loads the tracepoint's `enabled` flag. Only then does it send a
  `Payload` on a mio channel. `tracy_register` sends `NewTracepoint` and
  `tracy_finit` sends `Terminate`.
- **The tracer thread** (`tracer_thread_main`) polls four edge-triggered
  sources:
  - the channel (`CHAN`);
  - a timer wheel (`TIMER`), which holds the flush timeout and the announce
    timeout;
  - the TCP listener (`CON_NEW`);
  - the accepted connection (`CON_DATA`).

  `event_handler` runs the handler for each event of the batch in turn.
- **Buffering.** `channel_data_handler` appends payloads to a buffer. Once
  `buffer_occupancy` exceeds 4096 bytes it flushes at once. Otherwise it
  arms the flush timer. `send_trace_data` packs the buffer into `TracePush`
  frames behind a 12-byte header.
- **Connection.** The collector is a TCP peer. It sends list, enable and
  disable requests. It can send malformed headers, cut a request short, or
  close. Any write or read error ends in `close_and_clean_connection`, which:
  - clears `client_connected`;
  - drops the stream;
  - stops the flush timer;
  - clears every flag;
  - starts the announce timer.
- **UDP beacon.** While no collector is connected, the announce timer sends a
  datagram and increments `sequence_no`.

## Modules

| Module | Models | Source |
|---|---|---|
| `TracyCodec` | Constants, the header codec (`PushFrontHeader`, `CheckParseHeader`, `cmd_number_to_enum`, `check_cmd_validity`), `ElementLen`, the packing loop of `send_trace_data` (`Pack`, `Frames`), the bytes a flush writes (`EncodeElement`, `timestamp_to_u64`, `FlushBytes`), the byte-level loop of `set_tracepoints` (`SetBody`), the name-list encoding (`EncodeNames`) and name normalisation (`fix_tracepoint_str`). Pure operators; `Pack` and `SetBody` are RECURSIVE. A reference reader of TracePush frames written from spec.md 4.4 (`SpecDecodeFrames`) checks the flush bytes. | tcp_handler.rs 23-37, 128-138, 148-308, 334-447; lib.rs 47-52, 111-116, 460-474 |
| `MCTracyCodec` | Harness. A single variable `input` ranges over headers, buffers, enable/disable bodies (name lists with a header length), raw tracepoint names and buffers of byte-level elements, and never changes, so each invariant is evaluated on every input. | |
| `TracyEngine` | The whole concurrent system: producers, the channel, the tracer thread with its four handlers, timers, the connection, the collector as environment, and the announce configuration from `tracy_init` and `udp_beacon::init`. | lib.rs 119-617, tcp_handler.rs 60-331, udp_beacon.rs 18-45 |
| `TracyDelivery` | Abstract specification of the event pipeline. `pending` holds the events handed to the tracer thread, and `sent` holds the events written to collectors. `Transmit` removes a prefix of `pending` and appends a subsequence of it to `sent`. | |
| `TracyConnection` | Abstract specification of the connection lifecycle. At most one connection exists; it is accepted when none exists and closed when one exists; `client_connected` mirrors it. | |
| `MCTracyEngine` | Sets of collector frames for the cfgs (`AllFrames`, `GoodFrames`), and sets of `tracy_init` announce arguments (`FullArgs`, `MainArgs`). | |

### How TracyEngine corresponds to the code

- Each handler is one atomic step. The tracer thread runs it alone. The
  producers only read the atomics, and the handler stores them in code order.
- A handler is a function from a record of the thread's state (`Snapshot`)
  to its next value. `Commit` writes the record back to the variables.
- Helpers keep the code's names: `append`, `check_start_queue_timer`,
  `close_and_clean_connection`, `send_trace_data`, `channel_handler`,
  `timer_step`/`timer_handler`, `establish_connection`, `con_new_handler`
  (the `CON_NEW` arm), `receive`/`receive_loop`, `set_tracepoints`,
  `send_tracepoint_list`, `read_empty`, `announce_tracer`.
- Write results come from an oracle `out`, one outcome per write:
  - `"ok"` delivers the frame;
  - `"wouldblock"` loses it (`send_slices` treats it as success);
  - `"error"` closes the connection.
- An `unwrap()` of a missing connection sets `crash` to the call that
  panicked. The thread then stops (`engine = "panicked"`). The crash sites
  are `send_trace_data`, `send_tracepoint_list`, `receive` and
  `close_and_clean_connection`.
- `Poll` takes the ready sources as a batch in any order. Each source is
  reported once, as with edge triggering. A handler consumes the head of the
  batch. A `Terminate` or a panic discards the rest of the batch.
- `tracy_submit` is three steps: `SubmitLoadConnected`, `SubmitLoadEnabled`
  and `SubmitSend`. Other steps can interleave between its two loads and its
  send.
- `tracy_register` and `tracy_finit` run only while no submit is in
  progress. Otherwise there would be a data race on the producer HashMap, or
  a use after free.
- Data is abstracted. A name is a model value. A payload is a record
  holding:
  - its tracepoint;
  - its producer;
  - its submission number (which replaces the timestamp for ordering);
  - its `BufferElement::len()`.
- `offCmd` is a ghost variable: the tracepoints whose last processed
  enable/disable request was a disable. Each delivered event records
  whether its tracepoint was in `offCmd` when it was written. The code has
  no such variable; it exists to state spec.md 8.3.
- `read_empty` draws its read result from the same oracle `out`. An
  `"error"` calls `close_and_clean_connection` on a connection that is
  already closed, as the code does.
- Refinement: `Delivery == INSTANCE TracyDelivery WITH pending <- buffer \o
  ChanEvents, sent <- SentEvents`. The abstract pending events are the
  buffer followed by the payloads still in the channel. The abstract sent
  events are the events of `delivered`.
- `args` holds the announce arguments `tracy_init` was given: whether the
  interval is positive, whether an interface was given, and whether the
  address parsed. `tracy_init_state` (the handle `tracy_init` builds: an empty map, `client_connected` false, an empty channel) chooses them from `InitArgs`, and they never change. `Init` adds the start of `tracer_thread_main` to it.
  `Announce` is `tracy_init`'s decision over them. `udpSock` is the outcome
  of `udp_beacon::init` (bound, or an error that leaves `udp_sock` None).
  `announce_tracer` sends only with a socket, and then unwraps the address.
- `beaconConn` is a ghost variable: the values `conn` had when datagrams
  were sent.
- Collector frames are abstracted to kinds:
  - list;
  - enable/disable of one name (registered, unknown, or longer than 32);
  - a bad header;
  - a request cut short.

## Runs

| Run | Expect | Checks |
|---|---|---|
| `codec` | pass | `HeaderRoundTrip`: every command and u32 length the agent writes parses back. `PackPreservesOrder`: frames concatenate to the buffer, none empty. Every buffer of up to 4 elements of 4 sizes. `FlushStreamDecodes`: the bytes of a flush (elements encoded, headers in front, split into frames) read back with the spec's frame and record layout as exactly the buffered names, timestamps and data, in order. `SetBodyRoundTrip`: a body of names of at most 32 bytes, with the exact length, is parsed into exactly its names and consumes exactly its bytes. `RegisteredNameEnableable`: every name `fix_tracepoint_str` accepts, sent in the list reply and echoed in an enable body, is parsed back to exactly the registry key. |
| `engine` | pass | `TypeOK`. `DeliveryRefined`: the engine implements `TracyDelivery!Spec` under the mapping above. Events reach collectors in submission order, at most once and never invented, across split frames, failed writes and reconnects. `QueueTimerImpliesPending`: the flush timer runs only with data buffered. `BeaconOnlyWhileIdle`: an announcement is sent only while no collector is connected. `ConnectionRefined`: the engine implements `TracyConnection!Spec` under the identity mapping of `conn` and `client_connected`. |
| `engine_live` | pass | `TerminateLeadsToExit`: after `tracy_finit` the thread eventually stops. `RequestsEventuallyRead`: a request in the socket is eventually read, unless the connection goes away or the thread stops. `BufferedDataEventuallyFlushed`: data in the buffer while the flush timer runs and a collector is connected is eventually written, unless the connection or the thread ends. |
| `codec_header` | violation | `HeaderCheckMatchesSpec` (spec.md 4.4): invalid commands and lengths are accepted. |
| `codec_window` | violation | `FrameWithinWindow` (spec.md 4.3): a 4097-byte frame. |
| `engine_flags` | violation | `FlagsOffWhileDisconnected`: an enable request after a close in the same receive. |
| `engine_panic` | violation | `NoEnginePanic`: a short request then EOF closes twice and panics. |
| `engine_stale` | violation | `ReceiveOnlyWhileConnected`: a stale `CON_DATA` after a failed flush in the same batch. |
| `engine_flush` | violation | `FlushOnlyWhileConnected`: the FIXME at lib.rs:9 is wrong. In-flight payloads overflow after a disconnect. |
| `engine_announce` | violation | `AnnounceTimerArmedIffIdle` (spec.md 8.8): a failed accept stops announcing. |
| `engine_backlog` | violation | `BacklogEventuallyAccepted`: a second collector that connects during a session is never accepted after the session ends. |
| `engine_disable` | violation | `NoEventsAfterDisable` (spec.md 8.3): a payload buffered before a disable is written after it. |

Each violation is described in `findings` of `PROJECT.json`. Each property
of a passing run has a mutant there: a plausible bug in the mapped
definition that TLC must catch.

### Bounds

- **Engine runs.** One producer and one tracepoint are used. `DataLens =
  {2048}` gives elements of 2057 bytes, so two payloads overflow the
  4096-byte buffer. They then split into two frames, which exercises the
  overflow flush and the packing loop.
- **Main engine run.** `MaxSubmits = 2` and `MaxConnects = 2` allow a
  reconnect and a second collector waiting in the backlog. `MaxRx = 2`
  allows two requests in one receive, which every receive-loop finding
  needs. `MaxSends = 2` covers both writes of a two-frame flush.
  `MaxAnnounce = 1` allows one announcement.
- **Liveness run.** It uses well-formed frames, one connection and one
  request, to keep the behaviour graph small. The stranding hazard only
  needs messages in the channel.
- **Backlog run.** Two connects and no submits or requests. One announce
  lets the idle thread take a step. This is the smallest instance that has
  a session and a second collector waiting.
- **Disable run.** The main bounds. The violation needs one submit, one
  connect and one disable request.
- **Set-body inputs.** Lists of 0 to 2 names of 0, 1, 32 and 33 bytes
  (33 is one over the limit). The header length is the body length, one
  less, one more, 0 and 1. The body is followed by a list-request header,
  so a parse that runs past the body reads real header bytes.
  `SetBodyRoundTrip` judges the well-formed inputs. The others are kept
  so that a mutated loop that misreads them is exercised too.
- **Byte-level elements.** Buffers of up to 3 elements. Names are 1 or 32
  bytes, and data is 1 or 2048 bytes, so two large elements split into two
  frames. The clock is either before the epoch (timestamp 0) or at
  1.999999999 s, the largest value below TLC's 2^31 limit with a non-zero
  nanosecond part.
- **Announce configuration.** The main run starts from either full
  announce arguments or a missing address, with the UDP bind succeeding
  or failing. The other engine runs use the full arguments and a
  successful bind.
- **Raw names.** Lengths 0, 1, 32 and 33 (the limit and one past it).
  Each uses two byte values drawn from `A`, `a` and a non-ASCII byte.
- **Codec run.** The sizes 8, 2020, 2057 and 2088 are the smallest element,
  the pair that hits the fit boundary, the 2048-byte payload and the
  largest element.
- **Integer limit.** TLC integers are 32-bit, so header lengths are checked
  up to 2^31 - 1, not the full u32 range.

### Fairness

`Spec` assumes weak fairness of `EngineStep`, that is, poll plus the four
handlers. The tracer thread is a dedicated thread that blocks in `poll`
with no timeout and wakes whenever a source is ready.

`Spec` also assumes weak fairness of `QueueTimeout`. An armed
`queue_timeout` is a mio timer set to `send_interval` by
`check_start_queue_timer`, so it comes due once that time has passed.
`BufferedDataEventuallyFlushed` depends on this assumption.

The model assumes no fairness for producers, collectors or the announce
timer, whose expiries are bounded by `MaxAnnounce`. A collector may never
send.

`BufferedDataEventuallyFlushed` is stated under a running flush timer.
The unconditional form does not hold:
1. A write error closes the connection.
2. The close stops the timer with the rest of the buffer in place.
3. `establish_connection` does not restart the timer.

That rest waits for the next payload. The hazard list records this.

`BacklogEventuallyAccepted` needs no fairness beyond this. The violation is
a behaviour in which the engine keeps being enabled (an announce or nothing)
while the stranded collector is never accepted. A collector that connects
later would rescue it, but nothing obliges one to.

## Not modelled

- **C-string conversion** (`rawpt_to_str`, the null checks). In the engine,
  names are model values. `fix_tracepoint_str` is checked in the codec
  harness only.
- **`format_json`** and the datagram contents: these are formatting only.
- **Socket binding and the port scan:** these are I/O, and a bind failure
  panics at start-up.
- **Byte-level TCP segmentation:**
  - a header split across segments;
  - partial writes.

  In the engine an enable/disable request names one tracepoint. Bodies of
  several names, and bodies whose length is off, are checked in the codec
  harness.
- **The data race of `tracy_register` against `tracy_submit`.** The model
  runs register only while no submit is in progress. An unsynchronised
  HashMap insert during a read has no defined outcome to enumerate.
- **Timestamps in the engine:** ordering uses submission numbers instead.
  `timestamp_to_u64` is checked in the codec harness, but the u64 overflow
  after the year 2554 is beyond TLC's 32-bit integers.
- **The rest of `tracy_init`:** the null checks that return a null handle,
  and the C-string and address parsing (`rawpt_to_str`, `rawpt_to_addr`,
  `string_to_addr`). These are modelled by their results (`args.iface`,
  `args.addr`).
- **The `buffer_occupancy` counter is never decreased** (lib.rs:143).
  After the first overflow, every payload is flushed on its own. This
  takes one payload after a flush to show, which a unit test reaches. A
  property about it would need a third payload in the main run, which is
  beyond its state budget.
- **`update_interval_msecs`** (udp_beacon.rs:51) adds seconds to
  milliseconds. spec.md 4.6 says this is kept as-is for wire
  compatibility, and it only changes the datagram text.

## Plan for further work

1. The stranded remainder of the buffer after a failed flush, as a
   liveness run.
2. Registration collisions after normalisation (spec.md scenario E) in
   the engine, with names as byte strings.
3. A byte-stream model of the connection, for partial writes and segmented
   reads.
4. Larger engine instances: two producers and two tracepoints. The main
   run already takes about a minute with one of each.
