----------------------------- MODULE TracyEngine ----------------------------
(***************************************************************************)
(* The tracing agent of src/lib.rs and src/tcp_handler.rs: producer        *)
(* threads calling tracy_register / tracy_submit / tracy_finit, the mio    *)
(* channel to the tracer thread, and the tracer thread's event loop        *)
(* (tracer_thread_main / event_handler) with its four handlers: channel,   *)
(* timer (flush and announce timeouts), listener and connection.  The      *)
(* collector is the environment: it connects, sends frames and closes.     *)
(*                                                                         *)
(* Each handler is one atomic step: it runs on the tracer thread alone,    *)
(* and producers only read client_connected and the enabled flags, whose   *)
(* stores the handler makes in code order.  Handlers are written as        *)
(* functions from a record of the tracer thread's state to its next        *)
(* value; Commit writes that record back to the variables.                 *)
(***************************************************************************)
EXTENDS Integers, Sequences, SequencesExt, FiniteSets, TracyCodec

CONSTANTS
    Producers,    \* application threads calling tracy_submit
    Tracepoints,  \* normalized tracepoint names (fix_tracepoint_str output)
    LongName,     \* a name whose u16 length on the wire exceeds 32
    UnknownName,  \* a name that is not registered (or invalid UTF-8)
    NameLen,      \* byte length of every name in Tracepoints
    DataLens,     \* data_len values of submissions (1..MAX_SUBMIT_LEN)
    RxFrames,     \* frames a collector may send (see FrameKinds)
    SendOutcomes, \* results of one write_all: "ok", "wouldblock", "error"
    AcceptOk,     \* results of listener.accept(): TRUE ok, FALSE Err
    InitArgs,     \* the announce arguments tracy_init may be given
    UdpBindOk,    \* results of udp_beacon::init: TRUE bound, FALSE Err
    MaxSubmits,   \* bound: payloads sent per producer
    MaxConnects,  \* bound: collector connection attempts
    MaxRx,        \* bound: frames sent by collectors in total
    MaxAnnounce,  \* bound: announcements (sequence_no)
    MaxSends      \* bound: writes whose outcome is chosen in one handler

NoConn == 0
ConnIds == 1..MaxConnects
Tokens == {"CHAN", "TIMER", "CON_NEW", "CON_DATA"}
TimerStates == {"off", "armed", "expired"}   \* None, Some(pending), Some(due)

\* BufferElement: tracepoint, data length folded into size, and the
\* producer and its submission number (the timestamp's role in ordering).
Elems == [tp : Tracepoints, p : Producers, n : 1..MaxSubmits, size : Nat]

Msgs == [kind : {"payload"}, elem : Elems]
          \cup [kind : {"newtp"}, tp : Tracepoints]
          \cup [kind : {"terminate"}]

\* Frames as check_parse_header and set_tracepoints see them: a list
\* request, an enable/disable request naming one tracepoint, a header with
\* a bad magic or flags, and a request whose body has not fully arrived.
FrameKinds == [kind : {"list"}] \cup [kind : {"bad"}] \cup [kind : {"short"}]
                \cup [kind : {"set"}, on : BOOLEAN,
                      name : Tracepoints \cup {LongName, UnknownName}]

ASSUME RxFrames \subseteq FrameKinds
ASSUME DataLens \subseteq 1..MAX_SUBMIT_LEN
ASSUME NameLen \in 0..MAX_TRACEPOINT_NAME_LEN
ASSUME SendOutcomes \subseteq {"ok", "wouldblock", "error"} /\ "ok" \in SendOutcomes
ASSUME AcceptOk \subseteq BOOLEAN /\ TRUE \in AcceptOk
ASSUME InitArgs \subseteq [interval : Nat, iface : BOOLEAN, addr : BOOLEAN]
ASSUME UdpBindOk \subseteq BOOLEAN /\ UdpBindOk # {}

VARIABLES
    \* producer side (TracerNg and the submitting threads)
    pc,          \* per producer: "idle", "connOk", "enOk" inside tracy_submit
    cur,         \* per producer: the submission in progress
    nsub,        \* per producer: payloads sent so far
    registered,  \* keys of TracerNg.tracepoints
    finited,     \* tracy_finit has been called
    \* configuration, fixed when the thread starts
    args,        \* tracy_init's announce_interval, announce_iface given,
                 \* announce_mcast_addr parsed (rawpt_to_addr is Some)
    udpSock,     \* ctx.udp_sock is Some
    \* shared atomics
    connected,   \* client_connected
    enabled,     \* the AtomicBool of each tracepoint
    \* the channel
    chan,        \* messages not yet received by the tracer thread
    chanEvt,     \* readiness event of the channel not yet polled
    \* tracer thread (TracerContext)
    engMap,      \* keys of TracerContext.tracepoints
    buffer,      \* TracerContext.buffer
    occupancy,   \* TracerContext.buffer_occupancy
    queueTimer,  \* queue_timeout
    udpTimer,    \* udp_timeout
    conn,        \* connection: NoConn or the id of the accepted stream
    accepted,    \* number of streams accepted so far (the next id)
    seqNo,       \* sequence_no
    batch,       \* events returned by the last poll, not yet handled
    engine,      \* "running", "exited" (returned) or "panicked"
    crash,       \* the call whose unwrap panicked the thread, or "none"
    \* network and collector
    backlog,     \* connections waiting in the listener's accept queue
    listenEvt,   \* readiness event of the listener not yet polled
    inbox,       \* frames received on conn and not yet read
    peerClosed,  \* the collector closed conn
    dataEvt,     \* readiness event of conn not yet polled
    nconnect,    \* connection attempts so far
    nrx,         \* frames sent by collectors so far
    delivered,   \* TracePush records written to the collectors, in order
    \* history
    offCmd,      \* tracepoints whose last processed enable/disable request
                 \* was a disable (spec.md 8.3)
    beaconConn   \* the values conn had when an announcement was sent

prodVars == <<pc, cur, nsub, registered, finited>>
initVars == <<args, udpSock>>
netVars == <<backlog, listenEvt, inbox, peerClosed, dataEvt, nconnect, nrx>>
vars == <<pc, cur, nsub, registered, finited, connected, enabled, chan,
          chanEvt, engMap, buffer, occupancy, queueTimer, udpTimer, conn,
          accepted, seqNo, batch, engine, crash, backlog, listenEvt, inbox,
          peerClosed, dataEvt, nconnect, nrx, delivered, offCmd, args, udpSock,
          beaconConn>>

(* tracy_init: announcing is on iff announce_interval > 0, an interface   *)
(* was given and the multicast address parsed.                           *)
tracy_init_announce(a) == a.interval > 0 /\ a.iface /\ a.addr

Announce == tracy_init_announce(args)

(* tracer_thread_main, if announce: udp_beacon::init binds a socket to the *)
(* interface (or 0.0.0.0); a bind error leaves udp_sock None.  The        *)
(* possible values of "udp_sock is Some".                                  *)
udp_beacon_init == IF Announce THEN UdpBindOk ELSE {FALSE}

NoSub == [tp |-> CHOOSE t \in Tracepoints : TRUE, dlen |-> 0]
-----------------------------------------------------------------------------
(***************************************************************************)
(* The tracer thread's state as a record, and the helpers of impl          *)
(* TracerContext over it.  s.crash # "none" once an unwrap() has panicked; *)
(* every helper then leaves s alone, as the unwinding thread runs no more  *)
(* code.  s.out fixes the results of the next writes (s.k is the next).    *)
(***************************************************************************)
Snapshot(out) ==
    [conn |-> conn, accepted |-> accepted, connected |-> connected,
     enabled |-> enabled, engMap |-> engMap, buffer |-> buffer,
     occupancy |-> occupancy, qt |-> queueTimer, ut |-> udpTimer,
     seqNo |-> seqNo, delivered |-> delivered, chan |-> chan,
     backlog |-> backlog, rx |-> inbox, eof |-> peerClosed,
     off |-> offCmd, beacons |-> beaconConn, crash |-> "none", exit |-> FALSE, out |-> out, k |-> 1]

Crashed(s) == s.crash # "none"
Panic(s, site) == [s EXCEPT !.crash = site]

\* The result of the next write_all on the connection.
NextOutcome(s) == IF s.k <= MaxSends THEN s.out[s.k] ELSE "ok"
Written(s) == [s EXCEPT !.k = @ + 1]

(* Mutant: the element pushed at the front of the buffer (push_front).    *)
append_front(s, e) == [s EXCEPT !.occupancy = @ + e.size, !.buffer = <<e>> \o @]

\* TracerContext::append
append(s, e) == [s EXCEPT !.occupancy = @ + e.size, !.buffer = Append(@, e)]

check_start_queue_timer(s) == [s EXCEPT !.qt = IF @ = "off" THEN "armed" ELSE @]
check_stop_queue_timer(s) == [s EXCEPT !.qt = "off"]
check_start_udp_timer(s) == [s EXCEPT !.ut = IF @ = "off" THEN "armed" ELSE @]
check_stop_udp_timer(s) == [s EXCEPT !.ut = "off"]

(* close_and_clean_connection: clear client_connected, then unwrap the     *)
(* connection (a panic if there is none), drop it, stop the flush timer,   *)
(* clear every enabled flag and start the announce timer (whether or not   *)
(* announcing was configured).                                             *)
close_and_clean_connection(s) ==
    IF Crashed(s) THEN s
    ELSE IF s.conn = NoConn
    THEN Panic([s EXCEPT !.connected = FALSE], "close_and_clean_connection")
    ELSE check_start_udp_timer(
           [s EXCEPT !.connected = FALSE, !.conn = NoConn, !.qt = "off",
                     !.enabled = [t \in Tracepoints |-> FALSE]])

(* The writes of send_trace_data, one frame of Frames(buffer) at a time.   *)
(* The elements of a frame leave the buffer before it is written; a write  *)
(* that would block loses the frame; any other error closes the           *)
(* connection and returns, leaving the rest of the buffer in place.        *)
RECURSIVE SendFrames(_, _)
SendFrames(s, fs) ==
    IF fs = <<>> THEN s
    ELSE LET f  == Head(fs)
             o  == NextOutcome(s)
             s1 == [Written(s) EXCEPT !.buffer = SubSeq(@, Len(f) + 1, Len(@))]
         IN  CASE o = "ok" ->
                    SendFrames([s1 EXCEPT !.delivered =
                                  @ \o [i \in DOMAIN f |->
                                         [c |-> s.conn, e |-> f[i],
                                          off |-> f[i].tp \in s.off]]],
                               Tail(fs))
               [] o = "wouldblock" -> SendFrames(s1, Tail(fs))
               [] o = "error" -> close_and_clean_connection(s1)

(* send_trace_data: nothing to do on an empty buffer; otherwise the first  *)
(* send_slices unwraps the connection, which panics when there is none.   *)
send_trace_data(s) ==
    IF Crashed(s) \/ s.buffer = <<>> THEN s
    ELSE IF s.conn = NoConn THEN Panic(s, "send_trace_data")
    ELSE SendFrames(s, Frames(s.buffer))

(* channel_data_handler: append in any case; above QUEUE_TOTAL_SIZE stop   *)
(* the flush timer and flush, otherwise make sure the timer runs.          *)
channel_data_handler(s, e) ==
    LET s1 == append(s, e)
    IN  IF s1.occupancy > QUEUE_TOTAL_SIZE
        THEN send_trace_data(check_stop_queue_timer(s1))
        ELSE check_start_queue_timer(s1)

(* Mutant: one message per readiness event (if let instead of while let). *)
channel_handler_once(s) ==
    IF Crashed(s) \/ s.chan = <<>> THEN s
    ELSE LET m  == Head(s.chan)
             s0 == [s EXCEPT !.chan = Tail(@)]
         IN  CASE m.kind = "payload" -> channel_data_handler(s0, m.elem)
               [] m.kind = "newtp" -> [s0 EXCEPT !.engMap = @ \cup {m.tp}]
               [] m.kind = "terminate" ->
                    [(IF s0.conn # NoConn THEN send_trace_data(s0) ELSE s0)
                        EXCEPT !.exit = TRUE]

(* channel_handler: try_recv until the channel is empty; on Terminate,     *)
(* flush if connected and stop the thread.                                 *)
RECURSIVE channel_handler(_)
channel_handler(s) ==
    IF Crashed(s) \/ s.chan = <<>> THEN s
    ELSE LET m  == Head(s.chan)
             s0 == [s EXCEPT !.chan = Tail(@)]
         IN  CASE m.kind = "payload" -> channel_handler(channel_data_handler(s0, m.elem))
               [] m.kind = "newtp" -> channel_handler([s0 EXCEPT !.engMap = @ \cup {m.tp}])
               [] m.kind = "terminate" ->
                    [(IF s0.conn # NoConn THEN send_trace_data(s0) ELSE s0)
                        EXCEPT !.exit = TRUE]

(* udp_beacon::announce_tracer: with a bound socket the datagram goes to  *)
(* app_cfg.announce_addr.unwrap() (send errors ignored); sequence_no is   *)
(* incremented whether or not anything was sent.                         *)
announce_tracer(s) ==
    IF ~udpSock THEN [s EXCEPT !.seqNo = @ + 1]
    ELSE IF ~args.addr THEN Panic(s, "announce_tracer")
    ELSE [s EXCEPT !.seqNo = @ + 1, !.beacons = @ \cup {s.conn}]

(* Mutant: the flush timeout cleared without calling send_trace_data.    *)
timer_step_noflush(s, x) ==
    IF Crashed(s) THEN s
    ELSE IF x = "queue"
         THEN IF s.qt = "expired" THEN [s EXCEPT !.qt = "off"] ELSE s
         ELSE IF s.ut = "expired"
              THEN check_start_udp_timer(announce_tracer([s EXCEPT !.ut = "off"]))
              ELSE s

(* Mutant: the flush timeout handled without clearing queue_timeout.     *)
timer_step_keep(s, x) ==
    IF Crashed(s) THEN s
    ELSE IF x = "queue"
         THEN IF s.qt = "expired" THEN send_trace_data(s) ELSE s
         ELSE IF s.ut = "expired"
              THEN check_start_udp_timer(announce_tracer([s EXCEPT !.ut = "off"]))
              ELSE s

(* One expired timeout returned by timer.poll() in timer_handler.          *)
timer_step(s, x) ==
    IF Crashed(s) THEN s
    ELSE IF x = "queue"
         THEN IF s.qt = "expired" THEN send_trace_data([s EXCEPT !.qt = "off"]) ELSE s
         ELSE IF s.ut = "expired"
              THEN check_start_udp_timer(announce_tracer([s EXCEPT !.ut = "off"]))
              ELSE s

timer_handler(s, order) == FoldLeft(timer_step, s, order)

(* event_handler on CON_NEW: if no connection, establish_connection (an    *)
(* accept that fails is only logged) and then, in any case,                *)
(* check_stop_udp_timer.                                                   *)
(* Mutant: the new stream numbered one past the next id.                 *)
establish_connection_skip(s, ok) ==
    IF ok /\ s.backlog > 0
    THEN [s EXCEPT !.conn = s.accepted + 2, !.accepted = @ + 1,
                   !.backlog = @ - 1, !.connected = TRUE]
    ELSE s

establish_connection(s, ok) ==
    IF ok /\ s.backlog > 0
    THEN [s EXCEPT !.conn = s.accepted + 1, !.accepted = @ + 1,
                   !.backlog = @ - 1, !.connected = TRUE]
    ELSE s

(* Mutant: accept without checking that the connection slot is free.    *)
con_new_handler_any(s, ok) == check_stop_udp_timer(establish_connection(s, ok))

(* Mutant: the announce timer not stopped after a connection is accepted. *)
con_new_handler_nostop(s, ok) ==
    IF s.conn = NoConn THEN establish_connection(s, ok) ELSE s

con_new_handler(s, ok) ==
    IF s.conn = NoConn THEN check_stop_udp_timer(establish_connection(s, ok))
    ELSE s
(* send_tracepoint_list: the reply is written with send_slices (a panic    *)
(* without a connection); a failed write closes the connection.            *)
send_tracepoint_list(s) ==
    IF Crashed(s) THEN s
    ELSE IF s.conn = NoConn THEN Panic(s, "send_tracepoint_list")
    ELSE IF NextOutcome(s) = "error"
         THEN close_and_clean_connection(Written(s))
         ELSE Written(s)

(* set_tracepoints for a body naming one tracepoint: a name longer than   *)
(* MAX_TRACEPOINT_NAME_LEN closes the connection and returns; a name of   *)
(* the engine's map gets its flag stored, whether or not a connection is  *)
(* still open; other names are ignored.                                    *)
set_tracepoints(s, f) ==
    IF Crashed(s) THEN s
    ELSE IF f.name = LongName THEN close_and_clean_connection(s)
    ELSE IF f.name \in s.engMap
         THEN [s EXCEPT !.enabled[f.name] = f.on,
                        !.off = IF f.on THEN @ \ {f.name} ELSE @ \cup {f.name}]
    ELSE s

(* read_empty: discard what is readable up to EOF or WouldBlock; a read    *)
(* error other than WouldBlock closes the connection (again: it is only  *)
(* called after the close of a bad header).                              *)
read_empty(s) ==
    IF Crashed(s) THEN s
    ELSE IF NextOutcome(s) = "error" THEN close_and_clean_connection(Written(s))
    ELSE [Written(s) EXCEPT !.rx = <<>>]

(* Mutant: receive handles one request per readiness event and returns.  *)
receive_loop_once(s) ==
    IF Crashed(s) THEN s
    ELSE IF s.rx = <<>>
         THEN IF s.eof THEN close_and_clean_connection(s) ELSE s
    ELSE LET f  == Head(s.rx)
             s0 == [s EXCEPT !.rx = Tail(@)]
         IN  CASE f.kind = "bad"   -> read_empty(close_and_clean_connection(s0))
               [] f.kind = "list"  -> send_tracepoint_list(s0)
               [] f.kind = "set"   -> set_tracepoints(s0, f)
               [] f.kind = "short" -> close_and_clean_connection(s0)

(* The loop of receive, reading with a clone of the stream: an empty      *)
(* socket returns (WouldBlock) unless the peer closed it (read_exact      *)
(* fails: close); a bad header closes, drains and returns; a request is   *)
(* executed and the loop goes on, even when executing it closed the       *)
(* connection; a body that is cut short makes read_exact fail: close.     *)
RECURSIVE receive_loop(_)
receive_loop(s) ==
    IF Crashed(s) THEN s
    ELSE IF s.rx = <<>>
         THEN IF s.eof THEN close_and_clean_connection(s) ELSE s
    ELSE LET f  == Head(s.rx)
             s0 == [s EXCEPT !.rx = Tail(@)]
         IN  CASE f.kind = "bad"   -> read_empty(close_and_clean_connection(s0))
               [] f.kind = "list"  -> receive_loop(send_tracepoint_list(s0))
               [] f.kind = "set"   -> receive_loop(set_tracepoints(s0, f))
               [] f.kind = "short" -> receive_loop(close_and_clean_connection(s0))

\* receive: the reader is built from ctx.connection.as_mut().unwrap().
receive(s) == IF s.conn = NoConn THEN Panic(s, "receive") ELSE receive_loop(s)

-----------------------------------------------------------------------------
(* Writing a handler's result back.  A stream the handler dropped (or     *)
(* replaced by a new one) takes its unread frames and events with it.      *)
Commit(s) ==
    /\ conn' = s.conn
    /\ accepted' = s.accepted
    /\ connected' = s.connected
    /\ enabled' = s.enabled
    /\ engMap' = s.engMap
    /\ buffer' = s.buffer
    /\ occupancy' = s.occupancy
    /\ queueTimer' = s.qt
    /\ udpTimer' = s.ut
    /\ seqNo' = s.seqNo
    /\ delivered' = s.delivered
    /\ offCmd' = s.off
    /\ beaconConn' = s.beacons
    /\ chan' = s.chan
    /\ backlog' = s.backlog
    /\ inbox' = IF s.conn = conn THEN s.rx ELSE <<>>
    /\ peerClosed' = IF s.conn = conn THEN s.eof ELSE FALSE
    /\ dataEvt' = IF s.conn = conn THEN dataEvt ELSE FALSE
    /\ crash' = s.crash
    /\ engine' = CASE Crashed(s) -> "panicked" [] s.exit -> "exited" [] OTHER -> "running"
    /\ batch' = IF Crashed(s) \/ s.exit THEN <<>> ELSE Tail(batch)

Outcomes == [1..MaxSends -> SendOutcomes]

(* The four arms of event_handler, each for the event at the head of the  *)
(* batch the last poll returned.  The handler's result is bound once (r)   *)
(* and then committed.                                                     *)
HandleChan ==
    /\ engine = "running" /\ batch # <<>> /\ Head(batch) = "CHAN"
    /\ \E out \in Outcomes : \E r \in {channel_handler(Snapshot(out))} : Commit(r)
    /\ UNCHANGED <<initVars, prodVars, chanEvt, listenEvt, nconnect, nrx>>

HandleTimer ==
    /\ engine = "running" /\ batch # <<>> /\ Head(batch) = "TIMER"
    /\ LET due == {x \in {"queue", "udp"} :
                     (IF x = "queue" THEN queueTimer ELSE udpTimer) = "expired"}
       IN  \E order \in SetToSeqs(due), out \in Outcomes :
              \E r \in {timer_handler(Snapshot(out), order)} : Commit(r)
    /\ UNCHANGED <<initVars, prodVars, chanEvt, listenEvt, nconnect, nrx>>

HandleConNew ==
    /\ engine = "running" /\ batch # <<>> /\ Head(batch) = "CON_NEW"
    /\ \E ok \in AcceptOk :
          \E r \in {con_new_handler(Snapshot([i \in 1..MaxSends |-> "ok"]), ok)} :
             Commit(r)
    /\ UNCHANGED <<initVars, prodVars, chanEvt, listenEvt, nconnect, nrx>>

HandleConData ==
    /\ engine = "running" /\ batch # <<>> /\ Head(batch) = "CON_DATA"
    /\ \E out \in Outcomes : \E r \in {receive(Snapshot(out))} : Commit(r)
    /\ UNCHANGED <<initVars, prodVars, chanEvt, listenEvt, nconnect, nrx>>

(* ctx.poll.poll: block until some registered source is ready and return  *)
(* its events (edge-triggered: each is reported once), in any order.  The *)
(* connection is registered only while there is one.                       *)
Ready ==
    {tok \in Tokens :
        \/ tok = "CHAN" /\ chanEvt
        \/ tok = "TIMER" /\ "expired" \in {queueTimer, udpTimer}
        \/ tok = "CON_NEW" /\ listenEvt
        \/ tok = "CON_DATA" /\ dataEvt /\ conn # NoConn}

Poll ==
    /\ engine = "running" /\ batch = <<>> /\ Ready # {}
    /\ \E b \in SetToSeqs(Ready) : batch' = b
    /\ chanEvt' = FALSE /\ listenEvt' = FALSE /\ dataEvt' = FALSE
    /\ UNCHANGED <<initVars, beaconConn,
                   prodVars, connected, enabled, chan, engMap, buffer,
                   occupancy, queueTimer, udpTimer, conn, accepted, seqNo,
                   engine, crash, backlog, inbox, peerClosed, nconnect, nrx,
                   delivered, offCmd>>

\* The timer wheel: an armed timeout comes due.
QueueTimeout ==
    /\ engine = "running" /\ queueTimer = "armed"
    /\ queueTimer' = "expired"
    /\ UNCHANGED <<initVars, beaconConn,
                   prodVars, connected, enabled, chan, chanEvt, engMap, buffer,
                   occupancy, udpTimer, conn, accepted, seqNo, batch, engine,
                   crash, netVars, delivered, offCmd>>

UdpTimeout ==
    /\ engine = "running" /\ udpTimer = "armed" /\ seqNo < MaxAnnounce
    /\ udpTimer' = "expired"
    /\ UNCHANGED <<initVars, beaconConn,
                   prodVars, connected, enabled, chan, chanEvt, engMap, buffer,
                   occupancy, queueTimer, conn, accepted, seqNo, batch, engine,
                   crash, netVars, delivered, offCmd>>
-----------------------------------------------------------------------------
(* Producer side.  send_to_tracer: a send on the mio channel; the first   *)
(* message into an empty channel raises its readiness.  Once the tracer   *)
(* thread is gone the send fails and the message is lost (only logged).   *)
send_to_tracer(m) ==
    IF engine = "running"
    THEN chan' = Append(chan, m) /\ chanEvt' = (chanEvt \/ chan = <<>>)
    ELSE UNCHANGED <<chan, chanEvt>>

AllIdle == \A p \in Producers : pc[p] = "idle"

(* tracy_register of a new name: insert into TracerNg.tracepoints with a   *)
(* fresh false flag and send NewTracepoint.  A name already present makes  *)
(* it return -1 with no change.  TracerNg's map is an unsynchronized       *)
(* HashMap read by every tracy_submit, so registration happens while no    *)
(* submission is in progress (the embedding contract).                     *)
tracy_register(t) ==
    /\ ~finited /\ AllIdle /\ t \notin registered
    /\ registered' = registered \cup {t}
    /\ send_to_tracer([kind |-> "newtp", tp |-> t])
    /\ UNCHANGED <<initVars, beaconConn,
                   pc, cur, nsub, finited, connected, enabled, engMap, buffer,
                   occupancy, queueTimer, udpTimer, conn, accepted, seqNo,
                   batch, engine, crash, netVars, delivered, offCmd>>

(* tracy_submit, in three atomic steps: the load of client_connected, the *)
(* lookup and load of the tracepoint's flag (tracepoint_enabled), and the *)
(* send of the Payload.  A false load returns without effect.              *)
SubmitLoadConnected(p, t, d) ==
    /\ ~finited /\ pc[p] = "idle" /\ nsub[p] < MaxSubmits /\ connected
    /\ pc' = [pc EXCEPT ![p] = "connOk"]
    /\ cur' = [cur EXCEPT ![p] = [tp |-> t, dlen |-> d]]
    /\ UNCHANGED <<initVars, beaconConn,
                   nsub, registered, finited, connected, enabled, chan, chanEvt,
                   engMap, buffer, occupancy, queueTimer, udpTimer, conn,
                   accepted, seqNo, batch, engine, crash, netVars, delivered, offCmd>>

SubmitLoadEnabled(p) ==
    /\ pc[p] = "connOk"
    /\ IF cur[p].tp \in registered /\ enabled[cur[p].tp]
       THEN pc' = [pc EXCEPT ![p] = "enOk"] /\ UNCHANGED cur
       ELSE pc' = [pc EXCEPT ![p] = "idle"] /\ cur' = [cur EXCEPT ![p] = NoSub]
    /\ UNCHANGED <<initVars, beaconConn,
                   nsub, registered, finited, connected, enabled, chan, chanEvt,
                   engMap, buffer, occupancy, queueTimer, udpTimer, conn,
                   accepted, seqNo, batch, engine, crash, netVars, delivered, offCmd>>

SubmitSend(p) ==
    /\ pc[p] = "enOk"
    /\ send_to_tracer([kind |-> "payload",
                       elem |-> [tp |-> cur[p].tp, p |-> p, n |-> nsub[p] + 1,
                                 size |-> ElementLen(NameLen, cur[p].dlen)]])
    /\ nsub' = [nsub EXCEPT ![p] = @ + 1]
    /\ pc' = [pc EXCEPT ![p] = "idle"]
    /\ cur' = [cur EXCEPT ![p] = NoSub]
    /\ UNCHANGED <<initVars, beaconConn,
                   registered, finited, connected, enabled, engMap, buffer,
                   occupancy, queueTimer, udpTimer, conn, accepted, seqNo,
                   batch, engine, crash, netVars, delivered, offCmd>>

(* tracy_finit: send Terminate and free the handle, after which no thread *)
(* may use it.                                                             *)
tracy_finit ==
    /\ ~finited /\ AllIdle
    /\ finited' = TRUE
    /\ send_to_tracer([kind |-> "terminate"])
    /\ UNCHANGED <<initVars, beaconConn,
                   pc, cur, nsub, registered, connected, enabled, engMap,
                   buffer, occupancy, queueTimer, udpTimer, conn, accepted,
                   seqNo, batch, engine, crash, netVars, delivered, offCmd>>

-----------------------------------------------------------------------------
(* The collector, while the listener exists (the thread runs).            *)
CollectorConnect ==
    /\ engine = "running" /\ nconnect < MaxConnects
    /\ nconnect' = nconnect + 1
    /\ backlog' = backlog + 1
    /\ listenEvt' = TRUE
    /\ UNCHANGED <<initVars, beaconConn,
                   prodVars, connected, enabled, chan, chanEvt, engMap, buffer,
                   occupancy, queueTimer, udpTimer, conn, accepted, seqNo,
                   batch, engine, crash, inbox, peerClosed, dataEvt, nrx,
                   delivered, offCmd>>

\* A frame sent on the accepted connection; nothing follows a frame cut short.
CollectorSend(f) ==
    /\ engine = "running" /\ conn # NoConn /\ ~peerClosed /\ nrx < MaxRx
    /\ \A i \in DOMAIN inbox : inbox[i].kind # "short"
    /\ inbox' = Append(inbox, f)
    /\ dataEvt' = TRUE
    /\ nrx' = nrx + 1
    /\ UNCHANGED <<initVars, beaconConn,
                   prodVars, connected, enabled, chan, chanEvt, engMap, buffer,
                   occupancy, queueTimer, udpTimer, conn, accepted, seqNo,
                   batch, engine, crash, backlog, listenEvt, peerClosed,
                   nconnect, delivered, offCmd>>

CollectorClose ==
    /\ engine = "running" /\ conn # NoConn /\ ~peerClosed
    /\ peerClosed' = TRUE
    /\ dataEvt' = TRUE
    /\ UNCHANGED <<initVars, beaconConn,
                   prodVars, connected, enabled, chan, chanEvt, engMap, buffer,
                   occupancy, queueTimer, udpTimer, conn, accepted, seqNo,
                   batch, engine, crash, backlog, listenEvt, inbox, nconnect,
                   nrx, delivered, offCmd>>

-----------------------------------------------------------------------------
(* tracy_init (past its null check): the TracerNg handle with an empty    *)
(* tracepoint map, client_connected false and a fresh channel, and the    *)
(* arguments the announce decision is taken from.                          *)
tracy_init_state ==
    /\ registered = {}
    /\ finited = FALSE
    /\ connected = FALSE
    /\ chan = <<>>
    /\ chanEvt = FALSE
    /\ args \in InitArgs

(* The start of tracer_thread_main: an empty context, the UDP socket      *)
(* bound and the announce timer started if announcing; no producer is     *)
(* inside tracy_submit yet.                                               *)
Init ==
    /\ tracy_init_state
    /\ pc = [p \in Producers |-> "idle"]
    /\ cur = [p \in Producers |-> NoSub]
    /\ nsub = [p \in Producers |-> 0]
    /\ enabled = [t \in Tracepoints |-> FALSE]
    /\ engMap = {}
    /\ buffer = <<>>
    /\ occupancy = 0
    /\ queueTimer = "off"
    /\ udpSock \in udp_beacon_init
    /\ udpTimer = IF Announce THEN "armed" ELSE "off"
    /\ conn = NoConn
    /\ accepted = 0
    /\ seqNo = 0
    /\ batch = <<>>
    /\ engine = "running"
    /\ crash = "none"
    /\ backlog = 0
    /\ listenEvt = FALSE
    /\ inbox = <<>>
    /\ peerClosed = FALSE
    /\ dataEvt = FALSE
    /\ nconnect = 0
    /\ nrx = 0
    /\ delivered = <<>>
    /\ offCmd = {}
    /\ beaconConn = {}

EngineStep == Poll \/ HandleChan \/ HandleTimer \/ HandleConNew \/ HandleConData

Next ==
    \/ EngineStep
    \/ QueueTimeout \/ UdpTimeout
    \/ \E t \in Tracepoints : tracy_register(t)
    \/ \E p \in Producers, t \in Tracepoints, d \in DataLens :
          SubmitLoadConnected(p, t, d)
    \/ \E p \in Producers : SubmitLoadEnabled(p) \/ SubmitSend(p)
    \/ tracy_finit
    \/ CollectorConnect \/ CollectorClose
    \/ \E f \in RxFrames : CollectorSend(f)

(* The tracer thread is a dedicated thread that poll() wakes whenever a   *)
(* source is ready; it is never starved of the CPU for ever.  An armed    *)
(* queue_timeout is a mio timer set to send_interval (check_start_queue_  *)
(* timer): it comes due once that time has passed, so it is weakly fair   *)
(* too.  The announce timer is not (its expiries are bounded by           *)
(* MaxAnnounce), nor is anything the producers or the collector do.       *)
Spec == Init /\ [][Next]_vars /\ WF_vars(EngineStep) /\ WF_vars(QueueTimeout)
-----------------------------------------------------------------------------
(***************************************************************************)
(* Properties.                                                             *)
(***************************************************************************)
TypeOK ==
    /\ pc \in [Producers -> {"idle", "connOk", "enOk"}]
    /\ cur \in [Producers -> [tp : Tracepoints, dlen : DataLens \cup {0}]]
    /\ nsub \in [Producers -> 0..MaxSubmits]
    /\ registered \subseteq Tracepoints /\ finited \in BOOLEAN
    /\ connected \in BOOLEAN /\ enabled \in [Tracepoints -> BOOLEAN]
    /\ chan \in Seq(Msgs) /\ chanEvt \in BOOLEAN
    /\ engMap \subseteq registered
    /\ buffer \in Seq(Elems) /\ occupancy \in Nat
    /\ queueTimer \in TimerStates /\ udpTimer \in TimerStates
    /\ conn \in {NoConn} \cup ConnIds /\ accepted \in 0..MaxConnects
    /\ conn # NoConn => conn = accepted
    /\ seqNo \in 0..MaxAnnounce
    /\ batch \in Seq(Tokens)
    /\ engine \in {"running", "exited", "panicked"}
    /\ backlog \in 0..MaxConnects /\ listenEvt \in BOOLEAN
    /\ inbox \in Seq(RxFrames) /\ peerClosed \in BOOLEAN /\ dataEvt \in BOOLEAN
    /\ delivered \in Seq([c : ConnIds, e : Elems, off : BOOLEAN])
    /\ offCmd \subseteq engMap
    /\ args \in InitArgs /\ udpSock \in BOOLEAN
    /\ beaconConn \subseteq {NoConn} \cup ConnIds

(* spec.md 4.1, 4.3, 5 and 8.1: the whole pipeline (the channel, the     *)
(* buffer, frames split by send_trace_data, writes that block or fail half *)
(* way, elements left over for the next connection, the final flush) is a *)
(* lossy FIFO: events reach the collectors in the order they entered the   *)
(* channel, each at most once, as TracyDelivery says.  The pending events  *)
(* are the buffer followed by the payloads still in the channel.           *)
ChanEvents ==
    LET ps == SelectSeq(chan, LAMBDA m : m.kind = "payload")
    IN  [i \in DOMAIN ps |-> ps[i].elem]

SentEvents == [i \in DOMAIN delivered |-> delivered[i].e]

Delivery == INSTANCE TracyDelivery WITH pending <- buffer \o ChanEvents,
                                        sent <- SentEvents
DeliveryRefined == Delivery!Spec

(* queue_timeout is set only while there is something to flush: every    *)
(* path that empties the buffer (timer flush, overflow flush, close)      *)
(* clears or cancels it first (half of spec.md 8.7), while the thread    *)
(* runs (on exit the context and its timer are dropped).                  *)
QueueTimerImpliesPending ==
    engine = "running" /\ queueTimer # "off" => buffer # <<>>

(* spec.md 4.1 and 5: after tracy_finit the tracer thread eventually      *)
(* returns (or has died): the Terminate message is never stranded in the  *)
(* channel by the edge-triggered readiness.                               *)
TerminateLeadsToExit ==
    finited ~> engine # "running"

(* Edge-triggered reads must drain the socket (spec.md 4.7): a request   *)
(* the collector sent on the open connection is eventually read by       *)
(* receive, unless the connection goes away or the thread stops.         *)
RequestsEventuallyRead ==
    \A c \in ConnIds :
        (conn = c /\ inbox # <<>>) ~> (conn # c \/ inbox = <<>> \/ engine # "running")

(* The connection manager implements the lifecycle of TracyConnection.    *)
Connection == INSTANCE TracyConnection
ConnectionRefined == Connection!Spec

-----------------------------------------------------------------------------
(* Statements of spec.md and of the code's comments that the code breaks. *)

(* FIXME at src/lib.rs:9-13: send_trace_data need not check for a         *)
(* connection because a disconnect turns the timers off, so no flush ever *)
(* runs without one (a flush without one panics in send_slices).          *)
FlushOnlyWhileConnected ==
    crash # "send_trace_data"

(* spec.md 3 and 8.4: after a connection closes every enabled flag is     *)
(* false, so no tracepoint is enabled while no collector is connected.    *)
FlagsOffWhileDisconnected ==
    conn = NoConn => \A t \in Tracepoints : ~enabled[t]

(* receive unwraps ctx.connection (src/tcp_handler.rs:81): a CON_DATA    *)
(* event is only handled while the connection it reports on is open.      *)
ReceiveOnlyWhileConnected ==
    crash # "receive"

(* The tracer thread never panics: no handler unwraps a connection that   *)
(* is not there (spec.md 4.7: it exits only on Terminate).                *)
NoEnginePanic ==
    engine # "panicked"

(* spec.md 4.5 and 4.7: a collector waiting in the listener's backlog is  *)
(* accepted once the connection slot is free (edge-triggered: the         *)
(* listener is drained when readable).                                    *)
BacklogEventuallyAccepted ==
    (backlog > 0 /\ conn = NoConn) ~> (conn # NoConn \/ engine # "running")

(* spec.md 8.3 and scenario C: once a disable request for a tracepoint    *)
(* has been processed (and no enable since), no event of that tracepoint  *)
(* is written, even one buffered or in flight before the disable.         *)
NoEventsAfterDisable ==
    \A i \in DOMAIN delivered : ~delivered[i].off

(* spec.md 4.6 and 3: an announcement is sent only while no collector is  *)
(* connected.  The announce timer whose expiry sends it is stopped by the *)
(* CON_NEW arm of event_handler and re-armed only by                      *)
(* close_and_clean_connection and by the announce timeout itself, across  *)
(* any order of timer and listener events in a poll batch.                *)
BeaconOnlyWhileIdle == beaconConn \subseteq {NoConn}

(* spec.md 4.6: data buffered while a collector is connected is written  *)
(* within send_interval.  Once the flush timer runs with a non-empty       *)
(* buffer, the timer_handler's flush (or an overflow flush in             *)
(* channel_data_handler, or a close) eventually empties the buffer, ends   *)
(* the connection or stops the thread: no element waits in the buffer for *)
(* ever while the collector is there.                                      *)
BufferedDataEventuallyFlushed ==
    (buffer # <<>> /\ queueTimer # "off" /\ conn # NoConn)
        ~> (buffer = <<>> \/ conn = NoConn \/ engine # "running")

\* The tracer thread waits in poll with every event handled.
Quiescent == engine = "running" /\ batch = <<>>

(* spec.md 3 and 8.8: at quiescent points the announce timer is armed iff *)
(* announcing is configured and no connection exists.                     *)
AnnounceTimerArmedIffIdle ==
    Quiescent => (udpTimer # "off" <=> Announce /\ conn = NoConn)
=============================================================================
