------------------------------ MODULE MCUnits ------------------------------
(***************************************************************************)
(* Components that share no state, each an instance of its module with     *)
(* small constants, in one run: the first state picks the unit that runs,  *)
(* and the variables of the others stay 0.  A property says what its       *)
(* module's property says, when it is that unit that runs.                 *)
(***************************************************************************)
EXTENDS Integers, TLC, ConfigFields

VARIABLES
    unit,
    bus_kind, bus_published, bus_position, bus_committed, bus_unacked,
    bus_deliveries, bus_subscribed, bus_subscriber, bus_fetched, bus_ch,
    bus_worker, bus_polled, bus_phase, bus_processed, bus_trace, bus_dropped,
    bus_budget,
    duck_mode, duck_pc, duck_hand, duck_buffer, duck_channel, duck_lastErr,
    duck_flushMu, duck_closed, duck_table, duck_lost, duck_unreported,
    duck_before, duck_faults,
    cortex_world, cortex_stored, cortex_sent, cortex_history, cortex_stream,
    cortex_tail, cortex_inbox, cortex_batch, cortex_pc, cortex_from,
    cortex_work, cortex_cursor, cortex_recovered, cortex_main, cortex_backup,
    cortex_nodes, cortex_processed, cortex_excused, cortex_budget,
    event_policy, event_state, event_finished, event_attrs, event_pc,
    event_call, event_handle, event_delivered, event_sampledOut, event_raced,
    config_defaults, config_file, config_environment, config_flags,
    config_status, config_running, config_started, config_checked,
    config_reloads,
    bridge_sync, bridge_queue, bridge_batch, bridge_sender, bridge_next,
    bridge_pc, bridge_closer, bridge_sent, bridge_failed,
    graph_world, graph_stored, graph_nodes, graph_edges, graph_pc, graph_todo,
    graph_groups, graph_linking, graph_found, graph_missed, graph_cache,
    graph_view, graph_budget,
    sinks_kind, sinks_buffer, sinks_pc, sinks_hand, sinks_line, sinks_timer,
    sinks_closed, sinks_sent, sinks_appended, sinks_before, sinks_overlapped,
    sinks_failed, sinks_faults,
    python_queue, python_offline, python_emitted, python_pc, python_batch,
    python_hand, python_stop, python_offlineLock, python_got, python_evicted,
    python_acked, python_unseen, python_late, python_faults,
    sdk_queue, sdk_done, sdk_pending, sdk_epc, sdk_ret, sdk_wpc, sdk_batch,
    sdk_carry, sdk_tpc, sdk_cpc, sdk_expired, sdk_buffered, sdk_stored,
    sdk_reported, sdk_evicted, sdk_sent, sdk_written, sdk_owed, sdk_faults,
    dlq_content, dlq_dlq, dlq_tmp, dlq_out, dlq_pc, dlq_want, dlq_rest, dlq_fd,
    dlq_at, dlq_written, dlq_deleted, dlq_gone, dlq_excused, dlq_late,
    dlq_budget,
    rust_world, rust_state, rust_tpc, rust_checked, rust_channel,
    rust_receiver, rust_batcher, rust_work, rust_cpc, rust_got, rust_sent,
    rust_failed, rust_abandoned, rust_raced, rust_owed, rust_faults,
    queue_retry, queue_events, queue_closed, queue_stopCh, queue_tick,
    queue_pc, queue_hand, queue_failures, queue_openTime, queue_state,
    queue_asked, queue_accepted, queue_dropped, queue_disk, queue_overwritten,
    queue_faults,
    stager_kind, stager_unreadable, stager_produced, stager_partial,
    stager_removed, stager_committed, stager_position, stager_pc,
    stager_listing, stager_yielded, stager_hand, stager_attempts, stager_tries,
    stager_staged, stager_letters, stager_skipped, stager_repeated,
    stager_budget,
    js_state, js_emitted, js_outcome, js_error, js_attrs, js_dropped,
    js_entries, js_open, js_pc, js_payload, js_sink, js_accepted,
    js_sampledOut, js_refused, js_late, js_faults,
    pyevent_policy, pyevent_state, pyevent_emitted, pyevent_finished,
    pyevent_outcome, pyevent_attrs, pyevent_entries, pyevent_setter,
    pyevent_pc, pyevent_payload, pyevent_next, pyevent_failed, pyevent_got,
    pyevent_accepted, pyevent_passed, pyevent_raced, pyevent_unsent,
    pyevent_faults,
    senders_world, senders_written, senders_buffer, senders_hand,
    senders_attempt, senders_pc, senders_request, senders_seen, senders_copies,
    senders_quarantine, senders_told, senders_failed, senders_unread,
    senders_forgotten, senders_faults,
    sdkconf_code, sdkconf_marked, sdkconf_asked, sdkconf_defaults,
    sdkconf_user, sdkconf_env, sdkconf_dsn, sdkconf_running, sdkconf_status,
    sdkconf_applied,
    loggers_async, loggers_arrays, loggers_loggers, loggers_default,
    loggers_open, loggers_written, loggers_held, loggers_pc, loggers_hand,
    loggers_result, loggers_program, loggers_ops, loggers_wanted, loggers_shut,
    loggers_retired, loggers_late, loggers_displaced, loggers_closers, loggers_refused

busVars == <<bus_kind, bus_published, bus_position, bus_committed, bus_unacked,
             bus_deliveries, bus_subscribed, bus_subscriber, bus_fetched,
             bus_ch, bus_worker, bus_polled, bus_phase, bus_processed,
             bus_trace, bus_dropped, bus_budget>>
duckVars == <<duck_mode, duck_pc, duck_hand, duck_buffer, duck_channel,
              duck_lastErr, duck_flushMu, duck_closed, duck_table, duck_lost,
              duck_unreported, duck_before, duck_faults>>
cortexVars == <<cortex_world, cortex_stored, cortex_sent, cortex_history,
                cortex_stream, cortex_tail, cortex_inbox, cortex_batch,
                cortex_pc, cortex_from, cortex_work, cortex_cursor,
                cortex_recovered, cortex_main, cortex_backup, cortex_nodes,
                cortex_processed, cortex_excused, cortex_budget>>
eventVars == <<event_policy, event_state, event_finished, event_attrs,
               event_pc, event_call, event_handle, event_delivered,
               event_sampledOut, event_raced>>
configVars == <<config_defaults, config_file, config_environment, config_flags,
                config_status, config_running, config_started, config_checked,
                config_reloads>>
bridgeVars == <<bridge_sync, bridge_queue, bridge_batch, bridge_sender,
                bridge_next, bridge_pc, bridge_closer, bridge_sent,
                bridge_failed>>
graphVars == <<graph_world, graph_stored, graph_nodes, graph_edges, graph_pc,
               graph_todo, graph_groups, graph_linking, graph_found,
               graph_missed, graph_cache, graph_view, graph_budget>>
sinksVars == <<sinks_kind, sinks_buffer, sinks_pc, sinks_hand, sinks_line,
               sinks_timer, sinks_closed, sinks_sent, sinks_appended,
               sinks_before, sinks_overlapped, sinks_failed, sinks_faults>>
pythonVars == <<python_queue, python_offline, python_emitted, python_pc,
                python_batch, python_hand, python_stop, python_offlineLock,
                python_got, python_evicted, python_acked, python_unseen,
                python_late, python_faults>>
sdkVars == <<sdk_queue, sdk_done, sdk_pending, sdk_epc, sdk_ret, sdk_wpc,
             sdk_batch, sdk_carry, sdk_tpc, sdk_cpc, sdk_expired, sdk_buffered,
             sdk_stored, sdk_reported, sdk_evicted, sdk_sent, sdk_written,
             sdk_owed, sdk_faults>>
dlqVars == <<dlq_content, dlq_dlq, dlq_tmp, dlq_out, dlq_pc, dlq_want,
             dlq_rest, dlq_fd, dlq_at, dlq_written, dlq_deleted, dlq_gone,
             dlq_excused, dlq_late, dlq_budget>>
rustVars == <<rust_world, rust_state, rust_tpc, rust_checked, rust_channel,
              rust_receiver, rust_batcher, rust_work, rust_cpc, rust_got,
              rust_sent, rust_failed, rust_abandoned, rust_raced, rust_owed,
              rust_faults>>
queueVars == <<queue_retry, queue_events, queue_closed, queue_stopCh,
               queue_tick, queue_pc, queue_hand, queue_failures,
               queue_openTime, queue_state, queue_asked, queue_accepted,
               queue_dropped, queue_disk, queue_overwritten, queue_faults>>
stagerVars == <<stager_kind, stager_unreadable, stager_produced,
                stager_partial, stager_removed, stager_committed,
                stager_position, stager_pc, stager_listing, stager_yielded,
                stager_hand, stager_attempts, stager_tries, stager_staged,
                stager_letters, stager_skipped, stager_repeated, stager_budget>>
jsVars == <<js_state, js_emitted, js_outcome, js_error, js_attrs, js_dropped,
            js_entries, js_open, js_pc, js_payload, js_sink, js_accepted,
            js_sampledOut, js_refused, js_late, js_faults>>
pyeventVars == <<pyevent_policy, pyevent_state, pyevent_emitted,
                 pyevent_finished, pyevent_outcome, pyevent_attrs,
                 pyevent_entries, pyevent_setter, pyevent_pc, pyevent_payload,
                 pyevent_next, pyevent_failed, pyevent_got, pyevent_accepted,
                 pyevent_passed, pyevent_raced, pyevent_unsent, pyevent_faults>>
sendersVars == <<senders_world, senders_written, senders_buffer, senders_hand,
                 senders_attempt, senders_pc, senders_request, senders_seen,
                 senders_copies, senders_quarantine, senders_told,
                 senders_failed, senders_unread, senders_forgotten,
                 senders_faults>>
sdkconfVars == <<sdkconf_code, sdkconf_marked, sdkconf_asked, sdkconf_defaults,
                 sdkconf_user, sdkconf_env, sdkconf_dsn, sdkconf_running,
                 sdkconf_status, sdkconf_applied>>
loggersVars == <<loggers_async, loggers_arrays, loggers_loggers,
                 loggers_default, loggers_open, loggers_written, loggers_held,
                 loggers_pc, loggers_hand, loggers_result, loggers_program,
                 loggers_ops, loggers_wanted, loggers_shut, loggers_retired,
                 loggers_late, loggers_displaced, loggers_closers, loggers_refused>>
vars ==
    <<unit, busVars, duckVars, cortexVars, eventVars, configVars, bridgeVars,
      graphVars, sinksVars, pythonVars, sdkVars, dlqVars, rustVars, queueVars,
      stagerVars, jsVars, pyeventVars, sendersVars, sdkconfVars, loggersVars>>

-----------------------------------------------------------------------------
EveryKind == {"memory", "kafka", "redis", "nats", "legacy"}

\* One crash and one poll too late, or one stop and one failed acknowledgement.
Disturbed ==
    {[crash |-> 1, stop |-> 0, late |-> 1, fault |-> 0],
     [crash |-> 0, stop |-> 1, late |-> 0, fault |-> 1]}

Bus == INSTANCE EventBus WITH
    Kinds <- EveryKind, MaxPublished <- 3, BufferSize <- 2, MaxFetch <- 2,
    Capacity <- 1, MaxDeliver <- 2, Bounds <- Disturbed, kind <- bus_kind,
    published <- bus_published, position <- bus_position,
    committed <- bus_committed, unacked <- bus_unacked,
    deliveries <- bus_deliveries, subscribed <- bus_subscribed,
    subscriber <- bus_subscriber, fetched <- bus_fetched, ch <- bus_ch,
    worker <- bus_worker, polled <- bus_polled, phase <- bus_phase,
    processed <- bus_processed, trace <- bus_trace, dropped <- bus_dropped,
    budget <- bus_budget

Rows == {"a", "b", "c"}

Duck == INSTANCE DuckSink WITH
    Rows <- Rows, Modes <- {"buffered", "writer"}, BatchSize <- 2,
    QueueSize <- 2, MaxFaults <- 1, mode <- duck_mode, pc <- duck_pc,
    hand <- duck_hand, buffer <- duck_buffer, channel <- duck_channel,
    lastErr <- duck_lastErr, flushMu <- duck_flushMu, closed <- duck_closed,
    table <- duck_table, lost <- duck_lost, unreported <- duck_unreported,
    before <- duck_before, faults <- duck_faults

\* Events out of order in one trace, tied timestamps, an event stored late, an
\* invalid event; a fault, or a crash with a damaged cursor.
World(time, trace, invalid, tail) ==
    [time |-> time, trace |-> trace, invalid |-> invalid, tail |-> tail]
Plain == <<"untraced", "untraced", "untraced">>
SomeWorlds ==
    {World(<<1, 1, 2>>, <<"untraced", "t", "t">>, {}, TRUE),
     World(<<1, 1, 1>>, Plain, {}, FALSE),
     World(<<2, 1, 3>>, <<"t", "t", "t">>, {}, FALSE),
     World(<<1, 2, 3>>, Plain, {2}, FALSE)}
MaxEvent == 3
OneEach ==
    {[crash |-> 0, fault |-> 1, corrupt |-> 0], [crash |-> 1, fault |-> 0, corrupt |-> 1]}

Cortex == INSTANCE CortexSync WITH
    MaxEvent <- MaxEvent, Worlds <- SomeWorlds, BatchSize <- 2, MaxPage <- 2,
    StreamSize <- 1, HistoryLimit <- 1, BufferSize <- 1, TailBatch <- 2,
    Bounds <- OneEach, world <- cortex_world, stored <- cortex_stored,
    sent <- cortex_sent, history <- cortex_history, stream <- cortex_stream,
    tail <- cortex_tail, inbox <- cortex_inbox, batch <- cortex_batch,
    pc <- cortex_pc, from <- cortex_from, work <- cortex_work,
    cursor <- cortex_cursor, recovered <- cortex_recovered,
    main <- cortex_main, backup <- cortex_backup, nodes <- cortex_nodes,
    processed <- cortex_processed, excused <- cortex_excused,
    budget <- cortex_budget

Event == INSTANCE EventLifecycle WITH
    Emitters <- {"explicit", "deferred"},
    Attributes <- {"reserved", "status", "request"},
    Refused <- {"reserved"}, Outcomes <- {"status"},
    Context <- "request", Handles <- {"timer"}, policy <- event_policy,
    state <- event_state, finished <- event_finished, attrs <- event_attrs,
    pc <- event_pc, call <- event_call, handle <- event_handle,
    delivered <- event_delivered, sampledOut <- event_sampledOut,
    raced <- event_raced

\* A configuration with everything on or off, and one field off it in a file.
Base(mode, on) ==
    [f \in Fields |->
        CASE f \in Numbers \cup {"fallback.outputs"} -> 1
          [] f \in Switches -> on
          [] f = "mode" -> Text(mode)
          [] f = "policy" -> Text("require_primary")
          [] f = "primary" -> Text("duckdb")
          [] f = "export.format" -> Text("parquet")
          [] f \in Choice \cup {"bridge.mode"} -> Text("")
          [] OTHER -> Text("x")]

DefaultFiles == {Base("hybrid", TRUE), Base("queue", TRUE), Base("direct", FALSE)}

\* One field that is not as in the defaults.
Deviations ==
    {f :> n : f \in Numbers, n \in {-1, 0}} \cup {f :> b : f \in Switches, b \in BOOLEAN}
    \cup {f :> t : f \in Texts,
                   t \in {Text(""), Padded(""), Text("y"), Padded("redis"), Padded("spool")}}
    \cup {"fallback.outputs" :> n : n \in {0, 2}}

NoLayer == [f \in {} |-> 0]
OneFileEach == {NoLayer} \cup Deviations
SomeEdits ==
    {"mode" :> Text("direct") @@ "reliability.delivery_queue_size" :> 0,
     "mode" :> Text("spool"), "dedupe.window" :> 0, "policy" :> Padded("require_all")}
SomeEnvironments ==
    {NoLayer, "mode" :> Padded("hybrid") @@ "dedupe.key" :> Padded(""),
     "limits.max_event_bytes" :> Unparsable, "auth.value" :> Text("key")}
SomeFlags ==
    {NoLayer, "collector.addr" :> Text("") @@ "duckdb.retry_attempts" :> -1
              @@ "auth.value" :> Text("")}

Settings == INSTANCE Config WITH
    Defaults <- DefaultFiles, Files <- OneFileEach, Edits <- SomeEdits,
    Environments <- SomeEnvironments, Flags <- SomeFlags, MaxReloads <- 2,
    defaults <- config_defaults, file <- config_file,
    environment <- config_environment, flags <- config_flags,
    status <- config_status, running <- config_running,
    started <- config_started, checked <- config_checked,
    reloads <- config_reloads

CortexBridge == INSTANCE Bridge WITH
    Requests <- {"r1", "r2"}, Size <- 2, QueueSize <- 2, BatchSize <- 2,
    sync <- bridge_sync, queue <- bridge_queue, batch <- bridge_batch,
    sender <- bridge_sender, next <- bridge_next, pc <- bridge_pc,
    closer <- bridge_closer, sent <- bridge_sent, failed <- bridge_failed

\* Two events of a trace in a request each, one of them a batch; or three, two
\* of them in a batch that share an incident, and links.  A fault and a retry,
\* or a crash and a traversal.
Brought(calls, batches, incidents, links) ==
    [service |-> <<"s", "s", "u">>, trace |-> <<"t", "t", "t">>,
     incident |-> incidents, links |-> links, deploys |-> {2},
     calls |-> calls, batches |-> batches]
GraphWorlds ==
    {Brought(<<<<1>>, <<2>>>>, {2}, <<"i", "none", "none">>, {}),
     Brought(<<<<1, 3>>, <<2>>>>, {1}, <<"i", "none", "i">>, {<<1, 3>>, <<2, 1>>})}
FromService ==
    [start |-> <<"service", "s">>, depth |-> 1,
     types |-> {"depends_on", "same_trace", "same_incident", "deployed_before", "link"},
     window |-> ({"event", "deploy"} \X (1 .. 3)) \cup {<<"service", "s">>, <<"service", "u">>}]
FaultOrCrash ==
    {[fault |-> 1, crash |-> 0, retry |-> 1, view |-> 0],
     [fault |-> 0, crash |-> 1, retry |-> 0, view |-> 1]}

Graph == INSTANCE ServiceGraph WITH
    Worlds <- GraphWorlds, Views <- {FromService}, Bounds <- FaultOrCrash,
    world <- graph_world, stored <- graph_stored, nodes <- graph_nodes,
    edges <- graph_edges, pc <- graph_pc, todo <- graph_todo,
    groups <- graph_groups, linking <- graph_linking, found <- graph_found,
    missed <- graph_missed, cache <- graph_cache, view <- graph_view,
    budget <- graph_budget

Buffered == INSTANCE BatchSinks WITH
    Events <- {"a", "b", "c"}, Kinds <- {"loki", "go", "js"}, BatchSize <- 2,
    MaxFaults <- 1, kind <- sinks_kind, buffer <- sinks_buffer, pc <- sinks_pc,
    hand <- sinks_hand, line <- sinks_line, timer <- sinks_timer,
    closed <- sinks_closed, sent <- sinks_sent, appended <- sinks_appended,
    before <- sinks_before, overlapped <- sinks_overlapped,
    failed <- sinks_failed, faults <- sinks_faults

Python == INSTANCE PyPipeline WITH
    Events <- {"a", "b", "c"}, Workers <- {"w"}, Sinks <- {"s", "t"},
    QueueSize <- 1, MaxBatch <- 1, Capacity <- 1, Limit <- 1, MaxFaults <- 1,
    queue <- python_queue, offline <- python_offline,
    emitted <- python_emitted, pc <- python_pc, batch <- python_batch,
    hand <- python_hand, stop <- python_stop,
    offlineLock <- python_offlineLock, got <- python_got,
    evicted <- python_evicted, acked <- python_acked, unseen <- python_unseen,
    late <- python_late, faults <- python_faults

DropDebug == INSTANCE Pipeline WITH
    Items <- {"i1", "i2"}, Size <- [i \in {"i1", "i2"} |-> 1],
    Debug <- {"i1"}, Errors <- {}, Policy <- "debug", QueueSize <- 1,
    MaxBatchBytes <- 2, Workers <- {"w"}, Sinks <- {"s"}, Fallback <- {"fb"},
    Callers <- {"flush"}, Stop <- "stop", Deadlines <- {}, MaxFaults <- 2,
    queue <- sdk_queue, done <- sdk_done, pending <- sdk_pending,
    epc <- sdk_epc, ret <- sdk_ret, wpc <- sdk_wpc, batch <- sdk_batch,
    carry <- sdk_carry, tpc <- sdk_tpc, cpc <- sdk_cpc, expired <- sdk_expired,
    buffered <- sdk_buffered, stored <- sdk_stored, reported <- sdk_reported,
    evicted <- sdk_evicted, sent <- sdk_sent, written <- sdk_written,
    owed <- sdk_owed, faults <- sdk_faults

\* Two deletes, and a crash, a replay that fails, or a reload and a fault.
Mishaps ==
    {[crash |-> 1, reload |-> 0, replay |-> 0, fault |-> 0],
     [crash |-> 0, reload |-> 0, replay |-> 1, fault |-> 0],
     [crash |-> 0, reload |-> 1, replay |-> 0, fault |-> 1]}

LetterFile == INSTANCE DeadLetters WITH
    MaxEvents <- 3, Requests <- {1, 2}, Inodes <- 1 .. 5, Bounds <- Mishaps,
    content <- dlq_content, dlq <- dlq_dlq, tmp <- dlq_tmp, out <- dlq_out,
    pc <- dlq_pc, want <- dlq_want, rest <- dlq_rest, fd <- dlq_fd,
    at <- dlq_at, written <- dlq_written, deleted <- dlq_deleted,
    gone <- dlq_gone, excused <- dlq_excused, late <- dlq_late,
    budget <- dlq_budget

\* Two threads with clones of one event, and a third with another event.
Doing(calls) == [event |-> <<"a", "a", "b">>, call |-> calls]
RustWorlds ==
    {Doing(<<"emit", "emit", "emit">>), Doing(<<"emit", "finish", "oversize">>),
     Doing(<<"emit", "invalid", "sampled">>), Doing(<<"emit", "sampled", "oversize">>)}

Rust == INSTANCE RustLogger WITH
    Events <- {"a", "b"}, Threads <- 1 .. 3, Worlds <- RustWorlds,
    Sinks <- <<"s", "t">>, Callers <- {"flush", "stop"}, Stop <- "stop",
    QueueSize <- 2, BatchSize <- 1, MaxAttempts <- 2, MaxFaults <- 1,
    world <- rust_world, state <- rust_state, tpc <- rust_tpc,
    checked <- rust_checked, channel <- rust_channel,
    receiver <- rust_receiver, batcher <- rust_batcher, work <- rust_work,
    cpc <- rust_cpc, got <- rust_got, sent <- rust_sent, failed <- rust_failed,
    abandoned <- rust_abandoned, raced <- rust_raced, owed <- rust_owed,
    faults <- rust_faults

Enqueued == {<<"a">>, <<"b", "c">>}

MemoryQueue == INSTANCE DeliveryQueue WITH
    Batches <- Enqueued, MaxEvents <- 2, BatchSize <- 2, MaxAttempts <- 2,
    Threshold <- 2, FileSize <- 1, Modes <- BOOLEAN, MaxFaults <- 2,
    retry <- queue_retry, events <- queue_events, closed <- queue_closed,
    stopCh <- queue_stopCh, tick <- queue_tick, pc <- queue_pc,
    hand <- queue_hand, failures <- queue_failures, openTime <- queue_openTime,
    state <- queue_state, asked <- queue_asked, accepted <- queue_accepted,
    dropped <- queue_dropped, disk <- queue_disk,
    overwritten <- queue_overwritten, faults <- queue_faults

\* Three messages, of which the first or the first two may be no JSON; two
\* failures, or one and a crash.
StagerMishaps == {[fault |-> 2, crash |-> 0], [fault |-> 1, crash |-> 1]}

Staging == INSTANCE Stager WITH
    Kinds <- {"local", "kafka"}, MaxMessage <- 3,
    Unreadable <- {{}, {1}, {1, 2}}, BatchSize <- 2, MaxAttempts <- 2,
    Bounds <- StagerMishaps,
    kind <- stager_kind, unreadable <- stager_unreadable,
    produced <- stager_produced, partial <- stager_partial,
    removed <- stager_removed, committed <- stager_committed,
    position <- stager_position, pc <- stager_pc, listing <- stager_listing,
    yielded <- stager_yielded, hand <- stager_hand,
    attempts <- stager_attempts, tries <- stager_tries,
    staged <- stager_staged, letters <- stager_letters,
    skipped <- stager_skipped, repeated <- stager_repeated,
    budget <- stager_budget

Script == INSTANCE JsEvent WITH
    Keys <- {"a", "b"}, Handles <- {"timer"}, MaxFaults <- 1,
    state <- js_state, emitted <- js_emitted, outcome <- js_outcome,
    error <- js_error, attrs <- js_attrs, dropped <- js_dropped,
    entries <- js_entries, open <- js_open, pc <- js_pc, payload <- js_payload,
    sink <- js_sink, accepted <- js_accepted, sampledOut <- js_sampledOut,
    refused <- js_refused, late <- js_late, faults <- js_faults

Emits(duplicate, strict, recovery, pipeline) ==
    [duplicate |-> duplicate, strict |-> strict, recovery |-> recovery,
     pipeline |-> pipeline]

PythonEvent == INSTANCE PyEvent WITH
    Emitters <- {"e", "f"}, Attributes <- {"level", "a"},
    Canonical <- {"level"}, Sinks <- <<"s", "t">>,
    Policies <- {Emits("canonical", FALSE, TRUE, FALSE), Emits("error", TRUE, FALSE, TRUE)},
    MaxFaults <- 1,
    policy <- pyevent_policy, state <- pyevent_state,
    emitted <- pyevent_emitted, finished <- pyevent_finished,
    outcome <- pyevent_outcome, attrs <- pyevent_attrs,
    entries <- pyevent_entries, setter <- pyevent_setter, pc <- pyevent_pc,
    payload <- pyevent_payload, next <- pyevent_next, failed <- pyevent_failed,
    got <- pyevent_got, accepted <- pyevent_accepted, passed <- pyevent_passed,
    raced <- pyevent_raced, unsent <- pyevent_unsent, faults <- pyevent_faults

-----------------------------------------------------------------------------
\* What the collector refuses in the middle of a batch, quarantines at its front.
Sender(kind, dedupe, fate) == [kind |-> kind, dedupe |-> dedupe, fate |-> fate]
BatchKinds == {"gobatch", "js", "python", "rust"}
Sends ==
    {Sender(kind, TRUE, <<"valid", "invalid", "valid">>) : kind \in BatchKinds \cup {"go"}}
    \cup {Sender(kind, FALSE, <<"quarantined", "valid">>) : kind \in BatchKinds}

Senders == INSTANCE Delivery WITH
    Worlds <- Sends, BatchSize <- 2, Attempts <- 2, EventsLimit <- 2,
    MaxFaults <- 2,
    world <- senders_world, written <- senders_written,
    buffer <- senders_buffer, hand <- senders_hand, attempt <- senders_attempt,
    pc <- senders_pc, request <- senders_request, seen <- senders_seen,
    copies <- senders_copies, quarantine <- senders_quarantine,
    told <- senders_told, failed <- senders_failed, unread <- senders_unread,
    forgotten <- senders_forgotten, faults <- senders_faults

\* Presets of the Go SDK, the shipped defaults, some files, environments and DSNs,
\* and two of the options.
Good(fields) == [f \in fields |-> "good"]
Preset(level, async, sinks) ==
    Good({"Version", "Environment", "BatchSize", "MaxBufferSize", "MaxRetries",
          "FlushInterval", "MaxBackoff", "Timeout", "ConnectionTimeout", "EnableCompression",
          "MaxFieldBytes", "MaxEventBytes", "MaxAttrCount", "DropOversizedEvents", "Encoder",
          "IncludeHost", "PanicRecovery"})
    @@ "Level" :> level @@ "Sinks" :> sinks
    @@ [f \in {"Async.Enabled", "Async.QueueSize", "Async.Workers", "Async.FlushInterval",
               "Async.MaxBatchBytes"} |-> async]
OwnCode == "Service" :> "good"
Dev == Preset("zero", "zero", "stdout")
Production == Preset("good", "good", "stdout")
TestPreset == Preset("zero", "zero", "zero")

SomeOptions ==
    {<<"CollectorURL", "good">>, <<"CollectorEndpoint", "good">>, <<"DSN", "bad">>,
     <<"Service", "blank">>, <<"BatchSize", "negative">>, <<"MaxRetries", "zero">>,
     <<"Async.Enabled", "zero">>, <<"Async.QueueSize", "good">>, <<"Async.Workers", "negative">>,
     <<"EnableCompression", "zero">>, <<"Strict", "good">>, <<"ValidateEncoded", "zero">>,
     <<"DropOversizedEvents", "zero">>, <<"MaxEventBytes", "good">>, <<"Alias", "good">>,
     <<"Sinks", "own">>, <<"Sink", "own">>}
ShippedDefaults ==
    Good({"CollectorURL", "Version", "Environment", "BatchSize", "FlushInterval", "MaxRetries",
          "Timeout", "EnableCompression"})
SomeUserFiles ==
    {NoLayer, "Service" :> "good" @@ "FlushInterval" :> "bad" @@ "EnableCompression" :> "zero",
     "BatchSize" :> "good" @@ "Timeout" :> "negative"}

ClientConfig == INSTANCE SdkConfig WITH
    Presets <- {OwnCode, Dev, Production, TestPreset}, Options <- SomeOptions, MaxOptions <- 2,
    DefaultsFiles <- {ShippedDefaults}, UserFiles <- SomeUserFiles,
    Environments <- {NoLayer, "Service" :> "good" @@ "MaxRetries" :> "bad",
                     "CollectorURL" :> "blank" @@ "EnableCompression" :> "zero"},
    DSNs <- {{}, {"Service"}},
    code <- sdkconf_code, marked <- sdkconf_marked, asked <- sdkconf_asked,
    defaults <- sdkconf_defaults, user <- sdkconf_user, env <- sdkconf_env,
    dsn <- sdkconf_dsn, running <- sdkconf_running, status <- sdkconf_status,
    applied <- sdkconf_applied

\* A file, a batch sink and a rotating file in an array that has room for one more, and
\* two sinks for the program's two operations.
Registry == INSTANCE Loggers WITH
    Events <- {"x", "y"}, Batch <- {"b", "n"}, Files <- {"f"},
    First <- <<"f", "b", "g", "none">>, Spare <- {"n", "m"}, MaxOps <- 2,
    async <- loggers_async, arrays <- loggers_arrays, loggers <- loggers_loggers,
    default <- loggers_default, open <- loggers_open,
    written <- loggers_written, held <- loggers_held, pc <- loggers_pc,
    hand <- loggers_hand, result <- loggers_result, program <- loggers_program,
    ops <- loggers_ops, wanted <- loggers_wanted, shut <- loggers_shut,
    retired <- loggers_retired, late <- loggers_late,
    displaced <- loggers_displaced, closers <- loggers_closers,
    refused <- loggers_refused

busIdle ==
    /\ bus_kind = 0 /\ bus_published = 0 /\ bus_position = 0
    /\ bus_committed = 0 /\ bus_unacked = 0 /\ bus_deliveries = 0
    /\ bus_subscribed = 0 /\ bus_subscriber = 0 /\ bus_fetched = 0
    /\ bus_ch = 0 /\ bus_worker = 0 /\ bus_polled = 0 /\ bus_phase = 0
    /\ bus_processed = 0 /\ bus_trace = 0 /\ bus_dropped = 0 /\ bus_budget = 0

duckIdle ==
    /\ duck_mode = 0 /\ duck_pc = 0 /\ duck_hand = 0 /\ duck_buffer = 0
    /\ duck_channel = 0 /\ duck_lastErr = 0 /\ duck_flushMu = 0
    /\ duck_closed = 0 /\ duck_table = 0 /\ duck_lost = 0
    /\ duck_unreported = 0 /\ duck_before = 0 /\ duck_faults = 0

cortexIdle ==
    /\ cortex_world = 0 /\ cortex_stored = 0 /\ cortex_sent = 0
    /\ cortex_history = 0 /\ cortex_stream = 0 /\ cortex_tail = 0
    /\ cortex_inbox = 0 /\ cortex_batch = 0 /\ cortex_pc = 0 /\ cortex_from = 0
    /\ cortex_work = 0 /\ cortex_cursor = 0 /\ cortex_recovered = 0
    /\ cortex_main = 0 /\ cortex_backup = 0 /\ cortex_nodes = 0
    /\ cortex_processed = 0 /\ cortex_excused = 0 /\ cortex_budget = 0

eventIdle ==
    /\ event_policy = 0 /\ event_state = 0 /\ event_finished = 0
    /\ event_attrs = 0 /\ event_pc = 0 /\ event_call = 0 /\ event_handle = 0
    /\ event_delivered = 0 /\ event_sampledOut = 0 /\ event_raced = 0

configIdle ==
    /\ config_defaults = 0 /\ config_file = 0 /\ config_environment = 0
    /\ config_flags = 0 /\ config_status = 0 /\ config_running = 0
    /\ config_started = 0 /\ config_checked = 0 /\ config_reloads = 0

bridgeIdle ==
    /\ bridge_sync = 0 /\ bridge_queue = 0 /\ bridge_batch = 0
    /\ bridge_sender = 0 /\ bridge_next = 0 /\ bridge_pc = 0
    /\ bridge_closer = 0 /\ bridge_sent = 0 /\ bridge_failed = 0

graphIdle ==
    /\ graph_world = 0 /\ graph_stored = 0 /\ graph_nodes = 0
    /\ graph_edges = 0 /\ graph_pc = 0 /\ graph_todo = 0 /\ graph_groups = 0
    /\ graph_linking = 0 /\ graph_found = 0 /\ graph_missed = 0
    /\ graph_cache = 0 /\ graph_view = 0 /\ graph_budget = 0

sinksIdle ==
    /\ sinks_kind = 0 /\ sinks_buffer = 0 /\ sinks_pc = 0 /\ sinks_hand = 0
    /\ sinks_line = 0 /\ sinks_timer = 0 /\ sinks_closed = 0 /\ sinks_sent = 0
    /\ sinks_appended = 0 /\ sinks_before = 0 /\ sinks_overlapped = 0
    /\ sinks_failed = 0 /\ sinks_faults = 0

pythonIdle ==
    /\ python_queue = 0 /\ python_offline = 0 /\ python_emitted = 0
    /\ python_pc = 0 /\ python_batch = 0 /\ python_hand = 0 /\ python_stop = 0
    /\ python_offlineLock = 0 /\ python_got = 0 /\ python_evicted = 0
    /\ python_acked = 0 /\ python_unseen = 0 /\ python_late = 0
    /\ python_faults = 0

sdkIdle ==
    /\ sdk_queue = 0 /\ sdk_done = 0 /\ sdk_pending = 0 /\ sdk_epc = 0
    /\ sdk_ret = 0 /\ sdk_wpc = 0 /\ sdk_batch = 0 /\ sdk_carry = 0
    /\ sdk_tpc = 0 /\ sdk_cpc = 0 /\ sdk_expired = 0 /\ sdk_buffered = 0
    /\ sdk_stored = 0 /\ sdk_reported = 0 /\ sdk_evicted = 0 /\ sdk_sent = 0
    /\ sdk_written = 0 /\ sdk_owed = 0 /\ sdk_faults = 0

dlqIdle ==
    /\ dlq_content = 0 /\ dlq_dlq = 0 /\ dlq_tmp = 0 /\ dlq_out = 0
    /\ dlq_pc = 0 /\ dlq_want = 0 /\ dlq_rest = 0 /\ dlq_fd = 0 /\ dlq_at = 0
    /\ dlq_written = 0 /\ dlq_deleted = 0 /\ dlq_gone = 0 /\ dlq_excused = 0
    /\ dlq_late = 0 /\ dlq_budget = 0

rustIdle ==
    /\ rust_world = 0 /\ rust_state = 0 /\ rust_tpc = 0 /\ rust_checked = 0
    /\ rust_channel = 0 /\ rust_receiver = 0 /\ rust_batcher = 0
    /\ rust_work = 0 /\ rust_cpc = 0 /\ rust_got = 0 /\ rust_sent = 0
    /\ rust_failed = 0 /\ rust_abandoned = 0 /\ rust_raced = 0 /\ rust_owed = 0
    /\ rust_faults = 0

queueIdle ==
    /\ queue_retry = 0 /\ queue_events = 0 /\ queue_closed = 0
    /\ queue_stopCh = 0 /\ queue_tick = 0 /\ queue_pc = 0 /\ queue_hand = 0
    /\ queue_failures = 0 /\ queue_openTime = 0 /\ queue_state = 0
    /\ queue_asked = 0 /\ queue_accepted = 0 /\ queue_dropped = 0
    /\ queue_disk = 0 /\ queue_overwritten = 0 /\ queue_faults = 0

stagerIdle ==
    /\ stager_kind = 0 /\ stager_unreadable = 0 /\ stager_produced = 0
    /\ stager_partial = 0 /\ stager_removed = 0 /\ stager_committed = 0
    /\ stager_position = 0 /\ stager_pc = 0 /\ stager_listing = 0
    /\ stager_yielded = 0 /\ stager_hand = 0 /\ stager_attempts = 0
    /\ stager_tries = 0 /\ stager_staged = 0 /\ stager_letters = 0
    /\ stager_skipped = 0 /\ stager_repeated = 0 /\ stager_budget = 0

jsIdle ==
    /\ js_state = 0 /\ js_emitted = 0 /\ js_outcome = 0 /\ js_error = 0
    /\ js_attrs = 0 /\ js_dropped = 0 /\ js_entries = 0 /\ js_open = 0
    /\ js_pc = 0 /\ js_payload = 0 /\ js_sink = 0 /\ js_accepted = 0
    /\ js_sampledOut = 0 /\ js_refused = 0 /\ js_late = 0 /\ js_faults = 0

pyeventIdle ==
    /\ pyevent_policy = 0 /\ pyevent_state = 0 /\ pyevent_emitted = 0
    /\ pyevent_finished = 0 /\ pyevent_outcome = 0 /\ pyevent_attrs = 0
    /\ pyevent_entries = 0 /\ pyevent_setter = 0 /\ pyevent_pc = 0
    /\ pyevent_payload = 0 /\ pyevent_next = 0 /\ pyevent_failed = 0
    /\ pyevent_got = 0 /\ pyevent_accepted = 0 /\ pyevent_passed = 0
    /\ pyevent_raced = 0 /\ pyevent_unsent = 0 /\ pyevent_faults = 0

sendersIdle ==
    /\ senders_world = 0 /\ senders_written = 0 /\ senders_buffer = 0
    /\ senders_hand = 0 /\ senders_attempt = 0 /\ senders_pc = 0
    /\ senders_request = 0 /\ senders_seen = 0 /\ senders_copies = 0
    /\ senders_quarantine = 0 /\ senders_told = 0 /\ senders_failed = 0
    /\ senders_unread = 0 /\ senders_forgotten = 0 /\ senders_faults = 0

sdkconfIdle ==
    /\ sdkconf_code = 0 /\ sdkconf_marked = 0 /\ sdkconf_asked = 0
    /\ sdkconf_defaults = 0 /\ sdkconf_user = 0 /\ sdkconf_env = 0
    /\ sdkconf_dsn = 0 /\ sdkconf_running = 0 /\ sdkconf_status = 0
    /\ sdkconf_applied = 0

loggersIdle ==
    /\ loggers_async = 0 /\ loggers_arrays = 0 /\ loggers_loggers = 0
    /\ loggers_default = 0 /\ loggers_open = 0 /\ loggers_written = 0
    /\ loggers_held = 0 /\ loggers_pc = 0 /\ loggers_hand = 0
    /\ loggers_result = 0 /\ loggers_program = 0 /\ loggers_ops = 0
    /\ loggers_wanted = 0 /\ loggers_shut = 0 /\ loggers_retired = 0
    /\ loggers_late = 0 /\ loggers_displaced = 0 /\ loggers_closers = 0
    /\ loggers_refused = 0

Init ==
    \/ unit = "bus" /\ Bus!Init
       /\ duckIdle /\ cortexIdle /\ eventIdle /\ configIdle /\ bridgeIdle
       /\ graphIdle /\ sinksIdle /\ pythonIdle /\ sdkIdle /\ dlqIdle
       /\ rustIdle /\ queueIdle /\ stagerIdle /\ jsIdle /\ pyeventIdle
       /\ sendersIdle /\ sdkconfIdle /\ loggersIdle
    \/ unit = "duck" /\ Duck!Init
       /\ busIdle /\ cortexIdle /\ eventIdle /\ configIdle /\ bridgeIdle
       /\ graphIdle /\ sinksIdle /\ pythonIdle /\ sdkIdle /\ dlqIdle
       /\ rustIdle /\ queueIdle /\ stagerIdle /\ jsIdle /\ pyeventIdle
       /\ sendersIdle /\ sdkconfIdle /\ loggersIdle
    \/ unit = "cortex" /\ Cortex!Init
       /\ busIdle /\ duckIdle /\ eventIdle /\ configIdle /\ bridgeIdle
       /\ graphIdle /\ sinksIdle /\ pythonIdle /\ sdkIdle /\ dlqIdle
       /\ rustIdle /\ queueIdle /\ stagerIdle /\ jsIdle /\ pyeventIdle
       /\ sendersIdle /\ sdkconfIdle /\ loggersIdle
    \/ unit = "event" /\ Event!Init
       /\ busIdle /\ duckIdle /\ cortexIdle /\ configIdle /\ bridgeIdle
       /\ graphIdle /\ sinksIdle /\ pythonIdle /\ sdkIdle /\ dlqIdle
       /\ rustIdle /\ queueIdle /\ stagerIdle /\ jsIdle /\ pyeventIdle
       /\ sendersIdle /\ sdkconfIdle /\ loggersIdle
    \/ unit = "config" /\ Settings!Init
       /\ busIdle /\ duckIdle /\ cortexIdle /\ eventIdle /\ bridgeIdle
       /\ graphIdle /\ sinksIdle /\ pythonIdle /\ sdkIdle /\ dlqIdle
       /\ rustIdle /\ queueIdle /\ stagerIdle /\ jsIdle /\ pyeventIdle
       /\ sendersIdle /\ sdkconfIdle /\ loggersIdle
    \/ unit = "bridge" /\ CortexBridge!Init
       /\ busIdle /\ duckIdle /\ cortexIdle /\ eventIdle /\ configIdle
       /\ graphIdle /\ sinksIdle /\ pythonIdle /\ sdkIdle /\ dlqIdle
       /\ rustIdle /\ queueIdle /\ stagerIdle /\ jsIdle /\ pyeventIdle
       /\ sendersIdle /\ sdkconfIdle /\ loggersIdle
    \/ unit = "graph" /\ Graph!Init
       /\ busIdle /\ duckIdle /\ cortexIdle /\ eventIdle /\ configIdle
       /\ bridgeIdle /\ sinksIdle /\ pythonIdle /\ sdkIdle /\ dlqIdle
       /\ rustIdle /\ queueIdle /\ stagerIdle /\ jsIdle /\ pyeventIdle
       /\ sendersIdle /\ sdkconfIdle /\ loggersIdle
    \/ unit = "sinks" /\ Buffered!Init
       /\ busIdle /\ duckIdle /\ cortexIdle /\ eventIdle /\ configIdle
       /\ bridgeIdle /\ graphIdle /\ pythonIdle /\ sdkIdle /\ dlqIdle
       /\ rustIdle /\ queueIdle /\ stagerIdle /\ jsIdle /\ pyeventIdle
       /\ sendersIdle /\ sdkconfIdle /\ loggersIdle
    \/ unit = "python" /\ Python!Init
       /\ busIdle /\ duckIdle /\ cortexIdle /\ eventIdle /\ configIdle
       /\ bridgeIdle /\ graphIdle /\ sinksIdle /\ sdkIdle /\ dlqIdle
       /\ rustIdle /\ queueIdle /\ stagerIdle /\ jsIdle /\ pyeventIdle
       /\ sendersIdle /\ sdkconfIdle /\ loggersIdle
    \/ unit = "sdk" /\ DropDebug!Init
       /\ busIdle /\ duckIdle /\ cortexIdle /\ eventIdle /\ configIdle
       /\ bridgeIdle /\ graphIdle /\ sinksIdle /\ pythonIdle /\ dlqIdle
       /\ rustIdle /\ queueIdle /\ stagerIdle /\ jsIdle /\ pyeventIdle
       /\ sendersIdle /\ sdkconfIdle /\ loggersIdle
    \/ unit = "dlq" /\ LetterFile!Init
       /\ busIdle /\ duckIdle /\ cortexIdle /\ eventIdle /\ configIdle
       /\ bridgeIdle /\ graphIdle /\ sinksIdle /\ pythonIdle /\ sdkIdle
       /\ rustIdle /\ queueIdle /\ stagerIdle /\ jsIdle /\ pyeventIdle
       /\ sendersIdle /\ sdkconfIdle /\ loggersIdle
    \/ unit = "rust" /\ Rust!Init
       /\ busIdle /\ duckIdle /\ cortexIdle /\ eventIdle /\ configIdle
       /\ bridgeIdle /\ graphIdle /\ sinksIdle /\ pythonIdle /\ sdkIdle
       /\ dlqIdle /\ queueIdle /\ stagerIdle /\ jsIdle /\ pyeventIdle
       /\ sendersIdle /\ sdkconfIdle /\ loggersIdle
    \/ unit = "queue" /\ MemoryQueue!Init
       /\ busIdle /\ duckIdle /\ cortexIdle /\ eventIdle /\ configIdle
       /\ bridgeIdle /\ graphIdle /\ sinksIdle /\ pythonIdle /\ sdkIdle
       /\ dlqIdle /\ rustIdle /\ stagerIdle /\ jsIdle /\ pyeventIdle
       /\ sendersIdle /\ sdkconfIdle /\ loggersIdle
    \/ unit = "stager" /\ Staging!Init
       /\ busIdle /\ duckIdle /\ cortexIdle /\ eventIdle /\ configIdle
       /\ bridgeIdle /\ graphIdle /\ sinksIdle /\ pythonIdle /\ sdkIdle
       /\ dlqIdle /\ rustIdle /\ queueIdle /\ jsIdle /\ pyeventIdle
       /\ sendersIdle /\ sdkconfIdle /\ loggersIdle
    \/ unit = "js" /\ Script!Init
       /\ busIdle /\ duckIdle /\ cortexIdle /\ eventIdle /\ configIdle
       /\ bridgeIdle /\ graphIdle /\ sinksIdle /\ pythonIdle /\ sdkIdle
       /\ dlqIdle /\ rustIdle /\ queueIdle /\ stagerIdle /\ pyeventIdle
       /\ sendersIdle /\ sdkconfIdle /\ loggersIdle
    \/ unit = "pyevent" /\ PythonEvent!Init
       /\ busIdle /\ duckIdle /\ cortexIdle /\ eventIdle /\ configIdle
       /\ bridgeIdle /\ graphIdle /\ sinksIdle /\ pythonIdle /\ sdkIdle
       /\ dlqIdle /\ rustIdle /\ queueIdle /\ stagerIdle /\ jsIdle
       /\ sendersIdle /\ sdkconfIdle /\ loggersIdle
    \/ unit = "senders" /\ Senders!Init
       /\ busIdle /\ duckIdle /\ cortexIdle /\ eventIdle /\ configIdle
       /\ bridgeIdle /\ graphIdle /\ sinksIdle /\ pythonIdle /\ sdkIdle
       /\ dlqIdle /\ rustIdle /\ queueIdle /\ stagerIdle /\ jsIdle
       /\ pyeventIdle /\ sdkconfIdle /\ loggersIdle
    \/ unit = "sdkconf" /\ ClientConfig!Init
       /\ busIdle /\ duckIdle /\ cortexIdle /\ eventIdle /\ configIdle
       /\ bridgeIdle /\ graphIdle /\ sinksIdle /\ pythonIdle /\ sdkIdle
       /\ dlqIdle /\ rustIdle /\ queueIdle /\ stagerIdle /\ jsIdle
       /\ pyeventIdle /\ sendersIdle /\ loggersIdle
    \/ unit = "loggers" /\ Registry!Init
       /\ busIdle /\ duckIdle /\ cortexIdle /\ eventIdle /\ configIdle
       /\ bridgeIdle /\ graphIdle /\ sinksIdle /\ pythonIdle /\ sdkIdle
       /\ dlqIdle /\ rustIdle /\ queueIdle /\ stagerIdle /\ jsIdle
       /\ pyeventIdle /\ sendersIdle /\ sdkconfIdle

Next ==
    \/ unit = "bus" /\ Bus!Next
       /\ UNCHANGED <<unit, duckVars, cortexVars, eventVars, configVars,
                       bridgeVars, graphVars, sinksVars, pythonVars, sdkVars,
                       dlqVars, rustVars, queueVars, stagerVars, jsVars,
                       pyeventVars, sendersVars, sdkconfVars, loggersVars>>
    \/ unit = "duck" /\ Duck!Next
       /\ UNCHANGED <<unit, busVars, cortexVars, eventVars, configVars,
                       bridgeVars, graphVars, sinksVars, pythonVars, sdkVars,
                       dlqVars, rustVars, queueVars, stagerVars, jsVars,
                       pyeventVars, sendersVars, sdkconfVars, loggersVars>>
    \/ unit = "cortex" /\ Cortex!Next
       /\ UNCHANGED <<unit, busVars, duckVars, eventVars, configVars,
                       bridgeVars, graphVars, sinksVars, pythonVars, sdkVars,
                       dlqVars, rustVars, queueVars, stagerVars, jsVars,
                       pyeventVars, sendersVars, sdkconfVars, loggersVars>>
    \/ unit = "event" /\ Event!Next
       /\ UNCHANGED <<unit, busVars, duckVars, cortexVars, configVars,
                       bridgeVars, graphVars, sinksVars, pythonVars, sdkVars,
                       dlqVars, rustVars, queueVars, stagerVars, jsVars,
                       pyeventVars, sendersVars, sdkconfVars, loggersVars>>
    \/ unit = "config" /\ Settings!Next
       /\ UNCHANGED <<unit, busVars, duckVars, cortexVars, eventVars,
                       bridgeVars, graphVars, sinksVars, pythonVars, sdkVars,
                       dlqVars, rustVars, queueVars, stagerVars, jsVars,
                       pyeventVars, sendersVars, sdkconfVars, loggersVars>>
    \/ unit = "bridge" /\ CortexBridge!Next
       /\ UNCHANGED <<unit, busVars, duckVars, cortexVars, eventVars,
                       configVars, graphVars, sinksVars, pythonVars, sdkVars,
                       dlqVars, rustVars, queueVars, stagerVars, jsVars,
                       pyeventVars, sendersVars, sdkconfVars, loggersVars>>
    \/ unit = "graph" /\ Graph!Next
       /\ UNCHANGED <<unit, busVars, duckVars, cortexVars, eventVars,
                       configVars, bridgeVars, sinksVars, pythonVars, sdkVars,
                       dlqVars, rustVars, queueVars, stagerVars, jsVars,
                       pyeventVars, sendersVars, sdkconfVars, loggersVars>>
    \/ unit = "sinks" /\ Buffered!Next
       /\ UNCHANGED <<unit, busVars, duckVars, cortexVars, eventVars,
                       configVars, bridgeVars, graphVars, pythonVars, sdkVars,
                       dlqVars, rustVars, queueVars, stagerVars, jsVars,
                       pyeventVars, sendersVars, sdkconfVars, loggersVars>>
    \/ unit = "python" /\ Python!Next
       /\ UNCHANGED <<unit, busVars, duckVars, cortexVars, eventVars,
                       configVars, bridgeVars, graphVars, sinksVars, sdkVars,
                       dlqVars, rustVars, queueVars, stagerVars, jsVars,
                       pyeventVars, sendersVars, sdkconfVars, loggersVars>>
    \/ unit = "sdk" /\ DropDebug!Next
       /\ UNCHANGED <<unit, busVars, duckVars, cortexVars, eventVars,
                       configVars, bridgeVars, graphVars, sinksVars,
                       pythonVars, dlqVars, rustVars, queueVars, stagerVars,
                       jsVars, pyeventVars, sendersVars, sdkconfVars,
                       loggersVars>>
    \/ unit = "dlq" /\ LetterFile!Next
       /\ UNCHANGED <<unit, busVars, duckVars, cortexVars, eventVars,
                       configVars, bridgeVars, graphVars, sinksVars,
                       pythonVars, sdkVars, rustVars, queueVars, stagerVars,
                       jsVars, pyeventVars, sendersVars, sdkconfVars,
                       loggersVars>>
    \/ unit = "rust" /\ Rust!Next
       /\ UNCHANGED <<unit, busVars, duckVars, cortexVars, eventVars,
                       configVars, bridgeVars, graphVars, sinksVars,
                       pythonVars, sdkVars, dlqVars, queueVars, stagerVars,
                       jsVars, pyeventVars, sendersVars, sdkconfVars,
                       loggersVars>>
    \/ unit = "queue" /\ MemoryQueue!Next
       /\ UNCHANGED <<unit, busVars, duckVars, cortexVars, eventVars,
                       configVars, bridgeVars, graphVars, sinksVars,
                       pythonVars, sdkVars, dlqVars, rustVars, stagerVars,
                       jsVars, pyeventVars, sendersVars, sdkconfVars,
                       loggersVars>>
    \/ unit = "stager" /\ Staging!Next
       /\ UNCHANGED <<unit, busVars, duckVars, cortexVars, eventVars,
                       configVars, bridgeVars, graphVars, sinksVars,
                       pythonVars, sdkVars, dlqVars, rustVars, queueVars,
                       jsVars, pyeventVars, sendersVars, sdkconfVars,
                       loggersVars>>
    \/ unit = "js" /\ Script!Next
       /\ UNCHANGED <<unit, busVars, duckVars, cortexVars, eventVars,
                       configVars, bridgeVars, graphVars, sinksVars,
                       pythonVars, sdkVars, dlqVars, rustVars, queueVars,
                       stagerVars, pyeventVars, sendersVars, sdkconfVars,
                       loggersVars>>
    \/ unit = "pyevent" /\ PythonEvent!Next
       /\ UNCHANGED <<unit, busVars, duckVars, cortexVars, eventVars,
                       configVars, bridgeVars, graphVars, sinksVars,
                       pythonVars, sdkVars, dlqVars, rustVars, queueVars,
                       stagerVars, jsVars, sendersVars, sdkconfVars,
                       loggersVars>>
    \/ unit = "senders" /\ Senders!Next
       /\ UNCHANGED <<unit, busVars, duckVars, cortexVars, eventVars,
                       configVars, bridgeVars, graphVars, sinksVars,
                       pythonVars, sdkVars, dlqVars, rustVars, queueVars,
                       stagerVars, jsVars, pyeventVars, sdkconfVars,
                       loggersVars>>
    \/ unit = "sdkconf" /\ ClientConfig!Next
       /\ UNCHANGED <<unit, busVars, duckVars, cortexVars, eventVars,
                       configVars, bridgeVars, graphVars, sinksVars,
                       pythonVars, sdkVars, dlqVars, rustVars, queueVars,
                       stagerVars, jsVars, pyeventVars, sendersVars,
                       loggersVars>>
    \/ unit = "loggers" /\ Registry!Next
       /\ UNCHANGED <<unit, busVars, duckVars, cortexVars, eventVars,
                       configVars, bridgeVars, graphVars, sinksVars,
                       pythonVars, sdkVars, dlqVars, rustVars, queueVars,
                       stagerVars, jsVars, pyeventVars, sendersVars,
                       sdkconfVars>>

\* The fairness of each module.
Spec ==
    /\ Init /\ [][Next]_vars
    /\ WF_busVars(unit = "bus" /\ Bus!Subscriber)
    /\ WF_busVars(unit = "bus" /\ Bus!Worker)
    /\ WF_busVars(unit = "bus" /\ Bus!Restart)
    /\ WF_duckVars(unit = "duck" /\ Duck!WriterStep)
    /\ WF_duckVars(unit = "duck" /\ Duck!TickerExit)
    /\ WF_duckVars(unit = "duck" /\ Duck!CloseReturns)
    /\ \A p \in Duck!Callers : WF_duckVars(unit = "duck" /\ (Duck!Take(p) \/ Duck!Exec(p)))
    /\ WF_duckVars(unit = "duck" /\ Duck!Acquire(Duck!Ticker))
    /\ SF_duckVars(unit = "duck" /\ \E p \in Duck!Callers \ {Duck!Ticker} : Duck!Acquire(p))
    /\ WF_duckVars(unit = "duck" /\ Duck!Flush(Duck!Ticker))
    /\ WF_duckVars(unit = "duck" /\ Duck!Flush(Duck!Closer))
    /\ \A r \in Rows : WF_duckVars(unit = "duck" /\ Duck!Send(r))
    /\ WF_cortexVars(unit = "cortex" /\ Cortex!Sync)
    /\ WF_cortexVars(unit = "cortex" /\ Cortex!Reader)
    /\ \A e \in 1 .. MaxEvent :
          WF_cortexVars(unit = "cortex" /\ e \in cortex_stored /\ Cortex!Broadcast(e))
    /\ WF_sinksVars(unit = "sinks" /\ \E p \in Buffered!Procs : Buffered!Take(p))
    /\ WF_sinksVars(/\ unit = "sinks"
                    /\ \E p \in Buffered!Procs : Buffered!Sent(p) \/ Buffered!NotSent(p))
    /\ WF_sinksVars(unit = "sinks" /\ (Buffered!Tick \/ Buffered!TimerFires))
    /\ WF_queueVars(unit = "queue" /\ MemoryQueue!FlusherStep)
    /\ WF_queueVars(unit = "queue" /\ MemoryQueue!CloserStep)
    /\ WF_stagerVars(unit = "stager" /\ Staging!Worker)
    /\ SF_stagerVars(unit = "stager" /\ Staging!Poll)
    /\ WF_stagerVars(unit = "stager" /\ Staging!Produce)
    /\ WF_sendersVars(unit = "senders" /\ senders_world.kind = "gobatch" /\ Senders!Flush)
    /\ WF_sendersVars(unit = "senders" /\ Senders!Send)
    /\ WF_sendersVars(unit = "senders" /\ Senders!Receive)
    /\ \A s \in {"current", "late"} : WF_sendersVars(unit = "senders" /\ Senders!Handle(s))
    /\ \A l \in 1 .. 3 : WF_loggersVars(unit = "loggers" /\ l \in Registry!Loggers /\ Registry!Work(l))
    /\ \A s \in {"b", "n"} : WF_loggersVars(unit = "loggers" /\ Registry!Tick(s))
    /\ \A e \in {"x", "y"} : WF_loggersVars(unit = "loggers" /\ Registry!Emit(e))
    /\ WF_loggersVars(unit = "loggers" /\ Registry!Replacing)

-----------------------------------------------------------------------------
TypeOK ==
    /\ unit \in {"bus", "duck", "cortex", "event", "config", "bridge", "graph",
                 "sinks", "python", "sdk", "dlq", "rust", "queue", "stager",
                 "js", "pyevent", "senders", "sdkconf", "loggers"}
    /\ unit = "bus" => Bus!TypeOK
    /\ unit = "duck" => Duck!TypeOK
    /\ unit = "cortex" => Cortex!TypeOK
    /\ unit = "event" => Event!TypeOK
    /\ unit = "config" => Settings!TypeOK
    /\ unit = "bridge" => CortexBridge!TypeOK
    /\ unit = "graph" => Graph!TypeOK
    /\ unit = "sinks" => Buffered!TypeOK
    /\ unit = "python" => Python!TypeOK
    /\ unit = "sdk" => DropDebug!TypeOK
    /\ unit = "dlq" => LetterFile!TypeOK
    /\ unit = "rust" => Rust!TypeOK
    /\ unit = "queue" => MemoryQueue!TypeOK
    /\ unit = "stager" => Staging!TypeOK
    /\ unit = "js" => Script!TypeOK
    /\ unit = "pyevent" => PythonEvent!TypeOK
    /\ unit = "senders" => Senders!TypeOK
    /\ unit = "sdkconf" => ClientConfig!TypeOK
    /\ unit = "loggers" => Registry!TypeOK

\* The queue worker: what the broker considers done is processed, in hand, or
\* was lost with the memory of a process or to a poll that came too late.
LostOnlyInMemory == unit = "bus" => Bus!LostOnlyInMemory

\* The queue worker: while its process lives, records are processed in order and
\* once, although each is acknowledged twice.  A batching sink that sends one
\* batch at a time keeps the order, and so does the Rust SDK's worker.
InOrder ==
    /\ unit = "bus" => Bus!InOrderOnce
    /\ unit = "sinks" => Buffered!SendsInOrder
    /\ unit = "rust" => Rust!InOrder

\* The queue worker: every published record is processed, or was lost in
\* memory.  The stager: every message leaves its queue, the named exceptions
\* apart.
RecordsProcessed ==
    <>[](/\ unit = "bus" => Bus!AllSettled
         /\ unit = "stager" => Staging!Settled)

\* A row the DuckDB sink took is in the table, on its way, or in a batch whose
\* error is kept until a call returns it; what a batching sink buffered is sent
\* or still to be sent; what the Python SDK emitted is delivered, with a thread,
\* in the offline buffer, or lost by its limit; what DropDebug accepts is in
\* flight, in the sink or reported.  A dead letter stays in its file until it is
\* deleted, and then does not come back; what the Rust SDK's channel or the
\* collector's memory queue took is in it, written, or failed.  A message the
\* stager has done with is staged or a dead letter.  What an SDK's sender was
\* given is still to be sent, or its write returned; without an error only if the
\* collector has it.  What the Go SDK's loggers took is in every sink they were made
\* with, or on its way, and a logger that was replaced refused nobody.  Each with
\* the exceptions its module names.
NothingVanishes ==
    /\ unit = "duck" => Duck!NothingVanishes /\ Duck!LossIsReported
    /\ unit = "sinks" => Buffered!BufferedIsKept
    /\ unit = "python" => Python!EmittedIsKept
    /\ unit = "sdk" => DropDebug!NothingVanishes /\ DropDebug!DrainAccounting
    /\ unit = "dlq" => LetterFile!Kept /\ LetterFile!DeletedIsGone
    /\ unit = "rust" => Rust!SentIsKept
    /\ unit = "queue" => MemoryQueue!EnqueuedIsKept
    /\ unit = "stager" => Staging!DoneIsKept /\ Staging!OnceUnlessRepeated
    /\ unit = "senders" => Senders!WrittenIsKept
    /\ unit = "loggers" => Registry!EmittedIsKept /\ Registry!NoneRefused

\* When Close has returned nil, what was accepted before it is stored, or its
\* loss was reported: in the DuckDB sink's table; by a batching sink, but for a
\* batch a caller was sending; from the queue and the threads of the Python SDK.
\* When a Flush under DropDebug, a flush or shutdown of the Rust SDK or a Close
\* of the memory queue has returned without an error, likewise.
CloseStores ==
    /\ unit = "duck" => Duck!CloseStores
    /\ unit = "sinks" => Buffered!CloseSends
    /\ unit = "python" => Python!ClosedIsDrained
    /\ unit = "sdk" => DropDebug!FlushMeansStored
    /\ unit = "rust" => Rust!FlushedIsWritten
    /\ unit = "queue" => MemoryQueue!CloseFlushes

\* The DuckDB sink: a row is in the table twice only in writer mode and after a
\* failure.  With the dedupe store an event that an SDK sends again, while the
\* collector may still handle the first request, is stored once.
OnlyWriterRepeats ==
    /\ unit = "duck" => Duck!OnlyWriterRepeats
    /\ unit = "senders" => Senders!StoredOnce

\* The DuckDB sink: an accepted row gets to the table or is lost with its
\* batch.  A batching sink: what is buffered is sent, but what no timer of the
\* JavaScript kind will send.  The memory queue writes or fails what it took,
\* unless its goroutine sleeps.  The Go SDK's batch sink sends what it has, unless
\* the collector will never take it; its loggers empty their pipelines, replaced or
\* not, and their batch sinks.
EventuallyStored ==
    <>[](/\ unit = "duck" => Duck!AllSettled
         /\ unit = "sinks" => Buffered!Settled
         /\ unit = "queue" => MemoryQueue!Settled
         /\ unit = "senders" => Senders!Settled
         /\ unit = "loggers" => Registry!Settled)

\* The service graph: the accepted events of a trace are joined, and a first
\* traversal shows every accepted event, the named exceptions apart.
GraphFollowsEvents == unit = "graph" => Graph!GraphFollowsEvents

\* Cortex: no cursor passes a stored event that was not processed, the named
\* exceptions apart.
CursorCovers == unit = "cortex" => Cortex!CursorCovers

\* Cortex: a stored event is processed sooner or later, the named exceptions
\* apart.
CatchesUp ==
    <>[](unit = "cortex" /\ Cortex!Stuck) \/ <>[](unit = "cortex" => Cortex!CaughtUp)

\* The SDK's event: emitted once, with every attribute a call accepted, and its
\* state says so.  The Rust SDK's: sent once by all its clones.  The JavaScript
\* SDK's: sent by whichever of its emitters comes first, with an outcome that
\* fits, and a run emits it.  The Python SDK's: likewise, but for threads that
\* meet between a check and what relies on it.
EmittedOnceAndWhole ==
    /\ unit = "event" => Event!EmittedOnceAndWhole
    /\ unit = "rust" => Rust!SentOnce
    /\ unit = "js" => /\ Script!OnceAndWhole /\ Script!StateTells
                      /\ Script!OutcomeFits /\ Script!RunEmits
    /\ unit = "pyevent" => PythonEvent!OnceAndWhole /\ PythonEvent!StateTells

\* The collector's configuration: what runs is what was checked, across layers and
\* reloads.  The Go SDK's: what runs is what the highest layer asks for, and valid,
\* the named exceptions apart.
RunsWhatWasChecked ==
    /\ unit = "config" => Settings!RunsWhatWasChecked
    /\ unit = "sdkconf" => ClientConfig!RunsAsAsked

\* The bridge: an event that Deliver took is sent or was in a batch that
\* failed, at Close at the latest.
TakenIsTried == unit = "bridge" => CortexBridge!TakenIsTried

=============================================================================
