---------------------------- MODULE ConfigFields ----------------------------
(***************************************************************************)
(* The fields of the collector's configuration that validateFileConfig     *)
(* (cmd/loza-collector/config.go) looks at, and what it asks of each:      *)
(* numbers, texts, words out of a list, switches.                          *)
(***************************************************************************)

Positive ==
    {"collector.read_header_timeout", "collector.shutdown_timeout",
     "collector.max_body_bytes", "collector.max_events_per_request",
     "worker.poll_timeout", "duckdb.max_open_conns", "duckdb.max_idle_conns"}

NonNegative ==
    {"limits.max_inflight_requests", "limits.max_inflight_events",
     "limits.max_queue_bytes", "limits.max_event_bytes", "limits.max_attr_count",
     "limits.max_attr_depth", "limits.max_string_length", "kafka.request_timeout",
     "kafka.max_retries", "kafka.retry_backoff", "duckdb.batch_size",
     "duckdb.writer_queue_size", "duckdb.checkpoint_interval", "duckdb.flush_interval"}

NonBlank ==
    {"collector.addr", "auth.header", "storage.encryption_key",
     "worker.consumer_group", "duckdb.path", "duckdb.driver"}

\* What a feature needs when it is enabled; the last two of lql must be 1.
PositiveIf ==
    [rate_limit |-> {"rate_limit.rps", "rate_limit.burst"},
     dedupe |-> {"dedupe.window"},
     retry |-> {"retry.max_attempts", "retry.initial_backoff", "retry.max_backoff"},
     export |-> {"duckdb.export.interval"},
     lql |-> {"lql.startup_timeout", "lql.compile_timeout",
              "lql.expected_protocol_version", "lql.max_concurrent_requests"},
     auth |-> {"auth.cache_ttl", "auth.negative_cache_ttl"},
     spool |-> {"reliability.max_spool_bytes", "reliability.delivery_queue_size"},
     tls |-> {}, dead_letter |-> {}, cortex_bridge |-> {}, queue |-> {}]

NonNegativeIf ==
    [f \in DOMAIN PositiveIf |->
        IF f = "cortex_bridge"
        THEN {"cortex_bridge.timeout", "cortex_bridge.flush_interval",
              "cortex_bridge.batch_size", "cortex_bridge.queue_size"}
        ELSE {}]

NonBlankIf ==
    [rate_limit |-> {}, retry |-> {}, dedupe |-> {"dedupe.key"},
     export |-> {"duckdb.export.path"},
     lql |-> {"lql.binary", "lql.expected_compiler", "lql.expected_language"},
     auth |-> {"auth.server_secret", "auth.value"},
     tls |-> {"http.tls.cert_file", "http.tls.key_file"},
     dead_letter |-> {"dead_letter.path"},
     cortex_bridge |-> {"cortex_bridge.endpoint"},
     spool |-> {"reliability.spool_dir", "reliability.spool_file"},
     queue |-> {"kafka.brokers", "kafka.topic"}]

Switches ==
    {"rate_limit.enabled", "retry.enabled", "dedupe.enabled", "duckdb.export.enabled",
     "lql.enabled", "auth.enabled", "http.tls.enabled", "dead_letter.enabled",
     "cortex_bridge.enabled", "fallback.enabled"}

SwitchOf ==
    [rate_limit |-> "rate_limit.enabled", retry |-> "retry.enabled",
     dedupe |-> "dedupe.enabled", export |-> "duckdb.export.enabled",
     lql |-> "lql.enabled", auth |-> "auth.enabled", tls |-> "http.tls.enabled",
     dead_letter |-> "dead_letter.enabled", cortex_bridge |-> "cortex_bridge.enabled"]

Modes == {"direct", "spool", "queue", "hybrid"}

\* The words a field may have.
Choices ==
    [mode |-> Modes,
     policy |-> {"best_effort", "require_primary", "require_all"},
     backend |-> {"", "memory", "redis"},
     primary |-> {"duckdb", "postgres", "clickhouse"},
     identity |-> {"", "payload", "api_key", "jwt", "mtls"},
     privacy |-> {"", "off", "warn", "enforce"},
     acks |-> {"", "0", "1", "all"}]

Choice == DOMAIN Choices

BridgeModes == {"", "sync", "async"}

Unchecked == {"duckdb.write_timeout", "duckdb.retry_attempts", "duckdb.retry_backoff"}

Numbers == Positive \cup NonNegative \cup Unchecked
           \cup UNION {PositiveIf[f] \cup NonNegativeIf[f] : f \in DOMAIN PositiveIf}
Texts == NonBlank \cup UNION {NonBlankIf[f] : f \in DOMAIN NonBlankIf} \cup Choice
         \cup {"dedupe.redis_addr", "bridge.mode", "export.format"}

\* fallback.outputs is the number of enabled outputs with the role fallback.
Fields == Numbers \cup Texts \cup Switches \cup {"fallback.outputs"}

\* A number in the environment that does not parse.
Unparsable == 2

\* A text: a word, padded when white space surrounds it.
Text(w) == [word |-> w, padded |-> FALSE]
Padded(w) == [word |-> w, padded |-> TRUE]
Trim(t) == [t EXCEPT !.padded = FALSE]
Blank(t) == t.word = ""

=============================================================================
