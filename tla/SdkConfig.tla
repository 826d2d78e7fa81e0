------------------------------ MODULE SdkConfig ------------------------------
(***************************************************************************)
(* The configuration of the Go SDK: src/core/config.go, config_file.go and *)
(* config_options.go.  A program takes a preset, applies options one after *)
(* another and calls NewClient, which puts the result over the environment *)
(* and two files.                                                          *)
(*                                                                         *)
(* A value says what it is and which layer it is from.  "zero" is the zero *)
(* value of the field's type ("", 0, FALSE, debug for the level), which is *)
(* how the code marks a field nobody set.  What is not here: credentials,  *)
(* redaction, discovery of the files and the text of a DSN.                *)
(***************************************************************************)
EXTENDS Integers, FiniteSets

CONSTANTS
    Presets,        \* presets to start from: functions from some fields to values
    Options,        \* options the program may apply: <<field, what>>
    MaxOptions,
    DefaultsFiles,  \* contents of loza-go.defaults.yaml
    UserFiles,      \* contents of loza.yaml
    Environments,   \* environment variables
    DSNs            \* LOZA_DSN: what it names, nothing if there is none or it is bad

-----------------------------------------------------------------------------
(* The fields.                                                             *)

Texts == {"CollectorURL", "Service", "Version", "Environment", "TenantID"}
Counts == {"BatchSize", "MaxBufferSize", "MaxRetries"}
Durations == {"FlushInterval", "MaxBackoff", "Timeout", "ConnectionTimeout"}
FileFields == Texts \cup Counts \cup Durations \cup {"EnableCompression"}

Sizes == {"Async.QueueSize", "Async.Workers", "Async.FlushInterval", "Async.MaxBatchBytes"}
AsyncFields == Sizes \cup {"Async.Enabled", "Async.Backpressure"}
Limits == {"MaxFieldBytes", "MaxEventBytes", "MaxAttrCount"}
Switches == {"EnableCompression", "Strict", "ValidateEncoded", "DropOversizedEvents"}
Plain == {"CollectorName", "CollectorEndpoint", "Level", "Sampler", "Encoder", "Schema", "Enricher",
          "FallbackSink", "StatsHandler", "DeploymentID", "Region", "Sink", "Sinks"}
\* Fields with an option that mergeCodeConfig does not know.
Dropped == {"Alias", "DuplicateFieldPolicy", "IncludeHost", "PanicRecovery", "OTelBridge"}

Fields == FileFields \cup AsyncFields \cup Limits \cup Switches \cup Plain \cup Dropped

\* What a value can be: proper, zero, negative, white space only, no number.  Sinks
\* are the lone stdout sink of the presets ("stdout"), or include one of the program.
Kinds == {"good", "zero", "negative", "blank", "bad", "stdout", "own"}
Layers == {"base", "defaults", "user", "dsn", "env", "code", "made"}

Value(what, layer) == [is |-> what, from |-> layer]
Unset == Value("zero", "base")
IsZero(v) == v.is = "zero"

\* The values NewClient starts with, and New for what nobody set.
Base ==
    [f \in Fields |->
        CASE f \in AsyncFields \cup Limits
                   \cup {"Level", "DropOversizedEvents", "PanicRecovery"} -> Value("good", "base")
          [] f = "Encoder" -> Value("good", "base")
          [] f = "Sinks" -> Value("stdout", "base")
          [] OTHER -> Unset]

-----------------------------------------------------------------------------
(* The files and the environment.                                          *)

\* A number that does not parse, is 0 or negative is as good as none in a file, but
\* a duration is text until the files are merged.
overrides(file, f) ==
    /\ f \in DOMAIN file
    /\ f \in Texts \cup Counts => file[f] = "good"

\* Mutant: the defaults over the user's file.
overlayFileConfig_Swapped(base, override) ==
    [f \in {g \in FileFields : overrides(override, g) \/ overrides(base, g)} |->
        IF overrides(base, f) THEN Value(base[f], "defaults") ELSE Value(override[f], "user")]

overlayFileConfig(base, override) ==
    [f \in {g \in FileFields : overrides(override, g) \/ overrides(base, g)} |->
        IF overrides(override, f) THEN Value(override[f], "user") ELSE Value(base[f], "defaults")]

mergeFileConfig(base, file) ==
    [f \in Fields |-> IF f \in DOMAIN file /\ file[f].is # "bad" THEN file[f] ELSE base[f]]

\* A DSN gives the URL, the collector's name and an environment ("default" if it
\* names none), and a service if it names one; one that does not parse, nothing.
DSNFields(d) ==
    IF d = {} THEN {} ELSE d \cup {"CollectorURL", "CollectorName", "Environment"}

LoadFromEnv(base, env, d) ==
    [f \in Fields |->
        IF f \in DOMAIN env /\ env[f] # "bad" THEN Value(env[f], "env")
        ELSE IF f \in DSNFields(d) THEN Value("good", "dsn")
        ELSE base[f]]

-----------------------------------------------------------------------------
(* The program's own configuration.                                        *)

VARIABLES
    code,       \* the Config the program builds
    marked,     \* its codeSet flags
    asked,      \* history: what the last option or the preset said of a field
    defaults, user, env, dsn,
    running,    \* the logger's configuration
    status,     \* "building", "refused", "running"
    applied     \* options applied so far

vars == <<code, marked, asked, defaults, user, env, dsn, running, status, applied>>

None == [f \in {} |-> 0]
Over(base, layer) == [f \in DOMAIN base \cup DOMAIN layer |->
                         IF f \in DOMAIN layer THEN layer[f] ELSE base[f]]
Said(layer, from) == [f \in DOMAIN layer |-> Value(layer[f], from)]

\* Async options turn asynchronous delivery on; WithSink adds to the list, and
\* WithDSN empties the URL when it cannot parse.
Sets(o) ==
    CASE o[1] \in AsyncFields \ {"Async.Enabled"} ->
            [f \in {o[1], "Async.Enabled"} |-> IF f = o[1] THEN o[2] ELSE "good"]
      [] o[1] = "DSN" /\ o[2] = "bad" -> [f \in {"CollectorURL"} |-> "zero"]
      [] o[1] = "DSN" -> [f \in DSNFields({"CollectorURL"}) |-> "good"]
      [] OTHER -> [f \in {o[1]} |-> o[2]]

Marks(o) ==
    {m \in Switches \cup {"Async", "Async.Backpressure"} :
        m = o[1] \/ (m = "Async" /\ o[1] \in AsyncFields)}

ApplyConfig ==
    /\ status = "building" /\ applied < MaxOptions
    /\ applied' = applied + 1
    /\ \E o \in Options :
          /\ code' = Over(code, Said(Sets(o), "code"))
          /\ marked' = marked \cup Marks(o)
          /\ asked' = Over(asked, Sets(o))
    /\ UNCHANGED <<defaults, user, env, dsn, running, status>>

\* mergeCodeConfig: what of the program's configuration is taken over.
\* Mutant: the switches by their value, not by whether they were set.
Carried_ByValue(f) ==
    CASE f \in Dropped -> FALSE
      [] f \in AsyncFields ->
            /\ "Async" \in marked
            /\ f \in Sizes => ~IsZero(code[f])
            /\ f = "Async.Backpressure" => f \in marked
      [] f \in Limits -> \E l \in Limits : ~IsZero(code[l])
      [] OTHER -> ~IsZero(code[f])

Carried(f) ==
    CASE f \in Dropped -> FALSE
      [] f \in AsyncFields ->
            /\ "Async" \in marked
            /\ f \in Sizes => ~IsZero(code[f])
            /\ f = "Async.Backpressure" => f \in marked
      [] f \in Limits -> \E l \in Limits : ~IsZero(code[l])
      [] f = "DropOversizedEvents" -> f \in marked \/ \E l \in Limits : ~IsZero(code[l])
      [] f \in Switches -> f \in marked
      [] f = "CollectorURL" -> ~IsZero(code[f]) \/ ~IsZero(code["CollectorEndpoint"])
      [] OTHER -> ~IsZero(code[f])

mergeCodeConfig(base) ==
    [f \in Fields |->
        IF ~Carried(f) THEN base[f]
        ELSE IF f = "CollectorURL" /\ ~IsZero(code["CollectorEndpoint"])
             THEN code["CollectorEndpoint"] ELSE code[f]]

Merged ==
    mergeCodeConfig(LoadFromEnv(mergeFileConfig(Base, overlayFileConfig(defaults, user)), env, dsn))

\* Validate.
Missing(c, f) == c[f].is \in {"zero", "blank"}
Validate(c) ==
    /\ c["Strict"].is = "good" => ~Missing(c, "Service")
    /\ \A f \in Counts \cup Durations \cup Limits : c[f].is # "negative"
    /\ c["Async.Enabled"].is = "good" =>
          \A f \in Sizes : /\ c[f].is # "negative"
                           /\ c["Strict"].is = "good" => ~IsZero(c[f])

validateSDKConfig(c) == ~Missing(c, "CollectorURL") /\ ~Missing(c, "Service") /\ Validate(c)

\* Anything but one sink named stdout is the program's wish.
shouldInstallDefaultCollectorSink(c) == IsZero(c["Sink"]) /\ c["Sinks"].is = "stdout"

\* NewClient's sink, and applyConfigDefaults: strict mode checks what it encodes.
\* It would not if the flag of ValidateEncoded were set, but mergeCodeConfig keeps
\* none of the flags.
InstallSink(c) ==
    IF shouldInstallDefaultCollectorSink(c)
    THEN [c EXCEPT !["Sink"] = Value("own", "made"), !["Sinks"] = Value("own", "made")]
    ELSE c

applyConfigDefaults(c) ==
    [c EXCEPT
        !["Sinks"] = IF IsZero(c["Sink"]) THEN @ ELSE Value("own", c["Sink"].from),
        !["Sampler"] = IF IsZero(@) THEN Value("good", "base") ELSE @,
        !["ValidateEncoded"] = IF c["Strict"].is = "good" THEN Value("good", "made") ELSE @]

Init ==
    /\ \E p \in Presets :
          /\ code = Over([f \in Fields |-> Unset], Said(p, "code"))
          /\ asked = p
    /\ defaults \in DefaultsFiles /\ user \in UserFiles /\ env \in Environments /\ dsn \in DSNs
    /\ marked = {} /\ running = None /\ status = "building" /\ applied = 0

NewClient ==
    /\ status = "building"
    /\ IF validateSDKConfig(Merged)
       THEN status' = "running" /\ running' = applyConfigDefaults(InstallSink(Merged))
       ELSE status' = "refused" /\ UNCHANGED running
    /\ UNCHANGED <<code, marked, asked, defaults, user, env, dsn, applied>>

Next == ApplyConfig \/ NewClient

Spec == Init /\ [][Next]_vars

-----------------------------------------------------------------------------
TypeOK ==
    /\ status \in {"building", "refused", "running"} /\ applied \in 0 .. MaxOptions
    /\ code \in [Fields -> [is : Kinds, from : Layers]]
    /\ status = "running" => running \in [Fields -> [is : Kinds, from : Layers]]

\* What the highest layer that says something of a field says.
Wanted(f) ==
    IF f \in DOMAIN asked THEN Value(asked[f], "code")
    ELSE IF f \in DOMAIN env /\ env[f] # "bad" THEN Value(env[f], "env")
    ELSE IF f \in DSNFields(dsn) THEN Value("good", "dsn")
    ELSE IF f \in FileFields /\ overrides(user, f) THEN Value(user[f], "user")
    ELSE IF f \in FileFields /\ overrides(defaults, f) THEN Value(defaults[f], "defaults")
    ELSE Base[f]

\* What the program asks for and does not get: options nobody carries over; a zero
\* (no retries, the level debug, a URL whose DSN was bad) and a preset's switches and
\* asynchronous part, which look as if nobody had set them; the other limits, which
\* go with the one that is set; an endpoint, which beats a URL; and ValidateEncoded in
\* strict mode, whose flag is lost.  And an unparsable duration in loza.yaml hides
\* the default.
Ignored(f) ==
    \/ f \in Dropped
    \/ f \in DOMAIN asked /\ f \notin marked /\ (asked[f] = "zero" \/ f \in Switches)
    \/ f \in AsyncFields /\ "Async" \notin marked
    \/ f = "Async.Backpressure" /\ f \notin marked
    \/ f \in Limits \cup {"DropOversizedEvents"} /\ \E l \in Limits : l \in DOMAIN asked
    \/ f = "CollectorURL" /\ "CollectorEndpoint" \in DOMAIN asked
    \/ f = "ValidateEncoded"
    \/ f \in Durations /\ f \in DOMAIN user /\ user[f] = "bad"
    \/ f \in {"Sink", "Sinks", "Sampler"}

\* The logger of a client runs with what code, environment,
\* file and defaults say in that order, the exceptions above apart; every setting is
\* one the pipeline can work with; and its events go to a collector or to a sink of
\* the program's own, never to a preset's standard output alone.
RunsAsAsked ==
    status = "running" =>
        /\ \A f \in Fields : ~Ignored(f) => running[f] = Wanted(f)
        /\ validateSDKConfig(running)
        /\ running["Sinks"].is = "own"
        /\ running["Strict"].is = "good" => running["ValidateEncoded"].is = "good"

=============================================================================
