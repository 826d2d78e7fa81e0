------------------------------- MODULE Config -------------------------------
(***************************************************************************)
(* The configuration of the collector, cmd/loza-collector/config.go, and   *)
(* its reload, server.go: defaults, then the file, the environment and the *)
(* flags; one check of the whole; the runtime configuration made of it.    *)
(*                                                                         *)
(* A number is -1, 0 or 1.  A text is a word with or without white space   *)
(* around it; case is left out, since check and conversion both lower it.  *)
(* Of a list only the length and the blanks matter.  What is not here:     *)
(* credentials, named connections, the component registry and the         *)
(* identifiers of tables and columns.                                      *)
(***************************************************************************)
EXTENDS Integers, ConfigFields

CONSTANTS
    Defaults,       \* the default files to consider
    Files,          \* files: functions from some fields to values
    Edits,          \* files it may be replaced by
    Environments,   \* the same for the environment
    Flags,          \* and for the command line
    MaxReloads

VARIABLES
    defaults, file, environment, flags,
    status,         \* "new", "refused", "running"
    running,        \* collectorState.cfg
    started,        \* history: what it started with of what a reload leaves alone
    checked,        \* history: the mode the last accepted configuration was checked for
    reloads

vars == <<defaults, file, environment, flags, status, running, started, checked,
          reloads>>

-----------------------------------------------------------------------------
(* Loading.                                                                *)

Over(base, layer) ==
    [f \in Fields |-> IF f \in DOMAIN layer THEN layer[f] ELSE base[f]]

\* applyEnvOverrides: a value is trimmed, and a blank one is as good as none; an
\* API key turns authentication on.
Effective(env) ==
    LET given == {f \in DOMAIN env : f \in Texts => ~Blank(env[f])} IN
    [f \in given \cup (IF "auth.value" \in given THEN {"auth.enabled"} ELSE {}) |->
        CASE f \notin given -> TRUE
          [] f \in Texts -> Trim(env[f])
          [] OTHER -> env[f]]

\* The flags: an empty address and a negative number of attempts are not set.
FlagValues(set) ==
    LET given == {f \in DOMAIN set : /\ f = "collector.addr" => ~(Blank(set[f]) /\ ~set[f].padded)
                                     /\ f = "duckdb.retry_attempts" => set[f] >= 0}
    IN  [f \in given \cup (IF "auth.value" \in given THEN {"auth.enabled"} ELSE {}) |->
            IF f \in given THEN set[f] ELSE TRUE]

Loaded == Over(Over(Over(defaults, file), Effective(environment)), FlagValues(flags))
Parses == \A f \in DOMAIN environment \cap Numbers : environment[f] # Unparsable

\* A feature that is on.  The spool and the queue follow from the mode.
On(c, f) ==
    CASE f = "spool" -> c["mode"].word \in {"spool", "hybrid"}
      [] f = "queue" -> c["mode"].word \in {"queue", "hybrid"}
      [] OTHER -> c[SwitchOf[f]]

NumbersInRange(c) ==
    /\ \A n \in Positive : c[n] > 0
    /\ \A n \in NonNegative : c[n] >= 0
    /\ \A f \in DOMAIN PositiveIf :
          On(c, f) => (\A n \in PositiveIf[f] : c[n] > 0)
                      /\ (\A n \in NonNegativeIf[f] : c[n] >= 0)

TextsPresent(c) ==
    /\ \A t \in NonBlank : ~Blank(c[t])
    /\ \A f \in DOMAIN NonBlankIf : On(c, f) => \A t \in NonBlankIf[f] : ~Blank(c[t])
    /\ c["backend"].word = "redis" => ~Blank(c["dedupe.redis_addr"])

WordsKnown(c) ==
    /\ \A t \in Choice : c[t].word \in Choices[t]
    /\ c["cortex_bridge.enabled"] => c["bridge.mode"].word \in BridgeModes
    /\ c["duckdb.export.enabled"] => c["export.format"].word = "parquet"

\* At most one, and exactly one when the delivery is to fall back.
OneFallback(c) ==
    c["fallback.outputs"] <= 1 /\ (c["fallback.enabled"] => c["fallback.outputs"] = 1)

\* Mutant: nobody counts the fallbacks.
validateFileConfig_AnyFallback(c) ==
    NumbersInRange(c) /\ TextsPresent(c) /\ WordsKnown(c)

validateFileConfig(c) ==
    NumbersInRange(c) /\ TextsPresent(c) /\ WordsKnown(c) /\ OneFallback(c)

\* Lowered but not trimmed.
Untrimmed == {"mode", "policy", "backend", "export.format"}

runtimeConfigFromFile(c) ==
    [f \in Fields |->
        IF f \in (Choice \cup {"bridge.mode"}) \ Untrimmed THEN Trim(c[f]) ELSE c[f]]

-----------------------------------------------------------------------------
(* The program.                                                            *)

None == [f \in {} |-> 0]

Init ==
    /\ defaults \in Defaults /\ file \in Files /\ environment \in Environments
    /\ flags \in Flags
    /\ status = "new" /\ reloads = 0
    /\ running = None /\ started = None /\ checked = Text("")

\* What a reload leaves alone.
Kept == {"collector.addr", "duckdb.path", "duckdb.driver", "mode",
         "reliability.spool_dir", "reliability.spool_file", "kafka.brokers", "kafka.topic"}

Start ==
    /\ status = "new"
    /\ IF Parses /\ validateFileConfig(Loaded)
       THEN /\ status' = "running"
            /\ running' = runtimeConfigFromFile(Loaded)
            /\ started' = [f \in Kept |-> running'[f]]
            /\ checked' = running'["mode"]
       ELSE status' = "refused" /\ UNCHANGED <<running, started, checked>>
    /\ UNCHANGED <<defaults, file, environment, flags, reloads>>

Edit ==
    /\ status = "running" /\ reloads < MaxReloads
    /\ file' \in Edits /\ file' # file
    /\ UNCHANGED <<defaults, environment, flags, status, running, started, checked,
                   reloads>>

\* Mutant: the new mode is taken over, without what belongs to it.
reload_TakesMode ==
    /\ status = "running" /\ reloads < MaxReloads
    /\ reloads' = reloads + 1
    /\ LET next == runtimeConfigFromFile(Loaded) IN
       IF Parses /\ validateFileConfig(Loaded)
       THEN /\ running' = [f \in Fields |-> IF f \in Kept \ {"mode"} THEN running[f] ELSE next[f]]
            /\ checked' = next["mode"]
       ELSE UNCHANGED <<running, checked>>
    /\ UNCHANGED <<defaults, file, environment, flags, status, started>>

\* reloadCollectorState.
reload ==
    /\ status = "running" /\ reloads < MaxReloads
    /\ reloads' = reloads + 1
    /\ LET next == runtimeConfigFromFile(Loaded) IN
       IF Parses /\ validateFileConfig(Loaded)
       THEN /\ running' = [f \in Fields |-> IF f \in Kept THEN running[f] ELSE next[f]]
            /\ checked' = next["mode"]
       ELSE UNCHANGED <<running, checked>>
    /\ UNCHANGED <<defaults, file, environment, flags, status, started>>

Next == Start \/ Edit \/ reload

Spec == Init /\ [][Next]_vars

-----------------------------------------------------------------------------
TypeOK ==
    /\ status \in {"new", "refused", "running"} /\ reloads \in 0 .. MaxReloads
    /\ status = "running" => DOMAIN running = Fields

\* The mode is one of the four to the letter, so that the handlers, which
\* compare it, do what the operator asked for.
Understood(c) ==
    /\ \A t \in Choice : c[t] = Text(c[t].word)
    /\ WordsKnown(c)

\* A collector that runs has every setting its components rely on (the queue of
\* the spool, the window of the dedupe, the fallback of the policies), whichever
\* layer it came from and after any reload, accepted or not; and a reload never
\* moves it to another mode or other files.  Two things are excepted: words with
\* white space around them pass the check and mean nothing afterwards, and a
\* file with another mode is checked for that mode and not for the running one.
RunsWhatWasChecked ==
    status = "running" =>
        /\ \A f \in Kept : running[f] = started[f]
        /\ OneFallback(running) /\ TextsPresent(running)
        /\ (\A t \in Untrimmed : ~running[t].padded) => Understood(running)
        /\ running["mode"] = checked => NumbersInRange(running)

=============================================================================
