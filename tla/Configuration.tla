--------------------------- MODULE Configuration ---------------------------
(***************************************************************************)
(* How rabbitmq_exporter gets its settings (config.go) and what newExporter *)
(* makes of them: the config file if there is one, otherwise the           *)
(* environment over defaultConfig; then the enabled modules, without the   *)
(* metrics that are excluded.                                              *)
(*                                                                         *)
(* A value of the environment is what strings.Split(value, ",") gives: the *)
(* sequence of its items, <<>> if the variable is empty or not set.  A     *)
(* value that is not a list has one item.                                  *)
(***************************************************************************)
EXTENDS Integers, Sequences, FiniteSets, Functions

CONSTANTS
  Environments, \* sets of values the variables may have
  Files,        \* config files: Absent, Broken, or [Settings -> values]
  Absent, Broken,
  Matches,      \* Matches[p]: the names a regular expression p matches
  Numerals,     \* Numerals[t]: the number strconv.Atoi makes of a text
  Padded,       \* Padded[t]: a text t with space around it, without it
  Secrets,      \* Secrets[path]: what a secret file holds
  URLs,         \* texts in which http(s):// and a host are found
  Connections,  \* texts in which direct or loadbalancer is found
  Vectors       \* Vectors[m]: the keys of the metrics of module m

NoText == ""

(* The variable of every setting that has just one and is taken as it is   *)
VariableOf ==
  [RabbitURL |-> "RABBIT_URL", RabbitConnection |-> "RABBIT_CONNECTION",
   PublishPort |-> "PUBLISH_PORT", PublishAddr |-> "PUBLISH_ADDR",
   OutputFormat |-> "OUTPUT_FORMAT", CAFile |-> "CAFILE", CertFile |-> "CERTFILE",
   KeyFile |-> "KEYFILE", ExcludeMetrics |-> "EXCLUDE_METRICS",
   SkipExchanges |-> "SKIP_EXCHANGES", IncludeExchanges |-> "INCLUDE_EXCHANGES",
   SkipQueues |-> "SKIP_QUEUES", IncludeQueues |-> "INCLUDE_QUEUES",
   SkipVHost |-> "SKIP_VHOST", IncludeVHost |-> "INCLUDE_VHOST",
   AlivenessVhost |-> "ALIVENESS_VHOST", EnabledExporters |-> "RABBIT_EXPORTERS",
   RabbitCapabilities |-> "RABBIT_CAPABILITIES",
   Timeout |-> "RABBIT_TIMEOUT", MaxQueues |-> "MAX_QUEUES"]

Filters == {"SkipExchanges", "IncludeExchanges", "SkipQueues", "IncludeQueues",
            "SkipVHost", "IncludeVHost"}
Numbers == {"Timeout", "MaxQueues"}
Lists   == {"ExcludeMetrics", "EnabledExporters"}

(* Their own variables, and those that name a file to read them from *)
SecretsOf_Pasted ==
  [RabbitUsername |-> [value |-> "RABBIT_USER", file |-> "RABBIT_USER_FILE"],
   RabbitPassword |-> [value |-> "RABBIT_PASSWORD", file |-> "RABBIT_USER_FILE"]]
SecretsOf ==
  [RabbitUsername |-> [value |-> "RABBIT_USER", file |-> "RABBIT_USER_FILE"],
   RabbitPassword |-> [value |-> "RABBIT_PASSWORD", file |-> "RABBIT_PASSWORD_FILE"]]

(* Variables that belong together *)
Sources ==
  {{v} : v \in Range(VariableOf) \union {"SKIPVERIFY"}}
    \union {{"RABBIT_USER", "RABBIT_USER_FILE"}, {"RABBIT_PASSWORD", "RABBIT_PASSWORD_FILE"}}
Variables == UNION Sources

exporterFactories == DOMAIN Vectors \ {"overview"}
allRabbitCapabilities == {"no_sort", "bert"}

defaultConfig ==
  [RabbitURL |-> "http://127.0.0.1:15672", RabbitUsername |-> "guest",
   RabbitPassword |-> "guest", RabbitConnection |-> "direct", PublishPort |-> "9419",
   PublishAddr |-> NoText, OutputFormat |-> "TTY", CAFile |-> "ca.pem",
   CertFile |-> "client-cert.pem", KeyFile |-> "client-key.pem",
   InsecureSkipVerify |-> FALSE, ExcludeMetrics |-> <<>>,
   SkipExchanges |-> "^$", IncludeExchanges |-> ".*", SkipQueues |-> "^$",
   IncludeQueues |-> ".*", SkipVHost |-> "^$", IncludeVHost |-> ".*",
   RabbitCapabilities |-> allRabbitCapabilities, AlivenessVhost |-> "/",
   EnabledExporters |-> <<"exchange", "node", "overview", "queue">>,
   Timeout |-> 30, MaxQueues |-> 0]

Settings == DOMAIN defaultConfig

(* "^$" matches no name and ".*" every one; capabilities have no space     *)
ASSUME MatchesAssumption ==
  Matches["^$"] \subseteq {NoText} /\ UNION Range(Matches) \subseteq Matches[".*"]
ASSUME PaddedAssumption == allRabbitCapabilities \intersect DOMAIN Padded = {}

VARIABLES
  env,      \* env[v]: the environment of the process
  file,     \* the config file
  pc,       \* where main is
  config,   \* config
  metrics   \* metrics[m]: the keys left to module m, for the enabled ones

vars == <<env, file, pc, config, metrics>>

Init ==
  /\ env \in Environments
  /\ file \in Files
  /\ pc = "start"
  /\ config = <<>>
  /\ metrics = <<>>

TrimSpace(text) == IF text \in DOMAIN Padded THEN Padded[text] ELSE text

(* Items that are unknown are ignored *)
parseCapabilities_Untrimmed(raw) == Range(raw) \intersect allRabbitCapabilities
parseCapabilities(raw) == {TrimSpace(c) : c \in Range(raw)} \intersect allRabbitCapabilities
----------------------------------------------------------------------------
(* initConfig *)

(* os.Getenv: a variable that is not set is like an empty one *)
Given_FilterUnchecked(e, s) == s \in Filters \/ e[VariableOf[s]] # <<>>
Given(e, s) == e[VariableOf[s]] # <<>>
Text(value) == IF value = <<>> THEN NoText ELSE value[1]

(* The file has priority over the variable, even if it holds nothing *)
Secret(e, s) ==
  LET path == e[SecretsOf[s].file]
      text == IF path # <<>> THEN TrimSpace(Secrets[path[1]])
              ELSE Text(e[SecretsOf[s].value])
  IN  IF text # NoText THEN text ELSE defaultConfig[s]

Converted(s, value) ==
  CASE s = "RabbitCapabilities" -> parseCapabilities(value)
    [] s \in Lists   -> value
    [] s \in Numbers -> Numerals[Text(value)]
    [] OTHER         -> Text(value)

(* Setting s, read from the environment e *)
Setting(e, s) ==
  CASE s \in DOMAIN SecretsOf -> Secret(e, s)
    [] s = "InsecureSkipVerify" -> Text(e["SKIPVERIFY"]) \in {"true", "1", "TRUE"}
    [] OTHER ->
         IF Given(e, s) THEN Converted(s, e[VariableOf[s]]) ELSE defaultConfig[s]

(* Neither of the two expressions is anchored: MatchString looks for them  *)
(* anywhere in the text *)
EnvValid ==
  /\ Text(env["RABBIT_URL"]) \in URLs \union {NoText}
  /\ Text(env["RABBIT_CONNECTION"]) \in Connections \union {NoText}
  /\ \A s \in DOMAIN SecretsOf : Text(env[SecretsOf[s].file]) \in DOMAIN Secrets \union {NoText}
  /\ \A s \in Filters : Text(env[VariableOf[s]]) \in DOMAIN Matches
  /\ \A s \in Numbers \union {"PublishPort"} :
       Text(env[VariableOf[s]]) \in DOMAIN Numerals \union {NoText}

(* The error of the file was a *os.PathError *)
LoadEnv ==
  /\ pc = "start" /\ file = Absent /\ EnvValid
  /\ config' = [s \in Settings |-> Setting(env, s)]
  /\ pc' = "configured"
  /\ UNCHANGED <<env, file, metrics>>

EnvPanics ==
  /\ pc = "start" /\ file = Absent /\ ~EnvValid
  /\ pc' = "panic"
  /\ UNCHANGED <<env, file, config, metrics>>
----------------------------------------------------------------------------
(* initConfigFromFile: config was zeroed, so that nothing of defaultConfig *)
(* is left, and what the file leaves out stays "", 0, FALSE or empty       *)

FileValid ==
  /\ file # Broken
  /\ file.RabbitURL \in URLs \union {NoText}
  /\ \A s \in Filters : file[s] \in DOMAIN Matches

LoadFile ==
  /\ pc = "start" /\ file # Absent /\ FileValid
  /\ config' = [file EXCEPT !.RabbitCapabilities = parseCapabilities(@)]
  /\ pc' = "configured"
  /\ UNCHANGED <<env, file, metrics>>

FilePanics ==
  /\ pc = "start" /\ file # Absent /\ ~FileValid
  /\ pc' = "panic"
  /\ UNCHANGED <<env, file, config, metrics>>
----------------------------------------------------------------------------
(* newExporter: names it does not know are ignored, both of modules and of *)
(* metrics; the overview is always there                                   *)

Excluded == Range(config.ExcludeMetrics)

NewExporter ==
  /\ pc = "configured"
  /\ metrics' = [m \in (Range(config.EnabledExporters) \intersect exporterFactories)
                          \union {"overview"} |-> Vectors[m] \ Excluded]
  /\ pc' = "running"
  /\ UNCHANGED <<env, file, config>>

Next == LoadEnv \/ EnvPanics \/ LoadFile \/ FilePanics \/ NewExporter

Spec == Init /\ [][Next]_vars
----------------------------------------------------------------------------
Configured == pc \in {"configured", "running"}
FromEnv    == Configured /\ file = Absent

(* What the variables of one source would change if the others were unset  *)
Alone(source)   == [v \in Variables |-> IF v \in source THEN env[v] ELSE <<>>]
Affects(source) == {s \in Settings : Setting(Alone(source), s) # defaultConfig[s]}

(* Every variable, with its secret file, has one setting of its own, and   *)
(* what it does there does not depend on the others, whatever the order    *)
(* in which they are read (config.go:112-245, README.md:54-77). *)
OneSettingEach ==
  FromEnv =>
    /\ \A a, b \in Sources : Affects(a) \intersect Affects(b) # {} => a = b
    /\ \A a \in Sources : Cardinality(Affects(a)) <= 1
    /\ \A s \in Settings :
         \/ config[s] = defaultConfig[s]
         \/ \E a \in Sources : s \in Affects(a) /\ config[s] = Setting(Alone(a), s)

(* Whoever sets no filter loses nothing: a queue, exchange or vhost with a *)
(* name is left out only because of a variable that is set, and an empty   *)
(* one counts as not set although the empty expression matches every name  *)
(* (config.go:29-34, :194-216). *)
DroppedForAReason ==
  FromEnv =>
    \A f \in {<<"SkipQueues", "IncludeQueues">>, <<"SkipExchanges", "IncludeExchanges">>,
              <<"SkipVHost", "IncludeVHost">>} :
      \A name \in (UNION Range(Matches)) \ {NoText} :
        \/ name \in Matches[config[f[2]]] \ Matches[config[f[1]]]
        \/ \E i \in {1, 2} : env[VariableOf[f[i]]] # <<>>

(* A capability is used if and only if the list in force names it, with or *)
(* without space around the commas (config.go:247-258). *)
CapabilitiesInForce ==
  FromEnv /\ env["RABBIT_CAPABILITIES"] # <<>> =>
    \A c \in allRabbitCapabilities :
      c \in config.RabbitCapabilities <=>
        \E item \in Range(env["RABBIT_CAPABILITIES"]) :
          item = c \/ (item \in DOMAIN Padded /\ Padded[item] = c)

(* README.md:74, EXCLUDE_METRICS: "Metric names to exclude from export.    *)
(* comma-seperated. e.g. "recv_oct, recv_cnt"".                            *)
ExcludedAsDocumented ==
  pc = "running" /\ FromEnv =>
    \A item \in Range(env["EXCLUDE_METRICS"]) :
      \A m \in DOMAIN metrics : TrimSpace(item) \notin metrics[m]
============================================================================
