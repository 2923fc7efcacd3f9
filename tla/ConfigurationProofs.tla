------------------------ MODULE ConfigurationProofs ------------------------
(***************************************************************************)
(* Each variable of the environment has one setting of its own, and what   *)
(* the exporter does with its settings, for every environment and file.    *)
(***************************************************************************)
EXTENDS Configuration, FiniteSetTheorems, TLAPS

(* The variables that a setting is read from *)
SourceOf(s) ==
  CASE s \in DOMAIN SecretsOf -> {SecretsOf[s].value, SecretsOf[s].file}
    [] s = "InsecureSkipVerify" -> {"SKIPVERIFY"}
    [] OTHER -> {VariableOf[s]}

(* A configuration that did not come from a file is what the environment   *)
(* gives, for as long as the process runs. *)
IInv == FromEnv => config = [s \in Settings |-> Setting(env, s)]

(* The properties speak of the settings, the proofs of the environment. *)
LEMMA SettingsInForce == Spec => []IInv
<1>1. Init => IInv
  BY DEF Init, IInv, FromEnv, Configured
<1>2. ASSUME IInv, [Next]_vars PROVE IInv'
  <2>1. CASE LoadEnv
    BY <2>1 DEF LoadEnv, IInv, FromEnv, Configured, Setting, Secret, Given, Converted
  <2>2. CASE EnvPanics \/ FilePanics
    BY <2>2 DEF EnvPanics, FilePanics, IInv, FromEnv, Configured
  <2>3. CASE LoadFile
    BY <2>3 DEF LoadFile, IInv, FromEnv, Configured
  <2>4. CASE NewExporter \/ UNCHANGED vars
    <3>1. UNCHANGED <<env, file, config>> /\ (pc' \in {"configured", "running"} => Configured)
      BY <2>4 DEF NewExporter, vars, Configured
    <3> QED
      BY <1>2, <3>1 DEF IInv, FromEnv, Configured, Setting, Secret, Given, Converted
  <2> QED
    BY <1>2, <2>1, <2>2, <2>3, <2>4 DEF Next
<1> QED
  BY <1>1, <1>2, PTL DEF Spec
----------------------------------------------------------------------------
(* A setting depends on its own source only. *)

(* A secret, the flag, or a setting with a variable of its own. *)
LEMMA SettingKinds ==
  \A s \in Settings :
    \/ s \in {"RabbitUsername", "RabbitPassword"}
    \/ s = "InsecureSkipVerify"
    \/ s \in DOMAIN VariableOf /\ s \notin DOMAIN SecretsOf \union {"InsecureSkipVerify"}
BY DEF Settings, defaultConfig, VariableOf, SecretsOf

(* The sources of the secrets and of the flag. *)
LEMMA SecretNames ==
  /\ DOMAIN SecretsOf = {"RabbitUsername", "RabbitPassword"}
  /\ SourceOf("RabbitUsername") = {"RABBIT_USER", "RABBIT_USER_FILE"}
  /\ SourceOf("RabbitPassword") = {"RABBIT_PASSWORD", "RABBIT_PASSWORD_FILE"}
  /\ SourceOf("InsecureSkipVerify") = {"SKIPVERIFY"}
BY DEF SecretsOf, SourceOf

(* Both variables of a secret are in its source. *)
LEMMA SecretSource ==
  ASSUME NEW s \in DOMAIN SecretsOf
  PROVE  SecretsOf[s].value \in SourceOf(s) /\ SecretsOf[s].file \in SourceOf(s)
<1>1. s # "InsecureSkipVerify"
  BY SecretNames
<1>2. SourceOf(s) = {SecretsOf[s].value, SecretsOf[s].file}
  BY <1>1 DEF SourceOf
<1> QED
  BY <1>2

(* The source of a setting is one of Sources. *)
LEMMA SourceIsSource ==
  ASSUME NEW s \in Settings
  PROVE  SourceOf(s) \in Sources
<1>1. CASE s \in {"RabbitUsername", "RabbitPassword"}
  BY <1>1, SecretNames DEF Sources
<1>2. CASE s = "InsecureSkipVerify"
  BY <1>2, SecretNames DEF Sources
<1>3. CASE s \in DOMAIN VariableOf /\ s \notin DOMAIN SecretsOf \union {"InsecureSkipVerify"}
  <2>1. SourceOf(s) = {VariableOf[s]}
    BY <1>3 DEF SourceOf
  <2>2. VariableOf[s] \in Range(VariableOf)
    BY <1>3 DEF Range
  <2> QED
    BY <2>1, <2>2 DEF Sources
<1> QED
  BY <1>1, <1>2, <1>3, SettingKinds

(* No variable is in two sources. *)
LEMMA SourcesApart ==
  ASSUME NEW a \in Sources, NEW b \in Sources, a # b
  PROVE  a \intersect b = {}
<1> DEFINE Own == Range(VariableOf) \union {"SKIPVERIFY"}
           User == {"RABBIT_USER", "RABBIT_USER_FILE"}
           Pass == {"RABBIT_PASSWORD", "RABBIT_PASSWORD_FILE"}
<1>1. \A v \in Own : v \notin User \union Pass
  BY DEF Range, VariableOf
<1>2. User \intersect Pass = {}
  OBVIOUS
<1>3. ASSUME NEW c \in Sources PROVE (\E v \in Own : c = {v}) \/ c = User \/ c = Pass
  BY DEF Sources
<1> HIDE DEF Own, User, Pass
<1>4. (\E v \in Own : a = {v}) \/ a = User \/ a = Pass
  BY <1>3
<1>5. (\E v \in Own : b = {v}) \/ b = User \/ b = Pass
  BY <1>3
<1> QED
  BY <1>1, <1>2, <1>4, <1>5

(* No two settings have one source. *)
LEMMA OwnSource ==
  ASSUME NEW s \in Settings, NEW t \in Settings, SourceOf(s) = SourceOf(t)
  PROVE  s = t
<1> DEFINE Own(x) == x \in DOMAIN VariableOf /\ x \notin DOMAIN SecretsOf \union {"InsecureSkipVerify"}
<1>1. \A x, y \in DOMAIN VariableOf : VariableOf[x] = VariableOf[y] => x = y
  BY DEF VariableOf
<1>2. \A x \in DOMAIN VariableOf :
        VariableOf[x] \notin {"SKIPVERIFY", "RABBIT_USER", "RABBIT_PASSWORD"}
  BY DEF VariableOf
<1>3. \A x : Own(x) => SourceOf(x) = {VariableOf[x]}
  BY DEF SourceOf
<1>4. \A x \in Settings : x = "RabbitUsername" \/ x = "RabbitPassword"
                           \/ x = "InsecureSkipVerify" \/ Own(x)
  BY SettingKinds
<1>5. Own(s) /\ Own(t) => s = t
  BY <1>1, <1>3
<1>6. ASSUME NEW x, Own(x)
      PROVE  /\ SourceOf(x) # SourceOf("RabbitUsername")
             /\ SourceOf(x) # SourceOf("RabbitPassword")
             /\ SourceOf(x) # SourceOf("InsecureSkipVerify")
  BY <1>2, <1>3, <1>6, SecretNames
<1>7. /\ SourceOf("RabbitUsername") # SourceOf("RabbitPassword")
      /\ SourceOf("RabbitUsername") # SourceOf("InsecureSkipVerify")
      /\ SourceOf("RabbitPassword") # SourceOf("InsecureSkipVerify")
  BY SecretNames
<1> HIDE DEF Own
<1> QED
  BY <1>4, <1>5, <1>6, <1>7

(* Where each kind of setting comes from. *)
LEMMA SettingIs ==
  ASSUME NEW e, NEW s
  PROVE  /\ s \in DOMAIN SecretsOf => Setting(e, s) = Secret(e, s)
         /\ s = "InsecureSkipVerify" =>
              Setting(e, s) = (Text(e["SKIPVERIFY"]) \in {"true", "1", "TRUE"})
         /\ s # "InsecureSkipVerify" /\ s \notin DOMAIN SecretsOf =>
              Setting(e, s) = IF Given(e, s) THEN Converted(s, e[VariableOf[s]])
                              ELSE defaultConfig[s]
<1>1. "InsecureSkipVerify" \notin DOMAIN SecretsOf
  BY SecretNames
<1>2. ASSUME s \in DOMAIN SecretsOf, s # "InsecureSkipVerify" PROVE Setting(e, s) = Secret(e, s)
  BY <1>2 DEF Setting
<1>3. ASSUME s = "InsecureSkipVerify", s \notin DOMAIN SecretsOf
      PROVE  Setting(e, s) = (Text(e["SKIPVERIFY"]) \in {"true", "1", "TRUE"})
  BY <1>3, Zenon DEF Setting
<1>4. ASSUME s # "InsecureSkipVerify", s \notin DOMAIN SecretsOf
      PROVE  Setting(e, s) = IF Given(e, s) THEN Converted(s, e[VariableOf[s]])
                             ELSE defaultConfig[s]
  BY <1>4 DEF Setting
<1> QED
  BY <1>1, <1>2, <1>3, <1>4, Zenon

(* Environments that agree on the source give the setting one value ... *)
LEMMA SameSource ==
  ASSUME NEW s \in Settings, NEW e, NEW g, \A v \in SourceOf(s) : e[v] = g[v]
  PROVE  Setting(e, s) = Setting(g, s)
<1>1. CASE s \in DOMAIN SecretsOf
  <2>1. e[SecretsOf[s].file] = g[SecretsOf[s].file] /\ e[SecretsOf[s].value] = g[SecretsOf[s].value]
    BY <1>1, SecretSource
  <2>2. Secret(e, s) = Secret(g, s)
    BY <2>1, Zenon DEF Secret
  <2> QED
    BY <1>1, <2>2, SettingIs
<1>2. CASE s = "InsecureSkipVerify"
  <2>1. e["SKIPVERIFY"] = g["SKIPVERIFY"]
    BY <1>2, SecretNames
  <2>2. s \notin DOMAIN SecretsOf
    BY <1>2, SecretNames
  <2> QED
    BY <1>2, <2>1, <2>2, SettingIs, Zenon
<1>3. CASE s \notin DOMAIN SecretsOf /\ s # "InsecureSkipVerify"
  <2>1. e[VariableOf[s]] = g[VariableOf[s]]
    BY <1>3 DEF SourceOf
  <2> QED
    BY <1>3, <2>1, SettingIs DEF Given
<1> QED
  BY <1>1, <1>2, <1>3

(* ... and one in which nothing of the source is set leaves the default.   *)
LEMMA UnsetSource ==
  ASSUME NEW s \in Settings, NEW e, \A v \in SourceOf(s) : e[v] = <<>>
  PROVE  Setting(e, s) = defaultConfig[s]
<1>1. CASE s \in DOMAIN SecretsOf
  <2>1. e[SecretsOf[s].file] = <<>> /\ e[SecretsOf[s].value] = <<>>
    BY <1>1, SecretSource
  <2>2. Secret(e, s) = defaultConfig[s]
    BY <2>1 DEF Secret, Text
  <2> QED
    BY <1>1, <2>2, SettingIs
<1>2. CASE s = "InsecureSkipVerify"
  <2>1. e["SKIPVERIFY"] = <<>>
    BY <1>2, SecretNames
  <2>2. s \notin DOMAIN SecretsOf
    BY <1>2, SecretNames
  <2>3. Text(e["SKIPVERIFY"]) = NoText
    BY <2>1 DEF Text
  <2>4. NoText \notin {"true", "1", "TRUE"}
    BY Zenon DEF NoText
  <2>5. defaultConfig[s] = FALSE
    BY <1>2 DEF defaultConfig
  <2>6. Text(e["SKIPVERIFY"]) \notin {"true", "1", "TRUE"}
    BY <2>3, <2>4, Zenon
  <2>7. Setting(e, s) = FALSE
    BY <1>2, <2>2, <2>6 DEF Setting
  <2> QED
    BY <2>5, <2>7
<1>3. CASE s \notin DOMAIN SecretsOf /\ s # "InsecureSkipVerify"
  <2>1. e[VariableOf[s]] = <<>>
    BY <1>3 DEF SourceOf
  <2> QED
    BY <1>3, <2>1, SettingIs DEF Given
<1> QED
  BY <1>1, <1>2, <1>3

(* What one source changes is its own setting. *)
LEMMA AffectsOwn ==
  ASSUME NEW a \in Sources, NEW s \in Affects(a)
  PROVE  s \in Settings /\ a = SourceOf(s)
<1>1. s \in Settings /\ Setting(Alone(a), s) # defaultConfig[s]
  BY DEF Affects
<1>2. ASSUME a # SourceOf(s) PROVE FALSE
  <2>1. a \intersect SourceOf(s) = {}
    BY <1>1, <1>2, SourceIsSource, SourcesApart
  <2>2. \A v \in SourceOf(s) : v \in Variables
    BY <1>1, SourceIsSource DEF Variables
  <2>3. \A v \in SourceOf(s) : Alone(a)[v] = <<>>
    BY <2>1, <2>2 DEF Alone
  <2> QED
    BY <1>1, <2>3, UnsetSource
<1> QED
  BY <1>1, <1>2

(* Its own source alone gives a setting the value it has. *)
LEMMA AloneOwn ==
  ASSUME NEW s \in Settings
  PROVE  Setting(Alone(SourceOf(s)), s) = Setting(env, s)
<1>1. \A v \in SourceOf(s) : v \in Variables
  BY SourceIsSource DEF Variables
<1>2. \A v \in SourceOf(s) : Alone(SourceOf(s))[v] = env[v]
  BY <1>1 DEF Alone
<1> QED
  BY <1>2, SameSource

(* Every variable, with its secret file, has one setting of its own.       *)
THEOREM OneEach == Spec => []OneSettingEach
<1>1. ASSUME IInv, FromEnv PROVE OneSettingEach
  <2>1. ASSUME NEW a \in Sources, NEW b \in Sources, Affects(a) \intersect Affects(b) # {}
        PROVE  a = b
    BY <2>1, AffectsOwn
  <2>2. ASSUME NEW a \in Sources PROVE Cardinality(Affects(a)) <= 1
    <3>1. \A s, t \in Affects(a) : s = t
      BY AffectsOwn, OwnSource
    <3>2. CASE Affects(a) = {}
      BY <3>2, FS_EmptySet
    <3>3. CASE Affects(a) # {}
      <4>1. \E s : Affects(a) = {s}
        BY <3>1, <3>3
      <4>2. Cardinality(Affects(a)) = 1
        BY <4>1, FS_Singleton
      <4> QED
        BY <4>2
    <3> QED
      BY <3>2, <3>3
  <2>3. ASSUME NEW s \in Settings, config[s] # defaultConfig[s]
        PROVE  \E a \in Sources : s \in Affects(a) /\ config[s] = Setting(Alone(a), s)
    <3>1. config[s] = Setting(env, s)
      BY <1>1 DEF IInv
    <3>2. config[s] = Setting(Alone(SourceOf(s)), s)
      BY <3>1, AloneOwn
    <3>3. s \in Affects(SourceOf(s))
      BY <2>3, <3>2 DEF Affects
    <3> QED
      BY <3>2, <3>3, SourceIsSource
  <2> QED
    BY <2>1, <2>2, <2>3 DEF OneSettingEach
<1>2. IInv => OneSettingEach
  BY <1>1 DEF OneSettingEach
<1> QED
  BY <1>2, SettingsInForce, PTL

(* Whoever sets no filter loses nothing.                                   *)
THEOREM NothingDropped == Spec => []DroppedForAReason
<1>1. ASSUME IInv, FromEnv, NEW s \in Filters, env[VariableOf[s]] = <<>>
      PROVE  config[s] = defaultConfig[s]
  <2>1. s \in Settings /\ s \notin DOMAIN SecretsOf /\ s # "InsecureSkipVerify"
    BY DEF Filters, Settings, defaultConfig, SecretsOf
  <2>2. Setting(env, s) = defaultConfig[s]
    BY <1>1, <2>1, SettingIs DEF Given
  <2> QED
    BY <1>1, <2>1, <2>2 DEF IInv
<1>2. /\ \A s \in {"SkipQueues", "SkipExchanges", "SkipVHost"} : s \in Filters /\ defaultConfig[s] = "^$"
      /\ \A s \in {"IncludeQueues", "IncludeExchanges", "IncludeVHost"} :
           s \in Filters /\ defaultConfig[s] = ".*"
  BY DEF Filters, defaultConfig
<1>3. ASSUME IInv, FromEnv,
             NEW skip \in {"SkipQueues", "SkipExchanges", "SkipVHost"},
             NEW include \in {"IncludeQueues", "IncludeExchanges", "IncludeVHost"},
             env[VariableOf[skip]] = <<>>, env[VariableOf[include]] = <<>>,
             NEW name, name \in UNION Range(Matches), name # NoText
      PROVE  name \in Matches[config[include]] \ Matches[config[skip]]
  <2>1. config[skip] = "^$" /\ config[include] = ".*"
    BY <1>1, <1>2, <1>3
  <2>2. name \in Matches[".*"] /\ name \notin Matches["^$"]
    BY <1>3, MatchesAssumption, Zenon
  <2> QED
    BY <2>1, <2>2, Zenon
<1>4. ASSUME IInv, FromEnv,
             NEW f \in {<<"SkipQueues", "IncludeQueues">>, <<"SkipExchanges", "IncludeExchanges">>,
                        <<"SkipVHost", "IncludeVHost">>},
             NEW name, name \in UNION Range(Matches), name # NoText
      PROVE  \/ name \in Matches[config[f[2]]] \ Matches[config[f[1]]]
             \/ \E i \in {1, 2} : env[VariableOf[f[i]]] # <<>>
  <2>1. /\ f[1] \in {"SkipQueues", "SkipExchanges", "SkipVHost"}
        /\ f[2] \in {"IncludeQueues", "IncludeExchanges", "IncludeVHost"}
    OBVIOUS
  <2>2. CASE env[VariableOf[f[1]]] = <<>> /\ env[VariableOf[f[2]]] = <<>>
    <3>1. name \in Matches[config[f[2]]] \ Matches[config[f[1]]]
      BY <1>3, <1>4, <2>1, <2>2, Zenon
    <3> QED
      BY <3>1, Zenon
  <2> QED
    BY <2>2
<1>5. IInv => DroppedForAReason
  BY <1>4, Zenon DEF DroppedForAReason
<1> QED
  BY <1>5, SettingsInForce, PTL

(* The list of capabilities is parsed. *)
LEMMA CapabilitiesConverted ==
  \A value : Converted("RabbitCapabilities", value) = parseCapabilities(value)
<1>1. "RabbitCapabilities" \notin Lists \union Numbers
  BY DEF Lists, Numbers
<1> QED
  BY <1>1 DEF Converted

(* A capability is used if and only if the list in force names it.         *)
THEOREM Capabilities == Spec => []CapabilitiesInForce
<1> DEFINE raw == env["RABBIT_CAPABILITIES"]
<1>1. ASSUME IInv, FromEnv, raw # <<>> PROVE config.RabbitCapabilities = parseCapabilities(raw)
  <2>1. "RabbitCapabilities" \in Settings /\ VariableOf["RabbitCapabilities"] = "RABBIT_CAPABILITIES"
    BY DEF Settings, defaultConfig, VariableOf
  <2>2. "RabbitCapabilities" \notin DOMAIN SecretsOf
    BY SecretNames
  <2>3. Setting(env, "RabbitCapabilities") = parseCapabilities(raw)
    BY <1>1, <2>1, <2>2, SettingIs, CapabilitiesConverted DEF Given
  <2> QED
    BY <1>1, <2>1, <2>3 DEF IInv
<1>2. ASSUME NEW c \in allRabbitCapabilities
      PROVE  c \in parseCapabilities(raw) <=>
               \E item \in Range(raw) : item = c \/ (item \in DOMAIN Padded /\ Padded[item] = c)
  <2>1. c \notin DOMAIN Padded
    BY PaddedAssumption
  <2>2. \A item : TrimSpace(item) = c <=> item = c \/ (item \in DOMAIN Padded /\ Padded[item] = c)
    BY <2>1 DEF TrimSpace
  <2> QED
    BY <2>2 DEF parseCapabilities
<1>3. IInv => CapabilitiesInForce
  BY <1>1, <1>2 DEF CapabilitiesInForce
<1> QED
  BY <1>3, SettingsInForce, PTL
=============================================================================
