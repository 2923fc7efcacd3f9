-------------------------- MODULE MCConfiguration --------------------------
EXTENDS Configuration, TLC

MCMatches ==
  ("" :> {"", "rpc_1", "orders"}) @@ ("^$" :> {""}) @@ (".*" :> {"", "rpc_1", "orders"})
    @@ ("^rpc_" :> {"rpc_1"})

MCNumerals == ("0" :> 0) @@ ("-1" :> -1) @@ ("5000" :> 5000)

MCPadded == (" bert" :> "bert") @@ (" recv_cnt" :> "recv_cnt") @@ (" node" :> "node")
              @@ ("scott\n" :> "scott") @@ ("\n" :> "")

MCSecrets == ("/run/secret" :> "scott\n") @@ ("/run/empty" :> "\n")

MCVectors ==
  [overview |-> {"object_totals.queues"}, connections |-> {"recv_oct", "recv_cnt"},
   exchange |-> {"message_stats.ack"}, node |-> {"uptime"},
   queue |-> {"memory", "message_stats.ack"}]

MCURLs == {"https://broker:15671", "xhttp://broker"}
MCConnections == {"direct", "loadbalancer", "directly"}

(* What may be given to each variable, right or wrong *)
Given1(v) ==
  CASE v = "RABBIT_URL" -> {<<"https://broker:15671">>, <<"xhttp://broker">>, <<"broker">>}
    [] v = "RABBIT_CONNECTION" -> {<<"loadbalancer">>, <<"directly">>, <<"lb">>}
    [] v \in {"RABBIT_USER_FILE", "RABBIT_PASSWORD_FILE"} ->
         {<<"/run/secret">>, <<"/run/empty">>, <<"/none">>}
    [] v \in {VariableOf[s] : s \in Filters} -> {<<"^rpc_">>, <<"(">>}
    [] v \in {"RABBIT_TIMEOUT", "MAX_QUEUES", "PUBLISH_PORT"} -> {<<"5000">>, <<"-1">>, <<"many">>}
    [] v = "SKIPVERIFY" -> {<<"1">>, <<"yes">>}
    [] v = "RABBIT_CAPABILITIES" -> {<<"no_sort", " bert">>, <<" bert">>, <<"none">>}
    [] v = "RABBIT_EXPORTERS" -> {<<"connections", "queue", "unknown">>, <<"exchange", " node">>}
    [] v = "EXCLUDE_METRICS" ->
         {<<"recv_oct", " recv_cnt">>, <<"message_stats.ack", "object_totals.queues">>}
    [] OTHER -> {<<"some text">>}

Unset == [v \in Variables |-> <<>>]

(* Any two variables, with any of these values *)
MCEnvironments ==
  UNION {{[Unset EXCEPT ![v] = x, ![w] = y] : x \in Given1(v) \union {<<>>}, y \in Given1(w)} :
           v, w \in Variables}

(* A complete file, one that gives nothing, and one with a bad expression *)
Full == [defaultConfig EXCEPT !.RabbitCapabilities = <<"no_sort", " bert">>,
                              !.ExcludeMetrics = <<"uptime", "memory">>]
Empty ==
  [s \in Settings |->
     CASE s \in Numbers -> 0
       [] s \in Lists \union {"RabbitCapabilities"} -> <<>>
       [] s = "InsecureSkipVerify" -> FALSE
       [] OTHER -> ""]

MCFiles == {Absent, Broken, Full, Empty, [Full EXCEPT !.SkipVHost = "("]}
============================================================================
