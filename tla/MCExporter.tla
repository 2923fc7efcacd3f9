---------------------------- MODULE MCExporter ----------------------------
EXTENDS ExporterInvariant, TLC

Reply(name, queues, rates) ==
  [cluster |-> name, node |-> name, queues |-> queues, rates |-> rates]

MCNames == {"a", "b"}

(* below the limit, above it (after the cluster was renamed), and a body   *)
(* without any key the exporter knows *)
MCReplies ==
  {Reply("a", 1, TRUE), Reply("b", 2, FALSE), Reply("", Missing, FALSE)}

(* one good body: what differs between scrapes is which requests fail *)
MCOneReply == {Reply("a", 1, TRUE)}

(* Scrapes are interchangeable; used by the runs without liveness only *)
Interchangeable == Permutations(Scrapes)

(* a broker that never has fewer than two queues *)
MCManyQueues == {Reply("a", 2, TRUE)}
============================================================================
