----------------------------- MODULE Exporter -----------------------------
(***************************************************************************)
(* The Prometheus collector of rabbitmq_exporter (exporter.go) under       *)
(* concurrent HTTP requests.  Every GET /metrics runs exporter.Collect in  *)
(* a goroutine of its own and every GET /health runs LastScrapeOK; both    *)
(* take the one mutex.  The lock holder asks the broker for the overview   *)
(* first, then for each enabled module, and keeps what it learned of the   *)
(* node in nodeInfo, which outlives the scrape.                            *)
(*                                                                         *)
(* Gauges are shared objects: Collect sends POINTERS to them through the   *)
(* channel of the scrape, and the registry reads their values later,       *)
(* possibly after the mutex is released and the next scrape has begun.     *)
(***************************************************************************)
EXTENDS Integers, FiniteSets

CONSTANTS Scrapes,          \* GET /metrics requests
          Probes,           \* GET /health requests
          EnabledExporters, \* config.EnabledExporters
          MaxQueues,        \* config.MaxQueues, no limit unless positive
          Names,            \* names of clusters and nodes, "" not among them
          OverviewReplies,  \* bodies the broker may send for /api/overview
          NoRequest         \* "nobody holds the mutex"

Missing == -1               \* a number the reply does not contain

Requests == Scrapes \union Probes

(* What RegisterExporter is called with, by the init of each exporter_*.go *)
exporterFactories == {"aliveness", "connections", "exchange", "federation",
                      "memory", "node", "queue", "shovel"}

Modules    == EnabledExporters \intersect exporterFactories
Collectors == Modules \union {"overview"}

(* Gauge vectors of a module are emptied before its request, or after it,  *)
(* and the exchange module has none: it sends constant metrics.            *)
ResetFirst_NotQueue == {"federation", "memory", "shovel"}
ResetFirst == {"federation", "memory", "queue", "shovel"}
ResetOnReply_NotConnections == {"aliveness", "node"}
ResetOnReply == {"aliveness", "connections", "node"}
ConstMetrics == {"exchange"}
(* Modules whose metrics have a cluster label *)
ClusterLabelled == exporterFactories \ {"aliveness"}

ASSUME RequestsAssumption ==
  /\ Scrapes \intersect Probes = {}
  /\ NoRequest \notin Requests

ASSUME ConfigAssumption == MaxQueues \in Int

ASSUME RepliesAssumption ==
  /\ "" \notin Names
  /\ OverviewReplies \subseteq
       [cluster : Names \union {""}, node : Names \union {""},
        queues : Nat \union {Missing}, rates : BOOLEAN]

VARIABLES
  mutex,        \* exporter.mutex: its holder, or NoRequest
  pc,           \* where each request is
  nodeInfo,     \* overviewExporter.nodeInfo
  lastScrapeOK, \* exporter.lastScrapeOK
  gauges,       \* the gauge objects; registered = still in its GaugeVec
  chan,         \* chan[r]: references sent to the registry and not yet read
  job,          \* job[r]: the locals of Collect and collectWithDuration
  response,     \* response[r]: samples written to the answer of scrape r
  health        \* health[p]: the answer of probe p

vars == <<mutex, pc, nodeInfo, lastScrapeOK, gauges, chan, job, response, health>>

----------------------------------------------------------------------------
(* Metric objects (client_golang): a child of a GaugeVec is found by its   *)
(* labels, and lives on after it left the vector for whoever points to it. *)

GlobalVecs == {"up", "module_up", "duration"}
Labels     == Names \union {""}
Series     == [vec : GlobalVecs \union exporterFactories \union {"overview"},
               cluster : Labels, node : Labels,
               module : exporterFactories \union {"overview", ""}]
Values     == {0, 1} \union Scrapes   \* the data of a module: who fetched it
Gauges     == [series : Series, born : Scrapes, value : Values, registered : BOOLEAN]
References == [series : Series, born : Scrapes]
Samples    == [series : Series, value : Values]

Up(info) ==
  [vec |-> "up", cluster |-> info.cluster, node |-> info.node, module |-> ""]
ModuleUp(info, m) ==
  [vec |-> "module_up", cluster |-> info.cluster, node |-> info.node, module |-> m]
Duration(info, m) ==
  [vec |-> "duration", cluster |-> info.cluster, node |-> info.node, module |-> m]
Data(m, cluster) ==
  [vec |-> m, cluster |-> cluster, node |-> "", module |-> ""]

Ref(g) == [series |-> g.series, born |-> g.born]
RefsOf(gs, vecs) ==
  {Ref(g) : g \in {x \in gs : x.registered /\ x.series.vec \in vecs}}

Unregister(gs, dropped) ==
  {[g EXCEPT !.registered = @ /\ g \notin dropped] : g \in gs}

(* GaugeVec.Reset of the vectors `vecs` *)
Reset(gs, vecs) == Unregister(gs, {g \in gs : g.series.vec \in vecs})

(* GaugeVec.DeleteLabelValues *)
Delete(gs, series) == Unregister(gs, {g \in gs : g.series = series})

(* GaugeVec.WithLabelValues(series).Set(v): the registered child if there  *)
(* is one, else a new one *)
SetGauge(gs, r, series, v) ==
  LET found == {g \in gs : g.registered /\ g.series = series}
      new   == [series |-> series, born |-> r, value |-> v, registered |-> TRUE]
  IN  IF found = {} THEN gs \union {new}
      ELSE (gs \ found) \union {[g EXCEPT !.value = v] : g \in found}

(* prometheus.MustNewConstMetric: nobody else can reach it *)
ConstMetric(r, series, v) ==
  [series |-> series, born |-> r, value |-> v, registered |-> FALSE]
----------------------------------------------------------------------------
NoInfo == [cluster |-> "", node |-> "", totalQueues |-> 0]
Named(info) == info.cluster # "" /\ info.node # ""

(* GetString leaves "" and the map lookup leaves 0 for what the body lacks *)
InfoFrom_Raw(body) ==
  [cluster |-> body.cluster, node |-> body.node, totalQueues |-> body.queues]
InfoFrom(body) ==
  [cluster |-> body.cluster, node |-> body.node,
   totalQueues |-> IF body.queues = Missing THEN 0 ELSE body.queues]

OverLimit(total) == MaxQueues > 0 /\ total > MaxQueues

(* `reported` is not in the code: the queue total this scrape was told *)
NewJob == [todo |-> Collectors, current |-> "", ctx |-> NoInfo, allUp |-> TRUE,
           reported |-> Missing]

Init ==
  /\ mutex = NoRequest
  /\ pc = [q \in Requests |-> "new"]
  /\ nodeInfo = NoInfo
  /\ lastScrapeOK = TRUE
  /\ gauges = {}
  /\ chan = [r \in Scrapes |-> {}]
  /\ job = [r \in Scrapes |-> NewJob]
  /\ response = [r \in Scrapes |-> {}]
  /\ health = [p \in Probes |-> "none"]

Goto(q, place) == pc' = [pc EXCEPT ![q] = place]

(* A request reaches its handler and asks for the mutex *)
Arrive(q) ==
  /\ pc[q] = "new"
  /\ Goto(q, "locking")
  /\ UNCHANGED <<mutex, nodeInfo, lastScrapeOK, gauges, chan, job, response, health>>

MutexFree_Ignored == TRUE
MutexFree == mutex = NoRequest

(* The deferred Unlock *)
Released_NotByProbes(q) == IF q \in Probes THEN q ELSE NoRequest
Released(q) == NoRequest

(* The vectors Collect empties before it starts *)
Emptied_OnlyUp == {"up"}
Emptied == GlobalVecs

(* Collect takes the mutex and empties the three global vectors *)
LockCollect(r) ==
  /\ pc[r] = "locking"
  /\ MutexFree
  /\ mutex' = r
  /\ gauges' = Reset(gauges, Emptied)
  /\ job' = [job EXCEPT ![r] = NewJob]
  /\ Goto(r, "collecting")
  /\ UNCHANGED <<nodeInfo, lastScrapeOK, chan, response, health>>

NextModules_AnyOrder(todo) == todo
NextModules(todo) == IF "overview" \in todo THEN {"overview"} ELSE todo

(* collectWithDuration up to the request: the overview first, then the     *)
(* modules in any order (map iteration).  The context is taken before the  *)
(* module runs, so it holds the last known values.                         *)
BeginModule(r, m) ==
  /\ pc[r] = "collecting"
  /\ m \in NextModules(job[r].todo)
  /\ job' = [job EXCEPT ![r].todo = @ \ {m}, ![r].current = m, ![r].ctx = nodeInfo]
  /\ gauges' = IF m \in ResetFirst THEN Reset(gauges, {m}) ELSE gauges
  /\ Goto(r, "requesting")
  /\ UNCHANGED <<mutex, nodeInfo, lastScrapeOK, chan, response, health>>

(* collectWithDuration after the module returned, with current labels *)
Reported(gs, r, info, m, up) ==
  LET timed  == IF Named(info) THEN SetGauge(gs, r, Duration(info, m), 1) ELSE gs
      marked == SetGauge(timed, r, ModuleUp(info, m), up)
  IN  IF Named(info) THEN Delete(marked, ModuleUp(NoInfo, m)) ELSE marked

EndModule(r, gs, info, up) ==
  /\ gauges' = Reported(gs, r, info, job[r].current, up)
  /\ Goto(r, "collecting")
  /\ UNCHANGED <<mutex, lastScrapeOK, response, health>>

Send(r, refs) == chan' = [chan EXCEPT ![r] = @ \union refs]

(* exporterOverview.Collect: gauges of absent keys are neither reset nor   *)
(* set, and all of them are sent *)
SetOverview(gs, r, body) ==
  IF body.rates
  THEN SetGauge(Reset(gs, {"overview"}), r, Data("overview", body.cluster), r)
  ELSE gs

OverviewReply(r, body) ==
  /\ pc[r] = "requesting"
  /\ job[r].current = "overview"
  /\ nodeInfo' = InfoFrom(body)
  /\ job' = [job EXCEPT ![r].reported = body.queues]
  /\ LET gs == SetOverview(gauges, r, body)
     IN  /\ Send(r, RefsOf(gs, {"overview"}))
         /\ EndModule(r, gs, InfoFrom(body), 1)

(* A broker answer that the module can use; with no objects nothing is set *)
ModuleReply(r, objects) ==
  LET m      == job[r].current
      series == Data(m, IF m \in ClusterLabelled THEN job[r].ctx.cluster ELSE "")
      ready  == IF m \in ResetOnReply THEN Reset(gauges, {m}) ELSE gauges
      const  == ConstMetric(r, series, r)
      gs     == IF ~objects THEN ready
                ELSE IF m \in ConstMetrics THEN ready \union {const}
                ELSE SetGauge(ready, r, series, r)
      sent   == IF objects /\ m \in ConstMetrics THEN {Ref(const)} ELSE RefsOf(gs, {m})
  IN  /\ pc[r] = "requesting"
      /\ m # "overview"
      /\ m = "queue" => ~OverLimit(job[r].ctx.totalQueues)
      /\ Send(r, sent)
      /\ EndModule(r, gs, nodeInfo, 1)
      /\ UNCHANGED <<nodeInfo, job>>

(* Too many queues: no request, no metrics, and no error *)
QueueLimitExceeded(r) ==
  /\ pc[r] = "requesting"
  /\ job[r].current = "queue"
  /\ OverLimit(job[r].ctx.totalQueues)
  /\ EndModule(r, gauges, nodeInfo, 1)
  /\ UNCHANGED <<nodeInfo, job, chan>>

(* The request fails, times out, answers another status than 200 or cannot *)
(* be decoded: the module sends nothing and leaves nodeInfo as it was *)
ModuleError(r) ==
  /\ pc[r] = "requesting"
  /\ job[r].current = "queue" => ~OverLimit(job[r].ctx.totalQueues)
  /\ job' = [job EXCEPT ![r].allUp = FALSE]
  /\ EndModule(r, gauges, nodeInfo, 0)
  /\ UNCHANGED <<nodeInfo, chan>>

UpValue(allUp) == IF allUp THEN 1 ELSE 0

(* The end of Collect: up, lastScrapeOK, the global vectors, the mutex *)
FinishCollect(r) ==
  LET set == SetGauge(gauges, r, Up(nodeInfo), UpValue(job[r].allUp))
      gs  == IF Named(nodeInfo) THEN Delete(set, Up(NoInfo)) ELSE set
  IN  /\ pc[r] = "collecting"
      /\ job[r].todo = {}
      /\ gauges' = gs
      /\ lastScrapeOK' = job[r].allUp
      /\ Send(r, RefsOf(gs, GlobalVecs))
      /\ mutex' = Released(r)
      /\ Goto(r, "draining")
      /\ UNCHANGED <<nodeInfo, job, response, health>>

Rank(vec) == CASE vec = "up"        -> 1
               [] vec = "module_up" -> 2
               [] vec = "duration"  -> 3
               [] OTHER             -> 0

(* The registry reads the channel in order and asks each metric for its    *)
(* value as it gets there, with no lock of the exporter.  Children of one  *)
(* vector, and data of the modules among themselves, come in any order.    *)
Write(r, g) ==
  /\ Ref(g) \in chan[r]
  /\ \A other \in chan[r] : Rank(g.series.vec) <= Rank(other.series.vec)
  /\ chan' = [chan EXCEPT ![r] = @ \ {Ref(g)}]
  /\ response' = [response EXCEPT ![r] = @ \union {[series |-> g.series, value |-> g.value]}]
  /\ UNCHANGED <<mutex, pc, nodeInfo, lastScrapeOK, gauges, job, health>>

Respond(r) ==
  /\ pc[r] = "draining"
  /\ chan[r] = {}
  /\ Goto(r, "done")
  /\ UNCHANGED <<mutex, nodeInfo, lastScrapeOK, gauges, chan, job, response, health>>

(* LastScrapeOK: takes the mutex a scrape holds for all its requests *)
LockHealth(p) ==
  /\ pc[p] = "locking"
  /\ MutexFree
  /\ mutex' = p
  /\ Goto(p, "reading")
  /\ UNCHANGED <<nodeInfo, lastScrapeOK, gauges, chan, job, response, health>>

AnswerHealth(p) ==
  /\ pc[p] = "reading"
  /\ health' = [health EXCEPT ![p] = IF lastScrapeOK THEN "ok" ELSE "gateway_timeout"]
  /\ mutex' = Released(p)
  /\ Goto(p, "done")
  /\ UNCHANGED <<nodeInfo, lastScrapeOK, gauges, chan, job, response>>

(* What the module in progress comes to *)
EndRequest(r) ==
  \/ \E body \in OverviewReplies : OverviewReply(r, body)
  \/ \E objects \in BOOLEAN : ModuleReply(r, objects)
  \/ QueueLimitExceeded(r)
  \/ ModuleError(r)

ScrapeStep(r) ==
  \/ LockCollect(r)
  \/ \E m \in Collectors : BeginModule(r, m)
  \/ EndRequest(r)
  \/ FinishCollect(r)
  \/ \E g \in gauges : Write(r, g)
  \/ Respond(r)

ProbeStep(p) == LockHealth(p) \/ AnswerHealth(p)

Next ==
  \/ \E q \in Requests : Arrive(q)
  \/ \E r \in Scrapes : ScrapeStep(r)
  \/ \E p \in Probes : ProbeStep(p)

Spec == Init /\ [][Next]_vars

(* Goroutines are scheduled fairly; a request to the broker ends because   *)
(* the client has a timeout (RABBIT_TIMEOUT, 30 s by default); a blocked   *)
(* Lock is served although others keep coming (starvation mode of Go's     *)
(* mutex): strong fairness.  Nothing makes a request arrive.               *)
Fairness ==
  /\ \A r \in Scrapes : WF_vars(ScrapeStep(r)) /\ SF_vars(LockCollect(r))
  /\ \A p \in Probes : WF_vars(ProbeStep(p)) /\ SF_vars(LockHealth(p))

FairSpec == Spec /\ Fairness
----------------------------------------------------------------------------
Places == {"new", "locking", "collecting", "requesting", "draining", "reading", "done"}
Infos  == [cluster : Labels, node : Labels, totalQueues : Nat]
Jobs   == [todo : SUBSET Collectors, current : Collectors \union {""}, ctx : Infos,
           allUp : BOOLEAN, reported : Nat \union {Missing}]

(* Every variable stays in its domain: the locals of each scrape, the      *)
(* metric objects and what was sent or written of them. *)
TypeOK ==
  /\ mutex \in Requests \union {NoRequest}
  /\ pc \in [Requests -> Places]
  /\ nodeInfo \in Infos
  /\ lastScrapeOK \in BOOLEAN
  /\ gauges \in SUBSET Gauges
  /\ chan \in [Scrapes -> SUBSET References]
  /\ job \in [Scrapes -> Jobs]
  /\ response \in [Scrapes -> SUBSET Samples]
  /\ health \in [Probes -> {"none", "ok", "gateway_timeout"}]

Of(samples, vecs) == {s \in samples : s.series.vec \in vecs}
Identity(s) == <<s.series.cluster, s.series.node>>

(* An answer to GET /metrics is one consistent report: exactly one up and  *)
(* one module_up per collector, all under the same cluster and node, up is *)
(* 1 just when every module_up is, every duration is of that cluster and   *)
(* node, and so are the cluster labels of the modules' data -- whatever    *)
(* other scrapes did between Collect and the writing of the answer, and    *)
(* whatever the previous scrape left in the vectors (exporter.go:90-164).  *)
Coherent(samples) ==
  \E up \in Of(samples, {"up"}) :
    /\ Of(samples, {"up"}) = {up}
    /\ \A m \in Collectors : \E s \in Of(samples, {"module_up"}) :
         {t \in Of(samples, {"module_up"}) : t.series.module = m} = {s}
    /\ \A s \in Of(samples, {"module_up", "duration"}) : Identity(s) = Identity(up)
    /\ \A s \in Of(samples, Modules \intersect ClusterLabelled) :
         s.series.cluster = up.series.cluster
    /\ up.value = 1 <=> \A s \in Of(samples, {"module_up"}) : s.value = 1

ScrapeCoherent ==
  \A r \in Scrapes : pc[r] = "done" => Coherent(response[r])

(* A module that failed is silent: the answer holds data of a module only  *)
(* beside module_up = 1 for it, and then data this very scrape fetched,    *)
(* never a value left over from, or overwritten by, another scrape.  The   *)
(* overview is exempt from the second part (see OverviewFresh).            *)
OwnData(r, samples) ==
  \A s \in Of(samples, Collectors) :
    /\ \E t \in Of(samples, {"module_up"}) :
         t.series.module = s.series.vec /\ t.value = 1
    /\ s.series.vec # "overview" => s.value = r

OnlyOwnData ==
  \A r \in Scrapes : pc[r] = "done" => OwnData(r, response[r])

(* The queue limit holds against what the same scrape was told: when its   *)
(* own overview reported more queues than MAX_QUEUES, it exports no data   *)
(* of single queues (exporter_queue.go:135-149 reads a total that an       *)
(* earlier module left in nodeInfo). *)
QueueLimitKept ==
  \A r \in Scrapes :
    MaxQueues > 0 /\ job[r].reported > MaxQueues => Of(response[r], {"queue"}) = {}

(* Each scrape looks atomic and each probe tells the outcome of the last   *)
(* finished scrape: the exporter implements ScrapeService.  The answer of  *)
(* a scrape is fixed when Collect returns, although it is written later.   *)
Shown(r) ==
  response[r] \union
    {[series |-> g.series, value |-> g.value] : g \in {x \in gauges : Ref(x) \in chan[r]}}

Answer(r) ==
  IF pc[r] \notin {"draining", "done"} THEN {}
  ELSE {[up   |-> (CHOOSE s \in Shown(r) : s.series.vec = "up").value,
         down |-> {s.series.module : s \in
                     {t \in Shown(r) : t.series.vec = "module_up" /\ t.value = 0}}]}

Told(p) == IF health[p] = "none" THEN {} ELSE {health[p] = "ok"}

Service == INSTANCE ScrapeService WITH
             ok     <- lastScrapeOK,
             answer <- [r \in Scrapes |-> Answer(r)],
             told   <- [p \in Probes |-> Told(p)]

ImplementsService == Service!Spec

(* Every request that arrived is answered, although scrapes hold the mutex *)
(* through all their requests to the broker and probes queue behind them.  *)
EveryRequestAnswered ==
  \A q \in Requests : pc[q] = "locking" ~> pc[q] = "done"

(* README.md, MAX_QUEUES: "max number of queues before we drop metrics".   *)
(* Against the broker, not against what the overview told: Here the broker *)
(* only ever has more queues than MAX_QUEUES (every reply says so), and    *)
(* still queue data is exported when the first overview fails.             *)
BrokerAlwaysOverLimit ==
  MaxQueues > 0 /\ \A body \in OverviewReplies : body.queues > MaxQueues
LimitNeverExceeded ==
  BrokerAlwaysOverLimit => \A r \in Scrapes : Of(response[r], {"queue"}) = {}

(* exporter_overview.go:26, "Rate at which messages are entering the       *)
(* server": data of the overview is data this scrape fetched.              *)
OverviewFresh ==
  \A r \in Scrapes : \A s \in Of(response[r], {"overview"}) : s.value = r
============================================================================
