-------------------------- MODULE ExporterService --------------------------
(***************************************************************************)
(* What the invariant of ExporterInvariant gives besides coherence: no     *)
(* finished report changes any more, the queue limit holds against what    *)
(* the same scrape was told, and the exporter implements ScrapeService:    *)
(* a scrape is one step there, the end of its Collect, and a probe the     *)
(* step in which it reads the flag.                                        *)
(***************************************************************************)
EXTENDS ExporterCoherence

(* Once Collect has returned, nothing another scrape or probe does changes *)
(* what the answer will say, however slowly it is written                  *)
(* (exporter.go:90-130).                                                   *)
THEOREM ReportsFinal == Spec => [][AnswersKept]_vars
  <1>1. IInv /\ TypeOK' /\ [Next]_vars => AnswersKept
    BY StepInv
  <1>2. TypeOK /\ TypeOK' /\ IInv /\ [Next]_vars => [AnswersKept]_vars
    BY <1>1
  <1> QED
    BY <1>2, Invariance, TypeCorrect, PTL DEF Spec
----------------------------------------------------------------------------
(* What the queue limit rests on: until the scrape ends, nodeInfo holds    *)
(* the total its own overview told. *)
LimitOf(r) ==
  MaxQueues > 0 /\ job[r].reported > MaxQueues =>
    /\ pc[r] \in Inside => nodeInfo.totalQueues = job[r].reported
    /\ \A x \in chan[r] : x.series.vec # "queue"
    /\ \A s \in response[r] : s.series.vec # "queue"

LimitInv == \A r \in Scrapes : LimitOf(r)

(* Scrapes a step does not concern keep the limit. *)
LEMMA LimitOthers ==
  ASSUME LimitInv, NEW r \in Scrapes, LimitOf(r)',
         \A q \in Scrapes : q # r =>
           /\ job'[q] = job[q] /\ chan'[q] = chan[q] /\ response'[q] = response[q]
           /\ pc'[q] \in Inside => pc[q] \in Inside /\ nodeInfo' = nodeInfo
  PROVE  LimitInv'
  BY DEF LimitInv, LimitOf

(* Nothing is known and nothing sent at the start. *)
LEMMA LimitInit == Init => LimitInv
  <1> SUFFICES ASSUME Init, NEW r \in Scrapes
               PROVE  LimitOf(r)
    BY DEF LimitInv
  <1>1. job[r].reported = -1
    BY DEF Init, NewJob, Missing
  <1>2. ~(MaxQueues > 0 /\ job[r].reported > MaxQueues)
    BY <1>1, ConfigAssumption
  <1> QED
    BY <1>2 DEF LimitOf

(* A step of Collect touches only its own scrape and finds no other inside. *)
LEMMA OthersOutside ==
  ASSUME IInv, NEW r \in Scrapes, NEW place,
         pc[r] \in Inside \/ mutex = NoRequest,
         pc' = [pc EXCEPT ![r] = place]
  PROVE  \A q \in Scrapes : q # r => pc'[q] = pc[q] /\ pc'[q] \notin Inside
  BY RequestsAssumption DEF IInv, MutexInv, TypeOK, Requests

(* A scrape that has not reported any collector has sent nothing. *)
LEMMA NothingSent ==
  ASSUME IInv, NEW r \in Scrapes, pc[r] \in Inside, DoneBy(r) = {}
  PROVE  chan[r] = {} /\ response[r] = {}
  <1>1. Shown(r) = {}
    BY DEF IInv, PartialInv
  <1>2. response[r] = {}
    BY <1>1 DEF Shown
  <1>3. ASSUME NEW x \in chan[r]
        PROVE  FALSE
    <2>1. PICK g \in gauges : Ref(g) = x
      BY DEF IInv, ChanInv
    <2>2. [series |-> g.series, value |-> g.value] \in Shown(r)
      BY <2>1 DEF Shown
    <2> QED
      BY <1>1, <2>2
  <1> QED
    BY <1>2, <1>3

(* One case per action of a scrape; the others move none. *)
LEMMA LimitNext ==
  ASSUME IInv, LimitInv, [Next]_vars
  PROVE  LimitInv'
  <1>0. /\ pc \in [Requests -> Places] /\ Scrapes \subseteq Requests
        /\ chan \in [Scrapes -> SUBSET References]
        /\ response \in [Scrapes -> SUBSET Samples]
        /\ job \in [Scrapes -> Jobs]
        /\ \A q \in Scrapes : LimitOf(q)
    BY DEF IInv, TypeOK, Requests, LimitInv
  <1>1. ASSUME NEW q \in Requests, Arrive(q)
        PROVE  LimitInv'
    BY <1>0, <1>1 DEF Arrive, Goto, LimitInv, LimitOf, Inside
  <1>2. ASSUME NEW r \in Scrapes, LockCollect(r)
        PROVE  LimitInv'
    <2>1. job'[r].reported = Missing
      BY <1>0, <1>2 DEF LockCollect, NewJob
    <2>2. LimitOf(r)'
      BY <2>1, ConfigAssumption DEF LimitOf, Missing
    <2>3. mutex = NoRequest /\ pc' = [pc EXCEPT ![r] = "collecting"]
      BY <1>2 DEF LockCollect, MutexFree, Goto
    <2>4. \A q \in Scrapes : q # r => job'[q] = job[q] /\ chan'[q] = chan[q]
                                       /\ response'[q] = response[q]
      BY <1>0, <1>2 DEF LockCollect
    <2> QED
      BY <2>2, <2>3, <2>4, OthersOutside, LimitOthers
  <1>3. ASSUME NEW r \in Scrapes, NEW m \in Collectors, BeginModule(r, m)
        PROVE  LimitInv'
    <2>1. pc[r] \in Inside /\ pc' = [pc EXCEPT ![r] = "requesting"]
      BY <1>3 DEF BeginModule, Goto, Inside
    <2>2. job'[r].reported = job[r].reported
      BY <1>0, <1>3 DEF BeginModule, Jobs
    <2>3. \A q \in Scrapes : /\ q # r => job'[q] = job[q]
                             /\ chan'[q] = chan[q] /\ response'[q] = response[q]
      BY <1>0, <1>3 DEF BeginModule
    <2>4. LimitOf(r)'
      BY <1>0, <1>3, <2>1, <2>2, <2>3 DEF LimitOf, BeginModule
    <2> QED
      BY <2>1, <2>3, <2>4, OthersOutside, LimitOthers
  <1>4. ASSUME NEW r \in Scrapes, NEW body \in OverviewReplies, OverviewReply(r, body)
        PROVE  LimitInv'
    <2>1. pc[r] \in Inside /\ pc' = [pc EXCEPT ![r] = "collecting"]
      BY <1>4 DEF OverviewReply, EndModule, Goto, Inside
    <2>2. DoneBy(r) = {}
      <3>1. job[r].current = "overview" /\ pc[r] = "requesting"
        BY <1>4 DEF OverviewReply
      <3>2. job[r].todo = Collectors \ {"overview"}
        BY <3>1 DEF IInv, JobInv
      <3> QED
        BY <3>1, <3>2 DEF DoneBy
    <2>3. chan[r] = {} /\ response[r] = {}
      BY <2>1, <2>2, NothingSent
    <2>4. PICK sent : sent = RefsOf(SetOverview(gauges, r, body), {"overview"})
      OBVIOUS
    <2>5. chan'[r] = sent /\ response'[r] = {} /\ job'[r].reported = body.queues
      BY <1>0, <1>4, <2>3, <2>4 DEF OverviewReply, EndModule, Send, Jobs
    <2>6. \A x \in sent : x.series.vec # "queue"
      BY <2>4 DEF RefsOf, Ref
    <2>7. nodeInfo' = InfoFrom(body)
      BY <1>4 DEF OverviewReply
    <2>8. MaxQueues > 0 /\ body.queues > MaxQueues => InfoFrom(body).totalQueues = body.queues
      <3>1. body.queues \in Nat \union {-1}
        BY InfoFromType DEF Missing
      <3>2. MaxQueues > 0 /\ body.queues > MaxQueues => body.queues # -1
        BY <3>1, ConfigAssumption
      <3>3. body.queues # -1 => InfoFrom(body).totalQueues = body.queues
        BY DEF InfoFrom, Missing
      <3> QED
        BY <3>2, <3>3
    <2>9. LimitOf(r)'
      BY <2>5, <2>6, <2>7, <2>8 DEF LimitOf
    <2>10. \A q \in Scrapes : q # r => job'[q] = job[q] /\ chan'[q] = chan[q]
                                        /\ response'[q] = response[q]
      BY <1>0, <1>4 DEF OverviewReply, EndModule, Send
    <2> QED
      BY <2>1, <2>9, <2>10, OthersOutside, LimitOthers
  <1>5. ASSUME NEW r \in Scrapes, NEW objects \in BOOLEAN, ModuleReply(r, objects)
        PROVE  LimitInv'
    <2> DEFINE m == job[r].current
    <2>1. /\ pc[r] \in Inside /\ pc' = [pc EXCEPT ![r] = "collecting"]
          /\ job[r].ctx = nodeInfo /\ nodeInfo' = nodeInfo /\ job' = job
          /\ m = "queue" => ~OverLimit(job[r].ctx.totalQueues)
      BY <1>5 DEF ModuleReply, EndModule, Goto, Inside, IInv, JobInv
    <2>2. PICK sent : /\ Send(r, sent)
                      /\ \A x \in sent : x.series.vec = m
      <3>1. PICK series : series = Data(m, IF m \in ClusterLabelled
                                           THEN job[r].ctx.cluster ELSE "")
        OBVIOUS
      <3>2. PICK const : const = ConstMetric(r, series, r)
        OBVIOUS
      <3>3. series.vec = m /\ const.series = series
        BY <3>1, <3>2 DEF Data, ConstMetric
      <3>4. PICK gs, sent : /\ Send(r, sent)
                            /\ sent = IF objects /\ m \in ConstMetrics THEN {Ref(const)}
                                      ELSE RefsOf(gs, {m})
        BY <1>5, <3>1, <3>2 DEF ModuleReply
      <3> QED
        BY <3>3, <3>4 DEF RefsOf, Ref
    <2>3. /\ chan'[r] = chan[r] \union sent
          /\ \A q \in Scrapes : q # r => chan'[q] = chan[q]
          /\ response' = response
      BY <1>0, <1>5, <2>2 DEF Send, ModuleReply, EndModule
    <2>4. LimitOf(r)'
      <3>1. MaxQueues > 0 /\ job[r].reported > MaxQueues => m # "queue"
        BY <1>0, <2>1 DEF LimitOf, OverLimit
      <3> QED
        BY <1>0, <2>1, <2>2, <2>3, <3>1 DEF LimitOf
    <2> QED
      BY <2>1, <2>3, <2>4, OthersOutside, LimitOthers
  <1>6. ASSUME NEW r \in Scrapes, QueueLimitExceeded(r) \/ ModuleError(r)
        PROVE  LimitInv'
    <2>1. /\ pc[r] \in Inside /\ pc' = [pc EXCEPT ![r] = "collecting"]
          /\ UNCHANGED <<nodeInfo, chan, response>>
      BY <1>6 DEF QueueLimitExceeded, ModuleError, EndModule, Goto, Inside
    <2>2. job'[r].reported = job[r].reported /\ \A q \in Scrapes : q # r => job'[q] = job[q]
      BY <1>0, <1>6 DEF QueueLimitExceeded, ModuleError, Jobs
    <2>3. LimitOf(r)'
      BY <1>0, <2>1, <2>2 DEF LimitOf
    <2> QED
      BY <2>1, <2>2, <2>3, OthersOutside, LimitOthers
  <1>7. ASSUME NEW r \in Scrapes, FinishCollect(r)
        PROVE  LimitInv'
    <2>1. /\ pc[r] \in Inside /\ pc' = [pc EXCEPT ![r] = "draining"]
          /\ UNCHANGED <<nodeInfo, job, response>>
      BY <1>7 DEF FinishCollect, Goto, Inside
    <2>2. PICK gs : Send(r, RefsOf(gs, GlobalVecs))
      BY <1>7 DEF FinishCollect
    <2>3. /\ chan'[r] = chan[r] \union RefsOf(gs, GlobalVecs)
          /\ \A q \in Scrapes : q # r => chan'[q] = chan[q]
      BY <1>0, <2>2 DEF Send
    <2>4. \A x \in RefsOf(gs, GlobalVecs) : x.series.vec # "queue"
      BY DEF RefsOf, Ref, GlobalVecs
    <2>5. LimitOf(r)'
      BY <1>0, <2>1, <2>3, <2>4 DEF LimitOf
    <2> QED
      BY <2>1, <2>3, <2>5, OthersOutside, LimitOthers
  <1>8. ASSUME NEW r \in Scrapes, NEW g \in gauges, Write(r, g)
        PROVE  LimitInv'
    <2>1. /\ UNCHANGED <<pc, nodeInfo, job>>
          /\ Ref(g) \in chan[r]
          /\ chan'[r] = chan[r] \ {Ref(g)}
          /\ response'[r] = response[r] \union {[series |-> g.series, value |-> g.value]}
          /\ \A q \in Scrapes : q # r => chan'[q] = chan[q] /\ response'[q] = response[q]
      BY <1>0, <1>8 DEF Write
    <2>2. Ref(g).series = g.series
      BY DEF Ref
    <2>3. LimitOf(r)'
      BY <1>0, <2>1, <2>2 DEF LimitOf
    <2> QED
      BY <2>1, <2>3, LimitOthers
  <1>9. ASSUME NEW r \in Scrapes, Respond(r)
        PROVE  LimitInv'
    BY <1>0, <1>9 DEF Respond, Goto, LimitInv, LimitOf, Inside
  <1>10. ASSUME NEW p \in Probes, ProbeStep(p)
         PROVE  LimitInv'
    BY <1>0, <1>10 DEF ProbeStep, LockHealth, AnswerHealth, Goto, LimitInv, LimitOf, Inside
  <1>11. CASE UNCHANGED vars
    BY <1>11 DEF vars, LimitInv, LimitOf, Inside
  <1> QED
    BY <1>1, <1>2, <1>3, <1>4, <1>5, <1>6, <1>7, <1>8, <1>9, <1>10, <1>11
    DEF Next, ScrapeStep, EndRequest

(* A scrape whose own overview told of more queues than MAX_QUEUES exports *)
(* no data of single queues, whatever other scrapes and failures came      *)
(* between (exporter_queue.go:135-149).                                    *)
THEOREM LimitKept == Spec => []QueueLimitKept
  <1>1. IInv /\ LimitInv /\ [Next]_vars => LimitInv'
    BY LimitNext
  <1>2. LimitInv => QueueLimitKept
    BY DEF LimitInv, LimitOf, QueueLimitKept, Of
  <1> QED
    BY <1>1, <1>2, LimitInit, Invariance, PTL DEF Spec
----------------------------------------------------------------------------
(* The implementation of ScrapeService.  Two more facts are needed: up and *)
(* module_up are 0 or 1, and a probe is answered once. *)
Flags(gs) == \A g \in gs : g.series.vec \in {"up", "module_up"} => g.value \in {0, 1}

HealthInv == \A p \in Probes : pc[p] # "done" => health[p] = "none"

ServiceInv == Flags(gauges) /\ HealthInv

(* Taking children out of their vectors changes no flag. *)
LEMMA UnregisterFlags ==
  ASSUME NEW gs \in SUBSET Gauges, Flags(gs), NEW dropped
  PROVE  Flags(Unregister(gs, dropped))
  BY UnregisterMembers DEF Flags, SameGauge

(* Setting a gauge of another vector, or setting a flag to 0 or 1, does. *)
LEMMA SetGaugeFlags ==
  ASSUME NEW gs \in SUBSET Gauges, Flags(gs), NEW r, NEW series, NEW v,
         series.vec \in {"up", "module_up"} => v \in {0, 1}
  PROVE  Flags(SetGauge(gs, r, series, v))
  <1> DEFINE found == {g \in gs : g.registered /\ g.series = series}
             new   == [series |-> series, born |-> r, value |-> v, registered |-> TRUE]
             set   == {[g EXCEPT !.value = v] : g \in found}
  <1>1. new.series = series /\ new.value = v
    OBVIOUS
  <1>2. ASSUME NEW h \in set
        PROVE  h.series = series /\ h.value = v
    BY DEF Gauges
  <1>3. SetGauge(gs, r, series, v) = IF found = {} THEN gs \union {new}
                                    ELSE (gs \ found) \union set
    BY DEF SetGauge
  <1> HIDE DEF new, set
  <1> QED
    BY <1>1, <1>2, <1>3 DEF Flags

(* So does the report of a module. *)
LEMMA ReportedFlags ==
  ASSUME NEW gs \in SUBSET Gauges, Flags(gs), NEW r \in Scrapes, NEW info \in Infos,
         NEW m \in Collectors, NEW up \in {0, 1}
  PROVE  Flags(Reported(gs, r, info, m, up))
  <1> DEFINE timed  == IF Named(info) THEN SetGauge(gs, r, Duration(info, m), 1) ELSE gs
             marked == SetGauge(timed, r, ModuleUp(info, m), up)
  <1>1. timed \in SUBSET Gauges /\ marked \in SUBSET Gauges
    BY UpValues, SeriesType, SetGaugeType
  <1>2. Duration(info, m).vec = "duration"
    BY DEF Duration
  <1>3. Flags(timed)
    BY <1>2, SetGaugeFlags
  <1>4. Flags(marked)
    BY <1>1, <1>3, SetGaugeFlags
  <1>5. Flags(Delete(marked, ModuleUp(NoInfo, m)))
    BY <1>1, <1>4, UnregisterFlags DEF Delete
  <1> QED
    BY <1>4, <1>5 DEF Reported

(* Both facts are kept by every step; the flags of a module that ends are  *)
(* those of its report. *)
LEMMA ServiceInvNext ==
  ASSUME IInv, ServiceInv, [Next]_vars
  PROVE  ServiceInv'
  <1>0. /\ gauges \in SUBSET Gauges /\ nodeInfo \in Infos
        /\ pc \in [Requests -> Places] /\ Scrapes \subseteq Requests
        /\ Probes \subseteq Requests /\ Scrapes \intersect Probes = {}
        /\ health \in [Probes -> {"none", "ok", "gateway_timeout"}]
        /\ Flags(gauges) /\ HealthInv
        /\ \A r \in Scrapes : pc[r] = "requesting" => job[r].current \in Collectors
    BY RequestsAssumption DEF IInv, TypeOK, Requests, ServiceInv, JobInv
  <1>1. ASSUME NEW q \in Requests, Arrive(q)
        PROVE  ServiceInv'
    BY <1>0, <1>1 DEF Arrive, Goto, ServiceInv, HealthInv, Flags
  <1>2. ASSUME NEW r \in Scrapes, NEW place, pc' = [pc EXCEPT ![r] = place],
               health' = health
        PROVE  HealthInv'
    BY <1>0, <1>2 DEF HealthInv
  <1>3. ASSUME NEW r \in Scrapes, LockCollect(r)
        PROVE  ServiceInv'
    <2>1. Flags(gauges')
      BY <1>0, <1>3, UnregisterFlags DEF LockCollect, Reset
    <2> QED
      BY <1>2, <1>3, <2>1 DEF LockCollect, Goto, ServiceInv, Flags
  <1>4. ASSUME NEW r \in Scrapes, NEW m \in Collectors, BeginModule(r, m)
        PROVE  ServiceInv'
    <2>1. Flags(gauges')
      BY <1>0, <1>4, UnregisterFlags DEF BeginModule, Reset
    <2> QED
      BY <1>2, <1>4, <2>1 DEF BeginModule, Goto, ServiceInv, Flags
  <1>5. ASSUME NEW r \in Scrapes, NEW gs \in SUBSET Gauges, Flags(gs), NEW info \in Infos,
               NEW up \in {0, 1}, pc[r] = "requesting", EndModule(r, gs, info, up)
        PROVE  ServiceInv'
    <2>1. Flags(gauges')
      BY <1>0, <1>5, ReportedFlags DEF EndModule
    <2> QED
      BY <1>2, <1>5, <2>1 DEF EndModule, Goto, ServiceInv, Flags
  <1>6. ASSUME NEW r \in Scrapes, NEW body \in OverviewReplies, OverviewReply(r, body)
        PROVE  ServiceInv'
    <2>1. Data("overview", body.cluster).vec = "overview"
      BY DEF Data
    <2>2. /\ Reset(gauges, {"overview"}) \in SUBSET Gauges
          /\ Flags(Reset(gauges, {"overview"}))
      BY <1>0, ResetType, UnregisterFlags DEF Reset
    <2>3. /\ SetOverview(gauges, r, body) \in SUBSET Gauges
          /\ Flags(SetOverview(gauges, r, body))
      <3>1. Data("overview", body.cluster) \in Series /\ r \in Values
        BY InfoFromType, SeriesType, VecsDisjoint DEF Values
      <3> QED
        BY <1>0, <2>1, <2>2, <3>1, SetGaugeType, SetGaugeFlags DEF SetOverview
    <2>4. EndModule(r, SetOverview(gauges, r, body), InfoFrom(body), 1) /\ pc[r] = "requesting"
      BY <1>6 DEF OverviewReply
    <2> QED
      BY <1>5, <2>3, <2>4, InfoFromType
  <1>7. ASSUME NEW r \in Scrapes, NEW objects \in BOOLEAN, ModuleReply(r, objects)
        PROVE  ServiceInv'
    <2>1. PICK m : m = job[r].current
      OBVIOUS
    <2>2. PICK series : series = Data(m, IF m \in ClusterLabelled
                                         THEN job[r].ctx.cluster ELSE "")
      OBVIOUS
    <2>3. PICK const : const = ConstMetric(r, series, r)
      OBVIOUS
    <2>4. PICK ready : ready = IF m \in ResetOnReply THEN Reset(gauges, {m}) ELSE gauges
      OBVIOUS
    <2>5. PICK gs : gs = IF ~objects THEN ready
                         ELSE IF m \in ConstMetrics THEN ready \union {const}
                         ELSE SetGauge(ready, r, series, r)
      OBVIOUS
    <2>6. /\ pc[r] = "requesting" /\ m \in Collectors /\ EndModule(r, gs, nodeInfo, 1)
      BY <1>0, <1>7, <2>1, <2>2, <2>3, <2>4, <2>5 DEF ModuleReply
    <2>7. series \in Series /\ series.vec = m /\ r \in Values
      <3>1. job[r].ctx \in Infos
        BY DEF IInv, TypeOK, Jobs
      <3>2. m \in ClusterLabelled => series = Data(m, job[r].ctx.cluster)
        BY <2>2
      <3>3. m \notin ClusterLabelled => series = Data(m, "")
        BY <2>2
      <3>4. /\ Data(m, job[r].ctx.cluster) \in Series /\ Data(m, "") \in Series
            /\ Data(m, job[r].ctx.cluster).vec = m /\ Data(m, "").vec = m
        BY <2>6, <3>1, SeriesType DEF Data
      <3> QED
        BY <3>2, <3>3, <3>4 DEF Values
    <2>8. m \notin {"up", "module_up"}
      BY <2>6, VecsDisjoint DEF GlobalVecs
    <2>9. /\ const \in Gauges /\ const.series = series
      BY <2>3, <2>7 DEF ConstMetric, Gauges
    <2>10. ready \in SUBSET Gauges /\ Flags(ready)
      BY <1>0, <2>4, ResetType, UnregisterFlags DEF Reset
    <2>11. /\ SetGauge(ready, r, series, r) \in SUBSET Gauges
           /\ Flags(SetGauge(ready, r, series, r))
      BY <2>7, <2>8, <2>10, SetGaugeType, SetGaugeFlags
    <2>12. ready \union {const} \in SUBSET Gauges /\ Flags(ready \union {const})
      BY <2>7, <2>8, <2>9, <2>10 DEF Flags
    <2>13. gs \in SUBSET Gauges /\ Flags(gs)
      BY <2>5, <2>10, <2>11, <2>12
    <2> QED
      BY <1>0, <1>5, <2>6, <2>13
  <1>8. ASSUME NEW r \in Scrapes, QueueLimitExceeded(r)
        PROVE  ServiceInv'
    BY <1>0, <1>5, <1>8 DEF QueueLimitExceeded
  <1>9. ASSUME NEW r \in Scrapes, ModuleError(r)
        PROVE  ServiceInv'
    BY <1>0, <1>5, <1>9 DEF ModuleError
  <1>10. ASSUME NEW r \in Scrapes, FinishCollect(r)
         PROVE  ServiceInv'
    <2> DEFINE set == SetGauge(gauges, r, Up(nodeInfo), UpValue(job[r].allUp))
    <2>1. UpValue(job[r].allUp) \in {0, 1}
      BY DEF UpValue
    <2>2. Up(nodeInfo) \in Series
      BY <1>0, SeriesType, VecsDisjoint
    <2>3. set \in SUBSET Gauges /\ Flags(set)
      BY <1>0, <2>1, <2>2, UpValues, SetGaugeType, SetGaugeFlags
    <2>4. Flags(Delete(set, Up(NoInfo)))
      BY <2>3, UnregisterFlags DEF Delete
    <2>5. Flags(gauges')
      BY <1>10, <2>3, <2>4 DEF FinishCollect
    <2> QED
      BY <1>2, <1>10, <2>5 DEF FinishCollect, Goto, ServiceInv, Flags
  <1>11. ASSUME NEW r \in Scrapes, NEW g \in gauges, Write(r, g)
         PROVE  ServiceInv'
    BY <1>0, <1>11 DEF Write, ServiceInv, HealthInv, Flags
  <1>12. ASSUME NEW r \in Scrapes, Respond(r)
         PROVE  ServiceInv'
    BY <1>0, <1>2, <1>12 DEF Respond, Goto, ServiceInv, Flags
  <1>13. ASSUME NEW p \in Probes, ProbeStep(p)
         PROVE  ServiceInv'
    BY <1>0, <1>13 DEF ProbeStep, LockHealth, AnswerHealth, Goto, ServiceInv, HealthInv, Flags
  <1>14. CASE UNCHANGED vars
    BY <1>0, <1>14 DEF vars, ServiceInv, HealthInv, Flags
  <1> QED
    BY <1>1, <1>3, <1>4, <1>6, <1>7, <1>8, <1>9, <1>10, <1>11, <1>12, <1>13, <1>14
    DEF Next, ScrapeStep, EndRequest

(* No gauge at the start, and no answer. *)
LEMMA ServiceInvInit == Init => ServiceInv
  BY DEF Init, ServiceInv, Flags, HealthInv

(* What a coherent report says of its modules is what `up` sums up. *)
LEMMA ReportSummary ==
  ASSUME NEW S, NEW su \in S, su.series.vec = "up", Coherent(S),
         \A s \in Of(S, {"module_up"}) : s.value \in {0, 1} /\ s.series.module \in Collectors
  PROVE  LET down == {s.series.module : s \in
                        {t \in S : t.series.vec = "module_up" /\ t.value = 0}}
         IN  /\ down \in SUBSET Collectors
             /\ su.value = 1 <=> down = {}
             /\ (CHOOSE s \in S : s.series.vec = "up") = su
  <1>1. PICK up \in Of(S, {"up"}) :
          /\ Of(S, {"up"}) = {up}
          /\ up.value = 1 <=> \A s \in Of(S, {"module_up"}) : s.value = 1
    BY DEF Coherent
  <1>2. up = su
    BY <1>1 DEF Of
  <1>3. (CHOOSE s \in S : s.series.vec = "up") = su
    BY <1>1, <1>2 DEF Of
  <1> QED
    BY <1>1, <1>2, <1>3 DEF Of

(* The end of Collect answers its scrape as ScrapeService does: from here  *)
(* on the report says which modules failed, and lastScrapeOK whether any.  *)
LEMMA FinishAnswer ==
  ASSUME IInv, TypeOK', ServiceInv', NEW r \in Scrapes, FinishCollect(r)
  PROVE  \E down \in SUBSET Collectors :
           /\ Answer(r)' = {[up |-> IF down = {} THEN 1 ELSE 0, down |-> down]}
           /\ lastScrapeOK' = (down = {})
  <1>1. PICK su : su = [series |-> Up(nodeInfo), value |-> UpValue(job[r].allUp)]
    OBVIOUS
  <1>2. PICK S : S = Shown(r)'
    OBVIOUS
  <1>3. IInv' /\ su \in S
    BY <1>1, <1>2, FinishCollectInv
  <1>4. pc[r] \in Inside /\ pc'[r] = "draining" /\ response' = response
        /\ lastScrapeOK' = job[r].allUp /\ job[r].allUp \in BOOLEAN
    BY DEF FinishCollect, Goto, Inside, IInv, TypeOK, Requests, Jobs
  <1>5. su.series.vec = "up" /\ su.value = UpValue(job[r].allUp)
    BY <1>1 DEF Up
  <1>6. Coherent(S)
    BY <1>2, <1>3, <1>4 DEF IInv, FinishedInv, After, Coherent, Of, Identity
  <1>7. ASSUME NEW s \in Of(S, {"module_up"})
        PROVE  s.value \in {0, 1} /\ s.series.module \in Collectors
    <2>1. s \in S /\ s.series.vec = "module_up"
      BY DEF Of
    <2>2. s \notin response[r]
      <3>1. ASSUME s \in Shown(r)
            PROVE  FALSE
        BY <1>4, <2>1, <3>1, VecsDisjoint DEF IInv, PartialInv, DoneBy, GlobalVecs
      <3> QED
        BY <3>1 DEF Shown
    <2>3. PICK g \in gauges' : s = [series |-> g.series, value |-> g.value]
      BY <1>2, <1>4, <2>1, <2>2 DEF Shown
    <2>4. g.series.vec = "module_up"
      BY <2>1, <2>3
    <2>5. g.value \in {0, 1}
      BY <2>4 DEF ServiceInv, Flags
    <2>6. g.series.module \in Collectors
      BY <1>3, <2>4 DEF IInv, BirthInv, DoneBy
    <2> QED
      BY <2>3, <2>5, <2>6
  <1>8. PICK down : down = {s.series.module : s \in
                              {t \in S : t.series.vec = "module_up" /\ t.value = 0}}
    OBVIOUS
  <1>9. /\ down \in SUBSET Collectors
        /\ su.value = 1 <=> down = {}
        /\ (CHOOSE s \in S : s.series.vec = "up") = su
    BY <1>3, <1>5, <1>6, <1>7, <1>8, ReportSummary
  <1>10. Answer(r)' = {[up |-> su.value, down |-> down]}
    BY <1>2, <1>4, <1>8, <1>9 DEF Answer
  <1>11. su.value = IF down = {} THEN 1 ELSE 0
    BY <1>5, <1>9 DEF UpValue
  <1>12. lastScrapeOK' = (down = {})
    <2>1. CASE job[r].allUp
      BY <1>4, <1>5, <1>9, <2>1, Zenon DEF UpValue
    <2>2. CASE ~job[r].allUp
      BY <1>4, <1>5, <1>9, <2>2 DEF UpValue
    <2> QED
      BY <2>1, <2>2
  <1> QED
    BY <1>9, <1>10, <1>11, <1>12

(* A step that ends no Collect and answers no probe is a stutter.          *)
LEMMA ServiceStutter ==
  ASSUME IInv, AnswersKept, health' = health, lastScrapeOK' = lastScrapeOK,
         \A q \in Scrapes : pc'[q] \in After <=> pc[q] \in After
  PROVE  UNCHANGED Service!vars
  <1>1. ASSUME NEW q \in Scrapes
        PROVE  Answer(q)' = Answer(q)
    <2>1. CASE pc[q] \in After
      <3>1. PICK S : S = Shown(q)
        OBVIOUS
      <3>2. S = Shown(q)'
        BY <2>1, <3>1 DEF AnswersKept
      <3>3. pc[q] \in {"draining", "done"} /\ pc'[q] \in {"draining", "done"}
        BY <2>1 DEF After
      <3> QED
        BY <3>1, <3>2, <3>3 DEF Answer
    <2>2. CASE pc[q] \notin After
      BY <2>2 DEF Answer, After
    <2> QED
      BY <2>1, <2>2
  <1>2. [q \in Scrapes |-> Answer(q)]' = [q \in Scrapes |-> Answer(q)]
    BY <1>1
  <1>3. [p \in Probes |-> Told(p)]' = [p \in Probes |-> Told(p)]
    BY DEF Told
  <1> QED
    BY <1>2, <1>3 DEF Service!vars

(* Every step of the exporter is a step of ScrapeService or a stutter:     *)
(* FinishCollect is its Scrape, AnswerHealth its Probe.                    *)
LEMMA ServiceStep ==
  ASSUME IInv, TypeOK', ServiceInv, ServiceInv', AnswersKept, [Next]_vars
  PROVE  [Service!Next]_(Service!vars)
  <1>0. /\ pc \in [Requests -> Places] /\ Scrapes \subseteq Requests
        /\ Probes \subseteq Requests /\ Scrapes \intersect Probes = {}
        /\ health \in [Probes -> {"none", "ok", "gateway_timeout"}]
        /\ lastScrapeOK \in BOOLEAN
    BY RequestsAssumption DEF IInv, TypeOK, Requests
  <1>1. ASSUME NEW r \in Scrapes, FinishCollect(r)
        PROVE  Service!Scrape(r)
    <2>1. /\ pc[r] = "collecting" /\ health' = health
          /\ \A q \in Scrapes : q # r => pc'[q] = pc[q]
      BY <1>0, <1>1 DEF FinishCollect, Goto
    <2>2. PICK down \in SUBSET Collectors :
            /\ Answer(r)' = {[up |-> IF down = {} THEN 1 ELSE 0, down |-> down]}
            /\ lastScrapeOK' = (down = {})
      BY <1>1, FinishAnswer
    <2>3. Answer(r) = {}
      BY <2>1 DEF Answer
    <2>4. ASSUME NEW q \in Scrapes, q # r
          PROVE  Answer(q)' = Answer(q)
      <3>1. CASE pc[q] \in After
        <4>1. PICK S : S = Shown(q)
          OBVIOUS
        <4>2. S = Shown(q)'
          BY <3>1, <4>1 DEF AnswersKept
        <4> QED
          BY <2>1, <2>4, <4>1, <4>2 DEF Answer
      <3>2. CASE pc[q] \notin After
        BY <2>1, <2>4, <3>2 DEF Answer, After
      <3> QED
        BY <3>1, <3>2
    <2>5. [q \in Scrapes |-> Answer(q)]' =
            [[q \in Scrapes |-> Answer(q)] EXCEPT ![r] =
               {[up |-> IF down = {} THEN 1 ELSE 0, down |-> down]}]
      BY <2>2, <2>4
    <2>6. [p \in Probes |-> Told(p)]' = [p \in Probes |-> Told(p)]
      BY <2>1 DEF Told
    <2> QED
      BY <2>2, <2>3, <2>5, <2>6 DEF Service!Scrape
  <1>2. ASSUME NEW p \in Probes, AnswerHealth(p)
        PROVE  Service!Probe(p)
    <2>1. /\ health[p] = "none"
          /\ lastScrapeOK' = lastScrapeOK
          /\ health' = [health EXCEPT ![p] = IF lastScrapeOK THEN "ok" ELSE "gateway_timeout"]
          /\ \A q \in Scrapes : pc'[q] = pc[q]
      BY <1>0, <1>2 DEF AnswerHealth, Goto, ServiceInv, HealthInv
    <2>2. Told(p) = {}
      BY <2>1 DEF Told
    <2>3. Told(p)' = {lastScrapeOK}
      <3>1. CASE lastScrapeOK
        <4>1. health'[p] = "ok"
          BY <1>0, <2>1, <3>1
        <4>2. (health'[p] = "ok") = lastScrapeOK
          BY <1>0, <3>1, <4>1, Zenon
        <4> QED
          BY <4>1, <4>2 DEF Told
      <3>2. CASE ~lastScrapeOK
        <4>1. health'[p] = "gateway_timeout"
          BY <1>0, <2>1, <3>2
        <4>2. (health'[p] = "ok") = lastScrapeOK
          BY <1>0, <3>2, <4>1
        <4> QED
          BY <4>1, <4>2 DEF Told
      <3> QED
        BY <3>1, <3>2
    <2>4. ASSUME NEW q \in Probes, q # p
          PROVE  Told(q)' = Told(q)
      BY <1>0, <2>1, <2>4 DEF Told
    <2>5. [q \in Probes |-> Told(q)]' =
            [[q \in Probes |-> Told(q)] EXCEPT ![p] = {lastScrapeOK}]
      BY <2>3, <2>4
    <2>6. ASSUME NEW q \in Scrapes
          PROVE  Answer(q)' = Answer(q)
      <3>1. CASE pc[q] \in After
        <4>1. PICK S : S = Shown(q)
          OBVIOUS
        <4>2. S = Shown(q)'
          BY <3>1, <4>1 DEF AnswersKept
        <4> QED
          BY <2>1, <2>6, <4>1, <4>2 DEF Answer
      <3>2. CASE pc[q] \notin After
        BY <2>1, <2>6, <3>2 DEF Answer, After
      <3> QED
        BY <3>1, <3>2
    <2>7. [q \in Scrapes |-> Answer(q)]' = [q \in Scrapes |-> Answer(q)]
      BY <2>6
    <2> QED
      BY <2>1, <2>2, <2>5, <2>7 DEF Service!Probe
  <1>3. ASSUME NEW r \in Scrapes, ScrapeStep(r), ~FinishCollect(r)
        PROVE  UNCHANGED Service!vars
    <2>1. health' = health /\ lastScrapeOK' = lastScrapeOK
      BY <1>3 DEF ScrapeStep, LockCollect, BeginModule, EndRequest, OverviewReply, ModuleReply,
         QueueLimitExceeded, ModuleError, EndModule, Write, Respond
    <2>2. \A q \in Scrapes : pc'[q] \in After <=> pc[q] \in After
      BY <1>0, <1>3
      DEF ScrapeStep, LockCollect, BeginModule, EndRequest, OverviewReply, ModuleReply,
          QueueLimitExceeded, ModuleError, EndModule, Write, Respond, Goto, After
    <2> QED
      BY <2>1, <2>2, ServiceStutter
  <1>4. ASSUME NEW q \in Requests, Arrive(q)
        PROVE  UNCHANGED Service!vars
    <2>1. /\ health' = health /\ lastScrapeOK' = lastScrapeOK
          /\ \A s \in Scrapes : pc'[s] \in After <=> pc[s] \in After
      BY <1>0, <1>4 DEF Arrive, Goto, After
    <2> QED
      BY <2>1, ServiceStutter
  <1>5. ASSUME NEW p \in Probes, LockHealth(p)
        PROVE  UNCHANGED Service!vars
    <2>1. /\ health' = health /\ lastScrapeOK' = lastScrapeOK
          /\ \A s \in Scrapes : pc'[s] \in After <=> pc[s] \in After
      BY <1>0, <1>5 DEF LockHealth, Goto, After
    <2> QED
      BY <2>1, ServiceStutter
  <1>6. CASE UNCHANGED vars
    <2>1. /\ health' = health /\ lastScrapeOK' = lastScrapeOK
          /\ \A s \in Scrapes : pc'[s] \in After <=> pc[s] \in After
      BY <1>6 DEF vars
    <2> QED
      BY <2>1, ServiceStutter
  <1> QED
    BY <1>1, <1>2, <1>3, <1>4, <1>5, <1>6 DEF Next, ProbeStep, Service!Next

(* The exporter starts as ScrapeService does. *)
LEMMA ServiceStart == Init => Service!Init
  <1> SUFFICES ASSUME Init
               PROVE  Service!Init
    OBVIOUS
  <1>1. lastScrapeOK = TRUE
    BY DEF Init
  <1>2. \A r \in Scrapes : Answer(r) = {}
    BY DEF Init, Answer, Requests
  <1>3. \A p \in Probes : Told(p) = {}
    BY DEF Init, Told
  <1> QED
    BY <1>1, <1>2, <1>3 DEF Service!Init

(* For any number of concurrent scrapes and probes, a scrape looks atomic  *)
(* to its client, names the modules that failed, and /health tells the     *)
(* outcome of the last scrape that finished (exporter.go:70-77, :90-130).  *)
THEOREM Implements == Spec => ImplementsService
  <1>1. ServiceInv /\ IInv /\ [Next]_vars => ServiceInv'
    BY ServiceInvNext
  <1>2. /\ IInv /\ IInv' /\ ServiceInv /\ ServiceInv' /\ [Next]_vars
        => [Service!Next]_(Service!vars)
    <2> SUFFICES ASSUME IInv, IInv', ServiceInv, ServiceInv', [Next]_vars
                 PROVE  [Service!Next]_(Service!vars)
      OBVIOUS
    <2>1. TypeOK'
      BY DEF IInv
    <2>2. AnswersKept
      BY <2>1, StepInv
    <2> QED
      BY <2>1, <2>2, ServiceStep
  <1> QED
    BY <1>1, <1>2, ServiceInvInit, ServiceStart, Invariance, PTL
    DEF Spec, ImplementsService, Service!Spec
============================================================================
