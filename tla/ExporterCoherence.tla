------------------------- MODULE ExporterCoherence -------------------------
(***************************************************************************)
(* Theorems about Exporter, for every set of requests, every configuration *)
(* and every set of broker replies: every variable stays in its domain,    *)
(* the invariant of ExporterInvariant is inductive, and the answers to     *)
(* GET /metrics are coherent and hold only the data of their own scrape.   *)
(***************************************************************************)
EXTENDS ExporterInvariant, TLAPS

----------------------------------------------------------------------------
(* The operations on metric objects stay within the domain of `gauges`.    *)

(* Taking children out of their vector yields gauges again.  *)
LEMMA UnregisterType ==
  ASSUME NEW gs \in SUBSET Gauges, NEW dropped
  PROVE  Unregister(gs, dropped) \in SUBSET Gauges
  BY DEF Unregister, Gauges

(* So do Reset and DeleteLabelValues. *)
LEMMA ResetType ==
  ASSUME NEW gs \in SUBSET Gauges, NEW vecs, NEW series
  PROVE  /\ Reset(gs, vecs) \in SUBSET Gauges
         /\ Delete(gs, series) \in SUBSET Gauges
  BY UnregisterType DEF Reset, Delete

(* WithLabelValues(series).Set(v) yields gauges. *)
LEMMA SetGaugeType ==
  ASSUME NEW gs \in SUBSET Gauges, NEW r \in Scrapes, NEW series \in Series,
         NEW v \in Values
  PROVE  SetGauge(gs, r, series, v) \in SUBSET Gauges
  <1> DEFINE found == {g \in gs : g.registered /\ g.series = series}
             new   == [series |-> series, born |-> r, value |-> v, registered |-> TRUE]
             set   == {[g EXCEPT !.value = v] : g \in found}
  <1>1. new \in Gauges
    BY DEF Gauges
  <1>2. set \in SUBSET Gauges
    BY DEF Gauges
  <1>3. (gs \ found) \union set \in SUBSET Gauges
    BY <1>2
  <1>4. SetGauge(gs, r, series, v) = IF found = {} THEN gs \union {new}
                                    ELSE (gs \ found) \union set
    BY DEF SetGauge
  <1> QED
    BY <1>1, <1>3, <1>4

(* References to registered gauges are references. *)
LEMMA RefsType ==
  ASSUME NEW gs \in SUBSET Gauges, NEW vecs
  PROVE  RefsOf(gs, vecs) \in SUBSET References
  BY DEF RefsOf, Ref, Gauges, References

(* Labels taken from a node info make a series. *)
LEMMA SeriesType ==
  ASSUME NEW info \in Infos, NEW m \in Collectors
  PROVE  /\ Up(info) \in Series
         /\ ModuleUp(info, m) \in Series
         /\ Duration(info, m) \in Series
         /\ Data(m, info.cluster) \in Series
         /\ Data(m, "") \in Series
  BY DEF Infos, Labels, Series, GlobalVecs, Collectors, Modules, Up, ModuleUp, Duration, Data

(* The information before the first overview is a node info. *)
LEMMA NoInfoType == NoInfo \in Infos
  BY DEF NoInfo, Infos, Labels

(* So are the locals at the start of Collect. *)
LEMMA NewJobType == NewJob \in Jobs
  BY NoInfoType DEF NewJob, Jobs, Missing

(* What a reply leaves in nodeInfo is a node info, for incomplete replies too. *)
LEMMA InfoFromType ==
  ASSUME NEW body \in OverviewReplies
  PROVE  /\ InfoFrom(body) \in Infos
         /\ body.queues \in Nat \union {Missing}
         /\ body.cluster \in Labels
         /\ InfoFrom(body).cluster = body.cluster
  BY RepliesAssumption DEF InfoFrom, Infos, Labels, Missing

(* Reporting a module leaves gauges. *)
LEMMA ReportedType ==
  ASSUME NEW gs \in SUBSET Gauges, NEW r \in Scrapes, NEW info \in Infos,
         NEW m \in Collectors, NEW up \in {0, 1}
  PROVE  Reported(gs, r, info, m, up) \in SUBSET Gauges
  <1> DEFINE timed  == IF Named(info) THEN SetGauge(gs, r, Duration(info, m), 1) ELSE gs
             marked == SetGauge(timed, r, ModuleUp(info, m), up)
  <1>1. up \in Values /\ 1 \in Values
    BY DEF Values
  <1>2. timed \in SUBSET Gauges
    BY <1>1, SeriesType, SetGaugeType
  <1>3. marked \in SUBSET Gauges
    BY <1>1, <1>2, SeriesType, SetGaugeType
  <1> QED
    BY <1>3, ResetType DEF Reported
----------------------------------------------------------------------------
(* A request in progress is about a collector. *)
CurrentOK ==
  \A r \in Scrapes : pc[r] = "requesting" => job[r].current \in Collectors

(* Type correctness, with what the typing of the labels needs. *)
TypeInv == TypeOK /\ CurrentOK

(* At the start every variable is in its domain. *)
LEMMA TypeInvInit == Init => TypeInv
  <1> SUFFICES ASSUME Init
               PROVE  TypeInv
    OBVIOUS
  <1>1. TypeOK
    BY NoInfoType, NewJobType DEF Init, TypeOK, Places
  <1>2. CurrentOK
    BY DEF Init, CurrentOK, Requests
  <1> QED
    BY <1>1, <1>2 DEF TypeInv

(* Every step keeps every variable in its domain; one case per action. *)
LEMMA TypeInvNext == TypeInv /\ [Next]_vars => TypeInv'
  <1> SUFFICES ASSUME TypeInv, [Next]_vars
               PROVE  TypeInv'
    OBVIOUS
  <1> USE DEF TypeInv, TypeOK
  <1>0. 0 \in Values /\ 1 \in Values /\ Scrapes \subseteq Values /\ Scrapes \subseteq Requests
        /\ Probes \subseteq Requests
    BY DEF Values, Requests
  <1>1. ASSUME NEW q \in Requests, Arrive(q)
        PROVE  TypeInv'
    <2>1. pc' \in [Requests -> Places] /\ CurrentOK'
      BY <1>1, <1>0 DEF Arrive, Goto, Places, CurrentOK
    <2> QED
      BY <1>1, <2>1 DEF Arrive
  <1>2. ASSUME NEW r \in Scrapes, LockCollect(r)
        PROVE  TypeInv'
    <2>1. gauges' \in SUBSET Gauges
      BY <1>2, ResetType DEF LockCollect
    <2>2. job' \in [Scrapes -> Jobs]
      BY <1>2, NewJobType DEF LockCollect
    <2> QED
      BY <1>2, <1>0, <2>1, <2>2 DEF LockCollect, Goto, Places, CurrentOK
  <1>3. ASSUME NEW r \in Scrapes, NEW m \in Collectors, BeginModule(r, m)
        PROVE  TypeInv'
    <2>1. gauges' \in SUBSET Gauges
      BY <1>3, ResetType DEF BeginModule
    <2>2. job' \in [Scrapes -> Jobs]
      <3>1. [job[r] EXCEPT !.todo = @ \ {m}, !.current = m, !.ctx = nodeInfo] \in Jobs
        BY DEF Jobs
      <3> QED
        BY <1>3, <3>1 DEF BeginModule
    <2>3. CurrentOK'
      BY <1>3, <1>0 DEF BeginModule, Goto, CurrentOK
    <2> QED
      BY <1>3, <1>0, <2>1, <2>2, <2>3 DEF BeginModule, Goto, Places
  <1>4. ASSUME NEW r \in Scrapes, NEW body \in OverviewReplies, OverviewReply(r, body)
        PROVE  TypeInv'
    <2> DEFINE gs == SetOverview(gauges, r, body)
    <2>1. job[r].current \in Collectors
      BY <1>4, <1>0 DEF OverviewReply, CurrentOK
    <2>2. gs \in SUBSET Gauges
      BY <1>4, <1>0, InfoFromType, <2>1, SeriesType, ResetType, SetGaugeType
      DEF SetOverview, OverviewReply
    <2>3. gauges' \in SUBSET Gauges
      BY <1>4, <2>1, <2>2, InfoFromType, ReportedType DEF OverviewReply, EndModule
    <2>4. RefsOf(gs, {"overview"}) \in SUBSET References
      BY <2>2, RefsType
    <2>5. chan' \in [Scrapes -> SUBSET References]
      BY <1>4, <2>4 DEF OverviewReply, Send
    <2>6. job' \in [Scrapes -> Jobs]
      BY <1>4, InfoFromType DEF OverviewReply, Jobs
    <2>7. pc' \in [Requests -> Places] /\ CurrentOK'
      BY <1>4, <1>0 DEF OverviewReply, EndModule, Goto, CurrentOK, Places
    <2> QED
      BY <1>4, <2>3, <2>5, <2>6, <2>7, InfoFromType DEF OverviewReply, EndModule
  <1>5. ASSUME NEW r \in Scrapes, NEW objects \in BOOLEAN, ModuleReply(r, objects)
        PROVE  TypeInv'
    <2> DEFINE m      == job[r].current
               series == Data(m, IF m \in ClusterLabelled THEN job[r].ctx.cluster ELSE "")
               ready  == IF m \in ResetOnReply THEN Reset(gauges, {m}) ELSE gauges
               const  == ConstMetric(r, series, r)
               gs     == IF ~objects THEN ready
                         ELSE IF m \in ConstMetrics THEN ready \union {const}
                         ELSE SetGauge(ready, r, series, r)
    <2>1. m \in Collectors /\ job[r].ctx \in Infos
      BY <1>5, <1>0 DEF ModuleReply, CurrentOK, Jobs
    <2>2. series \in Series
      BY <2>1, SeriesType
    <2>3. ready \in SUBSET Gauges /\ const \in Gauges
      BY <1>0, <2>2, ResetType DEF ConstMetric, Gauges
    <2>4. gs \in SUBSET Gauges
      BY <1>0, <2>2, <2>3, SetGaugeType
    <2>5. gauges' \in SUBSET Gauges
      BY <1>5, <2>1, <2>4, ReportedType DEF ModuleReply, EndModule
    <2>6. Ref(const) \in References /\ RefsOf(gs, {m}) \in SUBSET References
      BY <2>3, <2>4, RefsType DEF Ref, References, Gauges
    <2>7. chan' \in [Scrapes -> SUBSET References]
      BY <1>5, <2>6 DEF ModuleReply, Send
    <2>8. pc' \in [Requests -> Places] /\ CurrentOK'
      BY <1>5, <1>0 DEF ModuleReply, EndModule, Goto, CurrentOK, Places
    <2> QED
      BY <1>5, <2>5, <2>7, <2>8 DEF ModuleReply, EndModule
  <1>6. ASSUME NEW r \in Scrapes, QueueLimitExceeded(r)
        PROVE  TypeInv'
    <2>1. job[r].current \in Collectors
      BY <1>6, <1>0 DEF QueueLimitExceeded, CurrentOK
    <2>2. gauges' \in SUBSET Gauges
      BY <1>6, <2>1, ReportedType DEF QueueLimitExceeded, EndModule
    <2>3. pc' \in [Requests -> Places] /\ CurrentOK'
      BY <1>6, <1>0 DEF QueueLimitExceeded, EndModule, Goto, CurrentOK, Places
    <2> QED
      BY <1>6, <2>2, <2>3 DEF QueueLimitExceeded, EndModule
  <1>7. ASSUME NEW r \in Scrapes, ModuleError(r)
        PROVE  TypeInv'
    <2>1. job[r].current \in Collectors
      BY <1>7, <1>0 DEF ModuleError, CurrentOK
    <2>2. gauges' \in SUBSET Gauges
      BY <1>7, <2>1, ReportedType DEF ModuleError, EndModule
    <2>3. job' \in [Scrapes -> Jobs]
      BY <1>7 DEF ModuleError, Jobs
    <2>4. pc' \in [Requests -> Places] /\ CurrentOK'
      BY <1>7, <1>0 DEF ModuleError, EndModule, Goto, CurrentOK, Places
    <2> QED
      BY <1>7, <2>2, <2>3, <2>4 DEF ModuleError, EndModule
  <1>8. ASSUME NEW r \in Scrapes, FinishCollect(r)
        PROVE  TypeInv'
    <2> DEFINE set == SetGauge(gauges, r, Up(nodeInfo), UpValue(job[r].allUp))
               gs  == IF Named(nodeInfo) THEN Delete(set, Up(NoInfo)) ELSE set
    <2>1. Up(nodeInfo) \in Series
      BY DEF Up, Series, Infos, GlobalVecs
    <2>2. set \in SUBSET Gauges
      BY <1>0, <2>1, SetGaugeType DEF UpValue
    <2>3. gs \in SUBSET Gauges
      BY <2>2, ResetType
    <2>4. RefsOf(gs, GlobalVecs) \in SUBSET References
      BY <2>3, RefsType
    <2>5. chan' \in [Scrapes -> SUBSET References]
      BY <1>8, <2>4 DEF FinishCollect, Send
    <2>6. pc' \in [Requests -> Places] /\ CurrentOK'
      BY <1>8, <1>0 DEF FinishCollect, Goto, CurrentOK, Places
    <2>7. lastScrapeOK' \in BOOLEAN /\ gauges' \in SUBSET Gauges /\ mutex' = NoRequest
      BY <1>8, <2>3 DEF FinishCollect, Released, Jobs
    <2> QED
      BY <1>8, <2>5, <2>6, <2>7 DEF FinishCollect
  <1>9. ASSUME NEW r \in Scrapes, NEW g \in gauges, Write(r, g)
        PROVE  TypeInv'
    <2>1. [series |-> g.series, value |-> g.value] \in Samples
      BY DEF Gauges, Samples
    <2> QED
      BY <1>9, <2>1 DEF Write, CurrentOK
  <1>10. ASSUME NEW r \in Scrapes, Respond(r)
         PROVE  TypeInv'
    BY <1>10, <1>0 DEF Respond, Goto, Places, CurrentOK
  <1>11. ASSUME NEW p \in Probes, LockHealth(p)
         PROVE  TypeInv'
    BY <1>11, <1>0 DEF LockHealth, Goto, Places, CurrentOK
  <1>12. ASSUME NEW p \in Probes, AnswerHealth(p)
         PROVE  TypeInv'
    BY <1>12, <1>0 DEF AnswerHealth, Released, Goto, Places, CurrentOK
  <1>13. CASE UNCHANGED vars
    BY <1>13 DEF vars, CurrentOK
  <1> QED
    BY <1>1, <1>2, <1>3, <1>4, <1>5, <1>6, <1>7, <1>8, <1>9, <1>10, <1>11, <1>12, <1>13
    DEF Next, ScrapeStep, ProbeStep, EndRequest

(* Every variable stays in its domain, in every behaviour. *)
THEOREM TypeCorrect == Spec => []TypeOK
  <1>1. Spec => []TypeInv
    BY TypeInvInit, TypeInvNext, PTL DEF Spec
  <1>2. TypeInv => TypeOK
    BY DEF TypeInv
  <1> QED
    BY <1>1, <1>2, PTL
----------------------------------------------------------------------------
(* Operations on metric objects, under the conditions Collect creates: no  *)
(* gauge is ever found in its vector, so none is ever overwritten.         *)

Child(r, series, v) ==
  [series |-> series, born |-> r, value |-> v, registered |-> TRUE]

(* Setting a gauge nobody registered adds a child and touches no other. *)
LEMMA SetGaugeFresh ==
  ASSUME NEW gs, NEW r, NEW series, NEW v,
         \A g \in gs : g.registered => g.series # series
  PROVE  SetGauge(gs, r, series, v) = gs \union {Child(r, series, v)}
  BY DEF SetGauge, Child

(* Dropping children that left their vector already changes nothing. *)
LEMMA UnregisterNothing ==
  ASSUME NEW gs \in SUBSET Gauges, NEW dropped,
         \A g \in gs : g.registered => g \notin dropped
  PROVE  Unregister(gs, dropped) = gs
  <1>1. ASSUME NEW g \in gs
        PROVE  [g EXCEPT !.registered = @ /\ g \notin dropped] = g
    BY DEF Gauges
  <1> QED
    BY <1>1 DEF Unregister

(* A gauge that left its vector keeps its series, its birth and its value. *)
SameGauge(g, h) == g.series = h.series /\ g.born = h.born /\ g.value = h.value

(* Children that leave their vectors are the same gauges, unregistered. *)
LEMMA UnregisterMembers ==
  ASSUME NEW gs \in SUBSET Gauges, NEW dropped
  PROVE  /\ \A h \in Unregister(gs, dropped) : \E g \in gs :
              /\ SameGauge(g, h)
              /\ h.registered <=> g.registered /\ g \notin dropped
         /\ \A g \in gs : \E h \in Unregister(gs, dropped) :
              /\ SameGauge(g, h)
              /\ h.registered <=> g.registered /\ g \notin dropped
  <1> DEFINE Cut(g) == [g EXCEPT !.registered = @ /\ g \notin dropped]
  <1>1. ASSUME NEW g \in gs
        PROVE  /\ SameGauge(g, Cut(g))
               /\ Cut(g).registered <=> g.registered /\ g \notin dropped
    BY DEF SameGauge, Gauges
  <1>2. Unregister(gs, dropped) = {Cut(g) : g \in gs}
    BY DEF Unregister
  <1> HIDE DEF Cut
  <1> QED
    BY <1>1, <1>2

(* References stay unique when children leave their vectors. *)
LEMMA UnregisterUnique ==
  ASSUME NEW gs \in SUBSET Gauges, NEW dropped,
         \A g, h \in gs : Ref(g) = Ref(h) => g = h
  PROVE  \A g, h \in Unregister(gs, dropped) : Ref(g) = Ref(h) => g = h
  <1> DEFINE Cut(g) == [g EXCEPT !.registered = @ /\ g \notin dropped]
  <1>1. ASSUME NEW g \in gs
        PROVE  Ref(Cut(g)) = Ref(g)
    BY DEF Ref, Gauges
  <1> QED
    BY <1>1 DEF Unregister

(* The report of a module adds its module_up, and its duration when the    *)
(* node has a name, provided the module has not been reported yet.         *)
NewMarks(r, info, m, up) ==
  {Child(r, ModuleUp(info, m), up)} \union
    (IF Named(info) THEN {Child(r, Duration(info, m), 1)} ELSE {})

(* Reporting a module for the first time adds its marks and touches no     *)
(* other gauge.                                                            *)
LEMMA ReportedFresh ==
  ASSUME NEW gs \in SUBSET Gauges, NEW r \in Scrapes, NEW info \in Infos,
         NEW m \in Collectors, NEW up \in Values,
         \A g \in gs : g.registered /\ g.series.vec \in {"module_up", "duration"} =>
                         g.series.module # m
  PROVE  Reported(gs, r, info, m, up) = gs \union NewMarks(r, info, m, up)
  <1> DEFINE timed  == IF Named(info) THEN SetGauge(gs, r, Duration(info, m), 1) ELSE gs
             marked == SetGauge(timed, r, ModuleUp(info, m), up)
  <1>1. /\ Duration(info, m).vec = "duration" /\ Duration(info, m).module = m
        /\ ModuleUp(info, m).vec = "module_up" /\ ModuleUp(info, m).module = m
        /\ ModuleUp(NoInfo, m).vec = "module_up" /\ ModuleUp(NoInfo, m).module = m
    BY DEF Duration, ModuleUp
  <1>2. timed = IF Named(info) THEN gs \union {Child(r, Duration(info, m), 1)} ELSE gs
    <2>1. \A g \in gs : g.registered => g.series # Duration(info, m)
      BY <1>1
    <2>2. SetGauge(gs, r, Duration(info, m), 1) = gs \union {Child(r, Duration(info, m), 1)}
      BY <2>1, SetGaugeFresh
    <2> QED
      BY <2>2
  <1>3. \A g \in timed : g.registered => g.series # ModuleUp(info, m)
    BY <1>1, <1>2 DEF Child
  <1>4. marked = timed \union {Child(r, ModuleUp(info, m), up)}
    BY <1>3, SetGaugeFresh
  <1>5. marked = gs \union NewMarks(r, info, m, up)
    BY <1>2, <1>4 DEF NewMarks
  <1>6. CASE ~Named(info)
    BY <1>5, <1>6 DEF Reported
  <1>7. CASE Named(info)
    <2>1. ModuleUp(NoInfo, m) # ModuleUp(info, m)
      BY <1>7 DEF ModuleUp, NoInfo, Named
    <2>2. \A g \in marked : g.registered => g.series # ModuleUp(NoInfo, m)
      BY <1>1, <1>2, <1>4, <2>1 DEF Child
    <2>3. marked \in SUBSET Gauges
      <3>1. up \in Values /\ 1 \in Values
        BY DEF Values
      <3>2. timed \in SUBSET Gauges
        BY <3>1, SeriesType, SetGaugeType
      <3> QED
        BY <3>1, <3>2, SeriesType, SetGaugeType
    <2>4. Delete(marked, ModuleUp(NoInfo, m)) = marked
      BY <2>2, <2>3, UnregisterNothing DEF Delete
    <2> QED
      BY <1>5, <1>7, <2>4 DEF Reported
  <1> QED
    BY <1>6, <1>7
----------------------------------------------------------------------------
(* Some consequences of the definitions, for the provers. *)

(* Module vectors are none of the exporter's own, and every module is of   *)
(* one of the three kinds.                                                 *)
LEMMA VecsDisjoint ==
  /\ \A m \in Collectors : m \notin GlobalVecs
  /\ Collectors = Modules \union {"overview"} /\ "overview" \notin Modules
  /\ Modules \subseteq ResetFirst \union ResetOnReply \union ConstMetrics
  BY DEF Collectors, Modules, exporterFactories, GlobalVecs, ResetFirst, ResetOnReply,
         ConstMetrics

(* What up and module_up are set to is a value of a gauge. *)
LEMMA UpValues == 0 \in Values /\ 1 \in Values
  BY DEF Values

(* Nobody else is inside Collect while r is. *)
LEMMA Alone ==
  ASSUME MutexInv, NEW r \in Scrapes, pc[r] \in Inside
  PROVE  /\ mutex = r
         /\ \A q \in Scrapes : q # r => pc[q] \notin Inside
  BY DEF MutexInv

(* A step that adds only gauges nobody waits for, and reads none, leaves   *)
(* what scrape q shows as it was. *)
LEMMA ShownStable ==
  ASSUME NEW q \in Scrapes, NEW gs, NEW N, gs \in SUBSET Gauges, NEW dropped,
         gauges = gs, gauges' = Unregister(gs, dropped) \union N,
         \A n \in N : Ref(n) \notin chan[q],
         chan'[q] = chan[q], response'[q] = response[q]
  PROVE  Shown(q)' = Shown(q)
  <1> DEFINE Sample(g) == [series |-> g.series, value |-> g.value]
  <1>1. \A g, h : SameGauge(g, h) => Ref(g) = Ref(h) /\ Sample(g) = Sample(h)
    BY DEF SameGauge, Ref
  <1>2. \A g \in gauges' : Ref(g) \in chan[q] => g \in Unregister(gs, dropped)
    OBVIOUS
  <1>3. {Sample(g) : g \in {x \in gauges' : Ref(x) \in chan[q]}}
          = {Sample(g) : g \in {x \in gauges : Ref(x) \in chan[q]}}
    <2> HIDE DEF Sample
    <2>1. ASSUME NEW h \in gauges', Ref(h) \in chan[q]
          PROVE  \E g \in gauges : Ref(g) \in chan[q] /\ Sample(g) = Sample(h)
      BY <2>1, <1>1, <1>2, UnregisterMembers
    <2>2. ASSUME NEW g \in gauges, Ref(g) \in chan[q]
          PROVE  \E h \in gauges' : Ref(h) \in chan[q] /\ Sample(g) = Sample(h)
      BY <2>2, <1>1, UnregisterMembers
    <2> QED
      BY <2>1, <2>2
  <1> QED
    BY <1>3 DEF Shown, Ref
----------------------------------------------------------------------------
(* A step leaves every finished report as it is, whoever makes it: the     *)
(* registry may write the answer as slowly as it likes                     *)
(* (exporter.go:92, :125-127).                                             *)
AnswersKept == \A q \in Scrapes : pc[q] \in After => Shown(q)' = Shown(q)

(* The common shape of the four ways a module can end: it unregisters some *)
(* of its own gauges, adds gauges N, sends references, and is reported.    *)
EndStep(r, m, dropped, N, sent, info, up) ==
  /\ job[r].current = m
  /\ pc[r] = "requesting"
  /\ pc' = [pc EXCEPT ![r] = "collecting"]
  /\ \A q \in Scrapes : q # r => job'[q] = job[q]
  /\ job'[r].todo = job[r].todo
  /\ job'[r].allUp <=> job[r].allUp /\ up = 1
  /\ mutex' = mutex
  /\ nodeInfo' = info
  /\ m # "overview" => info = nodeInfo
  /\ response' = response
  /\ Send(r, sent)
  /\ gauges' = Unregister(gauges, dropped) \union (N \union NewMarks(r, info, m, up))
  /\ \A g \in dropped : g.series.vec = m
  /\ \A g \in N : g.born = r /\ g.series.vec = m /\ (g.registered => m \notin ConstMetrics)
  /\ \A g, h \in N : g = h
  /\ \A x \in sent : \E g \in gauges' : Ref(g) = x
  /\ \A g \in gauges' : Ref(g) \in sent =>
       /\ up = 1
       /\ g.series.vec = m
       /\ m # "overview" => g.value = r
       /\ m \in Modules \intersect ClusterLabelled => g.series.cluster = info.cluster

(* The end of a module, whatever its outcome, keeps the invariant: what it *)
(* adds is its scrape's own, and what it drops nobody shows.               *)
LEMMA EndStepInv ==
  ASSUME IInv, TypeOK', NEW r \in Scrapes, NEW m, NEW dropped, NEW N, NEW sent,
         NEW info \in Infos, NEW up \in Values, EndStep(r, m, dropped, N, sent, info, up)
  PROVE  IInv' /\ AnswersKept
  <1> DEFINE New == N \union NewMarks(r, info, m, up)
  <1>1. /\ mutex = r
        /\ \A q \in Scrapes : q # r => pc[q] \notin Inside
        /\ m \in Collectors /\ m \notin job[r].todo
    BY Alone DEF IInv, EndStep, JobInv, Inside
  <1>2. /\ pc'[r] = "collecting"
        /\ \A q \in Requests : q # r => pc'[q] = pc[q]
        /\ Scrapes \subseteq Requests /\ Probes \subseteq Requests /\ r \notin Probes
    BY RequestsAssumption DEF EndStep, IInv, TypeOK, Requests
  <1>3. /\ DoneBy(r)' = DoneBy(r) \union {m}
        /\ m \notin DoneBy(r)
        /\ \A q \in Scrapes : q # r => DoneBy(q)' = DoneBy(q)
    BY <1>1, <1>2 DEF DoneBy, EndStep
  <1>4. gauges \in SUBSET Gauges /\ gauges' = Unregister(gauges, dropped) \union New
    BY DEF EndStep, IInv, TypeOK
  <1>5. /\ \A g \in New : /\ g.born = r
                          /\ \/ g \in N /\ g.series.vec = m
                             \/ /\ g \in NewMarks(r, info, m, up)
                                /\ g.series.vec \in {"module_up", "duration"}
                                /\ g.series.module = m /\ g.registered
                                /\ g.series.cluster = info.cluster
                                /\ g.series.node = info.node
        /\ Child(r, ModuleUp(info, m), up) \in New
        /\ \A g \in New : g.series.vec = "module_up" => g = Child(r, ModuleUp(info, m), up)
    BY <1>1, VecsDisjoint DEF EndStep, NewMarks, Child, ModuleUp, Duration, GlobalVecs
  <1>6. ASSUME NEW g \in New, NEW h \in gauges
        PROVE  Ref(g) # Ref(h)
    <2>1. h.born = r => h.series.vec # m
      BY <1>1, <1>3 DEF IInv, BirthInv
    <2>2. h.born = r /\ h.series.vec \in {"module_up", "duration"} => h.series.module # m
      BY <1>3 DEF IInv, BirthInv
    <2> HIDE DEF New
    <2> QED
      BY <1>5, <2>1, <2>2 DEF Ref
  <1>7. ASSUME NEW g \in New, NEW h \in New, Ref(g) = Ref(h)
        PROVE  g = h
    <2>1. g.series = h.series
      BY <1>7 DEF Ref
    <2>2. CASE g \in N
      BY <1>1, <1>5, <2>1, <2>2, VecsDisjoint DEF EndStep, GlobalVecs
    <2>3. CASE g \in NewMarks(r, info, m, up)
      <3>1. h \notin N
        BY <1>1, <1>5, <2>1, <2>3, VecsDisjoint DEF EndStep, GlobalVecs, NewMarks, Child,
           ModuleUp, Duration
      <3> DEFINE mu == Child(r, ModuleUp(info, m), up)
                 du == Child(r, Duration(info, m), 1)
      <3>2. g \in {mu, du} /\ h \in {mu, du}
        BY <2>3, <3>1 DEF NewMarks
      <3>3. mu.series # du.series
        BY DEF Child, ModuleUp, Duration
      <3> QED
        BY <2>1, <3>2, <3>3
    <2> QED
      BY <2>2, <2>3
  <1>8. ASSUME NEW h \in gauges', h \notin New
        PROVE  \E g \in gauges : /\ SameGauge(g, h)
                                 /\ h.registered <=> g.registered /\ g \notin dropped
    BY <1>4, <1>8, UnregisterMembers
  <1>80. ASSUME NEW g \in gauges
         PROVE  \E h \in gauges' : SameGauge(g, h)
    BY <1>4, UnregisterMembers
  <1>9. \A q \in Scrapes : \A n \in New : Ref(n) \notin chan[q]
    BY <1>6 DEF IInv, ChanInv
  <1>10. \A q \in Scrapes : q # r => Shown(q)' = Shown(q)
    <2>1. ASSUME NEW q \in Scrapes, q # r
          PROVE  chan'[q] = chan[q] /\ response'[q] = response[q]
      BY <2>1 DEF EndStep, Send, IInv, TypeOK
    <2> HIDE DEF New
    <2> QED
      BY <1>4, <1>9, <2>1, ShownStable
  <1> HIDE DEF New
  <1>11. MutexInv'
    BY <1>1, <1>2 DEF EndStep, IInv, MutexInv, Inside
  <1>12. JobInv'
    BY <1>1, <1>2 DEF EndStep, IInv, JobInv, Inside, After
  <1>13. BirthInv'
    <2>1. \A g, h \in gauges' : Ref(g) = Ref(h) => g = h
      <3>1. \A g, h \in Unregister(gauges, dropped) : Ref(g) = Ref(h) => g = h
        BY <1>4, UnregisterUnique DEF IInv, BirthInv
      <3> QED
        <4>1. ASSUME NEW g \in New, NEW h \in gauges', h \notin New
              PROVE  Ref(g) # Ref(h)
          BY <4>1, <1>6, <1>8 DEF SameGauge, Ref
        <4> QED
          BY <1>4, <1>7, <3>1, <4>1
    <2>2. ASSUME NEW n \in New
          PROVE  /\ pc'[n.born] \in Inside \union After
                 /\ n.series.vec \in Collectors \union GlobalVecs
                 /\ n.series.vec \in Collectors => n.series.vec \in DoneBy(n.born)'
                 /\ n.series.vec \in {"module_up", "duration"} =>
                      n.series.module \in DoneBy(n.born)'
                 /\ n.series.vec # "up"
      BY <1>1, <1>2, <1>3, <1>5, VecsDisjoint DEF GlobalVecs, Inside
    <2>3. ASSUME NEW o \in gauges
          PROVE  /\ pc'[o.born] \in Inside \union After
                 /\ o.series.vec \in Collectors \union GlobalVecs
                 /\ o.series.vec \in Collectors => o.series.vec \in DoneBy(o.born)'
                 /\ o.series.vec \in {"module_up", "duration"} =>
                      o.series.module \in DoneBy(o.born)'
                 /\ o.series.vec = "up" => pc'[o.born] \in After
      <3>1. o.born \in Scrapes
        BY <1>4 DEF Gauges
      <3>2. DoneBy(o.born) \subseteq DoneBy(o.born)'
        BY <1>3, <3>1
      <3>3. pc[o.born] \in Inside \union After /\ (pc[o.born] \in After => o.born # r)
        BY DEF IInv, BirthInv, EndStep, After
      <3>4. pc'[o.born] \in Inside \union After /\ (pc[o.born] \in After => pc'[o.born] \in After)
        BY <1>2, <3>1, <3>3 DEF Inside
      <3>5. /\ o.series.vec \in Collectors \union GlobalVecs
            /\ o.series.vec \in Collectors => o.series.vec \in DoneBy(o.born)
            /\ o.series.vec \in {"module_up", "duration"} => o.series.module \in DoneBy(o.born)
            /\ o.series.vec = "up" => pc[o.born] \in After
        BY DEF IInv, BirthInv
      <3> QED
        BY <3>2, <3>4, <3>5
    <2>4. ASSUME NEW h \in gauges', h \notin New
          PROVE
               /\ pc'[h.born] \in Inside \union After
               /\ h.series.vec \in Collectors \union GlobalVecs
               /\ h.series.vec \in Collectors => h.series.vec \in DoneBy(h.born)'
               /\ h.series.vec \in {"module_up", "duration"} =>
                    h.series.module \in DoneBy(h.born)'
               /\ h.series.vec = "up" => pc'[h.born] \in After
      <3>1. PICK g \in gauges : SameGauge(g, h)
        BY <1>8, <2>4
      <3> QED
        BY <2>3, <3>1 DEF SameGauge
    <2>5. ASSUME NEW h \in gauges'
          PROVE  /\ pc'[h.born] \in Inside \union After
                 /\ h.series.vec \in Collectors \union GlobalVecs
                 /\ h.series.vec \in Collectors => h.series.vec \in DoneBy(h.born)'
                 /\ h.series.vec \in {"module_up", "duration"} =>
                      h.series.module \in DoneBy(h.born)'
                 /\ h.series.vec = "up" => pc'[h.born] \in After
      <3>1. CASE h \in New
        BY <2>2, <3>1
      <3>2. CASE h \notin New
        BY <2>4, <3>2
      <3> QED
        BY <3>1, <3>2
    <2> QED
      BY <2>1, <2>5 DEF BirthInv
  <1>14. RegisteredInv'
    <2>1. \A q \in Scrapes : pc'[q] # "requesting"
      BY <1>1, <1>2 DEF Inside
    <2>2. mutex' = r
      BY <1>1 DEF EndStep
    <2>3. ASSUME NEW h \in gauges', h.registered
          PROVE  /\ h.series.vec \in GlobalVecs => h.born = r
                 /\ h.series.vec \notin ConstMetrics
      <3>1. CASE h \in New
        BY <2>3, <3>1, <1>5 DEF EndStep, ConstMetrics
      <3>2. CASE h \notin New
        BY <2>3, <3>2, <1>8, <1>1 DEF SameGauge, IInv, RegisteredInv
      <3> QED
        BY <3>1, <3>2
    <2> QED
      BY <2>1, <2>2, <2>3 DEF RegisteredInv
  <1>15. ChanInv'
    <2>1. ASSUME NEW q \in Scrapes, NEW x \in chan'[q]
          PROVE  \E g \in gauges' : Ref(g) = x
      <3>1. x \in chan[q] \/ (q = r /\ x \in sent)
        BY <2>1 DEF EndStep, Send, IInv, TypeOK
      <3>2. CASE x \in chan[q]
        <4>1. PICK g \in gauges : Ref(g) = x
          BY <3>2 DEF IInv, ChanInv
        <4> QED
          BY <4>1, <1>80 DEF SameGauge, Ref
      <3> QED
        BY <3>1, <3>2 DEF EndStep
    <2>2. ASSUME NEW q \in Scrapes, q # r
          PROVE  chan'[q] = chan[q] /\ response'[q] = response[q] /\ pc'[q] = pc[q]
      BY <2>2, <1>2 DEF EndStep, Send, IInv, TypeOK
    <2> QED
      BY <2>1, <2>2, <1>2 DEF IInv, ChanInv, Inside
  <1>16. PartialInv'
    <2> DEFINE mu == Child(r, ModuleUp(info, m), up)
    <2>1. \A q \in Scrapes : q # r => pc'[q] \notin Inside
      BY <1>1, <1>2
    <2>2. /\ mu \in UpMarks(r, m)' /\ mu.value = up
          /\ \A h \in UpMarks(r, m)' : h.value = up
      <3>1. mu \in UpMarks(r, m)' /\ mu.value = up
        BY <1>4, <1>5 DEF UpMarks, Child, ModuleUp
      <3>2. ASSUME NEW h \in UpMarks(r, m)'
            PROVE  h = mu
        <4>1. h \in New
          BY <1>3, <1>8, <3>2 DEF UpMarks, SameGauge, IInv, BirthInv
        <4> QED
          BY <1>5, <3>2, <4>1 DEF UpMarks
      <3> QED
        BY <3>1, <3>2
    <2>3. ASSUME NEW d \in DoneBy(r)
          PROVE  /\ \A g \in UpMarks(r, d) : \E h \in UpMarks(r, d)' : h.value = g.value
                 /\ \A h \in UpMarks(r, d)' : \E g \in UpMarks(r, d) : h.value = g.value
      <3>1. d # m
        BY <1>3
      <3>2. \A h \in UpMarks(r, d)' : h \notin New
        BY <3>1, <1>5 DEF UpMarks, Child, ModuleUp
      <3>3. ASSUME NEW h \in UpMarks(r, d)'
            PROVE  \E g \in UpMarks(r, d) : h.value = g.value
        BY <1>8, <3>2, <3>3 DEF UpMarks, SameGauge
      <3>4. ASSUME NEW g \in UpMarks(r, d)
            PROVE  \E h \in UpMarks(r, d)' : h.value = g.value
        BY <1>80, <3>4 DEF UpMarks, SameGauge
      <3> QED
        BY <3>3, <3>4
    <2>4. pc[r] \in Inside
      BY DEF EndStep, Inside
    <2>5. ASSUME NEW s \in Shown(r)'
          PROVE  /\ s.series.vec \in DoneBy(r)'
                 /\ \E g \in UpMarks(r, s.series.vec)' : g.value = 1
                 /\ s.series.vec # "overview" => s.value = r
                 /\ s.series.vec \in Modules \intersect ClusterLabelled =>
                      s.series.cluster = info.cluster
      <3>1. \/ s \in Shown(r)
            \/ \E g \in gauges' : Ref(g) \in sent /\ s = [series |-> g.series, value |-> g.value]
        <4>1. CASE s \in response[r]
          BY <4>1 DEF Shown
        <4>2. CASE s \notin response[r]
          <5>1. PICK h \in gauges' : /\ Ref(h) \in chan'[r]
                                     /\ s = [series |-> h.series, value |-> h.value]
            BY <2>5, <4>2 DEF Shown, EndStep
          <5>2. CASE Ref(h) \in chan[r]
            <6>1. PICK g \in gauges : SameGauge(g, h)
              BY <1>8, <1>9, <5>2
            <6> QED
              BY <5>1, <5>2, <6>1 DEF Shown, SameGauge, Ref
          <5>3. CASE Ref(h) \in sent
            BY <5>1, <5>3
          <5> QED
            BY <5>1, <5>2, <5>3 DEF EndStep, Send, IInv, TypeOK
        <4> QED
          BY <4>1, <4>2
      <3>2. CASE s \in Shown(r)
        <4>1. /\ s.series.vec \in DoneBy(r)
              /\ \E g \in UpMarks(r, s.series.vec) : g.value = 1
              /\ s.series.vec # "overview" => s.value = r
              /\ s.series.vec \in Modules \intersect ClusterLabelled =>
                      s.series.cluster = nodeInfo.cluster
          BY <2>4, <3>2 DEF IInv, PartialInv
        <4>2. m # "overview"
          BY <4>1, <2>4, <1>3 DEF IInv, JobInv, DoneBy, EndStep
        <4> QED
          BY <4>1, <4>2, <1>3, <2>3 DEF EndStep
      <3>3. CASE \E g \in gauges' : /\ Ref(g) \in sent
                                    /\ s = [series |-> g.series, value |-> g.value]
        BY <3>3, <2>2, <1>3 DEF EndStep
      <3> QED
        BY <3>1, <3>2, <3>3
    <2>6. ASSUME NEW h \in Marks(r)'
          PROVE  /\ h.registered
                 /\ h.series.cluster = info.cluster
                 /\ h.series.node = info.node
      <3>1. CASE h \in New
        BY <2>6, <3>1, <1>1, <1>5, VecsDisjoint DEF Marks, GlobalVecs
      <3>2. CASE h \notin New
        <4>1. PICK g \in gauges : /\ SameGauge(g, h)
                                  /\ h.registered <=> g.registered /\ g \notin dropped
          BY <1>8, <3>2, <2>6 DEF Marks
        <4>2. g \in Marks(r)
          BY <2>6, <4>1 DEF Marks, SameGauge
        <4>3. g \notin dropped
          BY <4>2, <1>1, VecsDisjoint DEF Marks, EndStep, GlobalVecs
        <4>4. m # "overview"
          BY <4>2, <1>3 DEF Marks, IInv, BirthInv, JobInv, DoneBy, EndStep
        <4> QED
          BY <2>4, <4>1, <4>2, <4>3, <4>4 DEF IInv, PartialInv, EndStep, SameGauge
      <3> QED
        BY <3>1, <3>2
    <2>7. \A d \in DoneBy(r)' : UpMarks(r, d)' # {}
      BY <1>3, <2>2, <2>3, <2>4 DEF IInv, PartialInv
    <2>8. job'[r].allUp <=> \A d \in DoneBy(r)' : \A g \in UpMarks(r, d)' : g.value = 1
      <3>1. job[r].allUp <=> \A d \in DoneBy(r) : \A g \in UpMarks(r, d) : g.value = 1
        BY <2>4 DEF IInv, PartialInv
      <3>2. (\A d \in DoneBy(r) : \A g \in UpMarks(r, d) : g.value = 1)
              <=> (\A d \in DoneBy(r) : \A g \in UpMarks(r, d)' : g.value = 1)
        BY <2>3
      <3>3. (\A g \in UpMarks(r, m)' : g.value = 1) <=> up = 1
        BY <2>2
      <3> QED
        BY <1>3, <3>1, <3>2, <3>3 DEF EndStep
    <2>9. nodeInfo' = info
      BY DEF EndStep
    <2> QED
      BY <2>1, <2>5, <2>6, <2>7, <2>8, <2>9 DEF PartialInv
  <1>17. FinishedInv'
    <2>1. \A q \in Scrapes : pc'[q] \in After => q # r /\ pc[q] \in After
      BY <1>2 DEF After
    <2> QED
      BY <1>10, <2>1 DEF IInv, FinishedInv, Coherent, OwnData, Of, Identity
  <1>18. AnswersKept
    BY <1>10 DEF AnswersKept, EndStep, After
  <1> QED
    BY <1>11, <1>12, <1>13, <1>14, <1>15, <1>16, <1>17, <1>18 DEF IInv
----------------------------------------------------------------------------
(* Steps that move requests outside Collect and touch nothing else of a    *)
(* scrape keep everything but, perhaps, MutexInv. *)
LEMMA QuietStepInv ==
  ASSUME IInv, TypeOK', MutexInv',
         UNCHANGED <<nodeInfo, gauges, chan, job, response>>,
         mutex' \in Scrapes => mutex' = mutex,
         \A r \in Scrapes : \/ pc'[r] = pc[r]
                            \/ pc[r] = "new" /\ pc'[r] = "locking"
                            \/ pc[r] = "draining" /\ pc'[r] = "done" /\ chan[r] = {}
  PROVE  IInv' /\ AnswersKept
  <1>1. ASSUME NEW r \in Scrapes
        PROVE  /\ pc'[r] \in Inside => pc'[r] = pc[r]
               /\ pc'[r] \in After <=> pc[r] \in After
               /\ pc'[r] \in Inside <=> pc[r] \in Inside
               /\ pc'[r] = "requesting" <=> pc[r] = "requesting"
               /\ DoneBy(r)' = DoneBy(r)
               /\ Shown(r)' = Shown(r)
               /\ Marks(r)' = Marks(r)
               /\ \A d : UpMarks(r, d)' = UpMarks(r, d)
    <2>1. pc'[r] = "requesting" <=> pc[r] = "requesting"
      OBVIOUS
    <2>2. DoneBy(r)' = DoneBy(r)
      BY <2>1 DEF DoneBy
    <2>3. /\ pc'[r] \in Inside => pc'[r] = pc[r]
          /\ pc'[r] \in After <=> pc[r] \in After
          /\ pc'[r] \in Inside <=> pc[r] \in Inside
      BY DEF Inside, After
    <2> QED
      BY <2>1, <2>2, <2>3 DEF Shown, Marks, UpMarks
  <1>2. JobInv'
    BY <1>1 DEF IInv, JobInv
  <1>3. BirthInv'
    <2>1. ASSUME NEW o \in gauges
          PROVE  /\ o.born \in Scrapes
                 /\ pc'[o.born] \in Inside \union After
                 /\ o.series.vec \in Collectors \union GlobalVecs
                 /\ o.series.vec \in Collectors => o.series.vec \in DoneBy(o.born)'
                 /\ o.series.vec \in {"module_up", "duration"} =>
                      o.series.module \in DoneBy(o.born)'
                 /\ o.series.vec = "up" => pc'[o.born] \in After
      <3>1. o.born \in Scrapes
        BY DEF IInv, TypeOK, Gauges
      <3> QED
        BY <1>1, <3>1 DEF IInv, BirthInv
    <2> QED
      BY <2>1 DEF IInv, BirthInv
  <1>4. RegisteredInv'
    BY <1>1 DEF IInv, RegisteredInv
  <1>5. ChanInv'
    BY <1>1 DEF IInv, ChanInv, After, Inside
  <1>6. PartialInv'
    BY <1>1 DEF IInv, PartialInv
  <1>7. FinishedInv'
    BY <1>1 DEF IInv, FinishedInv, Coherent, OwnData, Of, Identity
  <1>8. AnswersKept
    BY <1>1 DEF AnswersKept
  <1> QED
    BY <1>2, <1>3, <1>4, <1>5, <1>6, <1>7, <1>8 DEF IInv

(* Steps that only take children out of their vectors, none of them a mark *)
(* of a scrape in progress, and change neither what collectors are done    *)
(* nor what was sent. *)
LEMMA ThinStep ==
  ASSUME IInv, NEW dropped, gauges' = Unregister(gauges, dropped),
         UNCHANGED <<chan, response>>,
         NEW r \in Scrapes, DoneBy(r)' = DoneBy(r)
  PROVE  /\ Shown(r)' = Shown(r)
         /\ \A x \in chan'[r] : \E g \in gauges' : Ref(g) = x
         /\ \A d : /\ \A g \in UpMarks(r, d) : \E h \in UpMarks(r, d)' : h.value = g.value
                   /\ \A h \in UpMarks(r, d)' : \E g \in UpMarks(r, d) : h.value = g.value
         /\ (\A g \in Marks(r) : g \notin dropped) =>
              \A h \in Marks(r)' : \E g \in Marks(r) :
                g.series = h.series /\ (h.registered <=> g.registered)
  <1>1. gauges \in SUBSET Gauges
    BY DEF IInv, TypeOK
  <1>2. ASSUME NEW h \in gauges'
        PROVE  \E g \in gauges : /\ SameGauge(g, h)
                                 /\ h.registered <=> g.registered /\ g \notin dropped
    BY <1>1, UnregisterMembers
  <1>3. ASSUME NEW g \in gauges
        PROVE  \E h \in gauges' : SameGauge(g, h)
    BY <1>1, UnregisterMembers
  <1>4. Shown(r)' = Shown(r)
    <2> DEFINE None == {}
    <2>1. gauges' = Unregister(gauges, dropped) \union None
      OBVIOUS
    <2>2. \A n \in None : Ref(n) \notin chan[r]
      OBVIOUS
    <2> HIDE DEF None
    <2> QED
      BY <1>1, <2>1, <2>2, ShownStable
  <1>5. ASSUME NEW x \in chan'[r]
        PROVE  \E g \in gauges' : Ref(g) = x
    <2>1. PICK g \in gauges : Ref(g) = x
      BY <1>5 DEF IInv, ChanInv
    <2> QED
      BY <1>3, <2>1 DEF SameGauge, Ref
  <1>6. ASSUME NEW d, NEW g \in UpMarks(r, d)
        PROVE  \E h \in UpMarks(r, d)' : h.value = g.value
    BY <1>3, <1>6 DEF UpMarks, SameGauge
  <1>7. ASSUME NEW d, NEW h \in UpMarks(r, d)'
        PROVE  \E g \in UpMarks(r, d) : h.value = g.value
    BY <1>2, <1>7 DEF UpMarks, SameGauge
  <1>8. ASSUME \A g \in Marks(r) : g \notin dropped, NEW h \in Marks(r)'
        PROVE  \E g \in Marks(r) : g.series = h.series /\ (h.registered <=> g.registered)
    <2>1. h \in gauges' /\ h.born = r /\ h.series.vec \in {"module_up", "duration"}
      BY <1>8 DEF Marks
    <2>2. PICK g \in gauges : /\ SameGauge(g, h)
                              /\ h.registered <=> g.registered /\ g \notin dropped
      BY <1>2, <2>1
    <2>3. g \in Marks(r)
      BY <2>1, <2>2 DEF Marks, SameGauge
    <2> QED
      BY <1>8, <2>2, <2>3 DEF SameGauge
  <1> QED
    BY <1>4, <1>5, <1>6, <1>7, <1>8

(* And they keep what the gauges tell of their birth. *)
LEMMA ThinBirth ==
  ASSUME IInv, NEW dropped, gauges' = Unregister(gauges, dropped),
         \A o \in Scrapes : pc[o] \in Inside \union After =>
           /\ DoneBy(o)' = DoneBy(o)
           /\ pc'[o] \in Inside \union After
           /\ pc[o] \in After => pc'[o] \in After
  PROVE  BirthInv'
  <1>1. gauges \in SUBSET Gauges
    BY DEF IInv, TypeOK
  <1>2. \A g, h \in gauges' : Ref(g) = Ref(h) => g = h
    BY <1>1, UnregisterUnique DEF IInv, BirthInv
  <1>3. ASSUME NEW h \in gauges'
        PROVE  /\ pc'[h.born] \in Inside \union After
               /\ h.series.vec \in Collectors \union GlobalVecs
               /\ h.series.vec \in Collectors => h.series.vec \in DoneBy(h.born)'
               /\ h.series.vec \in {"module_up", "duration"} =>
                    h.series.module \in DoneBy(h.born)'
               /\ h.series.vec = "up" => pc'[h.born] \in After
    <2>1. PICK o \in gauges : SameGauge(o, h)
      BY <1>1, UnregisterMembers
    <2>2. o.born \in Scrapes
      BY <1>1 DEF Gauges
    <2>3. /\ pc[o.born] \in Inside \union After
          /\ o.series.vec \in Collectors \union GlobalVecs
          /\ o.series.vec \in Collectors => o.series.vec \in DoneBy(o.born)
          /\ o.series.vec \in {"module_up", "duration"} => o.series.module \in DoneBy(o.born)
          /\ o.series.vec = "up" => pc[o.born] \in After
      BY DEF IInv, BirthInv
    <2> QED
      BY <2>1, <2>2, <2>3 DEF SameGauge
  <1> QED
    BY <1>2, <1>3 DEF BirthInv
----------------------------------------------------------------------------
(* Taking the mutex: the vectors are emptied, the report starts from nothing. *)
LEMMA LockCollectInv ==
  ASSUME IInv, TypeOK', NEW r \in Scrapes, LockCollect(r)
  PROVE  IInv' /\ AnswersKept
  <1> DEFINE global == {g \in gauges : g.series.vec \in GlobalVecs}
  <1>1. /\ gauges' = Unregister(gauges, global)
        /\ UNCHANGED <<nodeInfo, chan, response>>
        /\ mutex = NoRequest /\ mutex' = r
        /\ pc[r] = "locking" /\ pc'[r] = "collecting"
        /\ job'[r].todo = Collectors /\ job'[r].allUp = TRUE
        /\ chan[r] = {} /\ response[r] = {}
        /\ Scrapes \subseteq Requests /\ r \notin Probes
    <2>1. NewJob.todo = Collectors /\ NewJob.allUp = TRUE
      BY DEF NewJob
    <2>2. job'[r] = NewJob
      BY DEF LockCollect, IInv, TypeOK
    <2> QED
      BY <2>1, <2>2, RequestsAssumption
      DEF LockCollect, Emptied, MutexFree, Reset, Goto, IInv, TypeOK, ChanInv, Inside, After,
          Requests
  <1>2. \A q \in Scrapes : q # r => pc'[q] = pc[q] /\ job'[q] = job[q] /\ pc[q] \notin Inside
    BY <1>1, RequestsAssumption
    DEF LockCollect, Goto, IInv, TypeOK, MutexInv, Requests
  <1>3. /\ DoneBy(r)' = {}
        /\ \A q \in Scrapes : q # r => DoneBy(q)' = DoneBy(q)
        /\ \A q \in Scrapes : pc[q] \in Inside \union After => q # r
    <2>1. DoneBy(r)' = {}
      BY <1>1 DEF DoneBy
    <2>2. ASSUME NEW q \in Scrapes, q # r
          PROVE  DoneBy(q)' = DoneBy(q)
      BY <1>2, <2>2 DEF DoneBy
    <2> QED
      BY <1>1, <2>1, <2>2 DEF Inside, After
  <1>4. MutexInv'
    <2>1. \A q \in Requests : q # r => pc'[q] = pc[q]
      BY DEF LockCollect, Goto, IInv, TypeOK
    <2> QED
      BY <1>1, <2>1, RequestsAssumption DEF IInv, MutexInv, Inside, Requests
  <1>5. JobInv'
    BY <1>1, <1>2 DEF IInv, JobInv, Inside, After
  <1>6. BirthInv'
    <2> HIDE DEF global
    <2> QED
      BY <1>1, <1>2, <1>3, ThinBirth
  <1>7. RegisteredInv'
    <2>1. ASSUME NEW h \in gauges', h.registered
          PROVE  h.series.vec \notin GlobalVecs /\ h.series.vec \notin ConstMetrics
      <3>1. PICK g \in gauges : /\ SameGauge(g, h)
                                /\ h.registered <=> g.registered /\ g \notin global
        BY <1>1, UnregisterMembers DEF IInv, TypeOK
      <3> QED
        BY <2>1, <3>1 DEF SameGauge, IInv, RegisteredInv
    <2>2. \A q \in Scrapes : pc'[q] # "requesting"
      BY <1>1, <1>2 DEF Inside
    <2> QED
      BY <2>1, <2>2 DEF RegisteredInv
  <1>8. ChanInv'
    <2>1. ASSUME NEW q \in Scrapes, NEW x \in chan'[q]
          PROVE  \E g \in gauges' : Ref(g) = x
      <3>1. q # r
        BY <1>1, <2>1
      <3>2. DoneBy(q)' = DoneBy(q)
        BY <1>3, <3>1
      <3> HIDE DEF global
      <3> QED
        BY <1>1, <2>1, <3>2, ThinStep
    <2> QED
      BY <1>1, <1>2, <2>1 DEF IInv, ChanInv, Inside
  <1>9. PartialInv'
    <2>1. \A q \in Scrapes : q # r => pc'[q] \notin Inside
      BY <1>2
    <2>2. \A g \in gauges' : g.born # r
      <3>1. \A g \in gauges : g.born # r
        BY <1>1 DEF IInv, BirthInv, Inside, After
      <3> QED
        BY <1>1, <3>1, UnregisterMembers DEF SameGauge, IInv, TypeOK
    <2>3. Shown(r)' = {} /\ Marks(r)' = {}
      BY <1>1, <2>2 DEF Shown, Marks
    <2>4. job'[r].allUp
      BY <1>1
    <2> QED
      BY <1>3, <2>1, <2>3, <2>4 DEF PartialInv
  <1>10. AnswersKept
    <2>1. ASSUME NEW q \in Scrapes, pc[q] \in After
          PROVE  Shown(q)' = Shown(q)
      <3>1. q # r
        BY <1>1, <2>1 DEF After
      <3>2. DoneBy(q)' = DoneBy(q)
        BY <1>3, <3>1
      <3> HIDE DEF global
      <3> QED
        BY <1>1, <3>2, ThinStep
    <2> QED
      BY <2>1 DEF AnswersKept
  <1>11. FinishedInv'
    <2>1. \A q \in Scrapes : pc'[q] \in After => pc[q] \in After
      BY <1>1, <1>2 DEF After
    <2> QED
      BY <1>10, <2>1 DEF AnswersKept, IInv, FinishedInv, Coherent, OwnData, Of, Identity
  <1> QED
    BY <1>4, <1>5, <1>6, <1>7, <1>8, <1>9, <1>10, <1>11 DEF IInv

(* Beginning a module: its own vectors are emptied, if they are emptied    *)
(* before the request, and the context is the current node info.           *)
LEMMA BeginModuleInv ==
  ASSUME IInv, TypeOK', NEW r \in Scrapes, NEW m \in Collectors, BeginModule(r, m)
  PROVE  IInv' /\ AnswersKept
  <1>1. PICK dropped : /\ gauges' = Unregister(gauges, dropped)
                       /\ \A g \in dropped : g.series.vec = m
                       /\ m \in ResetFirst =>
                            \A g \in gauges : g.series.vec = m => g \in dropped
    <2>1. CASE m \in ResetFirst
      <3>1. gauges' = Unregister(gauges, {g \in gauges : g.series.vec \in {m}})
        BY <2>1 DEF BeginModule, Reset
      <3> QED
        BY <3>1
    <2>2. CASE m \notin ResetFirst
      <3>1. gauges' = Unregister(gauges, {})
        BY <2>2, UnregisterNothing DEF BeginModule, IInv, TypeOK
      <3> QED
        BY <2>2, <3>1
    <2> QED
      BY <2>1, <2>2
  <1>2. /\ UNCHANGED <<mutex, nodeInfo, chan, response>>
        /\ pc[r] = "collecting" /\ pc'[r] = "requesting"
        /\ m \in job[r].todo
        /\ "overview" \in job[r].todo => m = "overview" /\ job[r].todo = Collectors
        /\ job'[r].todo = job[r].todo \ {m} /\ job'[r].current = m
        /\ job'[r].ctx = nodeInfo /\ job'[r].allUp = job[r].allUp
        /\ Scrapes \subseteq Requests /\ r \notin Probes
    BY RequestsAssumption
    DEF BeginModule, NextModules, Goto, IInv, TypeOK, Jobs, JobInv, Inside, Requests
  <1>3. /\ mutex = r
        /\ \A q \in Scrapes : q # r => pc[q] \notin Inside
    BY <1>2, Alone DEF IInv, Inside
  <1>4. \A q \in Requests : q # r => pc'[q] = pc[q]
    BY DEF BeginModule, Goto, IInv, TypeOK
  <1>5. \A q \in Scrapes : DoneBy(q)' = DoneBy(q)
    <2>1. \A q \in Scrapes : q # r => job'[q] = job[q] /\ pc'[q] = pc[q]
      BY <1>2, <1>4 DEF BeginModule, IInv, TypeOK
    <2>2. DoneBy(r)' = DoneBy(r)
      BY <1>2 DEF DoneBy
    <2>3. ASSUME NEW q \in Scrapes, q # r
          PROVE  DoneBy(q)' = DoneBy(q)
      BY <2>1, <2>3 DEF DoneBy
    <2> QED
      BY <2>2, <2>3
  <1>6. MutexInv'
    BY <1>2, <1>4 DEF IInv, MutexInv, Inside, Requests
  <1>7. JobInv'
    <2>1. \A q \in Scrapes : q # r => job'[q] = job[q] /\ pc'[q] = pc[q] /\ pc[q] \notin Inside
      BY <1>2, <1>3, <1>4 DEF BeginModule, IInv, TypeOK
    <2> QED
      BY <1>2, <2>1, VecsDisjoint DEF IInv, JobInv, Inside, After
  <1>8. BirthInv'
    <2>1. \A o \in Scrapes : pc[o] \in Inside \union After =>
             /\ pc'[o] \in Inside \union After
             /\ pc[o] \in After => pc'[o] \in After
      BY <1>2, <1>4 DEF Inside, After
    <2> QED
      BY <1>1, <1>5, <2>1, ThinBirth
  <1>9. RegisteredInv'
    <2>1. ASSUME NEW h \in gauges', h.registered
          PROVE  /\ h.series.vec \in GlobalVecs => h.born = r
                 /\ h.series.vec \notin ConstMetrics
                 /\ m \in ResetFirst => h.series.vec # m
      <3>1. PICK g \in gauges : /\ SameGauge(g, h)
                                /\ h.registered <=> g.registered /\ g \notin dropped
        BY <1>1, UnregisterMembers DEF IInv, TypeOK
      <3> QED
        BY <1>1, <1>3, <2>1, <3>1 DEF SameGauge, IInv, RegisteredInv
    <2>2. \A q \in Scrapes : pc'[q] = "requesting" => q = r
      BY <1>2, <1>3, <1>4 DEF Inside
    <2> QED
      BY <1>2, <1>3, <2>1, <2>2 DEF RegisteredInv
  <1>10. ChanInv'
    <2>1. ASSUME NEW q \in Scrapes, NEW x \in chan'[q]
          PROVE  \E g \in gauges' : Ref(g) = x
      BY <1>1, <1>2, <1>5, <2>1, ThinStep
    <2> QED
      BY <1>2, <1>4, <2>1 DEF IInv, ChanInv, Inside
  <1>11. PartialInv'
    <2>1. \A q \in Scrapes : q # r => pc'[q] \notin Inside
      BY <1>2, <1>3, <1>4
    <2>2. pc[r] \in Inside
      BY <1>2 DEF Inside
    <2>3. \A g \in Marks(r) : g \notin dropped
      BY <1>1, VecsDisjoint DEF Marks, GlobalVecs
    <2>4. /\ Shown(r)' = Shown(r)
          /\ \A d : /\ \A g \in UpMarks(r, d) : \E h \in UpMarks(r, d)' : h.value = g.value
                    /\ \A h \in UpMarks(r, d)' : \E g \in UpMarks(r, d) : h.value = g.value
          /\ \A h \in Marks(r)' : \E g \in Marks(r) :
                g.series = h.series /\ (h.registered <=> g.registered)
      BY <1>1, <1>2, <1>5, <2>3, ThinStep
    <2>5. /\ DoneBy(r)' = DoneBy(r) /\ nodeInfo' = nodeInfo
          /\ job'[r].allUp = job[r].allUp
      BY <1>2, <1>5
    <2>6. \A s \in Shown(r)' :
            /\ s.series.vec \in DoneBy(r)'
            /\ \E h \in UpMarks(r, s.series.vec)' : h.value = 1
            /\ s.series.vec # "overview" => s.value = r
            /\ s.series.vec \in Modules \intersect ClusterLabelled =>
                 s.series.cluster = nodeInfo'.cluster
      BY <2>2, <2>4, <2>5 DEF IInv, PartialInv
    <2>7. \A h \in Marks(r)' : /\ h.registered
                               /\ h.series.cluster = nodeInfo'.cluster
                               /\ h.series.node = nodeInfo'.node
      BY <2>2, <2>4, <2>5 DEF IInv, PartialInv
    <2>8. \A d \in DoneBy(r)' : UpMarks(r, d)' # {}
      BY <2>2, <2>4, <2>5 DEF IInv, PartialInv
    <2>9. job'[r].allUp <=> \A d \in DoneBy(r)' : \A h \in UpMarks(r, d)' : h.value = 1
      <3>1. job[r].allUp <=> \A d \in DoneBy(r) : \A g \in UpMarks(r, d) : g.value = 1
        BY <2>2 DEF IInv, PartialInv
      <3> QED
        BY <2>4, <2>5, <3>1
    <2> QED
      BY <2>1, <2>6, <2>7, <2>8, <2>9 DEF PartialInv
  <1>12. AnswersKept
    BY <1>1, <1>2, <1>5, ThinStep DEF AnswersKept
  <1>13. FinishedInv'
    <2>1. \A q \in Scrapes : pc'[q] \in After => pc[q] \in After
      BY <1>2, <1>4 DEF After
    <2> QED
      BY <1>12, <2>1 DEF AnswersKept, IInv, FinishedInv, Coherent, OwnData, Of, Identity
  <1> QED
    BY <1>6, <1>7, <1>8, <1>9, <1>10, <1>11, <1>12, <1>13 DEF IInv
----------------------------------------------------------------------------
(* How EndModule reports: nothing that is registered is in its way. *)
LEMMA EndModuleGauges ==
  ASSUME IInv, NEW r \in Scrapes, pc[r] = "requesting", NEW m, m = job[r].current,
         NEW dropped, NEW N \in SUBSET Gauges, NEW gs, NEW info \in Infos,
         NEW up \in Values,
         gs = Unregister(gauges, dropped) \union N,
         \A g \in N : g.series.vec = m,
         EndModule(r, gs, info, up)
  PROVE  gauges' = Unregister(gauges, dropped) \union (N \union NewMarks(r, info, m, up))
  <1>1. /\ mutex = r /\ m \in Collectors /\ m \notin DoneBy(r)
        /\ gauges \in SUBSET Gauges
    BY Alone DEF IInv, JobInv, DoneBy, Inside, TypeOK
  <1>2. gs \in SUBSET Gauges
    BY <1>1, UnregisterType
  <1>3. ASSUME NEW h \in gs, h.registered, h.series.vec \in {"module_up", "duration"}
        PROVE  h.series.module # m
    <2>1. h \notin N
      BY <1>1, <1>3, VecsDisjoint DEF GlobalVecs
    <2>2. PICK g \in gauges : /\ SameGauge(g, h)
                              /\ h.registered <=> g.registered /\ g \notin dropped
      BY <1>1, <2>1, UnregisterMembers
    <2>3. g.registered /\ g.series = h.series /\ g.series.vec \in GlobalVecs
      BY <1>3, <2>2 DEF SameGauge, GlobalVecs
    <2>4. g.born = r
      BY <1>1, <2>3 DEF IInv, RegisteredInv
    <2>5. g.series.module \in DoneBy(r)
      BY <1>3, <2>3, <2>4 DEF IInv, BirthInv
    <2> QED
      BY <1>1, <2>3, <2>5
  <1>4. Reported(gs, r, info, m, up) = gs \union NewMarks(r, info, m, up)
    <2>1. \A g \in gs : g.registered /\ g.series.vec \in {"module_up", "duration"} =>
                          g.series.module # m
      BY <1>3
    <2> QED
      BY <1>1, <1>2, <2>1, ReportedFresh
  <1>5. gauges' = Reported(gs, r, info, m, up)
    BY DEF EndModule
  <1> QED
    BY <1>4, <1>5

(* A module that fails, or a queue module over its limit, sends nothing. *)
LEMMA SilentEndInv ==
  ASSUME IInv, TypeOK', NEW r \in Scrapes, NEW up \in Values, pc[r] = "requesting",
         EndModule(r, gauges, nodeInfo, up),
         UNCHANGED <<nodeInfo, chan>>,
         \A q \in Scrapes : q # r => job'[q] = job[q],
         job'[r].todo = job[r].todo,
         job'[r].allUp <=> job[r].allUp /\ up = 1
  PROVE  IInv' /\ AnswersKept
  <1> DEFINE None == {}
  <1>1. PICK m : m = job[r].current
    OBVIOUS
  <1>2. PICK info : info = nodeInfo
    OBVIOUS
  <1>3. info \in Infos /\ gauges \in SUBSET Gauges
    BY <1>2 DEF IInv, TypeOK
  <1>4. gauges = Unregister(gauges, None) \union None
    BY <1>3, UnregisterNothing
  <1>5. None \in SUBSET Gauges /\ \A g \in None : FALSE
    OBVIOUS
  <1> HIDE DEF None
  <1>6. gauges' = Unregister(gauges, None) \union (None \union NewMarks(r, info, m, up))
    BY <1>1, <1>2, <1>3, <1>4, <1>5, EndModuleGauges
  <1>7. Send(r, None)
    BY <1>5 DEF Send, IInv, TypeOK
  <1>8. EndStep(r, m, None, None, None, info, up)
    BY <1>1, <1>2, <1>5, <1>6, <1>7 DEF EndStep, EndModule, Goto
  <1> QED
    BY <1>3, <1>8, EndStepInv

(* The queue module over its limit ends with success and sends nothing. *)
LEMMA QueueLimitExceededInv ==
  ASSUME IInv, TypeOK', NEW r \in Scrapes, QueueLimitExceeded(r)
  PROVE  IInv' /\ AnswersKept
  <1>1. /\ pc[r] = "requesting" /\ EndModule(r, gauges, nodeInfo, 1)
        /\ UNCHANGED <<nodeInfo, chan>> /\ UNCHANGED job
    BY DEF QueueLimitExceeded
  <1> QED
    BY <1>1, UpValues, SilentEndInv

(* A module whose request fails ends with module_up = 0 and sends nothing. *)
LEMMA ModuleErrorInv ==
  ASSUME IInv, TypeOK', NEW r \in Scrapes, ModuleError(r)
  PROVE  IInv' /\ AnswersKept
  <1>1. /\ pc[r] = "requesting" /\ EndModule(r, gauges, nodeInfo, 0)
        /\ UNCHANGED <<nodeInfo, chan>>
        /\ \A q \in Scrapes : q # r => job'[q] = job[q]
        /\ job'[r].todo = job[r].todo /\ job'[r].allUp = FALSE
    BY DEF ModuleError, IInv, TypeOK, Jobs
  <1>2. job'[r].allUp <=> job[r].allUp /\ 0 = 1
    BY <1>1
  <1> QED
    BY <1>1, <1>2, UpValues, SilentEndInv

(* The overview replaces the node info and, if it reports the rates, its gauge. *)
LEMMA OverviewReplyInv ==
  ASSUME IInv, TypeOK', NEW r \in Scrapes, NEW body \in OverviewReplies,
         OverviewReply(r, body)
  PROVE  IInv' /\ AnswersKept
  <1> DEFINE series  == Data("overview", body.cluster)
             N       == IF body.rates THEN {Child(r, series, r)} ELSE {}
             gs      == SetOverview(gauges, r, body)
             info    == InfoFrom(body)
  <1>1. PICK dropped : dropped = IF body.rates THEN {g \in gauges : g.series.vec = "overview"}
                                 ELSE {}
    OBVIOUS
  <1>2. /\ info \in Infos /\ gauges \in SUBSET Gauges
        /\ body.cluster \in Labels /\ body.rates \in BOOLEAN
        /\ series.vec = "overview"
    BY InfoFromType, RepliesAssumption DEF IInv, TypeOK, Data
  <1>3. series \in Series
    BY <1>2 DEF Series, Data, Labels
  <1>4. /\ N \in SUBSET Gauges
        /\ \A g \in N : g.born = r /\ g.series.vec = "overview"
        /\ \A g, h \in N : g = h
    <2>1. Child(r, series, r) \in Gauges
      BY <1>3 DEF Child, Gauges, Values
    <2>2. Child(r, series, r).born = r /\ Child(r, series, r).series = series
      BY DEF Child
    <2> HIDE DEF series
    <2> QED
      BY <1>2, <2>1, <2>2
  <1>5. gs = Unregister(gauges, dropped) \union N
    <2>1. CASE ~body.rates
      <3>1. gauges = Unregister(gauges, {})
        BY <1>2, UnregisterNothing
      <3> QED
        BY <1>1, <2>1, <3>1 DEF SetOverview
    <2>2. CASE body.rates
      <3>1. Reset(gauges, {"overview"}) = Unregister(gauges, dropped)
        BY <1>1, <2>2 DEF Reset
      <3>2. \A g \in Reset(gauges, {"overview"}) : g.registered => g.series # series
        BY <1>1, <1>2, <2>2, <3>1, UnregisterMembers DEF SameGauge
      <3>3. gs = Reset(gauges, {"overview"}) \union {Child(r, series, r)}
        BY <2>2, <3>2, SetGaugeFresh DEF SetOverview
      <3> QED
        BY <2>2, <3>1, <3>3
    <2> QED
      BY <1>2, <2>1, <2>2
  <1> HIDE DEF N, gs, info
  <1>6. /\ pc[r] = "requesting" /\ job[r].current = "overview"
        /\ nodeInfo' = info /\ EndModule(r, gs, info, 1)
        /\ Send(r, RefsOf(gs, {"overview"}))
        /\ \A q \in Scrapes : q # r => job'[q] = job[q]
        /\ job'[r].todo = job[r].todo /\ job'[r].allUp = job[r].allUp
    BY DEF OverviewReply, IInv, TypeOK, Jobs, gs, info
  <1>7. gauges' = Unregister(gauges, dropped) \union (N \union NewMarks(r, info, "overview", 1))
    BY <1>2, <1>4, <1>5, <1>6, UpValues, EndModuleGauges
  <1>8. PICK sent : sent = RefsOf(gs, {"overview"})
    OBVIOUS
  <1>9. \A x \in sent : \E g \in gauges' : Ref(g) = x
    BY <1>5, <1>7, <1>8 DEF RefsOf
  <1>10. \A g \in gauges' : Ref(g) \in sent => g.series.vec = "overview"
    BY <1>8 DEF RefsOf, Ref
  <1>11. EndStep(r, "overview", dropped, N, sent, info, 1)
    BY <1>1, <1>4, <1>6, <1>7, <1>8, <1>9, <1>10, VecsDisjoint
    DEF EndStep, EndModule, Goto, ConstMetrics
  <1> QED
    BY <1>2, <1>11, UpValues, EndStepInv

(* A module that succeeds sends at most the gauge or constant metric it    *)
(* just made, labelled with the current cluster. *)
LEMMA ModuleReplyInv ==
  ASSUME IInv, TypeOK', NEW r \in Scrapes, NEW objects \in BOOLEAN, ModuleReply(r, objects)
  PROVE  IInv' /\ AnswersKept
  <1>1. PICK m : m = job[r].current
    OBVIOUS
  <1>2. PICK info : info = nodeInfo
    OBVIOUS
  <1>3. PICK series : series = Data(m, IF m \in ClusterLabelled THEN job[r].ctx.cluster ELSE "")
    OBVIOUS
  <1>4. PICK ready : ready = IF m \in ResetOnReply THEN Reset(gauges, {m}) ELSE gauges
    OBVIOUS
  <1>5. PICK made : made = IF m \in ConstMetrics THEN ConstMetric(r, series, r)
                           ELSE Child(r, series, r)
    OBVIOUS
  <1>6. PICK N : N = IF objects THEN {made} ELSE {}
    OBVIOUS
  <1>7. /\ pc[r] = "requesting" /\ m # "overview" /\ m \in Collectors /\ m \in Modules
        /\ mutex = r /\ m \notin DoneBy(r)
        /\ gauges \in SUBSET Gauges /\ info \in Infos /\ job[r].ctx = info
    BY <1>1, <1>2, Alone, VecsDisjoint
    DEF ModuleReply, IInv, JobInv, TypeOK, DoneBy, Inside
  <1>8. /\ series \in Series /\ series.vec = m
        /\ m \in ClusterLabelled => series.cluster = info.cluster
    <2>1. m \in ClusterLabelled => series = Data(m, info.cluster)
      BY <1>3, <1>7
    <2>2. m \notin ClusterLabelled => series = Data(m, "")
      BY <1>3
    <2>3. /\ Data(m, info.cluster) \in Series /\ Data(m, "") \in Series
          /\ Data(m, info.cluster).vec = m /\ Data(m, "").vec = m
          /\ Data(m, info.cluster).cluster = info.cluster
      BY <1>7, SeriesType DEF Data
    <2> QED
      BY <2>1, <2>2, <2>3
  <1>9. /\ made \in Gauges /\ made.series = series /\ made.born = r /\ made.value = r
        /\ made.registered => m \notin ConstMetrics
    <2>1. r \in Values
      BY DEF Values
    <2> QED
      BY <1>5, <1>8, <2>1 DEF ConstMetric, Child, Gauges
  <1>10. PICK dropped : /\ ready = Unregister(gauges, dropped)
                        /\ \A g \in dropped : g.series.vec = m
    <2>1. CASE m \in ResetOnReply
      <3>1. ready = Unregister(gauges, {g \in gauges : g.series.vec \in {m}})
        BY <1>4, <2>1 DEF Reset
      <3> QED
        BY <3>1
    <2>2. CASE m \notin ResetOnReply
      <3>1. ready = Unregister(gauges, {})
        BY <1>4, <1>7, <2>2, UnregisterNothing
      <3> QED
        BY <3>1
    <2> QED
      BY <2>1, <2>2
  <1>11. \A h \in ready : h.registered => h.series.vec # m
    <2>1. CASE m \in ResetOnReply
      <3>1. ready = Unregister(gauges, {g \in gauges : g.series.vec \in {m}})
        BY <1>4, <2>1 DEF Reset
      <3> QED
        BY <1>7, <3>1, UnregisterMembers DEF SameGauge
    <2>2. CASE m \in ResetFirst \union ConstMetrics
      <3>1. m \notin ResetOnReply
        BY <2>2 DEF ResetFirst, ConstMetrics, ResetOnReply
      <3> QED
        BY <1>1, <1>4, <1>7, <2>2, <3>1 DEF IInv, RegisteredInv
    <2> QED
      BY <1>7, <2>1, <2>2, VecsDisjoint
  <1>12. PICK gs : gs = ready \union N
    OBVIOUS
  <1>13. gs = IF ~objects THEN ready
              ELSE IF m \in ConstMetrics THEN ready \union {ConstMetric(r, series, r)}
              ELSE SetGauge(ready, r, series, r)
    <2>1. \A h \in ready : h.registered => h.series # series
      BY <1>8, <1>11
    <2>2. SetGauge(ready, r, series, r) = ready \union {Child(r, series, r)}
      BY <2>1, SetGaugeFresh
    <2> QED
      BY <1>5, <1>6, <1>12, <2>2
  <1>14. PICK sent : sent = IF objects /\ m \in ConstMetrics THEN {Ref(made)} ELSE RefsOf(gs, {m})
    OBVIOUS
  <1>15. \A x \in sent : \E g \in N : Ref(g) = x
    <2>1. CASE objects /\ m \in ConstMetrics
      BY <1>6, <1>14, <2>1
    <2>2. CASE ~(objects /\ m \in ConstMetrics)
      BY <1>11, <1>12, <1>14, <2>2 DEF RefsOf
    <2> QED
      BY <2>1, <2>2
  <1>16. /\ EndModule(r, gs, info, 1) /\ Send(r, sent) /\ UNCHANGED <<nodeInfo, job>>
    <2>1. objects /\ m \in ConstMetrics => made = ConstMetric(r, series, r)
      BY <1>5
    <2> QED
      BY <1>1, <1>2, <1>3, <1>4, <1>13, <1>14, <2>1 DEF ModuleReply
  <1>17. N \in SUBSET Gauges
    BY <1>6, <1>9
  <1>170. ASSUME NEW n \in N
          PROVE  /\ n.born = r /\ n.series.vec = m /\ n.value = r
                 /\ n.registered => m \notin ConstMetrics
                 /\ m \in ClusterLabelled => n.series.cluster = info.cluster
    BY <1>6, <1>8, <1>9
  <1>171. \A g, h \in N : g = h
    BY <1>6
  <1>18. gauges' = Unregister(gauges, dropped) \union (N \union NewMarks(r, info, m, 1))
    <2>1. gs = Unregister(gauges, dropped) \union N /\ \A g \in N : g.series.vec = m
      BY <1>10, <1>12, <1>170
    <2>2. N \in SUBSET Gauges /\ pc[r] = "requesting" /\ info \in Infos
      BY <1>7, <1>17
    <2> QED
      BY <1>1, <1>16, <2>1, <2>2, UpValues, EndModuleGauges
  <1>19. ASSUME NEW h \in gauges', Ref(h) \in sent
         PROVE  h \in N
    <2>1. h.born = r /\ h.series.vec = m
      <3>1. PICK n \in N : Ref(n) = Ref(h)
        BY <1>15, <1>19
      <3>2. n.series = h.series /\ n.born = h.born
        BY <3>1 DEF Ref
      <3> QED
        BY <1>170, <3>2
    <2>2. h \notin Unregister(gauges, dropped)
      BY <1>7, <2>1, UnregisterMembers DEF SameGauge, IInv, BirthInv
    <2>3. h \notin NewMarks(r, info, m, 1)
      BY <1>7, <2>1, VecsDisjoint DEF NewMarks, Child, ModuleUp, Duration, GlobalVecs
    <2> QED
      BY <1>18, <2>2, <2>3
  <1>20. \A x \in sent : \E g \in gauges' : Ref(g) = x
    BY <1>15, <1>18
  <1>21. EndStep(r, m, dropped, N, sent, info, 1)
    <2>1. /\ pc' = [pc EXCEPT ![r] = "collecting"] /\ mutex' = mutex /\ response' = response
      BY <1>16 DEF EndModule, Goto
    <2>2. \A g \in gauges' : Ref(g) \in sent =>
             /\ g.series.vec = m /\ g.value = r
             /\ m \in ClusterLabelled => g.series.cluster = info.cluster
      BY <1>170, <1>19
    <2>3. \A g \in N : g.born = r /\ g.series.vec = m /\ (g.registered => m \notin ConstMetrics)
      BY <1>170
    <2> QED
      BY <1>1, <1>2, <1>7, <1>10, <1>16, <1>171, <1>18, <1>20, <2>1, <2>2, <2>3 DEF EndStep
  <1> QED
    BY <1>7, <1>21, UpValues, EndStepInv
----------------------------------------------------------------------------
(* A series is told by its vector and its labels. *)
LEMMA SeriesEqual ==
  ASSUME NEW a \in Series, NEW b \in Series,
         a.vec = b.vec, a.cluster = b.cluster, a.node = b.node, a.module = b.module
  PROVE  a = b
  <1>1. ASSUME NEW x \in Series
        PROVE  x = [vec |-> x.vec, cluster |-> x.cluster, node |-> x.node,
                    module |-> x.module]
    BY DEF Series
  <1> QED
    BY <1>1

(* When every collector has been reported, the marks of a scrape and its   *)
(* up make a coherent report of what the scrape has sent.                  *)
LEMMA CompleteReport ==
  ASSUME IInv, NEW r \in Scrapes, pc[r] = "collecting", job[r].todo = {},
         NEW S, NEW su, su = [series |-> Up(nodeInfo), value |-> UpValue(job[r].allUp)],
         su \in S,
         \A g \in Marks(r) : [series |-> g.series, value |-> g.value] \in S,
         \A s \in S : \/ s \in Shown(r)
                      \/ \E g \in Marks(r) : s = [series |-> g.series, value |-> g.value]
                      \/ s = su
  PROVE  Coherent(S) /\ OwnData(r, S)
  <1> DEFINE Sample(g) == [series |-> g.series, value |-> g.value]
  <1>1. /\ \A g : Sample(g).series = g.series /\ Sample(g).value = g.value
        /\ su.series.vec = "up" /\ su.series.module = ""
        /\ su.series.cluster = nodeInfo.cluster /\ su.series.node = nodeInfo.node
        /\ su.value = UpValue(job[r].allUp)
    BY DEF Up
  <1>2. DoneBy(r) = Collectors
    BY DEF DoneBy
  <1>3. ASSUME NEW s \in Shown(r)
        PROVE  /\ s.series.vec \in Collectors
               /\ \E g \in UpMarks(r, s.series.vec) : g.value = 1
               /\ s.series.vec # "overview" => s.value = r
               /\ s.series.vec \in Modules \intersect ClusterLabelled =>
                    s.series.cluster = nodeInfo.cluster
    BY <1>2, <1>3 DEF IInv, PartialInv, Inside
  <1>4. ASSUME NEW g \in Marks(r)
        PROVE  /\ g.series.vec \in {"module_up", "duration"}
               /\ g.series.cluster = nodeInfo.cluster /\ g.series.node = nodeInfo.node
               /\ g.series.module \in Collectors
               /\ g.series \in Series /\ g \in gauges /\ g.born = r
    BY <1>2, <1>4 DEF IInv, PartialInv, Inside, Marks, BirthInv, TypeOK, Gauges
  <1>5. \A m : UpMarks(r, m) \subseteq Marks(r)
    BY DEF UpMarks, Marks
  <1>6. ASSUME NEW m, NEW g \in UpMarks(r, m), NEW h \in UpMarks(r, m)
        PROVE  g = h
    <2>1. g.series = h.series
      <3>1. g \in Marks(r) /\ h \in Marks(r)
        BY <1>5, <1>6
      <3>2. /\ g.series \in Series /\ h.series \in Series
            /\ g.series.cluster = h.series.cluster /\ g.series.node = h.series.node
        BY <1>4, <3>1
      <3>3. g.series.vec = h.series.vec /\ g.series.module = h.series.module
        BY <1>6 DEF UpMarks
      <3> QED
        BY <3>2, <3>3, SeriesEqual
    <2>2. Ref(g) = Ref(h)
      BY <1>4, <1>5, <1>6, <2>1 DEF Ref
    <2> QED
      BY <1>4, <1>5, <1>6, <2>2 DEF IInv, BirthInv
  <1> HIDE DEF Sample
  <1>7. \A s \in S : s \in Shown(r) \/ (\E g \in Marks(r) : s = Sample(g)) \/ s = su
    BY DEF Sample
  <1>8. \A g \in Marks(r) : Sample(g) \in S
    BY DEF Sample
  <1>80. /\ \A s \in Shown(r) : s.series.vec \notin GlobalVecs
         /\ \A g \in Marks(r) : Sample(g).series.vec \in {"module_up", "duration"}
    BY <1>1, <1>3, <1>4, VecsDisjoint
  <1>9. ASSUME NEW s \in S, s.series.vec = "module_up"
        PROVE  \E g \in UpMarks(r, s.series.module) : s = Sample(g)
    <2>1. s \notin Shown(r) /\ s # su
      BY <1>1, <1>3, <1>9, VecsDisjoint DEF GlobalVecs
    <2>2. PICK g \in Marks(r) : s = Sample(g)
      BY <1>7, <2>1
    <2> QED
      BY <1>1, <1>9, <2>2 DEF Marks, UpMarks
  <1>10. ASSUME NEW m \in Collectors
         PROVE  \E s \in Of(S, {"module_up"}) :
                  {t \in Of(S, {"module_up"}) : t.series.module = m} = {s}
    <2>1. PICK g : g \in UpMarks(r, m)
      BY <1>2 DEF IInv, PartialInv, Inside
    <2>2. Sample(g) \in S /\ Sample(g).series.vec = "module_up" /\ Sample(g).series.module = m
      BY <1>1, <1>5, <1>8, <2>1 DEF UpMarks
    <2>3. ASSUME NEW t \in S, t.series.vec = "module_up", t.series.module = m
          PROVE  t = Sample(g)
      BY <1>6, <1>9, <2>1, <2>3
    <2> QED
      BY <2>2, <2>3 DEF Of
  <1>11. Of(S, {"up"}) = {su}
    <2>1. ASSUME NEW s \in S, s.series.vec = "up"
          PROVE  s = su
      BY <1>7, <1>80, <2>1 DEF GlobalVecs
    <2> QED
      BY <1>1, <2>1 DEF Of
  <1>12. \A s \in Of(S, {"module_up", "duration"}) : Identity(s) = Identity(su)
    <2>1. ASSUME NEW s \in S, s.series.vec \in {"module_up", "duration"}
          PROVE  s.series.cluster = nodeInfo.cluster /\ s.series.node = nodeInfo.node
      <3>1. s \notin Shown(r) /\ s # su
        BY <1>1, <1>80, <2>1 DEF GlobalVecs
      <3>2. PICK g \in Marks(r) : s = Sample(g)
        BY <1>7, <3>1
      <3>3. g.series.cluster = nodeInfo.cluster /\ g.series.node = nodeInfo.node
        BY <1>4
      <3>4. s.series = g.series
        BY <1>1, <3>2
      <3> QED
        BY <3>3, <3>4
    <2> QED
      BY <1>1, <2>1 DEF Of, Identity
  <1>13. ASSUME NEW s \in S, s.series.vec \in Collectors
         PROVE  s \in Shown(r)
    <2>1. s.series.vec \notin GlobalVecs
      BY <1>13, VecsDisjoint
    <2> QED
      BY <1>1, <1>7, <1>80, <2>1 DEF GlobalVecs
  <1>14. \A s \in Of(S, Modules \intersect ClusterLabelled) : s.series.cluster = su.series.cluster
    BY <1>1, <1>3, <1>13, VecsDisjoint DEF Of
  <1>15. su.value = 1 <=> \A s \in Of(S, {"module_up"}) : s.value = 1
    <2>1. su.value = 1 <=> job[r].allUp
      <3>1. job[r].allUp \in BOOLEAN
        BY DEF IInv, TypeOK, Jobs
      <3>2. CASE job[r].allUp = TRUE
        BY <1>1, <3>2 DEF UpValue
      <3>3. CASE job[r].allUp = FALSE
        <4>1. su.value = 0
          BY <1>1, <3>3 DEF UpValue
        <4> QED
          BY <3>3, <4>1
      <3> QED
        BY <3>1, <3>2, <3>3
    <2>2. job[r].allUp <=> \A m \in Collectors : \A g \in UpMarks(r, m) : g.value = 1
      BY <1>2 DEF IInv, PartialInv, Inside
    <2>3. ASSUME \A m \in Collectors : \A g \in UpMarks(r, m) : g.value = 1,
                 NEW s \in Of(S, {"module_up"})
          PROVE  s.value = 1
      <3>1. s \in S /\ s.series.vec = "module_up"
        BY <2>3 DEF Of
      <3>2. PICK g \in UpMarks(r, s.series.module) : s = Sample(g)
        BY <1>9, <3>1
      <3>3. s.series = g.series /\ s.value = g.value /\ g.series.module \in Collectors
        BY <1>1, <1>4, <1>5, <3>2
      <3> QED
        BY <2>3, <3>2, <3>3
    <2>4. ASSUME \A s \in Of(S, {"module_up"}) : s.value = 1,
                 NEW m \in Collectors, NEW g \in UpMarks(r, m)
          PROVE  g.value = 1
      <3>1. Sample(g) \in Of(S, {"module_up"})
        BY <1>1, <1>5, <1>8, <2>4 DEF Of, UpMarks
      <3> QED
        BY <1>1, <2>4, <3>1
    <2> QED
      BY <2>1, <2>2, <2>3, <2>4
  <1>16. Coherent(S)
    <2>1. su \in Of(S, {"up"})
      BY <1>11
    <2> QED
      BY <1>10, <1>11, <1>12, <1>14, <1>15, <2>1 DEF Coherent
  <1>17. OwnData(r, S)
    <2>1. ASSUME NEW s \in S, s.series.vec \in Collectors
          PROVE  /\ \E t \in Of(S, {"module_up"}) :
                      t.series.module = s.series.vec /\ t.value = 1
                 /\ s.series.vec # "overview" => s.value = r
      <3>1. PICK g \in UpMarks(r, s.series.vec) : g.value = 1
        BY <1>3, <1>13, <2>1
      <3>2. Sample(g) \in Of(S, {"module_up"})
        BY <1>1, <1>5, <1>8, <3>1 DEF Of, UpMarks
      <3> QED
        BY <1>1, <1>3, <1>13, <2>1, <3>1, <3>2 DEF UpMarks
    <2> QED
      BY <2>1 DEF OwnData, Of
  <1> QED
    BY <1>16, <1>17

(* The end of Collect adds up and sends it with the marks; the mutex is    *)
(* free again and the report complete. *)
LEMMA FinishCollectInv ==
  ASSUME IInv, TypeOK', NEW r \in Scrapes, FinishCollect(r)
  PROVE  /\ IInv' /\ AnswersKept
         /\ [series |-> Up(nodeInfo), value |-> UpValue(job[r].allUp)] \in Shown(r)'
  <1>1. PICK up : up = Child(r, Up(nodeInfo), UpValue(job[r].allUp))
    OBVIOUS
  <1>2. /\ pc[r] = "collecting" /\ job[r].todo = {}
        /\ UNCHANGED <<nodeInfo, job, response>>
        /\ mutex = r /\ mutex' = NoRequest /\ NoRequest \notin Requests
        /\ pc'[r] = "draining"
        /\ \A q \in Requests : q # r => pc'[q] = pc[q]
        /\ \A q \in Scrapes : q # r => pc[q] \notin Inside
        /\ Scrapes \subseteq Requests /\ Probes \subseteq Requests /\ r \notin Probes
    BY Alone, RequestsAssumption
    DEF FinishCollect, Released, Goto, IInv, TypeOK, Inside, Requests
  <1>3. /\ up.series = Up(nodeInfo) /\ up.series.vec = "up" /\ up.born = r /\ up.registered
        /\ up.value = UpValue(job[r].allUp)
    BY <1>1 DEF Child, Up
  <1>4. \A g \in gauges : g.born = r => g.series.vec # "up"
    BY <1>2 DEF IInv, BirthInv, After
  <1>5. \A g \in gauges : g.registered => g.series.vec # "up"
    BY <1>2, <1>4 DEF IInv, RegisteredInv, GlobalVecs
  <1>6. gauges' = gauges \union {up}
    <2> DEFINE set == SetGauge(gauges, r, Up(nodeInfo), UpValue(job[r].allUp))
    <2>1. set = gauges \union {up}
      <3>1. \A g \in gauges : g.registered => g.series # Up(nodeInfo)
        BY <1>3, <1>5
      <3> QED
        BY <1>1, <3>1, SetGaugeFresh
    <2>2. CASE Named(nodeInfo)
      <3>1. Up(NoInfo).vec = "up" /\ Up(NoInfo) # Up(nodeInfo)
        BY <2>2 DEF Up, NoInfo, Named
      <3>2. \A g \in set : g.registered => g.series # Up(NoInfo)
        BY <1>3, <1>5, <2>1, <3>1
      <3>3. set \in SUBSET Gauges
        <4>1. gauges \in SUBSET Gauges /\ Up(nodeInfo) \in Series
          BY SeriesType, VecsDisjoint DEF IInv, TypeOK
        <4>2. UpValue(job[r].allUp) \in Values
          BY UpValues DEF UpValue
        <4> QED
          BY <4>1, <4>2, SetGaugeType
      <3>4. Delete(set, Up(NoInfo)) = set
        BY <3>2, <3>3, UnregisterNothing DEF Delete
      <3> QED
        BY <2>1, <2>2, <3>4 DEF FinishCollect
    <2>3. CASE ~Named(nodeInfo)
      BY <2>1, <2>3 DEF FinishCollect
    <2> QED
      BY <2>2, <2>3
  <1>7. PICK sent : sent = RefsOf(gauges', GlobalVecs)
    OBVIOUS
  <1>8. /\ chan'[r] = chan[r] \union sent
        /\ \A q \in Scrapes : q # r => chan'[q] = chan[q]
    BY <1>7 DEF FinishCollect, Send, IInv, TypeOK
  <1>9. \A g \in gauges : Ref(g) # Ref(up)
    BY <1>3, <1>4 DEF Ref
  <1>10. /\ \A g \in Marks(r) : g.registered /\ g \in gauges /\ g.series.vec \in GlobalVecs
         /\ \A g \in gauges : g.registered /\ g.series.vec \in GlobalVecs => g \in Marks(r)
    BY <1>2, <1>5
    DEF IInv, PartialInv, Inside, RegisteredInv, Marks, GlobalVecs
  <1>11. /\ Ref(up) \in sent
         /\ \A g \in Marks(r) : Ref(g) \in sent
         /\ \A x \in sent : x = Ref(up) \/ \E g \in Marks(r) : x = Ref(g)
    BY <1>3, <1>6, <1>7, <1>10 DEF RefsOf, GlobalVecs
  <1>12. \A q \in Scrapes : DoneBy(q)' = DoneBy(q)
    <2>1. ASSUME NEW q \in Scrapes
          PROVE  pc'[q] = "requesting" <=> pc[q] = "requesting"
      BY <1>2
    <2> QED
      BY <1>2, <2>1 DEF DoneBy
  <1>13. MutexInv'
    BY <1>2 DEF IInv, MutexInv, Inside
  <1>14. JobInv'
    BY <1>2 DEF IInv, JobInv, Inside, After
  <1>15. BirthInv'
    <2>1. \A g, h \in gauges' : Ref(g) = Ref(h) => g = h
      BY <1>6, <1>9 DEF IInv, BirthInv
    <2>2. ASSUME NEW o \in gauges'
          PROVE  /\ pc'[o.born] \in Inside \union After
                 /\ o.series.vec \in Collectors \union GlobalVecs
                 /\ o.series.vec \in Collectors => o.series.vec \in DoneBy(o.born)'
                 /\ o.series.vec \in {"module_up", "duration"} =>
                      o.series.module \in DoneBy(o.born)'
                 /\ o.series.vec = "up" => pc'[o.born] \in After
      <3>1. CASE o = up
        BY <1>2, <1>3, <3>1, VecsDisjoint DEF GlobalVecs, After
      <3>2. CASE o \in gauges
        <4>1. o.born \in Scrapes
          BY <3>2 DEF IInv, TypeOK, Gauges
        <4>2. pc'[o.born] \in Inside \union After /\ (pc[o.born] \in After => pc'[o.born] \in After)
          BY <1>2, <3>2, <4>1 DEF IInv, BirthInv, After
        <4> QED
          BY <1>12, <3>2, <4>1, <4>2 DEF IInv, BirthInv
      <3> QED
        BY <1>6, <3>1, <3>2
    <2> QED
      BY <2>1, <2>2 DEF BirthInv
  <1>16. RegisteredInv'
    <2>1. \A q \in Scrapes : pc'[q] # "requesting"
      BY <1>2 DEF Inside
    <2>2. \A g \in gauges' : g.registered => g.series.vec \notin ConstMetrics
      BY <1>3, <1>6 DEF IInv, RegisteredInv, ConstMetrics
    <2> QED
      BY <1>2, <2>1, <2>2 DEF RegisteredInv
  <1>17. ChanInv'
    <2>1. ASSUME NEW q \in Scrapes, NEW x \in chan'[q]
          PROVE  \E g \in gauges' : Ref(g) = x
      <3>1. CASE x \in chan[q]
        BY <1>6, <3>1 DEF IInv, ChanInv
      <3>2. CASE x \in sent
        BY <1>6, <1>10, <1>11, <3>2
      <3> QED
        BY <1>8, <2>1, <3>1, <3>2
    <2>2. \A q \in Scrapes : q # r => pc'[q] = pc[q]
      BY <1>2
    <2> QED
      BY <1>2, <1>8, <2>1, <2>2 DEF IInv, ChanInv, Inside, After
  <1>18. PartialInv'
    BY <1>2 DEF PartialInv, Inside
  <1>19. ASSUME NEW q \in Scrapes, q # r
         PROVE  Shown(q)' = Shown(q)
    <2> DEFINE None == {}
    <2>1. gauges \in SUBSET Gauges
      BY DEF IInv, TypeOK
    <2>2. gauges' = Unregister(gauges, None) \union {up}
      BY <1>6, <2>1, UnregisterNothing
    <2>3. Ref(up) \notin chan[q]
      BY <1>9 DEF IInv, ChanInv
    <2>4. chan'[q] = chan[q] /\ response'[q] = response[q]
      BY <1>2, <1>8, <1>19
    <2> HIDE DEF None
    <2> QED
      BY <2>1, <2>2, <2>3, <2>4, ShownStable
  <1>20. FinishedInv'
    <2>1. Coherent(Shown(r)') /\ OwnData(r, Shown(r)')
      <3>1. PICK su : su = [series |-> Up(nodeInfo), value |-> UpValue(job[r].allUp)]
        OBVIOUS
      <3>2. PICK S : S = Shown(r)'
        OBVIOUS
      <3>3. su \in S
        BY <1>3, <1>6, <1>8, <1>11, <3>1, <3>2 DEF Shown, Ref
      <3>4. ASSUME NEW g \in Marks(r)
            PROVE  [series |-> g.series, value |-> g.value] \in S
        BY <1>6, <1>8, <1>10, <1>11, <3>2 DEF Shown, Ref
      <3>5. ASSUME NEW s \in S
            PROVE  \/ s \in Shown(r)
                   \/ \E g \in Marks(r) : s = [series |-> g.series, value |-> g.value]
                   \/ s = su
        <4>1. CASE s \in response[r]
          BY <4>1 DEF Shown
        <4>2. CASE s \notin response[r]
          <5>1. PICK h \in gauges' : /\ Ref(h) \in chan'[r]
                                     /\ s = [series |-> h.series, value |-> h.value]
            BY <1>2, <3>2, <3>5, <4>2 DEF Shown
          <5>2. CASE h = up
            BY <1>3, <3>1, <5>1, <5>2
          <5>3. CASE h \in gauges /\ Ref(h) \in chan[r]
            BY <5>1, <5>3 DEF Shown
          <5>4. CASE h \in gauges /\ Ref(h) \in sent
            <6>1. PICK g \in Marks(r) : Ref(h) = Ref(g)
              BY <1>9, <1>11, <5>4
            <6>2. h = g
              BY <1>10, <5>4, <6>1 DEF IInv, BirthInv
            <6> QED
              BY <5>1, <6>2
          <5> QED
            BY <1>6, <1>8, <5>1, <5>2, <5>3, <5>4
        <4> QED
          BY <4>1, <4>2
      <3>6. Coherent(S) /\ OwnData(r, S)
        <4>1. pc[r] = "collecting" /\ job[r].todo = {}
          BY <1>2
        <4>2. \A g \in Marks(r) : [series |-> g.series, value |-> g.value] \in S
          BY <3>4
        <4>3. \A s \in S : \/ s \in Shown(r)
                           \/ \E g \in Marks(r) : s = [series |-> g.series, value |-> g.value]
                           \/ s = su
          BY <3>5
        <4> QED
          BY <3>1, <3>3, <4>1, <4>2, <4>3, CompleteReport
      <3> QED
        BY <3>2, <3>6
    <2>2. \A q \in Scrapes : q # r => pc'[q] = pc[q]
      BY <1>2
    <2> QED
      BY <1>19, <2>1, <2>2 DEF IInv, FinishedInv, Coherent, OwnData, Of, Identity
  <1>21. AnswersKept
    BY <1>2, <1>19 DEF AnswersKept, After
  <1>22. [series |-> Up(nodeInfo), value |-> UpValue(job[r].allUp)] \in Shown(r)'
    BY <1>3, <1>6, <1>8, <1>11 DEF Shown, Ref
  <1> QED
    BY <1>13, <1>14, <1>15, <1>16, <1>17, <1>18, <1>20, <1>21, <1>22 DEF IInv

(* Writing moves one sample from the channel to the answer: what the       *)
(* scrape shows is the same, because a reference stands for one gauge.     *)
LEMMA WriteInv ==
  ASSUME IInv, TypeOK', NEW r \in Scrapes, NEW g \in gauges, Write(r, g)
  PROVE  IInv' /\ AnswersKept
  <1>1. /\ UNCHANGED <<mutex, pc, nodeInfo, lastScrapeOK, gauges, job, health>>
        /\ Ref(g) \in chan[r]
        /\ chan'[r] = chan[r] \ {Ref(g)}
        /\ response'[r] = response[r] \union {[series |-> g.series, value |-> g.value]}
        /\ \A q \in Scrapes : q # r => chan'[q] = chan[q] /\ response'[q] = response[q]
    BY DEF Write, IInv, TypeOK
  <1>2. Shown(r)' = Shown(r)
    <2>1. \A h \in gauges : Ref(h) = Ref(g) => h = g
      BY DEF IInv, BirthInv
    <2>2. ASSUME NEW s \in Shown(r)'
          PROVE  s \in Shown(r)
      BY <1>1, <2>2 DEF Shown
    <2>3. ASSUME NEW s \in Shown(r)
          PROVE  s \in Shown(r)'
      BY <1>1, <2>1, <2>3 DEF Shown
    <2> QED
      BY <2>2, <2>3
  <1>3. ASSUME NEW q \in Scrapes
        PROVE  /\ Shown(q)' = Shown(q) /\ DoneBy(q)' = DoneBy(q)
               /\ Marks(q)' = Marks(q) /\ \A m : UpMarks(q, m)' = UpMarks(q, m)
    <2>1. Shown(q)' = Shown(q)
      BY <1>1, <1>2 DEF Shown
    <2> QED
      BY <1>1, <2>1 DEF DoneBy, Marks, UpMarks
  <1>4. MutexInv' /\ JobInv'
    BY <1>1 DEF IInv, MutexInv, JobInv
  <1>5. BirthInv'
    BY <1>1, <1>3 DEF IInv, BirthInv, TypeOK, Gauges, DoneBy
  <1>6. RegisteredInv'
    BY <1>1 DEF IInv, RegisteredInv
  <1>7. ChanInv'
    BY <1>1 DEF IInv, ChanInv
  <1>8. PartialInv'
    BY <1>1, <1>3 DEF IInv, PartialInv
  <1>9. FinishedInv'
    BY <1>1, <1>3 DEF IInv, FinishedInv, Coherent, OwnData, Of, Identity
  <1>10. AnswersKept
    BY <1>3 DEF AnswersKept
  <1> QED
    BY <1>4, <1>5, <1>6, <1>7, <1>8, <1>9, <1>10 DEF IInv

(* Requests arriving or being answered, and probes, do not touch the gauges. *)
LEMMA ArriveInv ==
  ASSUME IInv, TypeOK', NEW q \in Requests, Arrive(q)
  PROVE  IInv' /\ AnswersKept
  <1>1. /\ UNCHANGED <<mutex, nodeInfo, gauges, chan, job, response>>
        /\ pc[q] = "new" /\ pc'[q] = "locking"
        /\ \A o \in Requests : o # q => pc'[o] = pc[o]
        /\ Scrapes \subseteq Requests /\ Probes \subseteq Requests
    BY DEF Arrive, Goto, IInv, TypeOK, Requests
  <1>2. MutexInv'
    BY <1>1 DEF IInv, MutexInv, Inside
  <1> QED
    BY <1>1, <1>2, QuietStepInv

(* The answer of a scrape is complete; its report stays what it was. *)
LEMMA RespondInv ==
  ASSUME IInv, TypeOK', NEW r \in Scrapes, Respond(r)
  PROVE  IInv' /\ AnswersKept
  <1>1. /\ UNCHANGED <<mutex, nodeInfo, gauges, chan, job, response>>
        /\ pc[r] = "draining" /\ pc'[r] = "done" /\ chan[r] = {}
        /\ \A o \in Requests : o # r => pc'[o] = pc[o]
        /\ Scrapes \subseteq Requests /\ Probes \subseteq Requests
    BY DEF Respond, Goto, IInv, TypeOK, Requests
  <1>2. MutexInv'
    BY <1>1 DEF IInv, MutexInv, Inside
  <1> QED
    BY <1>1, <1>2, QuietStepInv

(* A health probe takes and frees the mutex, and reads one flag. *)
LEMMA ProbeStepInv ==
  ASSUME IInv, TypeOK', NEW p \in Probes, ProbeStep(p)
  PROVE  IInv' /\ AnswersKept
  <1>1. /\ UNCHANGED <<nodeInfo, gauges, chan, job, response>>
        /\ \A o \in Requests : o # p => pc'[o] = pc[o]
        /\ \/ /\ pc[p] = "locking" /\ pc'[p] = "reading"
              /\ mutex = NoRequest /\ mutex' = p
           \/ /\ pc[p] = "reading" /\ pc'[p] = "done"
              /\ mutex' = NoRequest
        /\ Scrapes \subseteq Requests /\ Probes \subseteq Requests
        /\ p \notin Scrapes /\ NoRequest \notin Requests
    BY RequestsAssumption
    DEF ProbeStep, LockHealth, AnswerHealth, MutexFree, Released, Goto, IInv, TypeOK, Requests
  <1>2. MutexInv'
    BY <1>1 DEF IInv, MutexInv, Inside
  <1>3. \A r \in Scrapes : pc'[r] = pc[r]
    BY <1>1
  <1>4. mutex' \in Scrapes => mutex' = mutex
    BY <1>1
  <1> QED
    BY <1>1, <1>2, <1>3, <1>4, QuietStepInv

(* No request has begun: nothing to keep. *)
LEMMA InitInv == Init => IInv
  <1> SUFFICES ASSUME Init
               PROVE  IInv
    OBVIOUS
  <1>1. TypeOK
    BY TypeInvInit DEF TypeInv
  <1>2. /\ \A q \in Requests : pc[q] = "new"
        /\ \A r \in Scrapes : pc[r] = "new" /\ chan[r] = {} /\ response[r] = {}
        /\ gauges = {} /\ mutex = NoRequest /\ NoRequest \notin Requests
        /\ Scrapes \subseteq Requests /\ Probes \subseteq Requests
    BY RequestsAssumption DEF Init, Requests
  <1>3. MutexInv
    BY <1>2 DEF MutexInv, Inside
  <1>4. JobInv /\ PartialInv /\ FinishedInv
    BY <1>2 DEF JobInv, PartialInv, FinishedInv, Inside, After
  <1>5. BirthInv /\ RegisteredInv /\ ChanInv
    BY <1>2 DEF BirthInv, RegisteredInv, ChanInv
  <1> QED
    BY <1>1, <1>3, <1>4, <1>5 DEF IInv

(* One case per action. *)
LEMMA StepInv ==
  ASSUME IInv, TypeOK', [Next]_vars
  PROVE  IInv' /\ AnswersKept
  <1>1. ASSUME NEW q \in Requests, Arrive(q)
        PROVE  IInv' /\ AnswersKept
    BY <1>1, ArriveInv
  <1>2. ASSUME NEW r \in Scrapes, ScrapeStep(r)
        PROVE  IInv' /\ AnswersKept
    <2>1. CASE LockCollect(r)
      BY <2>1, LockCollectInv
    <2>2. ASSUME NEW m \in Collectors, BeginModule(r, m)
          PROVE  IInv' /\ AnswersKept
      BY <2>2, BeginModuleInv
    <2>3. ASSUME NEW body \in OverviewReplies, OverviewReply(r, body)
          PROVE  IInv' /\ AnswersKept
      BY <2>3, OverviewReplyInv
    <2>4. ASSUME NEW objects \in BOOLEAN, ModuleReply(r, objects)
          PROVE  IInv' /\ AnswersKept
      BY <2>4, ModuleReplyInv
    <2>5. CASE QueueLimitExceeded(r)
      BY <2>5, QueueLimitExceededInv
    <2>6. CASE ModuleError(r)
      BY <2>6, ModuleErrorInv
    <2>7. CASE FinishCollect(r)
      BY <2>7, FinishCollectInv
    <2>8. ASSUME NEW g \in gauges, Write(r, g)
          PROVE  IInv' /\ AnswersKept
      BY <2>8, WriteInv
    <2>9. CASE Respond(r)
      BY <2>9, RespondInv
    <2> QED
      BY <1>2, <2>1, <2>2, <2>3, <2>4, <2>5, <2>6, <2>7, <2>8, <2>9
      DEF ScrapeStep, EndRequest
  <1>3. ASSUME NEW p \in Probes, ProbeStep(p)
        PROVE  IInv' /\ AnswersKept
    BY <1>3, ProbeStepInv
  <1>4. CASE UNCHANGED vars
    <2>1. /\ UNCHANGED <<mutex, pc, nodeInfo, gauges, chan, job, response>>
          /\ MutexInv'
      BY <1>4 DEF vars, IInv, MutexInv
    <2> QED
      BY <2>1, QuietStepInv
  <1> QED
    BY <1>1, <1>2, <1>3, <1>4 DEF Next
----------------------------------------------------------------------------
(* The invariant holds of every reachable state: of the shared gauges, of  *)
(* reports in progress and of reports waiting to be written.               *)
THEOREM Invariance == Spec => []IInv
  <1>1. IInv /\ TypeOK' /\ [Next]_vars => IInv'
    BY StepInv
  <1> QED
    BY <1>1, InitInv, TypeCorrect, PTL DEF Spec

(* Every answer to GET /metrics is one consistent report, for any number   *)
(* of concurrent scrapes and probes, any set of enabled exporters and      *)
(* whatever the broker answers. *)
THEOREM Coherence == Spec => []ScrapeCoherent
  <1>1. IInv => ScrapeCoherent
    <2> SUFFICES ASSUME IInv, NEW r \in Scrapes, pc[r] = "done"
                 PROVE  Coherent(response[r])
      BY DEF ScrapeCoherent
    <2>1. chan[r] = {}
      BY DEF IInv, ChanInv
    <2>2. Shown(r) = response[r]
      BY <2>1 DEF Shown
    <2> QED
      BY <2>2 DEF IInv, FinishedInv, After
  <1> QED
    BY <1>1, Invariance, PTL

(* No answer shows a module that failed, or a value of another scrape. *)
THEOREM DataIsOwn == Spec => []OnlyOwnData
  <1>1. IInv => OnlyOwnData
    <2> SUFFICES ASSUME IInv, NEW r \in Scrapes, pc[r] = "done"
                 PROVE  OwnData(r, response[r])
      BY DEF OnlyOwnData
    <2>1. chan[r] = {}
      BY DEF IInv, ChanInv
    <2>2. Shown(r) = response[r]
      BY <2>1 DEF Shown
    <2> QED
      BY <2>2 DEF IInv, FinishedInv, After
  <1> QED
    BY <1>1, Invariance, PTL
============================================================================
