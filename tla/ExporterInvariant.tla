------------------------- MODULE ExporterInvariant -------------------------
(***************************************************************************)
(* The inductive invariant behind ScrapeCoherent and OnlyOwnData: why one  *)
(* mutex and three Resets are enough although the gauges are shared with   *)
(* answers that are still being written.                                   *)
(***************************************************************************)
EXTENDS Exporter

Inside == {"collecting", "requesting"}
After  == {"draining", "done"}

(* The collectors whose module_up scrape r has set *)
DoneBy(r) ==
  {m \in Collectors : m \notin job[r].todo
                      /\ (pc[r] = "requesting" => m # job[r].current)}

(* Whoever is inside Collect or LastScrapeOK holds the mutex, so at most   *)
(* one request is (exporter.go:72-73 and 91-92). *)
MutexInv ==
  /\ \A r \in Scrapes : (pc[r] \in Inside <=> mutex = r) /\ pc[r] # "reading"
  /\ \A p \in Probes : /\ pc[p] = "reading" <=> mutex = p
                       /\ pc[p] \notin Inside \union {"draining"}

(* The overview is reported before any other module is begun, so the       *)
(* context of every other module holds the current node info. *)
JobInv ==
  \A r \in Scrapes :
    /\ pc[r] \in After => job[r].todo = {}
    /\ pc[r] \in Inside /\ "overview" \in job[r].todo =>
         pc[r] = "collecting" /\ job[r].todo = Collectors
    /\ pc[r] = "requesting" =>
         /\ job[r].current \in Collectors \ job[r].todo
         /\ job[r].current = "overview" => job[r].todo = Collectors \ {"overview"}
         /\ job[r].current # "overview" => job[r].ctx = nodeInfo

(* A reference stands for one gauge, and a gauge is as old as its birth    *)
(* says: it was made by a scrape that got that far. *)
BirthInv ==
  /\ \A g, h \in gauges : Ref(g) = Ref(h) => g = h
  /\ \A g \in gauges :
       /\ pc[g.born] \in Inside \union After
       /\ g.series.vec \in Collectors \union GlobalVecs
       /\ g.series.vec \in Collectors => g.series.vec \in DoneBy(g.born)
       /\ g.series.vec \in {"module_up", "duration"} => g.series.module \in DoneBy(g.born)
       /\ g.series.vec = "up" => pc[g.born] \in After

(* What the vectors still hold: of the global vectors only children of the *)
(* scrape in progress, of a module that has reset its vectors nothing.     *)
RegisteredInv ==
  /\ \A g \in gauges : g.registered =>
       /\ g.series.vec \in GlobalVecs /\ mutex \in Scrapes => g.born = mutex
       /\ g.series.vec \notin ConstMetrics
       /\ \A r \in Scrapes :
            pc[r] = "requesting" /\ job[r].current \in ResetFirst =>
              g.series.vec # job[r].current

ChanInv ==
  \A r \in Scrapes :
    /\ \A x \in chan[r] : \E g \in gauges : Ref(g) = x
    /\ pc[r] \notin Inside \union After => chan[r] = {} /\ response[r] = {}
    /\ pc[r] = "done" => chan[r] = {}

(* The module_up and duration gauges of a scrape in progress *)
Marks(r) == {g \in gauges : g.born = r /\ g.series.vec \in {"module_up", "duration"}}
UpMarks(r, m) ==
  {g \in gauges : g.born = r /\ g.series.vec = "module_up" /\ g.series.module = m}

(* The report in progress is coherent as far as it got. *)
PartialInv ==
  \A r \in Scrapes : pc[r] \in Inside =>
    /\ \A s \in Shown(r) :
         /\ s.series.vec \in DoneBy(r)
         /\ \E g \in UpMarks(r, s.series.vec) : g.value = 1
         /\ s.series.vec # "overview" => s.value = r
         /\ s.series.vec \in Modules \intersect ClusterLabelled =>
              s.series.cluster = nodeInfo.cluster
    /\ \A g \in Marks(r) : /\ g.registered
                           /\ g.series.cluster = nodeInfo.cluster
                           /\ g.series.node = nodeInfo.node
    /\ \A m \in DoneBy(r) : UpMarks(r, m) # {}
    /\ job[r].allUp <=> \A m \in DoneBy(r) : \A g \in UpMarks(r, m) : g.value = 1

(* The finished report is coherent and stays so until it is written. *)
FinishedInv ==
  \A r \in Scrapes : pc[r] \in After =>
    Coherent(Shown(r)) /\ OwnData(r, Shown(r))

IInv ==
  /\ TypeOK
  /\ MutexInv
  /\ JobInv
  /\ BirthInv
  /\ RegisteredInv
  /\ ChanInv
  /\ PartialInv
  /\ FinishedInv
============================================================================
