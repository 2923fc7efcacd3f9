--------------------------- MODULE QueueExporter ---------------------------
(***************************************************************************)
(* exporterQueue.Collect (exporter_queue.go), scrape after scrape: which   *)
(* samples it makes of the queues the broker lists.  Gauge vectors keep    *)
(* their children from one scrape to the next; the mutex of Exporter lets  *)
(* one Collect run at a time.  A queue object has its labels, the idle     *)
(* time it names and a number, or Missing, for every key of a metric.      *)
(***************************************************************************)
EXTENDS Integers, FiniteSets

CONSTANTS
  Contexts,      \* what the overview told: [cluster, node, total]
  Replies,       \* bodies of /api/queues: sets of queue objects
  GaugeKeys,     \* keys of queueGaugeVec
  CounterKeys,   \* keys of queueCounterVec
  Excluded,      \* config.ExcludeMetrics
  IncludeVHost, SkipVHost, IncludeQueues, SkipQueues,
                 \* the names these regular expressions match
  Connection,    \* config.RabbitConnection
  MaxQueues      \* config.MaxQueues

Missing == -1
NoState == ""  \* of a vector without this label

(* A limit is an argument of the queue, or set by a policy, or both *)
LimitVecs == {"max-length", "max-length-bytes"}
Argument ==
  [v \in LimitVecs |->
     IF v = "max-length" THEN "arguments.x-max-length" ELSE "arguments.x-max-length-bytes"]
Policy ==
  [v \in LimitVecs |->
     IF v = "max-length" THEN "effective_policy_definition.max-length"
     ELSE "effective_policy_definition.max-length-bytes"]
LimitKeys == {Argument[v] : v \in LimitVecs} \union {Policy[v] : v \in LimitVecs}

ASSUME KeysAssumption ==
  /\ ({"state", "idle_since"} \union LimitVecs) \intersect (GaugeKeys \union CounterKeys) = {}
  /\ GaugeKeys \intersect CounterKeys = {}

(* A reply lists a queue once, with numbers that are not negative *)
ASSUME RepliesAssumption ==
  \A queues \in Replies :
    /\ \A q, r \in queues : q.vhost = r.vhost /\ q.name = r.name => q = r
    /\ \A q \in queues : \A k \in GaugeKeys \union CounterKeys \union LimitKeys :
         q.metrics[k] \in Nat \union {Missing}

VARIABLES
  phase,    \* "idle" between scrapes, else where Collect is
  ctx,      \* the context collectWithDuration passed
  reply,    \* the queues of the last reply
  todo,     \* those the loop has not reached
  children, \* what the gauge vectors hold
  sent,     \* what this Collect sent through the channel
  outcome   \* how the last Collect ended

vars == <<phase, ctx, reply, todo, children, sent, outcome>>

selfLabel(isSelf) ==
  IF Connection = "loadbalancer" THEN "lb" ELSE IF isSelf THEN "1" ELSE "0"

LabelValues(q, state) ==
  [cluster |-> ctx.cluster, vhost |-> q.vhost, queue |-> q.name, policy |-> q.policy,
   self |-> selfLabel(q.node = ctx.node), state |-> state]

Sample(vec, q, state, v) == [vec |-> vec, labels |-> LabelValues(q, state), value |-> v]

(* First the include filters, then the skip filters *)
Kept(q) ==
  /\ q.vhost \in IncludeVHost /\ q.vhost \notin SkipVHost
  /\ q.name \in IncludeQueues /\ q.name \notin SkipQueues

Present_Unchecked(q, keys) == keys
Present(q, keys) == {k \in keys : q.metrics[k] # Missing}

Gauges(q) ==
  {Sample(k, q, NoState, q.metrics[k]) : k \in Present(q, GaugeKeys \ Excluded)}

(* Counters are constant metrics, sent at once; one the broker leaves out is 0 *)
Counters_PresentOnly(q) ==
  {Sample(k, q, NoState, q.metrics[k]) : k \in Present(q, CounterKeys \ Excluded)}
Counters(q) ==
  {Sample(k, q, NoState, IF q.metrics[k] = Missing THEN 0 ELSE q.metrics[k]) :
     k \in CounterKeys \ Excluded}

(* The lower of two numbers, the one there is, or -1 *)
collectLowerMetric_Unchecked(metricA, metricB, q) ==
  LET number(k) == IF q.metrics[k] = Missing THEN 0 ELSE q.metrics[k]
  IN  IF number(metricA) < number(metricB) THEN number(metricA) ELSE number(metricB)
collectLowerMetric(metricA, metricB, q) ==
  LET mA  == q.metrics[metricA]
      mB  == q.metrics[metricB]
      okA == mA # Missing
      okB == mB # Missing
  IN  IF okA /\ okB THEN IF mA < mB THEN mA ELSE mB
      ELSE IF okA THEN mA
      ELSE IF okB THEN mB
      ELSE -1

Limit(v, q) == collectLowerMetric(Argument[v], Policy[v], q)

Limits(q) ==
  {Sample(v, q, NoState, Limit(v, q)) : v \in {w \in LimitVecs \ Excluded : Limit(w, q) >= 0}}

(* parseTime: "" names no time, and a text of another format is ignored *)
HasIdleTime(q) == q.idle_since \notin {"", "garbled"}

StateLabel(q) == IF HasIdleTime(q) /\ q.state = "running" THEN "idle" ELSE q.state

States(q) ==
  {Sample("state", q, StateLabel(q), 1)}
    \union (IF HasIdleTime(q) THEN {Sample("idle_since", q, NoState, q.idle_since)} ELSE {})

(* WithLabelValues(...).Set on each: one value per vector and labels *)
Set(gs, new) ==
  {g \in gs : \A n \in new : g.vec # n.vec \/ g.labels # n.labels} \union new
----------------------------------------------------------------------------
Init ==
  /\ phase = "idle"
  /\ ctx \in Contexts
  /\ reply = {} /\ todo = {}
  /\ children = {} /\ sent = {}
  /\ outcome = "none"

(* All vectors of the module are emptied first *)
ResetVecs_NotState == GaugeKeys \union LimitVecs \union {"idle_since"}
ResetVecs_NotGauges == LimitVecs \union {"state", "idle_since"}
ResetVecs == GaugeKeys \union LimitVecs \union {"state", "idle_since"}

Begin(c) ==
  /\ phase = "idle"
  /\ ctx' = c
  /\ children' = {g \in children : g.vec \notin ResetVecs}
  /\ sent' = {}
  /\ phase' = "limit"
  /\ UNCHANGED <<reply, todo, outcome>>

End(how) == phase' = "idle" /\ outcome' = how

TooMany == MaxQueues > 0 /\ ctx.total > MaxQueues

LimitExceeded ==
  /\ phase = "limit"
  /\ TooMany
  /\ End("dropped")
  /\ UNCHANGED <<ctx, reply, todo, children, sent>>

RequestFails ==
  /\ phase = "limit"
  /\ ~TooMany
  /\ End("error")
  /\ UNCHANGED <<ctx, reply, todo, children, sent>>

Fetch(queues) ==
  /\ phase = "limit"
  /\ ~TooMany
  /\ reply' = queues
  /\ todo' = queues
  /\ phase' = "queues"
  /\ UNCHANGED <<ctx, children, sent, outcome>>

Skip(q) ==
  /\ phase = "queues" /\ q \in todo
  /\ ~Kept(q)
  /\ todo' = todo \ {q}
  /\ UNCHANGED <<phase, ctx, reply, children, sent, outcome>>

Export(q) ==
  /\ phase = "queues" /\ q \in todo
  /\ Kept(q)
  /\ todo' = todo \ {q}
  /\ children' = Set(children, Gauges(q) \union States(q) \union Limits(q))
  /\ sent' = sent \union Counters(q)
  /\ UNCHANGED <<phase, ctx, reply, outcome>>

(* GaugeVec.Collect of all vectors *)
SendAll ==
  /\ phase = "queues" /\ todo = {}
  /\ sent' = sent \union children
  /\ End("sent")
  /\ UNCHANGED <<ctx, reply, todo, children>>

Next ==
  \/ \E c \in Contexts : Begin(c)
  \/ LimitExceeded
  \/ RequestFails
  \/ \E queues \in Replies : Fetch(queues)
  \/ \E q \in todo : Skip(q) \/ Export(q)
  \/ SendAll

Spec == Init /\ [][Next]_vars
----------------------------------------------------------------------------
(* Types; samples carry numbers the broker gave, never a missing one. *)
TypeOK ==
  /\ phase \in {"idle", "limit", "queues"}
  /\ ctx \in Contexts
  /\ reply \in Replies \union {{}}
  /\ todo \subseteq reply
  /\ \A s \in children \union sent :
       /\ s.vec \in ResetVecs \union CounterKeys
       /\ s.vec = "idle_since" \/ s.value \in Nat
  /\ outcome \in {"none", "dropped", "error", "sent"}

Report == phase = "idle" /\ outcome = "sent"
About(q) ==
  {s \in sent : s.labels.vhost = q.vhost /\ s.labels.queue = q.name}
Of(samples, vecs) == {s \in samples : s.vec \in vecs}

(* A report tells one state of each queue it covers and none of any other: *)
(* a queue that changed its state, its policy or its node, or is gone, or  *)
(* is now reported under another cluster name, leaves nothing behind in    *)
(* the vectors (exporter_queue.go:126-133 and 200-215).                    *)
OneStatePerQueue ==
  Report =>
    /\ \A q \in reply : Kept(q) => Cardinality(Of(About(q), {"state"})) = 1
    /\ \A s \in Of(sent, {"state"}) : \E q \in reply : s \in Of(About(q), {"state"})

(* A gauge tells the number of this reply: one that the broker no longer   *)
(* gives, as the rates of a queue that fell silent, is not told any more,  *)
(* and nothing at all is told of a queue that is not listed or not covered *)
(* (exporter_queue.go:126-128 and 185-190). *)
GaugesFresh ==
  Report =>
    /\ \A q \in reply : Kept(q) =>
         \A k \in GaugeKeys \ Excluded :
           LET told == Of(About(q), {k})
           IN  /\ Cardinality(told) = Cardinality(Present(q, {k}))
               /\ \A s \in told : s.value = q.metrics[k]
    /\ \A s \in sent : \E q \in reply : Kept(q) /\ s \in About(q)

(* Every covered queue has every counter once, so that a rate over it is   *)
(* defined from the first message on (exporter_queue.go:192-198). *)
CountersComplete ==
  Report =>
    \A q \in reply : Kept(q) =>
      \A k \in CounterKeys \ Excluded : Cardinality(Of(About(q), {k})) = 1

(* Each limit in force is reported, once: the lowest the broker gave, be   *)
(* it 0, and none where it gave none, although the queue had one before    *)
(* (exporter_queue.go:105-123, 129-131 and 217-227). *)
Given(v, q) == Present(q, {Argument[v], Policy[v]})
LimitsInForce ==
  Report =>
    \A q \in reply : Kept(q) =>
      \A v \in LimitVecs \ Excluded :
        LET told == Of(About(q), {v})
        IN  /\ Cardinality(told) = IF Given(v, q) = {} THEN 0 ELSE 1
            /\ \A s \in told :
                 /\ \E k \in Given(v, q) : s.value = q.metrics[k]
                 /\ \A k \in Given(v, q) : s.value <= q.metrics[k]

(* metrics.md:60, queue_idle_since_seconds: "only set if queue state is    *)
(* idle". *)
IdleSinceOnlyWhenIdle ==
  Report =>
    \A q \in reply : Of(About(q), {"idle_since"}) # {} =>
      \E s \in Of(About(q), {"state"}) : s.labels.state = "idle"
============================================================================
