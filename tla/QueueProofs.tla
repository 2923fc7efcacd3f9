---------------------------- MODULE QueueProofs ----------------------------
(***************************************************************************)
(* What a scrape of the queue module reports, for every broker and every   *)
(* configuration: exactly the samples of the queues that the last reply    *)
(* listed and the filters keep.  The properties of QueueExporter follow    *)
(* from that.                                                              *)
(***************************************************************************)
EXTENDS QueueExporter, FiniteSetTheorems, TLAPS

(* What one queue adds to the gauge vectors, and to the report *)
Made(q)    == Gauges(q) \union States(q) \union Limits(q)
Samples(q) == Made(q) \union Counters(q)

(* The queues the loop has exported *)
Done == {q \in reply \ todo : Kept(q)}

(* The report is what its queues make, no less and nothing of an earlier   *)
(* scrape (exporter_queue.go:126-223). *)
ExactReport ==
  Report => sent = UNION {Samples(q) : q \in {r \in reply : Kept(r)}}

(* The vectors of the module hold nothing that Begin would not drop; in    *)
(* the loop they hold what the queues done so far made. *)
Resettable == \A g \in children : g.vec \in ResetVecs
Typed ==
  \A s \in children \union sent :
    /\ s.vec \in ResetVecs \union CounterKeys
    /\ s.vec = "idle_since" \/ s.value \in Nat
Progress ==
  /\ phase = "limit"  => children = {} /\ sent = {}
  /\ phase = "queues" => /\ children = UNION {Made(q) : q \in Done}
                         /\ sent = UNION {Counters(q) : q \in Done}
  /\ phase = "idle"   => outcome = "sent" \/ sent = {}

Base ==
  /\ phase \in {"idle", "limit", "queues"}
  /\ ctx \in Contexts
  /\ reply \in Replies \union {{}}
  /\ todo \subseteq reply
  /\ outcome \in {"none", "dropped", "error", "sent"}

IInv == Base /\ Typed /\ Resettable /\ Progress /\ ExactReport
----------------------------------------------------------------------------
(* A sample has its vector, its labels and its number. *)
LEMMA SampleShape ==
  \A vec, q, state, v :
    LET s == Sample(vec, q, state, v)
    IN  /\ s.vec = vec /\ s.value = v
        /\ s.labels.vhost = q.vhost /\ s.labels.queue = q.name /\ s.labels.state = state
BY DEF Sample, LabelValues

(* A queue's samples carry its name, in vectors of the module. *)
LEMMA MadeShape ==
  ASSUME NEW q, NEW s \in Samples(q)
  PROVE  /\ s.labels.vhost = q.vhost /\ s.labels.queue = q.name
         /\ s.vec \in ResetVecs \union CounterKeys
         /\ s \in Made(q) => s.vec \in ResetVecs
<1> DEFINE Ok == s.labels.vhost = q.vhost /\ s.labels.queue = q.name
<1>1. ASSUME s \in Gauges(q) PROVE Ok /\ s.vec \in ResetVecs
  <2>1. PICK k \in Present(q, GaugeKeys \ Excluded) : s = Sample(k, q, NoState, q.metrics[k])
    BY <1>1 DEF Gauges
  <2> QED
    BY <2>1, SampleShape DEF Present, ResetVecs
<1>2. ASSUME s \in States(q) PROVE Ok /\ s.vec \in ResetVecs
  <2>1. \/ s = Sample("state", q, StateLabel(q), 1)
        \/ s = Sample("idle_since", q, NoState, q.idle_since)
    BY <1>2 DEF States
  <2>2. Ok
    BY <2>1, SampleShape
  <2>3. s.vec \in {"state", "idle_since"}
    BY <2>1, SampleShape
  <2> QED
    BY <2>2, <2>3 DEF ResetVecs
<1>3. ASSUME s \in Limits(q) PROVE Ok /\ s.vec \in ResetVecs
  <2>1. PICK v \in LimitVecs : s = Sample(v, q, NoState, Limit(v, q))
    BY <1>3 DEF Limits
  <2> QED
    BY <2>1, SampleShape DEF ResetVecs
<1>4. ASSUME s \in Counters(q) PROVE Ok /\ s.vec \in CounterKeys
  <2>1. PICK k \in CounterKeys \ Excluded :
          s = Sample(k, q, NoState, IF q.metrics[k] = Missing THEN 0 ELSE q.metrics[k])
    BY <1>4 DEF Counters
  <2> QED
    BY <2>1, SampleShape
<1> QED
  BY <1>1, <1>2, <1>3, <1>4 DEF Samples, Made

(* What collectLowerMetric returns: a limit the broker gave, as low as any *)
(* other it gave, or -1 if it gave none. *)
LEMMA LowerLimit ==
  ASSUME Base, NEW q \in reply, NEW v \in LimitVecs
  PROVE  /\ Limit(v, q) >= 0 <=> Given(v, q) # {}
         /\ Limit(v, q) >= 0 => /\ Limit(v, q) \in Nat
                                /\ \E k \in Given(v, q) : Limit(v, q) = q.metrics[k]
                                /\ \A k \in Given(v, q) : Limit(v, q) <= q.metrics[k]
<1> DEFINE A == Argument[v]
           P == Policy[v]
<1>1. A \in LimitKeys /\ P \in LimitKeys
  BY DEF LimitKeys
<1>2. q.metrics[A] \in Nat \union {-1} /\ q.metrics[P] \in Nat \union {-1}
  BY <1>1, RepliesAssumption DEF Base, Missing
<1>3. Given(v, q) = {k \in {A, P} : q.metrics[k] # -1}
  BY DEF Given, Present, Missing
<1>4. Limit(v, q) = IF q.metrics[A] # -1 /\ q.metrics[P] # -1
                    THEN IF q.metrics[A] < q.metrics[P] THEN q.metrics[A] ELSE q.metrics[P]
                    ELSE IF q.metrics[A] # -1 THEN q.metrics[A]
                    ELSE IF q.metrics[P] # -1 THEN q.metrics[P]
                    ELSE -1
  BY DEF Limit, collectLowerMetric, Missing
<1> HIDE DEF A, P
<1> QED
  BY <1>2, <1>3, <1>4

(* The vectors tell what kind of number a sample carries. *)
LEMMA ValueShape ==
  ASSUME Base, NEW q \in reply, NEW s \in Samples(q)
  PROVE  s.vec = "idle_since" \/ s.value \in Nat
<1>1. \A k \in GaugeKeys \union CounterKeys \union LimitKeys : q.metrics[k] \in Nat \union {Missing}
  BY RepliesAssumption DEF Base
<1>2. CASE s \in Gauges(q)
  <2>1. PICK k \in Present(q, GaugeKeys \ Excluded) : s = Sample(k, q, NoState, q.metrics[k])
    BY <1>2 DEF Gauges
  <2> QED
    BY <1>1, <2>1, SampleShape DEF Present
<1>3. CASE s \in States(q)
  BY <1>3, SampleShape DEF States
<1>4. CASE s \in Limits(q)
  <2>1. PICK v \in LimitVecs : s = Sample(v, q, NoState, Limit(v, q)) /\ Limit(v, q) >= 0
    BY <1>4 DEF Limits
  <2>2. Limit(v, q) \in Nat
    BY <2>1, LowerLimit
  <2> QED
    BY <2>1, <2>2, SampleShape
<1>5. CASE s \in Counters(q)
  <2>1. PICK k \in CounterKeys \ Excluded :
          s = Sample(k, q, NoState, IF q.metrics[k] = Missing THEN 0 ELSE q.metrics[k])
    BY <1>5 DEF Counters
  <2>2. (IF q.metrics[k] = Missing THEN 0 ELSE q.metrics[k]) \in Nat
    BY <1>1, <2>1
  <2> QED
    BY <2>1, <2>2, SampleShape
<1> QED
  BY <1>2, <1>3, <1>4, <1>5 DEF Samples, Made

(* Samples of different queues have different labels, so that setting one  *)
(* replaces none of another. *)
LEMMA SetAdds ==
  ASSUME Base, NEW q \in reply, NEW qs, qs \subseteq reply, q \notin qs
  PROVE  Set(UNION {Made(r) : r \in qs}, Made(q)) = UNION {Made(r) : r \in qs \union {q}}
<1>1. ASSUME NEW r \in qs, NEW g \in Made(r), NEW n \in Made(q)
      PROVE  g.labels # n.labels
  <2>1. g.labels.vhost = r.vhost /\ g.labels.queue = r.name
    BY MadeShape DEF Samples
  <2>2. n.labels.vhost = q.vhost /\ n.labels.queue = q.name
    BY MadeShape DEF Samples
  <2>3. q.vhost # r.vhost \/ q.name # r.name
    BY RepliesAssumption DEF Base
  <2> QED
    BY <2>1, <2>2, <2>3
<1> DEFINE U == UNION {Made(r) : r \in qs}
<1>2. Set(U, Made(q)) = U \union Made(q)
  BY <1>1 DEF Set
<1>3. U \union Made(q) = UNION {Made(r) : r \in qs \union {q}}
  OBVIOUS
<1> QED
  BY <1>2, <1>3

(* What a queue makes depends on the context only. *)
LEMMA SameContext ==
  ASSUME UNCHANGED ctx
  PROVE  \A r : /\ Made(r)' = Made(r) /\ Counters(r)' = Counters(r)
                /\ Samples(r)' = Samples(r)
<1>1. \A vec, q, state, v : Sample(vec, q, state, v)' = Sample(vec, q, state, v)
  BY DEF Sample, LabelValues
<1>2. \A r : Gauges(r)' = Gauges(r) /\ Counters(r)' = Counters(r)
  BY <1>1 DEF Gauges, Counters
<1>3. \A r : Limits(r)' = Limits(r) /\ States(r)' = States(r)
  BY <1>1 DEF Limits, States
<1> QED
  BY <1>2, <1>3 DEF Samples, Made

(* The invariant holds before the first scrape, and each action keeps it. *)
LEMMA InitInv == Init => IInv
BY DEF Init, IInv, Base, Typed, Resettable, Progress, ExactReport, Report

(* A scrape begins with empty vectors. *)
LEMMA BeginInv ==
  ASSUME IInv, NEW c \in Contexts, Begin(c)
  PROVE  IInv'
<1>1. Base'
  BY DEF IInv, Base, Begin
<1>2. children' = {} /\ sent' = {}
  BY DEF IInv, Resettable, Begin
<1> QED
  BY <1>1, <1>2 DEF Begin, IInv, Typed, Resettable, Progress, ExactReport, Report

(* A scrape that stops early has sent nothing. *)
LEMMA StopInv ==
  ASSUME IInv, LimitExceeded \/ RequestFails
  PROVE  IInv'
<1>1. phase = "limit" /\ phase' = "idle" /\ outcome' \in {"dropped", "error"}
      /\ UNCHANGED <<ctx, reply, todo, children, sent>>
  BY DEF LimitExceeded, RequestFails, End
<1> QED
  BY <1>1 DEF IInv, Base, Typed, Resettable, Progress, ExactReport, Report

(* The reply came, and no queue of it is done. *)
LEMMA FetchInv ==
  ASSUME IInv, NEW queues \in Replies, Fetch(queues)
  PROVE  IInv'
<1>1. Done' = {}
  BY DEF Fetch, Done
<1> QED
  BY <1>1 DEF Fetch, IInv, Base, Typed, Resettable, Progress, ExactReport, Report

(* A queue is filtered out. *)
LEMMA SkipInv ==
  ASSUME IInv, NEW q \in todo, Skip(q)
  PROVE  IInv'
<1>1. Done' = Done
  BY DEF Skip, Done, Kept, IInv, Base
<1>2. \A r : Made(r)' = Made(r) /\ Counters(r)' = Counters(r)
  BY SameContext DEF Skip
<1>3. Base' /\ Typed' /\ Resettable'
  BY DEF Skip, IInv, Base, Typed, Resettable
<1>4. Progress' /\ ExactReport'
  BY <1>1, <1>2 DEF Skip, IInv, Progress, ExactReport, Report
<1> QED
  BY <1>3, <1>4 DEF IInv

(* The samples of one more queue are made. *)
LEMMA ExportInv ==
  ASSUME IInv, NEW q \in todo, Export(q)
  PROVE  IInv'
<1>1. Done' = Done \union {q}
  BY DEF Export, Done, Kept, IInv, Base
<1>2. \A r : Made(r)' = Made(r) /\ Counters(r)' = Counters(r)
  BY SameContext DEF Export
<1>3. Base'
  BY DEF Export, IInv, Base
<1>4. phase = "queues" /\ phase' = "queues"
  BY DEF Export
<1>5. children' = UNION {Made(r) : r \in Done \union {q}}
  <2>1. q \in reply /\ q \notin Done /\ Done \subseteq reply
    BY DEF IInv, Base, Done
  <2>2. children = UNION {Made(r) : r \in Done}
    BY <1>4 DEF IInv, Progress
  <2>3. children' = Set(children, Made(q))
    BY DEF Export, Made
  <2> QED
    BY <2>1, <2>2, <2>3, SetAdds DEF IInv
<1>6. sent' = UNION {Counters(r) : r \in Done \union {q}}
  BY <1>4 DEF Export, IInv, Progress
<1>7. Resettable'
  BY <1>5, MadeShape DEF Resettable, Samples
<1>9. Typed'
  <2>1. ASSUME NEW s \in children' \union sent'
        PROVE  s \in children \union sent \/ s \in Samples(q)
    BY <1>4, <1>5, <1>6, <2>1 DEF IInv, Progress, Samples
  <2>2. \A s \in Samples(q) : /\ s.vec \in ResetVecs \union CounterKeys
                              /\ s.vec = "idle_since" \/ s.value \in Nat
    BY MadeShape, ValueShape DEF IInv, Base
  <2> QED
    BY <2>1, <2>2 DEF IInv, Typed
<1>8. Progress' /\ ExactReport'
  BY <1>1, <1>2, <1>4, <1>5, <1>6 DEF Progress, ExactReport, Report
<1> QED
  BY <1>3, <1>7, <1>8, <1>9 DEF IInv

(* All gauges are sent. *)
LEMMA SendInv ==
  ASSUME IInv, SendAll
  PROVE  IInv'
<1>1. Base' /\ Typed' /\ Resettable' /\ Progress'
  BY DEF SendAll, End, IInv, Base, Typed, Resettable, Progress
<1>2. ExactReport'
  <2>1. Done = {r \in reply : Kept(r)} /\ Done' = Done
    BY DEF SendAll, Done, Kept
  <2>2. \A r : Samples(r)' = Samples(r)
    BY SameContext DEF SendAll
  <2>3. sent' = UNION {Samples(r) : r \in Done}
    <3>1. /\ children = UNION {Made(r) : r \in Done}
          /\ sent = UNION {Counters(r) : r \in Done}
      BY DEF SendAll, IInv, Progress
    <3>2. sent' = sent \union children
      BY DEF SendAll
    <3> QED
      BY <3>1, <3>2 DEF Samples
  <2>4. {r \in reply : Kept(r)}' = {r \in reply : Kept(r)}
    BY DEF SendAll, Kept
  <2> QED
    BY <2>1, <2>2, <2>3, <2>4 DEF ExactReport
<1> QED
  BY <1>1, <1>2 DEF IInv

(* Nothing happens. *)
LEMMA StutterInv ==
  ASSUME IInv, UNCHANGED vars
  PROVE  IInv'
<1>1. \A r : Made(r)' = Made(r) /\ Counters(r)' = Counters(r) /\ Samples(r)' = Samples(r)
  BY SameContext DEF vars
<1>2. Done' = Done /\ Report' = Report
  BY DEF vars, Done, Kept, Report
<1>3. {r \in reply : Kept(r)}' = {r \in reply : Kept(r)}
  BY DEF vars, Kept
<1> QED
  BY <1>1, <1>2, <1>3 DEF vars, IInv, Base, Typed, Resettable, Progress, ExactReport

(* IInv holds in every reachable state. *)
THEOREM QueueInvariance == Spec => []IInv
<1>1. ASSUME IInv, [Next]_vars PROVE IInv'
  BY <1>1, BeginInv, StopInv, FetchInv, SkipInv, ExportInv, SendInv, StutterInv DEF Next
<1> QED
  BY <1>1, InitInv, PTL DEF Spec
----------------------------------------------------------------------------
(* Which of a queue's samples a vector has. *)
LEMMA Vectors ==
  ASSUME NEW q, NEW s \in Samples(q)
  PROVE  /\ s.vec = "state" => s = Sample("state", q, StateLabel(q), 1)
         /\ s.vec \in LimitVecs =>
              s = Sample(s.vec, q, NoState, Limit(s.vec, q)) /\ Limit(s.vec, q) >= 0
         /\ s.vec \in GaugeKeys =>
              /\ s = Sample(s.vec, q, NoState, q.metrics[s.vec])
              /\ q.metrics[s.vec] # Missing
         /\ s.vec \in CounterKeys =>
              s = Sample(s.vec, q, NoState,
                         IF q.metrics[s.vec] = Missing THEN 0 ELSE q.metrics[s.vec])
<1>0. "state" \notin LimitVecs /\ "idle_since" \notin LimitVecs
  BY DEF LimitVecs
<1>1. CASE s \in Gauges(q)
  <2>1. PICK k \in Present(q, GaugeKeys \ Excluded) : s = Sample(k, q, NoState, q.metrics[k])
    BY <1>1 DEF Gauges
  <2>2. s.vec = k /\ k \in GaugeKeys /\ q.metrics[k] # Missing
    BY <2>1, SampleShape DEF Present
  <2> QED
    BY <2>1, <2>2, KeysAssumption
<1>2. CASE s \in States(q)
  <2>1. \/ s = Sample("state", q, StateLabel(q), 1)
        \/ s = Sample("idle_since", q, NoState, q.idle_since)
    BY <1>2 DEF States
  <2> QED
    BY <1>0, <2>1, SampleShape, KeysAssumption
<1>3. CASE s \in Limits(q)
  <2>1. PICK v \in LimitVecs : s = Sample(v, q, NoState, Limit(v, q)) /\ Limit(v, q) >= 0
    BY <1>3 DEF Limits
  <2>2. s.vec = v
    BY <2>1, SampleShape
  <2> QED
    BY <1>0, <2>1, <2>2, KeysAssumption
<1>4. CASE s \in Counters(q)
  <2>1. PICK k \in CounterKeys \ Excluded :
          s = Sample(k, q, NoState, IF q.metrics[k] = Missing THEN 0 ELSE q.metrics[k])
    BY <1>4 DEF Counters
  <2>2. s.vec = k
    BY <2>1, SampleShape
  <2> QED
    BY <2>1, <2>2, KeysAssumption
<1> QED
  BY <1>1, <1>2, <1>3, <1>4 DEF Samples, Made

(* What a report tells of a queue, this queue made. *)
LEMMA AboutOne ==
  ASSUME IInv, Report
  PROVE  /\ \A s \in sent : \E q \in reply : Kept(q) /\ s \in Samples(q)
         /\ \A q \in reply : \A s \in About(q) : Kept(q) /\ s \in Samples(q)
         /\ \A q \in reply : Kept(q) => \A s \in Samples(q) : s \in About(q)
<1>1. sent = UNION {Samples(q) : q \in {r \in reply : Kept(r)}}
  BY DEF IInv, ExactReport
<1>2. ASSUME NEW q \in reply, NEW s \in About(q) PROVE Kept(q) /\ s \in Samples(q)
  <2>1. PICK r \in reply : Kept(r) /\ s \in Samples(r)
    BY <1>1 DEF About
  <2>2. r.vhost = q.vhost /\ r.name = q.name
    BY <2>1, MadeShape DEF About
  <2>3. r = q
    BY <2>2, RepliesAssumption DEF IInv, Base
  <2> QED
    BY <2>1, <2>3
<1>3. ASSUME NEW q \in reply, Kept(q), NEW s \in Samples(q) PROVE s \in About(q)
  BY <1>1, <1>3, MadeShape DEF About
<1> QED
  BY <1>1, <1>2, <1>3

(* Every report is exactly what its queues make. *)
THEOREM Exact == Spec => []ExactReport
<1>1. IInv => ExactReport
  BY DEF IInv
<1> QED
  BY <1>1, QueueInvariance, PTL

(* Every variable stays in its domain, and no missing number is sent. *)
THEOREM TypeCorrect == Spec => []TypeOK
<1>1. IInv => TypeOK
  BY DEF IInv, Base, Typed, TypeOK
<1> QED
  BY <1>1, QueueInvariance, PTL

(* A report tells one state of each queue it covers and no other.          *)
THEOREM OneState == Spec => []OneStatePerQueue
<1>1. ASSUME IInv, Report PROVE OneStatePerQueue
  <2>1. ASSUME NEW q \in reply, Kept(q)
        PROVE  Cardinality(Of(About(q), {"state"})) = 1
    <3> DEFINE s0 == Sample("state", q, StateLabel(q), 1)
    <3>1. s0 \in Samples(q) /\ s0.vec = "state"
      BY SampleShape DEF Samples, Made, States
    <3>2. \A s \in About(q) : s.vec = "state" => s = s0
      BY <1>1, AboutOne, Vectors DEF IInv
    <3>3. s0 \in About(q)
      BY <1>1, <2>1, <3>1, AboutOne
    <3> HIDE DEF s0
    <3>4. Of(About(q), {"state"}) = {s0}
      BY <3>1, <3>2, <3>3 DEF Of
    <3> QED
      BY <3>4, FS_Singleton
  <2>2. ASSUME NEW s \in Of(sent, {"state"})
        PROVE  \E q \in reply : s \in Of(About(q), {"state"})
    <3>1. PICK q \in reply : Kept(q) /\ s \in Samples(q)
      BY <1>1, AboutOne DEF Of
    <3>2. s \in About(q)
      BY <1>1, <3>1, AboutOne
    <3> QED
      BY <3>2 DEF Of
  <2> QED
    BY <2>1, <2>2 DEF OneStatePerQueue
<1>2. IInv => OneStatePerQueue
  BY <1>1 DEF OneStatePerQueue
<1> QED
  BY <1>2, QueueInvariance, PTL

(* A gauge tells the number of this reply and is not there if the reply   *)
(* has none, whatever earlier replies had. *)
THEOREM GaugesOfReply == Spec => []GaugesFresh
<1>1. ASSUME IInv, Report, NEW q \in reply, Kept(q), NEW k \in GaugeKeys \ Excluded
      PROVE  LET told == Of(About(q), {k})
             IN  /\ Cardinality(told) = Cardinality(Present(q, {k}))
                 /\ \A s \in told : s.value = q.metrics[k]
  <2> DEFINE s0 == Sample(k, q, NoState, q.metrics[k])
  <2>1. s0.vec = k /\ s0.value = q.metrics[k]
    BY SampleShape
  <2>2. \A s \in About(q) : s.vec = k => s = s0 /\ q.metrics[k] # Missing
    BY <1>1, AboutOne, Vectors
  <2>3. q.metrics[k] # Missing => s0 \in About(q)
    <3>1. q.metrics[k] # Missing => s0 \in Samples(q)
      BY DEF Samples, Made, Gauges, Present
    <3> QED
      BY <1>1, <3>1, AboutOne
  <2> HIDE DEF s0
  <2>4. CASE q.metrics[k] # Missing
    <3>1. Of(About(q), {k}) = {s0} /\ Present(q, {k}) = {k}
      BY <2>1, <2>2, <2>3, <2>4 DEF Of, Present
    <3> QED
      BY <2>1, <3>1, FS_Singleton
  <2>5. CASE q.metrics[k] = Missing
    <3>1. Of(About(q), {k}) = {} /\ Present(q, {k}) = {}
      BY <2>2, <2>5 DEF Of, Present
    <3> QED
      BY <3>1
  <2> QED
    BY <2>4, <2>5
<1>2. ASSUME IInv, Report, NEW s \in sent
      PROVE  \E q \in reply : Kept(q) /\ s \in About(q)
  BY <1>2, AboutOne
<1>3. IInv => GaugesFresh
  BY <1>1, <1>2 DEF GaugesFresh
<1> QED
  BY <1>3, QueueInvariance, PTL

(* Every covered queue has every counter, once.                            *)
THEOREM AllCounters == Spec => []CountersComplete
<1>1. ASSUME IInv, Report, NEW q \in reply, Kept(q), NEW k \in CounterKeys \ Excluded
      PROVE  Cardinality(Of(About(q), {k})) = 1
  <2> DEFINE s0 == Sample(k, q, NoState, IF q.metrics[k] = Missing THEN 0 ELSE q.metrics[k])
  <2>1. s0 \in Samples(q) /\ s0.vec = k
    BY SampleShape DEF Samples, Counters
  <2>2. s0 \in About(q)
    BY <1>1, <2>1, AboutOne
  <2>3. \A s \in About(q) : s.vec = k => s = s0
    BY <1>1, AboutOne, Vectors DEF IInv
  <2> HIDE DEF s0
  <2>4. Of(About(q), {k}) = {s0}
    BY <2>1, <2>2, <2>3 DEF Of
  <2> QED
    BY <2>4, FS_Singleton
<1>2. IInv => CountersComplete
  BY <1>1 DEF CountersComplete
<1> QED
  BY <1>2, QueueInvariance, PTL

(* The limits in force are reported: the lowest of those the broker gave,  *)
(* once, and none if it gave none. *)
THEOREM LimitsTold == Spec => []LimitsInForce
<1>1. ASSUME IInv, Report, NEW q \in reply, Kept(q), NEW v \in LimitVecs \ Excluded
      PROVE  LET told == Of(About(q), {v})
             IN  /\ Cardinality(told) = IF Given(v, q) = {} THEN 0 ELSE 1
                 /\ \A s \in told : /\ \E k \in Given(v, q) : s.value = q.metrics[k]
                                    /\ \A k \in Given(v, q) : s.value <= q.metrics[k]
  <2> DEFINE s0 == Sample(v, q, NoState, Limit(v, q))
  <2>1. s0.vec = v /\ s0.value = Limit(v, q)
    BY SampleShape
  <2>2. \A s \in About(q) : s.vec = v => s = s0 /\ Limit(v, q) >= 0
    BY <1>1, AboutOne, Vectors
  <2>3. Limit(v, q) >= 0 => s0 \in About(q)
    <3>1. Limit(v, q) >= 0 => s0 \in Samples(q)
      BY DEF Samples, Made, Limits
    <3> QED
      BY <1>1, <3>1, AboutOne
  <2>4. Base
    BY <1>1 DEF IInv
  <2> HIDE DEF s0
  <2>5. CASE Given(v, q) # {}
    <3>1. Limit(v, q) >= 0
      BY <2>4, <2>5, LowerLimit
    <3>2. Of(About(q), {v}) = {s0}
      BY <2>1, <2>2, <2>3, <3>1 DEF Of
    <3>3. /\ \E k \in Given(v, q) : Limit(v, q) = q.metrics[k]
          /\ \A k \in Given(v, q) : Limit(v, q) <= q.metrics[k]
      BY <2>4, <3>1, LowerLimit
    <3>4. Cardinality(Of(About(q), {v})) = 1
      BY <3>2, FS_Singleton
    <3>5. \A s \in Of(About(q), {v}) : s.value = Limit(v, q)
      BY <2>1, <3>2
    <3> QED
      BY <2>5, <3>3, <3>4, <3>5
  <2>6. CASE Given(v, q) = {}
    <3>1. ~(Limit(v, q) >= 0)
      BY <2>4, <2>6, LowerLimit
    <3>2. Of(About(q), {v}) = {}
      BY <2>2, <3>1 DEF Of
    <3>3. Cardinality(Of(About(q), {v})) = 0
      BY <3>2, FS_EmptySet
    <3> QED
      BY <2>6, <3>2, <3>3
  <2> QED
    BY <2>5, <2>6
<1>2. IInv => LimitsInForce
  BY <1>1 DEF LimitsInForce
<1> QED
  BY <1>2, QueueInvariance, PTL
=============================================================================
