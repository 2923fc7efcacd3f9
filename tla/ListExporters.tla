--------------------------- MODULE ListExporters ---------------------------
(***************************************************************************)
(* The modules that turn a list of the broker's objects into samples:      *)
(* connections, exchange, node, memory, federation and shovel, and the     *)
(* aliveness test, whose reply is one object with a status.  The mutex     *)
(* of Exporter lets one Collect run at a time and no two modules share a   *)
(* vector, so a behaviour follows one module, scrape after scrape.  An     *)
(* object has its labels (NoLabel where the module has none), a state,     *)
(* and a number or Missing for every key; "id" tells apart objects whose   *)
(* labels agree.                                                           *)
(***************************************************************************)
EXTENDS Integers, FiniteSets, Functions

CONSTANTS
  Contexts,      \* what the overview told: [cluster, node]
  Replies,       \* Replies[m]: the lists the broker may answer m with
  MemoryReplies, \* bodies of /api/nodes/<name>/memory: [keys -> numbers]
  Keys,          \* Keys[m]: the keys of the vectors of m
  Excluded,      \* config.ExcludeMetrics
  IncludeVHost, SkipVHost, IncludeExchanges, SkipExchanges,
                 \* the names these regular expressions match
  Connection     \* config.RabbitConnection

Modules ==
  {"aliveness", "connections", "exchange", "node", "memory", "federation", "shovel"}
NoLabel == ""
Missing == -1

ASSUME ListKeysAssumption ==
  /\ DOMAIN Replies = Modules
  /\ DOMAIN Keys = Modules
  /\ \A m \in Modules : "state" \notin Keys[m]

(* Lists are finite, nodes and exchanges are listed once, and numbers are  *)
(* not negative *)
ASSUME ListRepliesAssumption ==
  /\ \A m \in Modules : \A objects \in Replies[m] :
       /\ IsFiniteSet(objects)
       /\ m # "memory" =>
            \A o \in objects : \A k \in Keys[m] : o.metrics[k] \in Nat \union {Missing}
  /\ \A m \in {"node", "exchange"} : \A objects \in Replies[m] :
       \A o, p \in objects : o.vhost = p.vhost /\ o.name = p.name => o = p
  /\ \A metrics \in MemoryReplies : \A k \in Keys["memory"] : metrics[k] \in Nat \union {Missing}

VARIABLES
  module,   \* the module
  phase,    \* "idle", "request" (of the list) or "loop" (over it)
  ctx,      \* the context collectWithDuration passed
  reply,    \* the list of this Collect
  todo,     \* the objects the loop has not reached
  children, \* what its gauge vectors hold
  sent,     \* what this Collect sent through the channel
  outcome   \* how the last Collect ended

vars == <<module, phase, ctx, reply, todo, children, sent, outcome>>

WithState == {"aliveness", "connections", "federation", "shovel"}

selfLabel(isSelf) ==
  IF Connection = "loadbalancer" THEN "lb" ELSE IF isSelf THEN "1" ELSE "0"

Self(m, o) ==
  CASE m \in {"aliveness", "exchange"} -> NoLabel
    [] m \in {"node", "memory"}        -> selfLabel(o.name = ctx.node)
    [] OTHER                           -> selfLabel(o.node = ctx.node)

(* A node or its memory goes by its name, a shovel's node shows in its     *)
(* "self" only *)
WithNode == {"connections", "federation"}

(* Aliveness has no cluster; its name stands for the error and the reason *)
Labels(m, o, state) ==
  [cluster |-> IF m = "aliveness" THEN NoLabel ELSE ctx.cluster, vhost |-> o.vhost,
   name |-> o.name, node |-> IF m \in WithNode THEN o.node ELSE NoLabel,
   self |-> Self(m, o), state |-> state]

Sample(m, k, o, state, v) == [vec |-> <<m, k>>, labels |-> Labels(m, o, state), value |-> v]

(* Excluded keys lose their vectors when the module is made *)
Numbers_Unchecked(m, o, metrics) ==
  {Sample(m, k, o, NoLabel, metrics[k]) : k \in Keys[m] \ Excluded}
Numbers(m, o, metrics) ==
  {Sample(m, k, o, NoLabel, metrics[k]) : k \in {j \in Keys[m] \ Excluded : metrics[j] # Missing}}

Flag(m, o) == IF m = "aliveness" /\ o.state # "ok" THEN 0 ELSE 1

State(m, o) ==
  {Sample(m, "state", o, o.state, Flag(n, o)) : n \in {m} \intersect WithState}

Total(samples) == SumFunction([s \in samples |-> s.value])

Same(s, t) == s.vec = t.vec /\ s.labels = t.labels

(* WithLabelValues(...).Set on each *)
Set(gs, new) == {g \in gs : \A n \in new : ~Same(g, n)} \union new

(* WithLabelValues(...).Add on each: a child that is not there counts as 0 *)
Add_IsSet(gs, new) == Set(gs, new)
Add(gs, new) ==
  Set(gs, {[n EXCEPT !.value = n.value + Total({g \in gs : Same(g, n)})] : n \in new})

(* First the include filters, then the skip filters *)
Kept(o) ==
  /\ o.vhost \in IncludeVHost /\ o.vhost \notin SkipVHost
  /\ o.name \in IncludeExchanges /\ o.name \notin SkipExchanges
----------------------------------------------------------------------------
Init ==
  /\ module \in Modules
  /\ phase = "idle"
  /\ ctx \in Contexts
  /\ reply = {} /\ todo = {}
  /\ children = {} /\ sent = {}
  /\ outcome = "none"

ResetFirst_NotMemory == {"federation", "shovel"}
ResetFirst   == {"memory", "federation", "shovel"}
ResetOnReply_NotConnections == {"aliveness", "node"}
ResetOnReply_NotNode == {"aliveness", "connections"}
ResetOnReply_NotAliveness == {"connections", "node"}
ResetOnReply == {"aliveness", "connections", "node"}

Begin(c) ==
  /\ phase = "idle"
  /\ ctx' = c
  /\ phase' = "request"
  /\ children' = IF module \in ResetFirst THEN {} ELSE children
  /\ sent' = {}
  /\ UNCHANGED <<module, reply, todo, outcome>>

End(how) == phase' = "idle" /\ outcome' = how

RequestFails ==
  /\ phase = "request"
  /\ End("error")
  /\ UNCHANGED <<module, ctx, reply, todo, children, sent>>

List(objects) ==
  /\ phase = "request"
  /\ phase' = "loop"
  /\ reply' = objects
  /\ todo' = objects
  /\ children' = IF module \in ResetOnReply THEN {} ELSE children
  /\ UNCHANGED <<module, ctx, sent, outcome>>

Reach(o) == phase = "loop" /\ o \in todo /\ todo' = todo \ {o}

Aggregate(o) ==
  /\ module = "connections"
  /\ Reach(o)
  /\ children' = Add(children, Numbers(module, o, o.metrics) \union State(module, o))
  /\ UNCHANGED <<module, phase, ctx, reply, sent, outcome>>

SetEach(o) ==
  /\ module \in {"aliveness", "node", "federation", "shovel"}
  /\ Reach(o)
  /\ children' = Set(children, Numbers(module, o, o.metrics) \union State(module, o))
  /\ UNCHANGED <<module, phase, ctx, reply, sent, outcome>>

(* Exchanges become constant metrics, sent at once *)
SendConst(o) ==
  /\ module = "exchange"
  /\ Reach(o)
  /\ sent' = sent \union (IF Kept(o) THEN Numbers(module, o, o.metrics) ELSE {})
  /\ UNCHANGED <<module, phase, ctx, reply, children, outcome>>

(* The memory module asks for one node after the other *)
Memory(o, metrics) ==
  /\ module = "memory"
  /\ Reach(o)
  /\ children' = Set(children, Numbers(module, o, metrics))
  /\ UNCHANGED <<module, phase, ctx, reply, sent, outcome>>

(* One node that does not answer ends the module: what the nodes before it *)
(* told stays in the vectors and is not sent *)
AfterMemoryError_Continue(o) ==
  /\ todo' = todo \ {o}
  /\ UNCHANGED <<phase, outcome>>
AfterMemoryError(o) ==
  /\ End("error")
  /\ UNCHANGED todo

MemoryFails(o) ==
  /\ module = "memory" /\ phase = "loop" /\ o \in todo
  /\ AfterMemoryError(o)
  /\ UNCHANGED <<module, ctx, reply, children, sent>>

(* GaugeVec.Collect of the module's vectors *)
SendAll ==
  /\ phase = "loop" /\ todo = {}
  /\ sent' = sent \union children
  /\ End("sent")
  /\ UNCHANGED <<module, ctx, reply, todo, children>>

Next ==
  \/ \E c \in Contexts : Begin(c)
  \/ RequestFails
  \/ \E objects \in Replies[module] : List(objects)
  \/ \E o \in todo : Aggregate(o) \/ SetEach(o) \/ SendConst(o) \/ MemoryFails(o)
  \/ \E o \in todo, metrics \in MemoryReplies : Memory(o, metrics)
  \/ SendAll

Spec == Init /\ [][Next]_vars
----------------------------------------------------------------------------
Report == phase = "idle" /\ outcome = "sent"
Of(m, k) == {s \in sent : s.vec = <<m, k>>}

(* Types; a sample carries a number the broker gave, never a missing one. *)
TypeOK ==
  /\ module \in Modules
  /\ phase \in {"idle", "request", "loop"}
  /\ ctx \in Contexts
  /\ todo \subseteq reply
  /\ \A s \in children \union sent : s.vec[1] \in Modules /\ s.value \in Nat
  /\ outcome \in {"none", "error", "sent"}

(* Connections are counted, each once: the status samples add up to the    *)
(* number of connections listed, and each is the number of those with its  *)
(* labels and state, so that a state nobody is in has disappeared          *)
(* (exporter_connections.go:56-80; metrics.md, connection_status). *)
ConnectionsCounted ==
  Report /\ module = "connections" =>
    /\ Total(Of(module, "state")) = Cardinality(reply)
    /\ \A s \in Of(module, "state") :
         s.value = Cardinality({o \in reply : Labels(module, o, o.state) = s.labels})

(* Nothing is lost or counted twice when connections that share their      *)
(* labels are aggregated: for every key, the samples add up to what the    *)
(* connections of this reply have (exporter_connections.go:71-76). *)
TrafficConserved ==
  Report /\ module = "connections" =>
    \A k \in Keys[module] \ Excluded :
      Total(Of(module, k)) =
        SumFunction([o \in {c \in reply : c.metrics[k] # Missing} |-> o.metrics[k]])

(* Whatever a module sends is about an object of its own reply, under the  *)
(* present cluster name: nothing is left of an earlier scrape, be it one   *)
(* that failed between two nodes.                                          *)
OnlyThisReply ==
  Report =>
    \A s \in sent : \E o \in reply : \E state \in {NoLabel, o.state} :
      s.labels = Labels(module, o, state)

(* A memory reply has at least one of the keys that are exported *)
MemoryTold ==
  \A metrics \in MemoryReplies : \E k \in Keys["memory"] \ Excluded : metrics[k] # Missing

(* Memory is reported for all nodes or for none: each node of the list was *)
(* asked and answered (exporter_memory.go:169-174).                        *)
MemoryOfAllNodes ==
  MemoryTold /\ Report /\ module = "memory" =>
    {s.labels.name : s \in sent} = {o.name : o \in reply}

(* Nodes and exchanges are told with the numbers of this reply: a number   *)
(* that the broker gives no more, as those of a node that stopped, is not  *)
(* told any more, and no exchange is left out but those the filters name   *)
(* (exporter_node.go:68-80, exporter_exchange.go:63-86). *)
NumbersTold ==
  Report /\ module \in {"node", "exchange"} =>
    \A o \in reply : \A k \in Keys[module] \ Excluded :
      LET told == {s \in Of(module, k) : s.labels.vhost = o.vhost /\ s.labels.name = o.name}
      IN  /\ told # {} <=> o.metrics[k] # Missing /\ (module = "exchange" => Kept(o))
          /\ \A s, t \in told : s = t
          /\ \A s \in told : s.value = o.metrics[k]

(* The states reported are those of this reply, no more and no less: a     *)
(* shovel, link or aliveness test that changed its state or error shows    *)
(* the new one only, and an aliveness test counts as passed if and only if *)
(* its status is ok (exporter_shovel.go:32-54, exporter_federation.go,     *)
(* exporter_aliveness.go:73-78). *)
StatesTold ==
  Report /\ module \in WithState \ {"connections"} =>
    /\ {s.labels : s \in Of(module, "state")} = {Labels(module, o, o.state) : o \in reply}
    /\ \A s \in Of(module, "state") :
         s.value = 1 <=> (module = "aliveness" => s.labels.state = "ok")
============================================================================
