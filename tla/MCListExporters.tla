-------------------------- MODULE MCListExporters --------------------------
EXTENDS ListExporters

Obj(vhost, name, node, state, metrics, id) ==
  [vhost |-> vhost, name |-> name, node |-> node, state |-> state,
   metrics |-> metrics, id |-> id]

MCContexts == {[cluster |-> "a", node |-> "n1"], [cluster |-> "b", node |-> "n2"]}

MCKeys ==
  [m \in Modules |->
     CASE m = "connections" -> {"recv_oct", "channels"}
       [] m \in {"aliveness", "federation", "shovel"} -> {}
       [] OTHER -> {"used"}]

(* Three connections of one user, two of them in one state and one without *)
(* the number of its channels, and one of another node *)
MCConnections ==
  LET traffic(bytes, chans) == [recv_oct |-> bytes, channels |-> chans]
      c1 == Obj("/", "guest", "n1", "running", traffic(3, 1), 1)
      c2 == Obj("/", "guest", "n1", "running", traffic(3, Missing), 2)
      c3 == Obj("/", "guest", "n1", "flow", traffic(0, 2), 3)
      c4 == Obj("/", "guest", "n2", "running", traffic(1, 1), 4)
  IN  {{}, {c1, c2, c3}, {c1, c4}, {c2}}

Used(n) == [used |-> n]

(* A node that stopped is listed without its numbers *)
MCStopped == {Obj("", "n1", "", "", Used(1), 0), Obj("", "n2", "", "", Used(Missing), 0)}
MCNodes(names) == {Obj("", n, "", "", Used(1), 0) : n \in names}

(* Exchanges that are kept, or ruled out by one filter each *)
MCExchanges ==
  {{Obj("/", "amq.topic", "", "", Used(2), 0), Obj("skip", "amq.topic", "", "", Used(2), 0),
    Obj("other", "amq.topic", "", "", Used(2), 0), Obj("/", "rpc", "", "", Used(2), 0),
    Obj("/", "tmp", "", "", Used(2), 0)},
   {Obj("/", "amq.topic", "", "", Used(Missing), 0)}}

Link(name, state, id) == Obj("/", name, "n1", state, [none |-> Missing], id)

(* Two upstreams of one exchange give two links with the same labels *)
MCLinks ==
  {{}, {Link("x", "running", 1)}, {Link("x", "starting", 1)},
   {Link("x", "running", 1), Link("x", "running", 2)}}

(* Shovels on other nodes, two of them with the same labels *)
Shovel(name, node, state, id) == Obj("/", name, node, state, [none |-> Missing], id)
MCShovels ==
  {{Shovel("s1", "n1", "running", 1)},
   {Shovel("s1", "n1", "terminated", 1), Shovel("s2", "n2", "running", 2)},
   {Shovel("s1", "n3", "running", 1), Shovel("s1", "n4", "running", 2)}}

(* Passed, failed, and a body without any of the texts *)
Test(error, status) == {Obj("", error, "", status, [none |-> Missing], 0)}
MCTests == {Test("", "ok"), Test("timeout", "failed"), Test("", "")}

MCReplies ==
  [m \in Modules |->
     CASE m = "connections" -> MCConnections
       [] m = "aliveness" -> MCTests
       [] m \in {"node", "memory"} -> {MCNodes({"n1", "n2"}), MCNodes({"n2"}), MCStopped}
       [] m = "exchange" -> MCExchanges
       [] m = "federation" -> MCLinks
       [] OTHER -> MCShovels]

MCMemoryReplies == {Used(4), Used(5)}

MCVHosts == {"/", "skip"}
MCSkipVHosts == {"skip"}
MCExchangeNames == {"amq.topic", "rpc"}
MCSkipExchanges == {"rpc"}
============================================================================
