-------------------------- MODULE MCQueueExporter --------------------------
EXTENDS QueueExporter

Keys == {"messages_ready", "disk_reads"} \union LimitKeys

(* length and bytes are limits: of the queue's arguments and of its policy *)
Numbers(ready, reads, length, bytes) ==
  [k \in Keys |-> CASE k = "messages_ready" -> ready
                    [] k = "disk_reads" -> reads
                    [] k = Argument["max-length"] -> length[1]
                    [] k = Policy["max-length"] -> length[2]
                    [] k = Argument["max-length-bytes"] -> bytes[1]
                    [] OTHER -> bytes[2]]

Queue(vhost, name, policy, node, state, idle, numbers) ==
  [vhost |-> vhost, name |-> name, policy |-> policy, node |-> node,
   state |-> state, idle_since |-> idle, metrics |-> numbers]

MCContexts ==
  {[cluster |-> "a", node |-> "n1", total |-> 1],
   [cluster |-> "b", node |-> "n1", total |-> 1],
   [cluster |-> "a", node |-> "n2", total |-> 9]}

(* q1 moves between states, nodes and policies, loses its numbers under    *)
(* the same labels and gains limits, 0 among them; the rest is filtered    *)
(* out, for one reason each *)
MCReplies ==
  LET none  == <<Missing, Missing>>
      plain == Numbers(2, 1, <<5, 3>>, <<Missing, 0>>)
      mute  == Numbers(Missing, Missing, none, none)
      bare  == Numbers(Missing, Missing, <<Missing, 4>>, <<7, 0>>)
      zero  == Numbers(0, 0, <<0, 4>>, none)
      q1    == {Queue("/", "q1", "p", "n1", "running", "", plain),
                Queue("/", "q1", "p", "n1", "running", "", mute),
                Queue("/", "q1", "p", "n2", "flow", "t1", zero),
                Queue("/", "q1", "", "n1", "running", "t1", bare),
                Queue("/", "q1", "", "n1", "running", "garbled", zero)}
      q2    == Queue("/", "q2", "", "n2", "running", "", bare)
      rest  == {Queue("skip", "q1", "", "n1", "running", "t1", plain),
                Queue("other", "q1", "", "n1", "running", "t1", plain),
                Queue("/", "rpc", "", "n1", "running", "t1", plain),
                Queue("/", "tmp", "", "n1", "running", "t1", plain)}
  IN  {{}, rest} \union {{a, q2, b} : a \in q1, b \in rest} \union {{a} : a \in q1}

MCGaugeKeys == {"messages_ready"}
MCCounterKeys == {"disk_reads"}
MCVHosts == {"/", "skip"}
MCSkipVHosts == {"skip"}
MCQueues == {"q1", "q2", "rpc"}
MCSkipQueues == {"rpc"}
============================================================================
