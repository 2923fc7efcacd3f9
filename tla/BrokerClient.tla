---------------------------- MODULE BrokerClient ----------------------------
(***************************************************************************)
(* The HTTP client of rabbitClient.go while Collect makes its requests,    *)
(* one after the other, holding the mutex: when a request ends, and what   *)
(* becomes of its connection.  net/http keeps a connection whose reply was *)
(* read to its end for the next request.  A reply with another status than *)
(* 200 is dropped with its body unread and open: that connection is held   *)
(* until the timeout of its request, which nobody waits for any more.      *)
(*                                                                         *)
(* Time is counted in ticks.  The exporter's own computations take none.   *)
(***************************************************************************)
EXTENDS Naturals, FiniteSets

CONSTANTS Conns,    \* connections to the broker, open or not
          Timeouts, \* values of config.Timeout, in ticks
          Calls     \* the most requests one Collect makes

(* RABBIT_TIMEOUT=0 and negative values mean no timeout at all *)
ASSUME TimeoutAssumption == Timeouts \subseteq Nat \ {0}
ASSUME CallsAssumption == Calls \in Nat \ {0}

VARIABLES
  timeout,    \* config.Timeout, which initClient gives to the client
  collecting, \* a Collect holds the mutex
  made,       \* requests the last Collect has made
  elapsed,    \* ticks since it took the mutex
  allUp,      \* none of them failed
  conn,       \* conn[c]: what connection c is used for
  age         \* age[c]: ticks since the request on c began

cvars == <<collecting, made, elapsed, allUp, conn, age>>

(* What the timeouts of all its requests add up to *)
LongestHold == Calls * timeout

InState(places) == {c \in Conns : conn[c] \in places}
Calling == InState({"waiting", "reading"}) # {}

InitClient ==
  /\ timeout \in Timeouts
  /\ collecting = FALSE
  /\ made = 0
  /\ elapsed = 0
  /\ allUp = TRUE
  /\ conn = [c \in Conns |-> "closed"]
  /\ age = [c \in Conns |-> 0]

(* Connection c is used otherwise; only a request has an age *)
Put(c, place) ==
  /\ conn' = [conn EXCEPT ![c] = place]
  /\ age' = [age EXCEPT ![c] = IF place \in {"reading", "held"} THEN age[c] ELSE 0]

BeginCollect ==
  /\ ~collecting
  /\ collecting' = TRUE
  /\ made' = 0
  /\ elapsed' = 0
  /\ allUp' = TRUE
  /\ UNCHANGED <<conn, age>>

(* A connection is dialed only if no idle one is there *)
Usable(c) ==
  \/ conn[c] = "idle"
  \/ conn[c] = "closed" /\ InState({"idle"}) = {}

Do(c) ==
  /\ collecting /\ ~Calling /\ made < Calls
  /\ Usable(c)
  /\ made' = made + 1
  /\ Put(c, "waiting")
  /\ UNCHANGED <<collecting, elapsed, allUp>>

StatusOK(c) ==
  /\ conn[c] = "waiting"
  /\ Put(c, "reading")
  /\ UNCHANGED <<collecting, made, elapsed, allUp>>

(* Any other status: apiRequest returns an error and leaves the body open; *)
(* only a reply without a body gives its connection back *)
OtherStatus(c, body) ==
  /\ conn[c] = "waiting"
  /\ Put(c, IF body = "empty" THEN "idle" ELSE "held")
  /\ allUp' = FALSE
  /\ UNCHANGED <<collecting, made, elapsed>>

(* ReadAll reached the end; MakeReply may still refuse what it read *)
BodyRead(c, parsed) ==
  /\ conn[c] = "reading"
  /\ Put(c, "idle")
  /\ allUp' = (allUp /\ parsed)
  /\ UNCHANGED <<collecting, made, elapsed>>

(* Refused, reset, cut short (or never sent, if the URL does not parse) *)
Breaks(c) ==
  /\ conn[c] \in {"waiting", "reading"}
  /\ Put(c, "closed")
  /\ allUp' = FALSE
  /\ UNCHANGED <<collecting, made, elapsed>>

(* The timer of a request runs until its body is read or closed *)
Timed_UntilStatus == {"waiting"}
Timed_NotDropped == {"waiting", "reading"}
Timed == {"waiting", "reading", "held"}

Due(c) == conn[c] \in Timed /\ age[c] = timeout

TimesOut(c) ==
  /\ Due(c)
  /\ Put(c, "closed")
  /\ allUp' = (allUp /\ conn[c] = "held")
  /\ UNCHANGED <<collecting, made, elapsed>>

ServerCloses(c) ==
  /\ conn[c] = "idle"
  /\ Put(c, "closed")
  /\ UNCHANGED <<collecting, made, elapsed, allUp>>

EndCollect ==
  /\ collecting /\ ~Calling /\ made > 0
  /\ collecting' = FALSE
  /\ UNCHANGED <<made, elapsed, allUp, conn, age>>

(* Time passes while a request waits, or between two scrapes, and never    *)
(* beyond a timer that is due *)
Tick ==
  /\ collecting => Calling
  /\ \A c \in Conns : ~Due(c)
  /\ age' = [c \in Conns |-> IF conn[c] \in {"waiting", "reading", "held"}
                             THEN age[c] + 1 ELSE age[c]]
  /\ elapsed' = IF collecting THEN elapsed + 1 ELSE elapsed
  /\ UNCHANGED <<collecting, made, allUp, conn>>

Exchange(c) ==
  \/ Do(c) \/ StatusOK(c) \/ Breaks(c) \/ TimesOut(c) \/ ServerCloses(c)
  \/ \E body \in {"empty", "open"} : OtherStatus(c, body)
  \/ \E parsed \in BOOLEAN : BodyRead(c, parsed)
----------------------------------------------------------------------------
ClientTypeOK ==
  /\ timeout \in Timeouts
  /\ collecting \in BOOLEAN
  /\ made \in 0 .. Calls
  /\ elapsed \in Nat
  /\ allUp \in BOOLEAN
  /\ conn \in [Conns -> {"closed", "idle", "waiting", "reading", "held"}]
  /\ age \in [Conns -> 0 .. timeout]

(* A scrape holds the mutex for a bounded time, however slowly the broker  *)
(* sends its status or its body: the timeout of a request covers both      *)
(* (rabbitClient.go:57-60, :80-95; exporter.go:91). *)
HoldBounded == collecting => elapsed <= LongestHold

(* What it rests on: one request at a time, and the requests that ended    *)
(* took no longer than the timeout each.                                   *)
OneAtATime ==
  /\ \A c, d \in InState({"waiting", "reading"}) : c = d
  /\ Calling => collecting /\ made > 0

ElapsedBound ==
  collecting =>
    IF Calling
    THEN \A c \in InState({"waiting", "reading"}) : elapsed <= (made - 1) * timeout + age[c]
    ELSE elapsed <= made * timeout
============================================================================
