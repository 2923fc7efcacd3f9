# A verification project for rabbitmq_exporter

TLA+ models of rabbitmq_exporter, model-checked with TLC on small instances,
and theorems about them checked by TLAPS for every instance. Line numbers refer
to the files in `src/`.

## The system

rabbitmq_exporter is one process. `main` reads a configuration, registers one
Prometheus collector and serves HTTP. Every `GET /metrics` makes the Prometheus
registry call `exporter.Collect` in a goroutine of its own; Collect asks the
RabbitMQ management API for an overview and then for what each enabled module
needs, fills gauges, and sends pointers to them through a channel. The registry
reads the values when it gets to them. `GET /health` tells whether the last
scrape succeeded.

### Components

| Component | State it keeps | Operations | Talks to |
|---|---|---|---|
| Collector (`exporter.go`, `exporter_overview.go`) | mutex, last node info (cluster, node, number of queues), `lastScrapeOK`, the vectors `up`, `module_up`, duration, overview | `Collect`, `collectWithDuration`, `LastScrapeOK` | modules (calls, a context with names and totals), registry (channel of shared metric pointers), `/health` (mutex) |
| Queue module (`exporter_queue.go`) | gauge vectors, one for the state, one for the idle time, limits | `Collect` | broker client, `config` filters |
| List modules (`exporter_connections.go`, `_exchange`, `_federation`, `_shovel`, `_node`, `_memory`) | gauge vectors (the exchange module has none) | `Collect` | broker client |
| Aliveness module (`exporter_aliveness.go`) | two vectors, one of them never set | `Collect` | broker client |
| Broker client (`rabbitClient.go`) | an `http.Client` with a timeout and its connections | `initClient`, `apiRequest`, `getStatsInfo`, `getMetricMap` | RabbitMQ, parsers |
| Reply parsers (`decoder.go`, `jsonmap.go`, `bertmap.go`) | none | `MakeMap`, `MakeStatsInfo`, `GetString` for JSON and BERT | - |
| Configuration (`config.go`) | one global record, written once | `initConfig`, `initConfigFromFile`, `parseCapabilities`; `newExporter` and the modules' constructors use it | environment, secret files, config file |
| Startup and shutdown (`main.go`, `service.go`, `service_windows.go`) | goroutines for main, server and stop handler; two channels | start, subscribe to signals or the service manager, drain, exit | HTTP server, operating system |
| Health check client (`curl.go`, `Dockerfile`) | none; Docker counts its failures | one GET with a timeout of its own | `/health` |

### What is hard

* **Concurrency.** Scrapes run in parallel except for one mutex, and that mutex
  does not cover the moment when the registry reads a gauge. The next scrape may
  already be resetting and setting the same vectors.
* **State that outlives a scrape.** Vectors keep their children, and the overview
  keeps node info, so a scrape can send what an earlier one learned: under an old
  cluster name, of a queue that is gone, or after its module failed.
* **Order.** The queue module depends on what the overview stored before.
* **Partial failure.** Any request may fail: one of several modules, or one of the
  memory module's requests per node.
* **Termination.** Server, signal and main goroutine meet over unbuffered channels,
  and three of them can end the process.
* **Time.** A scrape holds the mutex while the broker takes its time; further scrapes
  and the container's health check, which has a timeout, queue behind it. A
  reply with an error status leaves its connection open.
* **Settings.** Two dozen variables are read by copied blocks of code, some with a
  secret file that takes precedence, some split into lists.
* **Two encodings.** The same reply can come as JSON or in several BERT shapes, and
  must mean the same.

### What makes each component correct

| Component | Properties |
|---|---|
| Collector | an answer is one consistent report of its own scrape; each scrape looks atomic and `/health` tells the last one's outcome; the queue limit holds against what the scrape was told; every request is answered |
| Queue module | one state, all counters and the present gauges for each queue the filters keep, nothing of any other; the limits in force, also after they changed or went |
| List and aliveness modules | nothing lost or double counted in aggregation; only objects of the present reply, each in its present state and with its present numbers; memory of all nodes or of none |
| Broker client | a scrape ends after the timeouts of its requests at the latest; open connections are bounded |
| Health check client | scrapes do not pile up; a container becomes unhealthy only after a scrape failed |
| Configuration | each variable has one setting of its own; nothing is filtered out that was not asked for; the capabilities are those the list names |
| Startup and shutdown | status 0 tells the truth; an order to stop ends the process; signals after the subscription do no harm |
| Parsers | both encodings give the same metrics, labels and texts |

## Modules

| Module | Models | State and actions |
|---|---|---|
| `ScrapeService` | what the collector promises, abstractly | `ok`, `answer`, `told`; a scrape or a probe is one step |
| `Exporter` | the collector | see below |
| `ExporterInvariant` | the inductive invariant `IInv` | - |
| `ExporterCoherence`, `ExporterService` | proofs about `Exporter`: types and coherence; final reports, queue limit and refinement | - |
| `MCExporter` | instances for TLC | - |
| `QueueExporter`, `MCQueueExporter` | the queue module, scrape after scrape | `Begin` (reset, context), `LimitExceeded`, `RequestFails`, `Fetch`, one `Skip` or `Export` per queue, `SendAll` |
| `QueueProofs` | proofs about `QueueExporter` | - |
| `ListExporters`, `MCListExporters` | the six list modules and the aliveness module, scrape after scrape | `Begin`, `RequestFails`, `List`, then per object `Aggregate` (connections), `SetEach` (node, federation, shovel, aliveness), `SendConst` (exchange), `Memory` / `MemoryFails`, then `SendAll` |
| `ListProofs` | proofs about `ListExporters`, and about sums over finite sets | - |
| `BrokerClient` | the HTTP client in time, while a scrape holds the mutex | `BeginCollect`, `Do`, `StatusOK`, `OtherStatus`, `BodyRead`, `Breaks`, `TimesOut`, `ServerCloses`, `EndCollect`, `Tick` |
| `HealthCheck` | Prometheus and the container's health check in front of it (extends `BrokerClient`) | `ScrapeArrives`, `BeginScrape`, `EndScrape`, `Ask`, `AnswerCheck`, `GiveUp`, `Pass` |
| `HealthProofs` | proofs about `HealthCheck` | - |
| `Configuration`, `MCConfiguration` | settings from the environment or a file, and what `newExporter` makes of them | `LoadEnv`, `EnvPanics`, `LoadFile`, `FilePanics`, `NewExporter` |
| `ConfigurationProofs` | proofs about `Configuration` | - |
| `Lifecycle`, `LifecycleProofs` | the process from `main` to its exit, on the `platform` chosen in the initial state | one group of actions per goroutine: main, server, handler (`Run`, `TakeSignal`, `Command`, `TellStopPending`, `Handover`, `Return`); `Signal`, `Control` and requests from outside |
| `ReplyParsers`, `MCReplyParsers` | both parsers on the same reply | `Parse`; the parsers are recursive functions |
| `ParserProofs` | proofs about `ReplyParsers`, and that the recursive functions are defined | - |

`ScrapeService` is refined by `Exporter` (`ImplementsService`). `HealthCheck` composes
the broker client, the collector's mutex and `/health` with their two callers;
there a scrape is no more than a number of requests, because `Exporter` and the
modules say what the requests yield.

### Exporter

A request is `new`, `locking`, then, holding the mutex, `collecting` (between
modules) or `requesting` (in a module's request), then `draining` (Collect has
returned, the registry still reads) and `done`. `LockCollect`, `BeginModule`,
the four outcomes of a module (`OverviewReply`, `ModuleReply`,
`QueueLimitExceeded`, `ModuleError`) and `FinishCollect` are the pieces of
`Collect` and `collectWithDuration` between the points where another goroutine
can be noticed: requests to the broker and the mutex. `Write` reads one metric
from the channel at any time after it was sent, which is what the registry does.

A gauge is an object: its series (vector and labels), the scrape that made it,
its value, and whether it is still registered in its vector. `Reset` and
`DeleteLabelValues` unregister it; references in a channel stay good. This is
what client_golang does and what the hazard is about. Data a module fetched
has the scrape as its value, so that a stale or overwritten value shows.
What a module fetches is one object or none; the details are in
`QueueExporter` and `ListExporters`, which need no concurrency because the mutex
lets one Collect run at a time (proved: `MutexInv` of `IInv`), and no two modules
share a vector.

The duration's value is not modelled (1 stands for it), nor is the constant
`rabbitmq_exporter_build_info`. The gauge vector `rabbitmq_version_info` is left out too:
an overview that succeeds empties it, sets its only child to 1 under the labels of
its reply and sends it (`exporter_overview.go:94-107`), and one that fails sends
nothing of it, as `ResetFirst` modules do.

### QueueExporter and ListExporters

`Collect` is cut where another Collect or a failure could tell: its start, the reply,
each object of the loop, the end. Vectors keep their children between scrapes.
`collectLowerMetric` is translated branch by branch, with its -1 for no limit, and
`Limits` has the test `f >= 0` of its callers. A label is in the model where it is in
the code: connections and links have a node label, while the node of a shovel only
decides its `self` (`exporter_shovel.go:15`, `:48-49`), so that shovels on two other nodes
can share their labels.

### Lifecycle

On Windows the service manager and `Execute` share three variables: the `command`
on its way (`Control` sends it, `Command` receives it), the `status` told last, and
whether it `accepts` orders. The manager sends stop or shutdown only while they are
accepted. `Execute` answers every other command, an interrogation too, with StopPending
and an empty set of accepted commands (`service_windows.go:44`), after which the
manager refuses to order a stop, although the service goes on; an order that was
already on its way still counts. `StopEndsProcess` is about orders that were let
pass: no document promises that the service can be stopped at any time, and after
such a command it cannot. `Handover` is the meeting of both ends of the channel to
main; that `svc.Run` tells Stopped is a later step (`Return`), and main may have ended
the process in between.

### BrokerClient and HealthCheck

Time is counted in ticks, and a tick passes only while a request waits for the
broker or between scrapes: the exporter's own computations take none, and what is
due (a timer, a scrape that can have the mutex) happens first. A connection is
`closed`, `idle`, `waiting` (for a status), `reading` (a body), or `held`: dropped
with its body open, as `apiRequest` does for a status other than 200
(`rabbitClient.go:87-89`). The timeout of the client covers a request until its body
is read or closed, so a held connection is freed by it and by nothing else.

`HealthCheck` adds scrapes that come at least `Interval` apart, whether or not the
last one has ended, and a check that gives up after `CheckTimeout`. Docker starts
the next check after the last one's verdict and calls the container unhealthy
after `Retries` failures in a row. Three properties depend on the operator: they
assume that the interval, or the check's timeout, is longer than what the
timeouts of one scrape add up to (`LongestHold`). With the defaults this does not
hold (30 s per request against 30 s for the check): then a slow broker alone does
make a container unhealthy, as the same model shows without the condition.

### Configuration

A value is the sequence `strings.Split(value, ",")` gives. Regular expressions,
numbers, space around a word and secret files are functions given as constants
(`Matches`, `Numerals`, `Padded`, `Secrets`): a text outside their domain does not
compile, is no number, or cannot be read. `LoadEnv` and `LoadFile` are the two ways
`main` gets its record; what they refuse is a panic.

### ReplyParsers

A reply is a tree: a JSON value on one side, the Erlang term a broker writes for it
on the other. `Values` and `Terms` are any sets of such trees that hold their own
parts, of finite depth. `addFields`, `Stripped` (the tag `{struct, ...}` taken off),
`parseProplist` and `Within` are recursive functions on them. A number stands for
itself, be it integer or float; a metric's name is the path to its value.

The encoder is not given by a definition but by what it may do (`Writes`): null is the
empty atom, an array is a list, a text is a binary or an atom (not `true` or `false`,
which are the booleans), an object is a map, a list of pairs in any order, or such a
list tagged `struct`. It may choose anew for each object and each text, so that a
theorem about `Encode` holds of every broker whose version decides where it writes
what. `MCReplyParsers` has eight encoders, two of which write pairs at one level and
maps at the next.

What tells a list from an object is its first element (`bertmap.go:233-238`), which
an array can imitate: `Clear` says of a value that no array in it is written as a
pair tagged `struct` (`["struct", x]`, the text an atom) or begins with what looks like
a pair. It looks at the term, so it is as weak as the code allows for each encoder:
written with binaries, `["struct", x]` is clear.

### Assumptions about code outside the repository

Entries marked external in `PROJECT.json` describe client_golang (vectors and
children, the channel of `Gather`), `net/http` (`Shutdown`, `ListenAndServe`),
`os/signal` (delivery without waiting into a channel of capacity 1), `svc.Run` and the
Windows service manager (one command on its way at a time, no order to stop that the
service does not accept, Stopped after `Execute` returned) and the encoder of RabbitMQ (as `testdata/*.bert` beside `testdata/*.json` shows it: null
is the empty atom, an empty object is never the empty list).

## Runs

| Run | Question | Instance and bounds |
|---|---|---|
| `exporter_main` | Is every answer coherent, of its own scrape and within the queue limit, does `IInv` hold, does the exporter implement `ScrapeService`, and is every request answered? | 2 scrapes, 1 probe, fairness; the queue module and one unknown name; replies that rename the cluster, exceed the limit, or are empty; every request may fail |
| `exporter_modules` | The same coherence for modules that empty their vectors after the reply, and for constant metrics | 2 scrapes; connections and exchange, in either order |
| `exporter_limit` | (violation) Are queue metrics dropped whenever the broker has more than MAX_QUEUES? | every overview reports more than the limit |
| `exporter_overview` | (violation) Are the overview's rates always those of this scrape? | replies without `message_stats` |
| `lifecycle_main` | Status 0, signals, the service manager, termination | both platforms; 2 requests that may hang; any signals, or any commands that the manager may send, at any moment |
| `queue_main` | Is each report exact about states, gauges, counters and limits? | variants of one queue with other labels, or with the same labels and lost numbers and limits, 0 among the limits; a second queue; a vhost and a name that are skipped, and ones that are not included; 3 contexts; failures; MAX_QUEUES |
| `queue_idle` | (violation) `queue_idle_since_seconds` only for idle queues? | as `queue_main` |
| `lists_main` | Aggregation, freshness, states and numbers told, memory of all nodes | per module 2 to 4 replies with shared labels, missing numbers and changes, a node that stops, exchanges that each filter rules out; 2 contexts; failures at each request |
| `client_main` | Does a scrape end in time, do scrapes or connections pile up, when is a container unhealthy? | timeouts of 1 and 2 ticks, 3 requests per scrape, 5 connections, interval 7, check timeout 4, 2 failures in a row |
| `config_main` | Does each setting come from its own variable, and do filters and capabilities do what was asked? | any two variables, each with good and bad values; 5 config files |
| `config_exclude` | (violation) Is what README.md's example of EXCLUDE_METRICS names excluded? | as `config_main` |
| `parsers_main` | Do both parsers agree? | objects with up to two fields, nested two levels, lists of up to two, arrays that look like pairs, texts that look like booleans or tags; four ways to write objects, two to write a text |

Why the bounds are enough. Two scrapes are what interference needs: one being
written while the other resets and sets (a third only repeats the second, and the
theorems below hold for any number). A probe cannot change anything but the
mutex. One module of each kind (emptied before the request, emptied after it,
constant metrics) has all the orders of reset, set and send there are. In the
single-module models the number of scrapes is not bounded, so every history of
replies is explored; replies differ in one queue or object at a time because the
loops treat each object alone, except for shared labels, which the instances
have. Parsers look only at the first element of a list and at one field at a
time, and `MapsAgree` holds for any depth.

In `client_main` the number of scrapes and checks is not bounded either. With the
timeout 2, `LongestHold` is 6: the interval 7 is just above it and the check's
timeout 4 below it, so that checks do time out; with the timeout 1 it is 3 and the
check's timeout just above. Five connections are two more than a scrape can open,
so `OpenBounded` can fail. `since` and `streak` count no further than the number
that matters. A mistake in one block of `initConfig` shows with that block's
variable set, and an influence of one variable on another with both set; hence two
variables.

`SYMMETRY` over scrapes is used in runs without liveness only. Deadlock checking
is off where the system really stops: when every request is answered
(`exporter_*`), the process has ended (`lifecycle_main`), the exporter is configured
or has panicked (`config_*`) or the reply is parsed (`parsers_main`). It is on for
the single-module runs and `client_main`, whose systems never stop.

### What the violated runs show

* `LimitNeverExceeded`: the limit is compared with the total the last successful
  overview stored, 0 before the first. README.md:73 promises more. What does hold
  is `QueueLimitKept`: the limit is kept against what the same scrape was told.
* `OverviewFresh`: gauges whose key is missing from the reply are neither reset nor
  set but are sent, so old rates are exported as current.
* `IdleSinceOnlyWhenIdle`: metrics.md:60 says the idle time is only set if the queue
  is idle; the code sets it for any state, and renames only `running`.
* `ExcludedAsDocumented`: the items of EXCLUDE_METRICS are not trimmed, so of the
  README's own example `recv_oct, recv_cnt` only the first is excluded.

## Fairness

`exporter_main` assumes weak fairness of each scrape's and probe's steps (goroutines
are scheduled, a request to the broker ends) and strong fairness of taking the
mutex. The second is what Go's mutex gives: after a millisecond of waiting it
switches to starvation mode and is handed over in order. That a request to the
broker ends is what `HoldBounded` of `HealthCheck` shows, for a RABBIT_TIMEOUT > 0 (30
by default): with 0 there is no timeout (`rabbitClient.go:59`) and nothing can be
promised. No fairness makes a request arrive.

`Lifecycle`'s `FairSpec` assumes that the main and the handler goroutine run and that
the timer of Shutdown's context fires. Requests need not end, signals and commands
need not come, and the server goroutine gets no fairness: the end of the process
does not rely on it.

## Proofs

TLAPS checks these for all values of the constants, under the modules' named
assumptions only; TLC evaluates each of them on the instances.

| Assumption | Says | Why it is so |
|---|---|---|
| in `Exporter`, `Lifecycle` | requests are distinct from `NoRequest`, scrapes from probes; replies are well typed; MaxQueues is an integer | naming |
| in `BrokerClient`, `HealthCheck` | timeouts, interval and retries are positive | the defaults; 0 is excluded under Fairness |
| `QueueExporter!KeysAssumption`, `ListExporters!ListKeysAssumption` | the vectors for states, idle time and limits are not among the keyed ones, and no key is both a gauge and a counter | they are other fields of the exporters' structs; no key is in two maps of `exporter_queue.go:19-66` |
| `QueueExporter!RepliesAssumption` | a reply lists a queue once; its numbers are natural or missing | a queue is identified by vhost and name in RabbitMQ; counts and sizes. Two entries of one name would be sent twice and fail the whole scrape |
| `ListExporters!ListRepliesAssumption` | lists are finite; nodes and exchanges are listed once; numbers are natural or missing | they come from one body; a node is identified by its name, an exchange by vhost and name; `Missing` is -1 |
| `Configuration!MatchesAssumption` | `^$` matches no name, `.*` every name | Go's regexp syntax |
| `Configuration!PaddedAssumption` | no known capability has space around it | `config.go:81-87` |
| `ReplyParsers!ValuesAssumption`, `TermsAssumption` | values and terms are of one kind each and hold trees less deep than themselves | a decoded body is a finite tree of Go values, each of one dynamic type |
| `ReplyParsers!BodiesAssumption`, `EncodeAssumption` | replies are among the values; an encoding is a term, written as `Writes` allows | the recorded replies in `testdata/` |

* `ExporterCoherence!TypeCorrect`: `Spec => []TypeOK`, from an inductive `TypeInv` that
  adds that a request in progress is about a collector.
* `ExporterCoherence!Invariance`: `Spec => []IInv`, and from it `Coherence`
  (`ScrapeCoherent`) and `DataIsOwn` (`OnlyOwnData`).
* `ExporterService!ReportsFinal` (no step changes a finished report, `AnswersKept`),
  `LimitKept` (`QueueLimitKept`) and `Implements` (`Spec => ImplementsService`).
* `LifecycleProofs!TypeCorrect` and `LifecycleInvariance`, and from it `ExitZero`,
  `NotKilled`, `Told`.
* `HealthProofs!TypeCorrect` and `HealthInvariance`, and from it `MutexHold`
  (`HoldBounded`), `Backlog` (`NoBacklog`), `Earned` (`UnhealthyIsEarned`) and `Bounded`
  (`OpenBounded`).
* `QueueProofs!QueueInvariance`, and from it `Exact` (`ExactReport`: a report is the union
  of what its queues make), `TypeCorrect`, `OneState` (`OneStatePerQueue`), `GaugesOfReply`
  (`GaugesFresh`), `AllCounters` (`CountersComplete`) and `LimitsTold` (`LimitsInForce`).
* `ListProofs!ListInvariance`, and from it `TypeCorrect`, `Counted`
  (`ConnectionsCounted`), `Conserved` (`TrafficConserved`), `ThisReply` (`OnlyThisReply`),
  `AllNodes` (`MemoryOfAllNodes`), `AllNumbers` (`NumbersTold`) and `AllStates`
  (`StatesTold`): every property of the module.
* `ConfigurationProofs!OneEach` (`OneSettingEach`), `NothingDropped` (`DroppedForAReason`)
  and `Capabilities` (`CapabilitiesInForce`), by way of the lemma `SettingsInForce`.
* `ParserProofs!ParserInvariance`, and from it `MapsAgree` (`SameMap`), `StatsAgree`
  (`SameStats`) and `TextsAgree` (`SameString`): every property of the module.

The argument of `IInv`. `ScrapeCoherent` speaks of finished answers, but whether an
answer will be coherent is decided long before. `IInv` therefore says that
(`MutexInv`) one request is inside Collect, so that (`RegisteredInv`) all registered
children of the global vectors are the present scrape's: they were all emptied
when it took the mutex. Hence (`EndModuleGauges`) reporting a module never finds
a child to overwrite; it always makes a new object. So the objects to which an
earlier answer still points never change (`ShownStable`), because (`BirthInv`) a
reference stands for one object. `PartialInv` says the report in progress is
coherent as far as it got, with every label equal to the present node info, for
which `JobInv` says that the overview comes first; `FinishedInv` says that it is
complete and stays so. The lemma `EndStepInv` treats the outcomes of a module
alike, and one lemma per action applies it.

`Lifecycle`'s `IInv` adds to the two properties that whatever makes main leave its
receive was an order (`stop`), be it a signal in the channel, a command on its way or
one received, that main waits as soon as there is a handler and has the order
before the handler can return (so that Stopped is true when it is told), and that no
request is cut while the process lives.

The refinement. `Answer(r)` is read off the report of a scrape from the moment
Collect returns, although the registry may still be writing it. Every step lemma
of `ExporterCoherence` also proves `AnswersKept`, that a finished report stays as it
is; so all steps but two are stutters (`ServiceStutter`). `FinishCollect` is the
abstract `Scrape`: `FinishedInv` makes its report coherent, and with `Flags` (the
exporter's own gauges are 0 or 1) its `up` is 1 just when no `module_up` is 0
(`FinishAnswer`). `AnswerHealth` is the abstract `Probe`. `LimitKept` needs one more
invariant: from the overview on, `nodeInfo` holds the total the same scrape was told,
because no other scrape is inside, and every failing module leaves it alone.

`HealthCheck`'s `IInv`. Requests come one after the other, so a scrape that has made n
of them is no older than (n - 1) timeouts and the age of the one in progress
(`ElapsedBound`). If the interval is longer than `Calls` timeouts, a scrape that comes
finds the mutex free and begins before time passes (`PromptScrape`); then a check that
waits is no older than the scrape it waits for (`PromptCheck`), and with a longer
timeout of its own it is always answered, so that only a failed scrape starts a
streak (`EarnedStreak`).

`OpenBounded` needs two more parts. A dropped connection is closed by its timeout, so
one that is still open was dropped by the last scrape, and since that scrape came its
request and the ones before it have taken up all the time (`HeldRecent`). With an
interval longer than `Calls` timeouts it is closed before the next scrape comes.
Hence whatever is busy was made so by a request of the last scrape, there are no more
such connections than it has made requests, and as a request dials only if no
connection is idle, all that are not closed are at most `Calls` (`OpenCounted`). The proof
goes through the changes a connection can make (taken, given back, dropped, closed) and
counts.

The queue module. That a report has one state for each queue depends on every sample
made since `Begin`, not on the last step. So `IInv` says what vectors and channel hold in
the loop: exactly what the queues passed and kept so far make (`Progress`), and nothing
is in a vector that `Begin` would not drop (`Resettable`), so that they are empty when
the loop starts. The lemma `SetAdds` is the step: samples of different queues differ in
their labels, so setting one replaces none of another. The properties of a report then follow from
`ExactReport`, by looking at one queue's samples (`AboutOne`, `Vectors`); for the limits the
branches of `collectLowerMetric` are taken one by one (`LowerLimit`).

The list modules. The invariant says the same of a set of samples and a set of
objects (`Tells`): in the loop of the vectors and the objects passed, afterwards of the
report and the reply. Objects may share labels here, so a sample need not survive the
next one; the parts of `Tells` are what does: every sample is about one of the objects
(`FromObjects`), each node has its samples (`NamesOf`), nodes and exchanges have just the
numbers of their own object (`NumbersOf`), each state is told (`StatesOf`), a
test's flag tells its status (`FlagsOf`), and the sums are right (`CountsOf`). `JoinedTells`
proves `FromObjects`, `NamesOf` and `StatesOf` for `Set` and `Add` alike. For connections, `AddOne` says that a
vector's total and the one child concerned grow by the same number, and `CountsAdd`
makes counts and traffic follow.

Sums over sets. `SumFunction` of the community modules is a recursive function on the
subsets of a set, so every fact about it is an induction over finite sets, for
which the library's induction theorems cannot be used. `ListProofs` does without: a
family of subsets is a set, not an operator, so `SubsetInduction` is stated of a set `F`
and proved with a counterexample of least cardinality. From it follow that the sum
does not depend on the order (`SumSplit`), adds one element (`SumAdd`) and depends on the
values only (`SumSame`).

The configuration. A setting depends on the variables of its own source only
(`SameSource`), and has its default if none of them is set (`UnsetSource`); sources do not
overlap (`SourcesApart`) and no two settings have one (`OwnSource`). So what a source
changes is its own setting (`AffectsOwn`): with the password read from the user's file
(`SecretsOf_Pasted`) that setting would have no source of its own (`SourceIsSource`).

The parsers. The state machine is no more than one call, and its invariant
(`ParserInv`) says that both parsers were run on the same reply; what needs an
argument is the functions. A recursive function is a CHOOSE, of which nothing is known
until some function satisfies the equation. `Recursion` shows that one does whenever
each value depends on values of lower rank only (`Local`): solutions up to rank n are
extended by one (`SolveMore`), so that there is one for every n (`SolveBelow`), two
agree where both solve (`SolveOne`), and the solution takes each value from one that
reaches far enough. The rank is the depth; that stripping leaves nothing deeper
(`StrippedType`) makes the values under a term's keys less deep than it (`KVParts`). So
`AddFields`, `StrippedAt`, `ParseProplist` and `WithinAt` may unfold the four functions.
`ObjectEncoded`, `ArrayEncoded` and `ScalarEncoded` say what `bertmap.go` sees of each kind of
value, however it was written: its keys, its number, its length. `SameFields` is then
proved by a counterexample of least depth (`RankInduction`, stated of a set like
`SubsetInduction`): the fields of a least object that the parsers disagree about are
parsed alike (`SameField`), so that it is itself. With arrays that are not clear in it
the step fails, in `ArrayEncoded`. Statistics and texts follow with `TextEncoded`.

`MemoryOfAllNodes` is stated and proved for replies that have at least one of the keys
exported (`MemoryTold`, see below); all replies of the instance do.

Only model-checked: liveness (`EveryRequestAnswered`, `StopEndsProcess`), which is out of the
prover's reach. Every other property of a run that passes is also a theorem.

## Not modelled

* Bytes: decoding JSON and BERT, text formats of times, the exposition format. A body
  that does not decode is an empty reply for JSON (`jsonmap.go:80-83`) and an error
  for BERT; `Exporter` has both.
* Of the HTTP client: idle connections that expire or exceed MaxIdleConnsPerHost, its
  silent retry on a connection the broker has just closed, redirects, TLS and the
  loading of certificates. RABBIT_TIMEOUT of 0 or less means no timeout; the model
  requires a positive one.
* The handler of a check that gave up stays in the exporter until it gets the mutex; it
  changes nothing and is left out.
* Of the configuration: LOG_LEVEL, what OUTPUT_FORMAT means to the logger, and gonfig's
  overriding of settings of the file by environment variables with the names of Go
  fields. RABBIT_URL and RABBIT_CONNECTION are checked with expressions that are not
  anchored (`config.go:97`, `:115`, `:123`), so `xhttp://broker` and `directly` pass, as in
  the model; the connection of a config file is not checked at all.
* An interactive Windows session, in which nothing listens for signals and the default
  of a signal ends the process.
* After a shutdown was ordered, `ListenAndServe` returns at once with
  ErrServerClosed and the server goroutine calls `log.Fatal` (`main.go:109-111`). The
  model has this: an orderly stop can end with status 1 and cut requests, and only
  status 0 promises anything.
* A node whose memory reply has none of the keys (RabbitMQ may answer
  "not_available") is silently absent; `MemoryOfAllNodes` is checked for replies with
  at least one.
* Metric and version declarations (`metrics.go`, `version.go`) have no state, and the test
  environment (`testenv/`) is no part of the program.
* The vector of the aliveness module's numbers is never set: no reply has the key `vhost.aliveness`.
* Federation links of one exchange that differ only in their upstream share their
  labels and become one sample. This is in `ListExporters`: `StatesTold` compares sets of
  labels, so it does not see which of the two links a sample stands for.
* A list of BERT terms whose first element looks like a pair, or that looks like a
  pair tagged `struct`, is taken for an object (`bertmap.go:226-238`). No recorded reply
  has one; the parsers' properties exclude such lists by `Clear`.
* Metrics whose names are the same once their paths are joined with dots, as of the field
  `a.b` beside the field `b` of an object `a`, or of `x_len` beside an array `x`: the map has
  one of the two. No recorded reply has such names.

## Plan

Built first: the collector, where the mutex, shared gauges and node info meet
(`Exporter` with `ScrapeService` above it and its proofs); then the modules it calls,
the process around it, and the parsers below it; then the broker client with its
callers in time, the configuration, the aliveness module, and the proofs of the
queue limit and of the refinement; then the proofs about the single modules, the
connections and the configuration; last the parsers as recursive functions with their
proofs.

What a next step could be: to write the loops of `QueueExporter` and `ListExporters` as
implementations of one abstract module, emptied first, emptied on the reply, or
constant. What `Exporter` takes for granted of a module, that a report which succeeds
holds the data of its own reply, is what `Exact` and `ThisReply` prove of them now; and that
modules do not interfere follows from `MutexInv`, because they share no vector.
