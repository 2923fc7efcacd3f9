----------------------------- MODULE Lifecycle -----------------------------
(***************************************************************************)
(* The process of rabbitmq_exporter from main() to its exit: the main      *)
(* goroutine, the one that runs the HTTP server, the one that waits for    *)
(* the order to stop (a signal, or the Windows service manager), and the   *)
(* requests in flight.  logrus' Fatal exits the process at once with       *)
(* status 1, from whatever goroutine calls it.                             *)
(***************************************************************************)
EXTENDS Naturals

CONSTANTS Requests,  \* HTTP requests, of any path
          Platforms  \* those the program is built for: "posix", or "service"
                     \* (under the Windows service manager)

ASSUME PlatformAssumption == Platforms \subseteq {"posix", "service"}

VARIABLES
  platform,  \* the one this process runs on
  main,      \* where the main goroutine is
  server,    \* where the goroutine of ListenAndServe is
  handler,   \* where the goroutine started by runService is
  pending,   \* signals waiting in the channel of signal.Notify (capacity 1)
  closing,   \* server.Shutdown has closed the listener
  expired,   \* the five seconds of Shutdown's context are over
  request,   \* request[q]: what became of it
  command,   \* what the service manager sent and Execute has not received
  status,    \* what the manager was told last
  accepts,   \* and whether it may send orders to stop then
  stop,      \* somebody ordered the stop: a signal after the subscription, or
             \* a command that the manager let pass
  exit       \* "running", its status, or "killed" by the default of a signal

manager == <<command, status, accepts>>
vars == <<platform, main, server, handler, pending, closing, expired, request, manager, stop,
          exit>>

Alive  == exit = "running"
Active == {q \in Requests : request[q] = "active"}

Init ==
  /\ platform \in Platforms
  /\ main = "init"
  /\ server = "none"
  /\ handler = "none"
  /\ pending = 0
  /\ closing = FALSE
  /\ expired = FALSE
  /\ request = [q \in Requests |-> "new"]
  /\ command = "none"
  /\ status = "StartPending"
  /\ accepts = FALSE
  /\ stop = FALSE
  /\ exit = "running"

(* The process ends and takes the requests in flight with it *)
Exit(how) ==
  /\ exit' = how
  /\ request' = [q \in Requests |-> IF q \in Active THEN "cut" ELSE request[q]]

----------------------------------------------------------------------------
(* The main goroutine *)

(* The config file is there but broken, or a variable is: panic *)
ConfigFails ==
  /\ Alive /\ main = "init"
  /\ Exit("2")
  /\ UNCHANGED <<main, server, handler, pending, closing, expired, manager, stop>>

StartServer ==
  /\ Alive /\ main = "init"
  /\ main' = "started"
  /\ server' = "spawned"
  /\ UNCHANGED <<handler, pending, closing, expired, request, manager, stop, exit>>

(* runService *)
Subscribe ==
  /\ Alive /\ main = "started"
  /\ main' = "waiting"
  /\ handler' = "spawned"
  /\ UNCHANGED <<server, pending, closing, expired, request, manager, stop, exit>>

(* Windows cannot tell whether the session is interactive *)
SubscribeFails ==
  /\ Alive /\ main = "started" /\ platform = "service"
  /\ Exit("1")
  /\ UNCHANGED <<main, server, handler, pending, closing, expired, manager, stop>>

BeginShutdown ==
  /\ Alive /\ main = "told"
  /\ main' = "draining"
  /\ closing' = TRUE
  /\ UNCHANGED <<server, handler, pending, expired, request, manager, stop, exit>>

Idle_Ignored == TRUE
Idle == Active = {}

(* Shutdown finds every connection idle and returns nil; main returns *)
EndShutdown ==
  /\ Alive /\ main = "draining"
  /\ Idle
  /\ Exit("0")
  /\ UNCHANGED <<main, server, handler, pending, closing, expired, manager, stop>>

Deadline ==
  /\ Alive /\ main = "draining" /\ ~expired
  /\ expired' = TRUE
  /\ UNCHANGED <<main, server, handler, pending, closing, request, manager, stop, exit>>

(* Shutdown sees its context end before it sees the server idle *)
GiveUp ==
  /\ Alive /\ main = "draining" /\ expired
  /\ Exit("1")
  /\ UNCHANGED <<main, server, handler, pending, closing, expired, manager, stop>>
----------------------------------------------------------------------------
(* The goroutine of ListenAndServe *)

Bind ==
  /\ Alive /\ server = "spawned" /\ ~closing
  /\ server' = "serving"
  /\ UNCHANGED <<main, handler, pending, closing, expired, request, manager, stop, exit>>

(* The port is taken, or Accept fails for good *)
ServeFails ==
  /\ Alive /\ server \in {"spawned", "serving"} /\ ~closing
  /\ Exit("1")
  /\ UNCHANGED <<main, server, handler, pending, closing, expired, manager, stop>>

(* Shutdown makes ListenAndServe return ErrServerClosed, and this is an    *)
(* error like any other: log.Fatal, while Shutdown still drains *)
ServeReturns ==
  /\ Alive /\ server \in {"spawned", "serving"} /\ closing
  /\ Exit("1")
  /\ UNCHANGED <<main, server, handler, pending, closing, expired, manager, stop>>

Accept(q) ==
  /\ Alive /\ server = "serving" /\ ~closing
  /\ request[q] = "new"
  /\ request' = [request EXCEPT ![q] = "active"]
  /\ UNCHANGED <<main, server, handler, pending, closing, expired, manager, stop, exit>>

(* A handler may take as long as the broker lets it *)
Answer(q) ==
  /\ Alive /\ request[q] = "active"
  /\ request' = [request EXCEPT ![q] = "answered"]
  /\ UNCHANGED <<main, server, handler, pending, closing, expired, manager, stop, exit>>

Refuse(q) ==
  /\ request[q] = "new"
  /\ ~Alive \/ server # "serving" \/ closing
  /\ request' = [request EXCEPT ![q] = "refused"]
  /\ UNCHANGED <<main, server, handler, pending, closing, expired, manager, stop, exit>>
----------------------------------------------------------------------------
(* The goroutine of runService *)

Run ==
  /\ Alive /\ handler = "spawned"
  /\ handler' = "receiving"
  /\ IF platform = "service"
     THEN status' = "Running" /\ accepts' = TRUE
     ELSE UNCHANGED <<status, accepts>>
  /\ UNCHANGED <<main, server, pending, closing, expired, request, command, stop, exit>>

(* signal.Notify was called; it is never undone, so later signals are      *)
(* dropped rather than deadly *)
Subscribed_WhileReceiving == handler \in {"spawned", "receiving"}
Subscribed == handler # "none"

(* signal.Notify delivers without waiting: the channel holds one signal *)
Room_Unbuffered == pending < 1 /\ handler = "receiving"
Room_Unlimited == TRUE
Room == pending < 1

Signal ==
  /\ Alive /\ platform = "posix"
  /\ IF Subscribed
     THEN /\ pending' = IF Room THEN pending + 1 ELSE pending
          /\ stop' = TRUE
          /\ UNCHANGED <<exit, request>>
     ELSE /\ Exit("killed")
          /\ UNCHANGED <<pending, stop>>
  /\ UNCHANGED <<main, server, handler, closing, expired, manager>>

TakeSignal ==
  /\ Alive /\ handler = "receiving" /\ pending > 0
  /\ handler' = "sending"
  /\ pending' = pending - 1
  /\ UNCHANGED <<main, server, closing, expired, request, manager, stop, exit>>

(* The manager sends orders to stop only while the service accepts them,   *)
(* and what it has sent is not taken back *)
Kinds == {"interrogate", "stop", "shutdown", "other"}
Order(kind) == kind \in {"stop", "shutdown"}

Control(kind) ==
  /\ Alive /\ platform = "service" /\ handler \notin {"none", "spawned", "gone"}
  /\ command = "none"
  /\ Order(kind) => accepts
  /\ command' = kind
  /\ stop' = (stop \/ Order(kind))
  /\ UNCHANGED <<main, server, handler, pending, closing, expired, request, status, accepts,
                 exit>>

(* Execute: an order is passed on, any other command answered; that an     *)
(* interrogation is first answered with the status as it is changes nothing *)
Obey_Unsent == handler' = "returning"
Obey == handler' = "sending"

Command ==
  /\ Alive /\ handler = "receiving" /\ command # "none"
  /\ command' = "none"
  /\ IF Order(command) THEN Obey ELSE handler' = "telling"
  /\ UNCHANGED <<main, server, pending, closing, expired, request, status, accepts, stop, exit>>

(* The answer to whatever was no order, and it accepts nothing *)
TellStopPending ==
  /\ Alive /\ handler = "telling"
  /\ handler' = "receiving"
  /\ status' = "StopPending"
  /\ accepts' = FALSE
  /\ UNCHANGED <<main, server, pending, closing, expired, request, command, stop, exit>>

(* The channel to main has no buffer: both meet *)
Handover ==
  /\ Alive /\ handler = "sending"
  /\ main = "waiting"
  /\ main' = "told"
  /\ handler' = "returning"
  /\ UNCHANGED <<server, pending, closing, expired, request, manager, stop, exit>>

(* The goroutine ends; svc.Run tells the manager that the service stopped, *)
(* unless main has ended the process before *)
Return ==
  /\ Alive /\ handler = "returning"
  /\ handler' = "gone"
  /\ IF platform = "service"
     THEN status' = "Stopped" /\ accepts' = FALSE
     ELSE UNCHANGED <<status, accepts>>
  /\ UNCHANGED <<main, server, pending, closing, expired, request, command, stop, exit>>
----------------------------------------------------------------------------
MainStep    == \/ ConfigFails \/ StartServer \/ Subscribe \/ SubscribeFails
               \/ BeginShutdown \/ EndShutdown \/ GiveUp
ServerStep  == Bind \/ ServeFails \/ ServeReturns
HandlerStep == Run \/ TakeSignal \/ Command \/ TellStopPending \/ Handover \/ Return

Step ==
  \/ MainStep \/ ServerStep \/ HandlerStep \/ Deadline
  \/ Signal
  \/ \E kind \in Kinds : Control(kind)
  \/ \E q \in Requests : Accept(q) \/ Answer(q) \/ Refuse(q)

Next == Step /\ UNCHANGED platform

Spec == Init /\ [][Next]_vars

(* Goroutines run and the timer fires.  Requests need not end, signals and *)
(* commands need not come.  The server goroutine gets no fairness: the     *)
(* program does not rely on it to end. *)
FairSpec ==
  /\ Spec
  /\ WF_vars(MainStep /\ UNCHANGED platform)
  /\ WF_vars(HandlerStep /\ UNCHANGED platform)
  /\ WF_vars(Deadline /\ UNCHANGED platform)
----------------------------------------------------------------------------
(* Every variable stays in its domain. *)
TypeOK ==
  /\ platform \in Platforms
  /\ main \in {"init", "started", "waiting", "told", "draining"}
  /\ server \in {"none", "spawned", "serving"}
  /\ handler \in {"none", "spawned", "receiving", "telling", "sending", "returning", "gone"}
  /\ pending \in 0 .. 1
  /\ closing \in BOOLEAN
  /\ expired \in BOOLEAN
  /\ request \in [Requests -> {"new", "active", "answered", "refused", "cut"}]
  /\ command \in {"none"} \union Kinds
  /\ status \in {"StartPending", "Running", "StopPending", "Stopped"}
  /\ accepts \in BOOLEAN
  /\ stop \in BOOLEAN
  /\ exit \in {"running", "0", "1", "2", "killed"}

(* Status 0 tells the truth: the program was asked to stop and no request  *)
(* in flight was cut, although another goroutine may call Fatal meanwhile  *)
(* (main.go:108-121). *)
ExitZeroIsClean ==
  exit = "0" => stop /\ \A q \in Requests : request[q] # "cut"

(* Impatience does no harm: once runService has subscribed, further        *)
(* signals neither kill the process nor disturb the shutdown under way     *)
(* (service.go:15-23 returns after the first one). *)
KilledOnlyBeforeSubscribe ==
  exit = "killed" => main \in {"init", "started"}

(* The service manager hears "Stopped" only when main has been told to     *)
(* shut the server down (service_windows.go:37-39). *)
StoppedMeansTold ==
  status = "Stopped" => main \in {"told", "draining"}

(* An order to stop ends the process, even if it comes before the handler  *)
(* goroutine runs, while a request hangs, or twice, or waits behind a      *)
(* command whose answer makes the service deaf to later ones *)
(* (service.go:16-22, service_windows.go:30-45). *)
StopEndsProcess == stop ~> ~Alive

(* What the two need to be inductive: a request is cut only when the       *)
(* process ends, whatever makes main leave its receive was an order, and   *)
(* main waits as soon as there is a handler.  The first conjuncts say how  *)
(* far each goroutine is (main.go:114-118, service.go:15-23). *)
IInv ==
  /\ TypeOK
  /\ Alive => \A q \in Requests : request[q] # "cut"
  /\ main \in {"told", "draining"} => stop
  /\ handler \in {"sending", "returning", "gone"} \/ pending > 0 \/ Order(command) => stop
  /\ handler \in {"returning", "gone"} => main \in {"told", "draining"}
  /\ handler = "none" => main \in {"init", "started"}
  /\ status = "Stopped" => main \in {"told", "draining"}
  /\ ExitZeroIsClean
  /\ KilledOnlyBeforeSubscribe
============================================================================
