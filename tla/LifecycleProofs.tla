--------------------------- MODULE LifecycleProofs ---------------------------
(***************************************************************************)
(* Proofs about Lifecycle, for any set of requests, on either platform.    *)
(***************************************************************************)
EXTENDS Lifecycle, TLAPS

(* Nothing has happened yet. *)
LEMMA InitInv == Init => IInv
<1> SUFFICES ASSUME Init PROVE IInv
  OBVIOUS
<1>1. TypeOK
  <2>1. request \in [Requests -> {"new", "active", "answered", "refused", "cut"}]
    BY DEF Init
  <2>2. pending \in 0 .. 1
    BY DEF Init
  <2> QED
    BY <2>1, <2>2 DEF Init, TypeOK
<1>2. \A q \in Requests : request[q] # "cut"
  BY DEF Init
<1> QED
  BY <1>1, <1>2 DEF Init, IInv, Alive, Order, ExitZeroIsClean, KilledOnlyBeforeSubscribe

(* The end of the process, with the status 1 or 2: requests may be cut.    *)
LEMMA FailInv ==
  ASSUME IInv, Alive, NEW how \in {"1", "2"}, Exit(how),
         UNCHANGED <<platform, main, server, handler, pending, closing, expired, manager, stop>>
  PROVE  IInv'
  BY DEF IInv, TypeOK, Alive, manager, Kinds, Order, Exit, Active, ExitZeroIsClean,
         KilledOnlyBeforeSubscribe

(* The steps of the main goroutine (main.go:42-122). *)
LEMMA MainInv ==
  ASSUME IInv, MainStep, UNCHANGED platform
  PROVE  IInv'
<1>1. CASE ConfigFails
  BY <1>1, FailInv DEF ConfigFails
<1>2. CASE StartServer
  BY <1>2 DEF StartServer, IInv, TypeOK, Alive, manager, Kinds, Order, ExitZeroIsClean,
              KilledOnlyBeforeSubscribe
<1>3. CASE Subscribe
  BY <1>3 DEF Subscribe, IInv, TypeOK, Alive, manager, Kinds, Order, ExitZeroIsClean,
              KilledOnlyBeforeSubscribe
<1>4. CASE SubscribeFails
  BY <1>4, FailInv DEF SubscribeFails
<1>5. CASE BeginShutdown
  BY <1>5 DEF BeginShutdown, IInv, TypeOK, Alive, manager, Kinds, Order, ExitZeroIsClean,
              KilledOnlyBeforeSubscribe
<1>6. CASE EndShutdown
  <2>1. request' = request
    BY <1>6 DEF EndShutdown, Exit, Idle, IInv, TypeOK
  <2> QED
    BY <1>6, <2>1 DEF EndShutdown, Exit, IInv, TypeOK, Alive, manager, Kinds, Order, ExitZeroIsClean,
                      KilledOnlyBeforeSubscribe
<1>7. CASE GiveUp
  BY <1>7, FailInv DEF GiveUp
<1> QED
  BY <1>1, <1>2, <1>3, <1>4, <1>5, <1>6, <1>7 DEF MainStep

(* The steps of the goroutine of ListenAndServe (main.go:108-112). *)
LEMMA ServerInv ==
  ASSUME IInv, ServerStep, UNCHANGED platform
  PROVE  IInv'
<1>1. CASE Bind
  BY <1>1 DEF Bind, IInv, TypeOK, Alive, manager, Kinds, Order, ExitZeroIsClean,
              KilledOnlyBeforeSubscribe
<1>2. CASE ServeFails
  BY <1>2, FailInv DEF ServeFails
<1>3. CASE ServeReturns
  BY <1>3, FailInv DEF ServeReturns
<1> QED
  BY <1>1, <1>2, <1>3 DEF ServerStep

(* The steps of the goroutine of runService (service.go:18-23). *)
LEMMA HandlerInv ==
  ASSUME IInv, HandlerStep, UNCHANGED platform
  PROVE  IInv'
<1>1. CASE Run
  <2>1. /\ status' \in {"StartPending", "Running", "StopPending", "Stopped"}
        /\ accepts' \in BOOLEAN
        /\ status' = "Stopped" => status = "Stopped"
    BY <1>1 DEF Run, IInv, TypeOK
  <2>2. TypeOK'
    BY <1>1, <2>1 DEF Run, IInv, TypeOK
  <2> QED
    BY <1>1, <2>1, <2>2 DEF Run, IInv, TypeOK, Alive, Order, ExitZeroIsClean,
                            KilledOnlyBeforeSubscribe
<1>2. CASE TakeSignal
  BY <1>2 DEF TakeSignal, IInv, TypeOK, Alive, manager, Kinds, Order, ExitZeroIsClean,
              KilledOnlyBeforeSubscribe
<1>3. CASE Command
  BY <1>3 DEF Command, Obey, IInv, TypeOK, Alive, manager, Kinds, Order, ExitZeroIsClean,
              KilledOnlyBeforeSubscribe
<1>4. CASE TellStopPending
  BY <1>4 DEF TellStopPending, IInv, TypeOK, Alive, manager, Kinds, Order, ExitZeroIsClean,
              KilledOnlyBeforeSubscribe
<1>5. CASE Handover
  BY <1>5 DEF Handover, IInv, TypeOK, Alive, manager, Kinds, Order, ExitZeroIsClean,
              KilledOnlyBeforeSubscribe
<1>6. CASE Return
  BY <1>6 DEF Return, IInv, TypeOK, Alive, manager, Kinds, Order, ExitZeroIsClean,
              KilledOnlyBeforeSubscribe
<1> QED
  BY <1>1, <1>2, <1>3, <1>4, <1>5, <1>6 DEF HandlerStep

(* A signal: caught once runService has subscribed, deadly before.         *)
LEMMA SignalInv ==
  ASSUME IInv, Signal, UNCHANGED platform
  PROVE  IInv'
<1>1. CASE Subscribed
  BY <1>1 DEF Signal, Subscribed, Room, IInv, TypeOK, Alive, manager, Kinds, Order, ExitZeroIsClean,
              KilledOnlyBeforeSubscribe
<1>2. CASE ~Subscribed
  BY <1>2 DEF Signal, Subscribed, Exit, Active, IInv, TypeOK, Alive, manager, Kinds, Order, ExitZeroIsClean,
              KilledOnlyBeforeSubscribe
<1> QED
  BY <1>1, <1>2

(* The service manager sends a command. *)
LEMMA ControlInv ==
  ASSUME IInv, NEW kind \in Kinds, Control(kind), UNCHANGED platform
  PROVE  IInv'
  BY DEF Control, IInv, TypeOK, Alive, manager, Kinds, Order, ExitZeroIsClean,
         KilledOnlyBeforeSubscribe

(* Requests come and are answered, or find nobody.                         *)
LEMMA RequestInv ==
  ASSUME IInv, NEW q \in Requests, Accept(q) \/ Answer(q) \/ Refuse(q), UNCHANGED platform
  PROVE  IInv'
  BY DEF Accept, Answer, Refuse, IInv, TypeOK, Alive, manager, Kinds, Order, ExitZeroIsClean,
         KilledOnlyBeforeSubscribe

(* IInv holds in every reachable state.                                    *)
THEOREM LifecycleInvariance == Spec => []IInv
<1>1. ASSUME IInv, [Next]_vars
      PROVE  IInv'
  <2>1. CASE Deadline /\ UNCHANGED platform
    BY <1>1, <2>1 DEF Deadline, IInv, TypeOK, Alive, manager, Kinds, Order, ExitZeroIsClean,
                      KilledOnlyBeforeSubscribe
  <2>2. CASE UNCHANGED vars
    BY <1>1, <2>2 DEF vars, IInv, TypeOK, Alive, manager, Kinds, Order, ExitZeroIsClean,
                      KilledOnlyBeforeSubscribe
  <2> QED
    BY <1>1, <2>1, <2>2, MainInv, ServerInv, HandlerInv, SignalInv, ControlInv, RequestInv
       DEF Next, Step
<1> QED
  BY <1>1, InitInv, PTL DEF Spec

(* Every variable stays in its domain.                                     *)
THEOREM TypeCorrect == Spec => []TypeOK
<1>1. IInv => TypeOK
  BY DEF IInv
<1> QED
  BY <1>1, LifecycleInvariance, PTL

(* Status 0 is only reported for a shutdown that was ordered and cut no    *)
(* request.                                                                *)
THEOREM ExitZero == Spec => []ExitZeroIsClean
<1>1. IInv => ExitZeroIsClean
  BY DEF IInv
<1> QED
  BY <1>1, LifecycleInvariance, PTL

(* After the subscription no signal kills the process.                     *)
THEOREM NotKilled == Spec => []KilledOnlyBeforeSubscribe
<1>1. IInv => KilledOnlyBeforeSubscribe
  BY DEF IInv
<1> QED
  BY <1>1, LifecycleInvariance, PTL

(* The service manager hears Stopped only when main has the order.         *)
THEOREM Told == Spec => []StoppedMeansTold
<1>1. IInv => StoppedMeansTold
  BY DEF IInv, StoppedMeansTold
<1> QED
  BY <1>1, LifecycleInvariance, PTL
==============================================================================
