---------------------------- MODULE HealthProofs ----------------------------
(***************************************************************************)
(* Proofs about HealthCheck and the BrokerClient under it, for any number  *)
(* of connections and requests and any timeouts.                           *)
(***************************************************************************)
EXTENDS HealthCheck, FiniteSetTheorems, TLAPS

USE TimeoutAssumption, CallsAssumption, IntervalAssumption, CheckAssumption

(* Products of naturals, which the bounds on time are made of. *)
LEMMA Products ==
  ASSUME NEW t \in Nat
  PROVE  /\ \A n \in Nat : n * t \in Nat
         /\ \A n \in Nat : (n + 1) * t = n * t + t
         /\ \A n \in Nat : n > 0 => (n - 1) * t + t = n * t
         /\ \A n, m \in Nat : n <= m => n * t <= m * t
<1>1. \A n \in Nat : n * t \in Nat
  OBVIOUS
<1>2. \A n \in Nat : (n + 1) * t = n * t + t
  OBVIOUS
<1>3. \A n \in Nat : n > 0 => (n - 1) * t + t = n * t
  OBVIOUS
<1>4. ASSUME NEW n \in Nat, NEW m \in Nat, n <= m
      PROVE  n * t <= m * t
  <2>1. PICK k \in Nat : m = n + k
    BY <1>4
  <2>2. m * t = n * t + k * t
    BY <2>1
  <2> QED
    BY <2>2, <1>1
<1> QED
  BY <1>1, <1>2, <1>3, <1>4

(* The requests made so far have taken no longer than their timeouts. *)
LEMMA Spent ==
  ASSUME TypeOK, OneAtATime, ElapsedBound, collecting
  PROVE  made * timeout \in Nat /\ elapsed <= made * timeout
<1>1. timeout \in Nat /\ made \in Nat /\ elapsed \in Nat
  BY DEF TypeOK, ClientTypeOK
<1>2. made * timeout \in Nat
  BY <1>1, Products
<1>3. CASE ~Calling
  BY <1>2, <1>3 DEF ElapsedBound
<1>4. CASE Calling
  <2>1. PICK c \in Conns : c \in InState({"waiting", "reading"})
    BY <1>4 DEF Calling, InState
  <2>2. made > 0 /\ age[c] \in Nat /\ age[c] <= timeout
    BY <1>1, <1>4, <2>1 DEF OneAtATime, TypeOK, ClientTypeOK
  <2> DEFINE P == (made - 1) * timeout
  <2>3. P + timeout = made * timeout /\ P \in Nat
    BY <1>1, <2>2, Products
  <2>4. elapsed <= P + age[c]
    BY <1>4, <2>1 DEF ElapsedBound
  <2> HIDE DEF P
  <2>5. P + age[c] <= P + timeout
    BY <1>1, <2>2, <2>3
  <2> QED
    BY <1>1, <1>2, <2>2, <2>3, <2>4, <2>5
<1> QED
  BY <1>3, <1>4

(* The bound on a scrape is a number. *)
LEMMA LongestType == ASSUME timeout \in Timeouts PROVE LongestHold \in Nat
  BY Products DEF LongestHold

(* ... and those of the whole scrape no longer than LongestHold. *)
LEMMA Hold == ASSUME TypeOK, OneAtATime, ElapsedBound
              PROVE  HoldBounded
<1>1. timeout \in Nat /\ made \in Nat /\ made <= Calls /\ elapsed \in Nat
  BY DEF TypeOK, ClientTypeOK
<1>2. made * timeout <= LongestHold /\ LongestHold \in Nat
  BY <1>1, Products DEF LongestHold
<1> QED
  BY <1>1, <1>2, Spent DEF HoldBounded

(* Nothing has happened yet. *)
LEMMA InitInv == Init => TimeInv
<1> SUFFICES ASSUME Init PROVE TimeInv
  OBVIOUS
<1>1. LongestHold \in Nat
  BY LongestType DEF Init, InitClient
<1>2. TypeOK
  <2>1. timeout \in Timeouts /\ timeout \in Nat
    BY DEF Init, InitClient
  <2>2. conn \in [Conns -> {"closed", "idle", "waiting", "reading", "held"}]
    BY DEF Init, InitClient
  <2>3. age \in [Conns -> 0 .. timeout]
    BY <2>1 DEF Init, InitClient
  <2>4. made \in 0 .. Calls /\ elapsed \in Nat
    BY DEF Init, InitClient
  <2>5. collecting \in BOOLEAN /\ allUp \in BOOLEAN
    BY Zenon DEF Init, InitClient
  <2>6. /\ waiting \in Nat /\ since \in 0 .. Interval
        /\ checkAge \in 0 .. CheckTimeout /\ streak \in 0 .. Retries
    BY DEF Init
  <2> QED
    BY <2>1, <2>2, <2>3, <2>4, <2>5, <2>6 DEF Init, TypeOK, ClientTypeOK
<1>3. OneAtATime
  BY DEF Init, InitClient, OneAtATime, Calling, InState
<1>4. ElapsedBound /\ PromptScrape
  BY DEF Init, InitClient, ElapsedBound, PromptScrape
<1>5. PromptCheck /\ EarnedStreak
  BY <1>1 DEF Init, InitClient, PromptCheck, EarnedStreak
<1> QED
  BY <1>2, <1>3, <1>4, <1>5 DEF TimeInv

(* What every step of an exchange but its beginning does: requests may     *)
(* end, none begins. *)
LEMMA ExchangeShape ==
  ASSUME TypeOK, NEW c \in Conns, Exchange(c), ~Do(c)
  PROVE  /\ UNCHANGED <<collecting, made, elapsed>>
         /\ \A d \in InState({"waiting", "reading"})' :
              d \in InState({"waiting", "reading"}) /\ age'[d] = age[d]
<1>1. UNCHANGED <<collecting, made, elapsed>>
  BY DEF Exchange, StatusOK, Breaks, TimesOut, ServerCloses, OtherStatus, BodyRead
<1> SUFFICES ASSUME NEW d \in InState({"waiting", "reading"})'
             PROVE  d \in InState({"waiting", "reading"}) /\ age'[d] = age[d]
  BY <1>1
<1>2. CASE StatusOK(c)
  BY <1>2 DEF StatusOK, Put, InState, TypeOK, ClientTypeOK
<1>3. CASE \E place \in {"closed", "idle", "held"} : Put(c, place)
  BY <1>3 DEF Put, InState, TypeOK, ClientTypeOK
<1>4. StatusOK(c) \/ \E place \in {"closed", "idle", "held"} : Put(c, place)
  BY DEF Exchange, Breaks, TimesOut, ServerCloses, OtherStatus, BodyRead
<1> QED
  BY <1>2, <1>3, <1>4

(* A step of the client keeps the types. *)
LEMMA ExchangeType ==
  ASSUME TypeOK, NEW c \in Conns, Exchange(c), UNCHANGED <<timeout, hvars>>
  PROVE  TypeOK'
<1>1. \E place \in {"closed", "idle", "waiting", "reading", "held"} : Put(c, place)
  BY DEF Exchange, Do, StatusOK, Breaks, TimesOut, ServerCloses, OtherStatus, BodyRead
<1>2. conn' \in [Conns -> {"closed", "idle", "waiting", "reading", "held"}]
  BY <1>1 DEF Put, TypeOK, ClientTypeOK
<1>3. age' \in [Conns -> 0 .. timeout]
  BY <1>1 DEF Put, TypeOK, ClientTypeOK
<1>4. made' \in 0 .. Calls
  <2>1. CASE Do(c)
    BY <2>1 DEF Do, TypeOK, ClientTypeOK
  <2>2. CASE ~Do(c)
    BY <2>2, ExchangeShape DEF TypeOK, ClientTypeOK
  <2> QED
    BY <2>1, <2>2
<1>5. collecting' = collecting /\ elapsed' = elapsed /\ allUp' \in BOOLEAN
  BY DEF Exchange, Do, StatusOK, Breaks, TimesOut, ServerCloses, OtherStatus, BodyRead,
         TypeOK, ClientTypeOK
<1> QED
  BY <1>2, <1>3, <1>4, <1>5 DEF TypeOK, ClientTypeOK, hvars

(* One request at a time, each within its timeout.                         *)
LEMMA ExchangeBound ==
  ASSUME TypeOK, OneAtATime, ElapsedBound, NEW c \in Conns, Exchange(c), UNCHANGED timeout
  PROVE  OneAtATime' /\ ElapsedBound'
<1>1. CASE Do(c)
  <2>1. collecting /\ ~Calling /\ made' = made + 1 /\ UNCHANGED <<collecting, elapsed>>
    BY <1>1 DEF Do
  <2>2. InState({"waiting", "reading"})' = {c} /\ age'[c] = 0
    BY <1>1, <2>1 DEF Do, Put, Calling, InState, TypeOK, ClientTypeOK
  <2>3. made \in Nat /\ elapsed \in Nat
    BY DEF TypeOK, ClientTypeOK
  <2>4. made * timeout \in Nat /\ elapsed <= made * timeout
    BY <2>1, Spent
  <2>5. (made' - 1) * timeout' + 0 = made * timeout
    <3>1. made' - 1 = made
      BY <2>1, <2>3
    <3> QED
      BY <2>4, <3>1
  <2>6. OneAtATime'
    BY <2>1, <2>2, <2>3 DEF OneAtATime, Calling
  <2>7. ElapsedBound'
    BY <2>1, <2>2, <2>4, <2>5 DEF ElapsedBound, Calling
  <2> QED
    BY <2>6, <2>7
<1>2. CASE ~Do(c)
  <2>1. /\ UNCHANGED <<collecting, made, elapsed>>
        /\ \A d \in InState({"waiting", "reading"})' :
             d \in InState({"waiting", "reading"}) /\ age'[d] = age[d]
    BY <1>2, ExchangeShape
  <2>2. Calling' => Calling
    BY <2>1 DEF Calling
  <2>3. OneAtATime'
    BY <2>1, <2>2 DEF OneAtATime
  <2>4. CASE collecting /\ ~Calling'
    BY <2>1, <2>3, <2>4, Spent DEF ElapsedBound
  <2>5. CASE collecting /\ Calling'
    BY <2>1, <2>2, <2>3, <2>5 DEF ElapsedBound
  <2>6. CASE ~collecting
    BY <2>1, <2>3, <2>6 DEF ElapsedBound
  <2> QED
    BY <2>4, <2>5, <2>6
<1> QED
  BY <1>1, <1>2

(* A step of the client keeps the invariant in time ... *)
LEMMA ExchangeInv ==
  ASSUME TimeInv, NEW c \in Conns, Exchange(c), UNCHANGED <<timeout, hvars>>
  PROVE  TimeInv'
<1>1. UNCHANGED <<collecting, elapsed>>
  BY DEF Exchange, Do, StatusOK, Breaks, TimesOut, ServerCloses, OtherStatus, BodyRead
<1>2. LongestHold' = LongestHold
  BY DEF LongestHold
<1>3. PromptScrape' /\ PromptCheck' /\ EarnedStreak'
  BY <1>1, <1>2 DEF TimeInv, PromptScrape, PromptCheck, EarnedStreak, hvars
<1> QED
  BY <1>3, ExchangeType, ExchangeBound DEF TimeInv

(* A scrape that comes finds the one before it finished.                   *)
LEMMA ArriveInv ==
  ASSUME TimeInv, ScrapeArrives, UNCHANGED timeout
  PROVE  TimeInv'
<1>1. LongestHold' = LongestHold /\ LongestHold \in Nat
  BY LongestType DEF LongestHold, TimeInv, TypeOK, ClientTypeOK
<1>2. TypeOK'
  BY DEF ScrapeArrives, cvars, TimeInv, TypeOK, ClientTypeOK
<1>3. OneAtATime' /\ ElapsedBound'
  BY DEF ScrapeArrives, cvars, TimeInv, OneAtATime, ElapsedBound, Calling, InState
<1>4. PromptScrape'
  <2> SUFFICES ASSUME Interval > LongestHold
               PROVE  waiting' = 1 /\ since' = 0 /\ ~collecting'
    BY <1>1 DEF PromptScrape
  <2>1. ~collecting
    <3>1. collecting => elapsed <= LongestHold /\ since = elapsed
      BY Hold DEF TimeInv, PromptScrape, HoldBounded
    <3> QED
      BY <1>1, <3>1 DEF ScrapeArrives, TimeInv, TypeOK, ClientTypeOK
  <2>2. waiting = 0
    BY DEF ScrapeArrives, TimeInv, PromptScrape, TypeOK
  <2> QED
    BY <2>1, <2>2 DEF ScrapeArrives, cvars
<1>5. PromptCheck'
  BY <1>1 DEF ScrapeArrives, cvars, TimeInv, PromptCheck, TypeOK
<1>6. EarnedStreak'
  BY <1>1 DEF ScrapeArrives, cvars, TimeInv, EarnedStreak
<1> QED
  BY <1>2, <1>3, <1>4, <1>5, <1>6 DEF TimeInv

(* ... and so does the start of a scrape, ... *)
LEMMA BeginInv ==
  ASSUME TimeInv, BeginScrape, UNCHANGED timeout
  PROVE  TimeInv'
<1>1. LongestHold' = LongestHold /\ LongestHold \in Nat
  BY LongestType DEF LongestHold, TimeInv, TypeOK, ClientTypeOK
<1>2. TypeOK'
  BY DEF BeginScrape, BeginCollect, TimeInv, TypeOK, ClientTypeOK
<1>3. ~Calling /\ Calling' = Calling
  BY DEF BeginScrape, BeginCollect, TimeInv, OneAtATime, Calling, InState
<1>4. OneAtATime'
  BY <1>3 DEF BeginScrape, BeginCollect, TimeInv, OneAtATime, InState
<1>5. ElapsedBound'
  <2>1. 0 * timeout = 0
    BY DEF TimeInv, TypeOK, ClientTypeOK
  <2> QED
    BY <1>3, <2>1 DEF BeginScrape, BeginCollect, ElapsedBound
<1>6. PromptScrape'
  BY <1>1 DEF BeginScrape, BeginCollect, TimeInv, PromptScrape, TypeOK
<1>7. PromptCheck'
  BY <1>1 DEF BeginScrape, BeginCollect, TimeInv, PromptCheck, PromptScrape, TypeOK
<1>8. EarnedStreak'
  BY <1>1 DEF BeginScrape, BeginCollect, TimeInv, EarnedStreak
<1> QED
  BY <1>2, <1>4, <1>5, <1>6, <1>7, <1>8 DEF TimeInv

(* ... its end, ... *)
LEMMA EndInv ==
  ASSUME TimeInv, EndScrape, UNCHANGED timeout
  PROVE  TimeInv'
<1>1. LongestHold' = LongestHold /\ LongestHold \in Nat
  BY LongestType DEF LongestHold, TimeInv, TypeOK, ClientTypeOK
<1>2. TypeOK'
  BY DEF EndScrape, EndCollect, TimeInv, TypeOK, ClientTypeOK
<1>3. OneAtATime' /\ ElapsedBound'
  BY DEF EndScrape, EndCollect, TimeInv, OneAtATime, ElapsedBound, Calling, InState
<1>4. PromptScrape'
  BY <1>1 DEF EndScrape, EndCollect, TimeInv, PromptScrape, TypeOK
<1>5. PromptCheck'
  <2>1. elapsed <= LongestHold
    BY Hold DEF EndScrape, EndCollect, TimeInv, HoldBounded
  <2> QED
    BY <1>1, <2>1 DEF EndScrape, EndCollect, TimeInv, PromptCheck, PromptScrape, TypeOK,
                      ClientTypeOK
<1>6. EarnedStreak'
  BY <1>1 DEF EndScrape, EndCollect, TimeInv, EarnedStreak
<1> QED
  BY <1>2, <1>3, <1>4, <1>5, <1>6 DEF TimeInv

(* ... and a check that starts. *)
LEMMA AskInv ==
  ASSUME TimeInv, Ask, UNCHANGED timeout
  PROVE  TimeInv'
<1>1. LongestHold' = LongestHold
  BY DEF LongestHold
<1>2. TypeOK'
  BY DEF Ask, cvars, TimeInv, TypeOK, ClientTypeOK
<1>3. OneAtATime' /\ ElapsedBound'
  BY DEF Ask, cvars, TimeInv, OneAtATime, ElapsedBound, Calling, InState
<1>4. PromptScrape' /\ PromptCheck' /\ EarnedStreak'
  BY <1>1 DEF Ask, cvars, TimeInv, PromptScrape, PromptCheck, EarnedStreak
<1> QED
  BY <1>2, <1>3, <1>4 DEF TimeInv

(* A check fails because a scrape did, unless its timeout is too short.    *)
LEMMA VerdictInv ==
  ASSUME TimeInv, AnswerCheck \/ GiveUp, UNCHANGED timeout
  PROVE  TimeInv'
<1>1. LongestHold' = LongestHold /\ LongestHold \in Nat
  BY LongestType DEF LongestHold, TimeInv, TypeOK, ClientTypeOK
<1>2. PICK good \in BOOLEAN : Verdict(good) /\ (good \/ ~lastScrapeOK \/ GiveUp)
  BY DEF AnswerCheck, GiveUp, TimeInv, TypeOK
<1>3. TypeOK'
  <2>1. streak' \in 0 .. Retries
    BY <1>2 DEF Verdict, Counted, UpTo, TimeInv, TypeOK
  <2>2. status' \in {"starting", "healthy", "unhealthy"}
    BY <1>2 DEF Verdict, TimeInv, TypeOK
  <2>3. ClientTypeOK'
    BY <1>2 DEF Verdict, cvars, TimeInv, TypeOK, ClientTypeOK
  <2>4. checking' \in BOOLEAN
    BY <1>2, Zenon DEF Verdict
  <2>5. checkAge' \in 0 .. CheckTimeout
    BY <1>2 DEF Verdict
  <2> QED
    BY <1>2, <2>1, <2>2, <2>3, <2>4, <2>5 DEF Verdict, TimeInv, TypeOK
<1>4. OneAtATime' /\ ElapsedBound'
  BY <1>2 DEF Verdict, cvars, TimeInv, OneAtATime, ElapsedBound, Calling, InState
<1>5. PromptScrape'
  BY <1>1, <1>2 DEF Verdict, cvars, TimeInv, PromptScrape
<1>6. PromptCheck'
  BY <1>1, <1>2 DEF Verdict, cvars, TimeInv, PromptCheck, TypeOK, ClientTypeOK
<1>7. EarnedStreak'
  <2>1. UNCHANGED <<lastScrapeOK, failed>>
    BY <1>2 DEF Verdict
  <2>2. good => streak' = 0 /\ status' = "healthy"
    BY <1>2 DEF Verdict, Counted
  <2>3. ASSUME ~good, Interval > LongestHold, CheckTimeout > LongestHold
        PROVE  failed
    <3>1. checkAge <= LongestHold /\ checkAge \in Nat
      BY <2>3 DEF TimeInv, PromptCheck, TypeOK
    <3>2. checkAge # CheckTimeout
      BY <1>1, <2>3, <3>1
    <3>3. ~lastScrapeOK
      BY <1>2, <2>3, <3>2 DEF GiveUp
    <3> QED
      BY <3>3 DEF TimeInv, EarnedStreak
  <2>4. TimeInv => lastScrapeOK \/ failed
    BY DEF TimeInv, EarnedStreak
  <2> QED
    BY <1>1, <2>1, <2>2, <2>3, <2>4 DEF EarnedStreak
<1> QED
  BY <1>3, <1>4, <1>5, <1>6, <1>7 DEF TimeInv

(* Time passes.                                                            *)
LEMMA PassInv ==
  ASSUME TimeInv, Pass, UNCHANGED timeout
  PROVE  TimeInv'
<1>1. LongestHold' = LongestHold /\ LongestHold \in Nat
  BY LongestType DEF LongestHold, TimeInv, TypeOK, ClientTypeOK
<1>2. TypeOK'
  <2>1. timeout \in Nat /\ age \in [Conns -> 0 .. timeout]
    BY DEF TimeInv, TypeOK, ClientTypeOK
  <2>2. ASSUME NEW c \in Conns, conn[c] \in {"waiting", "reading", "held"}
        PROVE  age[c] + 1 \in 0 .. timeout
    BY <2>1, <2>2 DEF Pass, Tick, Due, Timed
  <2>3. age' \in [Conns -> 0 .. timeout]
    BY <2>1, <2>2 DEF Pass, Tick
  <2>4. since' \in 0 .. Interval /\ checkAge' \in 0 .. CheckTimeout
    BY DEF Pass, UpTo, TimeInv, TypeOK
  <2> QED
    BY <2>3, <2>4 DEF Pass, Tick, TimeInv, TypeOK, ClientTypeOK
<1>3. InState({"waiting", "reading"})' = InState({"waiting", "reading"})
  BY DEF Pass, Tick, InState
<1>4. OneAtATime'
  BY <1>3 DEF Pass, Tick, TimeInv, OneAtATime, Calling
<1>5. ElapsedBound'
  <2> SUFFICES ASSUME collecting PROVE ElapsedBound'
    BY DEF Pass, Tick, ElapsedBound
  <2>1. Calling /\ Calling' /\ elapsed' = elapsed + 1 /\ UNCHANGED made
    BY <1>3 DEF Pass, Tick, Calling
  <2>2. ASSUME NEW c \in InState({"waiting", "reading"})
        PROVE  elapsed' <= (made - 1) * timeout + age'[c]
    <3> DEFINE P == (made - 1) * timeout
    <3>1. elapsed <= P + age[c] /\ age'[c] = age[c] + 1 /\ age[c] \in Nat
      BY <2>1, <2>2 DEF Pass, Tick, InState, TimeInv, ElapsedBound, TypeOK, ClientTypeOK
    <3>2. made > 0 /\ made \in Nat /\ elapsed \in Nat
      BY <2>1 DEF TimeInv, OneAtATime, TypeOK, ClientTypeOK
    <3>3. P \in Nat
      BY <3>2, Products DEF TimeInv, TypeOK, ClientTypeOK
    <3> HIDE DEF P
    <3>4. elapsed' <= P + age'[c]
      BY <2>1, <3>1, <3>2, <3>3
    <3> QED
      BY <3>4 DEF P
  <2> QED
    BY <1>3, <2>1, <2>2 DEF ElapsedBound
<1>6. HoldBounded'
  <2>1. TypeOK' /\ OneAtATime' /\ ElapsedBound' => HoldBounded'
    BY Hold, PTL
  <2> QED
    BY <1>2, <1>4, <1>5, <2>1
<1>7. PromptScrape'
  <2> SUFFICES ASSUME Interval > LongestHold
               PROVE  /\ waiting' > 0 => waiting' = 1 /\ since' = 0 /\ ~collecting'
                      /\ collecting' => since' = elapsed'
    BY <1>1 DEF PromptScrape
  <2>1. waiting = 0 /\ waiting' = 0
    BY DEF Pass, TimeInv, PromptScrape, TypeOK
  <2>2. ASSUME collecting' PROVE since' = elapsed'
    <3>1. since = elapsed /\ elapsed' = elapsed + 1 /\ elapsed' <= LongestHold
      BY <1>1, <1>6, <2>2 DEF Pass, Tick, TimeInv, PromptScrape, HoldBounded
    <3> QED
      BY <1>1, <3>1 DEF Pass, UpTo, TimeInv, TypeOK, ClientTypeOK
  <2> QED
    BY <2>1, <2>2
<1>8. PromptCheck'
  <2>1. collecting' => elapsed' <= LongestHold /\ elapsed' = elapsed + 1 /\ collecting
    BY <1>1, <1>6 DEF Pass, Tick, HoldBounded
  <2>2. ~collecting' => checkAge' = 0
    BY DEF Pass, Tick
  <2>3. checkAge' = (IF checking THEN checkAge + 1 ELSE 0) /\ checking' = checking
    BY DEF Pass
  <2> QED
    BY <1>1, <2>1, <2>2, <2>3 DEF TimeInv, PromptCheck, TypeOK, ClientTypeOK
<1>9. EarnedStreak'
  BY <1>1 DEF Pass, TimeInv, EarnedStreak
<1> QED
  BY <1>2, <1>4, <1>5, <1>7, <1>8, <1>9 DEF TimeInv

(* Every step keeps the invariant in time. *)
LEMMA TimeStep ==
  ASSUME TimeInv, [Next]_vars
  PROVE  TimeInv'
<1>1. CASE UNCHANGED vars
  <2>1. LongestHold' = LongestHold
    BY <1>1 DEF vars, LongestHold
  <2>2. TypeOK' /\ OneAtATime' /\ ElapsedBound'
    BY <1>1 DEF vars, cvars, hvars, TimeInv, TypeOK, ClientTypeOK, OneAtATime,
                ElapsedBound, Calling, InState
  <2>3. PromptScrape' /\ PromptCheck' /\ EarnedStreak'
    BY <1>1, <2>1 DEF vars, cvars, hvars, TimeInv, PromptScrape, PromptCheck, EarnedStreak
  <2> QED
    BY <2>2, <2>3 DEF TimeInv
<1> QED
  BY <1>1, ArriveInv, BeginInv, EndInv, AskInv, VerdictInv, PassInv, ExchangeInv
     DEF Next, Step
----------------------------------------------------------------------------
(* The connections.  Those that are used in some way, and those that a     *)
(* request has not given back. *)
Open == {c \in Conns : conn[c] # "closed"}
Busy == InState({"waiting", "reading", "held"})

(* When a scrape comes, the last one's connections are gone.               *)
LEMMA NoneHeld ==
  ASSUME TimeInv, HeldRecent, Interval > LongestHold, since = Interval \/ waiting > 0
  PROVE  InState({"held"}) = {}
<1> SUFFICES ASSUME NEW c \in InState({"held"}) PROVE FALSE
  OBVIOUS
<1> DEFINE P == (Calls - 1) * timeout
<1>1. timeout \in Nat /\ age[c] \in 0 .. timeout /\ waiting \in Nat
  BY DEF InState, TimeInv, TypeOK, ClientTypeOK
<1>2. P \in Nat /\ P + timeout = LongestHold
  BY <1>1, Products DEF LongestHold
<1>3. waiting = 0 /\ since <= P + age[c]
  BY DEF HeldRecent
<1> HIDE DEF P
<1> QED
  BY <1>1, <1>2, <1>3

(* Fewer are open, fewer busy, and none is newly held. *)
LEMMA Fewer ==
  ASSUME IInv, Interval > LongestHold, UNCHANGED <<timeout, made, waiting, since>>,
         Open' \subseteq Open, Busy' \subseteq Busy,
         \A d \in InState({"held"})' : waiting = 0 /\ since <= (Calls - 1) * timeout + age'[d]
  PROVE  HeldRecent' /\ OpenCounted'
<1>1. HeldRecent'
  BY DEF HeldRecent
<1>2. IsFiniteSet(Open) /\ Cardinality(Busy) <= made /\ Cardinality(Open) <= Calls
  BY DEF IInv, OpenCounted, Open, Busy
<1>3. IsFiniteSet(Busy)
  <2>1. Busy \subseteq Open
    BY DEF Busy, Open, InState
  <2> QED
    BY <1>2, <2>1, FS_Subset
<1>4. /\ IsFiniteSet(Open') /\ Cardinality(Open') <= Cardinality(Open)
      /\ IsFiniteSet(Busy') /\ Cardinality(Busy') <= Cardinality(Busy)
  BY <1>2, <1>3, FS_Subset
<1>5. /\ Cardinality(Open) \in Nat /\ Cardinality(Open') \in Nat
      /\ Cardinality(Busy) \in Nat /\ Cardinality(Busy') \in Nat
      /\ made \in Nat
  BY <1>2, <1>3, <1>4, FS_CardinalityType DEF IInv, TimeInv, TypeOK, ClientTypeOK
<1>6. Cardinality(Busy') <= made' /\ Cardinality(Open') <= Calls
  BY <1>2, <1>4, <1>5
<1> QED
  BY <1>1, <1>4, <1>6 DEF OpenCounted, Open, Busy

(* A request takes an idle connection or a closed one. *)
LEMMA DoConns ==
  ASSUME IInv, Interval > LongestHold, NEW c \in Conns, Do(c), UNCHANGED <<timeout, hvars>>
  PROVE  HeldRecent' /\ OpenCounted'
<1>1. /\ conn \in [Conns -> {"closed", "idle", "waiting", "reading", "held"}]
      /\ age \in [Conns -> 0 .. timeout] /\ made \in 0 .. Calls
  BY DEF IInv, TimeInv, TypeOK, ClientTypeOK
<1>2. /\ made < Calls /\ made' = made + 1 /\ Usable(c)
      /\ conn' = [conn EXCEPT ![c] = "waiting"] /\ age' = [age EXCEPT ![c] = 0]
      /\ UNCHANGED <<waiting, since>>
  BY DEF Do, Put, hvars
<1>3. HeldRecent'
  <2>1. ASSUME NEW d \in InState({"held"})' PROVE d \in InState({"held"}) /\ age'[d] = age[d]
    BY <1>1, <1>2, <2>1 DEF InState
  <2> QED
    BY <1>2, <2>1 DEF IInv, HeldRecent
<1>4. IsFiniteSet(Open) /\ Cardinality(Busy) <= made /\ Cardinality(Open) <= Calls
  BY DEF IInv, OpenCounted, Open, Busy
<1>5. IsFiniteSet(Busy) /\ Cardinality(Busy) \in Nat
  <2>1. Busy \subseteq Open
    BY DEF Busy, Open, InState
  <2> QED
    BY <1>4, <2>1, FS_Subset, FS_CardinalityType
<1>6. Busy' = Busy \union {c} /\ c \notin Busy
  BY <1>1, <1>2 DEF Busy, InState, Usable
<1>7. Cardinality(Busy') = Cardinality(Busy) + 1 /\ IsFiniteSet(Busy')
  BY <1>5, <1>6, FS_AddElement
<1>8. IsFiniteSet(Open') /\ Cardinality(Open') <= Calls
  <2>1. CASE conn[c] = "idle"
    <3>1. Open' = Open
      BY <1>1, <1>2, <2>1 DEF Open
    <3> QED
      BY <1>4, <3>1
  <2>2. CASE conn[c] = "closed" /\ InState({"idle"}) = {}
    <3>1. Open' = Busy'
      BY <1>1, <1>2, <2>2 DEF Open, Busy, InState
    <3> QED
      BY <1>1, <1>2, <1>4, <1>5, <1>7, <3>1
  <2> QED
    BY <1>2, <2>1, <2>2 DEF Usable
<1>9. Cardinality(Busy') <= made'
  BY <1>1, <1>2, <1>4, <1>5, <1>7
<1> QED
  BY <1>3, <1>8, <1>9 DEF OpenCounted, Open, Busy

(* The body that is dropped belongs to the request that took the time.     *)
LEMMA HeldNow ==
  ASSUME TimeInv, Interval > LongestHold, NEW c \in InState({"waiting", "reading"})
  PROVE  waiting = 0 /\ since <= (Calls - 1) * timeout + age[c]
<1>1. collecting /\ Calling /\ made > 0
  BY DEF TimeInv, OneAtATime, Calling
<1>2. waiting = 0 /\ since = elapsed
  BY <1>1 DEF TimeInv, PromptScrape, TypeOK
<1>3. elapsed <= (made - 1) * timeout + age[c]
  BY <1>1 DEF TimeInv, ElapsedBound
<1> DEFINE P == (made - 1) * timeout
           Q == (Calls - 1) * timeout
<1>4. timeout \in Nat /\ made - 1 \in Nat /\ Calls - 1 \in Nat /\ made - 1 <= Calls - 1
      /\ age[c] \in Nat /\ elapsed \in Nat
  BY <1>1 DEF TimeInv, TypeOK, ClientTypeOK, InState
<1>5. P \in Nat /\ Q \in Nat /\ P <= Q
  BY <1>4, Products
<1> HIDE DEF P, Q
<1>6. since <= Q + age[c]
  BY <1>2, <1>3, <1>4, <1>5 DEF P
<1> QED
  BY <1>2, <1>6 DEF Q

(* No step of the client breaks what is said of connections ... *)
LEMMA ExchangeConns ==
  ASSUME IInv, Interval > LongestHold, NEW c \in Conns, Exchange(c), ~Do(c),
         UNCHANGED <<timeout, hvars>>
  PROVE  HeldRecent' /\ OpenCounted'
<1>1. /\ conn \in [Conns -> {"closed", "idle", "waiting", "reading", "held"}]
      /\ age \in [Conns -> 0 .. timeout]
  BY DEF IInv, TimeInv, TypeOK, ClientTypeOK
<1>2. UNCHANGED <<made, waiting, since>>
  BY ExchangeShape DEF IInv, TimeInv, hvars
<1>3. PICK place \in {"closed", "idle", "reading", "held"} :
        /\ Put(c, place)
        /\ place \in {"reading", "held"} => conn[c] = "waiting"
        /\ place = "idle" => conn[c] \in {"waiting", "reading"}
  BY DEF Exchange, StatusOK, Breaks, TimesOut, ServerCloses, OtherStatus, BodyRead
<1>4. /\ conn' = [conn EXCEPT ![c] = place]
      /\ place = "held" => age' = [age EXCEPT ![c] = age[c]]
      /\ \A d \in Conns : d # c => age'[d] = age[d]
  BY <1>1, <1>3 DEF Put
<1>5. Open' \subseteq Open /\ Busy' \subseteq Busy
  BY <1>1, <1>3, <1>4 DEF Open, Busy, InState
<1>6. ASSUME NEW d \in InState({"held"})'
      PROVE  waiting = 0 /\ since <= (Calls - 1) * timeout + age'[d]
  <2>1. CASE d = c
    <3>1. d \in InState({"waiting", "reading"}) /\ age'[d] = age[d]
      BY <1>1, <1>3, <1>4, <1>6, <2>1 DEF InState
    <3> QED
      BY <3>1, HeldNow DEF IInv
  <2>2. CASE d # c
    <3>1. d \in InState({"held"}) /\ age'[d] = age[d]
      BY <1>1, <1>4, <1>6, <2>2 DEF InState
    <3> QED
      BY <3>1 DEF IInv, HeldRecent
  <2> QED
    BY <2>1, <2>2
<1> QED
  BY <1>2, <1>5, <1>6, Fewer

(* ... and neither does the passing of time, ... *)
LEMMA PassConns ==
  ASSUME IInv, Interval > LongestHold, Pass, UNCHANGED timeout
  PROVE  HeldRecent' /\ OpenCounted'
<1>1. /\ UNCHANGED <<conn, made, waiting>> /\ since' = UpTo(Interval, since + 1)
      /\ age' = [c \in Conns |-> IF conn[c] \in {"waiting", "reading", "held"}
                                 THEN age[c] + 1 ELSE age[c]]
  BY DEF Pass, Tick
<1>2. LongestHold' = LongestHold
  BY DEF LongestHold
<1>3. HeldRecent'
  <2> SUFFICES ASSUME NEW c \in InState({"held"})
               PROVE  waiting' = 0 /\ since' <= (Calls - 1) * timeout + age'[c]
    BY <1>1, <1>2 DEF HeldRecent, InState
  <2> DEFINE P == (Calls - 1) * timeout
  <2>1. waiting = 0 /\ since <= P + age[c]
    BY DEF IInv, HeldRecent
  <2>2. since \in Nat /\ age[c] \in Nat /\ P \in Nat
    BY Products DEF InState, IInv, TimeInv, TypeOK, ClientTypeOK
  <2>3. age'[c] = age[c] + 1
    BY <1>1 DEF InState
  <2>4. since' <= since + 1 /\ since' \in Nat
    BY <1>1, <2>2 DEF UpTo
  <2> HIDE DEF P
  <2>5. since' <= P + age'[c]
    BY <2>1, <2>2, <2>3, <2>4
  <2> QED
    BY <1>1, <2>1, <2>5 DEF P
<1>4. OpenCounted'
  BY <1>1, <1>2 DEF IInv, OpenCounted, InState
<1> QED
  BY <1>3, <1>4

(* ... nor any other step. *)
LEMMA ConnStep ==
  ASSUME IInv, [Next]_vars
  PROVE  HeldRecent' /\ OpenCounted'
<1>1. UNCHANGED timeout /\ LongestHold' = LongestHold
  BY DEF Next, vars, LongestHold
<1> SUFFICES ASSUME Interval > LongestHold PROVE HeldRecent' /\ OpenCounted'
  BY <1>1 DEF HeldRecent, OpenCounted
<1>2. ASSUME UNCHANGED <<conn, age, made, waiting, since>>
      PROVE  HeldRecent' /\ OpenCounted'
  BY <1>1, <1>2 DEF IInv, HeldRecent, OpenCounted, InState
<1>3. CASE ScrapeArrives
  <2>1. InState({"held"}) = {} /\ UNCHANGED <<conn, age, made>>
    BY <1>3, NoneHeld DEF ScrapeArrives, cvars, IInv
  <2> QED
    BY <1>1, <2>1 DEF IInv, HeldRecent, OpenCounted, InState
<1>4. CASE BeginScrape
  <2>1. InState({"held"}) = {} /\ UNCHANGED <<conn, age>> /\ made' = 0 /\ ~collecting
    BY <1>4, NoneHeld DEF BeginScrape, BeginCollect, IInv
  <2>2. Busy = {}
    BY <2>1 DEF IInv, TimeInv, OneAtATime, Calling, InState, Busy
  <2>3. Cardinality(Busy) = 0
    BY <2>2, FS_EmptySet
  <2>4. HeldRecent'
    BY <1>1, <2>1 DEF HeldRecent, InState
  <2>5. OpenCounted'
    <3>1. Busy' = Busy
      BY <2>1 DEF Busy, InState
    <3> QED
      BY <1>1, <2>1, <2>3, <3>1 DEF IInv, OpenCounted, Busy
  <2> QED
    BY <2>4, <2>5
<1>5. CASE EndScrape \/ Ask \/ AnswerCheck \/ GiveUp \/ UNCHANGED vars
  <2>1. UNCHANGED <<conn, age, made, waiting, since>>
    BY <1>5 DEF EndScrape, EndCollect, Ask, AnswerCheck, GiveUp, Verdict, cvars, vars, hvars
  <2> QED
    BY <1>2, <2>1
<1>6. CASE Pass
  BY <1>1, <1>6, PassConns
<1>7. CASE \E c \in Conns : Exchange(c) /\ UNCHANGED hvars
  <2>1. PICK c \in Conns : Exchange(c) /\ UNCHANGED hvars
    BY <1>7
  <2> QED
    BY <1>1, <2>1, DoConns, ExchangeConns
<1> QED
  BY <1>3, <1>4, <1>5, <1>6, <1>7 DEF Next, Step

(* IInv holds in every reachable state.                                    *)
THEOREM HealthInvariance == Spec => []IInv
<1>1. Init => IInv
  <2> SUFFICES ASSUME Init PROVE HeldRecent /\ OpenCounted
    BY InitInv DEF IInv
  <2>1. Open = {} /\ Busy = {} /\ InState({"held"}) = {} /\ made = 0
    BY DEF Init, InitClient, Open, Busy, InState
  <2>2. /\ IsFiniteSet(Open) /\ Cardinality(Open) = 0 /\ Cardinality(Busy) = 0
    BY <2>1, FS_EmptySet
  <2>3. HeldRecent
    BY <2>1 DEF HeldRecent
  <2>4. Cardinality(Busy) <= made /\ Cardinality(Open) <= Calls
    BY <2>1, <2>2
  <2> QED
    BY <2>2, <2>3, <2>4 DEF OpenCounted, Open, Busy
<1>2. ASSUME IInv, [Next]_vars PROVE IInv'
  BY <1>2, TimeStep, ConnStep DEF IInv
<1> QED
  BY <1>1, <1>2, PTL DEF Spec

(* Every variable stays in its domain.                                     *)
THEOREM TypeCorrect == Spec => []TypeOK
<1>1. IInv => TypeOK
  BY DEF IInv, TimeInv
<1> QED
  BY <1>1, HealthInvariance, PTL

(* No scrape holds the mutex longer than its requests' timeouts add up to. *)
THEOREM MutexHold == Spec => []HoldBounded
<1>1. IInv => HoldBounded
  BY Hold DEF IInv, TimeInv
<1> QED
  BY <1>1, HealthInvariance, PTL

(* Scrapes do not pile up if their interval is longer than that.           *)
THEOREM Backlog == Spec => []NoBacklog
<1>1. IInv => NoBacklog
  BY DEF IInv, TimeInv, TypeOK, PromptScrape, NoBacklog
<1> QED
  BY <1>1, HealthInvariance, PTL

(* Then a check whose timeout is longer, too, fails only after a scrape    *)
(* that failed.                                                            *)
THEOREM Earned == Spec => []UnhealthyIsEarned
<1>1. IInv => UnhealthyIsEarned
  BY DEF IInv, TimeInv, EarnedStreak, UnhealthyIsEarned
<1> QED
  BY <1>1, HealthInvariance, PTL
(* The connections left open do not add up.                                *)
THEOREM Bounded == Spec => []OpenBounded
<1>1. IInv => OpenBounded
  BY DEF IInv, OpenCounted, OpenBounded
<1> QED
  BY <1>1, HealthInvariance, PTL
=============================================================================
