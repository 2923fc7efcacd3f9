---------------------------- MODULE HealthCheck ----------------------------
(***************************************************************************)
(* The exporter between its two callers, in time: Prometheus, which        *)
(* scrapes at its interval and does not care whether the last scrape has   *)
(* ended, and the health check of the Docker image, which runs the program *)
(* with -check-url (curl.go), gives up after its own timeout, and counts   *)
(* failures.  Both queue on the mutex that a Collect holds while it talks  *)
(* to the broker (BrokerClient).                                           *)
(***************************************************************************)
EXTENDS BrokerClient

CONSTANTS Interval,     \* least time between two scrapes
          CheckTimeout, \* the timeout of curl's client, 30 s
          Retries       \* failures in a row that make a container unhealthy

ASSUME IntervalAssumption == Interval \in Nat \ {0}
ASSUME CheckAssumption == CheckTimeout \in Nat \ {0} /\ Retries \in Nat \ {0}

VARIABLES
  waiting,      \* scrapes whose Collect waits for the mutex
  since,        \* ticks since the last one came, counted up to Interval
  lastScrapeOK, \* exporter.lastScrapeOK
  failed,       \* history: some scrape has failed
  checking,     \* a health check waits for its answer
  checkAge,     \* ticks since it asked
  streak,       \* failures in a row, counted up to Retries
  status        \* of the container

hvars == <<waiting, since, lastScrapeOK, failed, checking, checkAge, streak, status>>
vars  == <<timeout, cvars, hvars>>

Init ==
  /\ InitClient
  /\ waiting = 0
  /\ since = Interval
  /\ lastScrapeOK = TRUE
  /\ failed = FALSE
  /\ checking = FALSE
  /\ checkAge = 0
  /\ streak = 0
  /\ status = "starting"

UpTo(bound, n) == IF n < bound THEN n ELSE bound

(* HandlerOpts{} limits neither the scrapes in flight nor their time *)
ScrapeArrives ==
  /\ since = Interval
  /\ waiting' = waiting + 1
  /\ since' = 0
  /\ UNCHANGED <<cvars, lastScrapeOK, failed, checking, checkAge, streak, status>>

BeginScrape ==
  /\ waiting > 0
  /\ BeginCollect
  /\ waiting' = waiting - 1
  /\ UNCHANGED <<since, lastScrapeOK, failed, checking, checkAge, streak, status>>

EndScrape ==
  /\ EndCollect
  /\ lastScrapeOK' = allUp
  /\ failed' = (failed \/ ~allUp)
  /\ UNCHANGED <<waiting, since, checking, checkAge, streak, status>>

Ask ==
  /\ ~checking
  /\ checking' = TRUE
  /\ UNCHANGED <<cvars, waiting, since, lastScrapeOK, failed, checkAge, streak, status>>

(* curl exits with 0 or 1, and Docker counts *)
Counted(good) == IF good THEN 0 ELSE UpTo(Retries, streak + 1)

Verdict(good) ==
  /\ checking' = FALSE
  /\ checkAge' = 0
  /\ streak' = Counted(good)
  /\ status' = IF good THEN "healthy"
               ELSE IF streak' = Retries THEN "unhealthy" ELSE status
  /\ UNCHANGED <<cvars, waiting, since, lastScrapeOK, failed>>

(* LastScrapeOK takes the mutex and the handler says 200 or 504 *)
AnswerCheck == checking /\ ~collecting /\ Verdict(lastScrapeOK)

(* Its handler stays behind in the exporter, and will change nothing *)
GiveUp == checking /\ checkAge = CheckTimeout /\ Verdict(FALSE)

(* Time passes if nobody can take the mutex and no timer is due *)
Pass ==
  /\ Tick
  /\ ~collecting => waiting = 0 /\ ~checking
  /\ checkAge < CheckTimeout
  /\ since' = UpTo(Interval, since + 1)
  /\ checkAge' = IF checking THEN checkAge + 1 ELSE 0
  /\ UNCHANGED <<waiting, lastScrapeOK, failed, checking, streak, status>>

Step ==
  \/ ScrapeArrives \/ BeginScrape \/ EndScrape
  \/ Ask \/ AnswerCheck \/ GiveUp
  \/ Pass
  \/ \E c \in Conns : Exchange(c) /\ UNCHANGED hvars

Next == Step /\ UNCHANGED timeout

Spec == Init /\ [][Next]_vars
----------------------------------------------------------------------------
(* Every variable stays in its domain. *)
TypeOK ==
  /\ ClientTypeOK
  /\ waiting \in Nat
  /\ since \in 0 .. Interval
  /\ lastScrapeOK \in BOOLEAN
  /\ failed \in BOOLEAN
  /\ checking \in BOOLEAN
  /\ checkAge \in 0 .. CheckTimeout
  /\ streak \in 0 .. Retries
  /\ status \in {"starting", "healthy", "unhealthy"}

(* Scrapes do not pile up behind a slow broker, although no handler has a  *)
(* limit of its own (main.go:88), if Prometheus leaves more time between   *)
(* them than the timeouts of one scrape can add up to.                     *)
NoBacklog ==
  Interval > LongestHold =>
    waiting <= IF collecting THEN 0 ELSE 1

(* The connections whose bodies were dropped do not add up to more than    *)
(* one scrape makes: at the same interval those of the last scrape are     *)
(* gone before the next opens its own (rabbitClient.go:82-89). *)
OpenBounded ==
  Interval > LongestHold =>
    Cardinality({c \in Conns : conn[c] # "closed"}) <= Calls

(* A slow broker alone does not make the container unhealthy: with         *)
(* timeouts that add up to less than the check's, a check fails only after *)
(* a scrape that failed (curl.go:14-22, main.go:98-104, Dockerfile:28).    *)
UnhealthyIsEarned ==
  Interval > LongestHold /\ CheckTimeout > LongestHold =>
    (status = "unhealthy" => failed)

(* The inductive invariant.  With enough time between scrapes, a scrape    *)
(* that waits has just come and finds the mutex free, and the one that     *)
(* collects began when it came; a check has then waited no longer than the *)
(* scrape it waits for took.                                               *)
PromptScrape ==
  Interval > LongestHold =>
    /\ waiting > 0 => waiting = 1 /\ since = 0 /\ ~collecting
    /\ collecting => since = elapsed

PromptCheck ==
  /\ checking \/ checkAge = 0
  /\ Interval > LongestHold =>
       /\ collecting => checkAge <= elapsed
       /\ checkAge <= LongestHold
       /\ ~collecting /\ checkAge > 0 => since < Interval /\ waiting = 0

EarnedStreak ==
  /\ lastScrapeOK \/ failed
  /\ Interval > LongestHold /\ CheckTimeout > LongestHold =>
       (streak > 0 \/ status = "unhealthy" => failed)

(* A connection whose body was dropped is of the last scrape: since that   *)
(* one came, its request and those before it have taken up all the time.   *)
HeldRecent ==
  Interval > LongestHold =>
    \A c \in InState({"held"}) : waiting = 0 /\ since <= (Calls - 1) * timeout + age[c]

(* Whatever is busy was made so by a request of the last scrape, and a     *)
(* connection is dialed only if none is idle.                              *)
OpenCounted ==
  Interval > LongestHold =>
    /\ IsFiniteSet({c \in Conns : conn[c] # "closed"})
    /\ Cardinality(InState({"waiting", "reading", "held"})) <= made
    /\ Cardinality({c \in Conns : conn[c] # "closed"}) <= Calls

TimeInv ==
  /\ TypeOK
  /\ OneAtATime
  /\ ElapsedBound
  /\ PromptScrape
  /\ PromptCheck
  /\ EarnedStreak

IInv == TimeInv /\ HeldRecent /\ OpenCounted
============================================================================
