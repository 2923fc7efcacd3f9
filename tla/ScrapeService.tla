--------------------------- MODULE ScrapeService ---------------------------
(***************************************************************************)
(* What the exporter promises to its HTTP clients, without the lock, the   *)
(* metric objects or the broker: a scrape is answered as if it happened    *)
(* in one instant, its answer names the modules that failed, `up` is their *)
(* summary, and /health tells the outcome of the last finished scrape.     *)
(***************************************************************************)
CONSTANTS Scrapes,      \* GET /metrics requests
          Probes,       \* GET /health requests
          Collectors    \* the overview and the enabled modules

VARIABLES ok,           \* outcome of the last scrape; TRUE after start
          answer,       \* answer[s]: {} before s is answered, else one record
          told          \* told[p]: {} before p is answered, else {ok}

vars == <<ok, answer, told>>

TypeOK ==
  /\ ok \in BOOLEAN
  /\ answer \in [Scrapes -> SUBSET [up : {0, 1}, down : SUBSET Collectors]]
  /\ told \in [Probes -> SUBSET BOOLEAN]

Init ==
  /\ ok = TRUE
  /\ answer = [s \in Scrapes |-> {}]
  /\ told = [p \in Probes |-> {}]

Scrape(s) ==
  /\ answer[s] = {}
  /\ \E down \in SUBSET Collectors :
        /\ answer' = [answer EXCEPT ![s] =
                        {[up |-> IF down = {} THEN 1 ELSE 0, down |-> down]}]
        /\ ok' = (down = {})
  /\ UNCHANGED told

Probe(p) ==
  /\ told[p] = {}
  /\ told' = [told EXCEPT ![p] = {ok}]
  /\ UNCHANGED <<ok, answer>>

Next == (\E s \in Scrapes : Scrape(s)) \/ (\E p \in Probes : Probe(p))

Spec == Init /\ [][Next]_vars
============================================================================
