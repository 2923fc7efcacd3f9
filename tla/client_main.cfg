SPECIFICATION Spec
CONSTANTS
  Conns = {c1, c2, c3, c4, c5}
  Timeouts = {1, 2}
  Calls = 3
  Interval = 7
  CheckTimeout = 4
  Retries = 2
INVARIANTS TypeOK IInv HoldBounded NoBacklog OpenBounded UnhealthyIsEarned
