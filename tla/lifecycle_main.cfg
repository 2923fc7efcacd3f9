SPECIFICATION FairSpec
CONSTANTS
  Requests = {q1, q2}
  Platforms = {"posix", "service"}
CHECK_DEADLOCK FALSE
INVARIANTS TypeOK IInv ExitZeroIsClean KilledOnlyBeforeSubscribe StoppedMeansTold
PROPERTIES StopEndsProcess
