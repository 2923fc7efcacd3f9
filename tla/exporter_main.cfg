SPECIFICATION FairSpec
CONSTANTS
  Scrapes = {s1, s2}
  Probes = {p1}
  EnabledExporters = {"queue", "unknown"}
  MaxQueues = 1
  Names <- MCNames
  OverviewReplies <- MCReplies
  NoRequest = NoRequest
CHECK_DEADLOCK FALSE
INVARIANTS TypeOK IInv ScrapeCoherent OnlyOwnData QueueLimitKept
PROPERTIES ImplementsService EveryRequestAnswered
