SPECIFICATION Spec
CONSTANTS
  Scrapes = {s1, s2}
  Probes = {}
  EnabledExporters = {"connections", "exchange"}
  MaxQueues = 1
  Names <- MCNames
  OverviewReplies <- MCOneReply
  NoRequest = NoRequest
SYMMETRY Interchangeable
CHECK_DEADLOCK FALSE
INVARIANTS ScrapeCoherent OnlyOwnData
