SPECIFICATION Spec
CONSTANTS
  Scrapes = {s1, s2}
  Probes = {p1}
  EnabledExporters = {"queue", "unknown"}
  MaxQueues = 1
  Names <- MCNames
  OverviewReplies <- MCReplies
  NoRequest = NoRequest
SYMMETRY Interchangeable
CHECK_DEADLOCK FALSE
INVARIANTS OverviewFresh
