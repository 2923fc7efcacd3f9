SPECIFICATION Spec
CONSTANTS
  Contexts <- MCContexts
  Replies <- MCReplies
  GaugeKeys <- MCGaugeKeys
  CounterKeys <- MCCounterKeys
  Excluded = {}
  IncludeVHost <- MCVHosts
  SkipVHost <- MCSkipVHosts
  IncludeQueues <- MCQueues
  SkipQueues <- MCSkipQueues
  Connection = "direct"
  MaxQueues = 5
INVARIANTS IdleSinceOnlyWhenIdle
