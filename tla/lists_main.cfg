SPECIFICATION Spec
CONSTANTS
  Contexts <- MCContexts
  Replies <- MCReplies
  MemoryReplies <- MCMemoryReplies
  Keys <- MCKeys
  Excluded = {}
  IncludeVHost <- MCVHosts
  SkipVHost <- MCSkipVHosts
  IncludeExchanges <- MCExchangeNames
  SkipExchanges <- MCSkipExchanges
  Connection = "direct"
INVARIANTS TypeOK ConnectionsCounted TrafficConserved OnlyThisReply MemoryOfAllNodes NumbersTold StatesTold
