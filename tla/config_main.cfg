SPECIFICATION Spec
CONSTANTS
  Environments <- MCEnvironments
  Files <- MCFiles
  Absent = Absent
  Broken = Broken
  Matches <- MCMatches
  Numerals <- MCNumerals
  Padded <- MCPadded
  Secrets <- MCSecrets
  URLs <- MCURLs
  Connections <- MCConnections
  Vectors <- MCVectors
CHECK_DEADLOCK FALSE
INVARIANTS OneSettingEach DroppedForAReason CapabilitiesInForce
