SPECIFICATION Spec
CONSTANTS
  a = a
  b = b
  Uris <- MCUris
  NoUri = NoUri
  Versions <- MCVersions
  NoMessage = NoMessage
  Mode = "child"
  Debounce = 1
  MaxRetries = 1
  ChannelCapacity = 1
  PipeCapacity = 2
  MaxInFlight = 1
  Lines <- MCPushes
  MaxLines = 2
  MaxCrashes = 0
INVARIANT
  CleanEndAnswersAll
