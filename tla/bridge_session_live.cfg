SPECIFICATION FairSpec
CONSTANTS
  a = a
  b = b
  Uris <- MCUris
  NoUri = NoUri
  Versions <- MCVersions
  NoMessage = NoMessage
  Mode = "child"
  Debounce = 1
  MaxRetries = 1
  ChannelCapacity = 1
  PipeCapacity = 1
  MaxInFlight = 1
  Lines <- MCPush
  MaxLines = 6
  MaxCrashes = 1
INVARIANT AtMostOneChild
PROPERTIES
  PushReachesAdapter
  AdapterEnds
