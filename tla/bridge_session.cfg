SPECIFICATION Spec
CONSTANTS
  a = a
  b = b
  Uris <- MCUris
  NoUri = NoUri
  Versions <- MCVersions
  NoMessage = NoMessage
  Mode = "sbt"
  Debounce = 1
  MaxRetries = 1
  ChannelCapacity = 1
  PipeCapacity = 1
  MaxInFlight = 2
  Lines <- MCPushes
  MaxLines = 3
  MaxCrashes = 1
INVARIANTS
  TypeOK
  NothingLost
  EofFlushes
  DocumentOrder
  CheckSeesLatestPush
  AnswersFollowRequests
  AtMostOneChild
