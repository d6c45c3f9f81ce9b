SPECIFICATION FairSpec
CONSTANTS
  a = a
  b = b
  c = c
  k1 = k1
  k2 = k2
  None = None
  Worker = worker
  Uris <- MCOneUri
  Commands <- MCCommands
  Kinds <- AllKinds
  Cancellable <- MCCheck
  Reports <- MCNoReports
  OpenVersions <- MCVersions
  MaxNotes = 2
INVARIANT
  TextArrives
PROPERTY
  CommandsFinish
