SPECIFICATION Spec
CONSTANTS
  a = a
  b = b
  c = c
  k1 = k1
  k2 = k2
  None = None
  Worker = worker
  Uris <- MCUris
  Commands <- MCCommands
  Kinds <- MCStopCheck
  Cancellable <- MCCheck
  Reports <- MCReportsB
  OpenVersions <- MCVersion
  MaxNotes = 2
SYMMETRY MCSymmetry
INVARIANTS
  TypeOK
  FlushCovers
  StopIsPrompt
  NoOrphans
PROPERTIES
  PushOrder
