SPECIFICATION Spec
CONSTANTS
  a = a
  b = b
  c = c
  k1 = k1
  k2 = k2
  None = None
  Worker = worker
  Uris <- MCThreeUris
  Commands <- MCNoCommands
  Kinds <- MCNoKinds
  Cancellable <- MCNoKinds
  Reports <- MCReportsC
  OpenVersions <- MCVersion
  MaxNotes = 3
INVARIANT
  CrossFilePreserved
