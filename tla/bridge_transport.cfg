SPECIFICATION FairSpec
CONSTANTS
  worker = worker
  hover = hover
  Callers <- MCCallers
  Cancellable <- MCCancellable
  Garbage = Garbage
  NoLink = NoLink
  MaxRequests = 3
  MaxGarbage = 1
INVARIANTS
  TypeOK
  OneExchange
  RetryReconnects
  InvalidIsBlamed
PROPERTIES
  ImplementsRpc
  RequestsFinish
