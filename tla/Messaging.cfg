SPECIFICATION Spec
CONSTANTS
  Base = 2
  MAX_COOKIE = 3
  MAX_DEPTH = 4
  MaxHandle = 3
  Arguments <- MCArguments
  Packs <- MCPacks
  Returns <- MCReturns
  MaxOps = 3
INVARIANT TypeOK
INVARIANT BuffersAreOwned
INVARIANT ReceivedAsSent
INVARIANT CallIsCarried
INVARIANT LoggerHandleFresh
\* Services may have nothing left to do.
CHECK_DEADLOCK FALSE
