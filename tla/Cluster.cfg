SPECIFICATION FairSpec
CONSTANTS
  MULTI_PART = 2
  INT32_MAX = 3
  FirstSessions = {3}
  LUAL_BUFFERSIZE = 1
  MaxRequests = 2
  MaxConns = 2
  MAX_RETRY = 2
  MaxCommands = 2
  Handles = {1}
  Sizes <- MCSizes
  ReplySizes <- MCReplySizes
\* Once everything is answered nothing is left to do.
CHECK_DEADLOCK FALSE
INVARIANT TypeOK
INVARIANT AnswerIsItsOwn
INVARIANT ArrivesAsSent
PROPERTY RequestEnds
