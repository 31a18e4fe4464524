CONSTANTS
  m = m
  c1 = c1
  c2 = c2
  r1 = r1
  r2 = r2
  r3 = r3
  Co = {m, c1, c2}
  Main = m
  Request = {r1, r2}
  Calls = {}
  Unknown = {}
  Ops = {"sleep", "wakeup"}
  Errors = FALSE
  MaxSession = 4
  MaxFork = 0
  MaxEnter = 4
  MaxDepth = 2
  Nil = Nil
  Break = Break
SPECIFICATION CSLiveSpec
INVARIANT PendingIsDispatched
PROPERTY WakeupKeepsItsWait
PROPERTY EveryWaitEnds
INVARIANT WaiterFindsItFree
PROPERTY IsFifo
PROPERTY WaiterIsAdmitted
\* The instance has finitely many requests and sessions: it comes to rest.
CHECK_DEADLOCK FALSE
