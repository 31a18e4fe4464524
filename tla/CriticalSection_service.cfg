CONSTANTS
  m = m
  c1 = c1
  c2 = c2
  r1 = r1
  r2 = r2
  r3 = r3
  Co = {m, c1, c2}
  Main = m
  Request = {r1, r3}
  Calls = {r1, r3}
  Unknown = {r3}
  Ops = {"call", "sleep", "wakeup", "fork", "timeout", "ret", "ignoreret", "response"}
  Errors = TRUE
  MaxSession = 4
  MaxFork = 1
  MaxEnter = 2
  MaxDepth = 2
  Nil = Nil
  Break = Break
SPECIFICATION CSSpec
SYMMETRY Others
INVARIANT WaiterHasItsSession
INVARIANT ReplyOnce
INVARIANT DebtIsTheHandlers
INVARIANT CSTypeOK
INVARIANT Exclusive
\* The instance has finitely many requests and sessions: it comes to rest.
CHECK_DEADLOCK FALSE
