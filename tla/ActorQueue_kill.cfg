SPECIFICATION Spec
CONSTANTS
  w1 = w1
  w2 = w2
  m1 = m1
  m2 = m2
  Workers = {w1, w2}
  Messages = {m1, m2}
  Requests = {m1, m2}
  Killers = {k1}
  SelfKillers = {w1, w2, spawner}
  Spawner = spawner
  NoMsg = NoMsg
  SizeMax = 7
  OVERLOAD_THRESHOLD = 2
  Weight <- MCWeightEqual
SYMMETRY FullSymmetry
INVARIANT TypeOK
INVARIANT MutualExclusion
INVARIANT ScheduleToken
INVARIANT DepthCounts
INVARIANT SafeTeardown
INVARIANT CountAccounting
INVARIANT NoStrandedMessage
\* The instance has finitely many messages and kills: it comes to rest.
CHECK_DEADLOCK FALSE
