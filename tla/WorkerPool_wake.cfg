SPECIFICATION FairSpec
CONSTANTS
  Workers = {w1, w2}
  Producers = {p1, p2}
  Stoppers = {}
  IdleSpin = 1
  Null = Null
INVARIANT TypeOK
INVARIANT CountsDoNotDrift
INVARIANT NoLostWakeup
PROPERTY EntryIsDispatched
\* Workers that sleep, or have left, are at rest.
CHECK_DEADLOCK FALSE
