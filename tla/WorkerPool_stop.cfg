SPECIFICATION FairSpec
CONSTANTS
  Workers = {w1, w2}
  Producers = {p1}
  Stoppers = {s1, s2}
  IdleSpin = 0
  Null = Null
PROPERTY ShutdownReturns
\* Workers that sleep, or have left, are at rest.
CHECK_DEADLOCK FALSE
