SPECIFICATION FairSpec
CONSTANTS
  Workers = {w1}
  Producers = {p1}
  Stoppers = {s1}
  IdleSpin = 1
  Null = Null
PROPERTY ShutdownReturns
\* Workers that sleep, or have left, are at rest.
CHECK_DEADLOCK FALSE
