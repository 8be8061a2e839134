SPECIFICATION JobsSpec
CONSTANTS
  a = a
  b = b
  Nodes <- TwoNodes
  Ttl = 2
  Margin = 1
  Interval = 1
  Timeout = 1
  Punctual = FALSE
  MaxFaults = 1
SYMMETRY Replicas
INVARIANTS TypeOK AtMostOneLeader LeaderOwnsKey
PROPERTY JobsStartUnderLease
