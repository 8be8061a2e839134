SPECIFICATION JobsFairSpec
CONSTANTS
  a = a
  b = b
  Nodes <- TwoNodes
  Ttl = 5
  Margin = 1
  Interval = 2
  Timeout = 1
  Punctual = TRUE
  MaxFaults = 1
PROPERTIES LeaderIsStable SomeoneLeads CallersAreAnswered
