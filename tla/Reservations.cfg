SPECIFICATION Spec
CONSTANTS
  web = web
  db = db
  r1 = r1
  r2 = r2
  e1 = e1
  e2 = e2
  p1 = p1
  stack = stack
  single = single
  NoOne = NoOne
  Names <- TwoNames
  Replacers <- TwoReplacements
  Egressers <- TwoEgressOps
  Pruners <- OnePrune
  Target <- TargetWeb
  Policies <- TwoPolicies
  Covers <- StackScope
  Rank <- RankOf
  LateCalls = {"reserve", "create", "start", "remove", "reclaim", "homeward", "reconnect", "repolicy", "sweep"}
  MaxFaults = 2
CONSTRAINT InCast
SYMMETRY Symmetric
INVARIANTS TypeOK ReservationsExcludePrune OneWriter OriginalSurvives RecoveryIsAccounted   ReportedIsEnforced NoMutualRefusal
CHECK_DEADLOCK FALSE
