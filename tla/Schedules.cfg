SPECIFICATION FairSpec
CONSTANTS
  p = p
  q = q
  c = c
  Schedules <- OneSchedule
  Times = {1, 2, 3}
  Local <- Clock
  Jumped <- LeftOut
  Due <- CronTimes
  Choice <- First
  Barred <- NoBlackouts
  Threshold = 2
  Tickers = {p, q}
  Callers = {c}
  MaxEvents = 1
  Ops <- AllRuns
  ScopesOf <- OneVm
  Limit <- OnceEach
INVARIANTS TypeOK OneOperationAtATime EndedRunsAreSettled
 
