------------------------- MODULE MCVmActionSchedules -------------------------
(* A small instance of VmActionSchedules for TLC.                           *)
EXTENDS VmActionSchedules, TLC

CONSTANTS p, q, c

OneSchedule == {1}
\* the clock is set forward before the first minute and back after it
Clock       == <<2, 2, 3>>
LeftOut     == <<{1}, {}, {}>>
CronTimes   == <<{1, 2}>>
First       == <<"first">>
NoBlackouts == <<{}>>
AllRuns     == Schedules \X Slots
OneVm       == [r \in Ops |-> {r[1]}]
OnceEach    == [r \in Ops |-> 1]
=============================================================================
