\* Three jobs on two channels, an operator who pauses, reviews and recovers, and a clock.
SPECIFICATION PaidSpec
CONSTANTS
  a = a
  b = b
  wa = wa
  wb = wb
  Jobs = {1, 2, 3}
  Channels = {a, b}
  Works = {wa, wb}
  Layer <- TheLayer
  Work <- TheWork
  CatchUps = {3}
  Slot <- TheSlot
  Allowance <- TheAllowance
  Grace = 1
  Overrun = 0
  Interval = 3
  Day = 3
  Daily = 1
  MaxStarts = 2
  MaxSeconds = 5
  Permitted = 2
  ReviewLife = 3
  Tries = 2
  Lossy = TRUE
  MaxTime = 4
  NoJob = NoJob
CONSTRAINTS FewFaults FirstFirst
INVARIANTS OneProducer WithinLimits OncePerWork CatchUpsYield
PROPERTIES PauseHolds RecoversStopped
CHECK_DEADLOCK FALSE
