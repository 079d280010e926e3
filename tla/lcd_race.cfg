\* A thread per line.
SPECIFICATION Spec
CONSTANTS
  Columns = 3
  BLANK = 32
  Programs = {"threads"}
  Times <- MCTimes
  Measured <- DHT11
  LowIsLong = TRUE
  MaxFaults = 0
  Offsets = {0, 1}
  OldHalves = {0}
  OldCell = 63
INVARIANT ShowsText
