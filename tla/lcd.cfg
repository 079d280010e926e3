\* The loop or the driver, and any LCD to begin with.
SPECIFICATION Spec
CONSTANTS
  Columns = 3
  BLANK = 32
  Programs = {"loop", "driver"}
  Times <- MCTimes
  Measured <- MCMeasured
  LowIsLong = TRUE
  MaxFaults = 1
  Offsets = {0, 2}
  OldHalves = {0, 1, 2, 3, 4, 5, 6, 7, 8, 9, 10, 11, 12, 13, 14, 15}
  OldCell = 63
INVARIANTS DisplayTypeOK InStep ShowsText ReadsTrain
