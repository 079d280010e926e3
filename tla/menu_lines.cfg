\* What the LCD shows after up and down.
SPECIFICATION Spec
CONSTANTS
  MaxItems = 5
  MaxList = 4
  Items <- FileItems
  NULL = NULL
  Documents <- AllMenus
  Room = 3
  Haste <- RushedHaste
INVARIANT LinesShowCurrent
CHECK_DEADLOCK FALSE
