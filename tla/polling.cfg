\* Up to two minutes of two seconds.
SPECIFICATION FairSpec
CONSTANTS
  Minute = 2
  MaxMinutes = 2
INVARIANTS TypeOK
PROPERTIES PressCountsOnce KeepsPromise
