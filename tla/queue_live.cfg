\* Two jobs, two workers; the process crashes once and a later one opens the same
\* database.
CONSTANTS
  Jobs = {j1, j2}
  Workers = {w1, w2}
  Cancels = {}
  Nobody = Nobody
  MaxCrashes = 1
  MaxShutdowns = 0
  MaxLostWrites = 0
SPECIFICATION SupervisedSpec
PROPERTIES EveryJobSettles
