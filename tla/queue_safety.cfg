\* Two jobs, two workers that race for them and for the write lock, a cancel;
\* the gateway is stopped once, with or without draining, and started again, and
\* one result may be lost.
CONSTANTS
  Jobs = {j1, j2}
  Workers = {w1, w2}
  Cancels = {c1}
  Nobody = Nobody
  MaxCrashes = 0
  MaxShutdowns = 1
  MaxLostWrites = 1
SPECIFICATION Spec
SYMMETRY Symmetry
INVARIANTS TypeOK RowsAgree AtMostOnce ExclusiveOwner AnswersHold BoundedOrphans
PROPERTIES FinishedIsFinal CancelledBeforeStart ImplementsLifecycle
