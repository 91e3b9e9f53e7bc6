\* One job, claimed before Submit counts its position.
CONSTANTS
  Jobs = {j1}
  Workers = {w1}
  Cancels = {}
  Nobody = Nobody
  MaxCrashes = 0
  MaxShutdowns = 0
  MaxLostWrites = 0
SPECIFICATION Spec
INVARIANTS PositionIsOneBased
