\* One job running when the gateway is stopped.
CONSTANTS
  Jobs = {j1}
  Workers = {w1}
  Cancels = {}
  Nobody = Nobody
  MaxCrashes = 0
  MaxShutdowns = 1
  MaxLostWrites = 0
SPECIFICATION Spec
INVARIANTS StopFinishesInFlight
