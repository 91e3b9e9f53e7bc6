\* One job, cancelled while it runs.
CONSTANTS
  Jobs = {j1}
  Workers = {w1}
  Cancels = {c1}
  Nobody = Nobody
  MaxCrashes = 0
  MaxShutdowns = 0
  MaxLostWrites = 0
SPECIFICATION Spec
PROPERTIES TerminalIsFinal
