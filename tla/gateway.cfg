\* Three requests that may have the same key: every way to be refused or answered.
CONSTANTS
  Requests = {r1, r2, r3}
  r1 = r1
  r2 = r2
  r3 = r3
  k = k
  far = far
  u1 = u1
  u2 = u2
  u3 = u3
  Ids <- MCIds
  Keys = {k, far}
  Loopback = {k}
  None = None
  Limit <- MCLimit
  Window = 1
  MaxTime = 1
  Defaults <- MCDefaults
  ExecTool = "search"
  Services = {"files", "search"}
  Asks <- MCAsks
  Configs <- MCConfigs
  Ports = {8080, 9090}
  Expiries = {0, None}
  MaxFaults = 1
CHECK_DEADLOCK FALSE
SPECIFICATION FairSpec
INVARIANTS TypeOK RateBound RefusalsAreEarned AnswersTellTheWork ReferencesHold OneRowPerName
PROPERTIES EveryRequestEnds ComesBack
