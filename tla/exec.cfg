\* Every language on every route, timeouts below, at and above the default and the cap.
CONSTANTS
  Languages = {"python", "node", "bash", "c", "cpp", "assembly", "java", "rust", "csharp", "dotnet", "cobol"}
  Timeouts = {0, 1, 3, 9}
  None = None
  DefaultTimeout = 2
  MaxTimeout = 4
  SyncLimit = 4
  McpLimit = 2
  ClientLimit = 6
SPECIFICATION FairSpec
INVARIANTS TypeOK OneBudget SuccessMeansExited EndedJobIsQuiet SameBudgetOnEveryRoute DisabledTierIdle RoutedIsSupported
PROPERTIES EverythingEnds
