\* Three requests at once on a sandbox that starts empty or with one file; one fault.
CONSTANTS
  Requests = {r1, r2, r3}
  r1 = r1
  r2 = r2
  r3 = r3
  Seeds = {s}
  Names = {a, b}
  a = a
  b = b
  None = None
  Top = Top
  Root = Root
  Dot = Dot
  Slash = Slash
  Up = Up
  Bodies <- MCBodies
  MaxFile = 2
  MaxFaults = 1
  Depth = 3
CHECK_DEADLOCK FALSE
SPECIFICATION Spec
INVARIANTS TypeOK BlendsNeedOverlap AnsweredWritesStay AnswersWereTrue ListsAreRegular
PROPERTIES FilesAreKept
