\* Two creates that overlap at a cap of one.
CONSTANTS
  Creates = {r1, r2}
  Deletes = {}
  Uses = {}
  Types = {chromium}
  None = None
  MaxSessions = 1
  MaxCrashes = 0
SPECIFICATION Spec
SYMMETRY Symmetry
INVARIANTS SessionCap
