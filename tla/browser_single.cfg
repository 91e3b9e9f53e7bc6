\* Two creates that overlap while the pool is empty.
CONSTANTS
  Creates = {r1, r2}
  Deletes = {}
  Uses = {}
  Types = {chromium}
  None = None
  MaxSessions = 2
  MaxCrashes = 0
SPECIFICATION Spec
SYMMETRY Symmetry
INVARIANTS OneBrowserPerType
