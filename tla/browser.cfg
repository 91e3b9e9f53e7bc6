\* Two creates at a cap of one, a delete, an action, a browser that dies, idle timers, a shutdown.
CONSTANTS
  Creates = {r1, r2}
  Deletes = {d1}
  Uses = {u1}
  Types = {chromium}
  None = None
  MaxSessions = 1
  MaxCrashes = 1
SPECIFICATION FairSpec
INVARIANTS TypeOK EntriesUsable EntriesExpire ContextsAccounted DeletedIsGone
PROPERTIES EverySessionExpires ImplementsSessions
