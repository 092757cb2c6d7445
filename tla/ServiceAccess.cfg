SPECIFICATION FairSpec
CONSTANTS
  Users = {u1}
  Unlinked = {s1}
  Requests = {r1, r2}
  Syncs = {y1, y2}
  MaxChanges = 2
INVARIANTS
  SessionsAreCut
PROPERTIES
  SyncReconciles
