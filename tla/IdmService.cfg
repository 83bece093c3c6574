SPECIFICATION Spec
CONSTANTS
  Users = {u1}
  Accounts = {u1, u2}
  MaxContexts = 3
  Budget = 2
INVARIANTS SuccessorNotCancelled NoOrphanTemplate UpdateAnnouncedTruly PinCountPublished CacheOfCurrentUser
CHECK_DEADLOCK FALSE
