SPECIFICATION FairSpec
CONSTANTS
  Procs = {p1, p2}
  NoProc = NoProc
  Commands = {send, daemon}
  Foreign = Foreign
  MaxTries = 3
  MaxDeaths = 2
INVARIANTS OnlyRobberyAdmitsTwo NoLockLeftBehind
PROPERTIES StaleLockIsCleared IsOneHolder
CHECK_DEADLOCK FALSE
