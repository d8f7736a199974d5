SPECIFICATION FairSpec
CONSTANTS
  Procs = {cli, daemon}
  Daemons = {daemon}
  Nobody = Nobody
  MaxLogins = 1
  MaxTurns = 1
  MaxFaults = 1
PROPERTIES RevokedIsNoticed
CHECK_DEADLOCK FALSE
