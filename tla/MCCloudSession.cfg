SPECIFICATION Spec
CONSTANTS
  Procs = {cli, daemon}
  Daemons = {daemon}
  Nobody = Nobody
  MaxLogins = 2
  MaxTurns = 1
  MaxFaults = 1
INVARIANTS RotationSerialized ReuseOnlyAfterLoss SignedOutStaysOut
CHECK_DEADLOCK FALSE
