SPECIFICATION Spec
CONSTANTS
  Contacts = {c1, c2}
  Lists = {"everyone", "few"}
  Members <- MCMembers
  Runs = {cli, daemon}
  Daemons = {daemon}
  Procs = {cli, daemon}
  ProcOf <- MCProcOf
  Nobody = Nobody
  BatchSize = 1
  Cap = 2
  Limits = {1}
  Times = {"never", "later", "now"}
  Sessions = {"in", "expired"}
  Leavers = {c1, c2}
  OtherMail = TRUE
  Caps = {2}
  MaxBeside = 0
  MaxDenials = 0
  MaxAsks = 0
  MaxCrashes = 0
INVARIANTS NobodyWhoHadLeft
CHECK_DEADLOCK FALSE
