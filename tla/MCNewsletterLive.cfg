SPECIFICATION FairSpec
CONSTANTS
  Contacts = {c1, c2}
  Lists = {"everyone"}
  Members <- MCMembers
  Runs = {cli, daemon}
  Daemons = {daemon}
  Procs = {cli, daemon}
  ProcOf <- MCProcOf
  Nobody = Nobody
  BatchSize = 2
  Cap = 1
  Limits = {1}
  Times = {"never", "later", "now"}
  Sessions = {"in"}
  Leavers = {}
  OtherMail = FALSE
  Caps = {1}
  MaxBeside = 0
  MaxDenials = 0
  MaxAsks = 0
  MaxCrashes = 1
PROPERTIES ScheduledIssueReachesEveryone
CHECK_DEADLOCK FALSE
