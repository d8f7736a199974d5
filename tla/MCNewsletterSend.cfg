SPECIFICATION Spec
CONSTANTS
  Contacts = {c1, c2}
  Lists = {"everyone"}
  Members <- MCMembers
  Runs = {cli, daemon}
  Daemons = {daemon}
  Procs = {cli, daemon}
  ProcOf <- MCProcOf
  Nobody = Nobody
  BatchSize = 2
  Cap = 1
  Limits = {}
  Times = {"never", "now"}
  Sessions = {"out"}
  Leavers = {}
  OtherMail = FALSE
  Caps = {1, 2}
  MaxBeside = 1
  MaxDenials = 1
  MaxAsks = 1
  MaxCrashes = 1
SYMMETRY Symmetry
INVARIANTS CapHonoured NobodyTwice NotTakenUnlessRecorded AnnouncedOnce
PROPERTIES SentMeansEveryoneHadATurn KeepsThePromise
CHECK_DEADLOCK FALSE
