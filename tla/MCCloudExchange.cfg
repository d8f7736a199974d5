SPECIFICATION Spec
CONSTANTS
  w1 = w1
  w2 = w2
  u1 = u1
  m1 = m1
  m2 = m2
  a1 = a1
  x1 = x1
  x2 = x2
  y1 = y1
  Workers = {w1, w2}
  MaxFaults = 1
  Requests = {r1}
  Users = {u1}
  Networks = {n1, n2}
  UserOf <- MCUserOf
  MaxSharers = 1
  PerDay = 1
  Machines = {m1, m2}
  MachineOf <- MCMachineOf
  Accounts = {a1, a2}
  Contents = {c1, c2}
  Retries = 1
  MaxSaves = 3
  People = {p1, p2}
  PageSize = 1
  MaxPresses = 3
  Mails = {x1, x2, y1}
  InstallOf <- MCInstallOf
  DailyCap = 2
  Attempts = 2
  Posts = {q1, q2}
SYMMETRY MCSymmetry
INVARIANTS SharedOnce LimitsHeld NewestPressCounts DailyCapHeld HostedOnce
PROPERTIES NothingLost EditsKept
CHECK_DEADLOCK FALSE
