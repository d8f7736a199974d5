SPECIFICATION FairSpec
CONSTANTS
  Messages = {m1}
  NoMessage = NoMessage
  Procs = {p1, p2}
  Limit = 1
  Acts = {"cancel", "pause", "suppress"}
  MaxFaults = 1
PROPERTIES WaitersReturn
CHECK_DEADLOCK FALSE
