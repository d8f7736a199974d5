SPECIFICATION Spec
CONSTANTS
  Accounts = {a1, a2}
  Texts = {t1, t2}
  NetworkOf <- MCNetworkOf
  GapOf <- MCGapOf
  TailorOf <- MCTailorOf
  Drip = 2
  RepostGap = 2
  Day = 3
  MaxPerDay = 1
  Horizon = 3
  MaxEntries = 2
  Schedulers = {daemon}
  People = {cli}
  Lead = 1
  Uses <- MCUses
  MaxForced = 1
  MaxLag = 0
  MaxOdd = 1
SYMMETRY MCSymmetry
PROPERTIES GapKept CapKept NoRepeat OncePerEntry ArchivedGetsNothing RoomIsMade
CHECK_DEADLOCK FALSE
