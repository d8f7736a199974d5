SPECIFICATION FairSpec
CONSTANTS
  Accounts = {a1}
  Texts = {t1, t2}
  NetworkOf <- MCNetworkOf
  GapOf <- MCGapOf
  TailorOf <- MCTailorOf
  Drip = 2
  RepostGap = 2
  Day = 2
  MaxPerDay = 2
  Horizon = 2
  MaxEntries = 2
  Schedulers = {daemon}
  People = {cli}
  Lead = 1
  Uses = {{"paced"}}
  MaxForced = 0
  MaxLag = 0
  MaxOdd = 0
PROPERTIES DueIsSent
CHECK_DEADLOCK FALSE
