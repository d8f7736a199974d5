SPECIFICATION Spec
CONSTANTS
  Messages = {m1, m2}
  NoMessage = NoMessage
  Procs = {p1, p2}
  Limit = 1
  Acts = {"cancel"}
  MaxFaults = 1
SYMMETRY Symmetry
INVARIANTS SentOnce CapHonoured
PROPERTIES ReceiptIsFinal KeepsThePromise
CHECK_DEADLOCK FALSE
