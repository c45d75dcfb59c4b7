SPECIFICATION Spec
CONSTANTS
  Sessions = {s1}
  Requests = {r1, r2}
  Leases = {l1}
  Epochs = {1}
  Routes = {1, 2}
  Payloads = {p1}
  Shapes <- SmallShapes
  ZeroId = zero
  MaxSessions = 1
  HistorySlots = 2
  SeqMax = 2
  Positions = {0, 1, 2}
  RowCounts = {1}
  MaxNow = 1
SYMMETRY Symmetric
INVARIANTS TableSound AtMostOnce TranscriptChained ReplayIsExact
PROPERTIES SessionsAdvance
CHECK_DEADLOCK FALSE
