SPECIFICATION Spec
CONSTANTS
  Sessions = {s1, s2}
  Requests = {r1, r2}
  Leases = {l1}
  Epochs = {1}
  Routes = {1}
  Payloads = {p1}
  Shapes <- SmallShapes
  ZeroId = zero
  MaxSessions = 1
  HistorySlots = 1
  SeqMax = 2
  Positions = {0, 1}
  RowCounts = {1}
  Workers = {w1, w2}
  Reaper = reaper
  Nobody = nobody
  SlotIds = {1}
  OpenFrames <- SmallOpens
  RunFrames <- SmallRuns
  TransferFrames <- SmallTransfers
  CloseFrames <- Controls
  Chunks = 2
  RestoreIdle = 1
  Now = 1
SYMMETRY Symmetric
INVARIANTS HonestSnapshot
CHECK_DEADLOCK FALSE
