SPECIFICATION MCSpec
CONSTANTS Keepers = {k1, k2}  SessionSlots = {s1}  MaxExperts = 1  RevMax = 4  MaxInstance = 2
          Kind <- MCKind
          Relays = {"boxes", "slots"}  RelayPeer = {p1, p2}  RelayConn = {c1, c2}  RelayWanted <- MCWanted
          RelayInflight = 1  RelayConcurrency = 1  RelayConnects = 2
          Call = {1, 2, 3}  Relayed = {3}  Source = {"a", "r"}  SourceOf <- MCSource
          Expert = {"x", "y"}  ExpertOf <- MCExpert  CacheSlot = {1}
          NodeCompute = 1  NodeWaiters = 1  NodeTickets = 1
          Rounds = {"round", "home", "fed"}  RoundPeer = {p1, p2}  Liar = {p2}  PoolMax = 1  Strikes = 2
          MaxWaits = 1  Probes = 1  MaxRounds = 2
          None = None  p1 = p1  p2 = p2  c1 = c1  c2 = c2  rr = rr  rs = rs  re = re  rt = rt
INVARIANTS ControlSound CallSound
PROPERTIES SealIsFinal EveryCallEnds
CHECK_DEADLOCK FALSE
