SPECIFICATION MCSpec
CONSTANTS Conns = {1, 2, 3}  PendingMax = 2  TicketMax = 2
          HostSlots = 1  HostConns = 2  HostTurns = 2  HostRev = 3  HostFaults = 2
          Keepers = {"donor", "crash", "hybrid"}  Preparations = {"plan", "window"}  Kind <- MCKind
          DonorAlloc = {"a", "b"}  DonorRam <- MCRam  DonorEdge <- MCEdge  DonorScoped = {"a", "b"}
          DonorTotal = 3  PlanDonors = {"a", "e"}  PlanEdge = "e"
          Links = {"channel", "pins"}  Lives = {"admit", "join"}  LinkThread = {1, 2}  LinkHost = {"h"}
          LinkCap = 1  LinkBudget = 1  LinkEntries = 1  LinkLearn = TRUE  LinkConns = 2
          s1 = s1  q1 = q1  l1 = l1  h1 = h1  zero = zero  w1 = w1  w2 = w2
          reaper = reaper  nobody = nobody
INVARIANTS KernelSound HostSound HomeSound ConnectionsSound
PROPERTIES Fifo AnswerIsKept ViewsMoveForward EverythingEnds
CHECK_DEADLOCK FALSE
