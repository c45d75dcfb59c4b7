SPECIFICATION SlotsSpec
CONSTANTS
    None = None
    Process = {p1, p2}  Login = {n}  Key = {k1, k2}  Subject = {m1, f1}  IsModel = {m1}
    Path = {x}  PathOf <- OnlyPath  Content = {d1, d2}  Signer = {sg}  Ring <- Keyrings
    CacheSize = 1
    Conn = {c1, c2}  Slot = {s1, s2}  Storage = {st}  Compute = {ca, cb}  Advert = {a1, a2}
    Model = {mo}  ModelOf <- OneModel  SourceOf <- TwoSources  MaxPerSource = 1  Span = 4
    MaxBoot = 2
    Executor = {1, 2, 3}  Cell = {1, 2}  Layer = {1, 2}  LayerOf <- OwnLayer
    Order <- ByNumber  Capacity <- RoomForTwo  Keep = 1
    Donor = {1, 2, 3, 4}  Slice = {"a", "b", "c"}
    Machine = {1, 2, 3}  Client = {1, 2, 3}  MaxRows = 2
    Proc = {c1, c2}  Thread = {c1, c2}  ProcOf <- Itself  Block = {1}  Root = {"r", "s"}
    MaxFaults = 1
    Version = {1, 2}  IsDonor = FALSE  HaveKey = TRUE  Trust = TRUE  MaxEdits = 3
    Loader = {1, 2}  Piece = {1, 2, 3}  Slots = 2  Good = {1, 2}
SYMMETRY Symmetry
INVARIANT ControlIsOpen
