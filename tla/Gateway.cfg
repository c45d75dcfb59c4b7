SPECIFICATION MCSpec
CONSTANTS
    k1 = k1  k2 = k2  k3 = k3  k4 = k4  k5 = k5  p1 = p1  p2 = p2
    Sessions = {k1, k2, k3, k4, k5}
    MaxSessions = 3
    Hash <- MCHash
    EMPTY = EMPTY  TOMBSTONE = TOMBSTONE  NoBucket = NoBucket  None = None
INVARIANTS RequestsSound PoliciesSound PlacementSound EvidenceSound 
PROPERTIES SharedIsKept
CHECK_DEADLOCK FALSE
