SPECIFICATION MCSpec
CONSTANTS
    Threads = {t1, t2, t3, t4}
    Capacity = 1
    MaxQueue = 2
INVARIANTS GateSound
PROPERTIES FirstComeFirstServed EveryWaiterAnswered RetirementEnds
