\* One worker, nobody asks for recomputes, nothing fails.
CONSTANTS
    kpiA = kpiA
    kpiB = kpiB
    kpiC = kpiC
    Nodes = {kpiA, kpiB, kpiC}
    Graphs <- MCPlainGraphs
    Workers = {w1}
    Users = {u1}
    MaxInserts = 2
    MaxExtras = 0
SPECIFICATION EngineSpec
CHECK_DEADLOCK FALSE
INVARIANT LaterChangeSeen
