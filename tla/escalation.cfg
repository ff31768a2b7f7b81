\* One alert, three levels, two escalation workers (two API processes).
CONSTANTS
    r1 = r1
    p1 = p1
    p2 = p2
    None = None
    Rules = {r1}
    Points = {p1}
    Breaches <- MCBreaches
    Alerts = {a1}
    EvalWorkers = {w1}
    EscWorkers = {v1, v2}
    MaxLevels = 3
    PolicySizes = {0, 1, 2, 3}
    MaxScans = 0
    MaxTrouble = 1
SPECIFICATION FairSpec
CHECK_DEADLOCK FALSE
INVARIANTS LevelsInOrder LevelFiresOnce AcknowledgeHalts
PROPERTY EscalationRuns
