\* Two points and a NO_DATA scan can each raise an alert; one escalation level.
CONSTANTS
    r1 = r1
    p1 = p1
    p2 = p2
    None = None
    Rules = {r1}
    Points = {p1, p2}
    Breaches <- MCBreaches
    Alerts = {a1, a2}
    EvalWorkers = {w1}
    EscWorkers = {v1}
    MaxLevels = 1
    PolicySizes = {0, 1}
    MaxScans = 1
    MaxTrouble = 1
SPECIFICATION Spec
CHECK_DEADLOCK FALSE
INVARIANTS TypeOK OneAlertPerWindow OneAlertPerPoint
