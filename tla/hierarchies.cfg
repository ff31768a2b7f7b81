\* Three KPIs, units or objectives; two requests at a time.
CONSTANTS
    KPIs = {k1, k2, k3}
    Callers = {c1, c2}
    MaxOps = 4
    Units = {k1, k2, k3}
    People = {p1}
    Editors = {c1, c2}
    NoUnit = NoUnit
    MaxEdits = 3
    Objectives = {k1, k2, k3}
    r1 = r1
    r2 = r2
    KeyResults = {r1, r2}
    Measures <- MCMeasures
    Updates <- MCUpdates
    Currents = {0, 1}
    Linked = {r2}
    Planners = {c1, c2}
    None = None
    MaxRollupDepth = 10
    MaxChanges = 2
SPECIFICATION HierarchiesSpec
CHECK_DEADLOCK FALSE
SYMMETRY HierarchySymmetry
INVARIANTS HierarchiesTypeOK AcyclicUnlessRaced ComputesDepths LevelsAreDepths
INVARIANTS HierarchyIsForest EveryoneKeepsAUnit ProgressFollowsResults
