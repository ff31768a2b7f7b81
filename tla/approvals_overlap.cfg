CONSTANTS
    ann = ann
    bob = bob
    cid = cid
    dee = dee
    kpi = kpi
    manager = manager
    owner = owner
    definition = definition
    EntityTypes = {definition}
    Entities = {kpi}
    TypeOf <- MCTypeOf
    None = None
    Roles = {manager, owner}
    Users = {ann, bob, cid}
    RoleOf <- MCRoleOf3
    Requests = {r1}
    Calls = {c1, c2}
    MaxEdits = 2
    MaxCrashes = 1
SPECIFICATION Spec
CHECK_DEADLOCK FALSE
INVARIANTS TypeOK DecidersEligible StatusMatchesDecisions ReplayHasGrounds AppliedWasApproved
SYMMETRY CallSymmetry
