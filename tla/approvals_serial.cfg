CONSTANTS
    ann = ann
    bob = bob
    cid = cid
    dee = dee
    kpi = kpi
    manager = manager
    owner = owner
    definition = definition
    EntityTypes = {definition}
    Entities = {kpi}
    TypeOf <- MCTypeOf
    None = None
    Roles = {manager, owner}
    Users = {ann, bob, cid}
    RoleOf <- MCRoleOf3
    Requests = {r1, r2}
    Calls = {c1}
    MaxEdits = 1
    MaxCrashes = 0
SPECIFICATION FairSpec
CHECK_DEADLOCK FALSE
PROPERTY ImplementsIntent ApprovedIsApplied
