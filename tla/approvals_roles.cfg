CONSTANTS
    ann = ann
    bob = bob
    cid = cid
    dee = dee
    kpi = kpi
    manager = manager
    owner = owner
    definition = definition
    EntityTypes = {definition}
    Entities = {kpi}
    TypeOf <- MCTypeOf
    None = None
    Roles = {manager, owner}
    Users = {ann, bob, cid, dee}
    RoleOf <- MCRoleOf
    Requests = {r1}
    Calls = {c1}
    MaxEdits = 1
    MaxCrashes = 0
SPECIFICATION Spec
CHECK_DEADLOCK FALSE
INVARIANT EveryRequiredRoleApproved
