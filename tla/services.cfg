\* Small instances of each component; two requests or workers at a time.
CONSTANTS
    kpiA = kpiA
    kpiB = kpiB
    kpiC = kpiC
    Nodes = {kpiA, kpiB, kpiC}
    Graphs <- MCGraphs
    Workers = {w1, w2}
    Users = {u1}
    MaxInserts = 2
    MaxExtras = 1
    Clients = {c1, c2}
    MaxTokens = 3
    MaxCommands = 4
    Readers = {c1}
    Ttl = 2
    MaxTime = 4
    MaxWrites = 1
    Applicants = {c1, c2}
    Sections = {s1, s2}
    Slugs = {g1, g2}
    MaxDrafts = 5
    Managers = {c1, c2}
    Crons = {d1, d2}
    Renderers = {w1}
    MaxRequests = 3
    MaxRuns = 2
    MaxFaults = 1
    Deliveries = {v1, v2}
    Posters = {w1, w2}
    Threshold = 2
    PostAttempts = 2
    MaxSwitches = 2
    MaxPostFaults = 1
    Streams = {c1, c2}
    watched = watched
    Subjects = {watched}
    Events <- MCEvents
    MaxOpens = 3
    MaxPublished = 2
    MaxOutages = 1
SPECIFICATION ServicesSpec
CHECK_DEADLOCK FALSE
INVARIANTS ServicesTypeOK FreshUnlessLost
INVARIANTS EndedChainsStayEnded OldPasswordSessionsEnd BlockedAreSignedOut
INVARIANTS StaleWithinLifetimes DroppedChangesAreSeen OrganizationFollowsDraft
INVARIANTS ScheduleFollowsReport StreamsGetEvents
PROPERTIES NeverOlder PropagationEnds DisabledForFailures
