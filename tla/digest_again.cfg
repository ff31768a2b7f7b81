\* Fewer users than the queue keeps finished jobs.
CONSTANTS
    Users = {u1, u2}
    Kept = 3
    MaxAlerts = 2
    MaxHiccups = 1
SPECIFICATION Spec
CHECK_DEADLOCK FALSE
INVARIANT CallsCollapseOntoScheduled
