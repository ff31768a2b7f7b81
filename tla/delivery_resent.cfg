\* Two attempts of one delivery overlap: a retry job and a manual retry.
CONSTANTS
    Deliveries = {d1}
    Callers = {c1, c2}
    MaxRetries = 3
    MaxManual = 1
    MaxHiccups = 0
    MaxCrashes = 0
SPECIFICATION Spec
CHECK_DEADLOCK FALSE
PROPERTY SentIsFinal
