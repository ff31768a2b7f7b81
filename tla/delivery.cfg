\* One delivery, two attempts at once, the real number of retries.
CONSTANTS
    Deliveries = {d1}
    Callers = {c1, c2}
    MaxRetries = 3
    MaxManual = 1
    MaxHiccups = 1
    MaxCrashes = 1
SPECIFICATION FairSpec
CHECK_DEADLOCK FALSE
INVARIANTS TypeOK ChainsBounded AttemptsBounded SentOnce
PROPERTIES RetriedUntilSettled ImplementsIntent
