SPECIFICATION Spec
CONSTANTS
    Confirmers = {c1}
    HealthWaiters = {h1}
    Timeout = 4
    Interval = 1
    Latency = 1
    Lag = 1
    MaxStart = 0
INVARIANTS TypeOK ConfirmationStable NoMissedSettlement ReturnsInTime
PROPERTY ImplementsConfirmation
