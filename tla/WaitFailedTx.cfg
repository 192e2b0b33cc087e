SPECIFICATION Spec
CONSTANTS
    Confirmers = {c1}
    HealthWaiters = {}
    Timeout = 3
    Interval = 2
    Latency = 2
    Lag = 1
    MaxStart = 0
INVARIANT ConfirmedMeansSucceeded
