SPECIFICATION InstrumentedSpec
CONSTANTS
    Calls = {c1, c2}
    MaxRetries = 1
    BatchSize = 1
    Methods = {m1, m2}
    MaxRecords = 1
INVARIANTS TablesOK StatisticsMatch RecordsMatch ErrorsMatch
SYMMETRY Symmetry
VIEW Seen
