SPECIFICATION FairSpec
CONSTANTS
    Calls = {c1, c2}
    MaxRetries = 1
    BatchSize = 2
INVARIANTS TypeOK ReexecutedOnlyAfterLoss BudgetSpent IdsDistinct BatchInOrder
PROPERTY CallsEnd
