SPECIFICATION FairSpec
CONSTANTS
    Deployers = {d1, d2}
    Chunks = 3
    Batch = 2
INVARIANTS TypeOK WithinBlockBudget StagesInOrder DeployedUnlessFailureHidden
PROPERTY DeployEnds
