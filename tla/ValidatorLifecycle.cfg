SPECIFICATION FairSpec
CONSTANTS
    Lifecycles = {l1, l2}
    MaxContainers = 3
INVARIANTS TypeOK OwnedUnlessFailed ReadyIsOwn
PROPERTY BodyCleansUp
