SPECIFICATION FairSpec
CONSTANTS
    Runs = 2
    Fee = 1
    PollsPer = 2
    MaxSlot = 2
    Counts = {0, 1}
    MaxSteps = 8
    Scripts <- MCScripts
INVARIANTS RunMatchesIdeal StepsAccounted DiffShowsScenario
PROPERTY RunEnds
