SPECIFICATION FairSpec
CONSTANTS
    FirstId = 1
    MaxRequests = 3
    MaxNotes = 3
    MaxCount = 2
INVARIANTS TypeOK AnswersAccounted InStep NoSilentLoss
PROPERTY CloseEnds
