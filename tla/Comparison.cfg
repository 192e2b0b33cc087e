SPECIFICATION ComparisonSpec
CONSTANTS
    Questions = {1, 2}
    Answers <- MCAnswers
    Default <- MCDefault
    Names <- MCNames
    Item <- MCItem
    Values <- MCValues
    Depth <- MCDepth
INVARIANT VerdictSound
