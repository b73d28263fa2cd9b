SPECIFICATION Spec
CONSTANTS
    len = 4
    MaxSupply = 6
    Sizes = {1, 2, 3}
INVARIANTS TypeOK RepeatableReads AnswersAreRight
