CONSTANTS
    Workers = 2
    Size = 3
    CALLS = 2
SPECIFICATION PoolFairSpec
INVARIANTS
    OwnAnswers
PROPERTIES
    InTimeAnswersCount
    MapEnds
