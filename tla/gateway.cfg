SPECIFICATION FairSpec
CONSTANTS
    Requests = {r1}
    Limit = 2
    MaxFaults = 1
    None = None
INVARIANTS
    AnswerTellsOutcome
    OnlyItsHandlerRuns
    GoodRequestIsServed
PROPERTIES
    EveryRequestIsAnswered
