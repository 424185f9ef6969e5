\* Every billing mode, with and without a change; each limit is within reach.
SPECIFICATION LoopSpec
CONSTANTS
    MaxTurns = 5
    MaxTools = 4
    MaxPython = 2
    MaxRequest = 9
    MaxTranscript = 10
    MaxCost = 3
    Costs = {0, 2}
    MaxToolCalls = 2
INVARIANTS
    SpendingBounded
    OneStrike
    AccountKept
PROPERTY
    ConversationEnds
CHECK_DEADLOCK FALSE
