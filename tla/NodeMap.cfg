SPECIFICATION MapSpec
CONSTANTS
    AstSize = 3
    ResolvedSize = 3
    Ranges = {outer, left, right}
    NoRange = NoRange
    Panic = Panic
CHECK_DEADLOCK FALSE
INVARIANTS AnswerIsNearest PanicsOnlyAtNil RoundTrip
