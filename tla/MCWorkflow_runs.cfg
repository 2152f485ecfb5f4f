SPECIFICATION FairSpec
CONSTANTS
    c1 = c1
    c2 = c2
    NoWord = NoWord
    Drivers = {c1, c2}
    Workflows <- TwoWorkflows
    Menu <- OneEach
    Keywords = {"done"}
    MaxRetained = 1
    MaxRuns = 2
INVARIANTS ExecutingRunIsKept RecordFitsDefinition
PROPERTIES TerminalIsFinal RunEnds
CHECK_DEADLOCK FALSE
