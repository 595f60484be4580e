SPECIFICATION Spec
CONSTANTS
    f = f
    c = c
    x = x
    y = y
    Item = {f, c, x, y}
    Thread <- MCThread
    Turn <- MCTurn
    Phase <- MCPhase
    Parts = 2
    AskId = {3}
    MaxAhead = 2
INVARIANTS
    TurnIsWhatWasSaid
    FailsForCause
PROPERTIES
    BridgeEnds
