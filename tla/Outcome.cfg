SPECIFICATION OutcomeSpec
CONSTANT MaxLines = 5
CHECK_DEADLOCK FALSE
INVARIANTS
    CodexFailureTold
    PassedOn
PROPERTIES
    AnswerKept
