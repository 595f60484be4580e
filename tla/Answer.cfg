SPECIFICATION RichSpec
CONSTANTS
    Limit = 4
    Answers <- MCAnswers
CHECK_DEADLOCK FALSE
INVARIANTS
    MessagesFit
    TextWhole
    FilesShownOrTold
