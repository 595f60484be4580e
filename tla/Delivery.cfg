SPECIFICATION RunSpec
CONSTANTS
    MaxEvents = 3
    Chunks = 3
    NoMsg = NoMsg
    Emoji = {thinking, reading}
    Thinking = thinking
    NoEmoji = NoEmoji
INVARIANTS
    AnswerReplacesProgress
    OneProgressMessage
    RenderCacheTrue
    AnswerInOrder
    ReactionInOrder
PROPERTIES
    RunEnds
