SPECIFICATION Spec
CONSTANTS
    Turn = {a1, a2, b}
    Reset = {r}
    Key = {A, B}
    Chat = {C}
    a1 = a1
    a2 = a2
    r = r
    b = b
    A = A
    B = B
    C = C
    KeyOf <- MCKeyOf
    ChatOf <- MCChatOf
    NoId = NoId
    MaxUnread = 1
CONSTRAINT OneTopicOrTwo
INVARIANTS
    SessionsChain
    NoResurrection
    SilencedOnRequest
    ReachableByAbort
PROPERTIES
    ObservedIdKept
    ImplementsTopicTurns
