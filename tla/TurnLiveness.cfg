SPECIFICATION FairProviderSpec
CONSTANTS
    Turn = {a1, a2}
    Reset = {r}
    Key = {A}
    Chat = {C}
    a1 = a1
    a2 = a2
    r = r
    b = b
    A = A
    B = B
    C = C
    KeyOf <- MCKeyOf
    ChatOf <- MCChatOf
    NoId = NoId
    MaxUnread = 1
CONSTRAINT TwoTasks
PROPERTIES
    TasksEnd
    RegistryDrains
