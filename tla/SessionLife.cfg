SPECIFICATION Spec
CONSTANTS
    Update = {m1, m2}
    Key = {A, B}
    A = A
    B = B
    KeyOf <- MCKeyOf
    NoId = NoId
INVARIANTS
    SessionsFit
    SubmittedOnce
PROPERTIES
    NewOnlyIfUnfit
    ForgottenOnPurpose
