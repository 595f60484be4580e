SPECIFICATION Spec
CONSTANTS
    m1 = m1
    m2 = m2
    Message = {m1, m2}
    Arrivals <- MCArrivals
CHECK_DEADLOCK FALSE
INVARIANTS
    SubmittedRightly
    AttachmentIsOwn
