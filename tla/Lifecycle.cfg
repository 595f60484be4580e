SPECIFICATION Spec
CONSTANTS
    Proc = {g1, g2}
    Ctl = {s}
    Nobody = Nobody
    Service = TRUE
    PidReuse = TRUE
CHECK_DEADLOCK FALSE
INVARIANTS
    LockHolds
    
PROPERTIES
    CommandsEnd
    UnitComesBack
