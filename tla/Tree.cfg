SPECIFICATION Spec
CONSTANTS
    Process = {a, b, c, lead, self}
    Lead = lead
    Self = self
    Nobody = Nobody
SYMMETRY Symmetry
CHECK_DEADLOCK FALSE
INVARIANTS
    BroughtDown
