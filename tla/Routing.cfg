SPECIFICATION Spec
CONSTANTS
    t1 = t1
    t2 = t2
    n1 = n1
    n2 = n2
    m1 = m1
    m2 = m2
    d1 = d1
    d2 = d2
    None = None
    Topic = {t1, t2}
    Name = {n1, n2}
    Turn = {m1, m2}
    TopicOf <- MCTopicOf
    Roots <- MCRoots
INVARIANTS
    NameLasts
PROPERTIES
    NeverFallsBack
