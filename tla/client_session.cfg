SPECIFICATION Spec
CONSTANTS
    t1 = t1
    t2 = t2
    c1 = c1
    c2 = c2
    k1 = k1
    k2 = k2
    k3 = k3
    None = None
    Tabs = {t1, t2}
    Calls = {c1, c2}
    Tokens = {k1, k2, k3}
    MaxRequests = 2
    MaxCauses = 1
SYMMETRY Symmetric
CHECK_DEADLOCK FALSE
INVARIANTS
    TypeOK
    SingleFlight
    CookieUsable

    
