SPECIFICATION SSpec
CONSTANTS
    n1 = n1
    s1 = s1
    s2 = s2
    t1 = t1
    t2 = t2
    t3 = t3
    r1 = r1
    Nothing = Nothing
    Name = {n1}
    Secret = {s1, s2}
    Role = {1, 3}
    Admin = 3
    Ttl = {1, 2}
    Token = {t1, t2, t3}
    Request = {r1}
    MaxSessions = 2
    Files <- SomeFiles
    MaxClock = 1
SYMMETRY SessionSymmetry
INVARIANTS
    ServedByLiveKey
PROPERTIES
    SessionsEndInOrder
