SPECIFICATION Spec
CONSTANTS
    Admins = {adm}
    Strangers = {eve}
    Addrs = {x1}
    Passwords = {p1, p2}
    NoPassword = NoPassword
    Workers = {q1, q2}
    FailureLimit = 2
    Window = 2
    SessionTTL = 0
    MaxSessions = 1
INVARIANTS
    TypeOK
    FailuresBounded
PROPERTIES
    LockoutEnds
