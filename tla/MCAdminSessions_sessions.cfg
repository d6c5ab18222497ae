SPECIFICATION Spec
CONSTANTS
    Admins = {adm}
    Strangers = {}
    Addrs = {x1}
    Passwords = {p1, p2}
    NoPassword = NoPassword
    Workers = {q1, q2}
    FailureLimit = 1
    Window = 1
    SessionTTL = 0
    MaxSessions = 2
SYMMETRY WorkerSymmetry
INVARIANTS
    AnsweredIsAudited
    OnlyLateSessionsAreStale
