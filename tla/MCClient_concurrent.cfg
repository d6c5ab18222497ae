SPECIFICATION Spec
CONSTANTS
    Ids = {i1, i2}
    NoId = NoId
    NoToken = NoToken
    Torn = Torn
    Workers = {w1, w2}
    Lifetimes = {1, 3}
    Grace = 2
    MaxAge = 4
    MaxStray = 0
SYMMETRY Interchangeable
INVARIANTS
    AuthorisedOnlyRecently
