SPECIFICATION Spec
CONSTANTS
    Ids = {i1, i2}
    NoId = NoId
    NoToken = NoToken
    Torn = Torn
    Workers = {w1}
    Lifetimes = {1}
    Grace = 2
    MaxAge = 3
    MaxStray = 1
INVARIANTS
    TypeOK
    TokenMatchesInstall
    DeactivateGivesUp
PROPERTIES
    AuthorisationEnds
