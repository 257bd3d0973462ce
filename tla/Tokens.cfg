SPECIFICATION Spec
CONSTANTS
    c1 = c1
    c2 = c2
    a1 = a1
    a2 = a2
    Callers = {c1, c2}
    Admins = {a1}
    Usernames = {"u1"}
    Lifetimes = {2, 3}
    NoExpiry = NoExpiry
    Skew = 2
    OpaqueTtl = 1
    Lease = 1
    FormsAlone = TRUE
    MaxTime = 2
    MaxPasswords = 2
    MaxLogins = 2
SYMMETRY CallerSymmetry
INVARIANTS
    ServedTokenIsOfTheAccount
    RetryUsesNewLogin
    OneLoginPerLease
PROPERTIES
    ReturnedTokenIsValid
