SPECIFICATION Spec
CONSTANTS
    w1 = w1
    w2 = w2
    a1 = a1
    a2 = a2
    lms = lms
    Workers = {w1, w2}
    Admins = {a1}
    Scopes = {"meeting:write"}
    Remotes = {lms}
    TokenTtl = 1
    Minute = 2
    BucketTtl = 2
    MaxExchanges = 1
    MaxTime = 3
    MaxSecrets = 2
SYMMETRY WorkerSymmetry
INVARIANTS
    TokensAreOfTheCurrentSecret
    ExchangesAreLimited
