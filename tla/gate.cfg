SPECIFICATION Spec
CONSTANTS
    Tasks = {t1, t2}
    Signatures = {a, b}
    MaxAge = 1
    Skew = 1
    Margin = 3
    Interval = 1
    RateLimitCooldown = 2
    Permits = 2
    MaxLag = 1
    MaxTime = 6
INVARIANTS
    AtMostOneAttempt
    ClaimsMatchQueue
PROPERTIES
    AttemptIsFresh RequestsArePaced
SYMMETRY Symmetric
