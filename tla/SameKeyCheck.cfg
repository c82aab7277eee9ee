\* Every same-key check with three requests and three replay attempts, under the
\* default safe-retry policy.
SPECIFICATION Spec
CONSTANTS
    b1 = b1
    b2 = b2
    Bodies <- MCBodies
    Fingerprints <- MCFingerprints
    Transient = {409, 429, 503}
    N = 3
    MaxAttempts = 3
INVARIANTS
    TypeOK
    ErrorMeansUnanswered
    FailIsProven
    DivergenceIsReported
    PassIsEarned
    EvidenceAddsUp
PROPERTIES
    CancelledBurstNeverPasses
    ImplementsCheckReport
    Terminates
