\* Two requests and two replay attempts, twice with the same key, on the safe
\* and on the unsafe endpoint, with up to three disturbed requests of a
\* sequential check and two of a burst.
SPECIFICATION Spec
CONSTANTS
    N = 2
    MaxAttempts = 2
    Transient = {409, 429, 503}
    MaxFaults = 3
    MaxBurstFaults = 2
INVARIANTS
    TypeOK
    FailMeansTwoOrders
    VerdictCountsOrders
    PassHidesOnlyRepeats
    SequentialLooksIdempotent
    NoOrderVanishes
