\* The reproduction command of a report: the same check with the same key again.
SPECIFICATION Spec
CONSTANTS
    N = 2
    MaxAttempts = 2
    Transient = {409, 429, 503}
    MaxFaults = 0
    MaxBurstFaults = 0
INVARIANT
    RerunReproducesFailure
