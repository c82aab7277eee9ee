\* Every configuration of the run (stress or not, body or not, one to three
\* trials), under the default policy.
SPECIFICATION Spec
CONSTANTS
    b1 = b1
    b2 = b2
    Bodies <- MCBodies
    Fingerprints <- MCFingerprints
    Transient = {409, 429, 503}
    MaxTrials = 3
INVARIANTS
    TypeOK
    PassIsComplete
    RejectionStopsTheRun
PROPERTIES
    InterruptedRunNeverPasses
