\* The comment of Assemble: a proven violation outranks an execution error.
SPECIFICATION Spec
CONSTANTS
    b1 = b1
    b2 = b2
    Bodies <- MCBodies
    Fingerprints <- MCFingerprints
    Transient = {409, 429, 503}
    MaxTrials = 3
INVARIANT
    ProvenViolationDecides
