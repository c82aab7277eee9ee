\* The comment of finalizeSameKey: a replay that is skipped could change nothing.
SPECIFICATION Spec
CONSTANTS
    b1 = b1
    b2 = b2
    Bodies <- MCBodies
    Fingerprints <- MCFingerprints
    Transient = {409, 429, 503}
    N = 3
    MaxAttempts = 3
INVARIANT
    BlockedReplayIsMoot
