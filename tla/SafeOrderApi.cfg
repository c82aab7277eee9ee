\* Three requests, on one key or two, alike or not, malformed or not.
SPECIFICATION Spec
CONSTANTS
    Requests = {r1, r2, r3}
    Keys = {k1, k2}
    Payloads = {p1, p2}
    Nobody = Nobody
INVARIANTS
    TypeOK
    KeyIsSerialized
    OrderIdsAreDistinct
PROPERTIES
    ImplementsIdempotentEndpoint
    EveryRequestIsAnswered
