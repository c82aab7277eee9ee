\* Four workers, and a cancellation at any moment.
SPECIFICATION Spec
CONSTANT Workers = {w1, w2, w3, w4}
INVARIANTS
    TypeOK
    NoWorkerLeft
    TimingsAreMeasured
PROPERTIES
    ImplementsRendezvous
    Returns
