\* The comment of store: keyMu guards the maps.
SPECIFICATION Spec
CONSTANTS
    Requests = {r1, r2}
    Keys = {k1, k2}
    Payloads = {p1}
    Nobody = Nobody
INVARIANT
    MapsAreGuarded
