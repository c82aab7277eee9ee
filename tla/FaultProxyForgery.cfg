\* The comment of the proxy's test: relaying changes no verdict.
SPECIFICATION Spec
CONSTANT Requests = {r1, r2}
INVARIANT
    ProxyForgesNoAnswer
