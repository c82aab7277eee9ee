\* Documents, numbers, ignore paths and packings; the limits are small, so that
\* literals, exponents and bodies lie on both sides of them.
SPECIFICATION Spec
CONSTANTS
    MaxLiteral = 6
    MaxExponent = 1
    Keys <- MCKeys
    MaxDepth = 4
    Volatile = {"trace_id"}
    Written <- MCWritten
    MaxBody = 2
    GzipClaims = {"gzip", "X-GZIP"}
    DeflateClaims = {"deflate"}
    Cases <- MCCases
INVARIANTS
    TypeOK
    OnlyWholeBodies
    NoSpuriousDifference
    NoHiddenDifference
    FieldsAreWhereBodiesDiffer
    EvidenceShowsDifference
