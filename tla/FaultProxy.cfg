\* Three requests at any time, in both fault modes, with a key header that
\* net/http knows and with one it does not.
SPECIFICATION Spec
CONSTANT Requests = {r1, r2, r3}
INVARIANTS
    TypeOK
    OneControlledLoss
    LossIsOfTheFirstWork
    LostAnswerStaysLost
PROPERTIES
    FaultIsInjected
