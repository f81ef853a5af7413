\* Two confirmations, three polls at most, and a chain that replaces its last
\* block or its last two.  An accepted payment is not submitted again, and the chain
\* stops at its bound: nothing need happen then.
SPECIFICATION FairSpec
CONSTANTS
    Confirmations = 2
    MinedTimeout = 4
    PollInterval = 2
    MaxReorg = 2
    MaxHead = 4
INVARIANTS
    TypeOK
    PollsBounded
    AcceptedIsSettled
PROPERTIES
    VerifyEnds
    GoodPaymentIsAccepted
CHECK_DEADLOCK FALSE
