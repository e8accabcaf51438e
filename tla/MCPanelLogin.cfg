SPECIFICATION FairSpec
CONSTANTS
    MaxFlows = 2
    MaxCallbacks = 2
    Requests <- MCRequests
    MaxClicks = 6
INVARIANTS
    TypeOK
    ResultIsTrue
    RetryOffered
PROPERTY
    LoginEnds
CHECK_DEADLOCK FALSE
