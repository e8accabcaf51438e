SPECIFICATION FairSpec
CONSTANTS
    a1 = a1
    a2 = a2
    Nobody = Nobody
    Accounts <- MCAccounts
    Saved <- MCSaved
    MaxVersion = 3
    MaxInputs = 2
    Gets = 2
    Puts = 2
INVARIANTS
    TypeOK
    ReadsOwnWrites
    ShowsActive
    SpinnerHasRequest
PROPERTIES
    ListNeverOlder
    RefreshingEnds
CHECK_DEADLOCK FALSE
