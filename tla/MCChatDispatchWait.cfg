SPECIFICATION FairSpec
CONSTANTS
    r1 = r1
    r2 = r2
    a1 = a1
    a2 = a2
    p1 = p1
    NoAccount = NoAccount
    NoRequest = NoRequest
    Nobody = Nobody
    Requests <- MCRequests
    AdminRuns <- MCNoRuns
    Accounts <- MCAccounts
INVARIANTS
    CancelledByClient
