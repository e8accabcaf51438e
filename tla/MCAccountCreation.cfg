SPECIFICATION FairSpec
CONSTANTS
    e1 = e1
    e2 = e2
    NoEmail = NoEmail
    Emails <- MCEmails
    MaxAccounts = 2
    MaxAttempts = 2
    Workdirs = 1
INVARIANTS
    TypeOK
    NumbersWithoutGaps
PROPERTIES
    AddressUsedOnce
    CompletedWasLinked
    BatchEnds
