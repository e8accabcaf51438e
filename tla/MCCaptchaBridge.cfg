SPECIFICATION FairSpec
CONSTANTS
    c1 = c1
    c2 = c2
    browser = browser
    broker = broker
    tab = tab
    app = app
    NoCall = NoCall
    Calls <- MCCalls
    Clients <- MCClients
    Preferred = browser
    Pages <- MCPages
    ClientOf <- MCClientOf
    Capacity = 1
INVARIANTS
    TypeOK
    WaitersAreLive
    AnsweredOnce
PROPERTIES
    CallsEnd
    CancelledCallsEnd
