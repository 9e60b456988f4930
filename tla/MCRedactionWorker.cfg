CONSTANTS
    c1 = c1
    c2 = c2
    p1 = p1
    p2 = p2
    p3 = p3
    None = None
    Caller <- MCCaller
    Process <- MCProcess
    Budget = 2
    Grace = 1
SPECIFICATION FairSpec
INVARIANTS IInv OwnReply OneWorker BoundedLatency
PROPERTY EveryCallReturns
