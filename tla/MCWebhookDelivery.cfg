CONSTANTS
    w1 = w1
    w2 = w2
    i1 = i1
    t1 = t1
    t2 = t2
    t3 = t3
    t4 = t4
    m1 = m1
    d1 = d1
    d2 = d2
    NoId = NoId
    Unlimited = Unlimited
    Worker <- MCWorker
    Source <- MCSource
    Event <- MCEvent
    SourceOf <- MCSourceOf
    IdOf <- MCIdOf
    Window <- MCWindow
    IdLess <- MCIdLess
    PayloadFirst <- MCPayloadFirst
    Content <- MCContent
    MaxEntries = 2
    MaxPartitions = 1
    Ttl = 2
    MaxTime = 3
    MaxMarks = 3
SPECIFICATION Spec
INVARIANTS TypeOK RecentIsRemembered OnlyRacesRepeat WindowedOnce
PROPERTY DropsOnlyDuplicates
SYMMETRY Symmetric
