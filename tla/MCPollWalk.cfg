CONSTANTS
    Item <- MCItem
    Malformed <- MCMalformed
    Breach <- MCBreach
    Limit <- MCLimit
    MaxPages = 3
    MaxItems = 5
    MaxChanges = 2
SPECIFICATION FairSpec
INVARIANTS TypeOK TokensOnceEach CountsOnceEach AskedOnce
PROPERTY WalkEnds
