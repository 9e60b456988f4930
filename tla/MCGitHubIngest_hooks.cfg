CONSTANTS
    r1 = r1
    r2 = r2
    i1 = i1
    i2 = i2
    i3 = i3
    p1 = p1
    Issue <- OneIssueOnePull
    PullRequest <- OnePull
    IssueReply <- AllAccepted
    Strays <- MCStrays
    Poisoned <- NoPulls
    Webhooks = TRUE
    Runtime <- TwoRuntimes
    PageSize = 2
    SameSecond = TRUE
    MaxRev = 3
    MaxTime = 3
SPECIFICATION Spec
INVARIANTS CommitInv CursorNamesDelivered
SYMMETRY RuntimeSymmetry
