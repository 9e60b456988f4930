CONSTANTS
    r1 = r1
    r2 = r2
    i1 = i1
    i2 = i2
    i3 = i3
    p1 = p1
    Issue <- TwoIssues
    PullRequest <- NoPulls
    IssueReply <- AllAccepted
    Strays <- MCStrays
    Poisoned <- NoPulls
    Webhooks = TRUE
    Runtime <- TwoRuntimes
    PageSize = 2
    SameSecond = TRUE
    MaxRev = 2
    MaxTime = 2
SPECIFICATION Spec
INVARIANT WatermarkCovers
