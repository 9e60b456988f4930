CONSTANTS
    r1 = r1
    r2 = r2
    i1 = i1
    i2 = i2
    i3 = i3
    p1 = p1
    Issue <- ThreeIssues
    PullRequest <- NoPulls
    IssueReply <- AllAccepted
    Strays <- MCStrays
    Poisoned <- NoPulls
    Webhooks = FALSE
    Runtime <- OneRuntime
    PageSize = 2
    SameSecond = FALSE
    MaxRev = 2
    MaxTime = 4
SPECIFICATION FairSpec
PROPERTY BackfillCompletes
