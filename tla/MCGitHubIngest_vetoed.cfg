CONSTANTS
    r1 = r1
    r2 = r2
    i1 = i1
    i2 = i2
    i3 = i3
    p1 = p1
    Issue <- TwoIssues
    PullRequest <- NoPulls
    IssueReply <- FirstVetoed
    Strays <- MCStrays
    Poisoned <- NoPulls
    Webhooks = FALSE
    Runtime <- OneRuntime
    PageSize = 2
    SameSecond = FALSE
    MaxRev = 1
    MaxTime = 2
SPECIFICATION FairSpec
PROPERTY BackfillCompletes
