CONSTANTS
    r1 = r1
    r2 = r2
    i1 = i1
    i2 = i2
    i3 = i3
    p1 = p1
    Issue <- ThreeIssues
    PullRequest <- NoPulls
    IssueReply <- FirstVetoed
    Strays <- MCStrays
    Poisoned <- LastIssue
    Webhooks = FALSE
    Runtime <- TwoRuntimes
    PageSize = 2
    SameSecond = TRUE
    MaxRev = 2
    MaxTime = 2
SPECIFICATION Spec
INVARIANTS IInv WatermarkCovers
PROPERTY ImplementsBackfill
SYMMETRY RuntimeSymmetry
