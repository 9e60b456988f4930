CONSTANTS
    r1 = r1
    r2 = r2
    r3 = r3
    r4 = r4
    e1 = e1
    e2 = e2
    vetoed = vetoed
    screened = screened
    broken = broken
    Runtime <- MCRuntime
    Evidence <- MCEvidence
    Invalid <- MCInvalid
    BotReply <- MCBotReply
    Batches <- MCBatches
    Endpoint <- MixedEndpoints
    Strays <- MCStrays
    BotDrifts = FALSE
SPECIFICATION SinkSpec
PROPERTY TransientIsRetried
