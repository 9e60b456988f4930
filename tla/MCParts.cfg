SPECIFICATION PartsSpec
CONSTANTS
    r1 = r1
    r2 = r2
    r3 = r3
    r4 = r4
    e1 = e1
    e2 = e2
    vetoed = vetoed
    screened = screened
    broken = broken
    Runtime <- MCRuntime
    Evidence <- MCEvidence
    Invalid <- MCInvalid
    BotReply <- MCBotReply
    Batches <- MCBatches
    Endpoint <- MixedEndpoints
    Strays <- MCStrays
    BotDrifts = TRUE
    Process <- MCProcess
    Connector <- MCConnector
    Repository <- MCRepository
    Secret <- MCSecret
    Environment <- MCEnvironment
    Good <- MCGood
    MaxJobs = 2
    MaxKills = 2
CHECK_DEADLOCK FALSE
INVARIANTS
    AckedPrefixIngested AdvanceOnlyPastRefusals
    SavedUnlessOverlapped RunnableWasEntered EnabledIsVerified
    RedactedIsClean RedactAndPass AdvisoriesFailOpen TraceIsEvidence HarnessGrades FailsClosed
    AnswersClassified  TokenOutlivesItsUse ModsKeepTheirContract
    ManifestFailsClosed RowsFailAlone
PROPERTY ScreenedAsAWhole
SYMMETRY SinkSymmetry
