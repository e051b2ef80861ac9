SPECIFICATION OutputFairSpec
CONSTANTS
    Runs = {"own", "other"}
    Streams = {"stdout", "stderr"}
    Followed = "stdout"
    NoFile = NoFile
    MaxLogUploadBytes = 3
    MaxUploadBytes = 4
    Timeouts = {0, 1, 2}
    MaxElapsed = 3
    Outputs <- MCOutputs
    Reruns <- MCReruns
ACTION_CONSTRAINT
    Focus
CHECK_DEADLOCK FALSE
INVARIANTS
    OutputTypeOK
    NoChildLeft
    ResultHasLogs
    StoredIsText
    LogComesFromRuns
    DecoderIsExact
    FollowerMissesNothing
PROPERTIES
    VerdictHasCause
    TimeoutEnds
    FollowerCatchesUp
