SPECIFICATION MetricsSpec
CONSTANTS
    Paths = {"hook", "extension"}
    MaxLine = 3
    MaxCount = 3
    MaxCommits = 2
INVARIANTS
    MetricsTypeOK
    HookSplitsTheDiff
    ExtensionRatioIsAShare
CHECK_DEADLOCK FALSE
