SPECIFICATION FairSpec
CONSTANTS
    Keys = {}
    Reports = {n1}
    Lifecycle = {l1}
    Direct = {d1}
    Workers = {w1}
    Nothing = Nothing
    MaxSessions = 2
    MaxDesired = 0
    JobAttempts = 2
    Faults = {"redis", "job", "request", "notice"}
PROPERTIES ReportHealsOnline QueuedReportIsApplied
