SPECIFICATION Spec
CONSTANTS
    Keys = {k1}
    Reports = {n1, n2}
    Lifecycle = {}
    Direct = {d1}
    Workers = {w1}
    Nothing = Nothing
    MaxSessions = 1
    MaxDesired = 1
    JobAttempts = 2
    Faults = {"job", "redis", "notice"}
SYMMETRY Symmetry
INVARIANTS TypeOK NoReportVanishes ShownIsCurrent
PROPERTIES DesiredSurvivesReports VersionTellsContents
