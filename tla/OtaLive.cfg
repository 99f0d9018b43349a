SPECIFICATION FairSpec
CONSTANTS
    Devices = {d1}
    Handlers = {h1, h2}
    ReportStatuses = {"downloading", "success", "failed"}
    NoReport = NoReport
    Faults = {"publish", "purge"}
INVARIANTS SuccessSynced
PROPERTIES SilentTaskEnds
