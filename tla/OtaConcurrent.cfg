SPECIFICATION Spec
CONSTANTS
    Devices = {d1, d2}
    Handlers = {h1, h2}
    ReportStatuses = {"downloading", "success", "failed"}
    NoReport = NoReport
    Faults = {"crash", "publish", "purge"}
SYMMETRY Symmetry
INVARIANTS TypeOK NoOrphanRecords NoForgottenTask
PROPERTIES PlatformKeepsSuccess
