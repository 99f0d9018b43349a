SPECIFICATION FairSpec
CONSTANTS
    Devices = {d1}
    Handlers = {h1}
    ReportStatuses = {"downloading", "success", "failed"}
    NoReport = NoReport
    Faults = {}
PROPERTIES LostDeviceNeverPinsTask
