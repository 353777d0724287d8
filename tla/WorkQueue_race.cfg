SPECIFICATION Spec
CONSTANTS
    GitItems = {}
    ExtItems = {t1}
    ChatItems = {}
    SchedulerItems = {}
    PlainJobs = {}
    Executors = {x1, x2}
    NoJob = NoJob
    MaxAttempts = 2
    MaxCrashes = 0
    Hazards = {"sandbox_dies", "store_faults", "lease_lapses", "items_idle"}
SYMMETRY ExecutorSymmetry
INVARIANTS
    OneRunner
    ReportedOrLoud
    BlockedIsAnnounced
CHECK_DEADLOCK FALSE
