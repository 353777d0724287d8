SPECIFICATION FairSpec
CONSTANTS
    GitItems = {g1}
    ExtItems = {t1}
    ChatItems = {c1}
    SchedulerItems = {}
    PlainJobs = {k1}
    Executors = {x1}
    NoJob = NoJob
    MaxAttempts = 2
    MaxCrashes = 1
    Hazards = {"executor_dies", "server_dies", "sandbox_dies", "store_faults", "queue_ages", "items_idle", "token_missing", "empty_summary"}
CONSTRAINT OneAtATime
INVARIANTS
    CompletedIsAccountedFor
    Obligations
PROPERTIES
    LifecycleSpec
    JobsTerminate
    NeverHangsAtWorking
CHECK_DEADLOCK FALSE
