SPECIFICATION FairSpec
CONSTANTS
    bash = bash
    list = list
    github = github
    linear = linear
    c1 = c1
    c2 = c2
    NoExt = NoExt
    Tools = {bash, list}
    Extensions = {github, linear}
    Registered = {github, linear}
    Calls = {c1, c2}
    Call <- SmallCall
    File <- SmallFile
    AllSettings <- SmallSettings
    AllOverlays <- SmallOverlays
    MaxPending = 1
    MaxFailures = 1
    NudgeFirst = TRUE
    MaxRestarts = 1
    Hazards = {"store_fault", "slack_fault"}
INVARIANTS
    RunsOnlyWithConsent
    NeverLooserThanFloor
    PromptTellsTheTruth
    RegistryIsExact
PROPERTIES
    EveryCallIsAnswered
    PromptsCloseUp
CHECK_DEADLOCK FALSE
