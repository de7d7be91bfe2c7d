SPECIFICATION Spec
CONSTANTS
    Requests = {r1}
    Handlers = {h1}
    Workers = {w1, w2}
    IdKeys = {email}
    PreHooks = 2
    PostHooks = 1
    TwoWayPre = {1, 2}
    TwoWayPost = {1}
    RuleSets = {{"access", "erasure"}, {"access"}, {}}
    ClientStamps = {{}, {"finished"}}
    RequireManualApproval = TRUE
    UncaughtFaults = TRUE
    MaxCrashes = 1
    MaxCalls = 3
SYMMETRY ThreadSymmetry
INVARIANTS
    ApprovedBeforeRun
    SingleFlight
PROPERTIES
    DeniedIsFinal
    CompleteUndoneOnlyByExpiry
CHECK_DEADLOCK FALSE
