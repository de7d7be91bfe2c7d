SPECIFICATION Spec
CONSTANTS
    Requests = {r1}
    Handlers = {h1, h2}
    Workers = {w1, w2}
    IdKeys = {email}
    PreHooks = 2
    PostHooks = 1
    TwoWayPre = {1, 2}
    TwoWayPost = {1}
    RuleSets = {{"access", "erasure"}}
    ClientStamps = {{}}
    RequireManualApproval = FALSE
    UncaughtFaults = TRUE
    MaxCrashes = 1
    MaxCalls = 2
SYMMETRY ThreadSymmetry
INVARIANTS
    TypeOK
    HooksReleaseExecution
    CompleteMeansDone
    PausedHasFollowup
CHECK_DEADLOCK FALSE
