SPECIFICATION FairSpec
CONSTANTS
    Requests = {r1}
    Handlers = {h1, h2}
    Workers = {w1, w2}
    IdKeys = {email}
    PreHooks = 1
    PostHooks = 1
    TwoWayPre = {1}
    TwoWayPost = {}
    RuleSets = {{"access", "erasure"}}
    ClientStamps = {{}}
    RequireManualApproval = FALSE
    UncaughtFaults = FALSE
    MaxCrashes = 0
    MaxCalls = 2
PROPERTIES
    PausedResolves
    DispatchedSettles
CHECK_DEADLOCK FALSE
