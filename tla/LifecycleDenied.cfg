SPECIFICATION Spec
CONSTANTS
    Requests = {r1}
    Handlers = {h1}
    Workers = {w1, w2}
    IdKeys = {email}
    PreHooks = 0
    PostHooks = 1
    TwoWayPre = {}
    TwoWayPost = {}
    RuleSets = {{"access"}}
    ClientStamps = {{}}
    RequireManualApproval = FALSE
    UncaughtFaults = FALSE
    MaxCrashes = 0
    MaxCalls = 1
PROPERTY
    DeniedIsFinal
CHECK_DEADLOCK FALSE
