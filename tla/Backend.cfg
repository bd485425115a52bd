\* Two decisions, a push, a crash, and a tunnel deleted or a failing command.
CONSTANTS
    Paths = {1, 2}
    Ifaces = {"wgA", "wgB", "wgC"}
    None = "none"
    Cfgs <- MCCfgs
    Provisional <- MCProvisional
    MaxDecisions = 2
    MaxPushes = 1
    MaxCrashes = 1
    MaxFaults = 1
SPECIFICATION FairSpec
INVARIANTS NewestApplied RepliesFollowActive
PROPERTY EndsAgree
CHECK_DEADLOCK FALSE
