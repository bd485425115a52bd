\* Safety: two requests at once, a crash, a command failing.
CONSTANTS
    Paths = {1, 2}
    Ifaces = {"wgA", "wgB", "wgC"}
    None = "none"
    Handlers = {h1, h2}
    Cfgs <- MCPlain
    FirstCfg <- MCArmed
    MaxOps = 2
    MaxCrashes = 1
    MaxLinkEvents = 0
    MaxFailures = 1
    MaxSwitches = 3
    MaxVerdicts = 2
SPECIFICATION Spec
SYMMETRY MCSymmetry
INVARIANT RevertHolds
PROPERTIES ObserveMovesNothing DeadMan SwitchIsReal
CHECK_DEADLOCK FALSE
