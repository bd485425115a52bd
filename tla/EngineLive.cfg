\* Convergence, failover and failback: a save or a revert, a tunnel deleted (commands
\* through it fail meanwhile) and recreated, three changes of the verdicts.
CONSTANTS
    Paths = {1, 2}
    Ifaces = {"wgA", "wgB", "wgC"}
    None = "none"
    Handlers = {"h1"}
    Cfgs <- MCSettle
    FirstCfg <- MCArmed
    MaxOps = 1
    MaxCrashes = 0
    MaxLinkEvents = 1
    MaxFailures = 0
    MaxSwitches = 4
    MaxVerdicts = 3
SPECIFICATION FairSpec
PROPERTIES RoutesSettle FailoverCompletes RequestsFinish
CHECK_DEADLOCK FALSE
