CONSTANTS
    Cfgs <- MCCfgs
    MaxDuration = 7
    MaxTime = 8
    MaxStreak = 2
    MaxLevel = 5
SPECIFICATION TrackerSpec
INVARIANT FlapsAreCaught
PROPERTIES NeverReleasedSooner
