\* One prober generation: two probes, a channel of one, two switches.
CONSTANTS
    Seed = 7
    Paths = {"wan", "lte"}
    Path = "wan"
    StaleReplies <- MCStale
    ChanCap = 1
    MaxProbes = 2
    MaxDecisions = 2
    MaxSocketDeaths = 1
SPECIFICATION FairSpec
INVARIANTS Delivered AnsweredMeansRoundTrip DecisionCarried
PROPERTIES EveryProbeLeaves StopTerminates
