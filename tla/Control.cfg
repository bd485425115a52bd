\* Safety: three addresses, two of three slots each, sessions that die silently, a save.
CONSTANTS
    Conns = {c1, c2, c3, c4}
    Sources = {"backend", "linker", "other"}
    Backend = "backend"
    Linkers = {"linker"}
    None = None
    MaxControlConns = 3
    MaxPerSource = 2
    MaxSessions = 2
    MaxSaves = 1
    MaxDeaths = 2
SYMMETRY MCSymmetry
SPECIFICATION Spec
INVARIANTS NothingLeaks PeersShown PushedIsGot
