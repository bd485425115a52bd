SPECIFICATION Spec
CONSTANTS
  Entries <- MCEntries
  Scale <- MCScale
  Clients = {c1, c2}
  Spoofed = {s1}
  RefreshEvery = 1
  StaleAfter = 3
  IdleAfter = 1
  UpstreamTimeout = 1
  Bucket = 1
  MaxFragments = 2
  MaxAttempts = 2
  Burst = 2
  Refill = 1
  PaceIdle = 2
  MaxSources = 1
  Never = Never
  MaxAsks = 3
SYMMETRY MCSymmetry
INVARIANTS ServedFresh WithinBudget
PROPERTIES PollsAreEarned
CHECK_DEADLOCK FALSE
