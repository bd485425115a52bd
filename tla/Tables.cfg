SPECIFICATION TablesSpec
CONSTANTS
  Configs <- MCConfigs
  Off = 0
  Spans = {"none", "ports"}
  NoSpans = "none"
  Lists = {"long", "short", "wide"}
  NoList = "empty"
  Size <- MCSize
  Wide = {"wide"}
  MaxSaves = 2
  MaxFaults = 1
  MaxCrashes = 1
  MaxFeeds = 1
INVARIANTS RedirectsAnswered ListLoaded
PROPERTIES ObserveHolds
CHECK_DEADLOCK FALSE
