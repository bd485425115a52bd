SPECIFICATION Spec
CONSTANTS
  Paths = {1, 2, 3}
  Disabled = {}
  Kinds = {"up", "down", "quarantined"}
  Metered = {2}
  Limit = 1
  Ceiling = 2
  MaxUsed = 2
  Scores = {1, 2}
  Margin = 25
  Hold = 1
  Dwell = 2
  Never = Never
  MaxChanges = 2
  MaxEvents = 1
PROPERTIES LeavesForAReason BeatenIsLeft QuotaEnforced
CHECK_DEADLOCK FALSE
