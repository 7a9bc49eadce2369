SPECIFICATION Spec
CONSTANTS
  Handlers = {h1, h2}
  RuleNames = {"a"}
  Releases <- InManaged
  UserRules <- NoUserRules
  Periods = {""}
  None = None
  MaxChanges = 1
  MaxFaults = 0
INVARIANT SubscribedIsScheduled
CHECK_DEADLOCK FALSE
