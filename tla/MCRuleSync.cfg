SPECIFICATION FairSpec
CONSTANTS
  Handlers = {h1, h2}
  RuleNames = {"a", "u"}
  Releases <- Unmanaged
  UserRules <- UserRulesInGeneral
  Periods = {"", "1h"}
  None = None
  MaxChanges = 3
  MaxFaults = 1
INVARIANTS TypeOK SubscribedIsScheduled UndisturbedUnsubscribeSweeps
PROPERTIES SparesUserRules EventuallyInSync
CHECK_DEADLOCK FALSE
