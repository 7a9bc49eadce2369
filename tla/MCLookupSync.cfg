SPECIFICATION FairSpec
CONSTANTS
  Handlers = {h1, h2}
  Lookups = {"a", "b", "u"}
  Releases <- TwoReleases
  None = None
  MaxChanges = 3
  MaxFaults = 2
INVARIANTS TypeOK AckedUnsubscribeSweeps
PROPERTIES SparesUserLookups EventsSettle EventuallySynced
CHECK_DEADLOCK FALSE
