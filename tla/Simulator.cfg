SPECIFICATION Spec
CONSTANTS
  Callers = {s1, s2}
  MaxContinuationLevel = 1
  MaxPerResponse = 2
  MaxAsked = 3
INVARIANTS TypeOK RecordsCanRun NothingLost ExecutedAsDue
PROPERTIES CallsReturn
