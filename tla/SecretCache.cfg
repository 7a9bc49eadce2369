SPECIFICATION Spec
CONSTANTS
  Callers = {c1, c2, c3}
  MaxRotations = 2
  MaxFaults = 1
INVARIANTS TypeOK RefusedOnlyAfterRotation
PROPERTY RefusalsStop
