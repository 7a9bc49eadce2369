SPECIFICATION Spec
CONSTANTS
  Libraries = {"python"}
  Faults <- CallbackFaults
  MaxFaults = 1
  None = None
INVARIANT UnsetIsRetriable
CHECK_DEADLOCK FALSE
