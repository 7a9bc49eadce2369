SPECIFICATION Spec
CONSTANTS
  Libraries = {"go", "python"}
  Faults <- AllFaults
  MaxFaults = 3
  None = None
INVARIANTS TypeOK RunsPerFailure DeliveredMeansHandled
PROPERTY GoHandlesEventually
CHECK_DEADLOCK FALSE
