SPECIFICATION Spec
CONSTANTS
  Handlers = {h1, h2}
  KeyIds = {1, 2, 3, 4, 5}
  Libraries = {"go", "python"}
  Operations = {"create", "delete"}
  MaxFaults = 2
INVARIANTS TypeOK SoloCreateHeals SoloDeleteCleans
