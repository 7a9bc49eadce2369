SPECIFICATION Spec
CONSTANTS
  Callers = {h1, h2}
  Commands = {c1, c2}
  Events = {e1}
  Orgs = {o1}
  Clients = {k1, k2}
  NoClient = NoClient
  None = None
  MaxFaults = 1
INVARIANTS TypeOK SendsThroughKept NoLeakedClient
PROPERTIES CutOnlyByOthers CommandsStopTheProcess DeafProcessEnds EverythingSettles
CHECK_DEADLOCK FALSE
