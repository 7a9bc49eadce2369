SPECIFICATION Spec
CONSTANTS
  Orgs = {o1}
  Handlers = {h1, h2}
  Projects = {p1, p2}
  Secrets = {s1, s2, s3, s4}
  None = None
  Serial = TRUE
  EnvDeclaresSecret = TRUE
  Faults <- AllFaults
  MaxFaults = 2
SYMMETRY Symmetry
INVARIANTS TypeOK AckedSubscribed
PROPERTIES RecordOutlivesService ImplementsSubscription
