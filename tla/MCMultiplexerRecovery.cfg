SPECIFICATION FairSpec
CONSTANTS
  Orgs = {o1}
  Handlers = {h1, h2}
  Projects = {p1}
  Secrets = {s1, s2, s3, s4}
  None = None
  Serial = TRUE
  EnvDeclaresSecret = TRUE
  Faults <- RecordedFaults
  MaxFaults = 2
INVARIANTS NoOrphan AckedUnsubscribed
PROPERTY SubscribeSettles
