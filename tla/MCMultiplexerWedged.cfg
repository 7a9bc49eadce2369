SPECIFICATION FairSpec
CONSTANTS
  Orgs = {o1}
  Handlers = {h1}
  Projects = {p1}
  Secrets = {s1, s2}
  None = None
  Serial = TRUE
  EnvDeclaresSecret = TRUE
  Faults <- WaitFault
  MaxFaults = 1
PROPERTY SubscribeSettles
