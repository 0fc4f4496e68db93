SPECIFICATION Spec
CONSTANTS
  Clients = {c1, c2}
  NoClient = NoClient
  NoSlot = NoSlot
  MaxClients = 2
  Capacity = 1
  MaxRuns = 1
  Apps = {"chat"}
PROPERTIES
  SigintEnds
