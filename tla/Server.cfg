SPECIFICATION SafetySpec
CONSTANTS
  Clients = {c1, c2, c3}
  NoClient = NoClient
  NoSlot = NoSlot
  MaxClients = 2
  Capacity = 2
  MaxRuns = 1
  Apps = {"chat", "echo"}
SYMMETRY Symmetry
INVARIANTS
  TypeOK
  OneOwner
  
  RegistryAgrees
  NothingLeft
