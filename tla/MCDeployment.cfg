SPECIFICATION Spec
CONSTANT MaxGeneration = 2
INVARIANTS
  TypeOK
  PathsUsable
  ManagedIsWhole
  UninstallClears
  ClientsAccepted
  ConfigurationKept
