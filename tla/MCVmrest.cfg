SPECIFICATION FairSpec
CONSTANTS
  c1 = c1  c2 = c2  n1 = n1  n2 = n2  p1 = p1  p2 = p2
  Callers <- MCCallers
  Creds <- MCCreds
  Pids <- MCPids
INVARIANTS
  TypeOK
  CredentialsAgree
  OnlyCommandRuns
  NothingLeft
PROPERTIES
  EveryActiveReturns
  StartedOnDemand
