SPECIFICATION FairSpec
CONSTANTS
  Models = {m1, m2}
  Default = m1
  Clients = {c1, c2}
  MaxEvents = 1
  Chunks = 2
  AwaitConns = TRUE
INVARIANTS
  TypeOK
  
  MetricsBalance
PROPERTIES
  ShutdownEnds
