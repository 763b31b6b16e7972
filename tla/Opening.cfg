SPECIFICATION Spec
CONSTANTS
  Types <- MCTypes
  Built <- MCBuilt
  Registrations <- MCRegistrations
  MaxBackends = 3
  Dbs = {d1}
  Dsns <- MCDsns
  Models <- MCModels
  ValidNames = {"t1", "t2", "a", "b"}
  Hash <- MCHash
  MaxChain = 2
  NameSize = 6
  BodySize = 24
  InfoSize = 58
  Undefined = Undefined
  None = None
INVARIANTS LatestBackend LatestModel ConnectedAsWritten 
