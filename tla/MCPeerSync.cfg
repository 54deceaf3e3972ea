SPECIFICATION Spec
CONSTANTS
  Peers = {"p", "q"}
  Labels = {"a", "b"}
  Weight <- MCWeight
  GenesisOf <- MCGenesisOf
  Compatible = {"p", "q"}
  NoGenesis = "nogenesis"
  ValidGenesis = {"g", "g2", "g3"}
  LocalStarts <- MCLocalStarts
  RemoteStarts <- MCRemoteStarts
  MaxHeight = 3
  MaxMoves = 2
  MaxSyncs = 1
  LocalBatch = 2
  PeerBatch = 3
  MaxDiscovery = 2
  MaxConnects = 2
INVARIANTS
  TypeOK
  SearchSound
  SyncAdopts
  GenesisAgrees
PROPERTY
  SyncEnds
CHECK_DEADLOCK FALSE
