SPECIFICATION Spec
CONSTANTS
  WhiteLimit = 2
  GrayLimit = 2
  LocalAddrs = {}
  Addrs <- MCAddrs
  Self = "self"
  Ephemeral = "ephemeral"
  PeerId <- MCPeerId
  my_id = "me1"
  OldIds = {"me0", "ia0"}
  StoredLists <- MCStored
  NoId = "none"
  Alive = {"a"}
  Flaky = {"f"}
  Claims <- MCClaims
  SentLists <- MCLists
  m_seed_nodes <- MCSeeds
  connections_count = 2
  IpFailsLimit = 0
  MaxConnections = 3
  MaxAccepts = 1
  Unsteady = {}
  MaxFaults = 1
INVARIANTS
  ListsDisjoint
  WhiteAnswered
  OutgoingBounded
  DistinctPeers
CHECK_DEADLOCK FALSE
