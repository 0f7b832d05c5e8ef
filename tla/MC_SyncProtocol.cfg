SPECIFICATION FairSpec
CONSTANTS
  Blocks <- MCBlocks
  Genesis = "g"
  Path <- MCPath
  Work <- MCWork
  Invalid = {"z1"}
  BadTx = {}
  TxBlocks = {"a2"}
  Peers = {"p", "q"}
  Outgoing = {"p"}
  Tampering = {"q"}
  Served <- MCServed
  StartTop = "g"
  PeerStart <- MCStart
  Unsynced = {"p"}
  ExplicitOnline = FALSE
  Found = {"c2"}
  LocalCheckpoint = 1
  RemoteCheckpoint <- MCRemote
  IdsCount = 3
  BatchCount = 2
  DenseCount = 1
  FailsBeforBlock = 0
  MaxConnects <- MCConnects
INVARIANTS
  OneRequestUnderWay
  RequestedIsOutstanding
  HonestNeverBlamed
PROPERTIES
  CatchesUp
