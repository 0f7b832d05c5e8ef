SPECIFICATION IntakeSpec
CONSTANTS
  Blocks <- CPBlocks
  Genesis = "g"
  Prev <- CPPrev
  Path <- CPPath
  Work <- CPWork
  Txs <- CPTxs
  BlockTxs <- CPBlockTxs
  KeyImages = {"k1", "k2", "k3"}
  Images <- CPImages
  Sources <- CPSources
  UnlockHeight <- CPUnlock
  SignedTxs <- CPSigned
  PowBlocks <- CPBlocks
  PrevalidBlocks <- CPBlocks
  RewardBlocks <- CPBlocks
  AltLivetime = 5
  NoBlock = NoBlock
  NoEntry = NoEntry
  Nobody = Nobody
  CheckpointAt <- CPPoints
INVARIANTS
  PastZoneSigned
PROPERTIES
  ImplementsBestChain
