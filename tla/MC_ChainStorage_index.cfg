SPECIFICATION IntakeSpec
CONSTANTS
  Blocks <- MCBlocks
  Genesis = "g"
  Prev <- MCPrev
  Path <- MCPath
  Work <- MCWork
  Txs <- MCTxs
  BlockTxs <- MCBlockTxs
  KeyImages = {"k1", "k2", "k3"}
  Images <- MCImages
  Sources <- MCSources
  UnlockHeight <- MCUnlock
  SignedTxs <- MCTxs
  PowBlocks <- MCBlocks
  PrevalidBlocks <- MCBlocks
  RewardBlocks <- MCReward
  AltLivetime = 1
  NoBlock = NoBlock
  NoEntry = NoEntry
  Nobody = Nobody
  CheckpointAt <- NoCheckpoints
INVARIANTS
  PoolIndexComplete
CHECK_DEADLOCK FALSE
