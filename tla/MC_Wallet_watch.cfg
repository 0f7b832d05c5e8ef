SPECIFICATION Spec
CONSTANTS
  Blocks = {"g", "a1", "a2", "a3", "b2", "b3"}
  Genesis = "g"
  Parent <- MC_Parent
  Work <- MC_Work
  TxsOf <- MC_TxsOf
  Txs <- MC_Txs
  OwnTxs = {"t1", "t2"}
  Ins <- MC_Ins
  Outs <- MC_Outs
  KeyImage <- MC_KeyImage
  NoKey = "nokey"
  None = None
  ViewOnly = {TRUE}
  SpendableAge = 1
  Dense = 0
  MaxCount = 3
  MaxLost = 0
  MaxKills = 0
INVARIANT DetachFindsKeyImages
