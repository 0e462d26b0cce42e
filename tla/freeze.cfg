SPECIFICATION Spec
CONSTANTS
  w1 = w1
  w2 = w2
  a1 = a1
  c1 = c1
  m1 = m1
  NoPlugin = NoPlugin
  Wallets = {w1, w2}
  Assets = {a1}
  Collections = {c1}
  Signers = {w1, w2}
  Metas = {m1}
  PluginTypes = {"UpdateDelegate", "FreezeExecute", "PermanentFreezeExecute", "FreezeDelegate", "PermanentFreezeDelegate", "PermanentTransferDelegate", "PermanentBurnDelegate", "TransferDelegate", "BurnDelegate"}
  AssetTypes = {"FreezeDelegate", "FreezeExecute", "PermanentFreezeDelegate", "PermanentFreezeExecute", "PermanentTransferDelegate", "PermanentBurnDelegate"}
  CollectionTypes = {"PermanentFreezeExecute", "PermanentFreezeDelegate", "PermanentTransferDelegate", "PermanentBurnDelegate"}
  AuthorityArgs = {w2}
  DelegateArgs <- NoDelegateArgs
  AssetBirths <- MCBirths
  CollectionBirths <- MCOtherBirths
  U32Max = 3
  MaxLeaves = 0
VIEW ledger
PROPERTIES
  OnlyTheEntitledMoveAnAsset
  
CHECK_DEADLOCK FALSE
