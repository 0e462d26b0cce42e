SPECIFICATION CheckedSpec
CONSTANTS
  w1 = w1
  w2 = w2
  a1 = a1
  c1 = c1
  m1 = m1
  m2 = m2
  NoPlugin = NoPlugin
  Wallets = {w1, w2}
  Assets = {a1}
  Collections = {c1}
  Signers = {w1, w2}
  Metas = {m1}
  PluginTypes = {"UpdateDelegate"}
  AssetTypes = {}
  CollectionTypes = {}
  AuthorityArgs = {w2}
  DelegateArgs <- MCDelegateArgs
  AssetBirths <- MCPermanentBirths
  CollectionBirths <- NothingBorn
  U32Max = 3
  MaxLeaves = 0
  CheckedTypes = {"Royalties"}
  RoyaltyArgs <- MCAllRoyalties
  Messages = {m1, m2}
  ProgramOf <- MCPrograms
  CheckedBirths <- MCCheckedBirths
  MaxChecked = 2
VIEW checkedLedger
INVARIANTS
  RoyaltiesAddUp
CHECK_DEADLOCK FALSE
