SPECIFICATION GroupsSpec
CONSTANTS
  w1 = w1
  a1 = a1
  c1 = c1
  a2 = a2
  g1 = g1
  g2 = g2
  g3 = g3
  m1 = m1
  NoPlugin = NoPlugin
  Wallets = {w1}
  Assets = {a1, a2}
  Collections = {c1}
  Signers = {w1}
  Metas = {m1}
  PluginTypes = {}
  AssetTypes = {}
  CollectionTypes = {}
  AuthorityArgs = {}
  DelegateArgs <- NoDelegateArgs
  AssetBirths <- MCBareBirths
  CollectionBirths <- MCBareBirths
  U32Max = 1
  MaxLeaves = 2
  GroupKeys = {g1, g2, g3}
  MaxVector = 1
  MaxParents = 1
VIEW groupLedger
SYMMETRY GroupAndAssetSymmetry
INVARIANTS
  TypeOK
  VectorsAreBounded
  SizeNeverOvercounts
CHECK_DEADLOCK FALSE
