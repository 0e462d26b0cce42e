SPECIFICATION GroupsSpec
CONSTANTS
  w1 = w1
  w2 = w2
  a1 = a1
  c1 = c1
  g1 = g1
  g2 = g2
  m1 = m1
  NoPlugin = NoPlugin
  Wallets = {w1, w2}
  Assets = {a1}
  Collections = {c1}
  Signers = {w1, w2}
  Metas = {m1}
  PluginTypes = {"UpdateDelegate", "PermanentBurnDelegate"}
  AssetTypes = {"PermanentBurnDelegate"}
  CollectionTypes = {"PermanentBurnDelegate"}
  AuthorityArgs = {}
  DelegateArgs <- OneDelegate
  AssetBirths <- MCBirths
  CollectionBirths <- MCBirths
  U32Max = 3
  MaxLeaves = 0
  GroupKeys = {g1, g2}
  MaxVector = 2
  MaxParents = 2
VIEW groupLedger
SYMMETRY GroupAndWalletSymmetry
INVARIANTS
  GroupsTypeOK
  LinksAreMutual
PROPERTIES
  GraphSpec
  MembersAreBurnedOnlyByForce
  LinksNeedBothEnds
CHECK_DEADLOCK FALSE
