SPECIFICATION Spec
CONSTANTS
  w1 = w1
  w2 = w2
  a1 = a1
  c1 = c1
  c2 = c2
  m1 = m1
  NoPlugin = NoPlugin
  Wallets = {w1, w2}
  Assets = {a1}
  Collections = {c1, c2}
  Signers = {w1, w2, c1}
  Metas = {m1}
  PluginTypes = {"UpdateDelegate"}
  AssetTypes = {"UpdateDelegate"}
  CollectionTypes = {"UpdateDelegate"}
  AuthorityArgs <- MCAuthorityArgs
  DelegateArgs <- MCDelegateArgs
  AssetBirths <- MCBirths
  CollectionBirths <- MCBirths
  U32Max = 3
  MaxLeaves = 0
VIEW ledger
SYMMETRY WalletSymmetry
INVARIANTS
  SizeIsExact
  MembersHaveALiveCollection
PROPERTIES
  MembershipSpec
  MembershipNeedsBothSides
  UpdateDelegateIsNotSeized
CHECK_DEADLOCK FALSE
