SPECIFICATION Spec
CONSTANTS
  w1 = w1
  w2 = w2
  a1 = a1
  c1 = c1
  m1 = m1
  m2 = m2
  NoPlugin = NoPlugin
  Wallets = {w1, w2}
  Assets = {a1}
  Collections = {c1}
  Signers = {w1, w2}
  Metas = {m1, m2}
  PluginTypes = {"BubblegumV2", "Edition", "PermanentBurnDelegate", "BurnDelegate", "AddBlocker", "ImmutableMetadata", "UpdateDelegate"}
  AssetTypes = {"BubblegumV2", "Edition", "PermanentBurnDelegate", "BurnDelegate", "AddBlocker", "ImmutableMetadata", "UpdateDelegate"}
  CollectionTypes = {"BubblegumV2", "Edition", "PermanentBurnDelegate", "BurnDelegate", "AddBlocker", "ImmutableMetadata", "UpdateDelegate"}
  AuthorityArgs = {}
  DelegateArgs <- AllDelegates
  AssetBirths <- MCBirths
  CollectionBirths <- MCBubblegumBirths
  U32Max = 3
  MaxLeaves = 0
VIEW ledger
SYMMETRY WalletSymmetry
INVARIANTS
  CollectionPluginsAreLawful
PROPERTIES
  AddBlockerHolds
  ImmutableMetadataHolds
  LifelongPluginsStay
  PermanentDelegatesNeverArrive
CHECK_DEADLOCK FALSE
