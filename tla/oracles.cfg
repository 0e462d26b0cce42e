SPECIFICATION AdaptersSpec
CONSTANTS
  w1 = w1
  w2 = w2
  v1 = v1
  a1 = a1
  c1 = c1
  m1 = m1
  m2 = m2
  o1 = o1
  NoPlugin = NoPlugin
  NoAdapter = NoAdapter
  Wallets = {w1, v1}
  Assets = {a1}
  Collections = {c1}
  Signers = {w1, v1}
  Metas = {m1}
  PluginTypes = {"PermanentTransferDelegate", "BubblegumV2"}
  AssetTypes = {}
  CollectionTypes = {}
  AuthorityArgs = {"Owner"}
  DelegateArgs <- NoDelegateArgs
  AssetBirths <- MCBirths
  CollectionBirths <- MCBirths
  U32Max = 3
  MaxLeaves = 0
  AdapterKeys <- MCOracleKeys
  HookEvents = {"Create", "Transfer", "Burn", "Update"}
  CheckArgs <- MCOracleChecks
  ConfigArgs = {"Base", "Collection"}
  Blobs = {"Empty"}
  AdapterBirths <- MCAdapterBirths
  Published <- MCPublished
  Verdicts <- MCVerdicts
  AgentWallets = {}
  Vault <- MCVault
VIEW adapterLedger
INVARIANTS
  BubblegumCollectionsAreBare
PROPERTIES
  OraclesAreHeard
  AdaptersAreManaged
CHECK_DEADLOCK FALSE
