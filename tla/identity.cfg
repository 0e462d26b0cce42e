SPECIFICATION AdaptersSpec
CONSTANTS
  w1 = w1
  w2 = w2
  v1 = v1
  a1 = a1
  c1 = c1
  m1 = m1
  o1 = o1
  NoPlugin = NoPlugin
  NoAdapter = NoAdapter
  Wallets = {w1, v1}
  Assets = {a1}
  Collections = {c1}
  Signers = {w1, v1}
  Metas = {m1}
  PluginTypes = {"PermanentFreezeExecute"}
  AssetTypes = {}
  CollectionTypes = {}
  AuthorityArgs = {}
  DelegateArgs <- NoDelegateArgs
  AssetBirths <- MCBirths
  CollectionBirths <- MCBirths
  U32Max = 3
  MaxLeaves = 0
  AdapterKeys <- MCAllKeys
  HookEvents = {"Execute"}
  CheckArgs <- MCExecuteChecks
  ConfigArgs = {"Base"}
  Blobs = {"Empty", "Text"}
  AdapterBirths <- MCAdapterBirths
  Published = {}
  Verdicts = {}
  AgentWallets = {w1}
  Vault <- MCVault
VIEW adapterLedger
PROPERTIES
  IdentitiesAreAttested
CHECK_DEADLOCK FALSE
