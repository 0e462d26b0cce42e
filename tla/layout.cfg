SPECIFICATION Spec
CONSTANTS
  freeze = freeze
  groups = groups
  app = app
  oracle = oracle
  Plugins = {freeze, groups}
  Groups = groups
  OwnerManaged = {freeze}
  Adapters = {app, oracle}
  DataAdapters = {app}
  CoreLens = {1, 2}
  PluginLens = {1, 2}
  DataLens = {0, 2}
  RecordLens = {1, 2}
  ShortRecord = 1
  HeaderLen = 1
  RegistryBase = 1
  NoRecord = NoRecord
  Clients = {{}, {freeze, groups, app, oracle}}
  MaxLen = 10
INVARIANTS
  LayoutParses
  NothingIsLeaked
  ClientsReadWhatTheProgramReads
  IndexersCutExactly
PROPERTIES
  ReadsAsAStore
CHECK_DEADLOCK FALSE
