---------------------------- MODULE AdaptersProofs ----------------------------
(***************************************************************************)
(* Theorems about Adapters, for any number of accounts, adapters, oracles  *)
(* and agents, and whatever other programs publish.                        *)
(***************************************************************************)
EXTENDS AdaptersProperties, MplCorePluginProofs

-----------------------------------------------------------------------------
(* The ledger under adapters *)

\* An instruction leaves the ledger alone, or is one of its instructions, by the
\* same signer.
LEMMA InstructionOnLedger ==
  ASSUME NEW s \in Signers, Instruction(s)
  PROVE  UNCHANGED vars \/ (Next /\ ix'.by = s)
<1>1. ASSUME NEW k \in Accounts, AdapterInstruction(s, k)
      PROVE  UNCHANGED vars
  BY <1>1 DEF AdapterInstruction, AddExternalPluginAdapter,
       UpdateExternalPluginAdapter, RemoveExternalPluginAdapter, WriteAppData,
       WriteLinkedData
<1>2. ASSUME NEW k \in Accounts, HookedBurn(s, k)
      PROVE  Next /\ ix'.by = s
  BY <1>2 DEF HookedBurn, Burn, BurnCollection, Record, Next, AssetInstruction,
       CollectionInstruction
<1>3. ASSUME NEW k, NEW types, PluginInstruction(s, k, types)
      PROVE  ix'.by = s
  <2>1. \A op : PluginStep(op, s, k) => ix'.by = s
    BY DEF PluginStep, Record
  <2>2. PICK p \in types :
          \/ \E rec \in PluginArgs(p) : AddPlugin(s, k, p, rec)
          \/ RemovePlugin(s, k, p)
          \/ \E arg \in PluginArgs(p) : UpdatePlugin(s, k, p, arg)
          \/ \E auth \in AuthorityArgs : ApprovePluginAuthority(s, k, p, auth)
          \/ RevokePluginAuthority(s, k, p)
    BY <1>3 DEF PluginInstruction
  <2>3. \A rec : AddPlugin(s, k, p, rec) => PluginStep("AddPlugin", s, k)
    BY DEF AddPlugin
  <2>4. RemovePlugin(s, k, p) => PluginStep("RemovePlugin", s, k)
    BY DEF RemovePlugin
  <2>5. \A arg : UpdatePlugin(s, k, p, arg) => PluginStep("UpdatePlugin", s, k)
    BY DEF UpdatePlugin
  <2>6. \A auth : ApprovePluginAuthority(s, k, p, auth)
                  => PluginStep("ApprovePluginAuthority", s, k)
    BY DEF ApprovePluginAuthority
  <2>7. RevokePluginAuthority(s, k, p) => PluginStep("RevokePluginAuthority", s, k)
    BY DEF RevokePluginAuthority
  <2> QED
    BY <2>1, <2>2, <2>3, <2>4, <2>5, <2>6, <2>7
<1>4. ASSUME NEW a \in Assets, HookedAssetInstruction(s, a)
      PROVE  Next /\ ix'.by = s
  <2>1. AssetInstruction(s, a)
    BY <1>4 DEF HookedAssetInstruction, AssetInstruction
  <2>2. ix'.by = s
    BY <1>3, <1>4 DEF HookedAssetInstruction, Transfer, Update, Record
  <2> QED
    BY <2>1, <2>2 DEF Next
<1>5. ASSUME NEW c \in Collections, HookedCollectionInstruction(s, c)
      PROVE  Next /\ ix'.by = s
  <2>1. CollectionInstruction(s, c)
    BY <1>5 DEF HookedCollectionInstruction, CollectionInstruction
  <2>2. ix'.by = s
    BY <1>3, <1>5 DEF HookedCollectionInstruction, UpdateCollection, Record
  <2> QED
    BY <2>1, <2>2 DEF Next
<1>6. ASSUME NEW attested, Births(s, attested)
      PROVE  Next /\ ix'.by = s
  <2>1. PICK k \in Accounts, u \in Wallets \cup Collections,
             ad \in AdapterBirths, m \in Metas :
          \/ k \in Assets /\ \E o \in Wallets, pl \in AssetBirths :
               HookedCreate(s, k, o, u, pl, m, ad, attested)
          \/ k \in Collections /\ u \in Wallets /\ \E pl \in CollectionBirths :
               HookedCreateCollection(s, k, u, pl, m, ad)
    BY <1>6 DEF Births
  <2>2. CASE k \in Assets /\ \E o \in Wallets, pl \in AssetBirths :
               HookedCreate(s, k, o, u, pl, m, ad, attested)
    <3>1. PICK o \in Wallets, pl \in AssetBirths : CreateV2(s, k, o, u, pl, m)
      BY <2>2 DEF HookedCreate
    <3>2. AssetInstruction(s, k)
      BY <3>1, <2>1 DEF AssetInstruction
    <3> QED
      BY <2>2, <3>1, <3>2 DEF Next, CreateV2, Record
  <2>3. CASE k \in Collections /\ u \in Wallets /\ \E pl \in CollectionBirths :
               HookedCreateCollection(s, k, u, pl, m, ad)
    <3>1. PICK pl \in CollectionBirths : CreateCollectionV2(s, k, u, pl, m)
      BY <2>3 DEF HookedCreateCollection
    <3>2. CollectionInstruction(s, k)
      BY <3>1, <2>1, <2>3 DEF CollectionInstruction
    <3> QED
      BY <2>3, <3>1, <3>2 DEF Next, CreateCollectionV2, Record
  <2> QED
    BY <2>1, <2>2, <2>3
<1> QED
  BY <1>1, <1>2, <1>4, <1>5, <1>6 DEF Instruction, CoreInstruction

\* What happens outside of the instructions.
LEMMA OtherStepsOnLedger ==
  ASSUME AdaptersNext,
         ~ \E s \in Signers \ Vaults : Instruction(s) /\ caller' = "None",
         ~ \E s \in Signers \ Vaults, a \in Assets : Execute(s, a)
  PROVE  \/ UNCHANGED vars
         \/ \E c \in Collections, type \in { "Mint", "Add", "Remove" },
               amount \in 1 .. MaxLeaves :
              UpdateCollectionInfo(c, type, amount) /\ UNCHANGED registry
  BY DEF AdaptersNext, PublishOracle, SetAgent

LEMMA VaultType == ASSUME NEW a \in Assets PROVE Vault[a] \in Signers
  BY AdapterArgsAssumption

LEMMA AdaptersStepIsLedgerStep == [AdaptersNext]_adapterVars => [Next]_vars
<1> SUFFICES ASSUME [AdaptersNext]_adapterVars PROVE [Next]_vars
  OBVIOUS
<1>1. CASE UNCHANGED adapterVars
  BY <1>1 DEF adapterVars
<1>2. ASSUME NEW s \in Signers, Instruction(s) PROVE [Next]_vars
  BY <1>2, InstructionOnLedger
<1>3. ASSUME NEW s, NEW a \in Assets, Execute(s, a) PROVE [Next]_vars
  BY <1>2, <1>3, VaultType DEF Execute
<1>4. CASE \E c \in Collections, type \in { "Mint", "Add", "Remove" },
              amount \in 1 .. MaxLeaves :
             UpdateCollectionInfo(c, type, amount) /\ UNCHANGED registry
  BY <1>4 DEF Next
<1> QED
  BY <1>1, <1>2, <1>3, <1>4, OtherStepsOnLedger

\* Adapters restrict the ledger and add nothing to it: what holds of the ledger
\* by itself holds of the ledger under adapters and executions.
THEOREM AdaptersRefineLedger == AdaptersSpec => Spec
<1>1. AdaptersInit => Init
  BY DEF AdaptersInit
<1> QED
  BY <1>1, AdaptersStepIsLedgerStep, PTL DEF AdaptersSpec, Spec

-----------------------------------------------------------------------------
(* What is registered, and by what right *)

\* What may stand on account k.
Rightful(k, ad) ==
  \A key \in AdapterKeys : ad[key] # NoAdapter =>
    /\ key.type \notin { "LifecycleHook", "LinkedLifecycleHook" }
    /\ key.type = "LinkedAppData" => k \in Collections
    /\ key.type = "AgentIdentity" => k \in Assets

LEMMA AssetOrCollection ==
  ASSUME NEW k \in Accounts
  PROVE  /\ k \in Assets \/ k \in Collections
         /\ ~(k \in Assets /\ k \in Collections)
  BY KeysAssumption DEF Accounts

LEMMA NoAdaptersType == ASSUME NEW k PROVE NoAdapters \in AdapterMaps /\ Rightful(k, NoAdapters)
  BY DEF NoAdapters, AdapterMaps, Rightful

LEMMA MayCarryIsRightful ==
  ASSUME NEW k \in Accounts, NEW type, MayCarry(k, type)
  PROVE  /\ type \notin { "LifecycleHook", "LinkedLifecycleHook" }
         /\ type = "LinkedAppData" => k \in Collections
         /\ type = "AgentIdentity" => k \in Assets
  BY AssetOrCollection DEF MayCarry

\* The step of an account whose adapters become ad.
LEMMA OneAccountChanges ==
  ASSUME AdaptersTypeOK, NEW k \in Accounts, NEW ad \in AdapterMaps,
         adapters' = [adapters EXCEPT ![k] = ad], Rightful(k, ad),
         ad = NoAdapters \/ stage'[k] = "Live",
         \A j \in Accounts \ { k } : stage'[j] = stage[j],
         UNCHANGED << oracles, agents >>
  PROVE  AdaptersTypeOK'
<1>1. adapters' \in [Accounts -> AdapterMaps]
  BY DEF AdaptersTypeOK
<1>2. ASSUME NEW j \in Accounts, NEW key \in AdapterKeys,
             adapters'[j][key] # NoAdapter
      PROVE  /\ stage'[j] = "Live"
             /\ key.type \notin { "LifecycleHook", "LinkedLifecycleHook" }
             /\ key.type = "LinkedAppData" => j \in Collections
             /\ key.type = "AgentIdentity" => j \in Assets
  <2>1. CASE j = k
    <3>1. adapters'[k] = ad /\ ad # NoAdapters
      BY <1>2, <2>1 DEF AdaptersTypeOK, NoAdapters
    <3> QED
      BY <1>2, <2>1, <3>1 DEF Rightful
  <2>2. CASE j # k
    <3>1. adapters'[j] = adapters[j]
      BY <2>2 DEF AdaptersTypeOK
    <3> QED
      BY <1>2, <2>2, <3>1 DEF AdaptersTypeOK, Registered, Live
  <2> QED
    BY <2>1, <2>2
<1> QED
  BY <1>1, <1>2 DEF AdaptersTypeOK, Registered, Live

\* The step that writes one record.
LEMMA OneRecordChanges ==
  ASSUME AdaptersTypeOK, NEW k \in Accounts, NEW key \in AdapterKeys,
         NEW rec \in AdapterRecord \cup { NoAdapter },
         SetAdapter(k, key, rec), Live(k), UNCHANGED << stage, oracles, agents >>,
         rec = NoAdapter \/
           /\ key.type \notin { "LifecycleHook", "LinkedLifecycleHook" }
           /\ key.type = "LinkedAppData" => k \in Collections
           /\ key.type = "AgentIdentity" => k \in Assets
  PROVE  AdaptersTypeOK'
<1> DEFINE ad == [adapters[k] EXCEPT ![key] = rec]
<1>1. adapters[k] \in AdapterMaps
  BY DEF AdaptersTypeOK
<1>2. ad \in AdapterMaps
  BY <1>1 DEF AdapterMaps
<1>3. adapters' = [adapters EXCEPT ![k] = ad]
  BY DEF SetAdapter
<1>4. Rightful(k, ad)
  <2> SUFFICES ASSUME NEW q \in AdapterKeys, ad[q] # NoAdapter
               PROVE  /\ q.type \notin { "LifecycleHook", "LinkedLifecycleHook" }
                      /\ q.type = "LinkedAppData" => k \in Collections
                      /\ q.type = "AgentIdentity" => k \in Assets
    BY DEF Rightful
  <2>1. ad[q] = IF q = key THEN rec ELSE adapters[k][q]
    BY <1>1 DEF AdapterMaps
  <2> QED
    BY <2>1 DEF AdaptersTypeOK, Registered
<1> HIDE DEF ad
<1> QED
  BY <1>2, <1>3, <1>4, OneAccountChanges DEF Live

\* A record that is there, and what may become of it.
LEMMA RecordType ==
  ASSUME AdaptersTypeOK, NEW k \in Accounts, NEW key \in AdapterKeys,
         adapters[k][key] # NoAdapter
  PROVE  /\ adapters[k][key] \in AdapterRecord
         /\ \A blob \in Blobs :
              [adapters[k][key] EXCEPT !.data = blob] \in AdapterRecord
         /\ \A checks \in Checks, config \in Configs :
              [adapters[k][key] EXCEPT !.checks = checks, !.config = config]
                \in AdapterRecord
<1>1. adapters[k][key] \in AdapterRecord
  BY DEF AdaptersTypeOK, AdapterMaps
<1> QED
  BY <1>1 DEF AdapterRecord

LEMMA AdapterInstructionType ==
  ASSUME AdaptersTypeOK, NEW s \in Signers, NEW k \in Accounts,
         AdapterInstruction(s, k)
  PROVE  AdaptersTypeOK'
<1>1. CheckArgs \cup { {} } \subseteq Checks /\ ConfigArgs \subseteq Configs
  BY AdapterArgsAssumption DEF Checks
<1>2. AuthorityArgs \cup { "UpdateAuthority" } \subseteq Authorities
      /\ "Empty" \in Blobs
  BY ArgsAssumption, AdapterArgsAssumption DEF Authorities
<1>3. ASSUME NEW key \in AdapterKeys,
             NEW auth \in AuthorityArgs \cup { "UpdateAuthority" },
             NEW checks \in CheckArgs \cup { {} }, NEW config \in ConfigArgs,
             NEW attested \in BOOLEAN,
             AddExternalPluginAdapter(s, k, key,
               [auth |-> auth, checks |-> checks, config |-> config,
                data |-> "Empty"], attested)
      PROVE  AdaptersTypeOK'
  <2> DEFINE rec == [auth |-> auth, checks |-> checks, config |-> config,
                     data |-> "Empty"]
  <2>1. rec \in AdapterRecord /\ [rec EXCEPT !.data = "Empty"] = rec
    BY <1>1, <1>2 DEF AdapterRecord
  <2>2. /\ SetAdapter(k, key, rec) /\ Live(k) /\ MayCarry(k, key.type)
        /\ UNCHANGED << stage, oracles, agents >>
    BY <1>3, <2>1 DEF AddExternalPluginAdapter, vars
  <2> HIDE DEF rec
  <2> QED
    BY <2>1, <2>2, MayCarryIsRightful, OneRecordChanges
<1>4. ASSUME NEW key \in AdapterKeys, NEW checks \in CheckArgs \cup { {} },
             NEW config \in ConfigArgs,
             UpdateExternalPluginAdapter(s, k, key, checks, config)
      PROVE  AdaptersTypeOK'
  <2> DEFINE rec == [adapters[k][key] EXCEPT !.checks = checks, !.config = config]
  <2>1. /\ SetAdapter(k, key, rec) /\ Live(k) /\ adapters[k][key] # NoAdapter
        /\ UNCHANGED << stage, oracles, agents >>
    BY <1>4 DEF UpdateExternalPluginAdapter, vars
  <2>2. rec \in AdapterRecord
    BY <1>1, <2>1, RecordType
  <2>3. /\ key.type \notin { "LifecycleHook", "LinkedLifecycleHook" }
        /\ key.type = "LinkedAppData" => k \in Collections
        /\ key.type = "AgentIdentity" => k \in Assets
    BY <2>1 DEF AdaptersTypeOK, Registered
  <2> HIDE DEF rec
  <2> QED
    BY <2>1, <2>2, <2>3, OneRecordChanges
<1>5. ASSUME NEW key \in AdapterKeys, RemoveExternalPluginAdapter(s, k, key)
      PROVE  AdaptersTypeOK'
  BY <1>5, OneRecordChanges DEF RemoveExternalPluginAdapter, vars
<1>6. ASSUME NEW key \in AdapterKeys, NEW blob \in Blobs, WriteAppData(s, k, key, blob)
      PROVE  AdaptersTypeOK'
  <2> DEFINE rec == [adapters[k][key] EXCEPT !.data = blob]
  <2>1. /\ SetAdapter(k, key, rec) /\ Live(k) /\ adapters[k][key] # NoAdapter
        /\ UNCHANGED << stage, oracles, agents >>
    BY <1>6 DEF WriteAppData, vars
  <2>2. rec \in AdapterRecord
    BY <2>1, RecordType
  <2>3. key.type = "AppData"
    BY <1>6 DEF WriteAppData
  <2> HIDE DEF rec
  <2> QED
    BY <2>1, <2>2, <2>3, OneRecordChanges
<1>7. ASSUME NEW key \in AdapterKeys, NEW blob \in Blobs, NEW c \in Collections,
             WriteLinkedData(s, k, c, key, blob)
      PROVE  AdaptersTypeOK'
  <2> DEFINE old == adapters[k][Section(key)]
             rec == IF old = NoAdapter THEN NewSection(blob)
                    ELSE [old EXCEPT !.data = blob]
  <2>1. /\ SetAdapter(k, Section(key), rec) /\ Live(k)
        /\ UNCHANGED << stage, oracles, agents >>
    BY <1>7 DEF WriteLinkedData, vars
  <2>2. Section(key) \in AdapterKeys /\ Section(key).type = "DataSection"
    BY <1>7, AdapterKeysAssumption DEF WriteLinkedData, Section
  <2>3. NewSection(blob) \in AdapterRecord
    BY DEF NewSection, AdapterRecord, Authorities, Checks, Configs
  <2>4. rec \in AdapterRecord
    BY <2>2, <2>3, RecordType
  <2> HIDE DEF rec
  <2> QED
    BY <2>1, <2>2, <2>4, OneRecordChanges
<1> QED
  BY <1>3, <1>4, <1>5, <1>6, <1>7 DEF AdapterInstruction

\* A step that leaves the adapters and the stages alone.
LEMMA NoAdapterChanges ==
  ASSUME AdaptersTypeOK, UNCHANGED << stage, adapters >>,
         oracles' \in [OracleAccounts -> SUBSET (HookEvents \cup { "Uninitialized" })],
         agents' \subseteq Assets \X Wallets
  PROVE  AdaptersTypeOK'
  BY DEF AdaptersTypeOK, Registered, Live

\* An account's stage is its own.
LEMMA OneStageChanges ==
  ASSUME TypeOK, NEW k \in Accounts, NEW to, stage' = [stage EXCEPT ![k] = to]
  PROVE  stage'[k] = to /\ \A j \in Accounts \ { k } : stage'[j] = stage[j]
  BY DEF TypeOK

LEMMA HookedBurnType ==
  ASSUME TypeOK, AdaptersTypeOK, NEW s, NEW k \in Accounts, HookedBurn(s, k)
  PROVE  AdaptersTypeOK'
<1>1. /\ adapters' = [adapters EXCEPT ![k] = NoAdapters]
      /\ UNCHANGED << oracles, agents >>
      /\ Burn(s, k) \/ BurnCollection(s, k)
  BY DEF HookedBurn
<1>2. stage' = [stage EXCEPT ![k] = "Closed"]
  BY <1>1 DEF Burn, BurnCollection, Close
<1> QED
  BY <1>1, <1>2, NoAdaptersType, OneStageChanges, OneAccountChanges

LEMMA CoreInstructionKeepsStages ==
  ASSUME TypeOK, NEW s, CoreInstruction(s)
  PROVE  UNCHANGED stage /\ UNCHANGED registry
<1>1. AssetTypes \in SUBSET PluginTypes /\ CollectionTypes \in SUBSET PluginTypes
  BY ArgsAssumption
<1>2. ASSUME NEW a \in Assets, HookedAssetInstruction(s, a) PROVE UNCHANGED stage
  <2>1. a \in Accounts
    BY DEF Accounts
  <2> QED
    BY <1>1, <1>2, <2>1, PluginInstructionWritesOneRecord
    DEF HookedAssetInstruction, Transfer, Update
<1>3. ASSUME NEW c \in Collections, HookedCollectionInstruction(s, c)
      PROVE  UNCHANGED stage
  <2>1. c \in Accounts
    BY DEF Accounts
  <2> QED
    BY <1>1, <1>3, <2>1, PluginInstructionWritesOneRecord
    DEF HookedCollectionInstruction, UpdateCollection
<1> QED
  BY <1>2, <1>3 DEF CoreInstruction

LEMMA BornWellIsRightful ==
  ASSUME NEW k \in Accounts, NEW ad, NEW x, NEW attested, BornWell(k, ad, x, attested)
  PROVE  Rightful(k, ad)
  BY MayCarryIsRightful DEF BornWell, Rightful

LEMMA BirthsType ==
  ASSUME TypeOK, AdaptersTypeOK, NEW s, NEW attested, Births(s, attested)
  PROVE  AdaptersTypeOK'
<1>1. PICK k \in Accounts, u \in Wallets \cup Collections,
           ad \in AdapterBirths, m \in Metas :
        \/ k \in Assets /\ \E o \in Wallets, pl \in AssetBirths :
             HookedCreate(s, k, o, u, pl, m, ad, attested)
        \/ k \in Collections /\ u \in Wallets /\ \E pl \in CollectionBirths :
             HookedCreateCollection(s, k, u, pl, m, ad)
  BY DEF Births
<1>2. ad \in AdapterMaps
  BY AdapterArgsAssumption
<1> SUFFICES /\ adapters' = [adapters EXCEPT ![k] = ad]
             /\ Rightful(k, ad)
             /\ stage' = [stage EXCEPT ![k] = "Live"]
             /\ UNCHANGED << oracles, agents >>
  BY <1>2, OneStageChanges, OneAccountChanges
<1>3. CASE k \in Assets /\ \E o \in Wallets, pl \in AssetBirths :
             HookedCreate(s, k, o, u, pl, m, ad, attested)
  BY <1>3, BornWellIsRightful DEF HookedCreate, CreateV2
<1>4. CASE k \in Collections /\ u \in Wallets /\ \E pl \in CollectionBirths :
             HookedCreateCollection(s, k, u, pl, m, ad)
  BY <1>4, BornWellIsRightful DEF HookedCreateCollection, CreateCollectionV2
<1> QED
  BY <1>1, <1>3, <1>4

LEMMA InstructionType ==
  ASSUME TypeOK, AdaptersTypeOK, NEW s \in Signers, Instruction(s)
  PROVE  AdaptersTypeOK'
<1>1. ASSUME CoreInstruction(s) PROVE AdaptersTypeOK'
  <2>1. UNCHANGED stage /\ UNCHANGED registry
    BY <1>1, CoreInstructionKeepsStages
  <2> QED
    BY <2>1, NoAdapterChanges DEF registry, AdaptersTypeOK
<1> QED
  BY <1>1, AdapterInstructionType, HookedBurnType, BirthsType DEF Instruction

LEMMA AdaptersInitType == AdaptersInit => AdaptersTypeOK
<1> SUFFICES ASSUME AdaptersInit PROVE AdaptersTypeOK
  OBVIOUS
<1>1. \A k \in Accounts, key \in AdapterKeys : adapters[k][key] = NoAdapter
  BY DEF AdaptersInit, NoAdapters
<1>2. adapters \in [Accounts -> AdapterMaps]
  BY NoAdaptersType DEF AdaptersInit
<1> QED
  BY <1>1, <1>2 DEF AdaptersInit, AdaptersTypeOK, Registered

LEMMA AdaptersStepType ==
  TypeOK /\ AdaptersTypeOK /\ [AdaptersNext]_adapterVars => AdaptersTypeOK'
<1> SUFFICES ASSUME TypeOK, AdaptersTypeOK, [AdaptersNext]_adapterVars
             PROVE  AdaptersTypeOK'
  OBVIOUS
<1>1. CASE UNCHANGED adapterVars
  BY <1>1, NoAdapterChanges DEF adapterVars, vars, AdaptersTypeOK
<1>2. CASE UNCHANGED << vars, registry >>
  BY <1>2, NoAdapterChanges DEF registry, vars, AdaptersTypeOK
<1>3. ASSUME NEW s, NEW a \in Assets, Execute(s, a) PROVE AdaptersTypeOK'
  BY <1>2, <1>3, VaultType, InstructionType DEF Execute
<1>4. CASE \E c \in Collections, type \in { "Mint", "Add", "Remove" },
              amount \in 1 .. MaxLeaves :
             UpdateCollectionInfo(c, type, amount) /\ UNCHANGED registry
  BY <1>4, NoAdapterChanges DEF UpdateCollectionInfo, registry, AdaptersTypeOK
<1>5. ASSUME NEW o \in Published, NEW events \in Verdicts, PublishOracle(o, events)
      PROVE  AdaptersTypeOK'
  <2>1. o \in OracleAccounts /\ events \in SUBSET HookEvents
    BY AdapterArgsAssumption
  <2> QED
    BY <1>5, <2>1, NoAdapterChanges DEF PublishOracle, vars, AdaptersTypeOK
<1>6. ASSUME NEW a \in Assets, NEW w \in AgentWallets, SetAgent(a, w)
      PROVE  AdaptersTypeOK'
  <2>1. w \in Wallets
    BY AdapterArgsAssumption
  <2> QED
    BY <1>6, <2>1, NoAdapterChanges DEF SetAgent, vars, AdaptersTypeOK
<1> QED
  BY <1>1, <1>3, <1>4, <1>5, <1>6, InstructionType DEF AdaptersNext

\* Every step of the detailed specification keeps both type invariants.
LEMMA AdaptersTypesHold == AdaptersSpec => [](TypeOK /\ AdaptersTypeOK)
<1>1. AdaptersInit => TypeOK /\ AdaptersTypeOK
  BY InitType, AdaptersInitType DEF AdaptersInit
<1>2. TypeOK /\ AdaptersTypeOK /\ [AdaptersNext]_adapterVars
      => (TypeOK /\ AdaptersTypeOK)'
  BY StepType, AdaptersStepIsLedgerStep, AdaptersStepType
<1> QED
  BY <1>1, <1>2, PTL DEF AdaptersSpec

\* An adapter stands only on a live account, and only where its type belongs,
\* for any set of adapters and however the instructions, births and executions
\* are mixed.
THEOREM AdaptersTypeCorrect == AdaptersSpec => []AdaptersTypeOK
  BY AdaptersTypesHold, PTL

-----------------------------------------------------------------------------
(* Bubblegum *)

IsBubblegum(c) == Carries(plugins[c], { "BubblegumV2" })

\* A collection with BubblegumV2 has it from its birth.
LEMMA BubblegumIsOld ==
  ASSUME TypeOK, [Next]_vars, NEW c \in Collections, IsBubblegum(c)', stage' = stage
  PROVE  IsBubblegum(c)
<1>1. c \in Accounts
  BY DEF Accounts
<1>2. PICK p \in PluginTypes \cap { "BubblegumV2" } : plugins'[c][p] # NoPlugin
  BY DEF IsBubblegum, Carries
<1>3. CASE Live(c)
  <2>1. p \in PluginTypes \cap BornOnly /\ stage'[c] = "Live"
    BY <1>2, <1>3 DEF BornOnly, Live
  <2>2. plugins[c][p] # NoPlugin
    BY <1>1, <1>2, <1>3, <2>1, BornOnlyNeverAdded
  <2> QED
    BY <2>2 DEF IsBubblegum, Carries
<1>4. CASE ~Live(c)
  <2>1. plugins'[c] = plugins[c] \/ plugins'[c] = NoPlugins
    BY <1>4, CollectionBornOrGone DEF Live
  <2>2. plugins'[c] = plugins[c]
    BY <1>2, <2>1 DEF NoPlugins
  <2> QED
    BY <1>2, <2>2 DEF IsBubblegum, Carries
<1> QED
  BY <1>3, <1>4

\* Every instruction about the adapters of a collection needs it to be another.
LEMMA AdaptersOfAnotherCollection ==
  ASSUME AdaptersTypeOK, BubblegumCollectionsAreBare,
         NEW s, NEW k \in Accounts, AdapterInstruction(s, k)
  PROVE  /\ k \in Collections => ~IsBubblegum(k)
         /\ UNCHANGED vars
         /\ \A j \in Accounts \ { k } : adapters'[j] = adapters[j]
<1>1. \A c \in Collections, key \in AdapterKeys :
        adapters[c][key] # NoAdapter => ~IsBubblegum(c)
  BY DEF BubblegumCollectionsAreBare, IsBubblegum, NoAdapters
<1>2. \A key, rec : SetAdapter(k, key, rec) =>
        \A j \in Accounts \ { k } : adapters'[j] = adapters[j]
  BY DEF SetAdapter, AdaptersTypeOK
<1> DEFINE Goal == /\ k \in Collections => ~IsBubblegum(k)
                   /\ UNCHANGED vars
                   /\ \A j \in Accounts \ { k } : adapters'[j] = adapters[j]
<1>3. ASSUME NEW key \in AdapterKeys, NEW rec, NEW attested,
             AddExternalPluginAdapter(s, k, key, rec, attested)
      PROVE  Goal
  BY <1>2, <1>3 DEF AddExternalPluginAdapter, BubblegumAllows, IsBubblegum
<1>4. ASSUME NEW key \in AdapterKeys, NEW checks, NEW config,
             UpdateExternalPluginAdapter(s, k, key, checks, config)
      PROVE  Goal
  BY <1>1, <1>2, <1>4 DEF UpdateExternalPluginAdapter
<1>5. ASSUME NEW key \in AdapterKeys, RemoveExternalPluginAdapter(s, k, key)
      PROVE  Goal
  BY <1>1, <1>2, <1>5 DEF RemoveExternalPluginAdapter
<1>6. ASSUME NEW key \in AdapterKeys, NEW blob, WriteAppData(s, k, key, blob)
      PROVE  Goal
  BY <1>1, <1>2, <1>6 DEF WriteAppData
<1>7. ASSUME NEW key \in AdapterKeys, NEW blob, NEW c \in Collections,
             WriteLinkedData(s, k, c, key, blob)
      PROVE  Goal
  <2>1. k \in Collections => c = k
    BY <1>7, AssetOrCollection DEF WriteLinkedData, MayPass
  <2>2. adapters[c][key] # NoAdapter /\ UNCHANGED vars
    BY <1>7 DEF WriteLinkedData
  <2>3. \A j \in Accounts \ { k } : adapters'[j] = adapters[j]
    BY <1>2, <1>7 DEF WriteLinkedData
  <2> QED
    BY <1>1, <2>1, <2>2, <2>3
<1> HIDE DEF Goal
<1>8. Goal
  BY <1>3, <1>4, <1>5, <1>6, <1>7 DEF AdapterInstruction
<1> QED
  BY <1>8 DEF Goal

LEMMA InstructionKeepsBare ==
  ASSUME TypeOK, AdaptersTypeOK, BubblegumCollectionsAreBare,
         NEW s \in Signers, Instruction(s)
  PROVE  BubblegumCollectionsAreBare'
<1> SUFFICES ASSUME NEW c \in Collections, IsBubblegum(c)'
             PROVE  adapters'[c] = NoAdapters
  BY DEF BubblegumCollectionsAreBare, IsBubblegum
<1>0. c \in Accounts /\ c \notin Assets /\ adapters \in [Accounts -> AdapterMaps]
  BY KeysAssumption DEF Accounts, AdaptersTypeOK
<1>a. [Next]_vars
  BY InstructionOnLedger
<1>b. IsBubblegum(c) => adapters[c] = NoAdapters
  BY DEF BubblegumCollectionsAreBare, IsBubblegum
<1>c. plugins'[c] # NoPlugins /\ plugins \in [Accounts -> PluginMaps]
  BY DEF IsBubblegum, Carries, NoPlugins, TypeOK
<1>d. plugins'[c] = plugins[c] => IsBubblegum(c)
  BY DEF IsBubblegum
<1>1. ASSUME NEW k \in Accounts, AdapterInstruction(s, k)
      PROVE  adapters'[c] = NoAdapters
  <2>1. /\ k \in Collections => ~IsBubblegum(k)
        /\ UNCHANGED vars
        /\ \A j \in Accounts \ { k } : adapters'[j] = adapters[j]
    BY <1>1, AdaptersOfAnotherCollection
  <2>2. IsBubblegum(c)
    BY <1>d, <2>1 DEF vars
  <2> QED
    BY <1>0, <1>b, <2>1, <2>2
<1>2. ASSUME NEW k \in Accounts, HookedBurn(s, k) PROVE adapters'[c] = NoAdapters
  <2>1. /\ adapters' = [adapters EXCEPT ![k] = NoAdapters]
        /\ plugins' = [plugins EXCEPT ![k] = NoPlugins]
    BY <1>2 DEF HookedBurn, Burn, BurnCollection, Close
  <2> QED
    BY <1>0, <1>b, <1>c, <1>d, <2>1
<1>3. ASSUME CoreInstruction(s) PROVE adapters'[c] = NoAdapters
  <2>1. UNCHANGED stage /\ UNCHANGED registry
    BY <1>3, CoreInstructionKeepsStages
  <2>2. IsBubblegum(c)
    BY <1>a, <2>1, BubblegumIsOld
  <2> QED
    BY <1>b, <2>1, <2>2 DEF registry
<1>4. ASSUME NEW attested, Births(s, attested) PROVE adapters'[c] = NoAdapters
  <2>1. PICK k \in Accounts, u \in Wallets \cup Collections,
             ad \in AdapterBirths, m \in Metas :
          \/ k \in Assets /\ \E o \in Wallets, pl \in AssetBirths :
               HookedCreate(s, k, o, u, pl, m, ad, attested)
          \/ k \in Collections /\ u \in Wallets /\ \E pl \in CollectionBirths :
               HookedCreateCollection(s, k, u, pl, m, ad)
    BY <1>4 DEF Births
  <2>2. CASE k \in Assets /\ \E o \in Wallets, pl \in AssetBirths :
               HookedCreate(s, k, o, u, pl, m, ad, attested)
    <3>1. PICK pl \in AssetBirths : /\ plugins' = [plugins EXCEPT ![k] = pl]
                                    /\ adapters' = [adapters EXCEPT ![k] = ad]
      BY <2>2 DEF HookedCreate, CreateV2
    <3> QED
      BY <1>0, <1>b, <1>c, <1>d, <2>2, <3>1
  <2>3. CASE k \in Collections /\ u \in Wallets /\ \E pl \in CollectionBirths :
               HookedCreateCollection(s, k, u, pl, m, ad)
    <3>1. PICK pl \in CollectionBirths :
            /\ plugins' = [plugins EXCEPT ![k] = pl]
            /\ adapters' = [adapters EXCEPT ![k] = ad]
            /\ ad # NoAdapters => ~Carries(pl, { "BubblegumV2" })
      BY <2>3 DEF HookedCreateCollection, CreateCollectionV2
    <3>2. CASE k = c
      <4>1. plugins'[c] = pl /\ adapters'[c] = ad
        BY <1>0, <1>c, <3>1, <3>2
      <4> QED
        BY <3>1, <4>1 DEF IsBubblegum
    <3>3. CASE k # c
      BY <1>0, <1>b, <1>c, <1>d, <3>1, <3>3
    <3> QED
      BY <3>2, <3>3
  <2> QED
    BY <2>1, <2>2, <2>3
<1> QED
  BY <1>1, <1>2, <1>3, <1>4 DEF Instruction

\* A step that leaves the plugins and the adapters alone.
LEMMA BareStays ==
  ASSUME BubblegumCollectionsAreBare, UNCHANGED << plugins, adapters >>
  PROVE  BubblegumCollectionsAreBare'
  BY DEF BubblegumCollectionsAreBare

LEMMA StepKeepsBare ==
  TypeOK /\ AdaptersTypeOK /\ BubblegumCollectionsAreBare
    /\ [AdaptersNext]_adapterVars => BubblegumCollectionsAreBare'
<1> SUFFICES ASSUME TypeOK, AdaptersTypeOK, BubblegumCollectionsAreBare,
                    [AdaptersNext]_adapterVars
             PROVE  BubblegumCollectionsAreBare'
  OBVIOUS
<1>1. CASE UNCHANGED adapterVars
  BY <1>1, BareStays DEF adapterVars, vars
<1>2. CASE UNCHANGED << vars, registry >>
  BY <1>2, BareStays DEF registry, vars
<1>3. ASSUME NEW s, NEW a \in Assets, Execute(s, a)
      PROVE  BubblegumCollectionsAreBare'
  BY <1>2, <1>3, VaultType, InstructionKeepsBare DEF Execute
<1>4. CASE \E c \in Collections, type \in { "Mint", "Add", "Remove" },
              amount \in 1 .. MaxLeaves :
             UpdateCollectionInfo(c, type, amount) /\ UNCHANGED registry
  BY <1>4, BareStays DEF UpdateCollectionInfo, registry
<1>5. CASE \/ \E o \in Published, events \in Verdicts : PublishOracle(o, events)
           \/ \E a \in Assets, w \in AgentWallets : SetAgent(a, w)
  BY <1>5, BareStays DEF PublishOracle, SetAgent, vars
<1> QED
  BY <1>1, <1>3, <1>4, <1>5, InstructionKeepsBare DEF AdaptersNext

\* No collection of Bubblegum carries an adapter: creation, addition and the
\* linked data of the collection each keep the two apart, and BubblegumV2 never
\* arrives later.
THEOREM BubblegumBare == AdaptersSpec => []BubblegumCollectionsAreBare
<1>1. AdaptersInit => BubblegumCollectionsAreBare
  BY DEF AdaptersInit, BubblegumCollectionsAreBare, Accounts
<1> QED
  BY <1>1, StepKeepsBare, AdaptersTypesHold, PTL DEF AdaptersSpec

-----------------------------------------------------------------------------
(* Vaults *)

\* The steps that give something away.
LEMMA GivenAwayByASigner ==
  ASSUME NEW a \in Assets, NEW k \in Accounts,
         [AdaptersNext]_adapterVars, GivenAwayBy(k, Vault[a])
  PROVE  Execute(caller', a)
<1>1. ~UNCHANGED vars
  BY DEF GivenAwayBy, vars, Live
<1>2. ~(\E c \in Collections, type \in { "Mint", "Add", "Remove" },
           amount \in 1 .. MaxLeaves :
          UpdateCollectionInfo(c, type, amount) /\ UNCHANGED registry)
  BY DEF GivenAwayBy, UpdateCollectionInfo, Live
<1>3. ix'.by = Vault[a]
  BY DEF GivenAwayBy
<1>4. ASSUME NEW s \in Signers \ Vaults, Instruction(s) PROVE FALSE
  <2>1. ix'.by = s
    BY <1>1, <1>4, InstructionOnLedger
  <2> QED
    BY <1>3, <1>4, <2>1 DEF Vaults
<1>5. ASSUME NEW s \in Signers, NEW b \in Assets, Execute(s, b)
      PROVE  Execute(caller', a)
  <2>1. Instruction(Vault[b])
    BY <1>1, <1>5 DEF Execute
  <2>2. ix'.by = Vault[b]
    BY <1>1, <2>1, VaultType, InstructionOnLedger
  <2>3. a = b
    BY <1>3, <2>2, AdapterArgsAssumption
  <2>4. caller' = s
    BY <1>5 DEF Execute
  <2> QED
    BY <1>5, <2>3, <2>4
<1>6. AdaptersNext
  BY <1>1 DEF adapterVars
<1> QED
  BY <1>1, <1>2, <1>4, <1>5, <1>6, OtherStepsOnLedger

\* What the vault of an asset holds goes away only in an execution for that
\* asset, by its owner or its agent, and not under an execute freeze: for any
\* number of vaults and chains of executions, and whatever the vault holds.
THEOREM VaultsObey == AdaptersSpec => VaultsGiveWhenTold
<1> DEFINE A == \A a \in Assets, k \in Accounts : GivenAwayBy(k, Vault[a]) =>
       /\ Live(a)
       /\ caller' = owner[a] \/ IsAgentOf(caller', a)
       /\ \A p \in { "FreezeExecute", "PermanentFreezeExecute" } :
            ~(Has(a, p) /\ Held(a)[p].frozen)
<1>1. [AdaptersNext]_adapterVars => A
  <2> SUFFICES ASSUME [AdaptersNext]_adapterVars,
                      NEW a \in Assets, NEW k \in Accounts,
                      GivenAwayBy(k, Vault[a])
               PROVE  /\ Live(a)
                      /\ caller' = owner[a] \/ IsAgentOf(caller', a)
                      /\ \A p \in { "FreezeExecute", "PermanentFreezeExecute" } :
                           ~(Has(a, p) /\ Held(a)[p].frozen)
    OBVIOUS
  <2>1. Live(a) /\ MayExecute(caller', a)
    BY GivenAwayByASigner DEF Execute
  <2>2. Represents(caller', a) => IsAgentOf(caller', a)
    BY DEF Represents, IsAgentOf, Registered
  <2>3. Effective(plugins[a], ua[a]) = Held(a)
    BY DEF Effective, Held
  <2>4. ~IsSealed(Held(a))
    BY <2>1, <2>3 DEF MayExecute, Sealed
  <2> QED
    BY <2>1, <2>2, <2>4 DEF MayExecute, IsSealed, Has
<1> QED
  BY <1>1, PTL DEF AdaptersSpec, VaultsGiveWhenTold

-----------------------------------------------------------------------------
(* Who writes the adapters of a live account *)

\* Only an instruction about the adapters of a live account writes them.
LEMMA AdaptersWritten ==
  ASSUME TypeOK, AdaptersTypeOK, [AdaptersNext]_adapterVars,
         NEW k \in Accounts, StaysLive(k), adapters'[k] # adapters[k]
  PROVE  \E s \in Signers : AdapterInstruction(s, k)
<1>0. adapters \in [Accounts -> AdapterMaps] /\ ~UNCHANGED adapters
  BY DEF AdaptersTypeOK
<1>1. ASSUME NEW s \in Signers, Instruction(s) PROVE AdapterInstruction(s, k)
  <2>1. ASSUME NEW j \in Accounts, AdapterInstruction(s, j)
        PROVE  j = k
    <3>1. \A key, rec : SetAdapter(j, key, rec) => j = k
      BY <1>0 DEF SetAdapter
    <3> QED
      BY <2>1, <3>1 DEF AdapterInstruction, AddExternalPluginAdapter,
           UpdateExternalPluginAdapter, RemoveExternalPluginAdapter,
           WriteAppData, WriteLinkedData
  <2>2. ASSUME NEW j \in Accounts, HookedBurn(s, j) PROVE FALSE
    <3>1. /\ adapters' = [adapters EXCEPT ![j] = NoAdapters]
          /\ stage' = [stage EXCEPT ![j] = "Closed"]
      BY <2>2 DEF HookedBurn, Burn, BurnCollection, Close
    <3>2. j = k
      BY <1>0, <3>1
    <3>3. stage'[k] = "Closed"
      BY <3>1, <3>2, OneStageChanges
    <3> QED
      BY <3>3 DEF StaysLive
  <2>3. ASSUME CoreInstruction(s) PROVE FALSE
    BY <1>0, <2>3 DEF CoreInstruction, registry
  <2>4. ASSUME NEW attested, Births(s, attested) PROVE FALSE
    <3>1. PICK j \in Accounts, ad \in AdapterBirths :
            stage[j] = "Free" /\ adapters' = [adapters EXCEPT ![j] = ad]
      BY <2>4 DEF Births, HookedCreate, HookedCreateCollection
    <3>2. j = k
      BY <1>0, <3>1
    <3> QED
      BY <3>1, <3>2 DEF StaysLive, Live
  <2> QED
    BY <1>1, <2>1, <2>2, <2>3, <2>4 DEF Instruction
<1>2. ASSUME NEW s, NEW a \in Assets, Execute(s, a)
      PROVE  AdapterInstruction(Vault[a], k)
  BY <1>0, <1>1, <1>2, VaultType DEF Execute, registry
<1> QED
  BY <1>0, <1>1, <1>2, VaultType
  DEF AdaptersNext, adapterVars, registry, PublishOracle, SetAgent

\* A resolved authority is a holder, as the properties say it.
LEMMA ResolvedHolds ==
  ASSUME NEW s, NEW k \in Accounts, NEW auth, auth \in Resolved(s, k)
  PROVE  \A rec : rec.auth = auth => HolderOf(rec, s, k)
<1>1. CASE k \in Assets
  BY <1>1, KeysAssumption
  DEF Resolved, ResolvedOnAsset, HolderOf, AuthorityOver
<1>2. CASE k \in Collections
  BY <1>2, KeysAssumption
  DEF Resolved, ResolvedOnCollection, HolderOf, AuthorityOver
<1> QED
  BY <1>1, <1>2, AssetOrCollection

LEMMA ManagerHasAuthority ==
  ASSUME NEW s, NEW k \in Accounts, IsManager(s, k)
  PROVE  s = AuthorityOver(k)
  BY KeysAssumption, AssetOrCollection DEF IsManager, AuthorityOver

\* The authority that key q names writes to account k.
Signs(q, s, k) == HolderOf([auth |-> q.id], s, k)

OnlyDataChanges(k, q) ==
  [adapters'[k][q] EXCEPT !.data = adapters[k][q].data] = adapters[k][q]

LEMMA NewDataOnly ==
  ASSUME NEW rec \in AdapterRecord, NEW blob
  PROVE  [[rec EXCEPT !.data = blob] EXCEPT !.data = rec.data] = rec
  BY DEF AdapterRecord

\* What an instruction about the adapters of k does to one of them.
LEMMA OneRecordWritten ==
  ASSUME AdaptersTypeOK, NEW s \in Signers, NEW k \in Accounts,
         AdapterInstruction(s, k), NEW q \in AdapterKeys,
         adapters'[k][q] # adapters[k][q]
  PROVE  /\ ax'.by = s
         /\ \/ /\ s = AuthorityOver(k) /\ ~Registered(k, q)
               /\ adapters'[k][q].data = "Empty"
            \/ /\ s = AuthorityOver(k) /\ Registered(k, q) /\ ~Registered(k, q)'
            \/ /\ HolderOf(adapters[k][q], s, k) /\ Registered(k, q)
               /\ Registered(k, q)' /\ adapters'[k][q].data = adapters[k][q].data
            \/ /\ Signs(q, s, k) /\ Registered(k, q)'
               /\ \/ ~Registered(k, q) /\ q.type = "DataSection"
                  \/ Registered(k, q) /\ OnlyDataChanges(k, q)
<1> DEFINE Goal ==
      /\ ax'.by = s
      /\ \/ /\ s = AuthorityOver(k) /\ ~Registered(k, q)
            /\ adapters'[k][q].data = "Empty"
         \/ /\ s = AuthorityOver(k) /\ Registered(k, q) /\ ~Registered(k, q)'
         \/ /\ HolderOf(adapters[k][q], s, k) /\ Registered(k, q)
            /\ Registered(k, q)' /\ adapters'[k][q].data = adapters[k][q].data
         \/ /\ Signs(q, s, k) /\ Registered(k, q)'
            /\ \/ ~Registered(k, q) /\ q.type = "DataSection"
               \/ Registered(k, q) /\ OnlyDataChanges(k, q)
<1>1. ASSUME NEW key \in AdapterKeys, NEW rec, SetAdapter(k, key, rec)
      PROVE  key = q /\ adapters'[k][q] = rec
  <2>1. adapters'[k] = [adapters[k] EXCEPT ![key] = rec] /\ adapters[k] \in AdapterMaps
    BY <1>1 DEF SetAdapter, AdaptersTypeOK
  <2> QED
    BY <2>1 DEF AdapterMaps
<1>2. \A op, attested : Note(op, s, k, attested) => ax'.by = s
  BY DEF Note
<1>3. ASSUME NEW key \in AdapterKeys,
             NEW auth \in AuthorityArgs \cup { "UpdateAuthority" },
             NEW checks \in CheckArgs \cup { {} }, NEW config \in ConfigArgs,
             NEW attested \in BOOLEAN,
             AddExternalPluginAdapter(s, k, key,
               [auth |-> auth, checks |-> checks, config |-> config,
                data |-> "Empty"], attested)
      PROVE  Goal
  <2> DEFINE rec == [auth |-> auth, checks |-> checks, config |-> config,
                     data |-> "Empty"]
  <2>1. [rec EXCEPT !.data = "Empty"] = rec /\ rec.data = "Empty"
    OBVIOUS
  <2>2. /\ SetAdapter(k, key, rec) /\ adapters[k][key] = NoAdapter
        /\ IsManager(s, k) /\ Note("AddAdapter", s, k, attested)
    BY <1>3, <2>1 DEF AddExternalPluginAdapter
  <2>3. key = q /\ adapters'[k][q] = rec
    BY <1>1, <2>2
  <2> HIDE DEF rec
  <2> QED
    BY <1>2, <2>1, <2>2, <2>3, ManagerHasAuthority DEF Registered
<1>4. ASSUME NEW key \in AdapterKeys, NEW checks \in CheckArgs \cup { {} },
             NEW config \in ConfigArgs,
             UpdateExternalPluginAdapter(s, k, key, checks, config)
      PROVE  Goal
  <2> DEFINE rec == [adapters[k][key] EXCEPT !.checks = checks, !.config = config]
  <2>1. /\ SetAdapter(k, key, rec) /\ adapters[k][key] # NoAdapter
        /\ adapters[k][key].auth \in Resolved(s, k)
        /\ Note("UpdateAdapter", s, k, FALSE)
    BY <1>4 DEF UpdateExternalPluginAdapter, MayUpdateAdapter
  <2>2. checks \in Checks /\ config \in Configs
    BY AdapterArgsAssumption DEF Checks
  <2>3. adapters[k][key] \in AdapterRecord /\ rec \in AdapterRecord
    BY <2>1, <2>2, RecordType
  <2>4. rec.data = adapters[k][key].data /\ rec # NoAdapter
    BY <2>3, AdapterKeysAssumption DEF AdapterRecord
  <2>5. key = q /\ adapters'[k][q] = rec
    BY <1>1, <2>1
  <2> HIDE DEF rec
  <2> QED
    BY <1>2, <2>1, <2>4, <2>5, ResolvedHolds DEF Registered
<1>5. ASSUME NEW key \in AdapterKeys, RemoveExternalPluginAdapter(s, k, key)
      PROVE  Goal
  <2>1. /\ SetAdapter(k, key, NoAdapter) /\ adapters[k][key] # NoAdapter
        /\ IsManager(s, k) /\ Note("RemoveAdapter", s, k, FALSE)
    BY <1>5 DEF RemoveExternalPluginAdapter
  <2> QED
    BY <1>1, <1>2, <2>1, ManagerHasAuthority DEF Registered
<1>6. ASSUME NEW key \in AdapterKeys, NEW blob \in Blobs, WriteAppData(s, k, key, blob)
      PROVE  Goal
  <2> DEFINE rec == [adapters[k][key] EXCEPT !.data = blob]
  <2>1. /\ SetAdapter(k, key, rec) /\ adapters[k][key] # NoAdapter
        /\ key.id \in Resolved(s, k) /\ Note("WriteData", s, k, FALSE)
    BY <1>6 DEF WriteAppData, MayWrite
  <2>2. rec # NoAdapter
    <3>1. rec \in AdapterRecord
      BY <2>1, RecordType
    <3> HIDE DEF rec
    <3> QED
      BY <3>1, AdapterKeysAssumption
  <2>3. key = q /\ adapters'[k][q] = rec
    BY <1>1, <2>1
  <2>4. Signs(q, s, k)
    BY <2>1, <2>3, ResolvedHolds DEF Signs
  <2>5. ax'.by = s /\ Registered(k, q) /\ Registered(k, q)'
    BY <1>2, <2>1, <2>2, <2>3 DEF Registered
  <2>6. OnlyDataChanges(k, q)
    BY <2>1, <2>3, RecordType, NewDataOnly DEF OnlyDataChanges
  <2> QED
    BY <2>4, <2>5, <2>6 DEF Registered
<1>7. ASSUME NEW key \in AdapterKeys, NEW blob \in Blobs, NEW c \in Collections,
             WriteLinkedData(s, k, c, key, blob)
      PROVE  Goal
  <2> DEFINE old == adapters[k][Section(key)]
             rec == IF old = NoAdapter THEN NewSection(blob)
                    ELSE [old EXCEPT !.data = blob]
  <2>1. /\ SetAdapter(k, Section(key), rec)
        /\ key.id \in Resolved(s, k) /\ Note("WriteData", s, k, FALSE)
    BY <1>7 DEF WriteLinkedData, MayWrite
  <2>2. /\ Section(key) \in AdapterKeys /\ Section(key).type = "DataSection"
        /\ Section(key).id = key.id
    BY <1>7, AdapterKeysAssumption DEF WriteLinkedData, Section
  <2>3. NewSection(blob) \in AdapterRecord
    BY DEF NewSection, AdapterRecord, Authorities, Checks, Configs
  <2>4. rec # NoAdapter
    <3>1. rec \in AdapterRecord
      BY <2>2, <2>3, RecordType
    <3> HIDE DEF rec
    <3> QED
      BY <3>1, AdapterKeysAssumption
  <2>5. Section(key) = q /\ adapters'[k][q] = rec
    BY <1>1, <2>1, <2>2
  <2>6. Signs(q, s, k)
    BY <2>1, <2>2, <2>5, ResolvedHolds DEF Signs
  <2>7. ax'.by = s /\ Registered(k, q)'
    BY <1>2, <2>1, <2>4, <2>5 DEF Registered
  <2>8. CASE Registered(k, q)
    <3>1. OnlyDataChanges(k, q)
      BY <2>5, <2>8, RecordType, NewDataOnly DEF Registered, OnlyDataChanges
    <3> QED
      BY <2>6, <2>7, <2>8, <3>1 DEF Registered
  <2>9. CASE ~Registered(k, q)
    BY <2>2, <2>5, <2>6, <2>7, <2>9 DEF Registered
  <2> QED
    BY <2>8, <2>9
<1> HIDE DEF Goal
<1>8. Goal
  BY <1>3, <1>4, <1>5, <1>6, <1>7 DEF AdapterInstruction
<1> QED
  BY <1>8 DEF Goal

\* What stands in an AppData or a DataSection was written by the authority that
\* the key names: by no manager, no authority of the adapter, and no birth.
THEOREM DataIsSigned == AdaptersSpec => DataComesFromItsAuthority
<1> DEFINE A == \A k \in Accounts, key \in AdapterKeys :
       StaysLive(k) /\ DataOf(k, key)' \notin { "Empty", DataOf(k, key) } =>
         HolderOf([auth |-> key.id], ax'.by, k)
<1>1. TypeOK /\ AdaptersTypeOK /\ [AdaptersNext]_adapterVars => A
  <2> SUFFICES ASSUME TypeOK, AdaptersTypeOK, [AdaptersNext]_adapterVars,
                      NEW k \in Accounts, NEW key \in AdapterKeys, StaysLive(k),
                      DataOf(k, key)' # "Empty", DataOf(k, key)' # DataOf(k, key)
               PROVE  HolderOf([auth |-> key.id], ax'.by, k)
    OBVIOUS
  <2>1. adapters'[k][key] # adapters[k][key]
    BY DEF DataOf, Registered
  <2>2. PICK s \in Signers : AdapterInstruction(s, k)
    BY <2>1, AdaptersWritten
  <2>3. Registered(k, key)' /\ adapters'[k][key].data # "Empty"
    BY DEF DataOf, Registered
  <2>4. Registered(k, key) => adapters'[k][key].data # adapters[k][key].data
    BY <2>3 DEF DataOf, Registered
  <2> QED
    BY <2>1, <2>2, <2>3, <2>4, OneRecordWritten DEF Signs
<1>2. TypeOK /\ AdaptersTypeOK /\ [AdaptersNext]_adapterVars => [A]_adapterVars
  BY <1>1
<1> QED
  BY <1>2, AdaptersTypesHold, PTL DEF AdaptersSpec, DataComesFromItsAuthority

\* Adapters of a live account come and go by the hand of the update authority
\* alone, and are configured by the authority of their record alone.
THEOREM AdaptersManaged == AdaptersSpec => AdaptersAreManaged
<1> DEFINE A == \A k \in Accounts, key \in AdapterKeys :
       StaysLive(k) =>
         /\ ~(Registered(k, key) <=> Registered(k, key)') =>
              \/ ax'.by = AuthorityOver(k)
              \/ key.type = "DataSection" /\ Registered(k, key)'
         /\ Registered(k, key) /\ Registered(k, key)'
            /\ [adapters'[k][key] EXCEPT !.data = adapters[k][key].data]
                 # adapters[k][key]
            => HolderOf(adapters[k][key], ax'.by, k)
<1>1. TypeOK /\ AdaptersTypeOK /\ [AdaptersNext]_adapterVars => A
  <2> SUFFICES ASSUME TypeOK, AdaptersTypeOK, [AdaptersNext]_adapterVars,
                      NEW k \in Accounts, NEW key \in AdapterKeys, StaysLive(k)
               PROVE  /\ ~(Registered(k, key) <=> Registered(k, key)') =>
                           \/ ax'.by = AuthorityOver(k)
                           \/ key.type = "DataSection" /\ Registered(k, key)'
                      /\ Registered(k, key) /\ Registered(k, key)'
                         /\ [adapters'[k][key] EXCEPT !.data = adapters[k][key].data]
                              # adapters[k][key]
                         => HolderOf(adapters[k][key], ax'.by, k)
    OBVIOUS
  <2>1. Registered(k, key) => adapters[k][key] \in AdapterRecord
    BY RecordType DEF Registered
  <2>2. CASE adapters'[k][key] = adapters[k][key]
    <3>1. Registered(k, key) =>
            [adapters'[k][key] EXCEPT !.data = adapters[k][key].data]
              = adapters[k][key]
      BY <2>1, <2>2 DEF AdapterRecord
    <3> QED
      BY <2>2, <3>1 DEF Registered
  <2>3. CASE adapters'[k][key] # adapters[k][key]
    <3>1. PICK s \in Signers : AdapterInstruction(s, k)
      BY <2>3, AdaptersWritten
    <3>2. /\ ax'.by = s
          /\ \/ s = AuthorityOver(k) /\ ~Registered(k, key)
             \/ s = AuthorityOver(k) /\ Registered(k, key) /\ ~Registered(k, key)'
             \/ /\ HolderOf(adapters[k][key], s, k)
                /\ Registered(k, key) /\ Registered(k, key)'
             \/ /\ Registered(k, key)'
                /\ \/ ~Registered(k, key) /\ key.type = "DataSection"
                   \/ Registered(k, key) /\ OnlyDataChanges(k, key)
      BY <2>3, <3>1, OneRecordWritten DEF Registered
    <3>3. [adapters'[k][key] EXCEPT !.data = adapters[k][key].data]
            # adapters[k][key] => ~OnlyDataChanges(k, key)
      BY Zenon DEF OnlyDataChanges
    <3>4. ~(Registered(k, key) <=> Registered(k, key)') =>
            \/ ax'.by = AuthorityOver(k)
            \/ key.type = "DataSection" /\ Registered(k, key)'
      BY <3>2 DEF Registered
    <3>5. Registered(k, key) /\ Registered(k, key)' /\ ~OnlyDataChanges(k, key)
          => HolderOf(adapters[k][key], ax'.by, k)
      BY <3>2 DEF Registered
    <3> QED
      BY <3>3, <3>4, <3>5, Zenon
  <2> QED
    BY <2>2, <2>3
<1>2. TypeOK /\ AdaptersTypeOK /\ [AdaptersNext]_adapterVars => [A]_adapterVars
  BY <1>1
<1> QED
  BY <1>2, AdaptersTypesHold, PTL DEF AdaptersSpec, AdaptersAreManaged

-----------------------------------------------------------------------------
(* Oracles *)

LEMMA NamedIsListed ==
  ASSUME NEW rec \in AdapterRecord, NEW event
  PROVE  Names(rec, event) <=> Lists(rec, event)
<1>1. rec.checks \in SUBSET (HookEvents \X Flags) /\ rec # NoAdapter
  BY AdapterKeysAssumption DEF AdapterRecord, Checks
<1>2. \A c \in rec.checks : c = << c[1], c[2] >> /\ c[2] \in Flags
  BY <1>1
<1>3. Names(rec, event) => Lists(rec, event)
  BY <1>2 DEF Names, Lists
<1>4. Lists(rec, event) => Names(rec, event)
  <2> SUFFICES ASSUME NEW f \in Flags, << event, f >> \in rec.checks
               PROVE  \E c \in rec.checks : c[1] = event
    BY <1>1 DEF Lists, Names
  <2>1. << event, f >>[1] = event
    OBVIOUS
  <2> QED
    BY <2>1
<1> QED
  BY <1>3, <1>4

\* An oracle that does not forbid does not refuse: its account is there, was
\* written, and is not against the event.
LEMMA NotForbiddenIsNotRefused ==
  ASSUME NEW a \in Assets, NEW o, NEW u, NEW recipient, NEW event, event # "Execute",
         NEW key, key.type = "Oracle", NEW rec \in AdapterRecord,
         ~Forbids(key, rec, event, AssetSources(a, o, u, recipient))
  PROVE  ~IsAgainst(rec, key, event, a, o, u, recipient)
<1> DEFINE x == AssetSources(a, o, u, recipient)
           from == Origin(rec, a, o, u, recipient)
<1>1. rec.config \in { "Base", "Collection", "Owner", "Recipient", "Asset" }
  BY DEF AdapterRecord, Configs
<1>2. from = IF rec.config = "Base" THEN "Base" ELSE x[rec.config]
  BY <1>1 DEF Origin, AssetSources
<1>3. /\ ~(rec.config # "Base" /\ x[rec.config] = "None")
      /\ oracles[<< key.id, from >>] \cap { event, "Uninitialized" } = {}
  BY <1>2 DEF Forbids
<1> QED
  BY <1>2, <1>3 DEF IsAgainst

\* The adapters of a collection count for its members.
LEMMA CollectionOracleIsHeard ==
  ASSUME AdaptersTypeOK, NEW a \in Assets, NEW own \in AdapterMaps, NEW o,
         NEW u \in Collections, NEW recipient, NEW event, event # "Execute",
         OraclesAllow(Heard(own, u, event), event, AssetSources(a, o, u, recipient)),
         NEW key \in AdapterKeys, key.type = "Oracle",
         Names(adapters[u][key], event), ~Lists(own[key], event)
  PROVE  ~IsAgainst(adapters[u][key], key, event, a, o, u, recipient)
<1>1. adapters[u][key] \in AdapterRecord
  BY DEF Names, AdaptersTypeOK, AdapterMaps, Accounts
<1>2. Heard(own, u, event)[key] = adapters[u][key]
  BY <1>1, NamedIsListed DEF Heard
<1>3. ~Forbids(key, adapters[u][key], event, AssetSources(a, o, u, recipient))
  BY <1>1, <1>2, AdapterKeysAssumption DEF OraclesAllow
<1> QED
  BY <1>1, <1>3, NotForbiddenIsNotRefused

LEMMA OwnOracleIsHeard ==
  ASSUME AdaptersTypeOK, NEW a \in Assets, NEW own \in AdapterMaps, NEW o,
         NEW u, NEW recipient, NEW event, event # "Execute",
         OraclesAllow(Heard(own, u, event), event, AssetSources(a, o, u, recipient)),
         NEW key \in AdapterKeys, key.type = "Oracle", Names(own[key], event)
  PROVE  ~IsAgainst(own[key], key, event, a, o, u, recipient)
<1>1. own[key] \in AdapterRecord
  BY DEF Names, AdapterMaps
<1>2. Heard(own, u, event)[key] = own[key]
  BY <1>1, NamedIsListed DEF Heard
<1>3. ~Forbids(key, own[key], event, AssetSources(a, o, u, recipient))
  BY <1>1, <1>2, AdapterKeysAssumption DEF OraclesAllow
<1> QED
  BY <1>1, <1>3, NotForbiddenIsNotRefused

LEMMA UpdateAuthorityAccounts ==
  ASSUME NEW a \in Assets, NEW u \in UpdateAuthorities, NEW k \in { a, u } \cap Accounts
  PROVE  k = a \/ (k = u /\ u \in Collections /\ k # a)
  BY KeysAssumption DEF UpdateAuthorities, Accounts

LEMMA AllowedIsNotRefused ==
  ASSUME AdaptersTypeOK, NEW a \in Assets, NEW own \in AdapterMaps, NEW o,
         NEW u \in UpdateAuthorities, NEW recipient, NEW event, event # "Execute",
         OraclesAllow(Heard(own, u, event), event, AssetSources(a, o, u, recipient))
  PROVE  ~Refuses(a, own, o, u, event, recipient)
<1> SUFFICES ASSUME NEW key \in AdapterKeys, key.type = "Oracle",
                    NEW k \in { a, u } \cap Accounts,
                    NEW rec, rec = IF k = a THEN own[key] ELSE adapters[k][key],
                    Names(rec, event), k = a \/ ~Names(own[key], event)
             PROVE  ~IsAgainst(rec, key, event, a, o, u, recipient)
  BY DEF Refuses
<1>1. CASE k = a
  BY <1>1, OwnOracleIsHeard
<1>2. CASE k # a
  <2>1. k = u /\ u \in Collections
    BY <1>2, UpdateAuthorityAccounts
  <2>2. ~Lists(own[key], event)
    BY <1>2, NamedIsListed DEF AdapterMaps, Lists
  <2>3. rec = adapters[u][key]
    BY <1>2, <2>1
  <2> QED
    BY <2>1, <2>2, <2>3, CollectionOracleIsHeard
<1> QED
  BY <1>1, <1>2

\* What an instruction may do to an asset.
Untouched(a) ==
  /\ stage'[a] = stage[a] /\ owner'[a] = owner[a]
  /\ ua'[a] = ua[a] /\ meta'[a] = meta[a]

IsBorn(s, a) ==
  \E o \in Wallets, u \in Wallets \cup Collections, ad \in AdapterBirths :
    \E pl, m, attested : HookedCreate(s, a, o, u, pl, m, ad, attested)

IsSent(s, a) ==
  \E o \in Wallets : Transfer(s, a, o) /\ AssetHooks("Transfer", s, a, o)

IsUpdated(s, a) ==
  \E v, u, m : Update(s, a, v, u, m) /\ AssetHooks("Update", s, a, "None")

LEMMA InstructionOnAsset ==
  ASSUME TypeOK, NEW s \in Signers, Instruction(s), NEW a \in Assets
  PROVE  \/ Untouched(a) \/ IsBorn(s, a) \/ IsSent(s, a) \/ IsUpdated(s, a)
         \/ HookedBurn(s, a)
<1>0. /\ AssetTypes \in SUBSET PluginTypes /\ CollectionTypes \in SUBSET PluginTypes
      /\ a \in Accounts /\ a \notin Collections
  BY ArgsAssumption, KeysAssumption DEF Accounts
<1> DEFINE Goal == \/ Untouched(a) \/ IsBorn(s, a) \/ IsSent(s, a)
                   \/ IsUpdated(s, a) \/ HookedBurn(s, a)
<1>t. /\ DOMAIN stage = Accounts /\ DOMAIN owner = Assets
      /\ DOMAIN ua = Accounts /\ DOMAIN meta = Accounts
  BY DEF TypeOK
<1>1. ASSUME NEW k \in Accounts, AdapterInstruction(s, k) PROVE Goal
  <2>1. UNCHANGED vars
    BY <1>1 DEF AdapterInstruction, AddExternalPluginAdapter,
         UpdateExternalPluginAdapter, RemoveExternalPluginAdapter,
         WriteAppData, WriteLinkedData
  <2> QED
    BY <2>1 DEF vars, Untouched
<1>2. ASSUME NEW k \in Accounts, HookedBurn(s, k), k # a PROVE Goal
  <2>1. CASE k \in Assets /\ Burn(s, k)
    BY <1>0, <1>t, <1>2, <2>1 DEF Burn, Close, Untouched
  <2>2. CASE k \in Collections /\ BurnCollection(s, k)
    BY <1>0, <1>t, <1>2, <2>2 DEF BurnCollection, Close, Untouched
  <2> QED
    BY <1>2, <2>1, <2>2 DEF HookedBurn
<1>3. ASSUME NEW b \in Assets, HookedAssetInstruction(s, b) PROVE Goal
  <2>0. b \in Accounts
    BY DEF Accounts
  <2>1. CASE PluginInstruction(s, b, AssetTypes)
    BY <1>0, <2>0, <2>1, PluginInstructionWritesOneRecord DEF Untouched
  <2>2. ASSUME NEW o \in Wallets, Transfer(s, b, o), AssetHooks("Transfer", s, b, o)
        PROVE  Goal
    BY <1>t, <2>2 DEF Transfer, Untouched, IsSent
  <2>3. ASSUME NEW v, NEW u, NEW m, Update(s, b, v, u, m),
               AssetHooks("Update", s, b, "None")
        PROVE  Goal
    <3>1. CASE b = a
      BY <2>3, <3>1 DEF IsUpdated
    <3>2. CASE b # a
      BY <1>0, <1>t, <2>3, <3>2 DEF Update, Untouched
    <3> QED
      BY <3>1, <3>2
  <2> QED
    BY <1>3, <2>1, <2>2, <2>3 DEF HookedAssetInstruction
<1>4. ASSUME NEW c \in Collections, HookedCollectionInstruction(s, c) PROVE Goal
  <2>0. c \in Accounts
    BY DEF Accounts
  <2> QED
    BY <1>0, <1>t, <1>4, <2>0, PluginInstructionWritesOneRecord
    DEF HookedCollectionInstruction, UpdateCollection, Untouched
<1>5. ASSUME NEW attested, Births(s, attested) PROVE Goal
  <2>1. PICK k \in Accounts, u \in Wallets \cup Collections,
             ad \in AdapterBirths, m \in Metas :
          \/ k \in Assets /\ \E o \in Wallets, pl \in AssetBirths :
               HookedCreate(s, k, o, u, pl, m, ad, attested)
          \/ k \in Collections /\ u \in Wallets /\ \E pl \in CollectionBirths :
               HookedCreateCollection(s, k, u, pl, m, ad)
    BY <1>5 DEF Births
  <2>2. CASE k = a
    BY <1>0, <2>1, <2>2 DEF IsBorn
  <2>3. CASE k # a
    <3>1. ASSUME NEW o, NEW pl, HookedCreate(s, k, o, u, pl, m, ad, attested)
          PROVE  Untouched(a)
      BY <1>0, <1>t, <2>3, <3>1 DEF HookedCreate, CreateV2, Untouched
    <3>2. ASSUME NEW pl, HookedCreateCollection(s, k, u, pl, m, ad)
          PROVE  Untouched(a)
      BY <1>0, <1>t, <2>3, <3>2
      DEF HookedCreateCollection, CreateCollectionV2, Untouched
    <3> QED
      BY <2>1, <3>1, <3>2
  <2> QED
    BY <2>2, <2>3
<1> QED
  BY <1>1, <1>2, <1>3, <1>4, <1>5 DEF Instruction, CoreInstruction

LEMMA StepOnAsset ==
  ASSUME TypeOK, [AdaptersNext]_adapterVars, NEW a \in Assets
  PROVE  \/ Untouched(a)
         \/ \E s \in Signers :
              IsBorn(s, a) \/ IsSent(s, a) \/ IsUpdated(s, a) \/ HookedBurn(s, a)
<1>1. CASE UNCHANGED vars
  BY <1>1 DEF vars, Untouched
<1>2. ASSUME NEW s, NEW b \in Assets, Execute(s, b), ~UNCHANGED vars
      PROVE  \/ Untouched(a)
             \/ \E t \in Signers :
                  IsBorn(t, a) \/ IsSent(t, a) \/ IsUpdated(t, a) \/ HookedBurn(t, a)
  BY <1>2, VaultType, InstructionOnAsset DEF Execute
<1>3. CASE \E c \in Collections, type \in { "Mint", "Add", "Remove" },
              amount \in 1 .. MaxLeaves :
             UpdateCollectionInfo(c, type, amount) /\ UNCHANGED registry
  BY <1>3 DEF UpdateCollectionInfo, Untouched
<1>4. CASE UNCHANGED adapterVars
  BY <1>1, <1>4 DEF adapterVars
<1> QED
  BY <1>1, <1>2, <1>3, <1>4, InstructionOnAsset, OtherStepsOnLedger DEF AdaptersNext

\* A plugin that forces an event on an asset is a permanent delegate for it.
LEMMA ForcedIsHeld ==
  ASSUME NEW s, NEW a \in Assets, NEW event, IsForced(event, s, a)
  PROVE  \/ event = "Transfer" /\ HoldsPlugin(a, "PermanentTransferDelegate", s)
         \/ event = "Burn" /\ HoldsPlugin(a, "PermanentBurnDelegate", s)
<1>0. a \in Accounts
  BY DEF Accounts
<1>1. Effective(plugins[a], ua[a]) = Held(a)
  BY DEF Effective, Held
<1>2. AssetContext(s, owner[a], ua[a]).resolved = Resolved(s, a)
  BY DEF AssetContext, Resolved
<1>3. PICK p \in PluginTypes :
        /\ Held(a)[p] # NoPlugin
        /\ Forces(event, p, Held(a)[p], AssetContext(s, owner[a], ua[a]))
  BY <1>1 DEF IsForced
<1>4. /\ \/ event = "Transfer" /\ p = "PermanentTransferDelegate"
         \/ event = "Burn" /\ p = "PermanentBurnDelegate"
      /\ Held(a)[p].auth \in Resolved(s, a)
  BY <1>2, <1>3 DEF Forces, Holds
<1>5. HolderOf(Held(a)[p], s, a)
  BY <1>0, <1>4, ResolvedHolds
<1> QED
  BY <1>3, <1>4, <1>5 DEF HoldsPlugin, Has

\* An event that goes through is forced, or no oracle refuses it.
LEMMA HooksAreHeard ==
  ASSUME TypeOK, AdaptersTypeOK, NEW s, NEW a \in Assets, NEW recipient,
         NEW event \in { "Transfer", "Burn", "Update" },
         AssetHooks(event, s, a, recipient)
  PROVE  IsForced(event, s, a) \/ ~RefusesNow(a, event, recipient)
<1>1. adapters[a] \in AdapterMaps /\ ua[a] \in UpdateAuthorities
  BY DEF AdaptersTypeOK, TypeOK, Accounts
<1>2. event # "Execute"
  OBVIOUS
<1> QED
  BY <1>1, <1>2, AllowedIsNotRefused DEF AssetHooks, RefusesNow

LEMMA BirthIsHeard ==
  ASSUME TypeOK, AdaptersTypeOK, NEW s, NEW a \in Assets, IsBorn(s, a)
  PROVE  ~Refuses(a, adapters'[a], owner'[a], ua'[a], "Create", "None")
<1>0. a \in Accounts
  BY DEF Accounts
<1>1. PICK o \in Wallets, u \in Wallets \cup Collections, ad \in AdapterBirths :
        \E pl, m, attested : HookedCreate(s, a, o, u, pl, m, ad, attested)
  BY DEF IsBorn
<1>a. PICK pl, m, attested : HookedCreate(s, a, o, u, pl, m, ad, attested)
  BY <1>1
<1>2. adapters'[a] = ad /\ owner'[a] = o /\ ua'[a] = u
  BY <1>0, <1>a DEF HookedCreate, CreateV2, AdaptersTypeOK, TypeOK
<1>3. /\ OraclesAllow(Heard(NoAdapters, u, "Create"), "Create",
                      AssetSources(a, o, u, "None"))
      /\ BornWell(a, ad, AssetSources(a, o, u, "None"), attested)
  BY <1>a DEF HookedCreate
<1>4. ad \in AdapterMaps /\ NoAdapters \in AdapterMaps /\ u \in UpdateAuthorities
  BY AdapterArgsAssumption, NoAdaptersType DEF UpdateAuthorities
<1> SUFFICES ASSUME NEW key \in AdapterKeys, key.type = "Oracle",
                    NEW k \in { a, u } \cap Accounts,
                    NEW rec, rec = IF k = a THEN ad[key] ELSE adapters[k][key],
                    Names(rec, "Create")
             PROVE  ~IsAgainst(rec, key, "Create", a, o, u, "None")
  BY <1>2 DEF Refuses
<1>5. CASE k = a
  <2>1. rec = ad[key] /\ rec # NoAdapter
    BY <1>5 DEF Names
  <2>2. rec \in AdapterRecord
    BY <1>4, <2>1 DEF AdapterMaps
  <2>3. rec.checks \subseteq HookEvents \X { "reject" }
    BY <1>3, <2>1 DEF BornWell, ValidChecks
  <2>4. << "Create", "reject" >> \in rec.checks
    <3>1. PICK c \in rec.checks : c[1] = "Create"
      BY DEF Names
    <3>2. c = << "Create", "reject" >>
      BY <2>3, <3>1
    <3> QED
      BY <3>1, <3>2
  <2>5. ~Forbids(key, rec, "Create", AssetSources(a, o, u, "None"))
    BY <1>3, <2>1, <2>4 DEF BornWell
  <2>6. "Create" # "Execute"
    OBVIOUS
  <2> QED
    BY <2>2, <2>5, <2>6, NotForbiddenIsNotRefused
<1>6. CASE k # a
  <2>1. k = u /\ u \in Collections
    BY <1>4, <1>6, UpdateAuthorityAccounts
  <2>2. ~Lists(NoAdapters[key], "Create") /\ "Create" # "Execute"
    BY DEF Lists, NoAdapters
  <2>3. rec = adapters[u][key]
    BY <1>6, <2>1
  <2> QED
    BY <1>3, <1>4, <2>1, <2>2, <2>3, CollectionOracleIsHeard
<1> QED
  BY <1>5, <1>6

\* No asset is born, moves, burns or changes against an oracle that it or its
\* collection names, except by a permanent delegate: for any number of oracles,
\* whatever they publish, and through executions too.
THEOREM OraclesHeard == AdaptersSpec => OraclesAreHeard
<1> DEFINE A == \A a \in Assets :
       /\ ~Live(a) /\ stage'[a] = "Live" =>
            ~Refuses(a, adapters'[a], owner'[a], ua'[a], "Create", "None")
       /\ StaysLive(a) /\ owner'[a] # owner[a] =>
            \/ ~RefusesNow(a, "Transfer", owner'[a])
            \/ HoldsPlugin(a, "PermanentTransferDelegate", ix'.by)
       /\ Live(a) /\ stage'[a] = "Closed" =>
            \/ ~RefusesNow(a, "Burn", "None")
            \/ HoldsPlugin(a, "PermanentBurnDelegate", ix'.by)
       /\ StaysLive(a) /\ << ua'[a], meta'[a] >> # << ua[a], meta[a] >> =>
            ~RefusesNow(a, "Update", "None")
<1>1. TypeOK /\ AdaptersTypeOK /\ [AdaptersNext]_adapterVars => A
  <2> SUFFICES ASSUME TypeOK, AdaptersTypeOK, [AdaptersNext]_adapterVars,
                      NEW a \in Assets
               PROVE
       /\ ~Live(a) /\ stage'[a] = "Live" =>
            ~Refuses(a, adapters'[a], owner'[a], ua'[a], "Create", "None")
       /\ StaysLive(a) /\ owner'[a] # owner[a] =>
            \/ ~RefusesNow(a, "Transfer", owner'[a])
            \/ HoldsPlugin(a, "PermanentTransferDelegate", ix'.by)
       /\ Live(a) /\ stage'[a] = "Closed" =>
            \/ ~RefusesNow(a, "Burn", "None")
            \/ HoldsPlugin(a, "PermanentBurnDelegate", ix'.by)
       /\ StaysLive(a) /\ << ua'[a], meta'[a] >> # << ua[a], meta[a] >> =>
            ~RefusesNow(a, "Update", "None")
    OBVIOUS
  <2>0. a \in Accounts
    BY DEF Accounts
  <2>1. CASE Untouched(a)
    BY <2>1 DEF Untouched, Live, StaysLive
  <2>2. ASSUME NEW s \in Signers, IsBorn(s, a)
        PROVE  /\ ~Live(a)
               /\ ~Refuses(a, adapters'[a], owner'[a], ua'[a], "Create", "None")
    BY <2>2, BirthIsHeard DEF IsBorn, HookedCreate, CreateV2, Live
  <2>3. ASSUME NEW s \in Signers, IsSent(s, a)
        PROVE  /\ Live(a) /\ stage'[a] = "Live"
               /\ ua'[a] = ua[a] /\ meta'[a] = meta[a]
               /\ \/ ~RefusesNow(a, "Transfer", owner'[a])
                  \/ HoldsPlugin(a, "PermanentTransferDelegate", ix'.by)
    <3>1. PICK o \in Wallets : Transfer(s, a, o) /\ AssetHooks("Transfer", s, a, o)
      BY <2>3 DEF IsSent
    <3>2. Live(a) /\ owner'[a] = o /\ ix'.by = s /\ UNCHANGED << stage, ua, meta >>
      BY <3>1 DEF Transfer, Record, TypeOK
    <3>3. IsForced("Transfer", s, a) \/ ~RefusesNow(a, "Transfer", o)
      BY <3>1, HooksAreHeard
    <3> QED
      BY <3>2, <3>3, ForcedIsHeld DEF Live
  <2>4. ASSUME NEW s \in Signers, IsUpdated(s, a)
        PROVE  /\ Live(a) /\ stage'[a] = "Live" /\ owner'[a] = owner[a]
               /\ ~RefusesNow(a, "Update", "None")
    <3>1. PICK v, u, m : Update(s, a, v, u, m) /\ AssetHooks("Update", s, a, "None")
      BY <2>4 DEF IsUpdated
    <3>2. Live(a) /\ UNCHANGED << stage, owner >>
      BY <3>1 DEF Update
    <3>3. IsForced("Update", s, a) \/ ~RefusesNow(a, "Update", "None")
      BY <3>1, HooksAreHeard
    <3> QED
      BY <3>2, <3>3, ForcedIsHeld DEF Live
  <2>5. ASSUME NEW s \in Signers, HookedBurn(s, a)
        PROVE  /\ Live(a) /\ stage'[a] = "Closed"
               /\ \/ ~RefusesNow(a, "Burn", "None")
                  \/ HoldsPlugin(a, "PermanentBurnDelegate", ix'.by)
    <3>1. Burn(s, a) /\ AssetHooks("Burn", s, a, "None")
      BY <2>5, KeysAssumption DEF HookedBurn
    <3>2. Live(a) /\ stage'[a] = "Closed" /\ ix'.by = s
      BY <2>0, <3>1 DEF Burn, Close, Record, TypeOK
    <3>3. IsForced("Burn", s, a) \/ ~RefusesNow(a, "Burn", "None")
      BY <3>1, HooksAreHeard
    <3> QED
      BY <3>2, <3>3, ForcedIsHeld
  <2> QED
    BY <2>1, <2>2, <2>3, <2>4, <2>5, StepOnAsset DEF StaysLive, Live
<1>2. TypeOK /\ AdaptersTypeOK /\ [AdaptersNext]_adapterVars => [A]_adapterVars
  BY <1>1
<1> QED
  BY <1>2, AdaptersTypesHold, PTL DEF AdaptersSpec, OraclesAreHeard

=============================================================================
