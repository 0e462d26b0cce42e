------------------------------- MODULE Adapters -------------------------------
(***************************************************************************)
(* External plugin adapters, and Execute.                                  *)
(*                                                                         *)
(* An adapter ties an account to something outside of the program: an      *)
(* Oracle to an account whose contents forbid events, an AppData to data   *)
(* that an authority of its own writes, a LinkedAppData of a collection to *)
(* data that is kept on each asset (in a DataSection), an AgentIdentity to *)
(* the agents that may act for an asset.  LifecycleHook and its linked     *)
(* form cannot be registered yet.                                          *)
(*                                                                         *)
(* Adapters are asked after the plugins, and none that exists can approve  *)
(* anything but an Execute; so an instruction of MplCore is here the same  *)
(* action with one more conjunct.                                          *)
(***************************************************************************)
EXTENDS MplCore

CONSTANTS
  AdapterKeys,    \* keys of adapters: a type, and what tells two of it apart
  NoAdapter,
  HookEvents,     \* HookableLifecycleEvent
  CheckArgs,      \* the lifecycle checks that instructions name
  ConfigArgs,     \* the accounts of an oracle that instructions name
  Blobs,          \* data that is written; "Empty" is none
  AdapterBirths,  \* adapters that an account may be created with
  Published,      \* bound: the oracle accounts that their programs write
  Verdicts,       \* bound: the sets of events they forbid there
  AgentWallets,   \* bound: who may be given a record of an agent
  Vault           \* the asset_signer of each asset

AllAdapterTypes == { "LifecycleHook", "Oracle", "AppData", "LinkedLifecycleHook",
                     "LinkedAppData", "DataSection", "AgentIdentity" }

\* What makes an oracle's account: its address, or what it is derived from.
Configs == { "Base", "Collection", "Owner", "Recipient", "Asset" }

OracleAccounts == { k.id : k \in AdapterKeys }
                  \X ({ "Base" } \cup Accounts \cup Wallets)

Flags == { "listen", "approve", "reject" }

\* The lifecycle checks of a record as pairs: an event is not listed twice.
Checks == SUBSET (HookEvents \X Flags)

AdapterRecord ==
  [ auth : Authorities, checks : Checks, config : Configs, data : Blobs ]

NoAdapters == [key \in AdapterKeys |-> NoAdapter]

AdapterMaps == [AdapterKeys -> AdapterRecord \cup { NoAdapter }]

\* The section of an asset is told by the authority that writes to it.
Section(key) == [type |-> "DataSection", id |-> key.id]

ASSUME AdapterKeysAssumption ==
  /\ \A k \in AdapterKeys : DOMAIN k = { "type", "id" } /\ k.type \in AllAdapterTypes
  /\ \A k \in AdapterKeys :
       /\ k.type \in { "AppData", "LinkedAppData", "DataSection" } => k.id \in Authorities
       /\ k.type = "LinkedAppData" => Section(k) \in AdapterKeys
  /\ NoAdapter \notin AdapterRecord

ASSUME AdapterArgsAssumption ==
  /\ HookEvents \subseteq { "Create", "Transfer", "Burn", "Update", "Execute" }
  /\ CheckArgs \subseteq Checks /\ ConfigArgs \subseteq Configs
  /\ "Empty" \in Blobs
  /\ AdapterBirths \subseteq AdapterMaps /\ NoAdapters \in AdapterBirths
  /\ Published \subseteq OracleAccounts /\ Verdicts \subseteq SUBSET HookEvents
  /\ AgentWallets \subseteq Wallets
  /\ Vault \in [Assets -> Wallets \cap Signers]
  /\ \A a, b \in Assets : Vault[a] = Vault[b] => a = b

VARIABLES
  adapters,  \* the external registry of each account
  oracles,   \* external: the events each oracle account forbids
  agents,    \* external: ExecutionDelegateRecordV1 of mpl-agent-tools
  ax,        \* history: the last instruction, its signer, account, signature
  caller     \* history: who had it executed by a vault, or "None"

registry == << adapters, oracles, agents >>
adapterVars == << vars, adapters, oracles, agents, ax, caller >>

\* No top-level instruction is signed by a vault.
Vaults == { Vault[a] : a \in Assets }

AdaptersInit ==
  /\ Init
  /\ adapters = [k \in Accounts |-> NoAdapters]
  /\ oracles = [o \in OracleAccounts |-> { "Uninitialized" }]
  /\ agents = {}
  /\ ax = [op |-> "None", by |-> "None", on |-> "None", attested |-> FALSE]
  /\ caller = "None"

\* attested: the program of agent identities signs for the asset.
Note(op, s, k, attested) ==
  ax' = [op |-> op, by |-> s, on |-> k, attested |-> attested]

-----------------------------------------------------------------------------
(* What oracles forbid *)

\* The accounts an oracle's own account may be derived from, "None" if the
\* instruction has no such account.
AssetSources(a, o, u, recipient) ==
  [ Asset |-> a, Owner |-> o, Recipient |-> recipient,
    Collection |-> IF u \in Collections THEN u ELSE "None" ]

CollectionSources(c) ==
  [ Asset |-> "None", Owner |-> "None", Recipient |-> "None", Collection |-> c ]

\* Oracle::validate_helper.  A missing or an unwritten account is an error.
Forbids(key, rec, event, x) ==
  /\ key.type = "Oracle" /\ event # "Execute"
  /\ \/ rec.config # "Base" /\ x[rec.config] = "None"
     \/ LET from == IF rec.config = "Base" THEN "Base" ELSE x[rec.config]
        IN oracles[<< key.id, from >>] \cap { event, "Uninitialized" } # {}

Lists(rec, event) == rec # NoAdapter /\ \E f \in Flags : << event, f >> \in rec.checks

\* Mutant of Heard: an asset with an adapter of its own is asked alone.
HeardOnlyOwn(own, u, event) ==
  [key \in AdapterKeys |->
     IF own = NoAdapters /\ u \in Collections /\ Lists(adapters[u][key], event)
     THEN adapters[u][key]
     ELSE IF Lists(own[key], event) THEN own[key] ELSE NoAdapter]

\* check_adapter_registry: the adapters that list the event, those of the
\* collection unless the asset lists the event under the same key.
Heard(own, u, event) ==
  [key \in AdapterKeys |->
     IF Lists(own[key], event) THEN own[key]
     ELSE IF u \in Collections /\ Lists(adapters[u][key], event)
          THEN adapters[u][key] ELSE NoAdapter]

OraclesAllow(heard, event, x) ==
  \A key \in AdapterKeys :
    heard[key] # NoAdapter => ~Forbids(key, heard[key], event, x)

\* A plugin that forces an event is heard before any adapter.
IsForced(event, s, k) ==
  LET held == IF k \in Assets THEN Effective(plugins[k], ua[k]) ELSE plugins[k]
      x == IF k \in Assets THEN AssetContext(s, owner[k], ua[k])
           ELSE CollectionContext(s, k)
  IN \E p \in PluginTypes : held[p] # NoPlugin /\ Forces(event, p, held[p], x)

AssetHooks(event, s, a, recipient) ==
  \/ IsForced(event, s, a)
  \/ OraclesAllow(Heard(adapters[a], ua[a], event), event,
                  AssetSources(a, owner[a], ua[a], recipient))

CollectionHooks(event, s, c) ==
  \/ IsForced(event, s, c)
  \/ OraclesAllow(Heard(adapters[c], "None", event), event, CollectionSources(c))

-----------------------------------------------------------------------------
(* Registration *)

\* Mutant of MayCarry: linked data is also taken by assets.
MayCarryLinked(k, type) ==
  /\ type \notin { "LifecycleHook", "LinkedLifecycleHook", "DataSection" }
  /\ k \in Collections => type # "AgentIdentity"

\* The types an instruction may register on account k.
MayCarry(k, type) ==
  /\ type \notin { "LifecycleHook", "LinkedLifecycleHook", "DataSection" }
  /\ k \in Assets => type # "LinkedAppData"
  /\ k \in Collections => type # "AgentIdentity"

\* validate_lifecycle_checks; the types with data have no checks.
ValidChecks(type, checks) ==
  IF type \in { "Oracle", "AgentIdentity" }
  THEN checks # {} /\ (type = "Oracle" => checks \subseteq HookEvents \X { "reject" })
  ELSE checks = {}

\* validate_asset_permissions and validate_collection_permissions for the
\* events about adapters: no plugin and no adapter approves of them.
IsManager(s, k) ==
  \/ k \in Collections /\ s = ua[k]
  \/ k \in Assets /\ ua[k] \in Wallets /\ s = ua[k]
  \/ k \in Assets /\ ua[k] \in Collections /\ s = ua[ua[k]]

\* Mutant of BubblegumAllows: only creation looks for BubblegumV2.
BubblegumNotAsked(k) == TRUE

BubblegumAllows(k) == k \in Collections => ~Carries(plugins[k], { "BubblegumV2" })

SetAdapter(k, key, rec) == adapters' = [adapters EXCEPT ![k][key] = rec]

AddExternalPluginAdapter(s, k, key, rec, attested) ==
  /\ Live(k) /\ adapters[k][key] = NoAdapter
  /\ MayCarry(k, key.type) /\ ValidChecks(key.type, rec.checks)
  /\ key.type = "AgentIdentity" => attested
  /\ IsManager(s, k) /\ BubblegumAllows(k)
  /\ SetAdapter(k, key, [rec EXCEPT !.data = "Empty"])
  /\ Note("AddAdapter", s, k, attested)
  /\ UNCHANGED << vars, oracles, agents >>

Resolved(s, k) ==
  IF k \in Assets THEN ResolvedOnAsset(s, owner[k], ua[k])
  ELSE ResolvedOnCollection(s, k)

\* Mutant of MayUpdateAdapter: any manager of the account may.
ManagerMayUpdate(s, k, key) == IsManager(s, k)

\* The authority of the record, and nobody else is asked.
MayUpdateAdapter(s, k, key) == adapters[k][key].auth \in Resolved(s, k)

UpdateExternalPluginAdapter(s, k, key, checks, config) ==
  /\ Live(k) /\ adapters[k][key] # NoAdapter /\ key.type # "DataSection"
  /\ MayUpdateAdapter(s, k, key) /\ ValidChecks(key.type, checks)
  /\ key.type # "Oracle" => config = adapters[k][key].config
  /\ SetAdapter(k, key, [adapters[k][key] EXCEPT !.checks = checks, !.config = config])
  /\ Note("UpdateAdapter", s, k, FALSE)
  /\ UNCHANGED << vars, oracles, agents >>

RemoveExternalPluginAdapter(s, k, key) ==
  /\ Live(k) /\ adapters[k][key] # NoAdapter
  /\ IsManager(s, k)
  /\ SetAdapter(k, key, NoAdapter)
  /\ Note("RemoveAdapter", s, k, FALSE)
  /\ UNCHANGED << vars, oracles, agents >>

-----------------------------------------------------------------------------
(* Data *)

\* Mutant of MayWrite: the authority of the adapter writes its data.
AdapterAuthorityMayWrite(s, k, key) ==
  adapters[k][key] # NoAdapter /\ adapters[k][key].auth \in Resolved(s, k)

\* The data authority is a part of the key.
MayWrite(s, k, key) == key.id \in Resolved(s, k)

WriteAppData(s, k, key, blob) ==
  /\ Live(k) /\ key.type = "AppData" /\ adapters[k][key] # NoAdapter
  /\ MayWrite(s, k, key)
  /\ SetAdapter(k, key, [adapters[k][key] EXCEPT !.data = blob])
  /\ Note("WriteData", s, k, FALSE)
  /\ UNCHANGED << vars, oracles, agents >>

NewSection(blob) ==
  [ auth |-> "None", checks |-> {}, config |-> "Base", data |-> blob ]

\* Which collection the caller passes is only checked for a member of one.
MayPass(k, c) ==
  IF k \in Assets THEN ua[k] \in Collections => c = ua[k] ELSE c = k

\* The adapter is the collection's, the data goes to the asset (or, by the
\* collection's own instruction, to the collection).
WriteLinkedData(s, k, c, key, blob) ==
  /\ Live(k) /\ Live(c) /\ MayPass(k, c)
  /\ key.type = "LinkedAppData" /\ adapters[c][key] # NoAdapter
  /\ MayWrite(s, k, key)
  /\ LET old == adapters[k][Section(key)]
     IN SetAdapter(k, Section(key), IF old = NoAdapter THEN NewSection(blob)
                                    ELSE [old EXCEPT !.data = blob])
  /\ Note("WriteData", s, k, FALSE)
  /\ UNCHANGED << vars, oracles, agents >>

-----------------------------------------------------------------------------
(* The ledger under adapters *)

\* A new adapter is asked about the creation only if it may reject it.
BornWell(k, ad, x, attested) ==
  \A key \in AdapterKeys : ad[key] # NoAdapter =>
    /\ MayCarry(k, key.type) /\ ValidChecks(key.type, ad[key].checks)
    /\ ad[key].data = "Empty"
    /\ k \in Assets /\ << "Create", "reject" >> \in ad[key].checks =>
         /\ ~Forbids(key, ad[key], "Create", x)
         /\ key.type = "AgentIdentity" => attested

HookedCreate(s, a, o, u, pl, m, ad, attested) ==
  LET x == AssetSources(a, o, u, "None")
  IN /\ CreateV2(s, a, o, u, pl, m)
     /\ OraclesAllow(Heard(NoAdapters, u, "Create"), "Create", x)
     /\ BornWell(a, ad, x, attested)
     /\ adapters' = [adapters EXCEPT ![a] = ad]
     /\ Note("Create", s, a, attested) /\ UNCHANGED << oracles, agents >>

HookedCreateCollection(s, c, u, pl, m, ad) ==
  /\ CreateCollectionV2(s, c, u, pl, m)
  /\ ad # NoAdapters => ~Carries(pl, { "BubblegumV2" })
  /\ BornWell(c, ad, CollectionSources(c), FALSE)
  /\ adapters' = [adapters EXCEPT ![c] = ad]
  /\ Note("CreateCollection", s, c, FALSE) /\ UNCHANGED << oracles, agents >>

\* The adapters go with the account.
HookedBurn(s, k) ==
  /\ \/ k \in Assets /\ Burn(s, k) /\ AssetHooks("Burn", s, k, "None")
     \/ k \in Collections /\ BurnCollection(s, k) /\ CollectionHooks("Burn", s, k)
  /\ adapters' = [adapters EXCEPT ![k] = NoAdapters]
  /\ Note("Burn", s, k, FALSE) /\ UNCHANGED << oracles, agents >>

\* The instructions on an asset that leave its adapters alone.
HookedAssetInstruction(s, a) ==
  \/ PluginInstruction(s, a, AssetTypes)
  \/ \E o \in Wallets : Transfer(s, a, o) /\ AssetHooks("Transfer", s, a, o)
  \/ \E v \in { "V1", "V2" }, u \in UpdateAuthorities \cup { Keep },
        m \in Metas \cup { Keep } :
        Update(s, a, v, u, m) /\ AssetHooks("Update", s, a, "None")

HookedCollectionInstruction(s, c) ==
  \/ PluginInstruction(s, c, CollectionTypes)
  \/ \E u \in Wallets \cup { Keep }, m \in Metas \cup { Keep } :
        UpdateCollection(s, c, u, m) /\ CollectionHooks("Update", s, c)

-----------------------------------------------------------------------------
(* Execute *)

IsSealed(held) ==
  \E p \in PluginTypes \cap { "FreezeExecute", "PermanentFreezeExecute" } :
    held[p] # NoPlugin /\ held[p].frozen

\* The two plugins that reject an execution reject while they are frozen.
Sealed(a) == IsSealed(Effective(plugins[a], ua[a]))

\* Mutant of Represents: the record of the agent is enough.
RepresentsByRecord(s, a) == << a, s >> \in agents

\* An AgentIdentity approves for an agent with a record, if it lists the event.
Represents(s, a) ==
  \E key \in AdapterKeys :
    /\ key.type = "AgentIdentity" /\ adapters[a][key] # NoAdapter
    /\ << "Execute", "approve" >> \in adapters[a][key].checks
    /\ << a, s >> \in agents

MayExecute(s, a) == ~Sealed(a) /\ (s = owner[a] \/ Represents(s, a))

-----------------------------------------------------------------------------
(* The instructions *)

AdapterInstruction(s, k) ==
  \E key \in AdapterKeys :
    \/ \E auth \in AuthorityArgs \cup { "UpdateAuthority" }, checks \in CheckArgs \cup { {} },
          config \in ConfigArgs, attested \in BOOLEAN :
         AddExternalPluginAdapter(s, k, key,
           [auth |-> auth, checks |-> checks, config |-> config, data |-> "Empty"],
           attested)
    \/ \E checks \in CheckArgs \cup { {} }, config \in ConfigArgs :
         UpdateExternalPluginAdapter(s, k, key, checks, config)
    \/ RemoveExternalPluginAdapter(s, k, key)
    \/ \E blob \in Blobs :
         \/ WriteAppData(s, k, key, blob)
         \/ \E c \in Collections : WriteLinkedData(s, k, c, key, blob)

\* An instruction of MplCore that leaves the adapters alone.
CoreInstruction(s) ==
  /\ \/ \E a \in Assets :
          HookedAssetInstruction(s, a) /\ Note("Core", s, a, FALSE)
     \/ \E c \in Collections :
          HookedCollectionInstruction(s, c) /\ Note("Core", s, c, FALSE)
  /\ UNCHANGED registry

Births(s, attested) ==
  \E k \in Accounts : stage[k] = "Free" /\
    \E u \in Wallets \cup Collections, ad \in AdapterBirths, m \in Metas :
      \/ k \in Assets /\ \E o \in Wallets, pl \in AssetBirths :
           HookedCreate(s, k, o, u, pl, m, ad, attested)
      \/ k \in Collections /\ u \in Wallets /\ \E pl \in CollectionBirths :
           HookedCreateCollection(s, k, u, pl, m, ad)

Instruction(s) ==
  \/ \E k \in Accounts : AdapterInstruction(s, k) \/ HookedBurn(s, k)
  \/ CoreInstruction(s)
  \/ \E attested \in BOOLEAN : Births(s, attested)

\* The vault of the asset signs one instruction, of this program or another.
Execute(s, a) ==
  /\ Live(a) /\ MayExecute(s, a)
  /\ \/ Instruction(Vault[a])
     \/ Note("Outside", Vault[a], a, FALSE) /\ UNCHANGED << vars, registry >>
  /\ caller' = s

-----------------------------------------------------------------------------
(* Outside of the program *)

PublishOracle(o, events) ==
  /\ oracles' = [oracles EXCEPT ![o] = events]
  /\ UNCHANGED << vars, adapters, agents, ax, caller >>

\* mpl-agent-tools writes and closes the records of agents.
SetAgent(a, w) ==
  /\ \/ agents' = agents \cup { << a, w >> }
     \/ agents' = agents \ { << a, w >> }
  /\ UNCHANGED << vars, adapters, oracles, ax, caller >>

-----------------------------------------------------------------------------

AdaptersNext ==
  \/ \E s \in Signers \ Vaults :
       \/ Instruction(s) /\ caller' = "None"
       \/ \E a \in Assets : Execute(s, a)
  \/ \E c \in Collections, type \in { "Mint", "Add", "Remove" },
        amount \in 1 .. MaxLeaves :
        /\ UpdateCollectionInfo(c, type, amount)
        /\ Note("Core", "Bubblegum", c, FALSE) /\ caller' = "None"
        /\ UNCHANGED registry
  \/ \E o \in Published, events \in Verdicts : PublishOracle(o, events)
  \/ \E a \in Assets, w \in AgentWallets : SetAgent(a, w)

AdaptersSpec == AdaptersInit /\ [][AdaptersNext]_adapterVars

=============================================================================
