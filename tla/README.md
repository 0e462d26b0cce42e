# A TLA+ model of MPL Core

MPL Core is a Solana program that keeps digital assets. An asset is one account
with an owner, an update authority and a registry of plugins; a collection is
an account that assets may belong to, with plugins of its own that its members
inherit. This directory models the program of `src/programs/mpl-core` and its
Rust client in `src/clients/rust`, checks the models with TLC and proves the
main results with TLAPS. Line numbers without a directory are relative to
`src/programs/mpl-core/src`.

## 1. The system

### Components

| Component | State | Operations | What makes it correct |
|---|---|---|---|
| Lifecycle permissions (`plugins/lifecycle.rs`, `utils/mod.rs`) | none | check tables, opinions of core accounts, plugins and adapters, verdict | a restriction holds against every combination of approvals; only a permanent delegate overrides one |
| Assets (`state/asset.rs`, `processor/create,update,transfer,burn.rs`) | owner, update authority, name, uri, plugin registry | create, update v1/v2, transfer, burn | moved and burned by the entitled only; in a collection only with both sides' consent |
| Collections (`state/collection.rs`, `processor/create_collection,update,burn.rs`) | update authority, name, uri, `num_minted`, `current_size`, plugin registry | create, update, burn | the counter is the number of members; never closed under a member |
| Bubblegum reports (`processor/update_collection_info.rs`) | the two counters | mint, add, remove of compressed members | counters stay in step with members that the program cannot see |
| Plugin instructions (`processor/{add,remove,update}_plugin.rs`, `{approve,revoke}_plugin_authority.rs`, `plugins/utils.rs`) | registry records and data | add, remove, update, approve, revoke, for assets and for collections | permanent plugins only at birth, frozen ones stay, lists of allowed plugins hold |
| Internal plugins (`plugins/internal/**`) | `frozen`, `additional_delegates`, ... | opinions on each lifecycle event | see the properties |
| Plugins with checked data (Royalties, VerifiedCreators, Autograph) | shares, rules about programs, signatures | opinions on creation, addition, update, transfer | nobody signs for another; the owner cannot get past the royalties |
| Groups (`state/group.rs`, `processor/*group*.rs`) | update authority, four vectors of addresses; a Groups plugin on each member | create, update, close, add and remove of members | a link is in both accounts or in neither; both ends consent; no group closes while it is linked |
| Account layout (`plugins/plugin_header.rs`, `plugin_registry.rs`, `plugins/utils.rs`, `utils/account.rs`) | bytes and offsets | every resize moves what lies behind | each plugin reads as it was written, by program, client and indexer |
| External plugin adapters (`plugins/external*`, `processor/*external*`) | adapters, their checks, their data | add, remove, update, write | no event goes past an oracle; data comes from its own authority |
| Execute (`processor/execute.rs`) | none of its own | an instruction signed by the vault of an asset | the vault obeys owner and agents, and no freeze is got past |
| Fee collection (`processor/collect.rs`, `utils/account.rs`) | lamports | rent at each resize, fees of create and execute, collect | accounts stay exempt from rent; nothing is made or lost |
| Decoding (`instruction.rs`) and the Rust client (`src/clients/rust`) | none | numbers and rows of accounts; readers of accounts | two crates agree; privileges suffice |
| Compression (`processor/compress.rs`, `decompress.rs`) | none | both always fail with `NotAvailable`, and a creation refuses `DataState::LedgerState` | nothing to model: no account is ever compressed |
| JavaScript client, IDL, configuration | none | | not modelled |

### How they interact

A client sends an instruction with the accounts it concerns and its signers.
The handler loads the core account, asks `validate_asset_permissions` or
`validate_collection_permissions`, which ask the core account, its collection,
every plugin registered on either and then the adapters, and writes: the core
data, the registry, and, when membership changes, the counter of a collection.
A plugin of an asset overrides the one of the same type of its collection
(`utils/mod.rs:215`), an adapter the one under the same key if it lists the
same event (`utils/mod.rs:206`). An Oracle answers from an account that another
program writes; an AgentIdentity from records that yet another keeps. Execute
lets the vault of an asset, an address that only this program signs for, sign
any instruction, of this program too. Bubblegum keeps compressed members of a
collection in trees of its own and reports their number. Groups stand beside
all this: their instructions ask neither the permission engine nor the plugins
of a member, but decide by code of their own who may link
(`utils/mod.rs:545-648`), and write the group account and the Groups plugin of
the member. The ledger sees them in one place, when a burn asks the Groups
plugin. Whatever an instruction writes may change the length of an account:
the bytes behind it move, and the payer pays or gets the difference of rents.

### What is hard

The program is passive and sequential. Solana gives a transaction exclusive
access to the accounts it writes and rolls a failed one back, so nothing
interleaves inside an instruction and no instruction is half done. What is hard
is the order of instructions of several signers, with other programs writing
in between: the permission engine mixes a dozen opinions on two accounts, the
same rule is implemented in several places (at creation, at addition, in the
validators, in the handlers), counters stand for sets nobody stores, and six
handlers move bytes each in its own way. The hazards are listed, each at its
line, in `PROJECT.json`; the properties were chosen from that list.

## 2. The modules

| Module | What it is |
|---|---|
| `Lifecycle` | the permission engine, without variables: who is asked (`Asked`), what plugins answer (`Rejects...`, `Approves`, `Forces`), the verdict (`Granted`) |
| `MplCore` | the state machine of the ledger, one action per instruction |
| `Membership` | abstract specification: a collection is a set of members, closed only when it is empty |
| `MplCoreProperties` | its properties, and the refinement mapping to `Membership` |
| `Groups`, `GroupGraph`, `GroupsProperties` | groups on top of the ledger; the abstract specification, a relation between groups and members that are there; properties and refinement mapping |
| `Adapters`, `AdaptersProperties` | external adapters, oracles, agents and Execute on top of the ledger |
| `CheckedData`, `CheckedDataProperties` | Royalties, VerifiedCreators and Autograph on top of the ledger |
| `AccountLayout`, `PluginStore`, `AccountLayoutProperties` | the bytes of one account; the abstract specification, a store of plugins by key; properties and refinement mapping |
| `AccountReaders` | how the Rust client reads those bytes: one plugin, the whole account, the indexer |
| `ClientInstructions` | the rows of accounts that the generated client sends |
| `Lamports` | rent, fees and their collection as operators on a bank of accounts |
| `Messages`, `MessagesProperties` | a call from the client's row over the program's places to the lamports it moves |
| `MC*` + `*.cfg` | instances for TLC |
| `MplCoreProofs`, `MplCorePluginProofs`, `MplCorePermissionProofs` | theorems about the ledger: types, counters and `Membership`; what plugins may be on an account; who moves, frees, renames and redelegates |
| `GroupsProofs`, `AdaptersProofs`, `CheckedDataProofs` | theorems about the three extensions |
| `AccountLayoutProofs`, `MessagesProofs` | theorems about the bytes of an account and their readers; about calls and lamports |

`MplCore` EXTENDS `Lifecycle`. `Groups`, `Adapters` and `CheckedData` each
EXTEND `MplCore`, add variables and instructions, and restrict its actions with
further conjuncts; each is proved to implement `MplCore`. They are kept apart
because they meet in one place only, the verdict: a rejection of one is a
conjunct that the others do not see. `AccountLayout` and `Messages` are about
lengths, places and lamports; who may call what is left to the ledger, and
there any call may happen.

### State

Each variable of `MplCore` is a function from account to one field of it:
`stage` (free, live, closed: `Key` and the owner of the account), `owner`, `ua`
(the update authority), `meta` (name and uri as one value), `plugins` (a
function from plugin type to its record: authority, `frozen`, additional
delegates), `size`, `minted`. `leaves` is Bubblegum's state: how many
compressed members each collection has. `ix` is a history, the last
instruction with its signer: action properties read it, no action does.

* `Groups` adds `gstage` and `gua` (stage and update authority of each group),
  `contents` (its vectors `collections`, `groups` and `assets` as one set),
  `parents` (a group's `parent_groups`, an asset's or a collection's Groups
  plugin) and the history `gix`.
* `Adapters` adds `adapters` (by account and key: authority, lifecycle checks,
  the account of an oracle, data), and two variables that other programs write:
  `oracles` (the events each oracle account forbids, "Uninitialized" until it
  was written) and `agents` (who has a record to act for an asset). Histories:
  `ax`, `caller` (who asked for an execution).
* `CheckedData` adds `checked` (by account and type: authority and data) and the
  history `caller`.
* `AccountLayout` has `account`, its length and its bytes. A value is written as
  cells `<<value, 0>>, <<value, 1>>, ...`, so each byte tells whose it is. The
  history `slack` counts the bytes that transfers leave.
* `Messages` has `bank` (kind, bytes and lamports of every key, and the fees not
  yet collected as a history) and the history `last`.

A `VIEW` keeps histories out of the states that TLC stores; it evaluates action
properties on every transition it generates, so nothing is lost.

### Actions

| Action | Code |
|---|---|
| `CreateV2`, `CreateCollectionV2` | `process_create`, `process_create_collection`, of both versions (v1 is v2 without adapters) |
| `AddPlugin` ... `RevokePluginAuthority` | the two handlers of each, asset and collection, and `process_*` |
| `Transfer`, `Update(_, _, v, _, _)`, `UpdateCollection`, `Burn`, `BurnCollection`, `UpdateCollectionInfo` | `transfer` with the reset of owner-managed plugins, `update_v1` and `update_v2`, and the handlers of those names |
| `CreateGroup`, `UpdateGroup`, `CloseGroup`, `AddAssetsToGroup` ... `RemoveGroupsFromGroup` | the nine group instructions; `AddToGroup` and `RemoveFromGroup` are what six of them share |
| `BurnAccount`, `OtherInstruction` | burns with the opinion of the Groups plugin, and every other instruction of the ledger |
| `Add-`, `Update-`, `RemoveExternalPluginAdapter`, `WriteAppData`, `WriteLinkedData` | the adapter instructions, for assets and collections |
| `HookedCreate` ... `HookedCollectionInstruction` | an instruction of the ledger with the adapters' opinion |
| `Execute` | `execute_v1`: an instruction of this module signed by the vault, or one of another program |
| `PublishOracle`, `SetAgent` | environment: the programs that keep oracles and agent records |
| `AddChecked` ... `RevokeChecked`, `CheckedCreate`, `CheckedTransfer`, ... | the same instructions about the three types with data, and the ledger's with their opinion |
| actions of `AccountLayout` | one per instruction that moves bytes: creation of the header, addition, update, removal, change of a record, writes of adapter data, change of the core, change of the Groups plugin, transfer |
| actions of `Messages` | one per kind of handler: open, resize, transfer, execute, close, collect, reject |

A guard is the conjunction of the handler's checks. A call that fails changes
nothing, so it is a call that is not enabled; in `Messages` failing calls are
steps (`Reject`, and the end "Unprivileged"), because a property is about them.

### Abstractions

* Wallets are opaque. Keys that programs of another kind sign with are
  represented by a collection's own key as signer (run `membership`):
  `AssetV1::validate_update` compares the signer with the bare key of the
  update authority, of whichever kind it is. In `Adapters` the vault of an asset
  is a wallet that signs in executions only. The Bubblegum program id, which
  manages BubblegumV2, never signs.
* No owner, authority or delegate is an asset's or a collection's key given as
  an address.
* Names and uris are one value `meta`. Plugins without an opinion or data that
  one depends on are a record with an authority. `Lifecycle` excludes from
  `PluginTypes` the four types whose opinions depend on data it does not carry
  (an assumption that TLC checks): three are those of `CheckedData`; the Groups
  plugin is the variable `parents`. Every general plugin instruction and every
  creation refuses it, and its one opinion is on burns.
* A registry has at most one record of a type, which `initialize_plugin` checks
  (`plugins/utils.rs`); `AccountLayout` models the registry's bytes.
* The vectors of a group are sets: additions refuse what is there already, and
  order is never read. The limits (256 and 8) are constants. An instruction with
  several members is one step; a call that lacks an account it needs fails.
* Lists of signatures and of creators are functions from wallets: no
  instruction gets a duplicate past the plugins. The check of autographs and
  creators is about each name, so no order is lost.
* An adapter's checks are sets of pairs of event and flag. Its key is the one
  of the code (address, authority, or none), so there is at most one per key.
* In `AccountLayout` what a value says is its length. The registry's entries
  are a function, because no reader depends on their order.
* In `Messages` one byte rents for one lamport, beside the overhead. Who may
  call is left open: any call may be rejected, so what is shown holds of all
  that succeed. Nobody sends lamports to an account of the program unasked.
* Bubblegum is assumed to report what it does: it removes no more than it added
  and mints at most `MaxLeaves`, a bound of the model. Nothing in this program
  could tell otherwise.
* The address of a closed account is spent: closing leaves one byte with the
  program (`utils/account.rs:10`), and a creation wants an empty account of the
  system program.

There is no fairness and no liveness property: the program acts only when it is
called, and nobody has to call it, nor any program it reads from. Deadlock is
not checked, as a state in which every account is closed, or nobody may do
anything any more, is a legal end.

## 3. The runs

Accounts are born with no or one plugin of the types of the run, of any
authority and data of the run (`registry`: collections with two). Two wallets
are enough to tell "the holder" from "somebody else", since an opinion compares
the signer with one field at a time; where a third role matters, it is a
delegate, an owner or an authority that the other wallet plays.

| Run | Instance and bounds | Shows |
|---|---|---|
| `membership` | 1 asset, 2 collections, 2 wallets; UpdateDelegate on any of the three, with and without an additional delegate; the key of a collection signs | `SizeIsExact`, `MembersHaveALiveCollection`, `MembershipSpec`, `MembershipNeedsBothSides`, `UpdateDelegateIsNotSeized` |
| `freeze` | 1 asset, 1 collection; the nine plugin types with an opinion on transfer, burn or thaw, managed by default or delegated to w2 | `OnlyTheEntitledMoveAnAsset`, `OnlyTheHolderThaws` |
| `registry` | 1 asset, 1 collection, 2 values of the metadata; AddBlocker, ImmutableMetadata, BubblegumV2, Edition, a permanent delegate that BubblegumV2 allows, a plugin of the owner, UpdateDelegate with every wallet a delegate | `CollectionPluginsAreLawful`, `AddBlockerHolds`, `ImmutableMetadataHolds`, `LifelongPluginsStay`, `PermanentDelegatesNeverArrive` |
| `limits` | 3 groups, 2 assets, 1 collection; vectors of one entry, one parent, a counter up to 1 and 2 leaves: each limit is reached, a vector's by each of the three instructions that can, the counter's by increments that fail and reports that saturate | `TypeOK`, `VectorsAreBounded`, `SizeNeverOvercounts` |
| `groups` | 2 groups, 1 asset, 1 collection, 2 wallets; with and without PermanentBurnDelegate and UpdateDelegate on either account: chains, cycles, a member of two groups, closed groups and forced burns happen | `GroupsTypeOK`, `LinksAreMutual`, `GraphSpec`, `MembersAreBurnedOnlyByForce`, `LinksNeedBothEnds` |
| `layout` | 2 plugins and 2 adapters, one with data; cores, plugins and records of length 1 or 2, data of 0 or 2, an account of at most 10; clients that know every type or none | `LayoutParses`, `NothingIsLeaked`, `ClientsReadWhatTheProgramReads`, `IndexersCutExactly`, `ReadsAsAStore` |
| `oracles` | 1 asset, 1 collection, a wallet and the asset's vault; oracles on either account with checks on one event or on all, read from a fixed account or from one derived from the collection; accounts that change their verdict, are not written yet, or do not exist; a permanent delegate and BubblegumV2 | `BubblegumCollectionsAreBare`, `OraclesAreHeard`, `AdaptersAreManaged` |
| `adapters` | 1 asset, 1 collection, a wallet and the vault; data, linked data, its section and an identity on either; an agent that comes and goes; PermanentFreezeExecute | `AdaptersTypeOK`, `DataComesFromItsAuthority`, `VaultsGiveWhenTold` |
| `checked` | 1 asset, 1 collection, 2 wallets whose accounts belong to different programs, 2 messages; at most two plugins with data at a time; UpdateDelegate and a permanent transfer delegate from birth | `CheckedTypeOK`, `SignaturesAreTheirOwn`, `SignaturesStand`, `RoyaltiesBindTheOwner` |
| `wire` | every instruction with every choice of optional accounts; 1 asset, 1 collection, 2 groups, a payer with 11 lamports, a vault that may pay, a wallet that only signs; accounts of 2 or 3 bytes, fees of 1 (odd, so that halving matters) and 2; at most one account behind those of a group instruction (`MaxMembers`), two behind those of collect (`MaxCollected`) | `RentAndFeesAreThere`, `LamportsAreConserved`, `CallsAreReadBack`, `PrivilegesSuffice`, `OnlyPayersPay` |
| `royalties` | `checked` with Royalties alone, of every way in which shares fail to add up | `RoyaltiesAddUp` is violated |
| `identity` | `adapters` | `IdentitiesAreAttested` is violated |

Why these bounds are enough:

* One asset is enough where a property speaks of an asset and its collection:
  an instruction reads no asset but its own. Two collections are there where an
  asset moves between them. Two groups make the shortest cycle and a member of
  two groups, the third of `limits` is the one that does not fit.
* `membership` has `U32Max` 3, more than the members there can be, as `Roomy`
  (section 4) wants; `limits` has 1, fewer than there can be.
* Lengths 1 and 2 make a value grow, shrink and stay; four records put something
  before and behind each of them; `MaxLen` 10 is the longest account that holds
  all four at once with room for one to grow. Larger lengths move the same bytes
  by more.
* In `checked`, two plugins with data are what a rule can be about: the asset's
  and the collection's of the same type, or two types on one account.
* `wire` has room for each kind of account to be open at once and to be resized;
  11 lamports pay for that, and less leaves calls that fail for want of funds.
  Two accounts to collect from may be the same one twice, or a closed one before
  another; the theorems are about any number of them.
* Wallets, messages, groups, and assets where there are two, are symmetric where
  a `SYMMETRY` says so. Not in `freeze`, whose authority argument names w2, nor
  in the runs with a vault, which is not just any wallet.

### What the documentation says and the code does not do

Two runs end with a violation.

* `royalties` (`plugins/internal/authority_managed/royalties.rs:164`): an update
  of the Royalties plugin is validated only if the signer resolves to the
  plugin's authority. For an additional delegate of an UpdateDelegate it
  abstains and UpdateDelegate approves, so royalties that do not add up are
  written. Tests of the JavaScript client say "it cannot update royalty
  percentages that do not add up to 100".
* `identity` (`processor/create.rs:264`): a new adapter is asked for its opinion
  on a creation only if the lifecycle checks that the caller gives it say so, so
  an asset is born with an AgentIdentity although nobody asked for the signature
  of the identity program. A comment in `agent_identity.rs` says that it is
  verified.

More follows from the actions as they are written, and has no run. About the
ledger:

* `UpdateAuthority::None` is "used for immutability"
  (`state/update_authority.rs:7`), but an UpdateDelegate still approves updates
  and may even set an update authority (`update_delegate.rs:201`).
* "Asset UpdateDelegates should not be able to add/remove assets from a
  collection" (`update_delegate.rs:178`). The check looks at the collection that
  is left, so a delegate of a free asset takes it into a collection whose
  authority it is.
* That same rejection stops the collection's own authority when it resolves to
  the authority of the plugin on the asset: under the default authority, a member
  with an UpdateDelegate cannot be taken out by it (`update_delegate.rs:198`).
* `Authority::None` is "used for immutability" (`state/mod.rs:52`), but a
  transfer gives every owner-managed plugin back to the owner
  (`processor/transfer.rs:106`).
* VerifiedCreators on a collection is asked when an asset is created in it, with
  its own data, and refuses the creation to those who may not change that data.

About groups:

* The limit of 8 parents "Acts as a practical depth limit for group nesting"
  (`state/group.rs:12`). It limits how many groups one group is in
  (`add_groups_to_group.rs:115`): groups with one parent each make a chain of
  any length, and two groups may contain each other. Nothing walks the chain.
* A member that is burned by force leaves an entry in its group that no
  instruction can remove, since each loads the account of the member
  (`groups.rs:49`), and the group never closes.
* A group instruction puts a Groups plugin, managed by the update authority, on
  an account without asking anybody else (`groups_plugin_utils.rs:46`): neither
  AddBlocker nor the allow list of BubblegumV2 stops it. AddBlocker does not
  stop adapters either.
* An authority over a collection is also "a valid update delegate (defined by an
  `UpdateDelegate` plugin on the collection)" (`utils/mod.rs:615`). The authority
  of that plugin is not: only its additional delegates are.

About adapters and executions:

* An asset given to its own vault (`transfer.rs:115`) moves again only by an
  execution, which its owner, the vault, cannot sign for and only an agent can
  ask for. Without an agent it is stuck.
* The records of agents belong to another program and outlive a transfer of the
  asset.
* Linked data lies on the asset under the key of its authority. It outlives the
  adapter on the collection and the membership it was written under; for an
  asset in no collection, any collection that has the adapter may be passed.

About bytes, lamports and the client:

* The rent of the one byte that is left of a burned account cannot be recovered
  once the fees were collected.
* A transfer shortens registry records without resizing the account, so slack
  bytes stay at its end until the next resize.
* An optional account that equals the program's address reads as absent.
* The client's `list_plugins` and `fetch_plugins` (`hooked/plugin.rs:106`, `:244`)
  fail on an account without plugins, where there is no header to read.
* Its conversion of an adapter to a key (`hooked/advanced_types.rs:362`) maps
  LinkedAppData to the key of AppData, LinkedLifecycleHook to that of
  LifecycleHook, and is not implemented for a DataSection.

## 4. The proofs

The theorems hold for every set of accounts, wallets, plugin types, adapters,
births and arguments, of lengths, keys, fees and funds, that satisfies the
assumptions of `Lifecycle`, `MplCore`, `Groups`, `Adapters`, `CheckedData`,
`AccountLayout`, `Lamports` and `Messages`, which TLC evaluates on every run of
theirs. (Sets that are counted are assumed finite: assets, and for groups
collections and groups, and the keys of `Messages`; its keys of assets,
collections, groups, vaults and wallets are different addresses.) Each of the
three extensions is proved to implement `MplCore`, so a theorem about the ledger
holds under groups, adapters and checked data too.

| Theorem | Statement | Argument |
|---|---|---|
| `TypeCorrect` | `Spec => []TypeOK` | inductive as it stands; one step per action, and one lemma for the five plugin instructions, which write one record |
| `NeverOvercounts` | `Spec => []SizeNeverOvercounts` | inductive with `TypeOK` and the fact that accounts that are not live have no update authority. The cardinality of `Members(c)` changes by at most one element in a step |
| `SizeExact` | `Spec => []SizeIsExact` | under `Roomy` the size is equal, so no report saturates and no counter is short. The invariant adds that a collection that is not live has no leaves and no size |
| `NoOrphans` | `Spec => []MembersHaveALiveCollection` | needs `SizeIsExact`: a size of 0 means that no asset refers to the collection, and a reference is only made to a live one |
| `ImplementsMembership` | `Roomy => (Spec => MembershipSpec)` | step by step: creation, update and burn map to `Rehome`, creation and burn of a collection to `Found` and `Dissolve`, reports to `Report`, the rest to a stutter. `Dissolve` needs exactness |
| `LifelongStay` | `Spec => LifelongPluginsStay` | the validators of addition and removal reject themselves, and nothing but the plugin instructions changes what is registered |
| `AddBlockerKeepsOut` | `Spec => AddBlockerHolds` | AddBlocker is always asked, own or inherited, its rejection beats every approval, and nobody forces an addition |
| `PermanentsNeverArrive` | `Spec => PermanentDelegatesNeverArrive` | an asset's effective records change by an addition to it or its collection (rejected by the plugin itself) or by a move (refused in `update`) |
| `CollectionsLawful` | `Spec => []CollectionPluginsAreLawful` | BubblegumV2 is there from birth and rejects what is off the list; Edition rejects itself; owner-managed plugins are refused by the handlers |
| `EntitledMove` | `Spec => OnlyTheEntitledMoveAnAsset` | read backwards: a change of owner or an end is a transfer or a burn; that was granted; a grant without force has no rejection of a freeze and an approval of the owner or a delegate; force is a permanent delegate's |
| `BothSidesAgree` | `Spec => MembershipNeedsBothSides` | a new collection is a creation or an update; each checks the collection's hand where the asset enters, the verdict where it leaves |
| `MetadataIsImmutable` | `Spec => ImmutableMetadataHolds` | only updates write these fields of a live account, and the plugin, own or inherited, rejects every update, which nobody forces |
| `HolderThaws` | `Spec => OnlyTheHolderThaws` | a frozen record changes by a removal, which the record rejects, or by an update, approved by its authority or an UpdateDelegate |
| `DelegateKeepsOut` | `Spec => UpdateDelegateIsNotSeized` | an approval, a revocation or an update that changes the plugin's authority or delegates is rejected for an additional delegate who is nothing else |
| `GroupsRefineLedger` | `GroupsSpec => Spec` | a group instruction leaves the ledger alone, and a burn under groups is a burn |
| `GroupsTypeCorrect`, `LinksMutual` | `GroupsSpec => []GroupsTypeOK`, `GroupsSpec => []LinksAreMutual` | `LinkInv`, the two together, is inductive: a new account is in no group because no group names an account that never was, and a closed group is in no member because its own side, which is what closing looks at, is complete. One lemma per kind of step; `StageChange` says what the ledger may do to phases |
| `VectorsBounded` | `GroupsSpec => []VectorsAreBounded` | inductive with `GroupsTypeOK`; one lemma each for the end that gains a child and the end that gains a parent |
| `LinksTakeBothEnds` | `GroupsSpec => LinksNeedBothEnds` | from `LinkInv`: who creates, adds or removes has passed the check at both ends |
| `MembersBurnedByForce` | `GroupsSpec => MembersAreBurnedOnlyByForce` | the plugin's rejection is overridden only by a forced approval, which for a burn is a PermanentBurnDelegate's |
| `ImplementsGraph` | `GroupsSpec => GraphSpec` | from `LinkInv`, step by step: the links read off the members are the relation. `CreateGroup` maps to `Open`, additions to `Link`, removals to `Unlink`, burns to `Vanish`, births to `Appear`. `Close` needs that an empty group is nobody's parent |
| `AdaptersRefineLedger` | `AdaptersSpec => Spec` | an instruction with the adapters' opinion is that instruction with one more conjunct; an execution is one of the vault, which is a wallet; the rest stutters |
| `AdaptersTypeCorrect` | `AdaptersSpec => []AdaptersTypeOK` | inductive together with `TypeOK` |
| `BubblegumBare` | `AdaptersSpec => []BubblegumCollectionsAreBare` | at birth the handler refuses the pair; later BubblegumV2 refuses the adapter, and does not arrive itself |
| `VaultsObey` | `AdaptersSpec => VaultsGiveWhenTold` | the vault signs in executions only, and an execution is granted: an approval of owner or agent, no rejection of a freeze |
| `DataIsSigned` | `AdaptersSpec => DataComesFromItsAuthority` | two instructions write data, each after comparing the signer with the data authority |
| `AdaptersManaged` | `AdaptersSpec => AdaptersAreManaged` | addition and removal take the verdict, in which only the update authority approves; configuration compares the record's authority |
| `OraclesHeard` | `AdaptersSpec => OraclesAreHeard` | one lemma for each event: a grant without force has asked every adapter that counts for it, and an oracle that is not written or missing rejects or fails the call |
| `CheckedRefinesLedger` | `CheckedSpec => Spec` | as for adapters |
| `CheckedTypeCorrect` | `CheckedSpec => []CheckedTypeOK` | inductive together with `TypeOK`; accounts that are not live have no data |
| `OwnSignatures` | `CheckedSpec => SignaturesAreTheirOwn` | on each path of a record (birth, addition, update) what is new was signed for |
| `SignaturesLast` | `CheckedSpec => SignaturesStand` | from the fate of a record in a step: gone, kept, brought or written. Only a written one can drop a name, and the plugin compares the two lists |
| `RoyaltiesBindOwners` | `CheckedSpec => RoyaltiesBindTheOwner` | a transfer without force is one the royalties that count allow; and they change by an instruction that its keepers are entitled to. Needs `MembersFounded`: no live asset refers to a collection that was never created, so that a birth does not bring royalties upon a member |
| `LayoutInvariant` | `Spec => []LayoutInv` | an account is a bare core, or core, header and registry stand where they are looked for and the plugins, each with its data behind it, tile the bytes between; see below |
| `AccountsParse`, `AccountsAreTight` | `Spec => []LayoutParses`, `Spec => []NothingIsLeaked` | from `LayoutInv`; of the slack, that a transfer leaves what it takes from the registry |
| `ImplementsStore` | `Spec => ReadsAsAStore`, which is the specification of `PluginStore` | step by step: what is read at the offset of a record is what was saved there, and a shift that moves the bytes and bumps the record reads the same |
| `ClientsAgree`, `IndexersAgree` | `Spec => []ClientsReadWhatTheProgramReads`, `Spec => []IndexersCutExactly` | from `LayoutInv`: sorted by offset, the next record, or the registry, begins where a plugin and its data end |
| `ClientAndProgramAgree` | `Spec => CallsAreReadBack` | `Table`: for each of the 42 numbers, the client's row has at every place the account that the program looks for there, and no place has two names; then for any keys |
| `AccountsHoldRentAndFees`, `NoLamportIsMadeOrLost` | `Spec => []RentAndFeesAreThere`, `Spec => []LamportsAreConserved` | `IndInv`: every account is sound, nobody owes, the sum is what it was; see below |
| `ClientAsksForEnough` | `Spec => PrivilegesSuffice` | each handler's end is `Lawful`: who must sign does, what changes is lent, by what `Table` says of the rows |
| `OthersDoNotPay` | `Spec => OnlyPayersPay` | also from `Lawful`: no other key outside the program is charged |

`Roomy` is `Cardinality(Assets) + MaxLeaves <= U32Max`: fewer members than a
counter can count. Without it the exact statements are false: a saturated
counter that later counts down reaches 0 before the members are gone. What is
left then is `NeverOvercounts`, which has no such hypothesis.

`LayoutInv` is stronger than what it is for. That an account parses and leaks
nothing does not say that no two plugins overlap, and without that no move of
bytes keeps them. The proof goes up in four steps: what a copy does to a range of
bytes, what a shift behind an offset does to plugins that tile, each instruction
as such a shift with three saves, and the theorems.

`IndInv` of `MessagesProofs` adds to `RentAndFeesAreThere` that there is nothing
where no account was opened, or opening one would leave more than its rent, and
that nobody is below zero. A handler pays one transfer after the other, and each
fails for want of funds at once: the sum is kept from one affordable bank to the
next. Each operation of `Lamports` keeps one account
sound at the expense of one payer (`Leads`, `Collects`). A group instruction and
collect do so once for each account behind their own, by recursion on their
number; as the prover cannot take the library's induction theorems, whose
predicate is an operator, `Counting` states induction for a set of numbers, and
`ResizeEachIs` and `CollectEachIs` derive from it what the recursive functions
compute.

What `Table` compares are the two lists as `ClientInstructions` and
`Instructions` write them down; that these are the lists of the two crates is a
matter of reading. The two violated properties are, of course, not theorems.
Every other property of the runs is one. Nothing is said about liveness or
`ENABLED`, which the prover does not do and this program does not have.

## 5. What is left

Not modelled, and why:

* Compression: both instructions end in an error, and no account is ever
  compressed.
* The JavaScript client, the IDL and the configuration: builders and data with
  no state. The tests of the JavaScript client were read for what callers expect.
* The builders and the CPI forms of the Rust client, which make the same rows of
  accounts as the forms in `ClientInstructions`.
* Gifts of lamports: anybody may send lamports to an account. That only adds to
  a balance, but `LamportsAreConserved` would need to count them.
* An execution inside an execution.
* The three extensions in one run. They meet in the verdict only (section 2), so
  a combination only rejects more, but for one case that none of them sees:
  Groups and adapters both change the length of an account, which
  `AccountLayout` does see.
* The permission engine inside `Messages`: any call there may be rejected.

Next: the permission engine composed with `Messages`, so that a call is rejected
for the ledger's reasons.
