------------------------------- MODULE MplCore -------------------------------
(***************************************************************************)
(* The ledger of assets and collections, and the instructions that change  *)
(* it.                                                                     *)
(*                                                                         *)
(* An instruction either succeeds, and all its writes become visible at    *)
(* once, or fails and leaves every account as it was: Solana gives each    *)
(* transaction exclusive access to the accounts it writes and rolls a      *)
(* failed one back.  So there is one action per instruction, its guard is  *)
(* the conjunction of the handler's checks, and a failing call is a call   *)
(* that is not enabled.                                                    *)
(***************************************************************************)
EXTENDS Lifecycle

CONSTANTS
  Assets,           \* addresses of asset accounts
  Collections,      \* addresses of collection accounts
  Signers,          \* who signs instructions
  Metas,            \* values of the name and uri of an account
  AssetTypes,       \* plugin types that instructions name for assets
  CollectionTypes,  \* plugin types that instructions name for collections
  AuthorityArgs,    \* authorities that instructions name
  DelegateArgs,     \* lists of additional delegates that instructions name
  AssetBirths,      \* plugin maps an asset may be created with
  CollectionBirths, \* plugin maps a collection may be created with
  U32Max,           \* the largest value of the two counters of a collection
  MaxLeaves         \* bound: compressed assets that Bubblegum may report

Accounts == Assets \cup Collections

NoPlugins == [p \in PluginTypes |-> NoPlugin]

PluginMaps == [PluginTypes -> PluginRecord \cup { NoPlugin }]

\* UpdateAuthority::Address and ::Collection are told apart by the set the key
\* is in: no account's own key is ever named as an address.
UpdateAuthorities == Wallets \cup Collections \cup { "None" }

Keep == "Keep"  \* an optional argument that is not given

ASSUME KeysAssumption ==
  /\ Assets \cap Collections = {} /\ Assets \cap Wallets = {}
  /\ Collections \cap Wallets = {}
  /\ "None" \notin Accounts /\ Keep \notin Accounts \cup Wallets
  /\ Accounts \cap Authorities = {}
  /\ Signers \subseteq Wallets \cup Collections

ASSUME ArgsAssumption ==
  /\ IsFiniteSet(Assets)
  /\ AuthorityArgs \subseteq Authorities
  /\ AssetTypes \cup CollectionTypes \subseteq PluginTypes
  /\ DelegateArgs \subseteq SUBSET Wallets
  /\ AssetBirths \cup CollectionBirths \subseteq PluginMaps
  /\ "None" \notin Metas /\ Keep \notin Metas

ASSUME CountersAssumption ==
  U32Max \in Nat /\ MaxLeaves \in Nat

VARIABLES
  stage,    \* Free (never created), Live, or Closed (burned) for each account
  owner,    \* AssetV1::owner
  ua,       \* update_authority of an asset or a collection
  meta,     \* name and uri
  plugins,  \* the plugin registry of each account, with the plugins' data
  size,     \* CollectionV1::current_size
  minted,   \* CollectionV1::num_minted
  leaves,   \* external: live compressed assets of each collection
  ix        \* history: the last instruction, its signer and its account

ledger == << stage, owner, ua, meta, plugins, size, minted, leaves >>
vars == << stage, owner, ua, meta, plugins, size, minted, leaves, ix >>

Live(k) == stage[k] = "Live"

Members(c) == { a \in Assets : Live(a) /\ ua[a] = c }

Init ==
  /\ stage = [k \in Accounts |-> "Free"]
  /\ owner = [a \in Assets |-> "None"]
  /\ ua = [k \in Accounts |-> "None"]
  /\ meta = [k \in Accounts |-> "None"]
  /\ plugins = [k \in Accounts |-> NoPlugins]
  /\ size = [c \in Collections |-> 0]
  /\ minted = [c \in Collections |-> 0]
  /\ leaves = [c \in Collections |-> 0]
  /\ ix = [op |-> "None", by |-> "None", on |-> "None"]

Record(op, s, k) == ix' = [op |-> op, by |-> s, on |-> k]

-----------------------------------------------------------------------------
(* Permissions *)

\* Mutant of Effective: the plugins of the collection are not read.
EffectiveOnAsset(pl, u) == pl

\* The records that count for an asset with plugins pl and update authority u:
\* its own, and those of its collection where it has none of that type.
Effective(pl, u) ==
  [p \in PluginTypes |->
     IF pl[p] = NoPlugin /\ u \in Collections THEN plugins[u][p] ELSE pl[p]]

\* resolve_pubkey_to_authorities.
ResolvedOnAsset(s, own, u) ==
  { s } \cup { r \in { "Owner", "UpdateAuthority" } :
                 \/ r = "Owner" /\ s = own
                 \/ r = "UpdateAuthority" /\ u \in Wallets /\ s = u
                 \/ r = "UpdateAuthority" /\ u \in Collections /\ s = ua[u] }

\* A collection has no owner of its own: its update authority is both.
ResolvedOnCollection(s, c) ==
  { s } \cup { r \in { "Owner", "UpdateAuthority" } : s = ua[c] }

AssetContext(s, own, u) ==
  [ signer |-> s, resolved |-> ResolvedOnAsset(s, own, u), onAsset |-> TRUE,
    target |-> "None", new |-> NoPlugin, leaving |-> FALSE,
    ownDelegate |-> FALSE ]

CollectionContext(s, c) ==
  [ signer |-> s, resolved |-> ResolvedOnCollection(s, c), onAsset |-> FALSE,
    target |-> "None", new |-> NoPlugin, leaving |-> FALSE,
    ownDelegate |-> FALSE ]

PluginOps == { "AddPlugin", "RemovePlugin", "ApprovePluginAuthority",
               "RevokePluginAuthority" }

\* Does the asset itself approve?  An address that is the update authority,
\* not a collection that is; only validate_update compares the bare key.
AssetApproves(op, s, own, u, p) ==
  \/ op = "Create" /\ u \notin Collections
  \/ /\ op \in PluginOps
     /\ \/ s = own /\ Manager(p) = "Owner"
        \/ u \in Wallets /\ s = u /\ Manager(p) = "UpdateAuthority"
  \/ op = "Update" /\ s = u
  \/ op \in { "Burn", "Transfer" } /\ s = own

\* Does the collection approve, for itself or for an asset that sits in it?
CollectionApproves(op, s, c, p) ==
  /\ s = ua[c]
  /\ \/ op \in { "Create", "Update" }
     \/ op \in PluginOps /\ Manager(p) = "UpdateAuthority"

\* validate_asset_permissions.
AssetGrants(op, own, u, pl, x) ==
  Granted(op, Effective(pl, u), x,
          \/ AssetApproves(op, x.signer, own, u, x.target)
          \/ u \in Collections /\ CollectionApproves(op, x.signer, u, x.target))

\* validate_collection_permissions.
CollectionGrants(op, c, x) ==
  Granted(op, plugins[c], x, CollectionApproves(op, x.signer, c, x.target))

\* The same for an instruction about one plugin of account k.
PluginGrants(op, s, k, p, new) ==
  IF k \in Assets
  THEN AssetGrants(op, owner[k], ua[k], plugins[k],
         [AssetContext(s, owner[k], ua[k]) EXCEPT !.target = p, !.new = new])
  ELSE CollectionGrants(op, k,
         [CollectionContext(s, k) EXCEPT !.target = p, !.new = new])

-----------------------------------------------------------------------------
(* Creation *)

\* A plugin as an instruction can name it.
PluginArgs(p) ==
  [ auth : AuthorityArgs \cup { Manager(p) },
    frozen : IF p \in FreezeTypes THEN BOOLEAN ELSE { FALSE },
    delegates : IF p = "UpdateDelegate" THEN DelegateArgs ELSE { {} } ]

Carries(pl, types) == \E p \in PluginTypes \cap types : pl[p] # NoPlugin

\* Mutants of IncrementSize and DecrementSize: the change is not saved.
SizeNotSaved(sizes, c) == sizes

\* increment_size and decrement_size, when there is a collection c.
IncrementSize(sizes, c) ==
  [k \in Collections |-> IF k = c THEN sizes[k] + 1 ELSE sizes[k]]

DecrementSize(sizes, c) ==
  [k \in Collections |-> IF k = c THEN sizes[k] - 1 ELSE sizes[k]]

\* The account must be unused: a closed account stays with the program.
CreateV2(s, a, o, u, pl, m) ==
  /\ stage[a] = "Free" /\ (u \in Collections => Live(u))
  /\ AssetGrants("Create", o, u, NoPlugins, AssetContext(s, o, u))
  /\ ~Carries(pl, { "MasterEdition", "BubblegumV2", "Groups" })
  /\ u \in Collections => minted[u] < U32Max /\ size[u] < U32Max
  /\ stage' = [stage EXCEPT ![a] = "Live"]
  /\ owner' = [owner EXCEPT ![a] = o]
  /\ ua' = [ua EXCEPT ![a] = u]
  /\ meta' = [meta EXCEPT ![a] = m]
  /\ plugins' = [plugins EXCEPT ![a] = pl]
  /\ minted' = IncrementSize(minted, u) /\ size' = IncrementSize(size, u)
  /\ Record("Create", s, a) /\ UNCHANGED leaves

\* The payer need not be the update authority it names.
CreateCollectionV2(s, c, u, pl, m) ==
  /\ stage[c] = "Free"
  /\ ~Carries(pl, OwnerManaged \cup { "Edition", "Groups" })
  /\ Carries(pl, { "BubblegumV2" }) =>
       /\ ~Carries(pl, AllPluginTypes \ (BubblegumAllowList \cup { "BubblegumV2" }))
       /\ pl["BubblegumV2"].auth = Manager("BubblegumV2")
  /\ stage' = [stage EXCEPT ![c] = "Live"]
  /\ ua' = [ua EXCEPT ![c] = u]
  /\ meta' = [meta EXCEPT ![c] = m]
  /\ plugins' = [plugins EXCEPT ![c] = pl]
  /\ Record("CreateCollection", s, c)
  /\ UNCHANGED << owner, size, minted, leaves >>

-----------------------------------------------------------------------------
(* The plugin instructions, for an asset or a collection *)

SetPlugin(k, p, rec) == plugins' = [plugins EXCEPT ![k][p] = rec]

PluginStep(op, s, k) ==
  /\ Record(op, s, k)
  /\ UNCHANGED << stage, owner, ua, meta, size, minted, leaves >>

\* The plugin is first asked about its own addition, with nobody resolved.
AddPlugin(s, k, p, rec) ==
  /\ Live(k) /\ plugins[k][p] = NoPlugin
  /\ p # "Groups" /\ (k \in Assets => p # "MasterEdition")
  /\ k \in Collections => p \notin OwnerManaged
  /\ ~RejectsAdd(p, [target |-> p, onAsset |-> k \in Assets])
  /\ PluginGrants("AddPlugin", s, k, p, rec)
  /\ SetPlugin(k, p, rec)
  /\ PluginStep("AddPlugin", s, k)

RemovePlugin(s, k, p) ==
  /\ Live(k) /\ plugins[k][p] # NoPlugin /\ p # "Groups"
  /\ PluginGrants("RemovePlugin", s, k, p, plugins[k][p])
  /\ SetPlugin(k, p, NoPlugin)
  /\ PluginStep("RemovePlugin", s, k)

\* The data is replaced, the authority of the record stays.
UpdatePlugin(s, k, p, arg) ==
  /\ Live(k) /\ plugins[k][p] # NoPlugin /\ p # "Groups"
  /\ LET new == [arg EXCEPT !.auth = plugins[k][p].auth]
     IN /\ PluginGrants("UpdatePlugin", s, k, p, new)
        /\ SetPlugin(k, p, new)
  /\ PluginStep("UpdatePlugin", s, k)

ApprovePluginAuthority(s, k, p, auth) ==
  /\ Live(k) /\ plugins[k][p] # NoPlugin /\ p # "Groups"
  /\ PluginGrants("ApprovePluginAuthority", s, k, p, plugins[k][p])
  /\ SetPlugin(k, p, [plugins[k][p] EXCEPT !.auth = auth])
  /\ PluginStep("ApprovePluginAuthority", s, k)

RevokePluginAuthority(s, k, p) ==
  /\ Live(k) /\ plugins[k][p] # NoPlugin /\ p # "Groups"
  /\ PluginGrants("RevokePluginAuthority", s, k, p, plugins[k][p])
  /\ SetPlugin(k, p, [plugins[k][p] EXCEPT !.auth = Manager(p)])
  /\ PluginStep("RevokePluginAuthority", s, k)

-----------------------------------------------------------------------------
(* Transfer and update *)

\* Every owner-managed plugin goes back to the owner, whoever holds it.
ResetOwnerManaged(pl) ==
  [p \in PluginTypes |->
     IF p \in OwnerManaged /\ pl[p] # NoPlugin
     THEN [pl[p] EXCEPT !.auth = "Owner"] ELSE pl[p]]

Transfer(s, a, o) ==
  /\ Live(a)
  /\ AssetGrants("Transfer", owner[a], ua[a], plugins[a],
                 AssetContext(s, owner[a], ua[a]))
  /\ plugins' = [plugins EXCEPT ![a] = ResetOwnerManaged(@)]
  /\ owner' = [owner EXCEPT ![a] = o]
  /\ Record("Transfer", s, a)
  /\ UNCHANGED << stage, ua, meta, size, minted, leaves >>

UpdateContext(s, a, u) ==
  [AssetContext(s, owner[a], ua[a]) EXCEPT
     !.leaving = ua[a] \in Collections /\ u \notin { Keep, ua[a] },
     !.ownDelegate = "UpdateDelegate" \in PluginTypes
                     /\ plugins[a]["UpdateDelegate"] # NoPlugin]

\* Mutant of MayReceive: any holder of a key counts, once there is a plugin.
MayReceiveFromAnyone(s, c) ==
  \/ s = ua[c]
  \/ "UpdateDelegate" \in PluginTypes /\ plugins[c]["UpdateDelegate"] # NoPlugin

\* Who may take an asset into collection c: its update authority, the holder
\* of its UpdateDelegate plugin, or an additional delegate.
MayReceive(s, c) ==
  \/ s = ua[c]
  \/ /\ "UpdateDelegate" \in PluginTypes
     /\ plugins[c]["UpdateDelegate"] # NoPlugin
     /\ s \in { plugins[c]["UpdateDelegate"].auth }
              \cup plugins[c]["UpdateDelegate"].delegates

\* Mutant of MoveMember: the new collection was read before the old was saved.
MoveMemberStale(from, to) ==
  [c \in Collections |->
     IF c = to THEN size[c] + 1 ELSE IF c = from THEN size[c] - 1 ELSE size[c]]

\* The old collection is saved before the new one, maybe the same, is read.
MoveMember(from, to) == IncrementSize(DecrementSize(size, from), to)

\* Only UpdateV2 keeps the sizes: UpdateV1 refuses every change that needs it.
Update(s, a, v, u, m) ==
  /\ Live(a)
  /\ AssetGrants("Update", owner[a], ua[a], plugins[a], UpdateContext(s, a, u))
  /\ u # Keep /\ ua[a] \in Collections => v = "V2" /\ size[ua[a]] > 0
  /\ u \in Collections =>
       /\ v = "V2" /\ Live(u) /\ ~Carries(plugins[u], PermanentDelegates)
       /\ MayReceive(s, u)
  /\ size' = IF u = Keep THEN size ELSE MoveMember(ua[a], u)
  /\ u \in Collections => size'[u] <= U32Max
  /\ ua' = [ua EXCEPT ![a] = IF u = Keep THEN @ ELSE u]
  /\ meta' = [meta EXCEPT ![a] = IF m = Keep THEN @ ELSE m]
  /\ Record("Update", s, a)
  /\ UNCHANGED << stage, owner, plugins, minted, leaves >>

UpdateCollection(s, c, u, m) ==
  /\ Live(c)
  /\ CollectionGrants("Update", c, CollectionContext(s, c))
  /\ ua' = [ua EXCEPT ![c] = IF u = Keep THEN @ ELSE u]
  /\ meta' = [meta EXCEPT ![c] = IF m = Keep THEN @ ELSE m]
  /\ Record("UpdateCollection", s, c)
  /\ UNCHANGED << stage, owner, plugins, size, minted, leaves >>

-----------------------------------------------------------------------------
(* Burning *)

\* The account is closed: its data is gone and its address is spent.
Close(k) ==
  /\ stage' = [stage EXCEPT ![k] = "Closed"]
  /\ ua' = [ua EXCEPT ![k] = "None"]
  /\ meta' = [meta EXCEPT ![k] = "None"]
  /\ plugins' = [plugins EXCEPT ![k] = NoPlugins]

Burn(s, a) ==
  /\ Live(a)
  /\ AssetGrants("Burn", owner[a], ua[a], plugins[a],
                 AssetContext(s, owner[a], ua[a]))
  /\ ua[a] \in Collections => size[ua[a]] > 0
  /\ Close(a)
  /\ owner' = [owner EXCEPT ![a] = "None"]
  /\ size' = DecrementSize(size, ua[a])
  /\ Record("Burn", s, a) /\ UNCHANGED << minted, leaves >>

\* Mutant of BurnCollection: the size is not looked at.
BurnCollectionWithMembers(s, c) ==
  /\ Live(c) /\ s = ua[c]
  /\ Granted("Burn", plugins[c], CollectionContext(s, c),
             CollectionApproves("Update", s, c, "None"))
  /\ Close(c)
  /\ minted' = [minted EXCEPT ![c] = 0]
  /\ Record("BurnCollection", s, c)
  /\ UNCHANGED << owner, size, leaves >>

\* The plugins are asked about the burn, the collection about an update.
BurnCollection(s, c) ==
  /\ Live(c) /\ size[c] = 0 /\ s = ua[c]
  /\ Granted("Burn", plugins[c], CollectionContext(s, c),
             CollectionApproves("Update", s, c, "None"))
  /\ Close(c)
  /\ minted' = [minted EXCEPT ![c] = 0]
  /\ Record("BurnCollection", s, c)
  /\ UNCHANGED << owner, size, leaves >>

-----------------------------------------------------------------------------
(* Compressed assets: the Bubblegum program reports what it did to the      *)
(* members it keeps in its own trees.                                       *)

\* Mutant of SaturatingAdd: the counter is not kept within its width.
UnboundedAdd(n, amount) == n + amount

SaturatingAdd(n, amount) == IF n + amount > U32Max THEN U32Max ELSE n + amount

SaturatingSub(n, amount) == IF amount > n THEN 0 ELSE n - amount

UpdateCollectionInfo(c, type, amount) ==
  /\ Live(c)
  /\ type = "Mint" \/ UNCHANGED minted
  /\ \/ /\ type = "Mint" /\ leaves[c] + amount <= MaxLeaves
        /\ minted' = [minted EXCEPT ![c] = SaturatingAdd(@, amount)]
        /\ size' = [size EXCEPT ![c] = SaturatingAdd(@, amount)]
        /\ leaves' = [leaves EXCEPT ![c] = @ + amount]
     \/ /\ type = "Add" /\ leaves[c] + amount <= MaxLeaves
        /\ size' = [size EXCEPT ![c] = SaturatingAdd(@, amount)]
        /\ leaves' = [leaves EXCEPT ![c] = @ + amount]
     \/ /\ type = "Remove" /\ amount <= leaves[c]
        /\ size' = [size EXCEPT ![c] = SaturatingSub(@, amount)]
        /\ leaves' = [leaves EXCEPT ![c] = @ - amount]
  /\ Record("UpdateCollectionInfo", "Bubblegum", c)
  /\ UNCHANGED << stage, owner, ua, meta, plugins >>

-----------------------------------------------------------------------------

PluginInstruction(s, k, types) ==
  \E p \in types :
     \/ \E rec \in PluginArgs(p) : AddPlugin(s, k, p, rec)
     \/ RemovePlugin(s, k, p)
     \/ \E arg \in PluginArgs(p) : UpdatePlugin(s, k, p, arg)
     \/ \E auth \in AuthorityArgs : ApprovePluginAuthority(s, k, p, auth)
     \/ RevokePluginAuthority(s, k, p)

AssetInstruction(s, a) ==
  \/ \E o \in Wallets, u \in Wallets \cup Collections, pl \in AssetBirths,
        m \in Metas : CreateV2(s, a, o, u, pl, m)
  \/ PluginInstruction(s, a, AssetTypes)
  \/ \E o \in Wallets : Transfer(s, a, o)
  \/ \E v \in { "V1", "V2" }, u \in UpdateAuthorities \cup { Keep },
        m \in Metas \cup { Keep } : Update(s, a, v, u, m)
  \/ Burn(s, a)

CollectionInstruction(s, c) ==
  \/ \E u \in Wallets, pl \in CollectionBirths, m \in Metas :
        CreateCollectionV2(s, c, u, pl, m)
  \/ PluginInstruction(s, c, CollectionTypes)
  \/ \E u \in Wallets \cup { Keep }, m \in Metas \cup { Keep } :
        UpdateCollection(s, c, u, m)
  \/ BurnCollection(s, c)

Next ==
  \/ \E s \in Signers, a \in Assets : AssetInstruction(s, a)
  \/ \E s \in Signers, c \in Collections : CollectionInstruction(s, c)
  \/ \E c \in Collections, type \in { "Mint", "Add", "Remove" },
        amount \in 1 .. MaxLeaves : UpdateCollectionInfo(c, type, amount)

Spec == Init /\ [][Next]_vars

=============================================================================
