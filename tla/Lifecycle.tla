------------------------------ MODULE Lifecycle ------------------------------
(***************************************************************************)
(* Who may do what: the permission engine of the program.                  *)
(*                                                                         *)
(* Every instruction that changes an asset or a collection asks the core   *)
(* account and the plugins registered on it for an opinion.  An opinion is *)
(* Approved, Rejected, ForceApproved or Pass; the instruction goes ahead   *)
(* when some plugin forces it, or when somebody approves and nobody        *)
(* rejects.  This module holds the opinions as predicates over             *)
(*                                                                         *)
(*   op    the lifecycle event,                                            *)
(*   p     the type of the plugin that is asked,                           *)
(*   rec   its registry record and data,                                   *)
(*   x     the validation context the handler builds.                      *)
(*                                                                         *)
(* It has no variables: the state machine that calls it is in MplCore.     *)
(***************************************************************************)
EXTENDS Naturals, FiniteSets

CONSTANTS
  Wallets,      \* addresses that own, hold authority and sign
  PluginTypes,  \* the plugin types registered in this instance
  NoPlugin      \* "there is no plugin of this type on the account"

AllPluginTypes ==
  { "Royalties", "FreezeDelegate", "BurnDelegate", "TransferDelegate",
    "UpdateDelegate", "PermanentFreezeDelegate", "Attributes",
    "PermanentTransferDelegate", "PermanentBurnDelegate", "Edition",
    "MasterEdition", "AddBlocker", "ImmutableMetadata", "VerifiedCreators",
    "Autograph", "BubblegumV2", "FreezeExecute", "PermanentFreezeExecute",
    "Groups" }

\* The types whose opinion depends on data that this module does not carry:
\* signatures, creators, program lists and group lists.
UnmodelledTypes == { "Royalties", "VerifiedCreators", "Autograph", "Groups" }

ASSUME PluginTypesAssumption ==
  PluginTypes \subseteq AllPluginTypes \ UnmodelledTypes

-----------------------------------------------------------------------------
(* Authorities and plugin records *)

\* Authority::Address is the address itself; the program id of mpl-bubblegum,
\* which manages BubblegumV2, never signs an instruction of this program.
Authorities == Wallets \cup { "None", "Owner", "UpdateAuthority", "Bubblegum" }

ASSUME AuthoritiesAssumption ==
  Wallets \cap { "None", "Owner", "UpdateAuthority", "Bubblegum" } = {}

\* A registry record with the plugin data the opinions read: frozen for the
\* four freeze plugins, delegates for UpdateDelegate.
PluginRecord ==
  [ auth : Authorities, frozen : BOOLEAN, delegates : SUBSET Wallets ]

ASSUME NoPluginAssumption == NoPlugin \notin PluginRecord

OwnerManaged ==
  { "FreezeDelegate", "BurnDelegate", "TransferDelegate", "Autograph",
    "FreezeExecute" }

\* The types whose data is the flag frozen.
FreezeTypes == { "FreezeDelegate", "PermanentFreezeDelegate",
                 "FreezeExecute", "PermanentFreezeExecute" }

\* Plugin::manager: the authority a plugin is born with and revoked to.
Manager(p) ==
  IF p \in OwnerManaged THEN "Owner"
  ELSE IF p = "BubblegumV2" THEN "Bubblegum" ELSE "UpdateAuthority"

\* No asset may be moved into a collection that carries one of these.
PermanentDelegates ==
  { "PermanentFreezeDelegate", "PermanentTransferDelegate",
    "PermanentBurnDelegate", "PermanentFreezeExecute" }

\* Mutant of BornOnly: a permanent type whose validator was not written.
BornOnlyButBurn == { "PermanentFreezeDelegate", "PermanentTransferDelegate",
                     "PermanentFreezeExecute", "Edition", "BubblegumV2" }

\* The types whose validate_add_plugin rejects an addition of themselves.
BornOnly == PermanentDelegates \cup { "Edition", "BubblegumV2" }

\* BubblegumV2::ALLOW_LIST.
BubblegumAllowList ==
  { "Attributes", "PermanentFreezeDelegate", "PermanentTransferDelegate",
    "PermanentBurnDelegate", "Royalties", "UpdateDelegate" }

-----------------------------------------------------------------------------
(* Who is asked: the types whose check function answers CanApprove or       *)
(* CanReject.  The two answers have the same effect.                        *)

Asked ==
  [ Create  |-> { "Royalties", "UpdateDelegate", "Autograph",
                  "VerifiedCreators" },
    AddPlugin |-> { "AddBlocker", "Royalties", "UpdateDelegate",
                    "PermanentFreezeDelegate", "PermanentTransferDelegate",
                    "PermanentBurnDelegate", "Edition", "Autograph",
                    "VerifiedCreators", "BubblegumV2",
                    "PermanentFreezeExecute" },
    RemovePlugin |-> AllPluginTypes,
    UpdatePlugin |-> AllPluginTypes,
    ApprovePluginAuthority |-> AllPluginTypes,
    RevokePluginAuthority  |-> AllPluginTypes,
    Update   |-> { "ImmutableMetadata", "UpdateDelegate" },
    Burn     |-> { "FreezeDelegate", "BurnDelegate", "PermanentFreezeDelegate",
                   "PermanentBurnDelegate", "Groups" },
    Transfer |-> { "Royalties", "FreezeDelegate", "TransferDelegate",
                   "PermanentFreezeDelegate", "PermanentTransferDelegate" } ]

-----------------------------------------------------------------------------
(* What they answer.  The context x has the fields                          *)
(*   signer     the authority that signs the instruction,                   *)
(*   resolved   the authorities that signer stands for on the account,      *)
(*   onAsset    an asset account was passed,                                *)
(*   target     the type of the plugin the instruction is about, or "None", *)
(*   new        its record: the present one, or the one being written,      *)
(*   leaving    an asset that sits in a collection gets another authority,  *)
(*   ownDelegate  the asset itself has an UpdateDelegate plugin.            *)

Holds(rec, x) == rec.auth \in x.resolved

IsUpdateDelegate(rec, x) == Holds(rec, x) \/ x.signer \in rec.delegates

Forces(op, p, rec, x) ==
  /\ Holds(rec, x)
  /\ \/ op = "Transfer" /\ p = "PermanentTransferDelegate"
     \/ op = "Burn" /\ p = "PermanentBurnDelegate"

\* Mutant of RejectsAdd: the allow list is only checked at creation.
RejectsAddOnlyItself(p, x) ==
  \/ p \in BornOnly /\ x.target = p
  \/ /\ p = "AddBlocker"
     /\ Manager(x.target) # "Owner" /\ x.target # "AddBlocker"

RejectsAdd(p, x) ==
  \/ p \in BornOnly /\ x.target = p
  \/ p = "BubblegumV2" /\ ~x.onAsset /\ x.target \notin BubblegumAllowList
  \/ /\ p = "AddBlocker"
     /\ Manager(x.target) # "Owner" /\ x.target # "AddBlocker"

\* Mutant of RejectsRemove: a frozen plugin may be removed.
RejectsRemoveUnlessFrozen(p, rec, x) ==
  \/ p = x.target /\ rec.auth = "None"
  \/ p = x.target /\ p \in { "Edition", "BubblegumV2" }

\* Mutant of RejectsRemove: the plugins born with an account may be removed.
RejectsRemoveOnlyFrozen(p, rec, x) ==
  \/ p = x.target /\ rec.auth = "None"
  \/ p \in { "FreezeDelegate", "PermanentFreezeDelegate" } /\ rec.frozen

RejectsRemove(p, rec, x) ==
  \/ p = x.target /\ rec.auth = "None"
  \/ p = x.target /\ p \in { "Edition", "BubblegumV2" }
  \/ p \in { "FreezeDelegate", "PermanentFreezeDelegate" } /\ rec.frozen
  \/ /\ p \in { "FreezeExecute", "PermanentFreezeExecute" }
     /\ p = x.target /\ rec.frozen

RejectsApprove(p, rec, x) ==
  /\ p = x.target
  /\ \/ rec.auth # Manager(p)
     \/ p \in { "FreezeDelegate", "FreezeExecute" } /\ rec.frozen

RejectsRevoke(p, rec, x) ==
  /\ p = x.target
  /\ \/ rec.auth = "None"
     \/ p \in { "FreezeDelegate", "FreezeExecute" } /\ rec.frozen

\* Mutant of RejectsUpdate: ImmutableMetadata lets members leave.
RejectsUpdateOfName(p, rec, x) ==
  \/ p = "ImmutableMetadata" /\ ~x.leaving
  \/ /\ p = "UpdateDelegate" /\ IsUpdateDelegate(rec, x)
     /\ x.leaving /\ x.ownDelegate

RejectsUpdate(p, rec, x) ==
  \/ p = "ImmutableMetadata"
  \/ /\ p = "UpdateDelegate" /\ IsUpdateDelegate(rec, x)
     /\ x.leaving /\ x.ownDelegate

\* Mutant of RejectsMove: the permanent freeze is forgotten.
RejectsMoveByOwnerFreeze(p, rec) == p = "FreezeDelegate" /\ rec.frozen

RejectsMove(p, rec) ==
  p \in { "FreezeDelegate", "PermanentFreezeDelegate" } /\ rec.frozen

Rejects(op, p, rec, x) ==
  \/ op = "AddPlugin" /\ RejectsAdd(p, x)
  \/ op = "RemovePlugin" /\ RejectsRemove(p, rec, x)
  \/ op = "ApprovePluginAuthority" /\ RejectsApprove(p, rec, x)
  \/ op = "RevokePluginAuthority" /\ RejectsRevoke(p, rec, x)
  \/ op = "Update" /\ RejectsUpdate(p, rec, x)
  \/ op \in { "Burn", "Transfer" } /\ RejectsMove(p, rec)

\* Mutant of MayRevoke: a delegate may revoke the authority of the plugin.
MayRevokeLikeApprove(rec, x) == IsUpdateDelegate(rec, x)

\* An additional delegate cannot revoke the plugin's own authority.
MayRevoke(rec, x) ==
  \/ Holds(rec, x)
  \/ x.signer \in rec.delegates /\ x.target # "UpdateDelegate"

\* A delegate can only strike its own name from the plugin.
MayUpdatePlugin(rec, x) ==
  \/ /\ x.target = "UpdateDelegate"
     /\ rec.delegates \ x.new.delegates = { x.signer }
     /\ x.new.delegates \subseteq rec.delegates
  \/ x.target # "UpdateDelegate" /\ x.new.auth = "UpdateAuthority"

\* The UpdateDelegate plugin speaks for its authority and for its additional
\* delegates.  It stands in for the update authority, except that it cannot
\* redelegate itself.
UpdateDelegateApproves(op, rec, x) ==
  \/ op = "Create" /\ IsUpdateDelegate(rec, x)
  \/ /\ op \in { "AddPlugin", "RemovePlugin", "ApprovePluginAuthority" }
     /\ IsUpdateDelegate(rec, x) /\ Manager(x.target) = "UpdateAuthority"
     /\ op = "ApprovePluginAuthority" => x.target # "UpdateDelegate"
  \/ /\ op = "RevokePluginAuthority"
     /\ Manager(x.target) = "UpdateAuthority" /\ MayRevoke(rec, x)
  \/ /\ op = "Update" /\ IsUpdateDelegate(rec, x)
     /\ ~(x.leaving /\ x.ownDelegate)
  \/ /\ op = "UpdatePlugin"
     /\ IsUpdateDelegate(rec, x) /\ MayUpdatePlugin(rec, x)

Approves(op, p, rec, x) ==
  \/ p = "UpdateDelegate" /\ UpdateDelegateApproves(op, rec, x)
  \/ /\ op \in { "UpdatePlugin", "RevokePluginAuthority" }
     /\ p = x.target /\ Holds(rec, x)
  \/ op = "Burn" /\ p = "BurnDelegate" /\ Holds(rec, x)
  \/ op = "Transfer" /\ p = "TransferDelegate" /\ Holds(rec, x)

\* The verdict.  "held" maps each type to the record that counts for it and
\* "core" says whether the asset or the collection itself approves: neither
\* ever rejects.  A force beats every rejection, a rejection every approval.
Granted(op, held, x, core) ==
  LET asked == { p \in PluginTypes \cap Asked[op] : held[p] # NoPlugin }
  IN \/ \E p \in asked : Forces(op, p, held[p], x)
     \/ /\ core \/ \E p \in asked : Approves(op, p, held[p], x)
        /\ \A p \in asked : ~Rejects(op, p, held[p], x)

=============================================================================
