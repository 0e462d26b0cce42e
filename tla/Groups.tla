------------------------------- MODULE Groups --------------------------------
(***************************************************************************)
(* Groups: accounts that gather assets, collections and other groups.      *)
(*                                                                         *)
(* Every link is written down twice.  The group lists what it contains, in *)
(* one vector for each kind of account; the member lists the groups it is  *)
(* in, a group in its parent_groups, an asset or a collection in a Groups  *)
(* plugin that the group instructions alone create and change.  Nothing    *)
(* asks the plugins of the member about it, and the ledger of MplCore sees *)
(* groups in one place: a burn asks the Groups plugin too.                 *)
(***************************************************************************)
EXTENDS MplCore

CONSTANTS
  GroupKeys,   \* addresses of group accounts
  MaxVector,   \* MAX_GROUP_VECTOR_SIZE
  MaxParents   \* MAX_GROUP_NESTING_DEPTH

Nodes == Accounts \cup GroupKeys

ASSUME GroupsAssumption ==
  /\ IsFiniteSet(GroupKeys) /\ IsFiniteSet(Collections)
  /\ GroupKeys \cap (Accounts \cup Wallets \cup { "None" }) = {}
  /\ MaxVector \in Nat /\ MaxParents \in Nat

VARIABLES
  gstage,    \* Free, Live or Closed for each group account
  gua,       \* GroupV1::update_authority
  contents,  \* GroupV1::collections, groups and assets, as one set
  parents,   \* GroupV1::parent_groups, or the list of the Groups plugin
  gix        \* history: the last group instruction and its signer

links == << gstage, gua, contents, parents >>
groupVars == << vars, gstage, gua, contents, parents, gix >>

GroupsInit ==
  /\ Init
  /\ gstage = [g \in GroupKeys |-> "Free"]
  /\ gua = [g \in GroupKeys |-> "None"]
  /\ contents = [g \in GroupKeys |-> {}]
  /\ parents = [k \in Nodes |-> {}]
  /\ gix = [op |-> "None", by |-> "None"]

GroupStep(op, s) == gix' = [op |-> op, by |-> s] /\ UNCHANGED vars

-----------------------------------------------------------------------------
(* Authority over what is linked *)

\* The additional delegates that an UpdateDelegate plugin of the account names.
Delegates(k) ==
  IF Carries(plugins[k], { "UpdateDelegate" })
  THEN plugins[k]["UpdateDelegate"].delegates ELSE {}

IsCollectionAuthority(s, c) == Live(c) /\ s \in { ua[c] } \cup Delegates(c)

\* A member is in the hands of its collection, and of its own delegates.
IsAssetAuthority(s, a) ==
  /\ Live(a)
  /\ \/ ua[a] \in Wallets /\ s = ua[a]
     \/ ua[a] \in Collections /\ IsCollectionAuthority(s, ua[a])
     \/ s \in Delegates(a)

IsGroupAuthority(s, g) == gstage[g] = "Live" /\ s = gua[g]

HasAuthority(s, k) ==
  \/ k \in Assets /\ IsAssetAuthority(s, k)
  \/ k \in Collections /\ IsCollectionAuthority(s, k)
  \/ k \in GroupKeys /\ IsGroupAuthority(s, k)

\* Mutant of MayLink: the authority over the group is enough.
MayLinkOwnGroup(s, g, M) == IsGroupAuthority(s, g)

\* One signer has authority over the group and over every member it names.
MayLink(s, g, M) ==
  IsGroupAuthority(s, g) /\ \A m \in M : HasAuthority(s, m)

-----------------------------------------------------------------------------
(* Life of a group *)

\* Each vector of a group is within its limit.
FitsVectors(M) ==
  \A kind \in { Assets, Collections, GroupKeys } :
    Cardinality(M \cap kind) <= MaxVector

\* Mutant of HasRoomForParent: the limit is off by one.
HasRoomForOneMore(k, g) ==
  g \in parents[k] \/ Cardinality(parents[k]) <= MaxParents

HasRoomForParent(k, g) ==
  g \in parents[k] \/ Cardinality(parents[k]) < MaxParents

HasRoomForChild(p, g) ==
  g \in contents[p] \/ Cardinality(contents[p] \cap GroupKeys) < MaxVector

\* The new group contains M and is in the groups P; both sides are written.
CreateGroup(s, g, M, P) ==
  /\ gstage[g] = "Free"
  /\ M \cap P = {} /\ g \notin M \cup P
  /\ FitsVectors(M) /\ Cardinality(P) <= MaxParents
  /\ \A k \in M \cup P : HasAuthority(s, k)
  /\ \A k \in M \cap GroupKeys : HasRoomForParent(k, g)
  /\ \A p \in P : HasRoomForChild(p, g)
  /\ gstage' = [gstage EXCEPT ![g] = "Live"]
  /\ gua' = [gua EXCEPT ![g] = s]
  /\ contents' = [p \in GroupKeys |->
       IF p = g THEN M
       ELSE IF p \in P THEN contents[p] \cup { g } ELSE contents[p]]
  /\ parents' = [k \in Nodes |->
       IF k = g THEN P
       ELSE IF k \in M THEN parents[k] \cup { g } ELSE parents[k]]
  /\ GroupStep("CreateGroup", s)

UpdateGroup(s, g, u) ==
  /\ IsGroupAuthority(s, g)
  /\ gua' = [gua EXCEPT ![g] = u]
  /\ GroupStep("UpdateGroup", s)
  /\ UNCHANGED << gstage, contents, parents >>

\* Mutants of IsEmptyGroup: only one of the two directions is looked at.
HasNoChildren(g) == contents[g] = {}

HasNoParents(g) == parents[g] = {}

IsEmptyGroup(g) == contents[g] = {} /\ parents[g] = {}

CloseGroup(s, g) ==
  /\ IsGroupAuthority(s, g) /\ IsEmptyGroup(g)
  /\ gstage' = [gstage EXCEPT ![g] = "Closed"]
  /\ gua' = [gua EXCEPT ![g] = "None"]
  /\ GroupStep("CloseGroup", s)
  /\ UNCHANGED << contents, parents >>

-----------------------------------------------------------------------------
(* Members come and go *)

AddToGroup(op, s, g, M) ==
  /\ MayLink(s, g, M)
  /\ M \cap contents[g] = {} /\ FitsVectors(contents[g] \cup M)
  /\ contents' = [contents EXCEPT ![g] = @ \cup M]
  /\ parents' = [k \in Nodes |->
       IF k \in M THEN parents[k] \cup { g } ELSE parents[k]]
  /\ GroupStep(op, s)
  /\ UNCHANGED << gstage, gua >>

AddAssetsToGroup(s, g, M) ==
  M \subseteq Assets /\ AddToGroup("AddAssetsToGroup", s, g, M)

AddCollectionsToGroup(s, g, M) ==
  M \subseteq Collections /\ AddToGroup("AddCollectionsToGroup", s, g, M)

AddGroupsToGroup(s, g, M) ==
  /\ M \subseteq GroupKeys /\ g \notin M
  /\ \A m \in M : Cardinality(parents[m]) < MaxParents
  /\ AddToGroup("AddGroupsToGroup", s, g, M)

\* Mutant of Unparent: the members keep their side of the link.
UnparentNobody(g, M) == parents

\* The other side of a removal, in each member of M.
Unparent(g, M) ==
  [k \in Nodes |-> IF k \in M THEN parents[k] \ { g } ELSE parents[k]]

\* A member is named by its account, so what was burned cannot be removed.
RemoveFromGroup(op, s, g, M) ==
  /\ MayLink(s, g, M)
  /\ M \subseteq contents[g]
  /\ contents' = [contents EXCEPT ![g] = @ \ M]
  /\ parents' = Unparent(g, M)
  /\ GroupStep(op, s)
  /\ UNCHANGED << gstage, gua >>

RemoveAssetsFromGroup(s, g, M) ==
  M \subseteq Assets /\ RemoveFromGroup("RemoveAssetsFromGroup", s, g, M)

RemoveCollectionsFromGroup(s, g, M) ==
  /\ M \subseteq Collections
  /\ RemoveFromGroup("RemoveCollectionsFromGroup", s, g, M)

RemoveGroupsFromGroup(s, g, M) ==
  /\ M \subseteq GroupKeys /\ \A m \in M : g \in parents[m]
  /\ RemoveFromGroup("RemoveGroupsFromGroup", s, g, M)

-----------------------------------------------------------------------------
(* The ledger under groups *)

BurnIsForced(s, k) ==
  LET held == IF k \in Assets THEN Effective(plugins[k], ua[k]) ELSE plugins[k]
      x == IF k \in Assets THEN AssetContext(s, owner[k], ua[k])
           ELSE CollectionContext(s, k)
  IN \E p \in PluginTypes : held[p] # NoPlugin /\ Forces("Burn", p, held[p], x)

\* Mutant of GroupsAllowBurn: the Groups plugin is not asked.
GroupsNotAsked(s, k) == TRUE

\* Groups::validate_burn rejects for the member itself, not for the assets of
\* a member collection, and a permanent delegate forces the burn all the same.
GroupsAllowBurn(s, k) == parents[k] = {} \/ BurnIsForced(s, k)

\* The plugin goes with the account; the groups keep their side of the link.
BurnAccount(s, k) ==
  /\ \/ k \in Assets /\ Burn(s, k)
     \/ k \in Collections /\ BurnCollection(s, k)
  /\ GroupsAllowBurn(s, k)
  /\ parents' = [parents EXCEPT ![k] = {}]
  /\ UNCHANGED << gstage, gua, contents, gix >>

OtherInstruction ==
  /\ Next
  /\ \A k \in Accounts : Live(k) => stage'[k] = "Live"
  /\ UNCHANGED << gstage, gua, contents, parents, gix >>

GroupInstruction(s, g) ==
  \/ \E M \in SUBSET Nodes, P \in SUBSET GroupKeys : CreateGroup(s, g, M, P)
  \/ \E u \in Wallets : UpdateGroup(s, g, u)
  \/ CloseGroup(s, g)
  \/ \E M \in SUBSET Assets :
        AddAssetsToGroup(s, g, M) \/ RemoveAssetsFromGroup(s, g, M)
  \/ \E M \in SUBSET Collections :
        AddCollectionsToGroup(s, g, M) \/ RemoveCollectionsFromGroup(s, g, M)
  \/ \E M \in SUBSET GroupKeys :
        AddGroupsToGroup(s, g, M) \/ RemoveGroupsFromGroup(s, g, M)

GroupsNext ==
  \/ \E s \in Signers, g \in GroupKeys : GroupInstruction(s, g)
  \/ \E s \in Signers, k \in Accounts : BurnAccount(s, k)
  \/ OtherInstruction

GroupsSpec == GroupsInit /\ [][GroupsNext]_groupVars

=============================================================================
