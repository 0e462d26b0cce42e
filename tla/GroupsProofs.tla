---------------------------- MODULE GroupsProofs -----------------------------
(***************************************************************************)
(* Theorems about Groups, for any number of groups, assets, collections and*)
(* wallets, and any limits of the vectors: first its invariants, then what *)
(* a step may do, who links, who burns a member, and that every step is    *)
(* one of the abstract relation of GroupGraph.                             *)
(***************************************************************************)
EXTENDS GroupsProperties, MplCoreProofs

-----------------------------------------------------------------------------
(* The ledger under groups *)

LEMMA BurnAccountIsNext ==
  ASSUME NEW s \in Signers, NEW k \in Accounts, BurnAccount(s, k)
  PROVE  Next
  BY DEF BurnAccount, Next, AssetInstruction, CollectionInstruction

LEMMA GroupInstructionKeepsLedger ==
  ASSUME NEW s, NEW g, GroupInstruction(s, g)
  PROVE  UNCHANGED vars
  BY DEF GroupInstruction, CreateGroup, UpdateGroup, CloseGroup, GroupStep,
         AddAssetsToGroup, AddCollectionsToGroup, AddGroupsToGroup, AddToGroup,
         RemoveAssetsFromGroup, RemoveCollectionsFromGroup,
         RemoveGroupsFromGroup, RemoveFromGroup

LEMMA GroupsStepIsLedgerStep == [GroupsNext]_groupVars => [Next]_vars
<1> SUFFICES ASSUME [GroupsNext]_groupVars PROVE [Next]_vars
  OBVIOUS
<1>1. CASE UNCHANGED groupVars
  BY <1>1 DEF groupVars
<1>2. CASE GroupsNext
  BY <1>2, BurnAccountIsNext, GroupInstructionKeepsLedger
     DEF GroupsNext, OtherInstruction
<1> QED
  BY <1>1, <1>2

\* Groups restrict the ledger and add nothing to it: what holds of the ledger
\* by itself holds of the ledger under groups.
THEOREM GroupsRefineLedger == GroupsSpec => Spec
<1>1. GroupsInit => Init
  BY DEF GroupsInit
<1> QED
  BY <1>1, GroupsStepIsLedgerStep, PTL DEF GroupsSpec, Spec

-----------------------------------------------------------------------------
(* What the steps do to the phases of accounts *)

\* At most one account of the ledger is born or closed in a step.
LEMMA StageChange ==
  ASSUME TypeOK, Next
  PROVE  \/ stage' = stage
         \/ \E k \in Accounts :
              stage[k] = "Free" /\ stage' = [stage EXCEPT ![k] = "Live"]
         \/ \E k \in Accounts :
              stage[k] = "Live" /\ stage' = [stage EXCEPT ![k] = "Closed"]
<1>1. ASSUME NEW s \in Signers, NEW a \in Assets, AssetInstruction(s, a)
      PROVE  \/ stage' = stage
             \/ stage[a] = "Free" /\ stage' = [stage EXCEPT ![a] = "Live"]
             \/ stage[a] = "Live" /\ stage' = [stage EXCEPT ![a] = "Closed"]
  <2>1. a \in Accounts /\ AssetTypes \in SUBSET PluginTypes
    BY ArgsAssumption DEF Accounts
  <2>2. PluginInstruction(s, a, AssetTypes) => stage' = stage
    BY <2>1, PluginInstructionWritesOneRecord
  <2> QED
    BY <1>1, <2>2 DEF AssetInstruction, CreateV2, Transfer, Update, Burn, Close,
                      Live
<1>2. ASSUME NEW s \in Signers, NEW c \in Collections,
             CollectionInstruction(s, c)
      PROVE  \/ stage' = stage
             \/ stage[c] = "Free" /\ stage' = [stage EXCEPT ![c] = "Live"]
             \/ stage[c] = "Live" /\ stage' = [stage EXCEPT ![c] = "Closed"]
  <2>1. c \in Accounts /\ CollectionTypes \in SUBSET PluginTypes
    BY ArgsAssumption DEF Accounts
  <2>2. PluginInstruction(s, c, CollectionTypes) => stage' = stage
    BY <2>1, PluginInstructionWritesOneRecord
  <2> QED
    BY <1>2, <2>2 DEF CollectionInstruction, CreateCollectionV2,
                      UpdateCollection, BurnCollection, Close, Live
<1>3. ASSUME NEW c \in Collections, NEW type \in { "Mint", "Add", "Remove" },
             NEW amount \in 1 .. MaxLeaves, UpdateCollectionInfo(c, type, amount)
      PROVE  stage' = stage
  BY <1>3 DEF UpdateCollectionInfo
<1> QED
  BY <1>1, <1>2, <1>3 DEF Next, Accounts

\* The instructions that are no burns close nothing.
LEMMA OtherStageChange ==
  ASSUME TypeOK, OtherInstruction
  PROVE  \/ stage' = stage
         \/ \E k \in Accounts :
              stage[k] = "Free" /\ stage' = [stage EXCEPT ![k] = "Live"]
<1>1. ~ \E k \in Accounts :
          stage[k] = "Live" /\ stage' = [stage EXCEPT ![k] = "Closed"]
  BY DEF OtherInstruction, Live, TypeOK
<1> QED
  BY <1>1, StageChange DEF OtherInstruction

LEMMA BurnStageChange ==
  ASSUME NEW s, NEW k, BurnAccount(s, k)
  PROVE  /\ stage[k] = "Live" /\ k \in Accounts
         /\ stage' = [stage EXCEPT ![k] = "Closed"]
  BY DEF BurnAccount, Burn, BurnCollection, Close, Live, Accounts

\* Who has authority over an account, has it over one that is there.
LEMMA AuthorityIsOverThePresent ==
  ASSUME NEW s, NEW k \in Nodes, HasAuthority(s, k)
  PROVE  Present(k)
  BY GroupsAssumption DEF HasAuthority, IsAssetAuthority, IsCollectionAuthority,
       IsGroupAuthority, Present, NodePhase, Live, Nodes, Accounts

-----------------------------------------------------------------------------
(* Types, and the two sides of a link *)

LinkInv == GroupsTypeOK /\ LinksAreMutual

\* What a group instruction leaves alone.
LEMMA GroupStepFrame ==
  ASSUME NEW op, NEW s, GroupStep(op, s)
  PROVE  UNCHANGED << stage, owner, ua, plugins >>
  BY DEF GroupStep, vars

LEMMA CreateGroupLinks ==
  ASSUME LinkInv, NEW s \in Signers, NEW g \in GroupKeys,
         NEW M \in SUBSET Nodes, NEW P \in SUBSET GroupKeys,
         CreateGroup(s, g, M, P)
  PROVE  LinkInv'
<1>1. /\ gstage' = [gstage EXCEPT ![g] = "Live"]
      /\ stage' = stage /\ gstage[g] = "Free"
      /\ \A k \in M \cup P : Present(k)
      /\ g \notin M \cup P /\ M \cap P = {}
  BY AuthorityIsOverThePresent, GroupStepFrame DEF CreateGroup, Nodes
<1>2. \A k \in Nodes : NodePhase(k)' = IF k = g THEN "Live" ELSE NodePhase(k)
  BY <1>1 DEF NodePhase, LinkInv, GroupsTypeOK
<1>3. \A p \in GroupKeys : contents'[p] =
        IF p = g THEN M ELSE IF p \in P THEN contents[p] \cup { g }
                        ELSE contents[p]
  BY DEF CreateGroup
<1>4. \A k \in Nodes : parents'[k] =
        IF k = g THEN P ELSE IF k \in M THEN parents[k] \cup { g }
                        ELSE parents[k]
  BY DEF CreateGroup
<1>5. NodePhase(g) = "Free" /\ g \in Nodes
  BY <1>1 DEF NodePhase, Nodes
<1>6. /\ \A k \in Nodes : g \notin parents[k]
      /\ \A p \in GroupKeys : g \notin contents[p]
  BY <1>5 DEF LinkInv, GroupsTypeOK, LinksAreMutual, Present
<1>7. GroupsTypeOK'
  <2>1. contents' \in [GroupKeys -> SUBSET Nodes]
    BY DEF CreateGroup, LinkInv, GroupsTypeOK, Nodes
  <2>2. parents' \in [Nodes -> SUBSET GroupKeys]
    BY DEF CreateGroup, LinkInv, GroupsTypeOK
  <2>3. /\ gstage' \in [GroupKeys -> { "Free", "Live", "Closed" }]
        /\ gua' \in [GroupKeys -> Wallets \cup Signers \cup { "None" }]
        /\ \A p \in GroupKeys : p # g => gua'[p] = gua[p] /\ gstage'[p] = gstage[p]
        /\ gstage'[g] = "Live"
    BY DEF CreateGroup, LinkInv, GroupsTypeOK
  <2>4. \A p \in GroupKeys : gstage'[p] # "Live" =>
          gua'[p] = "None" /\ contents'[p] = {}
    BY <1>1, <1>3, <2>3 DEF LinkInv, GroupsTypeOK, Present, NodePhase
  <2>5. \A p \in GroupKeys : \A k \in contents'[p] : NodePhase(k)' # "Free"
    <3> SUFFICES ASSUME NEW p \in GroupKeys, NEW k \in contents'[p], k # g
                 PROVE  NodePhase(k) # "Free"
      BY <1>2, <2>1
    <3> QED
      BY <1>1, <1>3 DEF LinkInv, GroupsTypeOK, Present
  <2> QED
    BY <2>1, <2>2, <2>3, <2>4, <2>5 DEF GroupsTypeOK
<1>8. LinksAreMutual'
  <2> SUFFICES ASSUME NEW p \in GroupKeys, NEW k \in Nodes
      PROVE  /\ p \in parents'[k] => Present(p)' /\ Present(k)' /\ k \in contents'[p]
             /\ k \in contents'[p] /\ Present(k)' => p \in parents'[k]
    BY DEF LinksAreMutual
  <2>1. p \in Nodes
    BY DEF Nodes
  <2>2. /\ p \in parents[k] => Present(p) /\ Present(k) /\ k \in contents[p]
        /\ k \in contents[p] /\ Present(k) => p \in parents[k]
    BY DEF LinkInv, LinksAreMutual
  <2>3. CASE k = g
    BY <1>1, <1>2, <1>3, <1>4, <1>6, <2>1, <2>3 DEF Present
  <2>4. CASE k # g /\ p = g
    BY <1>1, <1>2, <1>3, <1>4, <1>6, <2>1, <2>4 DEF Present
  <2>5. CASE k # g /\ p # g
    <3>1. /\ NodePhase(k)' = NodePhase(k) /\ NodePhase(p)' = NodePhase(p)
          /\ p \in parents'[k] <=> p \in parents[k]
          /\ k \in contents'[p] <=> k \in contents[p]
      BY <1>2, <1>3, <1>4, <2>1, <2>5
    <3> QED
      BY <2>2, <3>1 DEF Present
  <2> QED
    BY <2>3, <2>4, <2>5
<1> QED
  BY <1>7, <1>8 DEF LinkInv

LEMMA UpdateGroupLinks ==
  ASSUME LinkInv, NEW s, NEW g \in GroupKeys, NEW u \in Wallets,
         UpdateGroup(s, g, u)
  PROVE  LinkInv'
<1>1. /\ UNCHANGED << stage, gstage, contents, parents >>
      /\ gua' = [gua EXCEPT ![g] = u] /\ gstage[g] = "Live"
  BY GroupStepFrame DEF UpdateGroup, IsGroupAuthority
<1> QED
  BY <1>1 DEF LinkInv, GroupsTypeOK, LinksAreMutual, Present, NodePhase

LEMMA CloseGroupLinks ==
  ASSUME LinkInv, NEW s, NEW g \in GroupKeys, CloseGroup(s, g)
  PROVE  LinkInv'
<1>1. /\ UNCHANGED << stage, contents, parents >>
      /\ gstage' = [gstage EXCEPT ![g] = "Closed"] /\ gstage[g] = "Live"
      /\ gua' = [gua EXCEPT ![g] = "None"]
      /\ contents[g] = {} /\ parents[g] = {}
  BY GroupStepFrame DEF CloseGroup, IsGroupAuthority, IsEmptyGroup
<1>2. \A k \in Nodes : NodePhase(k)' = IF k = g THEN "Closed" ELSE NodePhase(k)
  BY <1>1 DEF NodePhase, LinkInv, GroupsTypeOK
<1>3. g \in Nodes /\ Present(g)
  BY <1>1 DEF Nodes, Present, NodePhase
<1>4. \A p \in GroupKeys : g \notin contents[p] /\ p \notin parents[g]
  BY <1>1, <1>3 DEF LinkInv, LinksAreMutual
<1>5. \A k \in Nodes : g \notin parents[k]
  BY <1>1 DEF LinkInv, LinksAreMutual
<1>6. GroupsTypeOK'
  BY <1>1, <1>2 DEF LinkInv, GroupsTypeOK
<1>7. \A p \in GroupKeys : p \in Nodes
  BY DEF Nodes
<1>8. LinksAreMutual'
  BY <1>1, <1>2, <1>4, <1>5, <1>7 DEF LinkInv, LinksAreMutual, Present
<1> QED
  BY <1>6, <1>8 DEF LinkInv

LEMMA AddToGroupLinks ==
  ASSUME LinkInv, NEW op, NEW s, NEW g \in GroupKeys, NEW M \in SUBSET Nodes,
         AddToGroup(op, s, g, M)
  PROVE  LinkInv'
<1>1. /\ UNCHANGED << stage, gstage, gua >>
      /\ gstage[g] = "Live" /\ \A k \in M : Present(k)
  BY GroupStepFrame, AuthorityIsOverThePresent
     DEF AddToGroup, MayLink, IsGroupAuthority
<1>2. /\ contents' \in [GroupKeys -> SUBSET Nodes]
      /\ \A p \in GroupKeys :
           contents'[p] = IF p = g THEN contents[p] \cup M ELSE contents[p]
  BY DEF AddToGroup, LinkInv, GroupsTypeOK
<1>3. /\ parents' \in [Nodes -> SUBSET GroupKeys]
      /\ \A k \in Nodes :
           parents'[k] = IF k \in M THEN parents[k] \cup { g } ELSE parents[k]
  BY DEF AddToGroup, LinkInv, GroupsTypeOK
<1>4. \A k \in Nodes : NodePhase(k)' = NodePhase(k)
  BY <1>1 DEF NodePhase
<1>5. GroupsTypeOK'
  BY <1>1, <1>2, <1>3, <1>4 DEF LinkInv, GroupsTypeOK, Present
<1>6. g \in Nodes /\ NodePhase(g) = "Live" /\ \A p \in GroupKeys : p \in Nodes
  BY <1>1 DEF Nodes, NodePhase
<1>7. LinksAreMutual'
  BY <1>1, <1>2, <1>3, <1>4, <1>6 DEF LinkInv, LinksAreMutual, Present
<1> QED
  BY <1>5, <1>7 DEF LinkInv

LEMMA RemoveFromGroupLinks ==
  ASSUME LinkInv, NEW op, NEW s, NEW g \in GroupKeys, NEW M \in SUBSET Nodes,
         RemoveFromGroup(op, s, g, M)
  PROVE  LinkInv'
<1>1. UNCHANGED << stage, gstage, gua >>
  BY GroupStepFrame DEF RemoveFromGroup
<1>2. /\ contents' \in [GroupKeys -> SUBSET Nodes]
      /\ \A p \in GroupKeys :
           contents'[p] = IF p = g THEN contents[p] \ M ELSE contents[p]
  BY DEF RemoveFromGroup, LinkInv, GroupsTypeOK
<1>3. /\ parents' \in [Nodes -> SUBSET GroupKeys]
      /\ \A k \in Nodes :
           parents'[k] = IF k \in M THEN parents[k] \ { g } ELSE parents[k]
  BY DEF RemoveFromGroup, Unparent, LinkInv, GroupsTypeOK
<1>4. \A k \in Nodes : NodePhase(k)' = NodePhase(k)
  BY <1>1 DEF NodePhase
<1>5. GroupsTypeOK'
  BY <1>1, <1>2, <1>3, <1>4 DEF LinkInv, GroupsTypeOK
<1>6. \A p \in GroupKeys : p \in Nodes
  BY DEF Nodes
<1>7. LinksAreMutual'
  BY <1>2, <1>3, <1>4, <1>6 DEF LinkInv, LinksAreMutual, Present
<1> QED
  BY <1>5, <1>7 DEF LinkInv

LEMMA BurnAccountLinks ==
  ASSUME TypeOK, LinkInv, NEW s, NEW k \in Accounts, BurnAccount(s, k)
  PROVE  LinkInv'
<1>1. /\ UNCHANGED << gstage, gua, contents >>
      /\ parents' = [parents EXCEPT ![k] = {}]
      /\ stage' = [stage EXCEPT ![k] = "Closed"]
  BY BurnStageChange DEF BurnAccount
<1>2. \A n \in Nodes : NodePhase(n)' = IF n = k THEN "Closed" ELSE NodePhase(n)
  BY <1>1, GroupsAssumption DEF NodePhase, Nodes, TypeOK
<1>3. k \in Nodes /\ k \notin GroupKeys /\ \A p \in GroupKeys : p \in Nodes
  BY GroupsAssumption DEF Nodes
<1>4. GroupsTypeOK'
  BY <1>1, <1>2, <1>3 DEF LinkInv, GroupsTypeOK
<1>5. \A n \in Nodes : parents'[n] = IF n = k THEN {} ELSE parents[n]
  BY <1>1 DEF LinkInv, GroupsTypeOK
<1>6. LinksAreMutual'
  BY <1>1, <1>2, <1>3, <1>5 DEF LinkInv, LinksAreMutual, Present
<1> QED
  BY <1>4, <1>6 DEF LinkInv

\* An account that is born was in no group before: no group names an account
\* that is not there yet.
LEMMA OtherInstructionLinks ==
  ASSUME TypeOK, LinkInv, OtherInstruction
  PROVE  LinkInv'
<1>1. UNCHANGED << gstage, gua, contents, parents >>
  BY DEF OtherInstruction
<1>2. \A n \in Nodes : \/ NodePhase(n)' = NodePhase(n)
                       \/ NodePhase(n) = "Free" /\ NodePhase(n)' = "Live"
  BY <1>1, OtherStageChange, GroupsAssumption DEF NodePhase, Nodes, TypeOK
<1>3. \A p \in GroupKeys : p \in Nodes
  BY DEF Nodes
<1>4. GroupsTypeOK'
  <2>1. \A p \in GroupKeys : \A n \in contents[p] : n \in Nodes
    BY DEF LinkInv, GroupsTypeOK
  <2>2. \A p \in GroupKeys : \A n \in contents'[p] : NodePhase(n)' # "Free"
    BY <1>1, <1>2, <2>1 DEF LinkInv, GroupsTypeOK
  <2> QED
    BY <1>1, <2>2 DEF LinkInv, GroupsTypeOK
<1>5. LinksAreMutual'
  BY <1>1, <1>2, <1>3 DEF LinkInv, GroupsTypeOK, LinksAreMutual, Present
<1> QED
  BY <1>4, <1>5 DEF LinkInv

LEMMA GroupInstructionLinks ==
  ASSUME LinkInv, NEW s \in Signers, NEW g \in GroupKeys, GroupInstruction(s, g)
  PROVE  LinkInv'
<1>1. \A M : M \subseteq Assets \/ M \subseteq Collections \/ M \subseteq GroupKeys
        => M \in SUBSET Nodes
  BY DEF Nodes, Accounts
<1> QED
  BY <1>1, CreateGroupLinks, UpdateGroupLinks, CloseGroupLinks,
     AddToGroupLinks, RemoveFromGroupLinks
     DEF GroupInstruction, AddAssetsToGroup, AddCollectionsToGroup,
         AddGroupsToGroup, RemoveAssetsFromGroup, RemoveCollectionsFromGroup,
         RemoveGroupsFromGroup

LEMMA InitLinks == GroupsInit => LinkInv
  BY DEF GroupsInit, LinkInv, GroupsTypeOK, LinksAreMutual, Nodes

LEMMA StepLinks == TypeOK /\ LinkInv /\ [GroupsNext]_groupVars => LinkInv'
<1> SUFFICES ASSUME TypeOK, LinkInv, [GroupsNext]_groupVars PROVE LinkInv'
  OBVIOUS
<1>1. CASE UNCHANGED groupVars
  BY <1>1 DEF groupVars, vars, LinkInv, GroupsTypeOK, LinksAreMutual, Present,
              NodePhase
<1>2. CASE GroupsNext
  BY <1>2, GroupInstructionLinks, BurnAccountLinks, OtherInstructionLinks
     DEF GroupsNext
<1> QED
  BY <1>1, <1>2

LEMMA AlwaysLinkInv == GroupsSpec => []LinkInv
  BY GroupsRefineLedger, TypeCorrect, InitLinks, StepLinks, PTL DEF GroupsSpec

\* The fields of groups keep their types; an account that is not there is empty
\* and nobody names one that never was.
THEOREM GroupsTypeCorrect == GroupsSpec => []GroupsTypeOK
<1>1. LinkInv => GroupsTypeOK
  BY DEF LinkInv
<1> QED
  BY <1>1, AlwaysLinkInv, PTL

\* The two sides of a link agree in every reachable state, and no account is in
\* a group that was closed.
THEOREM LinksMutual == GroupsSpec => []LinksAreMutual
<1>1. LinkInv => LinksAreMutual
  BY DEF LinkInv
<1> QED
  BY <1>1, AlwaysLinkInv, PTL

-----------------------------------------------------------------------------
(* The limits of the vectors *)

LEMMA SmallerSet ==
  ASSUME NEW S, IsFiniteSet(S), NEW T \in SUBSET S, NEW n \in Nat,
         Cardinality(S) <= n
  PROVE  Cardinality(T) <= n
<1>1. /\ IsFiniteSet(T) /\ Cardinality(T) <= Cardinality(S)
  BY FS_Subset
<1>2. Cardinality(S) \in Nat /\ Cardinality(T) \in Nat
  BY <1>1, FS_CardinalityType
<1> QED
  BY <1>1, <1>2

LEMMA OneMore ==
  ASSUME NEW S, IsFiniteSet(S), NEW x, NEW n \in Nat, Cardinality(S) < n
  PROVE  Cardinality(S \cup { x }) <= n
<1>1. Cardinality(S) \in Nat
  BY FS_CardinalityType
<1>2. Cardinality(S \cup { x }) <= Cardinality(S) + 1
  BY <1>1, FS_AddElement
<1>3. Cardinality(S \cup { x }) \in Nat
  BY FS_AddElement, FS_CardinalityType
<1> QED
  BY <1>1, <1>2, <1>3

LEMMA KindsAreFinite ==
  /\ IsFiniteSet(Assets) /\ IsFiniteSet(Collections) /\ IsFiniteSet(GroupKeys)
  /\ MaxVector \in Nat /\ MaxParents \in Nat
  BY ArgsAssumption, GroupsAssumption

LEMMA FewerFit ==
  ASSUME NEW M, FitsVectors(M), NEW N \in SUBSET M
  PROVE  FitsVectors(N)
<1> SUFFICES ASSUME NEW kind \in { Assets, Collections, GroupKeys }
             PROVE  Cardinality(N \cap kind) <= MaxVector
  BY DEF FitsVectors
<1>1. IsFiniteSet(M \cap kind)
  BY KindsAreFinite, FS_Intersection
<1>2. N \cap kind \in SUBSET (M \cap kind)
  OBVIOUS
<1> QED
  BY <1>1, <1>2, KindsAreFinite, SmallerSet DEF FitsVectors

\* A vector of groups with room for one more takes one more.
LEMMA ChildFits ==
  ASSUME NEW p \in GroupKeys, NEW g \in GroupKeys,
         FitsVectors(contents[p]), HasRoomForChild(p, g)
  PROVE  FitsVectors(contents[p] \cup { g })
<1>1. CASE g \in contents[p]
  <2>1. contents[p] \cup { g } = contents[p]
    BY <1>1
  <2> QED
    BY <2>1
<1>2. CASE Cardinality(contents[p] \cap GroupKeys) < MaxVector
  <2>1. /\ (contents[p] \cup { g }) \cap GroupKeys
             = (contents[p] \cap GroupKeys) \cup { g }
        /\ (contents[p] \cup { g }) \cap Assets = contents[p] \cap Assets
        /\ (contents[p] \cup { g }) \cap Collections
             = contents[p] \cap Collections
    BY GroupsAssumption DEF Accounts
  <2>2. IsFiniteSet(contents[p] \cap GroupKeys)
    BY KindsAreFinite, FS_Intersection
  <2>3. Cardinality((contents[p] \cup { g }) \cap GroupKeys) <= MaxVector
    BY <1>2, <2>1, <2>2, KindsAreFinite, OneMore
  <2> QED
    BY <2>1, <2>3 DEF FitsVectors
<1> QED
  BY <1>1, <1>2 DEF HasRoomForChild

LEMMA ParentFits ==
  ASSUME GroupsTypeOK, NEW k \in GroupKeys, NEW g \in GroupKeys,
         Cardinality(parents[k]) <= MaxParents, HasRoomForParent(k, g)
  PROVE  Cardinality(parents[k] \cup { g }) <= MaxParents
<1>1. CASE g \in parents[k]
  <2>1. parents[k] \cup { g } = parents[k]
    BY <1>1
  <2> QED
    BY <2>1
<1>2. CASE Cardinality(parents[k]) < MaxParents
  <2>1. IsFiniteSet(parents[k])
    BY KindsAreFinite, FS_Subset DEF GroupsTypeOK, Nodes
  <2> QED
    BY <1>2, <2>1, KindsAreFinite, OneMore
<1> QED
  BY <1>1, <1>2 DEF HasRoomForParent

LEMMA CreateGroupBounded ==
  ASSUME GroupsTypeOK, VectorsAreBounded, NEW s, NEW g \in GroupKeys,
         NEW M \in SUBSET Nodes, NEW P \in SUBSET GroupKeys,
         CreateGroup(s, g, M, P)
  PROVE  VectorsAreBounded'
<1> SUFFICES ASSUME NEW p \in GroupKeys
             PROVE  /\ FitsVectors(contents'[p])
                    /\ Cardinality(parents'[p]) <= MaxParents
  BY DEF VectorsAreBounded, FitsVectors
<1>1. FitsVectors(contents'[p])
  BY ChildFits DEF CreateGroup, VectorsAreBounded
<1>2. Cardinality(parents'[p]) <= MaxParents
  BY ParentFits DEF CreateGroup, VectorsAreBounded, Nodes
<1> QED
  BY <1>1, <1>2

LEMMA AddToGroupBounded ==
  ASSUME GroupsTypeOK, VectorsAreBounded, NEW op, NEW s, NEW g \in GroupKeys,
         NEW M \in SUBSET Nodes, AddToGroup(op, s, g, M),
         \A m \in M \cap GroupKeys : Cardinality(parents[m]) < MaxParents
  PROVE  VectorsAreBounded'
<1> SUFFICES ASSUME NEW p \in GroupKeys
             PROVE  /\ FitsVectors(contents'[p])
                    /\ Cardinality(parents'[p]) <= MaxParents
  BY DEF VectorsAreBounded, FitsVectors
<1>1. FitsVectors(contents'[p])
  BY DEF AddToGroup, VectorsAreBounded, GroupsTypeOK
<1>2. Cardinality(parents'[p]) <= MaxParents
  <2>1. p \in M => HasRoomForParent(p, g)
    BY DEF HasRoomForParent
  <2> QED
    BY <2>1, ParentFits DEF AddToGroup, VectorsAreBounded, Nodes
<1> QED
  BY <1>1, <1>2

LEMMA RemoveFromGroupBounded ==
  ASSUME GroupsTypeOK, VectorsAreBounded, NEW op, NEW s, NEW g \in GroupKeys,
         NEW M, RemoveFromGroup(op, s, g, M)
  PROVE  VectorsAreBounded'
<1> SUFFICES ASSUME NEW p \in GroupKeys
             PROVE  /\ FitsVectors(contents'[p])
                    /\ Cardinality(parents'[p]) <= MaxParents
  BY DEF VectorsAreBounded, FitsVectors
<1>1. contents'[p] \in SUBSET contents[p] /\ parents'[p] \in SUBSET parents[p]
  BY DEF RemoveFromGroup, Unparent, GroupsTypeOK, Nodes
<1>2. IsFiniteSet(parents[p])
  BY KindsAreFinite, FS_Subset DEF GroupsTypeOK, Nodes
<1> QED
  BY <1>1, <1>2, FewerFit, SmallerSet, KindsAreFinite DEF VectorsAreBounded

LEMMA GroupInstructionBounded ==
  ASSUME GroupsTypeOK, VectorsAreBounded, NEW s, NEW g \in GroupKeys,
         GroupInstruction(s, g)
  PROVE  VectorsAreBounded'
<1>1. ASSUME NEW M \in SUBSET Accounts
      PROVE  M \in SUBSET Nodes /\ M \cap GroupKeys = {}
  BY GroupsAssumption DEF Nodes
<1>2. ASSUME NEW u, UpdateGroup(s, g, u)
      PROVE  VectorsAreBounded'
  BY <1>2 DEF UpdateGroup, VectorsAreBounded, FitsVectors
<1>3. ASSUME CloseGroup(s, g)
      PROVE  VectorsAreBounded'
  BY <1>3 DEF CloseGroup, VectorsAreBounded, FitsVectors
<1>4. ASSUME NEW M \in SUBSET Assets,
             AddAssetsToGroup(s, g, M) \/ RemoveAssetsFromGroup(s, g, M)
      PROVE  VectorsAreBounded'
  <2>1. M \in SUBSET Nodes /\ M \cap GroupKeys = {}
    BY <1>1 DEF Accounts
  <2> QED
    BY <2>1, <1>4, AddToGroupBounded, RemoveFromGroupBounded
       DEF AddAssetsToGroup, RemoveAssetsFromGroup
<1>5. ASSUME NEW M \in SUBSET Collections,
             AddCollectionsToGroup(s, g, M) \/ RemoveCollectionsFromGroup(s, g, M)
      PROVE  VectorsAreBounded'
  <2>1. M \in SUBSET Nodes /\ M \cap GroupKeys = {}
    BY <1>1 DEF Accounts
  <2> QED
    BY <2>1, <1>5, AddToGroupBounded, RemoveFromGroupBounded
       DEF AddCollectionsToGroup, RemoveCollectionsFromGroup
<1>6. ASSUME NEW M \in SUBSET GroupKeys,
             AddGroupsToGroup(s, g, M) \/ RemoveGroupsFromGroup(s, g, M)
      PROVE  VectorsAreBounded'
  <2>1. M \in SUBSET Nodes
    BY DEF Nodes
  <2> QED
    BY <1>6, <2>1, AddToGroupBounded, RemoveFromGroupBounded
       DEF AddGroupsToGroup, RemoveGroupsFromGroup
<1> QED
  BY <1>2, <1>3, <1>4, <1>5, <1>6, CreateGroupBounded DEF GroupInstruction

LEMMA StepBounded ==
  GroupsTypeOK /\ VectorsAreBounded /\ [GroupsNext]_groupVars
    => VectorsAreBounded'
<1> SUFFICES ASSUME GroupsTypeOK, VectorsAreBounded, [GroupsNext]_groupVars
             PROVE  VectorsAreBounded'
  OBVIOUS
<1>1. CASE UNCHANGED groupVars \/ OtherInstruction
  BY <1>1 DEF groupVars, OtherInstruction, VectorsAreBounded, FitsVectors
<1>2. ASSUME NEW s, NEW k \in Accounts, BurnAccount(s, k)
      PROVE  VectorsAreBounded'
  <2>1. \A g \in GroupKeys : contents'[g] = contents[g] /\ parents'[g] = parents[g]
    BY <1>2, GroupsAssumption DEF BurnAccount, GroupsTypeOK
  <2> QED
    BY <2>1 DEF VectorsAreBounded, FitsVectors
<1> QED
  BY <1>1, <1>2, GroupInstructionBounded DEF GroupsNext

LEMMA InitBounded == GroupsInit => VectorsAreBounded
<1> SUFFICES ASSUME GroupsInit, NEW g \in GroupKeys
             PROVE  FitsVectors(contents[g]) /\ Cardinality(parents[g]) <= MaxParents
  BY DEF VectorsAreBounded
<1>1. contents[g] = {} /\ parents[g] = {} /\ Cardinality({}) = 0
  BY FS_EmptySet DEF GroupsInit, Nodes
<1>2. \A kind : {} \cap kind = {}
  OBVIOUS
<1> QED
  BY <1>1, <1>2, KindsAreFinite DEF FitsVectors

\* No vector outgrows its limit, from whichever end it grows.
THEOREM VectorsBounded == GroupsSpec => []VectorsAreBounded
  BY InitBounded, StepBounded, GroupsTypeCorrect, PTL DEF GroupsSpec

-----------------------------------------------------------------------------
(* Who links *)

\* The authority over the member end of a link, as LinksNeedBothEnds has it.
HoldsMemberEnd(s, k) ==
  \/ k \in GroupKeys /\ s = gua'[k]
  \/ /\ k \in Accounts
     /\ \/ s = AuthorityOver(k)
        \/ s \in Delegates(k)
        \/ k \in Assets /\ ua[k] \in Collections /\ s \in Delegates(ua[k])

LEMMA AuthorityIsHeld ==
  ASSUME NEW s, NEW k \in Nodes, HasAuthority(s, k),
         k \in GroupKeys => gua'[k] = gua[k]
  PROVE  HoldsMemberEnd(s, k)
<1>1. CASE k \in Assets
  BY <1>1, KeysAssumption, GroupsAssumption
     DEF HasAuthority, IsAssetAuthority, IsCollectionAuthority, HoldsMemberEnd,
         AuthorityOver, Accounts
<1>2. CASE k \in Collections
  BY <1>2, KeysAssumption, GroupsAssumption
     DEF HasAuthority, IsCollectionAuthority, HoldsMemberEnd, AuthorityOver,
         Accounts
<1>3. CASE k \in GroupKeys
  BY <1>3, GroupsAssumption
     DEF HasAuthority, IsGroupAuthority, HoldsMemberEnd, Accounts
<1> QED
  BY <1>1, <1>2, <1>3 DEF Nodes, Accounts

LEMMA CreateGroupHeld ==
  ASSUME LinkInv, NEW s, NEW g \in GroupKeys, NEW M \in SUBSET Nodes,
         NEW P \in SUBSET GroupKeys, CreateGroup(s, g, M, P),
         NEW p \in GroupKeys, NEW k \in Nodes,
         (p \in parents[k]) # (p \in parents'[k])
  PROVE  gix'.by = s /\ s = gua'[p] /\ HoldsMemberEnd(s, k)
<1>1. gix'.by = s /\ gstage[g] = "Free" /\ g \notin M \cup P
  BY DEF CreateGroup, GroupStep
<1>2. gua'[g] = s /\ \A n \in GroupKeys : n # g => gua'[n] = gua[n]
  BY DEF CreateGroup, LinkInv, GroupsTypeOK
<1>3. parents'[k] = IF k = g THEN P
                    ELSE IF k \in M THEN parents[k] \cup { g } ELSE parents[k]
  BY DEF CreateGroup
<1>4. \A n \in M \cup P : HasAuthority(s, n)
  BY DEF CreateGroup
<1>5. CASE k = g
  <2>1. parents[g] = {}
    BY <1>1, <1>5 DEF LinkInv, GroupsTypeOK, LinksAreMutual, Present, NodePhase
  <2>2. p \in P
    BY <1>3, <1>5, <2>1
  <2>3. s = gua[p]
    BY <1>4, <2>2, GroupsAssumption
       DEF HasAuthority, IsGroupAuthority, Accounts
  <2> QED
    BY <1>1, <1>2, <1>5, <2>2, <2>3 DEF HoldsMemberEnd
<1>6. CASE k # g
  <2>1. k \in M /\ p = g
    BY <1>3, <1>6
  <2> QED
    BY <1>1, <1>2, <1>4, <1>6, <2>1, AuthorityIsHeld
<1> QED
  BY <1>5, <1>6

LEMMA AddToGroupHeld ==
  ASSUME NEW op, NEW s, NEW g \in GroupKeys, NEW M, AddToGroup(op, s, g, M),
         NEW p \in GroupKeys, NEW k \in Nodes,
         (p \in parents[k]) # (p \in parents'[k])
  PROVE  gix'.by = s /\ s = gua'[p] /\ HoldsMemberEnd(s, k)
<1>1. k \in M /\ p = g
  BY DEF AddToGroup
<1> QED
  BY <1>1, AuthorityIsHeld
     DEF AddToGroup, GroupStep, MayLink, IsGroupAuthority

LEMMA RemoveFromGroupHeld ==
  ASSUME NEW op, NEW s, NEW g \in GroupKeys, NEW M, RemoveFromGroup(op, s, g, M),
         NEW p \in GroupKeys, NEW k \in Nodes,
         (p \in parents[k]) # (p \in parents'[k])
  PROVE  gix'.by = s /\ s = gua'[p] /\ HoldsMemberEnd(s, k)
<1>1. k \in M /\ p = g
  BY DEF RemoveFromGroup, Unparent
<1> QED
  BY <1>1, AuthorityIsHeld
     DEF RemoveFromGroup, GroupStep, MayLink, IsGroupAuthority

LEMMA GroupInstructionHeld ==
  ASSUME LinkInv, NEW s, NEW g \in GroupKeys, GroupInstruction(s, g),
         NEW p \in GroupKeys, NEW k \in Nodes,
         (p \in parents[k]) # (p \in parents'[k])
  PROVE  gix'.by = s /\ s = gua'[p] /\ HoldsMemberEnd(s, k)
<1>1. ASSUME NEW u, UpdateGroup(s, g, u) PROVE FALSE
  BY <1>1 DEF UpdateGroup
<1>2. ASSUME CloseGroup(s, g) PROVE FALSE
  BY <1>2 DEF CloseGroup
<1> QED
  BY <1>1, <1>2, CreateGroupHeld, AddToGroupHeld, RemoveFromGroupHeld
     DEF GroupInstruction, AddAssetsToGroup, AddCollectionsToGroup,
         AddGroupsToGroup, RemoveAssetsFromGroup, RemoveCollectionsFromGroup,
         RemoveGroupsFromGroup

\* Both ends of a link that is made or undone, except by a burn, are in the
\* hands of the one signer.
THEOREM LinksTakeBothEnds == GroupsSpec => LinksNeedBothEnds
<1> DEFINE
      A == \A g \in GroupKeys, k \in Nodes :
             /\ NodePhase(k)' = "Live" /\ NodePhase(g)' = "Live"
             /\ (g \in parents[k]) # (g \in parents'[k])
             => /\ gix'.by = gua'[g]
                /\ \/ k \in GroupKeys /\ gix'.by = gua'[k]
                   \/ /\ k \in Accounts
                      /\ \/ gix'.by = AuthorityOver(k)
                         \/ gix'.by \in Delegates(k)
                         \/ /\ k \in Assets /\ ua[k] \in Collections
                            /\ gix'.by \in Delegates(ua[k])
<1>1. TypeOK /\ LinkInv /\ [GroupsNext]_groupVars => A
  <2> SUFFICES ASSUME TypeOK, LinkInv, [GroupsNext]_groupVars,
                      NEW g \in GroupKeys, NEW k \in Nodes,
                      NodePhase(k)' = "Live",
                      (g \in parents[k]) # (g \in parents'[k])
               PROVE  gix'.by = gua'[g] /\ HoldsMemberEnd(gix'.by, k)
    BY DEF HoldsMemberEnd
  <2>1. CASE UNCHANGED groupVars
    BY <2>1 DEF groupVars
  <2>2. ASSUME NEW s \in Signers, NEW h \in GroupKeys, GroupInstruction(s, h)
        PROVE  gix'.by = gua'[g] /\ HoldsMemberEnd(gix'.by, k)
    BY <2>2, GroupInstructionHeld
  <2>3. ASSUME NEW s \in Signers, NEW n \in Accounts, BurnAccount(s, n)
        PROVE  FALSE
    <3>1. k = n
      BY <2>3 DEF BurnAccount, LinkInv, GroupsTypeOK
    <3>2. stage'[k] = "Closed" /\ k \notin GroupKeys
      BY <2>3, <3>1, BurnStageChange, GroupsAssumption DEF TypeOK
    <3> QED
      BY <3>2 DEF NodePhase
  <2>4. CASE OtherInstruction
    BY <2>4 DEF OtherInstruction
  <2> QED
    BY <2>1, <2>2, <2>3, <2>4 DEF GroupsNext
<1>2. GroupsSpec => []TypeOK
  BY GroupsRefineLedger, TypeCorrect, PTL
<1>3. GroupsSpec => [][A]_groupVars
  BY <1>1, <1>2, AlwaysLinkInv, PTL DEF GroupsSpec
<1> QED
  BY <1>3 DEF A, LinksNeedBothEnds

-----------------------------------------------------------------------------
(* Who burns a member *)

LEMMA ForcedByHolder ==
  ASSUME NEW s, NEW k \in Accounts, BurnIsForced(s, k)
  PROVE  /\ "PermanentBurnDelegate" \in PluginTypes
         /\ LET rec == IF k \in Assets THEN Held(k)["PermanentBurnDelegate"]
                       ELSE plugins[k]["PermanentBurnDelegate"]
            IN rec # NoPlugin /\ HolderOf(rec, s, k)
<1>1. CASE k \in Assets
  <2>1. Effective(plugins[k], ua[k]) = Held(k)
    BY DEF Effective, Held
  <2>2. PICK p \in PluginTypes :
          /\ Held(k)[p] # NoPlugin
          /\ Forces("Burn", p, Held(k)[p], AssetContext(s, owner[k], ua[k]))
    BY <1>1, <2>1 DEF BurnIsForced
  <2>3. p = "PermanentBurnDelegate"
        /\ Held(k)[p].auth \in ResolvedOnAsset(s, owner[k], ua[k])
    BY <2>2 DEF Forces, Holds, AssetContext
  <2>4. HolderOf(Held(k)[p], s, k)
    BY <1>1, <2>3, KeysAssumption DEF ResolvedOnAsset, HolderOf, AuthorityOver
  <2> QED
    BY <1>1, <2>2, <2>3, <2>4
<1>2. CASE k \notin Assets
  <2>1. PICK p \in PluginTypes :
          /\ plugins[k][p] # NoPlugin
          /\ Forces("Burn", p, plugins[k][p], CollectionContext(s, k))
    BY <1>2 DEF BurnIsForced
  <2>2. p = "PermanentBurnDelegate"
        /\ plugins[k][p].auth \in ResolvedOnCollection(s, k)
    BY <2>1 DEF Forces, Holds, CollectionContext
  <2>3. HolderOf(plugins[k][p], s, k)
    BY <1>2, <2>2 DEF ResolvedOnCollection, HolderOf, AuthorityOver
  <2> QED
    BY <1>2, <2>1, <2>2, <2>3
<1> QED
  BY <1>1, <1>2

LEMMA BurnBySigner ==
  ASSUME NEW s, NEW k, BurnAccount(s, k)
  PROVE  ix'.by = s
  BY DEF BurnAccount, Burn, BurnCollection, Record

\* Who burns an account that is in a group holds its permanent burn delegate.
THEOREM MembersBurnedByForce == GroupsSpec => MembersAreBurnedOnlyByForce
<1> DEFINE
      A == \A k \in Accounts :
             Live(k) /\ stage'[k] = "Closed" /\ parents[k] # {} =>
               /\ "PermanentBurnDelegate" \in PluginTypes
               /\ LET rec == IF k \in Assets THEN Held(k)["PermanentBurnDelegate"]
                             ELSE plugins[k]["PermanentBurnDelegate"]
                  IN rec # NoPlugin /\ HolderOf(rec, ix'.by, k)
<1>1. TypeOK /\ [GroupsNext]_groupVars => A
  <2> SUFFICES ASSUME TypeOK, [GroupsNext]_groupVars, NEW k \in Accounts,
                      Live(k), stage'[k] = "Closed", parents[k] # {}
               PROVE  /\ "PermanentBurnDelegate" \in PluginTypes
                      /\ LET rec == IF k \in Assets
                                    THEN Held(k)["PermanentBurnDelegate"]
                                    ELSE plugins[k]["PermanentBurnDelegate"]
                         IN rec # NoPlugin /\ HolderOf(rec, ix'.by, k)
    OBVIOUS
  <2>1. stage'[k] # stage[k]
    BY DEF Live
  <2>2. ~ UNCHANGED groupVars /\ ~ OtherInstruction
    BY <2>1 DEF groupVars, vars, OtherInstruction
  <2>3. ASSUME NEW s, NEW g, GroupInstruction(s, g) PROVE FALSE
    BY <2>1, <2>3, GroupInstructionKeepsLedger DEF vars
  <2>4. PICK s \in Signers, n \in Accounts : BurnAccount(s, n)
    BY <2>2, <2>3 DEF GroupsNext
  <2>5. n = k
    BY <2>1, <2>4, BurnStageChange DEF TypeOK
  <2>6. BurnIsForced(s, k) /\ ix'.by = s
    BY <2>4, <2>5, BurnBySigner DEF BurnAccount, GroupsAllowBurn
  <2> QED
    BY <2>6, ForcedByHolder
<1>2. GroupsSpec => []TypeOK
  BY GroupsRefineLedger, TypeCorrect, PTL
<1>3. GroupsSpec => [][A]_groupVars
  BY <1>1, <1>2, PTL DEF GroupsSpec
<1> QED
  BY <1>3 DEF A, MembersAreBurnedOnlyByForce


-----------------------------------------------------------------------------
(* The two copies of every link implement the one relation of GroupGraph *)

GraphStep == Graph!Next \/ UNCHANGED << [k \in Nodes |-> NodePhase(k)], Edges >>

LEMMA GraphNodes ==
  /\ Graph!Nodes = Nodes /\ GroupKeys \subseteq Nodes /\ Accounts \subseteq Nodes
  /\ GroupKeys \cap Accounts = {}
  /\ Graph!LiveNodes = { k \in Nodes : Present(k) }
  BY GroupsAssumption DEF Graph!Nodes, Nodes, Graph!LiveNodes, Present

LEMMA CreateGroupIsOpen ==
  ASSUME LinkInv, NEW s, NEW g \in GroupKeys, NEW M \in SUBSET Nodes,
         NEW P \in SUBSET GroupKeys, CreateGroup(s, g, M, P)
  PROVE  GraphStep
<1>1. /\ gstage' = [gstage EXCEPT ![g] = "Live"] /\ stage' = stage
      /\ gstage[g] = "Free" /\ g \notin M \cup P
      /\ \A k \in M \cup P : Present(k)
  BY GraphNodes, AuthorityIsOverThePresent, GroupStepFrame DEF CreateGroup
<1>2. \A k \in Nodes : NodePhase(k)' = IF k = g THEN "Live" ELSE NodePhase(k)
  BY <1>1 DEF NodePhase, LinkInv, GroupsTypeOK
<1>3. g \in Nodes /\ NodePhase(g) = "Free"
  BY <1>1, GraphNodes DEF NodePhase
<1>4. \A k \in Nodes : parents'[k] =
        IF k = g THEN P ELSE IF k \in M THEN parents[k] \cup { g }
                        ELSE parents[k]
  BY DEF CreateGroup
<1>5. parents[g] = {}
  BY <1>3 DEF LinkInv, GroupsTypeOK, LinksAreMutual, Present
<1>6. Edges' = Edges \cup ({ g } \X M) \cup (P \X { g })
  <2>1. ASSUME NEW p \in GroupKeys, NEW k \in Nodes
        PROVE  p \in parents'[k] <=>
                 p \in parents[k] \/ (p = g /\ k \in M) \/ (p \in P /\ k = g)
    BY <1>1, <1>4, <1>5
  <2> QED
    BY <2>1, <1>3 DEF Edges
<1>7. [k \in Nodes |-> NodePhase(k)]'
        = [[k \in Nodes |-> NodePhase(k)] EXCEPT ![g] = "Live"]
  BY <1>2, <1>3
<1>8. M \subseteq Graph!LiveNodes /\ P \subseteq Graph!LiveNodes \cap GroupKeys
  BY <1>1, GraphNodes
<1>9. Graph!Open(g, M, P)
  BY <1>3, <1>6, <1>7, <1>8 DEF Graph!Open
<1> QED
  BY <1>9, GraphNodes DEF GraphStep, Graph!Next

LEMMA CloseGroupIsClose ==
  ASSUME LinkInv, NEW s, NEW g \in GroupKeys, CloseGroup(s, g)
  PROVE  GraphStep
<1>1. /\ gstage' = [gstage EXCEPT ![g] = "Closed"] /\ stage' = stage
      /\ gstage[g] = "Live" /\ contents[g] = {} /\ parents[g] = {}
      /\ parents' = parents
  BY GroupStepFrame DEF CloseGroup, IsGroupAuthority, IsEmptyGroup
<1>2. \A k \in Nodes : NodePhase(k)' = IF k = g THEN "Closed" ELSE NodePhase(k)
  BY <1>1 DEF NodePhase, LinkInv, GroupsTypeOK
<1>3. g \in Nodes /\ NodePhase(g) = "Live"
  BY <1>1, GraphNodes DEF NodePhase
<1>4. Edges' = Edges
  BY <1>1 DEF Edges
<1>5. ASSUME NEW e \in Edges PROVE ~Graph!Touches(e, g)
  <2>1. PICK p \in GroupKeys, k \in Nodes : e = << p, k >> /\ p \in parents[k]
    BY DEF Edges
  <2>2. p # g /\ k # g
    BY <1>1, <2>1 DEF LinkInv, LinksAreMutual
  <2> QED
    BY <2>1, <2>2 DEF Graph!Touches
<1>6. [k \in Nodes |-> NodePhase(k)]'
        = [[k \in Nodes |-> NodePhase(k)] EXCEPT ![g] = "Closed"]
  BY <1>2, <1>3
<1>7. Graph!Close(g)
  BY <1>3, <1>4, <1>5, <1>6 DEF Graph!Close
<1> QED
  BY <1>7 DEF GraphStep, Graph!Next

LEMMA AddToGroupIsLink ==
  ASSUME LinkInv, NEW op, NEW s, NEW g \in GroupKeys, NEW M \in SUBSET Nodes,
         g \notin M, AddToGroup(op, s, g, M)
  PROVE  GraphStep
<1>1. /\ UNCHANGED << stage, gstage >>
      /\ gstage[g] = "Live" /\ \A k \in M : Present(k)
      /\ \A k \in Nodes :
           parents'[k] = IF k \in M THEN parents[k] \cup { g } ELSE parents[k]
  BY GroupStepFrame, AuthorityIsOverThePresent
     DEF AddToGroup, MayLink, IsGroupAuthority
<1>2. [k \in Nodes |-> NodePhase(k)]' = [k \in Nodes |-> NodePhase(k)]
  BY <1>1 DEF NodePhase
<1>3. g \in Nodes /\ NodePhase(g) = "Live"
  BY <1>1, GraphNodes DEF NodePhase
<1>4. Edges' = Edges \cup ({ g } \X M)
  BY <1>1 DEF Edges
<1>5. Graph!Link(g, M)
  BY <1>1, <1>2, <1>3, <1>4, GraphNodes DEF Graph!Link
<1> QED
  BY <1>5, GraphNodes DEF GraphStep, Graph!Next

LEMMA RemoveFromGroupIsUnlink ==
  ASSUME LinkInv, NEW op, NEW s, NEW g \in GroupKeys, NEW M \in SUBSET Nodes,
         RemoveFromGroup(op, s, g, M)
  PROVE  GraphStep
<1>1. /\ UNCHANGED << stage, gstage >> /\ gstage[g] = "Live"
      /\ \A k \in Nodes :
           parents'[k] = IF k \in M THEN parents[k] \ { g } ELSE parents[k]
  BY GroupStepFrame DEF RemoveFromGroup, Unparent, MayLink, IsGroupAuthority
<1>2. [k \in Nodes |-> NodePhase(k)]' = [k \in Nodes |-> NodePhase(k)]
  BY <1>1 DEF NodePhase
<1>3. g \in Nodes /\ NodePhase(g) = "Live"
  BY <1>1, GraphNodes DEF NodePhase
<1>4. Edges' = Edges \ ({ g } \X M)
  BY <1>1 DEF Edges
<1>5. Graph!Unlink(g, M)
  BY <1>2, <1>3, <1>4 DEF Graph!Unlink
<1> QED
  BY <1>5, GraphNodes DEF GraphStep, Graph!Next

LEMMA GroupInstructionIsGraphStep ==
  ASSUME LinkInv, NEW s, NEW g \in GroupKeys, GroupInstruction(s, g)
  PROVE  GraphStep
<1>1. ASSUME NEW u, UpdateGroup(s, g, u) PROVE GraphStep
  BY <1>1, GroupStepFrame DEF UpdateGroup, GraphStep, NodePhase, Edges
<1>2. ASSUME NEW M \in SUBSET Accounts
      PROVE  M \in SUBSET Nodes /\ g \notin M
  BY GraphNodes
<1>3. ASSUME NEW M \in SUBSET Assets,
             AddAssetsToGroup(s, g, M) \/ RemoveAssetsFromGroup(s, g, M)
      PROVE  GraphStep
  <2>1. M \in SUBSET Nodes /\ g \notin M
    BY <1>2 DEF Accounts
  <2> QED
    BY <1>3, <2>1, AddToGroupIsLink, RemoveFromGroupIsUnlink
       DEF AddAssetsToGroup, RemoveAssetsFromGroup
<1>4. ASSUME NEW M \in SUBSET Collections,
             AddCollectionsToGroup(s, g, M) \/ RemoveCollectionsFromGroup(s, g, M)
      PROVE  GraphStep
  <2>1. M \in SUBSET Nodes /\ g \notin M
    BY <1>2 DEF Accounts
  <2> QED
    BY <1>4, <2>1, AddToGroupIsLink, RemoveFromGroupIsUnlink
       DEF AddCollectionsToGroup, RemoveCollectionsFromGroup
<1>5. ASSUME NEW M \in SUBSET GroupKeys,
             AddGroupsToGroup(s, g, M) \/ RemoveGroupsFromGroup(s, g, M)
      PROVE  GraphStep
  <2>1. M \in SUBSET Nodes
    BY GraphNodes
  <2> QED
    BY <1>5, <2>1, AddToGroupIsLink, RemoveFromGroupIsUnlink
       DEF AddGroupsToGroup, RemoveGroupsFromGroup
<1> QED
  BY <1>1, <1>3, <1>4, <1>5, CreateGroupIsOpen, CloseGroupIsClose
     DEF GroupInstruction

LEMMA BurnAccountIsVanish ==
  ASSUME TypeOK, LinkInv, NEW s, NEW k \in Accounts, BurnAccount(s, k)
  PROVE  GraphStep
<1>1. /\ stage[k] = "Live" /\ stage' = [stage EXCEPT ![k] = "Closed"]
      /\ gstage' = gstage /\ parents' = [parents EXCEPT ![k] = {}]
  BY BurnStageChange DEF BurnAccount
<1>2. k \in Nodes /\ k \notin GroupKeys
  BY GraphNodes
<1>3. \A n \in Nodes : NodePhase(n)' = IF n = k THEN "Closed" ELSE NodePhase(n)
  BY <1>1, <1>2 DEF NodePhase, TypeOK, Nodes
<1>4. [n \in Nodes |-> NodePhase(n)]'
        = [[n \in Nodes |-> NodePhase(n)] EXCEPT ![k] = "Closed"]
  BY <1>2, <1>3
<1>5. \A n \in Nodes : parents'[n] = IF n = k THEN {} ELSE parents[n]
  BY <1>1 DEF LinkInv, GroupsTypeOK
<1>6. Edges' = { e \in Edges : ~Graph!Touches(e, k) }
  BY <1>2, <1>5 DEF Edges, Graph!Touches
<1>7. Graph!Vanish(k)
  BY <1>1, <1>2, <1>4, <1>6 DEF Graph!Vanish, NodePhase
<1> QED
  BY <1>7 DEF GraphStep, Graph!Next

LEMMA OtherInstructionAppears ==
  ASSUME TypeOK, LinkInv, OtherInstruction
  PROVE  GraphStep
<1>1. UNCHANGED << gstage, parents >>
  BY DEF OtherInstruction
<1>2. Edges' = Edges
  BY <1>1 DEF Edges
<1>3. CASE stage' = stage
  BY <1>1, <1>2, <1>3 DEF GraphStep, NodePhase
<1>4. ASSUME NEW k \in Accounts, stage[k] = "Free",
             stage' = [stage EXCEPT ![k] = "Live"]
      PROVE  GraphStep
  <2>1. k \in Nodes /\ k \notin GroupKeys
    BY GraphNodes
  <2>2. \A n \in Nodes : NodePhase(n)' = IF n = k THEN "Live" ELSE NodePhase(n)
    BY <1>1, <1>4, <2>1 DEF NodePhase, TypeOK, Nodes
  <2>3. [n \in Nodes |-> NodePhase(n)]'
          = [[n \in Nodes |-> NodePhase(n)] EXCEPT ![k] = "Live"]
    BY <2>1, <2>2
  <2>4. Graph!Appear(k)
    BY <1>2, <1>4, <2>1, <2>3 DEF Graph!Appear, NodePhase
  <2> QED
    BY <2>4 DEF GraphStep, Graph!Next
<1> QED
  BY <1>3, <1>4, OtherStageChange

\* The links that groups and members write down, each for itself, implement a
\* relation between accounts that are there; no group closes while it is linked.
THEOREM ImplementsGraph == GroupsSpec => GraphSpec
<1>1. GroupsInit => Graph!Init
  <2> SUFFICES ASSUME GroupsInit PROVE Graph!Init
    OBVIOUS
  <2>1. \A k \in Nodes : NodePhase(k) = "Free" /\ parents[k] = {}
    BY DEF GroupsInit, Init, NodePhase, Nodes
  <2> QED
    BY <2>1, GraphNodes DEF Graph!Init, Edges
<1>2. TypeOK /\ LinkInv /\ [GroupsNext]_groupVars => GraphStep
  <2> SUFFICES ASSUME TypeOK, LinkInv, [GroupsNext]_groupVars PROVE GraphStep
    OBVIOUS
  <2>1. CASE UNCHANGED groupVars
    BY <2>1 DEF groupVars, vars, GraphStep, NodePhase, Edges
  <2>2. CASE GroupsNext
    BY <2>2, GroupInstructionIsGraphStep, BurnAccountIsVanish,
       OtherInstructionAppears DEF GroupsNext
  <2> QED
    BY <2>1, <2>2
<1>3. GroupsSpec => []TypeOK
  BY GroupsRefineLedger, TypeCorrect, PTL
<1>4. GraphStep
        => [Graph!Next]_<< [k \in Nodes |-> NodePhase(k)], Edges >>
  BY DEF GraphStep
<1> QED
  BY <1>1, <1>2, <1>3, <1>4, AlwaysLinkInv, PTL
     DEF GroupsSpec, GraphSpec, Graph!Spec

=============================================================================
