---------------------------- MODULE MplCoreProofs ----------------------------
(***************************************************************************)
(* Theorems about MplCore, for any number of wallets, assets, collections, *)
(* plugin types, and any width of the counters.  First its types, then     *)
(* that current_size counts the members.                                   *)
(*                                                                         *)
(* That argument follows the change an instruction makes to the set of     *)
(* members and to the counter.  Each asset instruction moves at most one   *)
(* asset, and moves the counters with it; collection instructions move     *)
(* neither; a report of Bubblegum moves the counter and the compressed     *)
(* members alike as long as nothing saturates.                             *)
(***************************************************************************)
EXTENDS MplCoreProperties, FiniteSetTheorems, TLAPS

-----------------------------------------------------------------------------
(* Types *)

\* Plugin::manager names an authority.
LEMMA ManagerType == ASSUME NEW p PROVE Manager(p) \in Authorities
  BY DEF Manager, Authorities

\* What an instruction can name is a plugin record.
LEMMA PluginArgsType ==
  ASSUME NEW p \in PluginTypes
  PROVE  PluginArgs(p) \subseteq PluginRecord
<1>1. AuthorityArgs \cup { Manager(p) } \subseteq Authorities
  BY ManagerType, ArgsAssumption
<1>2. (IF p \in FreezeTypes THEN BOOLEAN ELSE { FALSE }) \subseteq BOOLEAN
  OBVIOUS
<1>3. (IF p = "UpdateDelegate" THEN DelegateArgs ELSE { {} }) \subseteq SUBSET Wallets
  BY ArgsAssumption
<1> QED
  BY <1>1, <1>2, <1>3 DEF PluginArgs, PluginRecord

LEMMA NoPluginsType == NoPlugins \in PluginMaps
  BY DEF NoPlugins, PluginMaps

\* Writing one record keeps the registry a registry.
LEMMA SetPluginType ==
  ASSUME NEW pls \in [Accounts -> PluginMaps], NEW k \in Accounts,
         NEW p, NEW rec \in PluginRecord \cup { NoPlugin }
  PROVE  [pls EXCEPT ![k][p] = rec] \in [Accounts -> PluginMaps]
<1>1. [pls[k] EXCEPT ![p] = rec] \in PluginMaps
  BY DEF PluginMaps
<1> QED
  BY <1>1

LEMMA ResetType ==
  ASSUME NEW pl \in PluginMaps
  PROVE  ResetOwnerManaged(pl) \in PluginMaps
<1> SUFFICES ASSUME NEW p \in PluginTypes, pl[p] # NoPlugin
             PROVE  [pl[p] EXCEPT !.auth = "Owner"] \in PluginRecord
  BY DEF ResetOwnerManaged, PluginMaps
<1>1. pl[p] \in PluginRecord
  BY DEF PluginMaps
<1>2. "Owner" \in Authorities
  BY DEF Authorities
<1> QED
  BY <1>1, <1>2 DEF PluginRecord

\* The counters of all collections.
Counters == [Collections -> 0 .. U32Max]

LEMMA IncrementType ==
  ASSUME NEW n \in Counters, NEW c, c \in Collections => n[c] < U32Max
  PROVE  IncrementSize(n, c) \in Counters
  BY CountersAssumption DEF IncrementSize, Counters

LEMMA DecrementType ==
  ASSUME NEW n \in Counters, NEW c, c \in Collections => n[c] > 0
  PROVE  DecrementSize(n, c) \in Counters
  BY CountersAssumption DEF DecrementSize, Counters

LEMMA SaturatingAddType ==
  ASSUME NEW n \in 0 .. U32Max, NEW amount \in Nat
  PROVE  SaturatingAdd(n, amount) \in 0 .. U32Max
  BY CountersAssumption DEF SaturatingAdd

LEMMA SaturatingSubType ==
  ASSUME NEW n \in 0 .. U32Max, NEW amount \in Nat
  PROVE  SaturatingSub(n, amount) \in 0 .. U32Max
  BY CountersAssumption DEF SaturatingSub

-----------------------------------------------------------------------------
(* Type correctness *)

\* What the five plugin instructions have in common: one registry record is
\* written, everything else stays.
LEMMA PluginInstructionWritesOneRecord ==
  ASSUME TypeOK, NEW s, NEW k \in Accounts, NEW types \in SUBSET PluginTypes,
         PluginInstruction(s, k, types)
  PROVE  /\ \E p \in types, rec \in PluginRecord \cup { NoPlugin } :
                SetPlugin(k, p, rec)
         /\ Live(k)
         /\ UNCHANGED << stage, owner, ua, meta, size, minted, leaves >>
<1>1. PICK p \in types :
        \/ \E rec \in PluginArgs(p) : AddPlugin(s, k, p, rec)
        \/ RemovePlugin(s, k, p)
        \/ \E arg \in PluginArgs(p) : UpdatePlugin(s, k, p, arg)
        \/ \E auth \in AuthorityArgs : ApprovePluginAuthority(s, k, p, auth)
        \/ RevokePluginAuthority(s, k, p)
  BY DEF PluginInstruction
<1>2. p \in PluginTypes /\ PluginArgs(p) \subseteq PluginRecord
  BY PluginArgsType
<1>3. plugins[k][p] # NoPlugin => plugins[k][p] \in PluginRecord
  BY <1>2 DEF TypeOK, PluginMaps
<1>4. CASE \E rec \in PluginArgs(p) : AddPlugin(s, k, p, rec)
  BY <1>2, <1>4 DEF AddPlugin, PluginStep
<1>5. CASE RemovePlugin(s, k, p)
  BY <1>5 DEF RemovePlugin, PluginStep
<1>6. CASE \E arg \in PluginArgs(p) : UpdatePlugin(s, k, p, arg)
  <2>1. PICK arg \in PluginArgs(p) : UpdatePlugin(s, k, p, arg)
    BY <1>6
  <2>2. [arg EXCEPT !.auth = plugins[k][p].auth] \in PluginRecord
    BY <1>2, <1>3, <2>1 DEF UpdatePlugin, PluginRecord
  <2> QED
    BY <2>1, <2>2 DEF UpdatePlugin, PluginStep
<1>7. CASE \E auth \in AuthorityArgs : ApprovePluginAuthority(s, k, p, auth)
  <2>1. PICK auth \in AuthorityArgs : ApprovePluginAuthority(s, k, p, auth)
    BY <1>7
  <2>2. [plugins[k][p] EXCEPT !.auth = auth] \in PluginRecord
    BY <1>3, <2>1, ArgsAssumption DEF ApprovePluginAuthority, PluginRecord
  <2> QED
    BY <2>1, <2>2 DEF ApprovePluginAuthority, PluginStep
<1>8. CASE RevokePluginAuthority(s, k, p)
  <2>1. [plugins[k][p] EXCEPT !.auth = Manager(p)] \in PluginRecord
    BY <1>3, <1>8, ManagerType DEF RevokePluginAuthority, PluginRecord
  <2> QED
    BY <1>8, <2>1 DEF RevokePluginAuthority, PluginStep
<1> QED
  BY <1>1, <1>4, <1>5, <1>6, <1>7, <1>8

LEMMA PluginInstructionType ==
  ASSUME TypeOK, NEW s, NEW k \in Accounts, NEW types \in SUBSET PluginTypes,
         PluginInstruction(s, k, types)
  PROVE  TypeOK'
<1>1. PICK p \in types, rec \in PluginRecord \cup { NoPlugin } :
        SetPlugin(k, p, rec)
  BY PluginInstructionWritesOneRecord
<1>2. plugins' \in [Accounts -> PluginMaps]
  BY <1>1, SetPluginType DEF SetPlugin, TypeOK
<1> QED
  BY <1>2, PluginInstructionWritesOneRecord DEF TypeOK

LEMMA CreateV2Type ==
  ASSUME TypeOK, NEW s, NEW a \in Assets, NEW o \in Wallets,
         NEW u \in Wallets \cup Collections, NEW pl \in AssetBirths,
         NEW m \in Metas, CreateV2(s, a, o, u, pl, m)
  PROVE  TypeOK'
<1>1. minted' \in Counters /\ size' \in Counters
  BY IncrementType DEF CreateV2, TypeOK, Counters
<1>2. plugins' \in [Accounts -> PluginMaps]
  BY ArgsAssumption DEF CreateV2, TypeOK
<1>3. /\ ua' \in [Accounts -> UpdateAuthorities]
      /\ \A c \in Collections : ua'[c] = ua[c]
  BY KeysAssumption DEF CreateV2, TypeOK, UpdateAuthorities, Accounts
<1>4. /\ stage' \in [Accounts -> { "Free", "Live", "Closed" }]
      /\ owner' \in [Assets -> Wallets \cup { "None" }]
      /\ meta' \in [Accounts -> Metas \cup { "None" }]
      /\ leaves' = leaves
  BY DEF CreateV2, TypeOK, Accounts
<1> QED
  BY <1>1, <1>2, <1>3, <1>4 DEF TypeOK, Counters

LEMMA CreateCollectionV2Type ==
  ASSUME TypeOK, NEW s, NEW c \in Collections, NEW u \in Wallets,
         NEW pl \in CollectionBirths, NEW m \in Metas,
         CreateCollectionV2(s, c, u, pl, m)
  PROVE  TypeOK'
<1>1. plugins' \in [Accounts -> PluginMaps]
  BY ArgsAssumption DEF CreateCollectionV2, TypeOK
<1>2. /\ ua' \in [Accounts -> UpdateAuthorities]
      /\ \A d \in Collections : ua'[d] \in Wallets \cup { "None" }
  BY DEF CreateCollectionV2, TypeOK, UpdateAuthorities, Accounts
<1> QED
  BY <1>1, <1>2 DEF CreateCollectionV2, TypeOK, Accounts

LEMMA TransferType ==
  ASSUME TypeOK, NEW s, NEW a \in Assets, NEW o \in Wallets, Transfer(s, a, o)
  PROVE  TypeOK'
<1>1. plugins' \in [Accounts -> PluginMaps]
  BY ResetType DEF Transfer, TypeOK, Accounts
<1> QED
  BY <1>1 DEF Transfer, TypeOK

LEMMA MoveMemberType ==
  ASSUME size \in Counters, NEW from, NEW to,
         from \in Collections => size[from] > 0,
         to \in Collections => MoveMember(from, to)[to] <= U32Max
  PROVE  MoveMember(from, to) \in Counters
<1>1. DecrementSize(size, from) \in Counters
  BY DecrementType
<1>2. to \in Collections => DecrementSize(size, from)[to] < U32Max
  BY <1>1, CountersAssumption DEF MoveMember, IncrementSize, Counters
<1> QED
  BY <1>1, <1>2, IncrementType DEF MoveMember

LEMMA UpdateType ==
  ASSUME TypeOK, NEW s, NEW a \in Assets, NEW v,
         NEW u \in UpdateAuthorities \cup { Keep },
         NEW m \in Metas \cup { Keep }, Update(s, a, v, u, m)
  PROVE  TypeOK'
<1>1. size' \in Counters
  BY MoveMemberType DEF Update, TypeOK, Counters
<1>2. ua' \in [Accounts -> UpdateAuthorities]
  BY DEF Update, TypeOK, Accounts
<1>3. \A c \in Collections : ua'[c] = ua[c]
  BY KeysAssumption DEF Update, TypeOK, Accounts
<1> QED
  BY <1>1, <1>2, <1>3 DEF Update, TypeOK, Counters, Accounts

LEMMA UpdateCollectionType ==
  ASSUME TypeOK, NEW s, NEW c \in Collections, NEW u \in Wallets \cup { Keep },
         NEW m \in Metas \cup { Keep }, UpdateCollection(s, c, u, m)
  PROVE  TypeOK'
<1>1. /\ ua' \in [Accounts -> UpdateAuthorities]
      /\ \A d \in Collections : ua'[d] \in Wallets \cup { "None" }
  BY DEF UpdateCollection, TypeOK, UpdateAuthorities, Accounts
<1> QED
  BY <1>1 DEF UpdateCollection, TypeOK, Accounts

LEMMA CloseType ==
  ASSUME TypeOK, NEW k \in Accounts, Close(k)
  PROVE  /\ stage' \in [Accounts -> { "Free", "Live", "Closed" }]
         /\ ua' \in [Accounts -> UpdateAuthorities]
         /\ \A d \in Collections : ua'[d] \in Wallets \cup { "None" }
         /\ meta' \in [Accounts -> Metas \cup { "None" }]
         /\ plugins' \in [Accounts -> PluginMaps]
  BY NoPluginsType DEF Close, TypeOK, UpdateAuthorities, Accounts

LEMMA BurnType ==
  ASSUME TypeOK, NEW s, NEW a \in Assets, Burn(s, a)
  PROVE  TypeOK'
<1>1. size' \in Counters
  BY DecrementType DEF Burn, TypeOK, Counters
<1>2. Close(a) /\ a \in Accounts
  BY DEF Burn, Accounts
<1> QED
  BY <1>1, <1>2, CloseType DEF Burn, TypeOK, Counters

LEMMA BurnCollectionType ==
  ASSUME TypeOK, NEW s, NEW c \in Collections, BurnCollection(s, c)
  PROVE  TypeOK'
<1>1. Close(c) /\ c \in Accounts
  BY DEF BurnCollection, Accounts
<1> QED
  BY <1>1, CloseType, CountersAssumption DEF BurnCollection, TypeOK

LEMMA UpdateCollectionInfoType ==
  ASSUME TypeOK, NEW c \in Collections, NEW type \in { "Mint", "Add", "Remove" },
         NEW amount \in 1 .. MaxLeaves, UpdateCollectionInfo(c, type, amount)
  PROVE  TypeOK'
<1>1. amount \in Nat
  BY CountersAssumption
<1>2. /\ SaturatingAdd(size[c], amount) \in 0 .. U32Max
      /\ SaturatingSub(size[c], amount) \in 0 .. U32Max
      /\ SaturatingAdd(minted[c], amount) \in 0 .. U32Max
  BY <1>1, SaturatingAddType, SaturatingSubType DEF TypeOK
<1>3. /\ size' \in [Collections -> 0 .. U32Max]
      /\ minted' \in [Collections -> 0 .. U32Max]
  BY <1>2 DEF UpdateCollectionInfo, TypeOK
<1>4. leaves' \in [Collections -> 0 .. MaxLeaves]
  BY <1>1, CountersAssumption DEF UpdateCollectionInfo, TypeOK
<1> QED
  BY <1>3, <1>4 DEF UpdateCollectionInfo, TypeOK

LEMMA InitType == Init => TypeOK
  BY NoPluginsType, CountersAssumption
     DEF Init, TypeOK, UpdateAuthorities, Accounts

LEMMA StepType == TypeOK /\ [Next]_vars => TypeOK'
<1> SUFFICES ASSUME TypeOK, [Next]_vars PROVE TypeOK'
  OBVIOUS
<1>1. CASE UNCHANGED vars
  BY <1>1 DEF vars, TypeOK
<1>2. ASSUME NEW s \in Signers, NEW a \in Assets, AssetInstruction(s, a)
      PROVE  TypeOK'
  <2>1. a \in Accounts /\ AssetTypes \in SUBSET PluginTypes
    BY ArgsAssumption DEF Accounts
  <2> QED
    BY <1>2, <2>1, CreateV2Type, PluginInstructionType, TransferType,
       UpdateType, BurnType DEF AssetInstruction
<1>3. ASSUME NEW s \in Signers, NEW c \in Collections,
             CollectionInstruction(s, c)
      PROVE  TypeOK'
  <2>1. c \in Accounts /\ CollectionTypes \in SUBSET PluginTypes
    BY ArgsAssumption DEF Accounts
  <2> QED
    BY <1>3, <2>1, CreateCollectionV2Type, PluginInstructionType,
       UpdateCollectionType, BurnCollectionType DEF CollectionInstruction
<1>4. ASSUME NEW c \in Collections, NEW type \in { "Mint", "Add", "Remove" },
             NEW amount \in 1 .. MaxLeaves, UpdateCollectionInfo(c, type, amount)
      PROVE  TypeOK'
  BY <1>4, UpdateCollectionInfoType
<1> QED
  BY <1>1, <1>2, <1>3, <1>4 DEF Next

\* Every reachable ledger is well typed; in particular no counter leaves its
\* 32 bits, neither up nor below zero, whatever instructions are sent.
THEOREM TypeCorrect == Spec => []TypeOK
  BY InitType, StepType, PTL DEF Spec

-----------------------------------------------------------------------------
(* Counting *)

\* Two sets that differ in one element at most.
LEMMA OneElementApart ==
  ASSUME NEW S, NEW T, NEW a, IsFiniteSet(S), S \ { a } = T \ { a }
  PROVE  /\ IsFiniteSet(T)
         /\ Cardinality(T) + (IF a \in S THEN 1 ELSE 0)
              = Cardinality(S) + (IF a \in T THEN 1 ELSE 0)
<1> DEFINE R == S \ { a }
<1>1. IsFiniteSet(R) /\ Cardinality(R) \in Nat /\ a \notin R
  BY FS_RemoveElement, FS_CardinalityType
<1>2. Cardinality(S) = IF a \in S THEN Cardinality(R) + 1 ELSE Cardinality(R)
  <2>1. S = IF a \in S THEN R \cup { a } ELSE R
    OBVIOUS
  <2> QED
    BY <1>1, <2>1, FS_AddElement
<1>3. /\ IsFiniteSet(T)
      /\ Cardinality(T) = IF a \in T THEN Cardinality(R) + 1 ELSE Cardinality(R)
  <2>1. R = T \ { a }
    OBVIOUS
  <2>2. CASE a \in T
    <3>1. T = R \cup { a }
      BY <2>1, <2>2
    <3> QED
      BY <1>1, <2>2, <3>1, FS_AddElement
  <2>3. CASE a \notin T
    <3>1. T = R
      BY <2>1, <2>3
    <3> QED
      BY <1>1, <2>3, <3>1
  <2> QED
    BY <2>2, <2>3
<1> HIDE DEF R
<1> QED
  BY <1>1, <1>2, <1>3

LEMMA SetsOfAssets ==
  ASSUME NEW S \in SUBSET Assets
  PROVE  /\ IsFiniteSet(S)
         /\ Cardinality(S) \in Nat
         /\ Cardinality(S) <= Cardinality(Assets)
         /\ Cardinality(Assets) \in Nat
  BY ArgsAssumption, FS_Subset, FS_CardinalityType

LEMMA MembersAreAssets ==
  ASSUME NEW c
  PROVE  Members(c) \in SUBSET Assets /\ Members(c)' \in SUBSET Assets
  BY DEF Members

\* 1 when asset a is a member of c, else 0.
Seat(a, c) == IF a \in Members(c) THEN 1 ELSE 0

\* When only asset a changes, only its seats are given up or taken.
LEMMA OneAssetMoves ==
  ASSUME NEW a \in Assets, NEW c,
         \A b \in Assets \ { a } : stage'[b] = stage[b] /\ ua'[b] = ua[b]
  PROVE  Cardinality(Members(c))' + Seat(a, c)
           = Cardinality(Members(c)) + Seat(a, c)'
<1>1. Members(c) \ { a } = Members(c)' \ { a }
  BY DEF Members, Live
<1> QED
  BY <1>1, SetsOfAssets, MembersAreAssets, OneElementApart DEF Seat

-----------------------------------------------------------------------------
(* What instructions do to the counters and to the members *)

\* The counters follow the members.
Balanced ==
  /\ \A c \in Collections :
       size'[c] + Cardinality(Members(c)) = size[c] + Cardinality(Members(c))'
  /\ leaves' = leaves

\* It is enough to look at the seats of the one asset that changes.
LEMMA SeatsBalance ==
  ASSUME TypeOK, TypeOK', NEW a \in Assets, leaves' = leaves,
         \A b \in Assets \ { a } : stage'[b] = stage[b] /\ ua'[b] = ua[b],
         \A c \in Collections : size'[c] + Seat(a, c) = size[c] + Seat(a, c)'
  PROVE  Balanced
<1> SUFFICES ASSUME NEW c \in Collections
             PROVE  size'[c] + Cardinality(Members(c))
                      = size[c] + Cardinality(Members(c))'
  BY DEF Balanced
<1>1. size[c] \in Int /\ size'[c] \in Int
  BY CountersAssumption DEF TypeOK
<1>2. Cardinality(Members(c)) \in Int
  BY MembersAreAssets, SetsOfAssets
<1>3. Cardinality(Members(c))' \in Int
  BY MembersAreAssets, SetsOfAssets
<1>4. Seat(a, c) \in Int /\ Seat(a, c)' \in Int
  BY DEF Seat
<1>5. Cardinality(Members(c))' + Seat(a, c)
        = Cardinality(Members(c)) + Seat(a, c)'
  BY OneAssetMoves
<1> QED
  BY <1>1, <1>2, <1>3, <1>4, <1>5

LEMMA CreateV2Balanced ==
  ASSUME TypeOK, NEW s, NEW a \in Assets, NEW o, NEW u, NEW pl, NEW m,
         CreateV2(s, a, o, u, pl, m), TypeOK'
  PROVE  Balanced
<1>1. \A b \in Assets \ { a } : stage'[b] = stage[b] /\ ua'[b] = ua[b]
  BY DEF CreateV2, TypeOK, Accounts
<1>2. ASSUME NEW c \in Collections
      PROVE  size'[c] + Seat(a, c) = size[c] + Seat(a, c)'
  <2>1. stage[a] = "Free" /\ stage'[a] = "Live" /\ ua'[a] = u
    BY DEF CreateV2, TypeOK, Accounts
  <2>2. size'[c] = IF c = u THEN size[c] + 1 ELSE size[c]
    BY DEF CreateV2, IncrementSize
  <2> QED
    BY <2>1, <2>2, CountersAssumption DEF Seat, Members, Live, TypeOK
<1> QED
  BY <1>1, <1>2, SeatsBalance DEF CreateV2

LEMMA UpdateBalanced ==
  ASSUME TypeOK, NEW s, NEW a \in Assets, NEW v, NEW u, NEW m,
         Update(s, a, v, u, m), TypeOK'
  PROVE  Balanced
<1>1. \A b \in Assets \ { a } : stage'[b] = stage[b] /\ ua'[b] = ua[b]
  BY DEF Update, TypeOK, Accounts
<1>2. ASSUME NEW c \in Collections
      PROVE  size'[c] + Seat(a, c) = size[c] + Seat(a, c)'
  <2>1. /\ stage[a] = "Live" /\ stage'[a] = "Live"
        /\ ua'[a] = IF u = Keep THEN ua[a] ELSE u
    BY DEF Update, Live, TypeOK, Accounts
  <2>2. size[c] \in Int
    BY CountersAssumption DEF TypeOK
  <2>3. CASE u = Keep
    BY <2>1, <2>2, <2>3 DEF Seat, Members, Live, Update
  <2>4. CASE u # Keep
    <3>1. size' = MoveMember(ua[a], u)
      BY <2>4 DEF Update
    <3>2. size'[c] = size[c] - (IF c = ua[a] THEN 1 ELSE 0)
                             + (IF c = u THEN 1 ELSE 0)
      BY <2>2, <3>1 DEF MoveMember, IncrementSize, DecrementSize
    <3> QED
      BY <2>1, <2>2, <2>4, <3>2 DEF Seat, Members, Live
  <2> QED
    BY <2>3, <2>4
<1> QED
  BY <1>1, <1>2, SeatsBalance DEF Update

LEMMA BurnBalanced ==
  ASSUME TypeOK, NEW s, NEW a \in Assets, Burn(s, a), TypeOK'
  PROVE  Balanced
<1>1. /\ stage[a] = "Live" /\ stage'[a] = "Closed"
      /\ \A b \in Assets \ { a } : stage'[b] = stage[b] /\ ua'[b] = ua[b]
  BY DEF Burn, Close, Live, TypeOK, Accounts
<1>2. ASSUME NEW c \in Collections
      PROVE  size'[c] + Seat(a, c) = size[c] + Seat(a, c)'
  <2>1. size'[c] = IF c = ua[a] THEN size[c] - 1 ELSE size[c]
    BY DEF Burn, DecrementSize
  <2>2. size[c] \in Int
    BY CountersAssumption DEF TypeOK
  <2> QED
    BY <1>1, <2>1, <2>2 DEF Seat, Members, Live
<1> QED
  BY <1>1, <1>2, SeatsBalance DEF Burn

\* Instructions that leave the asset accounts and the sizes alone.
LEMMA UnmovedBalanced ==
  ASSUME TypeOK, UNCHANGED << size, leaves >>,
         \A b \in Assets : stage'[b] = stage[b] /\ ua'[b] = ua[b]
  PROVE  Balanced
  BY DEF Balanced, Members, Live

LEMMA PluginInstructionBalanced ==
  ASSUME TypeOK, NEW s, NEW k \in Accounts, NEW types \in SUBSET PluginTypes,
         PluginInstruction(s, k, types)
  PROVE  Balanced
  BY PluginInstructionWritesOneRecord, UnmovedBalanced

LEMMA AssetInstructionBalanced ==
  ASSUME TypeOK, NEW s, NEW a \in Assets, AssetInstruction(s, a), TypeOK'
  PROVE  Balanced
<1>1. a \in Accounts /\ AssetTypes \in SUBSET PluginTypes
  BY ArgsAssumption DEF Accounts
<1>2. ASSUME NEW o, Transfer(s, a, o) PROVE Balanced
  BY <1>2, UnmovedBalanced DEF Transfer
<1> QED
  BY <1>1, <1>2, CreateV2Balanced, PluginInstructionBalanced, UpdateBalanced,
     BurnBalanced DEF AssetInstruction

LEMMA CollectionInstructionBalanced ==
  ASSUME TypeOK, NEW s, NEW c \in Collections, CollectionInstruction(s, c)
  PROVE  Balanced
<1>1. c \in Accounts /\ c \notin Assets /\ CollectionTypes \in SUBSET PluginTypes
  BY KeysAssumption, ArgsAssumption DEF Accounts
<1>2. ASSUME NEW u, NEW pl, NEW m, CreateCollectionV2(s, c, u, pl, m)
      PROVE  Balanced
  <2>1. \A b \in Assets : stage'[b] = stage[b] /\ ua'[b] = ua[b]
    BY <1>1, <1>2 DEF CreateCollectionV2, TypeOK, Accounts
  <2> QED
    BY <1>2, <2>1, UnmovedBalanced DEF CreateCollectionV2
<1>3. ASSUME NEW u, NEW m, UpdateCollection(s, c, u, m)
      PROVE  Balanced
  <2>1. \A b \in Assets : stage'[b] = stage[b] /\ ua'[b] = ua[b]
    BY <1>1, <1>3 DEF UpdateCollection, TypeOK, Accounts
  <2> QED
    BY <1>3, <2>1, UnmovedBalanced DEF UpdateCollection
<1>4. ASSUME BurnCollection(s, c) PROVE Balanced
  <2>1. \A b \in Assets : stage'[b] = stage[b] /\ ua'[b] = ua[b]
    BY <1>1, <1>4 DEF BurnCollection, Close, TypeOK, Accounts
  <2> QED
    BY <1>4, <2>1, UnmovedBalanced DEF BurnCollection
<1> QED
  BY <1>1, <1>2, <1>3, <1>4, PluginInstructionBalanced
     DEF CollectionInstruction

LEMMA ReportMovesNobody ==
  ASSUME NEW c, NEW type, NEW amount, UpdateCollectionInfo(c, type, amount)
  PROVE  /\ stage' = stage /\ ua' = ua
         /\ \A d : Members(d)' = Members(d)
  BY DEF UpdateCollectionInfo, Members, Live

-----------------------------------------------------------------------------
(* The counter never overcounts *)

LEMMA BalancedNeverOvercounts ==
  ASSUME TypeOK, TypeOK', Balanced, SizeNeverOvercounts
  PROVE  SizeNeverOvercounts'
<1> SUFFICES ASSUME NEW c \in Collections
             PROVE  size'[c] <= Cardinality(Members(c))' + leaves'[c]
  BY DEF SizeNeverOvercounts
<1>1. size[c] \in Int /\ size'[c] \in Int /\ leaves[c] \in Int
  BY CountersAssumption DEF TypeOK
<1>2. /\ Cardinality(Members(c)) \in Int
      /\ Cardinality(Members(c))' \in Int
  BY MembersAreAssets, SetsOfAssets
<1>3. /\ size'[c] + Cardinality(Members(c)) = size[c] + Cardinality(Members(c))'
      /\ leaves'[c] = leaves[c]
  BY DEF Balanced
<1>4. size[c] <= Cardinality(Members(c)) + leaves[c]
  BY DEF SizeNeverOvercounts
<1> QED
  BY <1>1, <1>2, <1>3, <1>4

\* Saturation loses members of the count, it never makes one up.
LEMMA ReportNeverOvercounts ==
  ASSUME TypeOK, SizeNeverOvercounts, NEW c \in Collections,
         NEW type \in { "Mint", "Add", "Remove" }, NEW amount \in 1 .. MaxLeaves,
         UpdateCollectionInfo(c, type, amount)
  PROVE  SizeNeverOvercounts'
<1> SUFFICES ASSUME NEW d \in Collections
             PROVE  size'[d] <= Cardinality(Members(d))' + leaves'[d]
  BY DEF SizeNeverOvercounts
<1>1. size[d] \in Nat /\ leaves[d] \in Nat /\ amount \in Nat
  BY CountersAssumption DEF TypeOK
<1>2. /\ Cardinality(Members(d)) \in Nat
      /\ Cardinality(Members(d))' = Cardinality(Members(d))
  BY MembersAreAssets, SetsOfAssets, ReportMovesNobody
<1>3. size[d] <= Cardinality(Members(d)) + leaves[d]
  BY DEF SizeNeverOvercounts
<1>4. \/ size'[d] = size[d] /\ leaves'[d] = leaves[d]
      \/ /\ size'[d] = SaturatingAdd(size[d], amount)
         /\ leaves'[d] = leaves[d] + amount
      \/ /\ size'[d] = SaturatingSub(size[d], amount)
         /\ leaves'[d] = leaves[d] - amount /\ amount <= leaves[d]
  BY DEF UpdateCollectionInfo, TypeOK
<1> QED
  BY <1>1, <1>2, <1>3, <1>4, CountersAssumption
     DEF SaturatingAdd, SaturatingSub

\* current_size never counts a member that is not there, saturated counters
\* and reports of Bubblegum included.
THEOREM NeverOvercounts == Spec => []SizeNeverOvercounts
<1>1. Init => SizeNeverOvercounts
  <2> SUFFICES ASSUME Init, NEW c \in Collections
               PROVE  size[c] <= Cardinality(Members(c)) + leaves[c]
    BY DEF SizeNeverOvercounts
  <2>1. size[c] = 0 /\ leaves[c] = 0
    BY DEF Init
  <2>2. Cardinality(Members(c)) \in Nat
    BY MembersAreAssets, SetsOfAssets
  <2> QED
    BY <2>1, <2>2
<1>2. TypeOK /\ TypeOK' /\ SizeNeverOvercounts /\ [Next]_vars
        => SizeNeverOvercounts'
  <2> SUFFICES ASSUME TypeOK, TypeOK', SizeNeverOvercounts, [Next]_vars
               PROVE  SizeNeverOvercounts'
    OBVIOUS
  <2>1. CASE UNCHANGED vars
    BY <2>1 DEF vars, SizeNeverOvercounts, Members, Live
  <2>2. ASSUME NEW s \in Signers, NEW a \in Assets, AssetInstruction(s, a)
        PROVE  SizeNeverOvercounts'
    BY <2>2, AssetInstructionBalanced, BalancedNeverOvercounts
  <2>3. ASSUME NEW s \in Signers, NEW c \in Collections,
               CollectionInstruction(s, c)
        PROVE  SizeNeverOvercounts'
    BY <2>3, CollectionInstructionBalanced, BalancedNeverOvercounts
  <2> QED
    BY <2>1, <2>2, <2>3, ReportNeverOvercounts DEF Next
<1> QED
  BY <1>1, <1>2, TypeCorrect, PTL DEF Spec

-----------------------------------------------------------------------------
(* The counter is exact, and a collection with members is not closed.  The   *)
(* two are proved together: an empty count allows a collection to be closed, *)
(* and only live collections get members to count.                           *)

\* An asset instruction changes one asset and no collection's stage, and it
\* leaves the asset where it was or takes it into a live collection.
LEMMA AssetInstructionSettles ==
  ASSUME TypeOK, NEW s, NEW a \in Assets, AssetInstruction(s, a)
  PROVE  /\ \A b \in Assets \ { a } : stage'[b] = stage[b] /\ ua'[b] = ua[b]
         /\ \A c \in Collections : stage'[c] = stage[c]
         /\ leaves' = leaves
         /\ stage'[a] = "Live" /\ ua'[a] \in Collections =>
              Live(ua'[a]) \/ (Live(a) /\ ua'[a] = ua[a])
<1>1. /\ a \in Accounts /\ a \notin Collections
      /\ AssetTypes \in SUBSET PluginTypes
  BY KeysAssumption, ArgsAssumption DEF Accounts
<1> DEFINE Goal ==
      /\ \A b \in Assets \ { a } : stage'[b] = stage[b] /\ ua'[b] = ua[b]
      /\ \A c \in Collections : stage'[c] = stage[c]
      /\ leaves' = leaves
      /\ stage'[a] = "Live" /\ ua'[a] \in Collections =>
           Live(ua'[a]) \/ (Live(a) /\ ua'[a] = ua[a])
<1>2. ASSUME NEW o, NEW u, NEW pl, NEW m, CreateV2(s, a, o, u, pl, m)
      PROVE  Goal
  BY <1>1, <1>2 DEF CreateV2, TypeOK, Accounts
<1>3. ASSUME PluginInstruction(s, a, AssetTypes)
      PROVE  Goal
  BY <1>1, <1>3, PluginInstructionWritesOneRecord DEF Live
<1>4. ASSUME NEW o, Transfer(s, a, o) PROVE Goal
  BY <1>4 DEF Transfer, Live
<1>5. ASSUME NEW v, NEW u, NEW m, Update(s, a, v, u, m) PROVE Goal
  BY <1>1, <1>5 DEF Update, TypeOK, Accounts
<1>6. ASSUME Burn(s, a) PROVE Goal
  BY <1>1, <1>6 DEF Burn, Close, TypeOK, Accounts
<1> QED
  BY <1>2, <1>3, <1>4, <1>5, <1>6 DEF AssetInstruction

\* A collection instruction changes no asset, and the stage of its collection
\* by founding it, or by closing it at size zero.
LEMMA CollectionInstructionSettles ==
  ASSUME TypeOK, NEW s, NEW c \in Collections, CollectionInstruction(s, c)
  PROVE  /\ \A b \in Assets : stage'[b] = stage[b] /\ ua'[b] = ua[b]
         /\ leaves' = leaves
         /\ \/ stage' = stage
            \/ stage[c] = "Free" /\ stage' = [stage EXCEPT ![c] = "Live"]
            \/ /\ stage[c] = "Live" /\ size[c] = 0
               /\ stage' = [stage EXCEPT ![c] = "Closed"]
<1>1. c \in Accounts /\ c \notin Assets /\ CollectionTypes \in SUBSET PluginTypes
  BY KeysAssumption, ArgsAssumption DEF Accounts
<1> DEFINE Goal ==
      /\ \A b \in Assets : stage'[b] = stage[b] /\ ua'[b] = ua[b]
      /\ leaves' = leaves
      /\ \/ stage' = stage
         \/ stage[c] = "Free" /\ stage' = [stage EXCEPT ![c] = "Live"]
         \/ /\ stage[c] = "Live" /\ size[c] = 0
            /\ stage' = [stage EXCEPT ![c] = "Closed"]
<1>2. ASSUME NEW u, NEW pl, NEW m, CreateCollectionV2(s, c, u, pl, m)
      PROVE  Goal
  BY <1>1, <1>2 DEF CreateCollectionV2, TypeOK, Accounts
<1>3. ASSUME PluginInstruction(s, c, CollectionTypes) PROVE Goal
  BY <1>1, <1>3, PluginInstructionWritesOneRecord
<1>4. ASSUME NEW u, NEW m, UpdateCollection(s, c, u, m) PROVE Goal
  BY <1>1, <1>4 DEF UpdateCollection, TypeOK, Accounts
<1>5. ASSUME BurnCollection(s, c) PROVE Goal
  BY <1>1, <1>5 DEF BurnCollection, Close, Live, TypeOK, Accounts
<1> QED
  BY <1>2, <1>3, <1>4, <1>5 DEF CollectionInstruction

\* The two properties without their hypothesis on the constants.
Exact ==
  \A c \in Collections : size[c] = Cardinality(Members(c)) + leaves[c]

Settled ==
  \A a \in Assets : Live(a) /\ ua[a] \in Collections => Live(ua[a])

LEMMA BalancedExact ==
  ASSUME TypeOK, TypeOK', Balanced, Exact
  PROVE  Exact'
<1> SUFFICES ASSUME NEW c \in Collections
             PROVE  size'[c] = Cardinality(Members(c))' + leaves'[c]
  BY DEF Exact
<1>1. size[c] \in Int /\ size'[c] \in Int /\ leaves[c] \in Int
  BY CountersAssumption DEF TypeOK
<1>2. /\ Cardinality(Members(c)) \in Int
      /\ Cardinality(Members(c))' \in Int
  BY MembersAreAssets, SetsOfAssets
<1>3. /\ size'[c] + Cardinality(Members(c)) = size[c] + Cardinality(Members(c))'
      /\ leaves'[c] = leaves[c]
  BY DEF Balanced
<1>4. size[c] = Cardinality(Members(c)) + leaves[c]
  BY DEF Exact
<1>5. size'[c] = size[c] + Cardinality(Members(c))' - Cardinality(Members(c))
  BY <1>1, <1>2, <1>3
<1> QED
  BY <1>1, <1>2, <1>3, <1>4, <1>5

\* With room for every member, no report saturates the counter.
LEMMA ReportExact ==
  ASSUME Roomy, TypeOK, Exact, NEW c \in Collections,
         NEW type \in { "Mint", "Add", "Remove" }, NEW amount \in 1 .. MaxLeaves,
         UpdateCollectionInfo(c, type, amount)
  PROVE  Exact'
<1> SUFFICES ASSUME NEW d \in Collections
             PROVE  size'[d] = Cardinality(Members(d))' + leaves'[d]
  BY DEF Exact
<1>1. size[d] \in Nat /\ leaves[d] \in Nat /\ amount \in Nat
  BY CountersAssumption DEF TypeOK
<1>2. /\ Cardinality(Members(d)) \in Nat
      /\ Cardinality(Members(d)) <= Cardinality(Assets)
      /\ Cardinality(Assets) \in Nat
      /\ Cardinality(Members(d))' = Cardinality(Members(d))
  BY MembersAreAssets, SetsOfAssets, ReportMovesNobody
<1>3. size[d] = Cardinality(Members(d)) + leaves[d]
  BY DEF Exact
<1>4. \/ size'[d] = size[d] /\ leaves'[d] = leaves[d]
      \/ /\ size'[d] = SaturatingAdd(size[d], amount)
         /\ leaves[d] + amount <= MaxLeaves
         /\ leaves'[d] = leaves[d] + amount
      \/ /\ size'[d] = SaturatingSub(size[d], amount)
         /\ leaves'[d] = leaves[d] - amount /\ amount <= leaves[d]
  BY DEF UpdateCollectionInfo, TypeOK
<1> QED
  BY <1>1, <1>2, <1>3, <1>4, CountersAssumption
     DEF SaturatingAdd, SaturatingSub, Roomy

\* An exact size of zero means that there is no member of either kind.
LEMMA ExactlyNobody ==
  ASSUME TypeOK, Exact, NEW c \in Collections, size[c] = 0
  PROVE  leaves[c] = 0 /\ Members(c) = {}
<1>1. leaves[c] \in Nat
  BY CountersAssumption DEF TypeOK
<1>2. Cardinality(Members(c)) \in Nat /\ IsFiniteSet(Members(c))
  BY MembersAreAssets, SetsOfAssets
<1>3. leaves[c] = 0 /\ Cardinality(Members(c)) = 0
  BY <1>1, <1>2 DEF Exact
<1> QED
  BY <1>2, <1>3, FS_EmptySet

LEMMA StepExactSettled ==
  ASSUME Roomy
  PROVE  TypeOK /\ TypeOK' /\ Exact /\ Settled /\ [Next]_vars
           => Exact' /\ Settled'
<1> SUFFICES ASSUME TypeOK, TypeOK', Exact, Settled, [Next]_vars
             PROVE  Exact' /\ Settled'
  OBVIOUS
<1>1. CASE UNCHANGED vars
  BY <1>1 DEF vars, Exact, Settled, Members, Live
<1>2. ASSUME NEW s \in Signers, NEW a \in Assets, AssetInstruction(s, a)
      PROVE  Exact' /\ Settled'
  <2>1. Exact'
    BY <1>2, AssetInstructionBalanced, BalancedExact
  <2>2. Settled'
    BY <1>2, AssetInstructionSettles DEF Settled, Live
  <2> QED
    BY <2>1, <2>2
<1>3. ASSUME NEW s \in Signers, NEW c \in Collections,
             CollectionInstruction(s, c)
      PROVE  Exact' /\ Settled'
  <2>1. Exact'
    BY <1>3, CollectionInstructionBalanced, BalancedExact
  <2>2. size[c] = 0 => \A a \in Assets : ~(Live(a) /\ ua[a] = c)
    BY ExactlyNobody DEF Members
  <2>3. Settled'
    BY <1>3, <2>2, CollectionInstructionSettles
       DEF Settled, Live, TypeOK, Accounts
  <2> QED
    BY <2>1, <2>3
<1>4. ASSUME NEW c \in Collections, NEW type \in { "Mint", "Add", "Remove" },
             NEW amount \in 1 .. MaxLeaves, UpdateCollectionInfo(c, type, amount)
      PROVE  Exact' /\ Settled'
  BY <1>4, ReportExact, ReportMovesNobody DEF Settled, Live
<1> QED
  BY <1>1, <1>2, <1>3, <1>4 DEF Next

\* The inductive invariant, for constants that leave room.
LEMMA AlwaysExactSettled ==
  ASSUME Roomy PROVE Spec => [](Exact /\ Settled)
<1>1. Init => Exact /\ Settled
  <2> SUFFICES ASSUME Init PROVE Exact /\ Settled
    OBVIOUS
  <2>1. \A a \in Assets : ~Live(a)
    BY DEF Init, Live, Accounts
  <2>2. \A c : Members(c) = {}
    BY <2>1 DEF Members
  <2> QED
    BY <2>1, <2>2, FS_EmptySet DEF Init, Exact, Settled
<1>2. TypeOK /\ TypeOK' /\ Exact /\ Settled /\ [Next]_vars => Exact' /\ Settled'
  BY StepExactSettled
<1> QED
  BY <1>1, <1>2, TypeCorrect, PTL DEF Spec

\* current_size is the number of live members, plain and compressed: create,
\* update and burn keep it, and so burn_collection may rely on it.
THEOREM SizeExact == Spec => []SizeIsExact
<1>1. CASE Roomy
  <2>1. Exact => SizeIsExact
    BY DEF Exact, SizeIsExact
  <2> QED
    BY <1>1, <2>1, AlwaysExactSettled, PTL
<1>2. CASE ~Roomy
  <2>1. SizeIsExact
    BY <1>2 DEF SizeIsExact
  <2> QED
    BY <2>1, PTL
<1> QED
  BY <1>1, <1>2

\* No live asset refers to a collection that was burned or never created.
THEOREM NoOrphans == Spec => []MembersHaveALiveCollection
<1>1. CASE Roomy
  <2>1. Settled => MembersHaveALiveCollection
    BY DEF Settled, MembersHaveALiveCollection
  <2> QED
    BY <1>1, <2>1, AlwaysExactSettled, PTL
<1>2. CASE ~Roomy
  <2>1. MembersHaveALiveCollection
    BY <1>2 DEF MembersHaveALiveCollection
  <2> QED
    BY <2>1, PTL
<1> QED
  BY <1>1, <1>2

-----------------------------------------------------------------------------
(* The counters implement the sets of members *)

LEMMA InitImplements == Init => Roll!Init
<1> SUFFICES ASSUME Init PROVE Roll!Init
  OBVIOUS
<1>1. [c \in Collections |-> stage[c]] = [c \in Collections |-> "Free"]
  BY DEF Init, Accounts
<1>2. Home = [a \in Assets |-> "None"]
  BY DEF Init, Home, Live, Accounts
<1> QED
  BY <1>1, <1>2 DEF Init, Roll!Init

LEMMA AssetInstructionImplements ==
  ASSUME TypeOK, Settled, NEW s, NEW a \in Assets, AssetInstruction(s, a)
  PROVE  Roll!Next
<1>1. [c \in Collections |-> stage[c]]' = [c \in Collections |-> stage[c]]
  BY AssetInstructionSettles
<1>2. Home' = [Home EXCEPT ![a] = Home'[a]]
  BY AssetInstructionSettles DEF Home, Live
<1>3. Home'[a] \in Collections \cup { "None" }
  BY DEF Home
<1>4. Home'[a] \in Collections => [c \in Collections |-> stage[c]][Home'[a]] = "Live"
  BY AssetInstructionSettles, KeysAssumption DEF Home, Live, Settled, Accounts
<1>5. Roll!Rehome(a, Home'[a])
  BY <1>1, <1>2, <1>4, AssetInstructionSettles DEF Roll!Rehome
<1> QED
  BY <1>3, <1>5 DEF Roll!Next

LEMMA CollectionInstructionImplements ==
  ASSUME TypeOK, Exact, NEW s, NEW c \in Collections, CollectionInstruction(s, c)
  PROVE  Roll!Next \/ UNCHANGED Roll!roll
<1> DEFINE phase == [d \in Collections |-> stage[d]]
<1>1. Home' = Home /\ leaves' = leaves
  BY CollectionInstructionSettles DEF Home, Live
<1>2. CASE stage' = stage
  BY <1>1, <1>2 DEF Roll!roll
<1>3. CASE stage[c] = "Free" /\ stage' = [stage EXCEPT ![c] = "Live"]
  <2>1. phase' = [phase EXCEPT ![c] = "Live"] /\ phase[c] = "Free"
    BY <1>3 DEF TypeOK, Accounts
  <2>2. Roll!Found(c)
    BY <1>1, <2>1 DEF Roll!Found
  <2> QED
    BY <2>2 DEF Roll!Next
<1>4. CASE /\ stage[c] = "Live" /\ size[c] = 0
           /\ stage' = [stage EXCEPT ![c] = "Closed"]
  <2>1. phase' = [phase EXCEPT ![c] = "Closed"] /\ phase[c] = "Live"
    BY <1>4 DEF TypeOK, Accounts
  <2>2. leaves[c] = 0 /\ \A a \in Assets : Home[a] # c
    BY <1>4, ExactlyNobody, KeysAssumption DEF Home, Members, Accounts
  <2>3. Roll!Dissolve(c)
    BY <1>1, <2>1, <2>2 DEF Roll!Dissolve, Roll!Empty
  <2> QED
    BY <2>3 DEF Roll!Next
<1> QED
  BY <1>2, <1>3, <1>4, CollectionInstructionSettles

LEMMA ReportImplements ==
  ASSUME TypeOK, NEW c \in Collections, NEW type \in { "Mint", "Add", "Remove" },
         NEW amount \in 1 .. MaxLeaves, UpdateCollectionInfo(c, type, amount)
  PROVE  Roll!Next
<1>1. leaves' = [leaves EXCEPT ![c] = leaves'[c]]
  BY DEF UpdateCollectionInfo, TypeOK
<1>2. leaves'[c] \in 0 .. MaxLeaves
  BY UpdateCollectionInfoType DEF TypeOK
<1>3. Home' = Home /\ stage' = stage /\ [d \in Collections |-> stage[d]][c] = "Live"
  BY ReportMovesNobody DEF Home, Live, UpdateCollectionInfo
<1>4. Roll!Report(c, leaves'[c])
  BY <1>1, <1>3 DEF Roll!Report
<1> QED
  BY <1>2, <1>4 DEF Roll!Next

\* The program's counters and references implement Membership, in which a
\* collection is the set of its members and is closed only when that is empty.
THEOREM ImplementsMembership == ASSUME Roomy PROVE Spec => MembershipSpec
<1>1. TypeOK /\ Exact /\ Settled /\ [Next]_vars => [Roll!Next]_(Roll!roll)
  <2> SUFFICES ASSUME TypeOK, Exact, Settled, [Next]_vars
               PROVE  Roll!Next \/ UNCHANGED Roll!roll
    OBVIOUS
  <2>1. CASE UNCHANGED vars
    BY <2>1 DEF vars, Roll!roll, Home, Live
  <2> QED
    BY <2>1, AssetInstructionImplements, CollectionInstructionImplements,
       ReportImplements DEF Next
<1> QED
  BY <1>1, InitImplements, TypeCorrect, AlwaysExactSettled, PTL
     DEF Spec, MembershipSpec, Roll!Spec

=============================================================================
