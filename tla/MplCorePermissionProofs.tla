----------------------- MODULE MplCorePermissionProofs -----------------------
(***************************************************************************)
(* Who moves, frees, renames and redelegates.  Each theorem reads an       *)
(* effect backwards: which instruction had it, who let the instruction     *)
(* pass (the core account or one plugin, by force or by approval), and     *)
(* which authority that takes.                                             *)
(***************************************************************************)
EXTENDS MplCorePluginProofs

-----------------------------------------------------------------------------
(* From effects to instructions *)

SameCore(k) ==
  /\ stage'[k] = stage[k] /\ ua'[k] = ua[k] /\ meta'[k] = meta[k]
  /\ k \in Assets => owner'[k] = owner[k]

\* The instructions that are about an asset itself.
AssetChange(s, a) ==
  \/ \E o \in Wallets : Transfer(s, a, o)
  \/ \E v, u, m : Update(s, a, v, u, m)
  \/ Burn(s, a)

CollectionChange(s, c) ==
  \/ \E u, m : UpdateCollection(s, c, u, m)
  \/ BurnCollection(s, c)

\* What can happen to the core of a live account.
LEMMA LiveCoreChange ==
  ASSUME TypeOK, [Next]_vars, NEW k \in Accounts, Live(k)
  PROVE  \/ SameCore(k)
         \/ k \in Assets /\ \E s \in Signers : AssetChange(s, k)
         \/ k \in Collections /\ \E s \in Signers : CollectionChange(s, k)
<1> DEFINE Goal ==
      \/ SameCore(k)
      \/ k \in Assets /\ \E s \in Signers : AssetChange(s, k)
      \/ k \in Collections /\ \E s \in Signers : CollectionChange(s, k)
<1>1. CASE UNCHANGED vars
  BY <1>1 DEF vars, SameCore
<1>2. ASSUME NEW s, NEW j, NEW types, PluginInstruction(s, j, types)
      PROVE  SameCore(k)
  BY <1>2 DEF PluginInstruction, AddPlugin, RemovePlugin, UpdatePlugin,
       ApprovePluginAuthority, RevokePluginAuthority, PluginStep, SameCore
<1>3. ASSUME NEW s \in Signers, NEW a \in Assets, AssetInstruction(s, a)
      PROVE  Goal
  <2>1. a \in Accounts
    BY DEF Accounts
  <2>2. ASSUME NEW o, NEW u, NEW pl, NEW m, CreateV2(s, a, o, u, pl, m)
        PROVE  SameCore(k)
    BY <2>1, <2>2 DEF CreateV2, TypeOK, Live, SameCore
  <2>3. CASE a = k
    BY <1>2, <1>3, <2>2, <2>3 DEF AssetInstruction, AssetChange
  <2>4. CASE a # k
    <3>1. ASSUME NEW o, Transfer(s, a, o) PROVE SameCore(k)
      BY <2>1, <2>4, <3>1 DEF Transfer, TypeOK, SameCore
    <3>2. ASSUME NEW v, NEW u, NEW m, Update(s, a, v, u, m) PROVE SameCore(k)
      BY <2>1, <2>4, <3>2 DEF Update, TypeOK, SameCore
    <3>3. ASSUME Burn(s, a) PROVE SameCore(k)
      BY <2>1, <2>4, <3>3 DEF Burn, Close, TypeOK, SameCore
    <3> QED
      BY <1>2, <1>3, <2>2, <3>1, <3>2, <3>3 DEF AssetInstruction
  <2> QED
    BY <2>3, <2>4
<1>4. ASSUME NEW s \in Signers, NEW c \in Collections,
             CollectionInstruction(s, c)
      PROVE  Goal
  <2>1. c \in Accounts
    BY DEF Accounts
  <2>2. ASSUME NEW u, NEW pl, NEW m, CreateCollectionV2(s, c, u, pl, m)
        PROVE  SameCore(k)
    BY <2>1, <2>2 DEF CreateCollectionV2, TypeOK, Live, SameCore
  <2>3. CASE c = k
    BY <1>2, <1>4, <2>2, <2>3 DEF CollectionInstruction, CollectionChange
  <2>4. CASE c # k
    <3>1. ASSUME NEW u, NEW m, UpdateCollection(s, c, u, m) PROVE SameCore(k)
      BY <2>1, <2>4, <3>1 DEF UpdateCollection, TypeOK, SameCore
    <3>2. ASSUME BurnCollection(s, c) PROVE SameCore(k)
      BY <2>1, <2>4, <3>2 DEF BurnCollection, Close, TypeOK, SameCore
    <3> QED
      BY <1>2, <1>4, <2>2, <3>1, <3>2 DEF CollectionInstruction
  <2> QED
    BY <2>3, <2>4
<1>5. ASSUME NEW c, NEW type, NEW amount, UpdateCollectionInfo(c, type, amount)
      PROVE  SameCore(k)
  BY <1>5 DEF UpdateCollectionInfo, SameCore
<1> QED
  BY <1>1, <1>3, <1>4, <1>5 DEF Next

-----------------------------------------------------------------------------
(* From verdicts to authorities *)

\* An authority that the signer stands for is one of its own.
LEMMA ResolvedIsHeld ==
  ASSUME NEW s, NEW rec
  PROVE  /\ \A a \in Assets :
              rec.auth \in ResolvedOnAsset(s, owner[a], ua[a]) => HolderOf(rec, s, a)
         /\ \A c \in Collections :
              rec.auth \in ResolvedOnCollection(s, c) => HolderOf(rec, s, c)
<1>1. ASSUME NEW a \in Assets, rec.auth \in ResolvedOnAsset(s, owner[a], ua[a])
      PROVE  HolderOf(rec, s, a)
  BY <1>1, KeysAssumption DEF ResolvedOnAsset, HolderOf, AuthorityOver
<1>2. ASSUME NEW c \in Collections, rec.auth \in ResolvedOnCollection(s, c)
      PROVE  HolderOf(rec, s, c)
  BY <1>2, KeysAssumption DEF ResolvedOnCollection, HolderOf, AuthorityOver
<1> QED
  BY <1>1, <1>2

\* Where nothing is forced, the core approves or a plugin does.
LEMMA Approval ==
  ASSUME NEW op, op \notin { "Transfer", "Burn" }, NEW held, NEW x, NEW core,
         Granted(op, held, x, core)
  PROVE  \/ core
         \/ \E p \in PluginTypes : held[p] # NoPlugin /\ Approves(op, p, held[p], x)
  BY DEF Granted, Forces

LEMMA PluginContextOf ==
  ASSUME NEW s, NEW k \in Accounts, NEW p, NEW new
  PROVE  /\ PluginContext(s, k, p, new).target = p
         /\ PluginContext(s, k, p, new).signer = s
         /\ PluginContext(s, k, p, new).new = new
         /\ \A rec : Holds(rec, PluginContext(s, k, p, new)) => HolderOf(rec, s, k)
<1>1. CASE k \in Assets
  BY <1>1, ResolvedIsHeld DEF PluginContext, AssetContext, Holds
<1>2. CASE k \in Collections
  BY <1>2, ResolvedIsHeld, KeysAssumption DEF PluginContext, CollectionContext, Holds
<1> QED
  BY <1>1, <1>2 DEF Accounts

\* Who lets an instruction about a plugin pass: its manager, or a plugin.
LEMMA PluginApproval ==
  ASSUME NEW op, op \in PluginOps \cup { "UpdatePlugin" }, NEW s,
         NEW k \in Accounts, NEW p, NEW new, PluginGrants(op, s, k, p, new)
  PROVE  \/ op \in PluginOps /\ Manager(p) = "Owner" /\ k \in Assets /\ s = owner[k]
         \/ op \in PluginOps /\ Manager(p) = "UpdateAuthority" /\ s = AuthorityOver(k)
         \/ \E q \in PluginTypes :
              /\ Counted(k)[q] # NoPlugin
              /\ Approves(op, q, Counted(k)[q], PluginContext(s, k, p, new))
<1> DEFINE x == PluginContext(s, k, p, new)
           Core == \/ AssetApproves(op, s, owner[k], ua[k], p)
                   \/ ua[k] \in Collections /\ CollectionApproves(op, s, ua[k], p)
<1>1. op \notin { "Transfer", "Burn", "Create", "Update" }
  BY DEF PluginOps
<1>2. x.signer = s /\ x.target = p
  BY PluginContextOf
<1>3. CASE k \in Assets
  <2>1. Effective(plugins[k], ua[k]) = Counted(k)
    BY <1>3 DEF Counted, Held, Effective
  <2>2. Granted(op, Counted(k), x, Core)
    BY <1>2, <1>3, <2>1 DEF PluginGrants, AssetGrants, PluginContext
  <2>3. CASE Core
    BY <1>1, <1>3, <2>3, KeysAssumption
    DEF AssetApproves, CollectionApproves, AuthorityOver
  <2> HIDE DEF x, Core
  <2>4. \/ Core
        \/ \E q \in PluginTypes :
             Counted(k)[q] # NoPlugin /\ Approves(op, q, Counted(k)[q], x)
    BY <1>1, <2>2, Approval
  <2> QED
    BY <2>3, <2>4 DEF x
<1>4. CASE k \notin Assets
  <2>1. Granted(op, Counted(k), x, CollectionApproves(op, s, k, p))
    BY <1>2, <1>4 DEF PluginGrants, CollectionGrants, PluginContext, Counted
  <2>2. CASE CollectionApproves(op, s, k, p)
    BY <1>1, <1>4, <2>2 DEF CollectionApproves, AuthorityOver
  <2> HIDE DEF x
  <2>3. \/ CollectionApproves(op, s, k, p)
        \/ \E q \in PluginTypes :
             Counted(k)[q] # NoPlugin /\ Approves(op, q, Counted(k)[q], x)
    BY <1>1, <2>1, Approval
  <2> QED
    BY <2>2, <2>3 DEF x
<1> QED
  BY <1>3, <1>4

-----------------------------------------------------------------------------
(* Owners *)

\* Who lets a transfer or a burn pass: the owner, or the delegate for that,
\* and not of a frozen asset; or by force the permanent delegate for that.
LEMMA MoverIsEntitled ==
  ASSUME NEW op \in { "Transfer", "Burn" }, NEW s, NEW a \in Assets,
         AssetGrants(op, owner[a], ua[a], plugins[a],
                     AssetContext(s, owner[a], ua[a]))
  PROVE  \/ HoldsPlugin(a, IF op = "Transfer" THEN "PermanentTransferDelegate"
                           ELSE "PermanentBurnDelegate", s)
         \/ /\ ~Frozen(a)
            /\ \/ s = owner[a]
               \/ HoldsPlugin(a, IF op = "Transfer" THEN "TransferDelegate"
                                 ELSE "BurnDelegate", s)
<1> DEFINE x == AssetContext(s, owner[a], ua[a])
           core == \/ AssetApproves(op, s, owner[a], ua[a], x.target)
                   \/ ua[a] \in Collections /\ CollectionApproves(op, s, ua[a], x.target)
           asked == { p \in PluginTypes \cap Asked[op] : Held(a)[p] # NoPlugin }
<1>1. x.signer = s /\ \A rec : Holds(rec, x) => HolderOf(rec, s, a)
  BY ResolvedIsHeld DEF AssetContext, Holds
<1>2. Granted(op, Held(a), x, core)
  <2>1. Effective(plugins[a], ua[a]) = Held(a)
    BY DEF Effective, Held
  <2> QED
    BY <1>1, <2>1 DEF AssetGrants
<1>3. core => s = owner[a]
  BY DEF AssetApproves, CollectionApproves, PluginOps
<1> HIDE DEF x, core
<1>4. CASE \E p \in asked : Forces(op, p, Held(a)[p], x)
  BY <1>1, <1>4 DEF Forces, HoldsPlugin, Has
<1>5. CASE /\ core \/ \E p \in asked : Approves(op, p, Held(a)[p], x)
           /\ \A p \in asked : ~Rejects(op, p, Held(a)[p], x)
  <2>1. ~Frozen(a)
    <3>1. FreezingTypes \subseteq Asked[op]
      BY DEF FreezingTypes, Asked
    <3> QED
      BY <1>5, <3>1 DEF Frozen, FreezingTypes, Has, Rejects, RejectsMove
  <2>2. ASSUME NEW p \in asked, Approves(op, p, Held(a)[p], x)
        PROVE  HoldsPlugin(a, IF op = "Transfer" THEN "TransferDelegate"
                              ELSE "BurnDelegate", s)
    BY <1>1, <2>2 DEF Approves, UpdateDelegateApproves, HoldsPlugin, Has
  <2> QED
    BY <1>3, <1>5, <2>1, <2>2
<1> QED
  BY <1>2, <1>4, <1>5 DEF Granted

\* An asset changes hands or is burned by its owner or a delegate for that, and
\* while it is frozen by a permanent delegate only, whichever plugins of asset
\* and collection meet.
THEOREM EntitledMove == Spec => OnlyTheEntitledMoveAnAsset
<1> DEFINE A == \A a \in Assets :
       /\ Live(a) /\ owner'[a] # owner[a] /\ stage'[a] = "Live" =>
            \/ HoldsPlugin(a, "PermanentTransferDelegate", ix'.by)
            \/ /\ ~Frozen(a)
               /\ ix'.by = owner[a] \/ HoldsPlugin(a, "TransferDelegate", ix'.by)
       /\ Live(a) /\ stage'[a] = "Closed" =>
            \/ HoldsPlugin(a, "PermanentBurnDelegate", ix'.by)
            \/ /\ ~Frozen(a)
               /\ ix'.by = owner[a] \/ HoldsPlugin(a, "BurnDelegate", ix'.by)
<1>1. TypeOK /\ [Next]_vars => A
  <2> SUFFICES ASSUME TypeOK, [Next]_vars, NEW a \in Assets, Live(a)
               PROVE  /\ owner'[a] # owner[a] /\ stage'[a] = "Live" =>
                           \/ HoldsPlugin(a, "PermanentTransferDelegate", ix'.by)
                           \/ /\ ~Frozen(a)
                              /\ \/ ix'.by = owner[a]
                                 \/ HoldsPlugin(a, "TransferDelegate", ix'.by)
                      /\ stage'[a] = "Closed" =>
                           \/ HoldsPlugin(a, "PermanentBurnDelegate", ix'.by)
                           \/ /\ ~Frozen(a)
                              /\ \/ ix'.by = owner[a]
                                 \/ HoldsPlugin(a, "BurnDelegate", ix'.by)
    OBVIOUS
  <2>1. a \in Accounts /\ a \notin Collections
    BY KeysAssumption DEF Accounts
  <2>2. CASE SameCore(a)
    BY <2>2 DEF SameCore, Live
  <2>3. ASSUME NEW s, NEW o, Transfer(s, a, o)
        PROVE  /\ stage'[a] = "Live" /\ ix'.by = s
               /\ \/ HoldsPlugin(a, "PermanentTransferDelegate", s)
                  \/ ~Frozen(a) /\ (s = owner[a] \/ HoldsPlugin(a, "TransferDelegate", s))
    BY <2>3, MoverIsEntitled DEF Transfer, Record, Live
  <2>4. ASSUME NEW s, NEW v, NEW u, NEW m, Update(s, a, v, u, m)
        PROVE  stage'[a] = "Live" /\ owner'[a] = owner[a]
    BY <2>4 DEF Update, Live
  <2>5. ASSUME NEW s, Burn(s, a)
        PROVE  /\ stage'[a] = "Closed" /\ ix'.by = s
               /\ \/ HoldsPlugin(a, "PermanentBurnDelegate", s)
                  \/ ~Frozen(a) /\ (s = owner[a] \/ HoldsPlugin(a, "BurnDelegate", s))
    BY <2>1, <2>5, MoverIsEntitled DEF Burn, Close, Record, TypeOK
  <2> QED
    BY <2>1, <2>2, <2>3, <2>4, <2>5, LiveCoreChange DEF AssetChange
<1>2. TypeOK /\ [Next]_vars => [A]_vars
  BY <1>1
<1> HIDE DEF A
<1>3. Spec => [][A]_vars
  BY <1>2, TypeCorrect, PTL DEF Spec
<1> QED
  BY <1>3 DEF A, OnlyTheEntitledMoveAnAsset

-----------------------------------------------------------------------------
(* Collections and names *)

\* Who lets an update of an asset pass: its update authority or its
\* collection's, or an UpdateDelegate, though not the asset's own when it is
\* to leave its collection; and no ImmutableMetadata.
LEMMA UpdaterIsEntitled ==
  ASSUME NEW s, NEW a \in Assets, NEW u,
         AssetGrants("Update", owner[a], ua[a], plugins[a], UpdateContext(s, a, u))
  PROVE  /\ ~Has(a, "ImmutableMetadata")
         /\ \/ s = ua[a]
            \/ ua[a] \in Collections /\ s = ua[ua[a]]
            \/ /\ Has(a, "UpdateDelegate")
               /\ DelegateOf(Held(a)["UpdateDelegate"], s, a)
               /\ ua[a] \in Collections /\ u \notin { Keep, ua[a] } =>
                    plugins[a]["UpdateDelegate"] = NoPlugin
<1> DEFINE x == UpdateContext(s, a, u)
           core == \/ AssetApproves("Update", s, owner[a], ua[a], x.target)
                   \/ ua[a] \in Collections /\ CollectionApproves("Update", s, ua[a], x.target)
<1>1. /\ x.signer = s
      /\ x.resolved = ResolvedOnAsset(s, owner[a], ua[a])
      /\ x.leaving = (ua[a] \in Collections /\ u \notin { Keep, ua[a] })
      /\ x.ownDelegate = ("UpdateDelegate" \in PluginTypes
                          /\ plugins[a]["UpdateDelegate"] # NoPlugin)
  BY DEF UpdateContext, AssetContext
<1>2. Granted("Update", Held(a), x, core)
  <2>1. Effective(plugins[a], ua[a]) = Held(a)
    BY DEF Effective, Held
  <2> QED
    BY <1>1, <2>1 DEF AssetGrants
<1>3. core => s = ua[a] \/ (ua[a] \in Collections /\ s = ua[ua[a]])
  BY DEF AssetApproves, CollectionApproves, PluginOps
<1> HIDE DEF x, core
<1>4. ~Has(a, "ImmutableMetadata")
  <2>1. "ImmutableMetadata" \in Asked["Update"]
    BY DEF Asked
  <2> QED
    BY <1>2, <2>1, Veto DEF Has, Rejects, RejectsUpdate
<1>5. ASSUME NEW p \in PluginTypes, Held(a)[p] # NoPlugin,
             Approves("Update", p, Held(a)[p], x)
      PROVE  /\ Has(a, "UpdateDelegate")
             /\ DelegateOf(Held(a)["UpdateDelegate"], s, a)
             /\ ua[a] \in Collections /\ u \notin { Keep, ua[a] } =>
                  plugins[a]["UpdateDelegate"] = NoPlugin
  <2>1. /\ p = "UpdateDelegate"
        /\ IsUpdateDelegate(Held(a)[p], x)
        /\ ~(x.leaving /\ x.ownDelegate)
    BY <1>5 DEF Approves, UpdateDelegateApproves
  <2>2. DelegateOf(Held(a)[p], s, a)
    BY <1>1, <2>1, ResolvedIsHeld DEF IsUpdateDelegate, Holds, DelegateOf
  <2> QED
    BY <1>1, <1>5, <2>1, <2>2 DEF Has
<1> QED
  BY <1>2, <1>3, <1>4, <1>5, Approval

\* An asset enters and leaves collections by a hand of the collection only: its
\* own key, its update authority, or its UpdateDelegate.
THEOREM BothSidesAgree == Spec => MembershipNeedsBothSides
<1> DEFINE
      Leaves(a) ==
        \/ ix'.by \in { ua[a], ua[ua[a]] }
        \/ /\ Has(a, "UpdateDelegate")
           /\ plugins[a]["UpdateDelegate"] = NoPlugin
           /\ DelegateOf(Held(a)["UpdateDelegate"], ix'.by, a)
      Enters(c) ==
        \/ ix'.by = ua[c]
        \/ /\ Carries(plugins[c], { "UpdateDelegate" })
           /\ DelegateOf(plugins[c]["UpdateDelegate"], ix'.by, c)
      A == \A a \in Assets :
             StaysLive(a) /\ ua'[a] # ua[a] =>
               /\ ua[a] \in Collections => Leaves(a)
               /\ ua'[a] \in Collections => Enters(ua'[a])
<1>1. TypeOK /\ [Next]_vars => A
  <2> SUFFICES ASSUME TypeOK, [Next]_vars, NEW a \in Assets,
                      StaysLive(a), ua'[a] # ua[a]
               PROVE  /\ ua[a] \in Collections => Leaves(a)
                      /\ ua'[a] \in Collections => Enters(ua'[a])
    OBVIOUS
  <2>1. a \in Accounts /\ a \notin Collections /\ Live(a) /\ stage'[a] = "Live"
    BY KeysAssumption DEF Accounts, StaysLive
  <2>2. PICK s, v, u, m : Update(s, a, v, u, m)
    <3>1. ~SameCore(a)
      BY DEF SameCore
    <3>2. ASSUME NEW s, NEW o, Transfer(s, a, o) PROVE FALSE
      BY <3>2 DEF Transfer
    <3>3. ASSUME NEW s, Burn(s, a) PROVE FALSE
      BY <2>1, <3>3 DEF Burn, Close, TypeOK
    <3> QED
      BY <2>1, <3>1, <3>2, <3>3, LiveCoreChange DEF AssetChange
  <2>3. ua'[a] = u /\ u \notin { Keep, ua[a] } /\ ix'.by = s
    BY <2>1, <2>2 DEF Update, TypeOK, Record
  <2>4. AssetGrants("Update", owner[a], ua[a], plugins[a], UpdateContext(s, a, u))
    BY <2>2 DEF Update
  <2>5. ua[a] \in Collections => Leaves(a)
    BY <2>3, <2>4, UpdaterIsEntitled
  <2>6. ASSUME u \in Collections PROVE Enters(u)
    <3>1. MayReceive(s, u)
      BY <2>2, <2>6 DEF Update
    <3> QED
      BY <2>3, <3>1 DEF MayReceive, Carries, DelegateOf, HolderOf
  <2> QED
    BY <2>3, <2>5, <2>6
<1>2. TypeOK /\ [Next]_vars => [A]_vars
  BY <1>1
<1> HIDE DEF A
<1>3. Spec => [][A]_vars
  BY <1>2, TypeCorrect, PTL DEF Spec
<1> QED
  BY <1>3 DEF A, MembershipNeedsBothSides

\* Under ImmutableMetadata, of the account or of its collection, nothing changes
\* the name, the uri or the update authority.
THEOREM MetadataIsImmutable == Spec => ImmutableMetadataHolds
<1> DEFINE A == \A k \in Accounts :
       /\ StaysLive(k)
       /\ IF k \in Assets THEN Has(k, "ImmutableMetadata")
          ELSE Carries(plugins[k], { "ImmutableMetadata" })
       => meta'[k] = meta[k] /\ ua'[k] = ua[k]
<1>1. TypeOK /\ [Next]_vars => A
  <2> SUFFICES ASSUME TypeOK, [Next]_vars, NEW k \in Accounts, StaysLive(k),
                      IF k \in Assets THEN Has(k, "ImmutableMetadata")
                      ELSE Carries(plugins[k], { "ImmutableMetadata" })
               PROVE  meta'[k] = meta[k] /\ ua'[k] = ua[k]
    OBVIOUS
  <2>1. Live(k) /\ stage'[k] = "Live"
    BY DEF StaysLive
  <2>2. CASE SameCore(k)
    BY <2>2 DEF SameCore
  <2>3. ASSUME NEW s \in Signers, k \in Assets, AssetChange(s, k)
        PROVE  meta'[k] = meta[k] /\ ua'[k] = ua[k]
    <3>1. ASSUME NEW o, Transfer(s, k, o) PROVE meta' = meta /\ ua' = ua
      BY <3>1 DEF Transfer
    <3>2. ASSUME NEW v, NEW u, NEW m, Update(s, k, v, u, m) PROVE FALSE
      BY <2>3, <3>2, UpdaterIsEntitled DEF Update
    <3>3. ASSUME Burn(s, k) PROVE FALSE
      BY <2>1, <3>3 DEF Burn, Close, TypeOK
    <3> QED
      BY <2>3, <3>1, <3>2, <3>3 DEF AssetChange
  <2>4. ASSUME NEW s \in Signers, k \in Collections, CollectionChange(s, k)
        PROVE  FALSE
    <3>1. /\ "ImmutableMetadata" \in PluginTypes \cap Asked["Update"]
          /\ plugins[k]["ImmutableMetadata"] # NoPlugin
      BY <2>4, KeysAssumption DEF Carries, Asked
    <3>2. ASSUME NEW u, NEW m, UpdateCollection(s, k, u, m) PROVE FALSE
      <4>1. Granted("Update", plugins[k], CollectionContext(s, k),
                    CollectionApproves("Update", s, k, CollectionContext(s, k).target))
        BY <3>2 DEF UpdateCollection, CollectionGrants, CollectionContext
      <4> QED
        BY <3>1, <4>1, Veto DEF Rejects, RejectsUpdate
    <3>3. ASSUME BurnCollection(s, k) PROVE FALSE
      BY <2>1, <3>3 DEF BurnCollection, Close, TypeOK
    <3> QED
      BY <2>4, <3>2, <3>3 DEF CollectionChange
  <2> QED
    BY <2>1, <2>2, <2>3, <2>4, LiveCoreChange
<1>2. TypeOK /\ [Next]_vars => [A]_vars
  BY <1>1
<1> HIDE DEF A
<1>3. Spec => [][A]_vars
  BY <1>2, TypeCorrect, PTL DEF Spec
<1> QED
  BY <1>3 DEF A, ImmutableMetadataHolds

-----------------------------------------------------------------------------
(* Records *)

\* The instruction about plugin p of account k writes the record rec.
WritesRecord(s, k, p, op, rec) ==
  /\ PluginGrants(op, s, k, p, IF op \in { "AddPlugin", "UpdatePlugin" }
                               THEN rec ELSE plugins[k][p])
  /\ SetPlugin(k, p, rec) /\ ix'.op = op /\ ix'.by = s

\* The records differ in their authority at most.
Redelegated(old, new) == \E auth \in Authorities : new = [old EXCEPT !.auth = auth]

\* What becomes of a record that stands: it goes, its data is replaced, or its
\* authority is.
LEMMA RecordChange ==
  ASSUME TypeOK, NEW s, NEW k \in Accounts, NEW p \in PluginTypes,
         PluginChange(s, k, p), NEW q \in PluginTypes, plugins[k][q] # NoPlugin
  PROVE  \/ plugins'[k][q] = plugins[k][q]
         \/ /\ q = p /\ plugins'[k][q] = NoPlugin
            /\ WritesRecord(s, k, q, "RemovePlugin", NoPlugin)
         \/ /\ q = p /\ plugins'[k][q] # NoPlugin
            /\ plugins'[k][q].auth = plugins[k][q].auth
            /\ WritesRecord(s, k, q, "UpdatePlugin", plugins'[k][q])
         \/ /\ q = p /\ Redelegated(plugins[k][q], plugins'[k][q])
            /\ \E op \in { "ApprovePluginAuthority", "RevokePluginAuthority" } :
                 WritesRecord(s, k, q, op, plugins'[k][q])
<1>1. /\ plugins \in [Accounts -> PluginMaps] /\ plugins[k] \in PluginMaps
      /\ plugins[k][q] \in PluginRecord
  BY DEF TypeOK, PluginMaps
<1>2. \A rec : SetPlugin(k, p, rec) =>
        plugins'[k][q] = IF q = p THEN rec ELSE plugins[k][q]
  BY <1>1 DEF SetPlugin, PluginMaps
<1>3. ASSUME NEW rec, AddPlugin(s, k, p, rec), q = p PROVE FALSE
  BY <1>3 DEF AddPlugin
<1>4. ASSUME q = p, RemovePlugin(s, k, p)
      PROVE  plugins'[k][q] = NoPlugin /\ WritesRecord(s, k, q, "RemovePlugin", NoPlugin)
  BY <1>2, <1>4 DEF RemovePlugin, WritesRecord, PluginStep, Record
<1>5. ASSUME q = p, NEW arg \in PluginArgs(p), UpdatePlugin(s, k, p, arg)
      PROVE  /\ plugins'[k][q] # NoPlugin
             /\ plugins'[k][q].auth = plugins[k][q].auth
             /\ WritesRecord(s, k, q, "UpdatePlugin", plugins'[k][q])
  <2> DEFINE new == [arg EXCEPT !.auth = plugins[k][p].auth]
  <2>1. arg \in PluginRecord
    BY PluginArgsType
  <2>2. new \in PluginRecord /\ new.auth = plugins[k][p].auth
    BY <1>1, <1>5, <2>1 DEF PluginRecord
  <2>3. /\ PluginGrants("UpdatePlugin", s, k, p, new) /\ SetPlugin(k, p, new)
        /\ ix'.op = "UpdatePlugin" /\ ix'.by = s
    BY <1>5 DEF UpdatePlugin, PluginStep, Record
  <2> HIDE DEF new
  <2>4. plugins'[k][q] = new
    BY <1>2, <1>5, <2>3
  <2> QED
    BY <1>5, <2>2, <2>3, <2>4, NoPluginAssumption DEF WritesRecord
<1>6. ASSUME q = p, NEW auth, ApprovePluginAuthority(s, k, p, auth)
      PROVE  /\ plugins'[k][q] = [plugins[k][q] EXCEPT !.auth = auth]
             /\ WritesRecord(s, k, q, "ApprovePluginAuthority", plugins'[k][q])
  BY <1>2, <1>6 DEF ApprovePluginAuthority, WritesRecord, PluginStep, Record
<1>7. ASSUME q = p, RevokePluginAuthority(s, k, p)
      PROVE  /\ plugins'[k][q] = [plugins[k][q] EXCEPT !.auth = Manager(p)]
             /\ WritesRecord(s, k, q, "RevokePluginAuthority", plugins'[k][q])
  BY <1>2, <1>7 DEF RevokePluginAuthority, WritesRecord, PluginStep, Record
<1>8. CASE q # p
  <2>1. \E rec : SetPlugin(k, p, rec)
    BY DEF PluginChange, AddPlugin, RemovePlugin, UpdatePlugin,
         ApprovePluginAuthority, RevokePluginAuthority
  <2> QED
    BY <1>2, <1>8, <2>1
<1>9. CASE q = p
  <2>1. AuthorityArgs \subseteq Authorities /\ Manager(p) \in Authorities
    BY ArgsAssumption, ManagerType
  <2> QED
    BY <1>3, <1>4, <1>5, <1>6, <1>7, <1>9, <2>1 DEF PluginChange, Redelegated
<1> QED
  BY <1>8, <1>9

\* A frozen record refuses its own removal.
LEMMA FrozenIsNotRemoved ==
  ASSUME NEW s, NEW k \in Accounts, NEW p \in PluginTypes \cap FreezeTypes,
         plugins[k][p] # NoPlugin, plugins[k][p].frozen
  PROVE  ~WritesRecord(s, k, p, "RemovePlugin", NoPlugin)
<1> SUFFICES ASSUME PluginGrants("RemovePlugin", s, k, p, plugins[k][p])
             PROVE  FALSE
  BY DEF WritesRecord
<1>1. p \in PluginTypes \cap Asked["RemovePlugin"]
  BY PluginTypesAssumption DEF Asked
<1>2. ~RejectsRemove(p, plugins[k][p], PluginContext(s, k, p, plugins[k][p]))
  BY <1>1, OwnRecordCounts, PluginVeto DEF Rejects
<1> QED
  BY <1>2, PluginContextFields DEF RejectsRemove, FreezeTypes

\* The data of a record is replaced by its holder, or by an UpdateDelegate.
LEMMA UpdateOfRecord ==
  ASSUME NEW s, NEW k \in Accounts, NEW p \in PluginTypes,
         plugins[k][p] # NoPlugin, NEW new, WritesRecord(s, k, p, "UpdatePlugin", new)
  PROVE  \/ HolderOf(plugins[k][p], s, k)
         \/ p # "UpdateDelegate" /\ new.auth = "UpdateAuthority"
         \/ p = "UpdateDelegate" /\ new.delegates \subseteq plugins[k][p].delegates
<1> DEFINE x == PluginContext(s, k, p, new)
<1>1. x.target = p /\ x.new = new /\ \A rec : Holds(rec, x) => HolderOf(rec, s, k)
  BY PluginContextOf
<1>2. PluginGrants("UpdatePlugin", s, k, p, new)
  BY DEF WritesRecord
<1>3. PICK q \in PluginTypes :
        Counted(k)[q] # NoPlugin /\ Approves("UpdatePlugin", q, Counted(k)[q], x)
  <2>1. "UpdatePlugin" \notin PluginOps
    BY DEF PluginOps
  <2> QED
    BY <1>2, <2>1, PluginApproval
<1> HIDE DEF x
<1>4. CASE q = x.target /\ Holds(Counted(k)[q], x)
  BY <1>1, <1>4, OwnRecordCounts
<1>5. CASE q = "UpdateDelegate" /\ MayUpdatePlugin(Counted(k)[q], x)
  BY <1>1, <1>5, OwnRecordCounts DEF MayUpdatePlugin
<1> QED
  BY <1>3, <1>4, <1>5 DEF Approves, UpdateDelegateApproves

\* A frozen plugin neither goes nor thaws but by an update of its holder, or of
\* an UpdateDelegate that stands in for the update authority.
THEOREM HolderThaws == Spec => OnlyTheHolderThaws
<1> DEFINE A == \A k \in Accounts, p \in PluginTypes \cap FreezeTypes :
       StaysLive(k) /\ plugins[k][p] # NoPlugin /\ plugins[k][p].frozen =>
         /\ plugins'[k][p] # NoPlugin
         /\ ~plugins'[k][p].frozen =>
              /\ ix'.op = "UpdatePlugin"
              /\ \/ HolderOf(plugins[k][p], ix'.by, k)
                 \/ plugins[k][p].auth = "UpdateAuthority"
<1>1. TypeOK /\ [Next]_vars => A
  <2> DEFINE Thaws(k, p) ==
        /\ plugins'[k][p] # NoPlugin
        /\ ~plugins'[k][p].frozen =>
             /\ ix'.op = "UpdatePlugin"
             /\ \/ HolderOf(plugins[k][p], ix'.by, k)
                \/ plugins[k][p].auth = "UpdateAuthority"
  <2> SUFFICES ASSUME TypeOK, [Next]_vars, NEW k \in Accounts,
                      NEW p \in PluginTypes \cap FreezeTypes, StaysLive(k),
                      plugins[k][p] # NoPlugin, plugins[k][p].frozen
               PROVE  Thaws(k, p)
    OBVIOUS
  <2>1. Live(k) /\ stage'[k] = "Live"
    BY DEF StaysLive
  <2>2. plugins[k][p] \in PluginRecord
    BY DEF TypeOK, PluginMaps
  <2>3. \A auth \in Authorities : [plugins[k][p] EXCEPT !.auth = auth] # NoPlugin
    BY <2>2, NoPluginAssumption DEF PluginRecord
  <2>4. \A auth : [plugins[k][p] EXCEPT !.auth = auth].frozen
    BY <2>2 DEF PluginRecord
  <2>5. CASE plugins'[k][p] = plugins[k][p]
    BY <2>5
  <2>6. CASE plugins'[k] = ResetOwnerManaged(plugins[k])
    BY <2>3, <2>4, <2>6 DEF ResetOwnerManaged, Authorities
  <2>7. ASSUME NEW s \in Signers, NEW q \in PluginTypes, PluginChange(s, k, q)
        PROVE  Thaws(k, p)
    <3>1. CASE WritesRecord(s, k, p, "RemovePlugin", NoPlugin)
      BY <3>1, FrozenIsNotRemoved
    <3>2. CASE /\ plugins'[k][p] # NoPlugin
               /\ plugins'[k][p].auth = plugins[k][p].auth
               /\ WritesRecord(s, k, p, "UpdatePlugin", plugins'[k][p])
      <4>1. ix'.op = "UpdatePlugin" /\ ix'.by = s
        BY <3>2 DEF WritesRecord
      <4>2. p # "UpdateDelegate"
        BY DEF FreezeTypes
      <4> QED
        BY <3>2, <4>1, <4>2, UpdateOfRecord
    <3>3. CASE Redelegated(plugins[k][p], plugins'[k][p])
      BY <2>3, <2>4, <3>3 DEF Redelegated
    <3>4. \/ plugins'[k][p] = plugins[k][p]
          \/ WritesRecord(s, k, p, "RemovePlugin", NoPlugin)
          \/ /\ plugins'[k][p] # NoPlugin
             /\ plugins'[k][p].auth = plugins[k][p].auth
             /\ WritesRecord(s, k, p, "UpdatePlugin", plugins'[k][p])
          \/ Redelegated(plugins[k][p], plugins'[k][p])
      BY <2>7, RecordChange
    <3> HIDE DEF Thaws
    <3> QED
      BY <2>5, <3>1, <3>2, <3>3, <3>4
  <2> QED
    BY <2>1, <2>5, <2>6, <2>7, LivePluginsChange
<1>2. TypeOK /\ [Next]_vars => [A]_vars
  BY <1>1
<1> HIDE DEF A
<1>3. Spec => [][A]_vars
  BY <1>2, TypeCorrect, PTL DEF Spec
<1> QED
  BY <1>3 DEF A, OnlyTheHolderThaws

-----------------------------------------------------------------------------
(* The UpdateDelegate plugin *)

\* The holder of a plugin of the update authority.
HasAuthorityOver(s, k) == HolderOf([auth |-> "UpdateAuthority"], s, k)

\* The authority of an UpdateDelegate is replaced by who has it, or by the
\* update authority.
LEMMA RedelegationOfDelegate ==
  ASSUME NEW s, NEW k \in Accounts, "UpdateDelegate" \in PluginTypes,
         plugins[k]["UpdateDelegate"] # NoPlugin, NEW rec,
         NEW op \in { "ApprovePluginAuthority", "RevokePluginAuthority" },
         WritesRecord(s, k, "UpdateDelegate", op, rec)
  PROVE  \/ HolderOf(plugins[k]["UpdateDelegate"], s, k)
         \/ HasAuthorityOver(s, k)
<1> DEFINE ud == "UpdateDelegate"
           x == PluginContext(s, k, ud, plugins[k][ud])
<1>1. /\ x.target = ud /\ x.signer = s
      /\ \A r : Holds(r, x) => HolderOf(r, s, k)
  BY PluginContextOf
<1>2. PluginGrants(op, s, k, ud, plugins[k][ud])
  BY DEF WritesRecord
<1>3. /\ op \in PluginOps /\ Manager(ud) = "UpdateAuthority"
      /\ Counted(k)[ud] = plugins[k][ud]
  BY OwnRecordCounts DEF PluginOps, Manager, OwnerManaged
<1> HIDE DEF x, ud
<1>4. \/ s = AuthorityOver(k)
      \/ \E q \in PluginTypes :
           Counted(k)[q] # NoPlugin /\ Approves(op, q, Counted(k)[q], x)
  BY <1>2, <1>3, PluginApproval DEF x
<1>5. CASE s = AuthorityOver(k)
  BY <1>5 DEF HasAuthorityOver, HolderOf
<1>6. ASSUME NEW q \in PluginTypes, Approves(op, q, Counted(k)[q], x)
      PROVE  HolderOf(plugins[k][ud], s, k)
  <2>1. CASE q = x.target /\ Holds(Counted(k)[q], x)
    BY <1>1, <1>3, <2>1
  <2>2. CASE q = ud /\ UpdateDelegateApproves(op, Counted(k)[q], x)
    BY <1>1, <1>3, <2>2 DEF UpdateDelegateApproves, MayRevoke, ud
  <2> QED
    BY <1>6, <2>1, <2>2 DEF Approves, ud
<1> QED
  BY <1>4, <1>5, <1>6 DEF ud

\* What may become of an UpdateDelegate record, by the hand of s.
NotSeized(old, new, s, k) ==
  old # NoPlugin /\ new # NoPlugin =>
    /\ new.auth # old.auth =>
         \/ HolderOf(old, s, k)
         \/ HolderOf([old EXCEPT !.auth = "UpdateAuthority"], s, k)
    /\ ~(new.delegates \subseteq old.delegates) => HolderOf(old, s, k)

LEMMA SameHolder ==
  ASSUME NEW old \in PluginRecord, NEW s, NEW k, HasAuthorityOver(s, k)
  PROVE  HolderOf([old EXCEPT !.auth = "UpdateAuthority"], s, k)
<1>1. [old EXCEPT !.auth = "UpdateAuthority"].auth = "UpdateAuthority"
  BY DEF PluginRecord
<1> QED
  BY <1>1 DEF HasAuthorityOver, HolderOf

\* An UpdateDelegate keeps its authority until who has it or the update
\* authority gives it away, and gets no delegate but from who has it.
THEOREM DelegateKeepsOut == Spec => UpdateDelegateIsNotSeized
<1> DEFINE
      A == \A k \in Accounts :
             StaysLive(k) /\ "UpdateDelegate" \in PluginTypes =>
               NotSeized(plugins[k]["UpdateDelegate"], plugins'[k]["UpdateDelegate"],
                         ix'.by, k)
<1>1. TypeOK /\ [Next]_vars => A
  <2> DEFINE ud == "UpdateDelegate"
  <2> SUFFICES ASSUME TypeOK, [Next]_vars, NEW k \in Accounts, StaysLive(k),
                      ud \in PluginTypes, plugins[k][ud] # NoPlugin
               PROVE  NotSeized(plugins[k][ud], plugins'[k][ud], ix'.by, k)
    BY DEF NotSeized
  <2>1. Live(k) /\ stage'[k] = "Live"
    BY DEF StaysLive
  <2>2. plugins[k][ud] \in PluginRecord
    BY DEF TypeOK, PluginMaps
  <2>3. CASE plugins'[k][ud] = plugins[k][ud]
    BY <2>3 DEF NotSeized
  <2>4. CASE plugins'[k] = ResetOwnerManaged(plugins[k])
    BY <2>3, <2>4 DEF ResetOwnerManaged, OwnerManaged
  <2>5. ASSUME NEW s \in Signers, NEW q \in PluginTypes, PluginChange(s, k, q)
        PROVE  NotSeized(plugins[k][ud], plugins'[k][ud], ix'.by, k)
    <3>1. CASE plugins'[k][ud] = NoPlugin
      BY <3>1 DEF NotSeized
    <3>2. CASE /\ plugins'[k][ud].auth = plugins[k][ud].auth
               /\ WritesRecord(s, k, ud, "UpdatePlugin", plugins'[k][ud])
      <4>1. ix'.by = s
        BY <3>2 DEF WritesRecord
      <4>2. \/ HolderOf(plugins[k][ud], s, k)
            \/ plugins'[k][ud].delegates \subseteq plugins[k][ud].delegates
        BY <3>2, UpdateOfRecord
      <4> QED
        BY <3>2, <4>1, <4>2 DEF NotSeized
    <3>3. CASE /\ Redelegated(plugins[k][ud], plugins'[k][ud])
               /\ \E op \in { "ApprovePluginAuthority", "RevokePluginAuthority" } :
                    WritesRecord(s, k, ud, op, plugins'[k][ud])
      <4>1. ix'.by = s
        BY <3>3 DEF WritesRecord
      <4>2. plugins'[k][ud].delegates = plugins[k][ud].delegates
        BY <2>2, <3>3 DEF Redelegated, PluginRecord
      <4>3. \/ HolderOf(plugins[k][ud], s, k)
            \/ HolderOf([plugins[k][ud] EXCEPT !.auth = "UpdateAuthority"], s, k)
        BY <2>2, <3>3, RedelegationOfDelegate, SameHolder
      <4> QED
        BY <4>1, <4>2, <4>3 DEF NotSeized
    <3>4. \/ plugins'[k][ud] = plugins[k][ud]
          \/ plugins'[k][ud] = NoPlugin
          \/ /\ plugins'[k][ud].auth = plugins[k][ud].auth
             /\ WritesRecord(s, k, ud, "UpdatePlugin", plugins'[k][ud])
          \/ /\ Redelegated(plugins[k][ud], plugins'[k][ud])
             /\ \E op \in { "ApprovePluginAuthority", "RevokePluginAuthority" } :
                  WritesRecord(s, k, ud, op, plugins'[k][ud])
      BY <2>5, RecordChange
    <3> QED
      BY <2>3, <3>1, <3>2, <3>3, <3>4
  <2> QED
    BY <2>1, <2>3, <2>4, <2>5, LivePluginsChange
<1>2. TypeOK /\ [Next]_vars => [A]_vars
  BY <1>1
<1> HIDE DEF A
<1>3. Spec => [][A]_vars
  BY <1>2, TypeCorrect, PTL DEF Spec
<1> QED
  BY <1>3 DEF A, NotSeized, UpdateDelegateIsNotSeized

=============================================================================
