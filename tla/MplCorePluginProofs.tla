------------------------- MODULE MplCorePluginProofs -------------------------
(***************************************************************************)
(* Which plugins an account carries: what validators refuse stays out,     *)
(* what they hold stays in.  The argument is the same throughout: an       *)
(* instruction other than a transfer or a burn cannot be forced, so every  *)
(* validator that is asked has a veto.                                     *)
(***************************************************************************)
EXTENDS MplCoreProofs

\* The five plugin instructions about plugin p of account k.
PluginChange(s, k, p) ==
  \/ \E rec \in PluginArgs(p) : AddPlugin(s, k, p, rec)
  \/ RemovePlugin(s, k, p)
  \/ \E arg \in PluginArgs(p) : UpdatePlugin(s, k, p, arg)
  \/ \E auth \in AuthorityArgs : ApprovePluginAuthority(s, k, p, auth)
  \/ RevokePluginAuthority(s, k, p)

\* What an account that stays live can go through.
LEMMA LivePluginsChange ==
  ASSUME TypeOK, [Next]_vars, NEW k \in Accounts, Live(k), stage'[k] = "Live"
  PROVE  \/ plugins'[k] = plugins[k]
         \/ plugins'[k] = ResetOwnerManaged(plugins[k]) /\ k \in Assets
         \/ \E s \in Signers, p \in PluginTypes : PluginChange(s, k, p)
<1> DEFINE Goal ==
      \/ plugins'[k] = plugins[k]
      \/ plugins'[k] = ResetOwnerManaged(plugins[k]) /\ k \in Assets
      \/ \E s \in Signers, p \in PluginTypes : PluginChange(s, k, p)
<1>1. CASE UNCHANGED vars
  BY <1>1 DEF vars
<1>2. ASSUME NEW s \in Signers, NEW j \in Accounts,
             NEW types \in SUBSET PluginTypes, PluginInstruction(s, j, types)
      PROVE  Goal
  <2>1. CASE j = k
    BY <1>2, <2>1 DEF PluginInstruction, PluginChange
  <2>2. CASE j # k
    <3>1. PICK p \in types, rec \in PluginRecord \cup { NoPlugin } :
            SetPlugin(j, p, rec)
      BY <1>2, PluginInstructionWritesOneRecord
    <3>2. plugins'[k] = plugins[k]
      BY <2>2, <3>1 DEF SetPlugin, TypeOK
    <3> QED
      BY <3>2
  <2> QED
    BY <2>1, <2>2
<1>3. ASSUME NEW s \in Signers, NEW a \in Assets, AssetInstruction(s, a)
      PROVE  Goal
  <2>1. a \in Accounts /\ AssetTypes \in SUBSET PluginTypes
    BY ArgsAssumption DEF Accounts
  <2>2. ASSUME NEW o, NEW u, NEW pl, NEW m, CreateV2(s, a, o, u, pl, m)
        PROVE  Goal
    BY <2>1, <2>2 DEF CreateV2, TypeOK, Live
  <2>3. ASSUME NEW o, Transfer(s, a, o) PROVE Goal
    BY <2>1, <2>3 DEF Transfer, TypeOK
  <2>4. ASSUME NEW v, NEW u, NEW m, Update(s, a, v, u, m) PROVE Goal
    BY <2>4 DEF Update
  <2>5. ASSUME Burn(s, a) PROVE Goal
    BY <2>1, <2>5 DEF Burn, Close, TypeOK
  <2> QED
    BY <1>2, <1>3, <2>1, <2>2, <2>3, <2>4, <2>5 DEF AssetInstruction
<1>4. ASSUME NEW s \in Signers, NEW c \in Collections,
             CollectionInstruction(s, c)
      PROVE  Goal
  <2>1. c \in Accounts /\ CollectionTypes \in SUBSET PluginTypes
    BY ArgsAssumption DEF Accounts
  <2>2. ASSUME NEW u, NEW pl, NEW m, CreateCollectionV2(s, c, u, pl, m)
        PROVE  Goal
    BY <2>1, <2>2 DEF CreateCollectionV2, TypeOK, Live
  <2>3. ASSUME NEW u, NEW m, UpdateCollection(s, c, u, m) PROVE Goal
    BY <2>3 DEF UpdateCollection
  <2>4. ASSUME BurnCollection(s, c) PROVE Goal
    BY <2>1, <2>4 DEF BurnCollection, Close, TypeOK
  <2> QED
    BY <1>2, <1>4, <2>1, <2>2, <2>3, <2>4 DEF CollectionInstruction
<1>5. ASSUME NEW c, NEW type, NEW amount, UpdateCollectionInfo(c, type, amount)
      PROVE  Goal
  BY <1>5 DEF UpdateCollectionInfo
<1> QED
  BY <1>1, <1>3, <1>4, <1>5 DEF Next

\* A record that was not there came by add_plugin, one that is gone went by
\* remove_plugin: the other instructions only rewrite a record.
LEMMA ArrivalsAndDepartures ==
  ASSUME TypeOK, NEW s, NEW k \in Accounts, NEW p \in PluginTypes,
         PluginChange(s, k, p), NEW q \in PluginTypes
  PROVE  /\ plugins[k][q] = NoPlugin /\ plugins'[k][q] # NoPlugin =>
              q = p /\ \E rec \in PluginArgs(p) : AddPlugin(s, k, p, rec)
         /\ plugins[k][q] # NoPlugin /\ plugins'[k][q] = NoPlugin =>
              q = p /\ RemovePlugin(s, k, p)
<1> DEFINE Goal ==
      /\ plugins[k][q] = NoPlugin /\ plugins'[k][q] # NoPlugin =>
           q = p /\ \E rec \in PluginArgs(p) : AddPlugin(s, k, p, rec)
      /\ plugins[k][q] # NoPlugin /\ plugins'[k][q] = NoPlugin =>
           q = p /\ RemovePlugin(s, k, p)
<1>1. ASSUME NEW rec, SetPlugin(k, p, rec)
      PROVE  plugins'[k] = [plugins[k] EXCEPT ![p] = rec]
  BY <1>1 DEF SetPlugin, TypeOK
<1>2. plugins[k] \in PluginMaps
  BY DEF TypeOK
<1>3. ASSUME NEW rec, SetPlugin(k, p, rec)
      PROVE  plugins'[k][q] = IF q = p THEN rec ELSE plugins[k][q]
  BY <1>1, <1>2, <1>3 DEF PluginMaps
<1>4. plugins[k][p] # NoPlugin => plugins[k][p] \in PluginRecord
  BY <1>2 DEF PluginMaps
<1>5. ASSUME NEW rec \in PluginArgs(p), AddPlugin(s, k, p, rec) PROVE Goal
  <2>1. rec # NoPlugin
    BY PluginArgsType, NoPluginAssumption
  <2> QED
    BY <1>3, <1>5, <2>1 DEF AddPlugin
<1>6. ASSUME RemovePlugin(s, k, p) PROVE Goal
  BY <1>3, <1>6 DEF RemovePlugin
<1>7. ASSUME NEW arg \in PluginArgs(p), UpdatePlugin(s, k, p, arg) PROVE Goal
  <2>1. [arg EXCEPT !.auth = plugins[k][p].auth] \in PluginRecord
    BY <1>4, <1>7, PluginArgsType DEF UpdatePlugin, PluginRecord
  <2>2. [arg EXCEPT !.auth = plugins[k][p].auth] # NoPlugin
    BY <2>1, NoPluginAssumption
  <2> QED
    BY <1>3, <1>7, <2>2 DEF UpdatePlugin
<1>8. ASSUME NEW auth \in AuthorityArgs, ApprovePluginAuthority(s, k, p, auth)
      PROVE  Goal
  <2>1. [plugins[k][p] EXCEPT !.auth = auth] \in PluginRecord
    BY <1>4, <1>8, ArgsAssumption DEF ApprovePluginAuthority, PluginRecord
  <2>2. [plugins[k][p] EXCEPT !.auth = auth] # NoPlugin
    BY <2>1, NoPluginAssumption
  <2> QED
    BY <1>3, <1>8, <2>2 DEF ApprovePluginAuthority
<1>9. ASSUME RevokePluginAuthority(s, k, p) PROVE Goal
  <2>1. [plugins[k][p] EXCEPT !.auth = Manager(p)] \in PluginRecord
    BY <1>4, <1>9, ManagerType DEF RevokePluginAuthority, PluginRecord
  <2>2. [plugins[k][p] EXCEPT !.auth = Manager(p)] # NoPlugin
    BY <2>1, NoPluginAssumption
  <2> QED
    BY <1>3, <1>9, <2>2 DEF RevokePluginAuthority
<1> QED
  BY <1>5, <1>6, <1>7, <1>8, <1>9 DEF PluginChange

-----------------------------------------------------------------------------
(* Vetoes *)

\* The context of an instruction about plugin p of account k.
PluginContext(s, k, p, new) ==
  IF k \in Assets
  THEN [AssetContext(s, owner[k], ua[k]) EXCEPT !.target = p, !.new = new]
  ELSE [CollectionContext(s, k) EXCEPT !.target = p, !.new = new]

LEMMA PluginContextFields ==
  ASSUME NEW s, NEW k, NEW p, NEW new
  PROVE  /\ PluginContext(s, k, p, new).target = p
         /\ k \notin Assets => ~PluginContext(s, k, p, new).onAsset
<1>1. CASE k \in Assets
  BY <1>1 DEF PluginContext, AssetContext
<1>2. CASE k \notin Assets
  BY <1>2 DEF PluginContext, CollectionContext
<1> QED
  BY <1>1, <1>2

\* Nothing but a transfer or a burn is forced, so whoever is asked has a veto.
LEMMA Veto ==
  ASSUME NEW op, op \notin { "Transfer", "Burn" }, NEW held, NEW x, NEW core,
         Granted(op, held, x, core),
         NEW p \in PluginTypes \cap Asked[op], held[p] # NoPlugin
  PROVE  ~Rejects(op, p, held[p], x)
  BY DEF Granted, Forces

\* The records that count for account k.
Counted(k) == IF k \in Assets THEN Held(k) ELSE plugins[k]

LEMMA OwnRecordCounts ==
  ASSUME NEW k, NEW q \in PluginTypes, plugins[k][q] # NoPlugin
  PROVE  Counted(k)[q] = plugins[k][q]
  BY DEF Counted, Held

LEMMA PluginVeto ==
  ASSUME NEW op, op \notin { "Transfer", "Burn" }, NEW s, NEW k, NEW p, NEW new,
         PluginGrants(op, s, k, p, new),
         NEW q \in PluginTypes \cap Asked[op], Counted(k)[q] # NoPlugin
  PROVE  ~Rejects(op, q, Counted(k)[q], PluginContext(s, k, p, new))
<1>1. \E core : Granted(op, Counted(k), PluginContext(s, k, p, new), core)
  <2>1. CASE k \in Assets
    <3>1. Effective(plugins[k], ua[k]) = Counted(k)
      BY <2>1 DEF Counted, Held, Effective
    <3> QED
      BY <2>1, <3>1 DEF PluginGrants, AssetGrants, PluginContext
  <2>2. CASE k \notin Assets
    BY <2>2 DEF PluginGrants, CollectionGrants, PluginContext, Counted
  <2> QED
    BY <2>1, <2>2
<1> QED
  BY <1>1, Veto

\* A type that is only born is never added: it is asked about itself first.
LEMMA BornOnlyNeverAdded ==
  ASSUME TypeOK, [Next]_vars, NEW k \in Accounts, Live(k), stage'[k] = "Live",
         NEW q \in PluginTypes \cap BornOnly, plugins[k][q] = NoPlugin
  PROVE  plugins'[k][q] = NoPlugin
<1>1. CASE plugins'[k] = plugins[k]
  BY <1>1
<1>2. CASE plugins'[k] = ResetOwnerManaged(plugins[k])
  BY <1>2 DEF ResetOwnerManaged
<1>3. ASSUME NEW s \in Signers, NEW p \in PluginTypes, PluginChange(s, k, p)
      PROVE  plugins'[k][q] = NoPlugin
  <2>1. ASSUME NEW rec, AddPlugin(s, k, q, rec) PROVE FALSE
    BY <2>1 DEF AddPlugin, RejectsAdd
  <2> QED
    BY <1>3, <2>1, ArrivalsAndDepartures
<1> QED
  BY <1>1, <1>2, <1>3, LivePluginsChange

\* Edition and BubblegumV2 refuse their own removal.
LEMMA LifelongNeverRemoved ==
  ASSUME TypeOK, [Next]_vars, NEW k \in Accounts, Live(k), stage'[k] = "Live",
         NEW q \in PluginTypes \cap { "Edition", "BubblegumV2" },
         plugins[k][q] # NoPlugin
  PROVE  plugins'[k][q] # NoPlugin
<1>1. plugins[k] \in PluginMaps /\ plugins[k][q] \in PluginRecord
  BY DEF TypeOK, PluginMaps
<1>2. CASE plugins'[k] = plugins[k]
  BY <1>2
<1>3. CASE plugins'[k] = ResetOwnerManaged(plugins[k])
  BY <1>3 DEF ResetOwnerManaged, OwnerManaged
<1>4. ASSUME NEW s \in Signers, NEW p \in PluginTypes, PluginChange(s, k, p)
      PROVE  plugins'[k][q] # NoPlugin
  <2>1. ASSUME RemovePlugin(s, k, q) PROVE FALSE
    <3>1. PluginGrants("RemovePlugin", s, k, q, plugins[k][q])
      BY <2>1 DEF RemovePlugin
    <3>2. q \in PluginTypes \cap Asked["RemovePlugin"]
      BY PluginTypesAssumption DEF Asked
    <3>3. ~Rejects("RemovePlugin", q, plugins[k][q],
                   PluginContext(s, k, q, plugins[k][q]))
      BY <3>1, <3>2, OwnRecordCounts, PluginVeto
    <3> QED
      BY <3>3, PluginContextFields DEF Rejects, RejectsRemove
  <2> QED
    BY <1>4, <2>1, ArrivalsAndDepartures
<1> QED
  BY <1>2, <1>3, <1>4, LivePluginsChange

\* Edition and BubblegumV2 are for life: an account has one from its birth to
\* its burn or never has one.
THEOREM LifelongStay == Spec => LifelongPluginsStay
<1> DEFINE A == \A k \in Accounts, p \in PluginTypes \cap { "Edition", "BubblegumV2" } :
       StaysLive(k) => (plugins'[k][p] = NoPlugin <=> plugins[k][p] = NoPlugin)
<1>1. TypeOK /\ [Next]_vars => A
  <2> SUFFICES ASSUME TypeOK, [Next]_vars, NEW k \in Accounts,
                      NEW p \in PluginTypes \cap { "Edition", "BubblegumV2" },
                      StaysLive(k)
               PROVE  plugins'[k][p] = NoPlugin <=> plugins[k][p] = NoPlugin
    OBVIOUS
  <2>1. Live(k) /\ stage'[k] = "Live" /\ p \in PluginTypes \cap BornOnly
    BY DEF StaysLive, BornOnly
  <2> QED
    BY <2>1, BornOnlyNeverAdded, LifelongNeverRemoved
<1>2. TypeOK /\ [Next]_vars => [A]_vars
  BY <1>1
<1> HIDE DEF A
<1>3. Spec => [][A]_vars
  BY <1>2, TypeCorrect, PTL DEF Spec
<1> QED
  BY <1>3 DEF A, LifelongPluginsStay

-----------------------------------------------------------------------------
(* AddBlocker *)

\* While an AddBlocker counts for an account, no plugin that its owner does not
\* manage is added to it, but AddBlocker itself.
THEOREM AddBlockerKeepsOut == Spec => AddBlockerHolds
<1> DEFINE
      A == \A k \in Accounts, p \in PluginTypes \ (OwnerManaged \cup { "AddBlocker" }) :
             /\ StaysLive(k)
             /\ IF k \in Assets THEN Has(k, "AddBlocker")
                ELSE Carries(plugins[k], { "AddBlocker" })
             => (plugins'[k][p] # NoPlugin => plugins[k][p] # NoPlugin)
<1>1. TypeOK /\ [Next]_vars => A
  <2> SUFFICES ASSUME TypeOK, [Next]_vars, NEW k \in Accounts,
                      NEW p \in PluginTypes \ (OwnerManaged \cup { "AddBlocker" }),
                      StaysLive(k),
                      IF k \in Assets THEN Has(k, "AddBlocker")
                      ELSE Carries(plugins[k], { "AddBlocker" }),
                      plugins[k][p] = NoPlugin
               PROVE  plugins'[k][p] = NoPlugin
    OBVIOUS
  <2>1. Live(k) /\ stage'[k] = "Live"
    BY DEF StaysLive
  <2>2. "AddBlocker" \in PluginTypes /\ Counted(k)["AddBlocker"] # NoPlugin
    BY DEF Has, Carries, Counted
  <2>3. CASE plugins'[k] = plugins[k]
    BY <2>3
  <2>4. CASE plugins'[k] = ResetOwnerManaged(plugins[k])
    BY <2>4 DEF ResetOwnerManaged
  <2>5. ASSUME NEW s \in Signers, NEW q \in PluginTypes, PluginChange(s, k, q)
        PROVE  plugins'[k][p] = NoPlugin
    <3>1. ASSUME NEW rec, AddPlugin(s, k, p, rec) PROVE FALSE
      <4>1. PluginGrants("AddPlugin", s, k, p, rec)
        BY <3>1 DEF AddPlugin
      <4>2. "AddBlocker" \in PluginTypes \cap Asked["AddPlugin"]
        BY <2>2 DEF Asked
      <4>3. ~RejectsAdd("AddBlocker", PluginContext(s, k, p, rec))
        BY <2>2, <4>1, <4>2, PluginVeto DEF Rejects
      <4>4. Manager(p) # "Owner"
        BY DEF Manager
      <4> QED
        BY <4>3, <4>4, PluginContextFields DEF RejectsAdd
    <3> QED
      BY <2>5, <3>1, ArrivalsAndDepartures
  <2> QED
    BY <2>1, <2>3, <2>4, <2>5, LivePluginsChange
<1>2. TypeOK /\ [Next]_vars => [A]_vars
  BY <1>1
<1> HIDE DEF A
<1>3. Spec => [][A]_vars
  BY <1>2, TypeCorrect, PTL DEF Spec
<1> QED
  BY <1>3 DEF A, AddBlockerHolds

-----------------------------------------------------------------------------
(* Permanent delegates *)

\* An asset never refers to a collection that was not created: it would get
\* the plugins that collection is born with.
MembersFounded ==
  \A a \in Assets : Live(a) /\ ua[a] \in Collections => stage[ua[a]] # "Free"

\* Where the update authority of a live asset comes from.
LEMMA NewAuthority ==
  ASSUME TypeOK, [Next]_vars, NEW a \in Assets, stage'[a] = "Live"
  PROVE  \/ Live(a) /\ ua'[a] = ua[a]
         \/ /\ Live(a) /\ plugins' = plugins
            /\ ua'[a] \in Collections =>
                 /\ Live(ua'[a]) /\ ~Carries(plugins[ua'[a]], PermanentDelegates)
         \/ stage[a] = "Free" /\ (ua'[a] \in Collections => Live(ua'[a]))
<1> DEFINE Goal ==
      \/ Live(a) /\ ua'[a] = ua[a]
      \/ /\ Live(a) /\ plugins' = plugins
         /\ ua'[a] \in Collections =>
              /\ Live(ua'[a]) /\ ~Carries(plugins[ua'[a]], PermanentDelegates)
      \/ stage[a] = "Free" /\ (ua'[a] \in Collections => Live(ua'[a]))
<1> USE DEF Live
<1>1. a \in Accounts /\ a \notin Collections
  BY KeysAssumption DEF Accounts
<1>2. CASE UNCHANGED vars
  BY <1>2 DEF vars
<1>3. ASSUME NEW s \in Signers, NEW j \in Accounts,
             NEW types \in SUBSET PluginTypes, PluginInstruction(s, j, types)
      PROVE  Goal
  BY <1>3, PluginInstructionWritesOneRecord
<1>4. ASSUME NEW s \in Signers, NEW b \in Assets, AssetInstruction(s, b)
      PROVE  Goal
  <2>1. b \in Accounts /\ AssetTypes \in SUBSET PluginTypes
    BY ArgsAssumption DEF Accounts
  <2>2. ASSUME NEW o, NEW u, NEW pl, NEW m, CreateV2(s, b, o, u, pl, m)
        PROVE  Goal
    BY <1>1, <2>1, <2>2 DEF CreateV2, TypeOK
  <2>3. ASSUME NEW o, Transfer(s, b, o) PROVE Goal
    BY <2>3 DEF Transfer
  <2>4. ASSUME NEW v, NEW u, NEW m, Update(s, b, v, u, m) PROVE Goal
    BY <1>1, <2>1, <2>4 DEF Update, TypeOK
  <2>5. ASSUME Burn(s, b) PROVE Goal
    BY <1>1, <2>1, <2>5 DEF Burn, Close, TypeOK
  <2> QED
    BY <1>3, <1>4, <2>1, <2>2, <2>3, <2>4, <2>5 DEF AssetInstruction
<1>5. ASSUME NEW s \in Signers, NEW c \in Collections,
             CollectionInstruction(s, c)
      PROVE  Goal
  <2>1. c \in Accounts /\ c # a /\ CollectionTypes \in SUBSET PluginTypes
    BY <1>1, ArgsAssumption DEF Accounts
  <2>2. ASSUME NEW u, NEW pl, NEW m, CreateCollectionV2(s, c, u, pl, m)
        PROVE  Goal
    BY <1>1, <2>1, <2>2 DEF CreateCollectionV2, TypeOK
  <2>3. ASSUME NEW u, NEW m, UpdateCollection(s, c, u, m) PROVE Goal
    BY <1>1, <2>1, <2>3 DEF UpdateCollection, TypeOK
  <2>4. ASSUME BurnCollection(s, c) PROVE Goal
    BY <1>1, <2>1, <2>4 DEF BurnCollection, Close, TypeOK
  <2> QED
    BY <1>3, <1>5, <2>1, <2>2, <2>3, <2>4 DEF CollectionInstruction
<1>6. ASSUME NEW c, NEW type, NEW amount, UpdateCollectionInfo(c, type, amount)
      PROVE  Goal
  BY <1>6 DEF UpdateCollectionInfo
<1> QED
  BY <1>2, <1>4, <1>5, <1>6 DEF Next

\* What a collection may carry: a part of CollectionPluginsAreLawful.
Lawful(pl) ==
  /\ ~Carries(pl, OwnerManaged \cup { "Edition" })
  /\ Carries(pl, { "BubblegumV2" }) =>
       /\ ~Carries(pl, AllPluginTypes \ (BubblegumAllowList \cup { "BubblegumV2" }))
       /\ pl["BubblegumV2"].auth = Manager("BubblegumV2")

LEMMA NoPluginsLawful == Lawful(NoPlugins)
  BY DEF Lawful, Carries, NoPlugins

\* A collection that is not live before or after a step: it is created, or
\* burned, or the step is not about it.
LEMMA CollectionBornOrGone ==
  ASSUME TypeOK, [Next]_vars, NEW c \in Collections,
         ~(Live(c) /\ stage'[c] = "Live")
  PROVE  \/ stage'[c] = stage[c] /\ plugins'[c] = plugins[c]
         \/ stage[c] = "Free" /\ stage'[c] = "Live" /\ Lawful(plugins'[c])
         \/ stage'[c] = "Closed" /\ plugins'[c] = NoPlugins
<1> DEFINE Goal ==
      \/ stage'[c] = stage[c] /\ plugins'[c] = plugins[c]
      \/ stage[c] = "Free" /\ stage'[c] = "Live" /\ Lawful(plugins'[c])
      \/ stage'[c] = "Closed" /\ plugins'[c] = NoPlugins
<1> USE DEF Live
<1>1. c \in Accounts /\ c \notin Assets
  BY KeysAssumption DEF Accounts
<1>2. CASE UNCHANGED vars
  BY <1>2 DEF vars
<1>3. ASSUME NEW s \in Signers, NEW j \in Accounts,
             NEW types \in SUBSET PluginTypes, PluginInstruction(s, j, types)
      PROVE  Goal
  <2>1. PICK p \in types, rec \in PluginRecord \cup { NoPlugin } :
          SetPlugin(j, p, rec)
    BY <1>3, PluginInstructionWritesOneRecord
  <2>2. Live(j) /\ stage' = stage
    BY <1>3, PluginInstructionWritesOneRecord
  <2>3. j # c
    BY <2>2
  <2>4. plugins'[c] = plugins[c]
    BY <1>1, <2>1, <2>3 DEF SetPlugin, TypeOK
  <2> QED
    BY <2>2, <2>4
<1>4. ASSUME NEW s \in Signers, NEW a \in Assets, AssetInstruction(s, a)
      PROVE  Goal
  <2>1. a \in Accounts /\ a # c /\ AssetTypes \in SUBSET PluginTypes
    BY <1>1, ArgsAssumption DEF Accounts
  <2>2. ASSUME NEW o, NEW u, NEW pl, NEW m, CreateV2(s, a, o, u, pl, m)
        PROVE  Goal
    BY <1>1, <2>1, <2>2 DEF CreateV2, TypeOK
  <2>3. ASSUME NEW o, Transfer(s, a, o) PROVE Goal
    BY <1>1, <2>1, <2>3 DEF Transfer, TypeOK
  <2>4. ASSUME NEW v, NEW u, NEW m, Update(s, a, v, u, m) PROVE Goal
    BY <2>4 DEF Update
  <2>5. ASSUME Burn(s, a) PROVE Goal
    BY <1>1, <2>1, <2>5 DEF Burn, Close, TypeOK
  <2> QED
    BY <1>3, <1>4, <2>1, <2>2, <2>3, <2>4, <2>5 DEF AssetInstruction
<1>5. ASSUME NEW s \in Signers, NEW d \in Collections,
             CollectionInstruction(s, d)
      PROVE  Goal
  <2>1. d \in Accounts /\ CollectionTypes \in SUBSET PluginTypes
    BY ArgsAssumption DEF Accounts
  <2>2. ASSUME NEW u, NEW pl, NEW m, CreateCollectionV2(s, d, u, pl, m)
        PROVE  Goal
    <3>1. CASE c = d
      <4>1. plugins'[c] = pl /\ stage[c] = "Free" /\ stage'[c] = "Live"
        BY <1>1, <2>2, <3>1 DEF CreateCollectionV2, TypeOK
      <4>2. Lawful(pl)
        BY <2>2 DEF CreateCollectionV2, Lawful, Carries
      <4> QED
        BY <4>1, <4>2
    <3>2. CASE c # d
      BY <1>1, <2>2, <3>2 DEF CreateCollectionV2, TypeOK
    <3> QED
      BY <3>1, <3>2
  <2>3. ASSUME NEW u, NEW m, UpdateCollection(s, d, u, m) PROVE Goal
    BY <2>3 DEF UpdateCollection
  <2>4. ASSUME BurnCollection(s, d) PROVE Goal
    BY <1>1, <2>1, <2>4 DEF BurnCollection, Close, TypeOK
  <2> QED
    BY <1>3, <1>5, <2>1, <2>2, <2>3, <2>4 DEF CollectionInstruction
<1>6. ASSUME NEW d, NEW type, NEW amount, UpdateCollectionInfo(d, type, amount)
      PROVE  Goal
  BY <1>6 DEF UpdateCollectionInfo
<1> QED
  BY <1>2, <1>4, <1>5, <1>6 DEF Next

LEMMA StepFounded == TypeOK /\ MembersFounded /\ [Next]_vars => MembersFounded'
<1> SUFFICES ASSUME TypeOK, MembersFounded, [Next]_vars,
                    NEW a \in Assets, stage'[a] = "Live", ua'[a] \in Collections
             PROVE  stage'[ua'[a]] # "Free"
  BY DEF MembersFounded, Live
<1>1. stage[ua'[a]] # "Free"
  BY NewAuthority DEF MembersFounded, Live
<1>2. CASE Live(ua'[a]) /\ stage'[ua'[a]] = "Live"
  BY <1>2
<1>3. CASE ~(Live(ua'[a]) /\ stage'[ua'[a]] = "Live")
  BY <1>1, <1>3, CollectionBornOrGone
<1> QED
  BY <1>2, <1>3

\* A permanent delegate comes with an account's birth or never.
THEOREM PermanentsNeverArrive == Spec => PermanentDelegatesNeverArrive
<1> DEFINE A == \A a \in Assets, p \in PermanentDelegates :
                  StaysLive(a) /\ Has(a, p)' => Has(a, p)
<1>1. TypeOK /\ MembersFounded /\ [Next]_vars => A
  <2> SUFFICES ASSUME TypeOK, MembersFounded, [Next]_vars, NEW a \in Assets,
                      NEW p \in PermanentDelegates, StaysLive(a), Has(a, p)',
                      plugins[a][p] = NoPlugin
               PROVE  Has(a, p)
    BY DEF Has, Held
  <2>1. /\ a \in Accounts /\ Live(a) /\ stage'[a] = "Live"
        /\ p \in PluginTypes \cap BornOnly
    BY DEF StaysLive, Has, BornOnly, Accounts
  <2>2. plugins'[a][p] = NoPlugin
    BY <2>1, BornOnlyNeverAdded
  <2> DEFINE c == ua'[a]
  <2>3. c \in Collections /\ plugins'[c][p] # NoPlugin
    BY <2>1, <2>2 DEF Has, Held
  <2>4. ua[a] = c
    <3>1. plugins' = plugins /\ c \in Collections =>
            Carries(plugins[c], PermanentDelegates)
      BY <2>1, <2>3 DEF Carries
    <3> QED
      BY <2>1, <2>3, <3>1, NewAuthority DEF Live
  <2>5. plugins[c][p] # NoPlugin
    <3>1. CASE Live(c) /\ stage'[c] = "Live"
      BY <2>1, <2>3, <3>1, BornOnlyNeverAdded DEF Accounts
    <3>2. CASE ~(Live(c) /\ stage'[c] = "Live")
      <4>1. stage[c] # "Free"
        BY <2>1, <2>3, <2>4 DEF MembersFounded
      <4>2. plugins'[c] # NoPlugins
        BY <2>1, <2>3 DEF NoPlugins
      <4> QED
        BY <2>3, <3>2, <4>1, <4>2, CollectionBornOrGone
    <3> QED
      BY <3>1, <3>2
  <2> QED
    BY <2>1, <2>3, <2>4, <2>5 DEF Has, Held
<1>2. TypeOK /\ MembersFounded /\ [Next]_vars => [A]_vars
  BY <1>1
<1>3. Init => MembersFounded
  BY DEF Init, MembersFounded, Live, Accounts
<1> HIDE DEF A
<1>4. Spec => [][A]_vars
  BY <1>2, <1>3, StepFounded, TypeCorrect, PTL DEF Spec
<1> QED
  BY <1>4 DEF A, PermanentDelegatesNeverArrive

-----------------------------------------------------------------------------
(* The plugins of a collection *)

\* Nobody may give the authority of a collection's BubblegumV2 away.
LEMMA BubblegumNotDelegated ==
  ASSUME NEW s, NEW c \in Collections, NEW auth,
         ApprovePluginAuthority(s, c, "BubblegumV2", auth)
  PROVE  FALSE
<1> DEFINE x == PluginContext(s, c, "BubblegumV2", plugins[c]["BubblegumV2"])
<1>1. c \notin Assets
  BY KeysAssumption
<1>2. x.target = "BubblegumV2"
  BY PluginContextFields
<1>3. Granted("ApprovePluginAuthority", plugins[c], x,
              CollectionApproves("ApprovePluginAuthority", x.signer, c, x.target))
  BY <1>1 DEF ApprovePluginAuthority, PluginGrants, CollectionGrants, PluginContext
<1> HIDE DEF x
<1>4. Manager("BubblegumV2") = "Bubblegum"
  BY DEF Manager, OwnerManaged
<1>5. ~CollectionApproves("ApprovePluginAuthority", x.signer, c, x.target)
  BY <1>2, <1>4 DEF CollectionApproves
<1>6. \A p, rec : /\ ~Approves("ApprovePluginAuthority", p, rec, x)
                  /\ ~Forces("ApprovePluginAuthority", p, rec, x)
  BY <1>2, <1>4 DEF Approves, UpdateDelegateApproves, Forces
<1> QED
  BY <1>3, <1>5, <1>6 DEF Granted

\* What may be added to a collection.
LEMMA LawfulAddition ==
  ASSUME NEW s, NEW c \in Collections, NEW p \in PluginTypes, NEW rec,
         AddPlugin(s, c, p, rec)
  PROVE  /\ p \notin OwnerManaged \cup { "Edition", "BubblegumV2" }
         /\ Carries(plugins[c], { "BubblegumV2" }) => p \in BubblegumAllowList
<1>1. c \notin Assets
  BY KeysAssumption
<1>2. p \notin OwnerManaged /\ p \notin { "Edition", "BubblegumV2" }
  BY DEF AddPlugin, RejectsAdd, BornOnly
<1>3. ASSUME Carries(plugins[c], { "BubblegumV2" })
      PROVE  p \in BubblegumAllowList
  <2>1. /\ "BubblegumV2" \in PluginTypes \cap Asked["AddPlugin"]
        /\ Counted(c)["BubblegumV2"] # NoPlugin
    BY <1>1, <1>3 DEF Carries, Asked, Counted
  <2>2. PluginGrants("AddPlugin", s, c, p, rec)
    BY DEF AddPlugin
  <2>3. ~RejectsAdd("BubblegumV2", PluginContext(s, c, p, rec))
    BY <2>1, <2>2, PluginVeto DEF Rejects
  <2> QED
    BY <1>1, <2>3, PluginContextFields DEF RejectsAdd
<1> QED
  BY <1>2, <1>3

\* The record of BubblegumV2 keeps its authority.
LEMMA BubblegumKeepsAuthority ==
  ASSUME TypeOK, NEW s, NEW c \in Collections, NEW p \in PluginTypes,
         PluginChange(s, c, p), "BubblegumV2" \in PluginTypes,
         plugins[c]["BubblegumV2"] # NoPlugin,
         plugins[c]["BubblegumV2"].auth = Manager("BubblegumV2"),
         plugins'[c]["BubblegumV2"] # NoPlugin
  PROVE  plugins'[c]["BubblegumV2"].auth = Manager("BubblegumV2")
<1> DEFINE b == "BubblegumV2"
<1>1. c \in Accounts /\ plugins[c] \in PluginMaps /\ plugins[c][b] \in PluginRecord
  BY DEF Accounts, TypeOK, PluginMaps
<1>2. ASSUME NEW rec, SetPlugin(c, p, rec)
      PROVE  plugins'[c][b] = IF b = p THEN rec ELSE plugins[c][b]
  <2>1. plugins'[c] = [plugins[c] EXCEPT ![p] = rec]
    BY <1>1, <1>2 DEF SetPlugin, TypeOK
  <2> QED
    BY <1>1, <2>1 DEF PluginMaps
<1>3. CASE p # b
  BY <1>2, <1>3 DEF PluginChange, AddPlugin, RemovePlugin, UpdatePlugin,
     ApprovePluginAuthority, RevokePluginAuthority
<1>4. CASE p = b
  <2>1. ASSUME NEW rec, AddPlugin(s, c, p, rec)
        PROVE  FALSE
    BY <1>4, <2>1 DEF AddPlugin
  <2>2. ASSUME RemovePlugin(s, c, p) PROVE FALSE
    BY <1>2, <1>4, <2>2 DEF RemovePlugin
  <2>3. ASSUME NEW arg \in PluginArgs(p), UpdatePlugin(s, c, p, arg)
        PROVE  plugins'[c][b].auth = Manager(b)
    <3>1. arg \in PluginRecord
      BY PluginArgsType
    <3>2. [arg EXCEPT !.auth = plugins[c][p].auth].auth = plugins[c][p].auth
      BY <3>1 DEF PluginRecord
    <3> QED
      BY <1>2, <1>4, <2>3, <3>2 DEF UpdatePlugin
  <2>4. ASSUME NEW auth, ApprovePluginAuthority(s, c, p, auth) PROVE FALSE
    BY <1>4, <2>4, BubblegumNotDelegated
  <2>5. ASSUME RevokePluginAuthority(s, c, p)
        PROVE  plugins'[c][b].auth = Manager(b)
    <3>1. [plugins[c][p] EXCEPT !.auth = Manager(p)].auth = Manager(p)
      BY <1>1, <1>4 DEF PluginRecord
    <3> QED
      BY <1>2, <1>4, <2>5, <3>1 DEF RevokePluginAuthority
  <2> QED
    BY <2>1, <2>2, <2>3, <2>4, <2>5 DEF PluginChange
<1> QED
  BY <1>3, <1>4

LEMMA LawfulChange ==
  ASSUME TypeOK, NEW s, NEW c \in Collections, NEW p \in PluginTypes,
         PluginChange(s, c, p), Lawful(plugins[c])
  PROVE  Lawful(plugins'[c])
<1>1. c \in Accounts
  BY DEF Accounts
<1>2. ASSUME NEW q \in PluginTypes, plugins'[c][q] # NoPlugin,
             plugins[c][q] = NoPlugin
      PROVE  /\ q \notin OwnerManaged \cup { "Edition", "BubblegumV2" }
             /\ Carries(plugins[c], { "BubblegumV2" }) => q \in BubblegumAllowList
  BY <1>1, <1>2, ArrivalsAndDepartures, LawfulAddition
<1>3. ~Carries(plugins'[c], OwnerManaged \cup { "Edition" })
  BY <1>2 DEF Lawful, Carries
<1>4. ASSUME Carries(plugins'[c], { "BubblegumV2" })
      PROVE  /\ Carries(plugins[c], { "BubblegumV2" })
             /\ ~Carries(plugins'[c], AllPluginTypes \ (BubblegumAllowList \cup { "BubblegumV2" }))
             /\ plugins'[c]["BubblegumV2"].auth = Manager("BubblegumV2")
  <2>1. Carries(plugins[c], { "BubblegumV2" })
    BY <1>2, <1>4 DEF Carries
  <2>2. ~Carries(plugins'[c], AllPluginTypes \ (BubblegumAllowList \cup { "BubblegumV2" }))
    BY <1>2, <2>1 DEF Lawful, Carries
  <2> QED
    BY <1>4, <2>1, <2>2, BubblegumKeepsAuthority DEF Lawful, Carries
<1> QED
  BY <1>3, <1>4 DEF Lawful

\* A collection carries nothing that belongs to an owner, no Edition, and with
\* BubblegumV2 only what the Bubblegum program supports, however the plugins
\* got there.
THEOREM CollectionsLawful == Spec => []CollectionPluginsAreLawful
<1>1. CollectionPluginsAreLawful <=> \A c \in Collections : Lawful(plugins[c])
  BY DEF CollectionPluginsAreLawful, Lawful
<1>2. Init => CollectionPluginsAreLawful
  BY <1>1, NoPluginsLawful DEF Init, Accounts
<1>3. TypeOK /\ CollectionPluginsAreLawful /\ [Next]_vars
        => CollectionPluginsAreLawful'
  <2> SUFFICES ASSUME TypeOK, CollectionPluginsAreLawful, [Next]_vars,
                      NEW c \in Collections
               PROVE  Lawful(plugins'[c])
    BY DEF CollectionPluginsAreLawful, Lawful
  <2>1. c \in Accounts /\ c \notin Assets /\ Lawful(plugins[c])
    BY <1>1, KeysAssumption DEF Accounts
  <2>2. CASE Live(c) /\ stage'[c] = "Live"
    BY <2>1, <2>2, LivePluginsChange, LawfulChange
  <2>3. CASE ~(Live(c) /\ stage'[c] = "Live")
    BY <2>1, <2>3, CollectionBornOrGone, NoPluginsLawful
  <2> QED
    BY <2>2, <2>3
<1> QED
  BY <1>2, <1>3, TypeCorrect, PTL DEF Spec

=============================================================================
