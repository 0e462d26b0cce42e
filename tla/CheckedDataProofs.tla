--------------------------- MODULE CheckedDataProofs ---------------------------
(***************************************************************************)
(* Theorems about CheckedData, for any number of accounts and wallets, any *)
(* messages and any births.                                                *)
(***************************************************************************)
EXTENDS CheckedDataProperties, MplCorePermissionProofs

-----------------------------------------------------------------------------
(* The ledger under checked data *)

LEMMA PlainOnLedger ==
  ASSUME NEW s \in Signers, PlainInstruction(s)
  PROVE  Next
<1>1. \/ \E a \in Assets : AssetInstruction(s, a)
      \/ \E c \in Collections : CollectionInstruction(s, c)
  BY DEF PlainInstruction, AssetInstruction, CollectionInstruction
<1> QED
  BY <1>1 DEF Next

LEMMA CheckedStepIsLedgerStep == [CheckedNext]_checkedVars => [Next]_vars
<1> SUFFICES ASSUME [CheckedNext]_checkedVars PROVE [Next]_vars
  OBVIOUS
<1>1. CASE UNCHANGED checkedVars
  BY <1>1 DEF checkedVars
<1>2. ASSUME NEW s \in Signers, NEW k \in Accounts, CheckedInstruction(s, k)
      PROVE  [Next]_vars
  BY <1>2 DEF CheckedInstruction, AddChecked, UpdateChecked, RemoveChecked,
       ApproveChecked, RevokeChecked, ManageChecked, CheckedStep
<1>3. ASSUME NEW s \in Signers, NEW k \in Accounts, CheckedBirth(s, k)
      PROVE  [Next]_vars
  <2>1. PICK u \in Wallets \cup Collections, m \in Metas, ch \in CheckedBirths :
          \/ k \in Assets /\ \E o \in Wallets, pl \in AssetBirths :
               CheckedCreate(s, k, o, u, pl, m, ch)
          \/ k \in Collections /\ u \in Wallets /\ \E pl \in CollectionBirths :
               CheckedCreateCollection(s, k, u, pl, m, ch)
    BY <1>3 DEF CheckedBirth
  <2>2. \/ k \in Assets /\ AssetInstruction(s, k)
        \/ k \in Collections /\ CollectionInstruction(s, k)
    BY <2>1 DEF CheckedCreate, CheckedCreateCollection, AssetInstruction,
         CollectionInstruction
  <2> QED
    BY <2>2 DEF Next
<1>4. ASSUME NEW s \in Signers, NEW k \in Accounts, CheckedBurn(s, k)
      PROVE  [Next]_vars
  BY <1>4 DEF CheckedBurn, Next, AssetInstruction, CollectionInstruction
<1>5. ASSUME NEW s \in Signers, NEW a \in Assets, NEW o \in Wallets,
             CheckedTransfer(s, a, o)
      PROVE  [Next]_vars
  BY <1>5 DEF CheckedTransfer, Next, AssetInstruction
<1> QED
  BY <1>1, <1>2, <1>3, <1>4, <1>5, PlainOnLedger DEF CheckedNext

\* The plugins that check their data restrict the ledger and add nothing to it.
THEOREM CheckedRefinesLedger == CheckedSpec => Spec
<1>1. CheckedInit => Init
  BY DEF CheckedInit
<1> QED
  BY <1>1, CheckedStepIsLedgerStep, PTL DEF CheckedSpec, Spec

-----------------------------------------------------------------------------
(* Types *)

\* A step that changes the plugins of account k to ch.
LEMMA OneAccountChecked ==
  ASSUME CheckedTypeOK, NEW k \in Accounts, NEW ch \in CheckedMaps, WellTyped(ch),
         checked' = [checked EXCEPT ![k] = ch],
         ch = NothingChecked \/ stage'[k] = "Live",
         \A j \in Accounts \ { k } : stage'[j] = stage[j],
         caller' \in Signers
  PROVE  CheckedTypeOK'
<1>1. checked' \in [Accounts -> CheckedMaps]
  BY DEF CheckedTypeOK
<1>2. \A j \in Accounts : checked'[j] = IF j = k THEN ch ELSE checked[j]
  BY DEF CheckedTypeOK
<1>3. \A j \in Accounts : WellTyped(checked'[j])
  BY <1>2 DEF CheckedTypeOK
<1>4. ASSUME NEW j \in Accounts, NEW t \in CheckedTypes, checked'[j][t] # NoPlugin
      PROVE  stage'[j] = "Live"
  <2>1. CASE j = k
    BY <1>2, <1>4, <2>1 DEF NothingChecked
  <2>2. CASE j # k
    BY <1>2, <1>4, <2>2 DEF CheckedTypeOK, Live
  <2> QED
    BY <2>1, <2>2
<1> QED
  BY <1>1, <1>3, <1>4 DEF CheckedTypeOK, Live, WellTyped

LEMMA OneRecordChecked ==
  ASSUME CheckedTypeOK, NEW k \in Accounts, NEW t \in CheckedTypes,
         NEW rec \in CheckedRecord(t) \cup { NoPlugin }, SetChecked(k, t, rec),
         Live(k), UNCHANGED stage, caller' \in Signers
  PROVE  CheckedTypeOK'
<1> DEFINE ch == [checked[k] EXCEPT ![t] = rec]
<1>1. checked[k] \in CheckedMaps /\ WellTyped(checked[k])
  BY DEF CheckedTypeOK
<1>2. ch \in CheckedMaps
  BY <1>1 DEF CheckedMaps
<1>3. WellTyped(ch)
  BY <1>1 DEF CheckedMaps, WellTyped
<1>4. checked' = [checked EXCEPT ![k] = ch]
  BY DEF SetChecked
<1> HIDE DEF ch
<1> QED
  BY <1>2, <1>3, <1>4, OneAccountChecked DEF Live

\* A record that is there, and what may become of it.
LEMMA CheckedRecordType ==
  ASSUME CheckedTypeOK, NEW k \in Accounts, NEW t \in CheckedTypes,
         checked[k][t] # NoPlugin
  PROVE  /\ checked[k][t] \in CheckedRecord(t)
         /\ \A data \in DataArgs(t) :
              [checked[k][t] EXCEPT !.data = data] \in CheckedRecord(t)
         /\ \A auth \in Authorities :
              [checked[k][t] EXCEPT !.auth = auth] \in CheckedRecord(t)
<1>1. checked[k][t] \in CheckedRecord(t)
  BY DEF CheckedTypeOK, WellTyped
<1> QED
  BY <1>1 DEF CheckedRecord

LEMMA CheckedInstructionType ==
  ASSUME CheckedTypeOK, NEW s \in Signers, NEW k \in Accounts,
         CheckedInstruction(s, k)
  PROVE  CheckedTypeOK'
<1>1. PICK t \in CheckedTypes :
        \/ \E auth \in AuthorityArgs \cup { Manager(t) }, data \in DataArgs(t) :
             AddChecked(s, k, t, [auth |-> auth, data |-> data])
        \/ \E data \in DataArgs(t) : UpdateChecked(s, k, t, data)
        \/ RemoveChecked(s, k, t)
        \/ \E auth \in AuthorityArgs : ApproveChecked(s, k, t, auth)
        \/ RevokeChecked(s, k, t)
  BY DEF CheckedInstruction
<1>2. AuthorityArgs \cup { Manager(t) } \subseteq Authorities
  BY ArgsAssumption, ManagerType
<1>3. CheckedStep(s) => UNCHANGED stage /\ caller' \in Signers
  BY DEF CheckedStep, vars
<1>4. ASSUME NEW auth \in AuthorityArgs \cup { Manager(t) }, NEW data \in DataArgs(t),
             AddChecked(s, k, t, [auth |-> auth, data |-> data])
      PROVE  CheckedTypeOK'
  <2>1. [auth |-> auth, data |-> data] \in CheckedRecord(t)
    BY <1>2 DEF CheckedRecord
  <2> QED
    BY <1>3, <1>4, <2>1, OneRecordChecked DEF AddChecked
<1>5. ASSUME NEW data \in DataArgs(t), UpdateChecked(s, k, t, data)
      PROVE  CheckedTypeOK'
  <2>1. /\ Live(k) /\ checked[k][t] # NoPlugin /\ CheckedStep(s)
        /\ SetChecked(k, t, [checked[k][t] EXCEPT !.data = data])
    BY <1>5 DEF UpdateChecked
  <2> QED
    BY <1>3, <2>1, CheckedRecordType, OneRecordChecked
<1>6. ASSUME RemoveChecked(s, k, t) PROVE CheckedTypeOK'
  BY <1>3, <1>6, OneRecordChecked DEF RemoveChecked, ManageChecked
<1>7. ASSUME NEW op, NEW auth \in Authorities, ManageChecked(op, s, k, t),
             SetChecked(k, t, [checked[k][t] EXCEPT !.auth = auth])
      PROVE  CheckedTypeOK'
  BY <1>3, <1>7, CheckedRecordType, OneRecordChecked DEF ManageChecked
<1> QED
  BY <1>1, <1>2, <1>4, <1>5, <1>6, <1>7 DEF ApproveChecked, RevokeChecked

LEMMA NothingCheckedType == NothingChecked \in CheckedMaps /\ WellTyped(NothingChecked)
  BY DEF NothingChecked, CheckedMaps, WellTyped

LEMMA OneStageMoves ==
  ASSUME TypeOK, NEW k \in Accounts, NEW to, stage' = [stage EXCEPT ![k] = to]
  PROVE  stage'[k] = to /\ \A j \in Accounts \ { k } : stage'[j] = stage[j]
  BY DEF TypeOK

LEMMA CheckedBirthWrites ==
  ASSUME NEW s, NEW k \in Accounts, CheckedBirth(s, k)
  PROVE  \E ch \in CheckedBirths :
           /\ stage[k] = "Free" /\ stage' = [stage EXCEPT ![k] = "Live"]
           /\ checked' = [checked EXCEPT ![k] = ch] /\ BroughtBy(ch, s)
           /\ caller' = s
<1>1. PICK u \in Wallets \cup Collections, m \in Metas, ch \in CheckedBirths :
        \/ k \in Assets /\ \E o \in Wallets, pl \in AssetBirths :
             CheckedCreate(s, k, o, u, pl, m, ch)
        \/ k \in Collections /\ u \in Wallets /\ \E pl \in CollectionBirths :
             CheckedCreateCollection(s, k, u, pl, m, ch)
  BY DEF CheckedBirth
<1>2. \A o, pl : CheckedCreate(s, k, o, u, pl, m, ch) =>
        /\ stage[k] = "Free" /\ stage' = [stage EXCEPT ![k] = "Live"]
        /\ checked' = [checked EXCEPT ![k] = ch] /\ BroughtBy(ch, s)
        /\ caller' = s
  BY DEF CheckedCreate, CreateV2
<1>3. \A pl : CheckedCreateCollection(s, k, u, pl, m, ch) =>
        /\ stage[k] = "Free" /\ stage' = [stage EXCEPT ![k] = "Live"]
        /\ checked' = [checked EXCEPT ![k] = ch] /\ BroughtBy(ch, s)
        /\ caller' = s
  BY DEF CheckedCreateCollection, CreateCollectionV2
<1> QED
  BY <1>1, <1>2, <1>3

LEMMA CheckedBirthType ==
  ASSUME TypeOK, CheckedTypeOK, NEW s \in Signers, NEW k \in Accounts,
         CheckedBirth(s, k)
  PROVE  CheckedTypeOK'
<1>1. PICK ch \in CheckedBirths :
        /\ stage' = [stage EXCEPT ![k] = "Live"]
        /\ checked' = [checked EXCEPT ![k] = ch] /\ caller' = s
  BY CheckedBirthWrites
<1>2. ch \in CheckedMaps /\ WellTyped(ch)
  BY CheckedBirthsAssumption
<1> QED
  BY <1>1, <1>2, OneStageMoves, OneAccountChecked

LEMMA CheckedBurnType ==
  ASSUME TypeOK, CheckedTypeOK, NEW s \in Signers, NEW k \in Accounts,
         CheckedBurn(s, k)
  PROVE  CheckedTypeOK'
<1>1. /\ stage' = [stage EXCEPT ![k] = "Closed"]
      /\ checked' = [checked EXCEPT ![k] = NothingChecked] /\ caller' = s
  BY DEF CheckedBurn, Burn, BurnCollection, Close
<1> QED
  BY <1>1, NothingCheckedType, OneStageMoves, OneAccountChecked

\* What a transfer makes of the records of an asset.
Handed(ch) ==
  [t \in CheckedTypes |->
     IF t \in OwnerManaged /\ ch[t] # NoPlugin
     THEN [ch[t] EXCEPT !.auth = "Owner"] ELSE ch[t]]

LEMMA HandedType ==
  ASSUME NEW ch \in CheckedMaps, WellTyped(ch)
  PROVE  /\ Handed(ch) \in CheckedMaps /\ WellTyped(Handed(ch))
         /\ \A t \in CheckedTypes : ch[t] # NoPlugin =>
              Handed(ch)[t] # NoPlugin /\ Handed(ch)[t].data = ch[t].data
         /\ \A t \in CheckedTypes : ch[t] = NoPlugin => Handed(ch)[t] = NoPlugin
<1>1. ASSUME NEW t \in CheckedTypes, ch[t] # NoPlugin
      PROVE  /\ [ch[t] EXCEPT !.auth = "Owner"] \in CheckedRecord(t)
             /\ [ch[t] EXCEPT !.auth = "Owner"].data = ch[t].data
             /\ ch[t] \in CheckedRecord(t)
  BY <1>1 DEF WellTyped, CheckedRecord, Authorities
<1>2. \A t \in CheckedTypes : NoPlugin \notin CheckedRecord(t)
  BY CheckedBirthsAssumption
<1>3. \A t \in CheckedTypes :
        Handed(ch)[t] = IF t \in OwnerManaged /\ ch[t] # NoPlugin
                        THEN [ch[t] EXCEPT !.auth = "Owner"] ELSE ch[t]
  BY DEF Handed
<1>4. WellTyped(Handed(ch))
  BY <1>1, <1>3 DEF WellTyped
<1>5. Handed(ch) \in CheckedMaps
  <2>1. \A t \in CheckedTypes : Handed(ch)[t] \in
          (UNION { CheckedRecord(q) : q \in CheckedTypes }) \cup { NoPlugin }
    BY <1>4 DEF WellTyped
  <2> QED
    BY <2>1 DEF Handed, CheckedMaps
<1>6. \A t \in CheckedTypes : ch[t] # NoPlugin =>
        Handed(ch)[t] # NoPlugin /\ Handed(ch)[t].data = ch[t].data
  <2> SUFFICES ASSUME NEW t \in CheckedTypes, ch[t] # NoPlugin
               PROVE  Handed(ch)[t] # NoPlugin /\ Handed(ch)[t].data = ch[t].data
    OBVIOUS
  <2>1. CASE t \in OwnerManaged
    BY <1>1, <1>2, <1>3, <2>1
  <2>2. CASE t \notin OwnerManaged
    BY <1>3, <2>2
  <2> QED
    BY <2>1, <2>2
<1> QED
  BY <1>3, <1>4, <1>5, <1>6

LEMMA TransferHands ==
  ASSUME NEW s, NEW a \in Assets, NEW o, CheckedTransfer(s, a, o)
  PROVE  /\ Live(a) /\ UNCHANGED stage /\ caller' = s
         /\ checked' = [checked EXCEPT ![a] = Handed(checked[a])]
  BY DEF CheckedTransfer, Transfer, Handed

LEMMA CheckedTransferType ==
  ASSUME TypeOK, CheckedTypeOK, NEW s \in Signers, NEW a \in Assets, NEW o,
         CheckedTransfer(s, a, o)
  PROVE  CheckedTypeOK'
<1>0. a \in Accounts /\ checked[a] \in CheckedMaps /\ WellTyped(checked[a])
  BY DEF Accounts, CheckedTypeOK
<1> QED
  BY <1>0, HandedType, TransferHands, OneAccountChecked DEF Live

LEMMA PlainKeepsStages ==
  ASSUME TypeOK, NEW s, PlainInstruction(s)
  PROVE  UNCHANGED << stage, checked >> /\ caller' = s
<1>0. /\ AssetTypes \in SUBSET PluginTypes /\ CollectionTypes \in SUBSET PluginTypes
      /\ Assets \subseteq Accounts /\ Collections \subseteq Accounts
  BY ArgsAssumption DEF Accounts
<1> QED
  BY <1>0, PluginInstructionWritesOneRecord DEF PlainInstruction, Update, UpdateCollection

LEMMA CheckedStepType ==
  TypeOK /\ CheckedTypeOK /\ [CheckedNext]_checkedVars => CheckedTypeOK'
<1> SUFFICES ASSUME TypeOK, CheckedTypeOK, [CheckedNext]_checkedVars
             PROVE  CheckedTypeOK'
  OBVIOUS
<1>1. CASE UNCHANGED checkedVars
  BY <1>1 DEF checkedVars, vars, CheckedTypeOK, Live, WellTyped
<1>2. ASSUME NEW s \in Signers, PlainInstruction(s) PROVE CheckedTypeOK'
  BY <1>2, PlainKeepsStages DEF CheckedTypeOK, Live, WellTyped
<1> QED
  BY <1>1, <1>2, CheckedInstructionType, CheckedBirthType, CheckedBurnType,
     CheckedTransferType DEF CheckedNext

LEMMA CheckedTypesHold == CheckedSpec => [](TypeOK /\ CheckedTypeOK)
<1>1. CheckedInit => TypeOK /\ CheckedTypeOK
  BY InitType, NothingCheckedType DEF CheckedInit, CheckedTypeOK, NothingChecked, WellTyped
<1>2. TypeOK /\ CheckedTypeOK /\ [CheckedNext]_checkedVars => (TypeOK /\ CheckedTypeOK)'
  BY StepType, CheckedStepIsLedgerStep, CheckedStepType
<1> QED
  BY <1>1, <1>2, PTL DEF CheckedSpec

\* Every record holds data of its own type, and only live accounts hold any.
THEOREM CheckedTypeCorrect == CheckedSpec => []CheckedTypeOK
  BY CheckedTypesHold, PTL

-----------------------------------------------------------------------------
(* What a step makes of the data of one plugin *)

Keeps(k, t) ==
  /\ checked[k][t] # NoPlugin /\ checked'[k][t] # NoPlugin
  /\ checked'[k][t].data = checked[k][t].data

Brings(k, t) ==
  /\ checked[k][t] = NoPlugin /\ checked'[k][t] # NoPlugin
  /\ MayBring(t, checked'[k][t].data, caller')

Writes(k, t) ==
  /\ checked[k][t] # NoPlugin /\ checked'[k][t] # NoPlugin
  /\ MayWriteData(t, checked[k][t].data, checked'[k][t].data, caller',
                  HoldsChecked(caller', k, checked[k][t]))

Fate(k, t) == checked'[k][t] = NoPlugin \/ Keeps(k, t) \/ Brings(k, t) \/ Writes(k, t)

LEMMA UnwrittenFate ==
  ASSUME NEW k, NEW t, checked'[k][t] = checked[k][t]
  PROVE  Fate(k, t)
  BY DEF Fate, Keeps

LEMMA InstructionFate ==
  ASSUME CheckedTypeOK, NEW s, NEW j \in Accounts, CheckedInstruction(s, j),
         NEW k \in Accounts, NEW t \in CheckedTypes
  PROVE  Fate(k, t)
<1>1. PICK q \in CheckedTypes :
        \/ \E auth \in AuthorityArgs \cup { Manager(q) }, data \in DataArgs(q) :
             AddChecked(s, j, q, [auth |-> auth, data |-> data])
        \/ \E data \in DataArgs(q) : UpdateChecked(s, j, q, data)
        \/ RemoveChecked(s, j, q)
        \/ \E auth \in AuthorityArgs : ApproveChecked(s, j, q, auth)
        \/ RevokeChecked(s, j, q)
  BY DEF CheckedInstruction
<1>2. ASSUME NEW rec, SetChecked(j, q, rec)
      PROVE  checked'[k][t] = IF k = j /\ t = q THEN rec ELSE checked[k][t]
  BY <1>2 DEF SetChecked, CheckedTypeOK, CheckedMaps
<1>3. CheckedStep(s) => caller' = s
  BY DEF CheckedStep
<1>4. CASE ~(k = j /\ t = q)
  <2>1. \E rec : SetChecked(j, q, rec)
    BY <1>1 DEF AddChecked, UpdateChecked, RemoveChecked, ApproveChecked, RevokeChecked
  <2> QED
    BY <1>2, <1>4, <2>1, UnwrittenFate
<1>5. ASSUME k = j, t = q, NEW auth \in AuthorityArgs \cup { Manager(q) },
             NEW data \in DataArgs(q),
             AddChecked(s, k, t, [auth |-> auth, data |-> data])
      PROVE  Fate(k, t)
  <2>1. /\ checked[k][t] = NoPlugin /\ MayBring(t, data, s) /\ caller' = s
        /\ checked'[k][t] = [auth |-> auth, data |-> data]
    BY <1>2, <1>3, <1>5 DEF AddChecked
  <2> QED
    BY <2>1 DEF Fate, Brings
<1>6. ASSUME k = j, t = q, NEW data \in DataArgs(q), UpdateChecked(s, k, t, data)
      PROVE  Fate(k, t)
  <2>1. /\ checked[k][t] # NoPlugin /\ caller' = s
        /\ MayWriteData(t, checked[k][t].data, data, s, HoldsChecked(s, k, checked[k][t]))
        /\ checked'[k][t] = [checked[k][t] EXCEPT !.data = data]
    BY <1>2, <1>3, <1>6 DEF UpdateChecked
  <2>2. /\ [checked[k][t] EXCEPT !.data = data].data = data
        /\ [checked[k][t] EXCEPT !.data = data] # NoPlugin
    BY <1>6, <2>1, CheckedRecordType, CheckedBirthsAssumption DEF CheckedRecord
  <2> QED
    BY <2>1, <2>2 DEF Fate, Writes
<1>7. ASSUME k = j, t = q, RemoveChecked(s, k, t) PROVE Fate(k, t)
  BY <1>2, <1>7 DEF RemoveChecked, Fate
<1>8. ASSUME k = j, t = q, NEW auth \in Authorities, checked[k][t] # NoPlugin,
             SetChecked(k, t, [checked[k][t] EXCEPT !.auth = auth])
      PROVE  Fate(k, t)
  <2>1. checked'[k][t] = [checked[k][t] EXCEPT !.auth = auth]
    BY <1>2, <1>8
  <2>2. /\ [checked[k][t] EXCEPT !.auth = auth].data = checked[k][t].data
        /\ [checked[k][t] EXCEPT !.auth = auth] # NoPlugin
    BY <1>8, CheckedRecordType, CheckedBirthsAssumption DEF CheckedRecord
  <2> QED
    BY <1>8, <2>1, <2>2 DEF Fate, Keeps
<1>9. AuthorityArgs \cup { Manager(q) } \subseteq Authorities
  BY ArgsAssumption, ManagerType
<1> QED
  BY <1>1, <1>4, <1>5, <1>6, <1>7, <1>8, <1>9
  DEF ApproveChecked, RevokeChecked, ManageChecked

LEMMA BirthFate ==
  ASSUME CheckedTypeOK, NEW s, NEW j \in Accounts, CheckedBirth(s, j),
         NEW k \in Accounts, NEW t \in CheckedTypes
  PROVE  Fate(k, t)
<1>1. PICK ch \in CheckedBirths :
        /\ stage[j] = "Free" /\ checked' = [checked EXCEPT ![j] = ch]
        /\ BroughtBy(ch, s) /\ caller' = s
  BY CheckedBirthWrites
<1>2. checked'[k] = IF k = j THEN ch ELSE checked[k]
  BY <1>1 DEF CheckedTypeOK
<1>3. checked[j][t] = NoPlugin
  BY <1>1 DEF CheckedTypeOK, Live
<1> QED
  BY <1>1, <1>2, <1>3, UnwrittenFate DEF Fate, Brings, BroughtBy

LEMMA StepFate ==
  ASSUME TypeOK, CheckedTypeOK, [CheckedNext]_checkedVars,
         NEW k \in Accounts, NEW t \in CheckedTypes
  PROVE  Fate(k, t)
<1>1. CASE UNCHANGED checkedVars
  BY <1>1, UnwrittenFate DEF checkedVars
<1>2. ASSUME NEW s \in Signers, PlainInstruction(s) PROVE Fate(k, t)
  BY <1>2, UnwrittenFate DEF PlainInstruction
<1>3. ASSUME NEW s \in Signers, NEW j \in Accounts, CheckedBurn(s, j)
      PROVE  Fate(k, t)
  <2>1. checked'[k] = IF k = j THEN NothingChecked ELSE checked[k]
    BY <1>3 DEF CheckedBurn, CheckedTypeOK
  <2> QED
    BY <2>1, UnwrittenFate DEF Fate, NothingChecked
<1>4. ASSUME NEW s \in Signers, NEW a \in Assets, NEW o, CheckedTransfer(s, a, o)
      PROVE  Fate(k, t)
  <2>1. checked[k] \in CheckedMaps /\ WellTyped(checked[k])
    BY DEF CheckedTypeOK
  <2>2. checked'[k] = IF k = a THEN Handed(checked[k]) ELSE checked[k]
    BY <1>4, TransferHands DEF CheckedTypeOK
  <2> QED
    BY <2>1, <2>2, HandedType, UnwrittenFate DEF Fate, Keeps
<1> QED
  BY <1>1, <1>2, <1>3, <1>4, InstructionFate, BirthFate DEF CheckedNext

-----------------------------------------------------------------------------
(* Signatures *)

\* The word that data of a plugin holds of wallet w.
WordOf(data, w) == IF data[w] = "Unverified" THEN Absent ELSE data[w]

LEMMA WordReads ==
  ASSUME NEW k, NEW t \in CheckedTypes, NEW w
  PROVE  /\ Word(k, t, w) = IF checked[k][t] = NoPlugin THEN Absent
                            ELSE WordOf(checked[k][t].data, w)
         /\ Word(k, t, w)' = IF checked'[k][t] = NoPlugin THEN Absent
                             ELSE WordOf(checked'[k][t].data, w)
         /\ HasChecked(k, t)' = (checked'[k][t] # NoPlugin)
  BY DEF Word, HasChecked, WordOf

\* Data that somebody brings holds no word of anybody else.
LEMMA NobodySpeaksForOthers ==
  ASSUME NEW t \in SignedTypes, NEW data, NEW s, MayBring(t, data, s),
         t = "VerifiedCreators" => data \in CreatorLists,
         NEW w \in Wallets, w # s
  PROVE  WordOf(data, w) = Absent
<1>1. CASE t = "Autograph"
  BY <1>1 DEF MayBring, MayAutograph, WordOf, Blank
<1>2. CASE t = "VerifiedCreators"
  <2>1. data[w] \in { Absent, "Unverified", "Verified" }
    BY <1>2 DEF CreatorLists
  <2>2. data[w] # "Verified"
    BY <1>2 DEF MayBring, MayVerify, Blank, Absent
  <2> QED
    BY <2>1, <2>2 DEF WordOf
<1> QED
  BY <1>1, <1>2 DEF SignedTypes

\* Data that somebody writes leaves the words of all others, or strikes them
\* from an autograph book of its own.
LEMMA NobodyWritesForOthers ==
  ASSUME NEW t \in SignedTypes, NEW old, NEW new, NEW s, NEW holds,
         MayWriteData(t, old, new, s, holds),
         t = "VerifiedCreators" => old \in CreatorLists /\ new \in CreatorLists,
         NEW w \in Wallets, w # s
  PROVE  \/ WordOf(new, w) = WordOf(old, w)
         \/ WordOf(new, w) = Absent /\ t = "Autograph" /\ holds
<1>1. CASE t = "Autograph"
  <2>1. MayAutograph(old, new, s, holds)
    BY <1>1 DEF MayWriteData
  <2>2. IF old[w] # Absent THEN new[w] \in { old[w], Absent } ELSE new[w] = Absent
    BY <2>1 DEF MayAutograph
  <2>3. old[w] # Absent /\ new[w] = Absent => holds
    BY <2>1 DEF MayAutograph
  <2> QED
    BY <1>1, <2>2, <2>3 DEF WordOf
<1>2. CASE t = "VerifiedCreators"
  <2>1. /\ old[w] \in { Absent, "Unverified", "Verified" }
        /\ new[w] \in { Absent, "Unverified", "Verified" }
    BY <1>2 DEF CreatorLists
  <2>2. "Verified" \in { old[w], new[w] } => new[w] = old[w]
    BY <1>2 DEF MayWriteData, MayVerify, MayVerifyItself
  <2> QED
    BY <2>1, <2>2 DEF WordOf
<1> QED
  BY <1>1, <1>2 DEF SignedTypes

LEMMA CreatorData ==
  ASSUME NEW t \in CheckedTypes, NEW rec \in CheckedRecord(t), t = "VerifiedCreators"
  PROVE  rec.data \in CreatorLists
  BY DEF CheckedRecord, DataArgs

\* A step about a wallet that did not sign it.
LEMMA WordOfAnother ==
  ASSUME TypeOK, CheckedTypeOK, CheckedTypeOK', [CheckedNext]_checkedVars,
         NEW k \in Accounts, NEW t \in CheckedTypes \cap SignedTypes,
         NEW w \in Wallets, caller' # w
  PROVE  \/ Word(k, t, w)' = Word(k, t, w)
         \/ Word(k, t, w)' = Absent /\ checked'[k][t] = NoPlugin
         \/ /\ Word(k, t, w)' = Absent /\ t = "Autograph"
            /\ HoldsChecked(caller', k, checked[k][t])
<1>0. Fate(k, t)
  BY StepFate
<1>w. /\ Word(k, t, w) = IF checked[k][t] = NoPlugin THEN Absent
                         ELSE WordOf(checked[k][t].data, w)
      /\ Word(k, t, w)' = IF checked'[k][t] = NoPlugin THEN Absent
                          ELSE WordOf(checked'[k][t].data, w)
  BY WordReads
<1>t. /\ checked[k][t] # NoPlugin => checked[k][t] \in CheckedRecord(t)
      /\ checked'[k][t] # NoPlugin => checked'[k][t] \in CheckedRecord(t)
  BY DEF CheckedTypeOK, WellTyped
<1>1. CASE checked'[k][t] = NoPlugin
  BY <1>1, <1>w
<1>2. CASE Keeps(k, t)
  BY <1>2, <1>w DEF Keeps
<1>3. CASE Brings(k, t)
  <2>1. WordOf(checked'[k][t].data, w) = Absent
    BY <1>3, <1>t, CreatorData, NobodySpeaksForOthers DEF Brings
  <2> QED
    BY <1>3, <1>w, <2>1 DEF Brings
<1>4. CASE Writes(k, t)
  <2>1. \/ WordOf(checked'[k][t].data, w) = WordOf(checked[k][t].data, w)
        \/ /\ WordOf(checked'[k][t].data, w) = Absent /\ t = "Autograph"
           /\ HoldsChecked(caller', k, checked[k][t])
    BY <1>4, <1>t, CreatorData, NobodyWritesForOthers DEF Writes
  <2> QED
    BY <1>4, <1>w, <2>1 DEF Writes
<1> QED
  BY <1>0, <1>1, <1>2, <1>3, <1>4 DEF Fate

\* Nobody's name is put to anything by somebody else, for any number of wallets
\* and messages, on every path that data takes.
THEOREM OwnSignatures == CheckedSpec => SignaturesAreTheirOwn
<1> DEFINE A ==
      \A k \in Accounts, t \in CheckedTypes \cap SignedTypes, w \in Wallets :
        Word(k, t, w)' \notin { Absent, Word(k, t, w) } => caller' = w
<1>1. TypeOK /\ CheckedTypeOK /\ CheckedTypeOK' /\ [CheckedNext]_checkedVars => A
  BY WordOfAnother
<1>2. TypeOK /\ CheckedTypeOK /\ CheckedTypeOK' /\ [CheckedNext]_checkedVars
      => [A]_checkedVars
  BY <1>1
<1> QED
  BY <1>2, CheckedTypesHold, PTL DEF CheckedSpec, SignaturesAreTheirOwn

\* What a wallet has put its name to stands until the wallet takes it back, the
\* authority of an autograph book strikes it, or the whole plugin goes.
THEOREM SignaturesLast == CheckedSpec => SignaturesStand
<1> DEFINE A ==
      \A k \in Accounts, t \in CheckedTypes \cap SignedTypes, w \in Wallets :
        Word(k, t, w) # Absent /\ Word(k, t, w)' # Word(k, t, w) =>
          \/ caller' = w
          \/ ~HasChecked(k, t)'
          \/ /\ t = "Autograph" /\ Word(k, t, w)' = Absent
             /\ HoldsChecked(caller', k, checked[k][t])
<1>1. TypeOK /\ CheckedTypeOK /\ CheckedTypeOK' /\ [CheckedNext]_checkedVars => A
  BY WordOfAnother DEF HasChecked
<1>2. TypeOK /\ CheckedTypeOK /\ CheckedTypeOK' /\ [CheckedNext]_checkedVars
      => [A]_checkedVars
  BY <1>1
<1> QED
  BY <1>2, CheckedTypesHold, PTL DEF CheckedSpec, SignaturesStand

-----------------------------------------------------------------------------
(* Royalties *)

\* Who lets an instruction about royalties pass: the plugin, if it may speak,
\* the update authority, or who stands for it.
LEMMA CheckedApproval ==
  ASSUME TypeOK, NEW op \in { "AddPlugin", "RemovePlugin", "UpdatePlugin" },
         NEW s \in Signers, NEW k \in Accounts, NEW auth, NEW own,
         CheckedGranted(op, s, k, "Royalties", auth, own)
  PROVE  \/ own
         \/ s \in RoyaltyHands(k)
<1> DEFINE x == ContextOf(s, k, "Royalties", auth)
           core == \/ own
                   \/ k \in Assets /\ AssetApproves(op, s, owner[k], ua[k], "Royalties")
                   \/ /\ k \in Assets /\ ua[k] \in Collections
                      /\ CollectionApproves(op, s, ua[k], "Royalties")
                   \/ k \in Collections /\ CollectionApproves(op, s, k, "Royalties")
<1>1. /\ x.signer = s /\ x.target = "Royalties"
      /\ \A rec : Holds(rec, x) => HolderOf(rec, s, k)
  <2>1. CASE k \in Assets
    BY <2>1, ResolvedIsHeld DEF ContextOf, AssetContext, Holds
  <2>2. CASE k \in Collections
    BY <2>2, ResolvedIsHeld, KeysAssumption DEF ContextOf, CollectionContext, Holds
  <2> QED
    BY <2>1, <2>2 DEF Accounts
<1>2. core => own \/ s \in { ua[k], AuthorityOver(k) }
  <2>1. Manager("Royalties") = "UpdateAuthority"
    BY DEF Manager, OwnerManaged
  <2> QED
    BY <2>1, KeysAssumption DEF AssetApproves, CollectionApproves, AuthorityOver, PluginOps
<1>3. Granted(op, Held(k), x, core)
  <2>1. CASE k \in Assets
    <3>1. Effective(plugins[k], ua[k]) = Held(k)
      BY DEF Effective, Held
    <3>2. k \notin Collections
      BY <2>1, KeysAssumption
    <3>3. core = \/ own
                 \/ AssetApproves(op, s, owner[k], ua[k], "Royalties")
                 \/ ua[k] \in Collections /\ CollectionApproves(op, s, ua[k], "Royalties")
      BY <2>1, <3>2
    <3> QED
      BY <2>1, <3>1, <3>3 DEF CheckedGranted
  <2>2. CASE k \notin Assets
    <3>1. k \in Collections /\ ua[k] \notin Collections
      BY <2>2, KeysAssumption DEF Accounts, TypeOK
    <3>2. plugins[k] = Held(k)
      BY <3>1 DEF Held, TypeOK, PluginMaps
    <3>3. core = (own \/ CollectionApproves(op, s, k, "Royalties"))
      BY <2>2, <3>1
    <3> QED
      BY <2>2, <3>2, <3>3 DEF CheckedGranted
  <2> QED
    BY <2>1, <2>2
<1> HIDE DEF x, core
<1>4. \/ core
      \/ \E p \in PluginTypes : Held(k)[p] # NoPlugin /\ Approves(op, p, Held(k)[p], x)
  BY <1>3, Approval
<1>5. ASSUME NEW p \in PluginTypes, Held(k)[p] # NoPlugin,
             Approves(op, p, Held(k)[p], x)
      PROVE  Has(k, "UpdateDelegate") /\ DelegateOf(Held(k)["UpdateDelegate"], s, k)
  <2>1. p # "Royalties"
    BY PluginTypesAssumption DEF UnmodelledTypes
  <2>2. p = "UpdateDelegate" /\ IsUpdateDelegate(Held(k)[p], x)
    BY <1>1, <1>5, <2>1 DEF Approves, UpdateDelegateApproves
  <2> QED
    BY <1>1, <1>5, <2>2 DEF IsUpdateDelegate, DelegateOf, Has
<1> QED
  BY <1>2, <1>4, <1>5 DEF RoyaltyHands

\* A step leaves the royalties of an account as they are.
SameRoyalties(k) ==
  "Royalties" \in CheckedTypes =>
    /\ checked'[k]["Royalties"] = NoPlugin <=> checked[k]["Royalties"] = NoPlugin
    /\ checked[k]["Royalties"] # NoPlugin =>
         checked'[k]["Royalties"].data = checked[k]["Royalties"].data

LEMMA UnwrittenRoyalties ==
  ASSUME NEW k, checked'[k] = checked[k]
  PROVE  SameRoyalties(k)
  BY DEF SameRoyalties

\* What counts for an asset is its own royalties or those of its collection.
LEMMA SameRules ==
  ASSUME NEW a \in Assets, SameRoyalties(a), ua'[a] = ua[a],
         ua[a] \in Collections => SameRoyalties(ua[a])
  PROVE  RoyaltyData(a)' = RoyaltyData(a)
  BY DEF RoyaltyData, Rules, SameRoyalties

\* Royalties are changed by those whose business they are.
LEMMA RoyaltyInstruction ==
  ASSUME TypeOK, CheckedTypeOK, NEW s \in Signers, NEW j \in Accounts,
         CheckedInstruction(s, j), NEW k \in Accounts
  PROVE  SameRoyalties(k) \/ s \in RoyaltyHands(k)
<1> SUFFICES ASSUME "Royalties" \in CheckedTypes
             PROVE  SameRoyalties(k) \/ s \in RoyaltyHands(k)
  BY DEF SameRoyalties
<1>1. PICK q \in CheckedTypes :
        \/ \E auth \in AuthorityArgs \cup { Manager(q) }, data \in DataArgs(q) :
             AddChecked(s, j, q, [auth |-> auth, data |-> data])
        \/ \E data \in DataArgs(q) : UpdateChecked(s, j, q, data)
        \/ RemoveChecked(s, j, q)
        \/ \E auth \in AuthorityArgs : ApproveChecked(s, j, q, auth)
        \/ RevokeChecked(s, j, q)
  BY DEF CheckedInstruction
<1>2. ASSUME NEW rec, SetChecked(j, q, rec)
      PROVE  checked'[k]["Royalties"] =
               IF k = j /\ q = "Royalties" THEN rec ELSE checked[k]["Royalties"]
  BY <1>2 DEF SetChecked, CheckedTypeOK, CheckedMaps
<1>3. CASE ~(k = j /\ q = "Royalties")
  <2>1. \E rec : SetChecked(j, q, rec)
    BY <1>1 DEF AddChecked, UpdateChecked, RemoveChecked, ApproveChecked, RevokeChecked
  <2> QED
    BY <1>2, <1>3, <2>1 DEF SameRoyalties
<1>4. CASE k = j /\ q = "Royalties"
  <2>1. ASSUME NEW rec, AddChecked(s, k, q, rec) PROVE s \in RoyaltyHands(k)
    BY <1>4, <2>1, CheckedApproval DEF AddChecked
  <2>2. ASSUME NEW data, UpdateChecked(s, k, q, data) PROVE s \in RoyaltyHands(k)
    <3> DEFINE rec == checked[k]["Royalties"]
    <3>1. /\ HasChecked(k, "Royalties")
          /\ CheckedGranted("UpdatePlugin", s, k, "Royalties", rec.auth,
                            ApprovesData("Royalties", HoldsChecked(s, k, rec)))
      BY <1>4, <2>2 DEF UpdateChecked, HasChecked
    <3>2. ApprovesData("Royalties", HoldsChecked(s, k, rec)) => HolderOf(rec, s, k)
      <4>1. HoldsChecked(s, k, rec) => HolderOf(rec, s, k)
        BY ResolvedIsHeld DEF HoldsChecked, ContextOf, AssetContext, CollectionContext,
           Accounts
      <4> QED
        BY <4>1 DEF ApprovesData, SignedTypes
    <3> HIDE DEF rec
    <3> QED
      BY <3>1, <3>2, CheckedApproval DEF RoyaltyHands, rec
  <2>3. ASSUME RemoveChecked(s, k, q) PROVE s \in RoyaltyHands(k)
    <3>1. \E auth, own :
            /\ CheckedGranted("RemovePlugin", s, k, "Royalties", auth, own)
            /\ ~own
      BY <1>4, <2>3 DEF RemoveChecked, ManageChecked, Approves
    <3> QED
      BY <3>1, CheckedApproval
  <2>4. ASSUME NEW op, NEW auth \in Authorities, ManageChecked(op, s, k, q),
               SetChecked(k, q, [checked[k][q] EXCEPT !.auth = auth])
        PROVE  SameRoyalties(k)
    <3>1. /\ checked[k][q] # NoPlugin
          /\ checked'[k][q] = [checked[k][q] EXCEPT !.auth = auth]
      BY <1>2, <1>4, <2>4 DEF ManageChecked
    <3>2. /\ [checked[k][q] EXCEPT !.auth = auth].data = checked[k][q].data
          /\ [checked[k][q] EXCEPT !.auth = auth] # NoPlugin
      BY <3>1, CheckedRecordType, CheckedBirthsAssumption DEF CheckedRecord
    <3> QED
      BY <1>4, <3>1, <3>2 DEF SameRoyalties
  <2>5. AuthorityArgs \cup { Manager(q) } \subseteq Authorities
    BY ArgsAssumption, ManagerType
  <2> QED
    BY <1>1, <1>4, <2>1, <2>2, <2>3, <2>4, <2>5 DEF ApproveChecked, RevokeChecked
<1> QED
  BY <1>3, <1>4

\* What the theorem says of one asset and one step.
RoyaltiesBind(a) ==
  /\ RoyaltyData(a)' = RoyaltyData(a) \/ caller' \in RoyaltyKeepers(a)
  /\ owner'[a] # owner[a] /\ Rules(a) # NoPlugin =>
       \/ ~RulesForbid(Rules(a).data, caller', owner'[a])
       \/ Forced(caller', a)

\* A step that leaves owner and authority of an asset, and those royalties that
\* are not the signer's business.
LEMMA HonestStep ==
  ASSUME NEW a \in Assets, owner'[a] = owner[a], ua'[a] = ua[a],
         ua[a] \in UpdateAuthorities,
         \A k \in Accounts : SameRoyalties(k) \/ caller' \in RoyaltyHands(k)
  PROVE  RoyaltiesBind(a)
<1>1. a \in Accounts
  BY DEF Accounts
<1>2. CASE caller' \in RoyaltyHands(a)
  BY <1>1, <1>2 DEF RoyaltiesBind, RoyaltyKeepers
<1>3. CASE ua[a] \in Collections /\ caller' \in RoyaltyHands(ua[a])
  BY <1>3 DEF RoyaltiesBind, RoyaltyKeepers, Accounts
<1>4. CASE SameRoyalties(a) /\ (ua[a] \in Collections => SameRoyalties(ua[a]))
  BY <1>4, SameRules DEF RoyaltiesBind
<1> QED
  BY <1>1, <1>2, <1>3, <1>4 DEF Accounts

LEMMA InstructionBinds ==
  ASSUME TypeOK, CheckedTypeOK, NEW s \in Signers, NEW k \in Accounts,
         CheckedInstruction(s, k), NEW a \in Assets
  PROVE  RoyaltiesBind(a)
<1>1. caller' = s /\ UNCHANGED << owner, ua >>
  BY DEF CheckedInstruction, AddChecked, UpdateChecked, RemoveChecked,
     ApproveChecked, RevokeChecked, ManageChecked, CheckedStep, vars
<1>2. ua[a] \in UpdateAuthorities
  BY DEF TypeOK, Accounts
<1>3. \A j \in Accounts : SameRoyalties(j) \/ s \in RoyaltyHands(j)
  BY RoyaltyInstruction
<1> QED
  BY <1>1, <1>2, <1>3, HonestStep

\* A birth writes no account that an asset reads.
LEMMA BirthBinds ==
  ASSUME TypeOK, CheckedTypeOK, MembersFounded, NEW s \in Signers,
         NEW k \in Accounts, CheckedBirth(s, k), NEW a \in Assets, Live(a)
  PROVE  RoyaltiesBind(a)
<1>1. stage[k] = "Free" /\ \A j \in Accounts \ { k } : checked'[j] = checked[j]
  BY CheckedBirthWrites DEF CheckedTypeOK
<1>2. a # k
  BY <1>1 DEF Live
<1>3. owner'[a] = owner[a] /\ ua'[a] = ua[a]
  <2>1. a \in Accounts
    BY DEF Accounts
  <2>2. \A o, u, pl, m, ch : CheckedCreate(s, k, o, u, pl, m, ch) =>
          owner'[a] = owner[a] /\ ua'[a] = ua[a]
    BY <1>2, <2>1 DEF CheckedCreate, CreateV2, TypeOK
  <2>3. \A u, pl, m, ch : CheckedCreateCollection(s, k, u, pl, m, ch) =>
          owner'[a] = owner[a] /\ ua'[a] = ua[a]
    BY <1>2, <2>1 DEF CheckedCreateCollection, CreateCollectionV2, TypeOK
  <2> QED
    BY <2>2, <2>3 DEF CheckedBirth
<1>4. ua[a] \in Collections => ua[a] # k
  BY <1>1 DEF MembersFounded, Live
<1>5. SameRoyalties(a) /\ (ua[a] \in Collections => SameRoyalties(ua[a]))
  BY <1>1, <1>2, <1>4, UnwrittenRoyalties DEF Accounts
<1> QED
  BY <1>3, <1>5, SameRules DEF RoyaltiesBind

\* Only its update authority closes a collection.
LEMMA BurnBinds ==
  ASSUME TypeOK, CheckedTypeOK, NEW s \in Signers, NEW k \in Accounts,
         CheckedBurn(s, k), NEW a \in Assets, a # k
  PROVE  RoyaltiesBind(a)
<1>1. a \in Accounts /\ ua[a] \in UpdateAuthorities
  BY DEF Accounts, TypeOK
<1>2. caller' = s /\ \A j \in Accounts \ { k } : checked'[j] = checked[j]
  BY DEF CheckedBurn, CheckedTypeOK
<1>3. owner'[a] = owner[a] /\ ua'[a] = ua[a]
  BY <1>1 DEF CheckedBurn, Burn, BurnCollection, Close, TypeOK
<1>4. CASE k \in Collections
  <2>1. s = ua[k]
    BY <1>4, KeysAssumption DEF CheckedBurn, BurnCollection
  <2>2. s \in RoyaltyHands(k)
    BY <2>1 DEF RoyaltyHands
  <2> QED
    BY <1>1, <1>2, <1>3, <2>2, UnwrittenRoyalties, HonestStep
<1>5. CASE k \notin Collections
  <2>1. SameRoyalties(a) /\ (ua[a] \in Collections => SameRoyalties(ua[a]))
    BY <1>1, <1>2, <1>5, UnwrittenRoyalties DEF Accounts
  <2> QED
    BY <1>3, <2>1, SameRules DEF RoyaltiesBind
<1> QED
  BY <1>4, <1>5

\* A transfer heeds the rules and leaves the royalties.
LEMMA TransferBinds ==
  ASSUME TypeOK, CheckedTypeOK, NEW s \in Signers, NEW b \in Assets,
         NEW o \in Wallets, CheckedTransfer(s, b, o), NEW a \in Assets
  PROVE  RoyaltiesBind(a)
<1>1. a \in Accounts /\ b \in Accounts
  BY DEF Accounts
<1>2. /\ caller' = s /\ ua' = ua
      /\ owner'[a] = IF a = b THEN o ELSE owner[a]
      /\ \A j \in Accounts : checked'[j] = IF j = b THEN Handed(checked[j]) ELSE checked[j]
  <2>1. /\ caller' = s
        /\ \A j \in Accounts :
             checked'[j] = IF j = b THEN Handed(checked[j]) ELSE checked[j]
    BY <1>1, TransferHands DEF CheckedTypeOK
  <2>2. ua' = ua /\ owner'[a] = IF a = b THEN o ELSE owner[a]
    BY DEF CheckedTransfer, Transfer, TypeOK
  <2> QED
    BY <2>1, <2>2
<1>3. \A j \in Accounts : SameRoyalties(j)
  <2> SUFFICES ASSUME NEW j \in Accounts PROVE SameRoyalties(j)
    OBVIOUS
  <2>1. checked[j] \in CheckedMaps /\ WellTyped(checked[j])
    BY DEF CheckedTypeOK
  <2> QED
    BY <1>2, <2>1, HandedType, UnwrittenRoyalties DEF SameRoyalties
<1>4. RoyaltyData(a)' = RoyaltyData(a)
  BY <1>1, <1>2, <1>3, SameRules DEF Accounts
<1>5. a = b /\ Rules(a) # NoPlugin =>
        Forced(s, a) \/ ~RulesForbid(Rules(a).data, s, o)
  BY DEF CheckedTransfer
<1> QED
  BY <1>2, <1>4, <1>5 DEF RoyaltiesBind

\* Who takes an asset out of its collection, and so away from the collection's
\* royalties, is entitled to both.
LEMMA PlainBinds ==
  ASSUME TypeOK, NEW s \in Signers, PlainInstruction(s), NEW a \in Assets
  PROVE  RoyaltiesBind(a)
<1>0. /\ AssetTypes \in SUBSET PluginTypes /\ CollectionTypes \in SUBSET PluginTypes
      /\ Assets \subseteq Accounts /\ Collections \subseteq Accounts
      /\ ua[a] \in UpdateAuthorities
  BY ArgsAssumption DEF Accounts, TypeOK
<1>1. caller' = s /\ \A j \in Accounts : SameRoyalties(j)
  BY UnwrittenRoyalties DEF PlainInstruction
<1>2. CASE owner'[a] = owner[a] /\ ua'[a] = ua[a]
  BY <1>0, <1>1, <1>2, HonestStep
<1>3. ASSUME NEW v, NEW u, NEW m, Update(s, a, v, u, m)
      PROVE  owner'[a] = owner[a] /\ s \in RoyaltyKeepers(a)
  <2>1. \/ s = ua[a] \/ (ua[a] \in Collections /\ s = ua[ua[a]])
        \/ Has(a, "UpdateDelegate") /\ DelegateOf(Held(a)["UpdateDelegate"], s, a)
    BY <1>3, UpdaterIsEntitled DEF Update
  <2>2. s \in RoyaltyHands(a)
    BY <2>1 DEF RoyaltyHands, AuthorityOver
  <2> QED
    BY <1>0, <1>3, <2>2 DEF Update, RoyaltyKeepers
<1>4. CASE \E v, u, m : Update(s, a, v, u, m)
  BY <1>1, <1>3, <1>4 DEF RoyaltiesBind
<1>5. CASE ~\E v, u, m : Update(s, a, v, u, m)
  <2>1. ASSUME NEW k \in Accounts, NEW types \in SUBSET PluginTypes,
               PluginInstruction(s, k, types)
        PROVE  owner'[a] = owner[a] /\ ua'[a] = ua[a]
    BY <2>1, PluginInstructionWritesOneRecord
  <2>2. ASSUME NEW b \in Assets, NEW v, NEW u, NEW m, Update(s, b, v, u, m)
        PROVE  owner'[a] = owner[a] /\ ua'[a] = ua[a]
    BY <1>0, <1>5, <2>2 DEF Update, TypeOK
  <2>3. ASSUME NEW c \in Collections, NEW u, NEW m, UpdateCollection(s, c, u, m)
        PROVE  owner'[a] = owner[a] /\ ua'[a] = ua[a]
    BY <1>0, <2>3, KeysAssumption DEF UpdateCollection, TypeOK
  <2> QED
    BY <1>0, <1>2, <2>1, <2>2, <2>3 DEF PlainInstruction
<1> QED
  BY <1>4, <1>5

\* The rules of royalties hold for every change of hands, and only those whose
\* business they are change the royalties, on every path.
THEOREM RoyaltiesBindOwners == CheckedSpec => RoyaltiesBindTheOwner
<1> DEFINE A ==
      \A a \in Assets : Live(a) /\ Live(a)' =>
        /\ RoyaltyData(a)' # RoyaltyData(a) => caller' \in RoyaltyKeepers(a)
        /\ owner[a]' # owner[a] /\ Rules(a) # NoPlugin =>
             ~RulesForbid(Rules(a).data, caller', owner[a]')
             \/ Forced(caller', a)
<1>1. TypeOK /\ CheckedTypeOK /\ MembersFounded /\ CheckedNext => A
  <2> SUFFICES ASSUME TypeOK, CheckedTypeOK, MembersFounded, CheckedNext,
                      NEW a \in Assets, Live(a), Live(a)'
               PROVE  RoyaltiesBind(a)
    BY DEF RoyaltiesBind
  <2>1. ASSUME NEW s \in Signers, NEW k \in Accounts, CheckedBurn(s, k)
        PROVE  RoyaltiesBind(a)
    <3>1. a # k
      BY <2>1 DEF CheckedBurn, Burn, BurnCollection, Close, TypeOK, Live
    <3> QED
      BY <2>1, <3>1, BurnBinds
  <2> QED
    BY <2>1, InstructionBinds, BirthBinds, TransferBinds, PlainBinds DEF CheckedNext
<1>2. TypeOK /\ CheckedTypeOK /\ MembersFounded /\ [CheckedNext]_checkedVars
      => [A]_checkedVars
  BY <1>1
<1> HIDE DEF A
<1>3. CheckedInit => MembersFounded
  BY DEF CheckedInit, Init, MembersFounded, Live, Accounts
<1>4. TypeOK /\ MembersFounded /\ [CheckedNext]_checkedVars => MembersFounded'
  BY CheckedStepIsLedgerStep, StepFounded
<1>5. CheckedSpec => [][A]_checkedVars
  BY <1>2, <1>3, <1>4, CheckedTypesHold, PTL DEF CheckedSpec
<1> QED
  BY <1>5 DEF A, RoyaltiesBindTheOwner

=============================================================================
