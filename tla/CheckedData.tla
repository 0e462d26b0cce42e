----------------------------- MODULE CheckedData -----------------------------
(***************************************************************************)
(* The three plugins that check their own data.                            *)
(*                                                                         *)
(*   Royalties         shares that add up, and rules about the programs    *)
(*                     between whose accounts the asset may move,          *)
(*   VerifiedCreators  a list of creators, each of whom verifies itself,   *)
(*   Autograph         a book in which anybody signs for itself.           *)
(*                                                                         *)
(* Anybody may update the last two, within limits; that is for the plugin  *)
(* to say, not for an authority.  The plugins of the ledger and these only *)
(* meet in the verdict.                                                    *)
(***************************************************************************)
EXTENDS MplCore, Sequences, SequencesExt

CONSTANTS
  CheckedTypes,   \* those of the three that this instance has
  RoyaltyArgs,    \* the royalties that instructions name
  Messages,       \* what signers write
  ProgramOf,      \* the program that owns a wallet's account
  CheckedBirths,  \* the data that accounts may be born with
  MaxChecked      \* bound: so many of these plugins at a time

SignedTypes == { "VerifiedCreators", "Autograph" }

Absent == "Absent"

\* No instruction gets a duplicate past the plugin, so a list of signatures is
\* a function from those who may sign.
Books == [Wallets -> Messages \cup { Absent }]
CreatorLists == [Wallets -> { Absent, "Unverified", "Verified" }]
Blank == [w \in Wallets |-> Absent]

DataArgs(t) ==
  CASE t = "Royalties" -> RoyaltyArgs
    [] t = "Autograph" -> Books
    [] t = "VerifiedCreators" -> CreatorLists

CheckedRecord(t) == [auth : Authorities, data : DataArgs(t)]

CheckedMaps ==
  [CheckedTypes -> (UNION { CheckedRecord(t) : t \in CheckedTypes }) \cup { NoPlugin }]

NothingChecked == [t \in CheckedTypes |-> NoPlugin]

\* Each record holds the data of its type.
WellTyped(ch) == \A t \in CheckedTypes : ch[t] \in CheckedRecord(t) \cup { NoPlugin }

ASSUME CheckedArgsAssumption ==
  /\ CheckedTypes \subseteq SignedTypes \cup { "Royalties" }
  /\ Absent \notin Messages
  /\ DOMAIN ProgramOf = Wallets
  /\ \A r \in RoyaltyArgs :
       /\ r.basisPoints \in 0 .. 65535
       /\ \A i \in DOMAIN r.creators : r.creators[i].percentage \in 0 .. 255
       /\ r.rule \in { "None", "Allow", "Deny" }
  /\ MaxChecked \in Nat

ASSUME CheckedBirthsAssumption ==
  /\ \A t \in CheckedTypes : NoPlugin \notin CheckedRecord(t)
  /\ CheckedBirths \subseteq CheckedMaps
  /\ \A ch \in CheckedBirths : WellTyped(ch)

VARIABLES
  checked,  \* the records of these plugins on each account
  caller    \* history: who signed the last instruction

checkedVars == << vars, checked, caller >>

CheckedInit ==
  /\ Init
  /\ checked = [k \in Accounts |-> NothingChecked]
  /\ caller = "None"

-----------------------------------------------------------------------------
(* What the plugins say of data *)

\* The shares are added up in eight bits.
SaturatingU8(n) == IF n > 255 THEN 255 ELSE n

Shares(r) ==
  FoldLeft(LAMBDA sum, c : SaturatingU8(sum + c.percentage), 0, r.creators)

\* validate_royalties.
ValidRoyalties(r) ==
  /\ r.basisPoints <= 10000
  /\ Shares(r) = 100
  /\ \A i, j \in DOMAIN r.creators :
       r.creators[i].address = r.creators[j].address => i = j

\* Mutant of MayAutograph: who signs may also sign for others.
MayAutographForAll(old, new, s, holds) ==
  /\ \A w \in Wallets : old[w] # Absent => new[w] \in { old[w], Absent }
  /\ holds \/ \A w \in Wallets : old[w] # Absent => new[w] # Absent

\* validate_autograph: each signs for itself, what is written stays as it is,
\* and only the authority of the plugin strikes signatures.
MayAutograph(old, new, s, holds) ==
  /\ \A w \in Wallets :
       IF old[w] # Absent THEN new[w] \in { old[w], Absent }
       ELSE w # s => new[w] = Absent
  /\ holds \/ \A w \in Wallets : old[w] # Absent => new[w] # Absent

\* Mutant of MayVerify: the authority of the plugin may remove who is verified.
MayVerifyOrRemove(old, new, s) ==
  \A w \in Wallets \ { s } :
    "Verified" \in { old[w], new[w] } => new[w] \in { old[w], Absent }

\* validate_verified_creators_as_plugin_authority: who is verified, or is to
\* be, is for nobody else to touch.
MayVerify(old, new, s) ==
  \A w \in Wallets \ { s } : "Verified" \in { old[w], new[w] } => new[w] = old[w]

\* validate_verified_creators_as_creator: no name comes or goes.
MayVerifyItself(old, new, s) ==
  /\ \A w \in Wallets : old[w] = Absent <=> new[w] = Absent
  /\ \A w \in Wallets \ { s } : new[w] = old[w]

\* validate_create and validate_add_plugin of data that signer s brings.
MayBring(t, data, s) ==
  CASE t = "Royalties" -> ValidRoyalties(data)
    [] t = "Autograph" -> MayAutograph(Blank, data, s, TRUE)
    [] t = "VerifiedCreators" -> MayVerify(Blank, data, s)

\* validate_update_plugin: royalties are only checked when the authority of
\* the plugin writes them.
MayWriteData(t, old, new, s, holds) ==
  CASE t = "Royalties" -> holds => ValidRoyalties(new)
    [] t = "Autograph" -> MayAutograph(old, new, s, holds)
    [] t = "VerifiedCreators" ->
         IF holds THEN MayVerify(old, new, s) ELSE MayVerifyItself(old, new, s)

-----------------------------------------------------------------------------
(* The verdict *)

ContextOf(s, k, t, auth) ==
  [(IF k \in Assets THEN AssetContext(s, owner[k], ua[k]) ELSE CollectionContext(s, k))
     EXCEPT !.target = t, !.new = [auth |-> auth]]

\* own: the plugin that the instruction is about approves.
CheckedGranted(op, s, k, t, auth, own) ==
  LET x == ContextOf(s, k, t, auth)
  IN IF k \in Assets
     THEN Granted(op, Effective(plugins[k], ua[k]), x,
            \/ own
            \/ AssetApproves(op, s, owner[k], ua[k], t)
            \/ ua[k] \in Collections /\ CollectionApproves(op, s, ua[k], t))
     ELSE Granted(op, plugins[k], x, own \/ CollectionApproves(op, s, k, t))

HoldsChecked(s, k, rec) == rec.auth \in ContextOf(s, k, "None", "None").resolved

SetChecked(k, t, rec) == checked' = [checked EXCEPT ![k][t] = rec]

CheckedStep(s) == caller' = s /\ UNCHANGED vars

\* Bound: the accounts carry so many of these plugins together.
CheckedCount == Cardinality({ kt \in Accounts \X CheckedTypes :
                                checked[kt[1]][kt[2]] # NoPlugin })

BirthCount(ch) == Cardinality({ t \in CheckedTypes : ch[t] # NoPlugin })

\* Mutant of ApprovesData: every plugin approves what passes its check.
ApprovesAnyData(t, holds) == TRUE

\* Two of them approve every update that passes their check.
ApprovesData(t, holds) == t \in SignedTypes \/ holds

\* The collection's plugin of the same type is asked too, and looks at its own
\* data instead of the new.
AddChecked(s, k, t, rec) ==
  /\ Live(k) /\ checked[k][t] = NoPlugin /\ CheckedCount < MaxChecked
  /\ k \in Collections => t \notin OwnerManaged
  /\ MayBring(t, rec.data, s)
  /\ k \in Assets /\ ua[k] \in Collections =>
       LET over == checked[ua[k]][t]
       IN over # NoPlugin => MayBring(t, over.data, s)
  /\ CheckedGranted("AddPlugin", s, k, t, rec.auth, FALSE)
  /\ SetChecked(k, t, rec) /\ CheckedStep(s)

UpdateChecked(s, k, t, data) ==
  /\ Live(k) /\ checked[k][t] # NoPlugin
  /\ LET rec == checked[k][t]
         holds == HoldsChecked(s, k, rec)
     IN /\ MayWriteData(t, rec.data, data, s, holds)
        /\ CheckedGranted("UpdatePlugin", s, k, t, rec.auth, ApprovesData(t, holds))
        /\ SetChecked(k, t, [rec EXCEPT !.data = data])
  /\ CheckedStep(s)

\* The other instructions do not look at the data.
ManageChecked(op, s, k, t) ==
  /\ Live(k) /\ checked[k][t] # NoPlugin
  /\ LET rec == checked[k][t]
         x == ContextOf(s, k, t, rec.auth)
     IN /\ ~Rejects(op, t, rec, x)
        /\ CheckedGranted(op, s, k, t, rec.auth, Approves(op, t, rec, x))
  /\ CheckedStep(s)

RemoveChecked(s, k, t) ==
  ManageChecked("RemovePlugin", s, k, t) /\ SetChecked(k, t, NoPlugin)

ApproveChecked(s, k, t, auth) ==
  /\ ManageChecked("ApprovePluginAuthority", s, k, t)
  /\ SetChecked(k, t, [checked[k][t] EXCEPT !.auth = auth])

RevokeChecked(s, k, t) ==
  /\ ManageChecked("RevokePluginAuthority", s, k, t)
  /\ SetChecked(k, t, [checked[k][t] EXCEPT !.auth = Manager(t)])

-----------------------------------------------------------------------------
(* The ledger *)

BroughtBy(ch, s) ==
  \A t \in CheckedTypes : ch[t] # NoPlugin => MayBring(t, ch[t].data, s)

\* The royalties that count for an asset.
Rules(a) ==
  IF "Royalties" \notin CheckedTypes THEN NoPlugin
  ELSE IF checked[a]["Royalties"] = NoPlugin /\ ua[a] \in Collections
  THEN checked[ua[a]]["Royalties"] ELSE checked[a]["Royalties"]

\* Royalties::validate_transfer.
RulesForbid(r, s, o) ==
  \/ r.rule = "Allow" /\ ~({ ProgramOf[s], ProgramOf[o] } \subseteq r.programs)
  \/ r.rule = "Deny" /\ { ProgramOf[s], ProgramOf[o] } \cap r.programs # {}

\* The force of a permanent delegate beats the rules.
Forced(s, a) ==
  LET held == Effective(plugins[a], ua[a])
      x == AssetContext(s, owner[a], ua[a])
  IN \E p \in PluginTypes : held[p] # NoPlugin /\ Forces("Transfer", p, held[p], x)

CheckedTransfer(s, a, o) ==
  /\ Transfer(s, a, o)
  /\ Rules(a) # NoPlugin => Forced(s, a) \/ ~RulesForbid(Rules(a).data, s, o)
  /\ checked' = [checked EXCEPT ![a] =
       [t \in CheckedTypes |->
          IF t \in OwnerManaged /\ @[t] # NoPlugin
          THEN [@[t] EXCEPT !.auth = "Owner"] ELSE @[t]]]
  /\ caller' = s

\* The plugins of the collection are asked about the creation as if they were
\* being created themselves.
CheckedCreate(s, a, o, u, pl, m, ch) ==
  /\ CreateV2(s, a, o, u, pl, m)
  /\ u \in Collections => BroughtBy(checked[u], s)
  /\ BroughtBy(ch, s)
  /\ checked' = [checked EXCEPT ![a] = ch]
  /\ caller' = s

CheckedCreateCollection(s, c, u, pl, m, ch) ==
  /\ CreateCollectionV2(s, c, u, pl, m)
  /\ \A t \in CheckedTypes : ch[t] # NoPlugin =>
       /\ t \notin OwnerManaged
       /\ Carries(pl, { "BubblegumV2" }) => t \in BubblegumAllowList
  /\ BroughtBy(ch, s)
  /\ checked' = [checked EXCEPT ![c] = ch]
  /\ caller' = s

\* Mutant of CheckedBurn: what the plugins hold stays behind.
BurnKeepingData(s, k) ==
  /\ \/ k \in Assets /\ Burn(s, k)
     \/ k \in Collections /\ BurnCollection(s, k)
  /\ caller' = s /\ UNCHANGED checked

CheckedBurn(s, k) ==
  /\ \/ k \in Assets /\ Burn(s, k)
     \/ k \in Collections /\ BurnCollection(s, k)
  /\ checked' = [checked EXCEPT ![k] = NothingChecked]
  /\ caller' = s

\* What does not look at these plugins.
PlainInstruction(s) ==
  /\ \/ \E a \in Assets :
          \/ PluginInstruction(s, a, AssetTypes)
          \/ \E v \in { "V1", "V2" }, u \in UpdateAuthorities \cup { Keep },
                m \in Metas \cup { Keep } : Update(s, a, v, u, m)
     \/ \E c \in Collections :
          \/ PluginInstruction(s, c, CollectionTypes)
          \/ \E u \in Wallets \cup { Keep }, m \in Metas \cup { Keep } :
                UpdateCollection(s, c, u, m)
  /\ caller' = s /\ UNCHANGED checked

CheckedInstruction(s, k) ==
  \E t \in CheckedTypes :
    \/ \E auth \in AuthorityArgs \cup { Manager(t) }, data \in DataArgs(t) :
         AddChecked(s, k, t, [auth |-> auth, data |-> data])
    \/ \E data \in DataArgs(t) : UpdateChecked(s, k, t, data)
    \/ RemoveChecked(s, k, t)
    \/ \E auth \in AuthorityArgs : ApproveChecked(s, k, t, auth)
    \/ RevokeChecked(s, k, t)

CheckedBirth(s, k) ==
  \E u \in Wallets \cup Collections, m \in Metas, ch \in CheckedBirths :
    /\ stage[k] = "Free" /\ CheckedCount + BirthCount(ch) <= MaxChecked
    /\ \/ k \in Assets /\ \E o \in Wallets, pl \in AssetBirths :
            CheckedCreate(s, k, o, u, pl, m, ch)
       \/ k \in Collections /\ u \in Wallets /\ \E pl \in CollectionBirths :
            CheckedCreateCollection(s, k, u, pl, m, ch)

CheckedNext ==
  \E s \in Signers :
    \/ \E k \in Accounts :
         CheckedInstruction(s, k) \/ CheckedBirth(s, k) \/ CheckedBurn(s, k)
    \/ \E a \in Assets, o \in Wallets : CheckedTransfer(s, a, o)
    \/ PlainInstruction(s)

CheckedSpec == CheckedInit /\ [][CheckedNext]_checkedVars

=============================================================================
