------------------------ MODULE CheckedDataProperties ------------------------
(* What the plugins that check their own data promise. *)
EXTENDS CheckedData, MplCoreProperties

\* Types, and an account has none of these plugins unless it lives.  The
\* second half is what the closing of accounts and births in any order could
\* break.
CheckedTypeOK ==
  /\ checked \in [Accounts -> CheckedMaps]
  /\ \A k \in Accounts : WellTyped(checked[k])
  /\ \A k \in Accounts, t \in CheckedTypes : checked[k][t] # NoPlugin => Live(k)
  /\ caller \in Signers \cup { "None" }

HasChecked(k, t) == t \in CheckedTypes /\ checked[k][t] # NoPlugin

\* What w has put its name to on account k: nothing, a message, or that it
\* verifies itself.
Word(k, t, w) ==
  IF ~HasChecked(k, t) THEN Absent
  ELSE IF checked[k][t].data[w] = "Unverified" THEN Absent ELSE checked[k][t].data[w]

\* Nobody's name is put to anything by somebody else, on whatever path the
\* data comes: born with the account, added to it, or written into it by the
\* authority of the plugin, by its delegate or by a stranger.
SignaturesAreTheirOwn ==
  [][\A k \in Accounts, t \in CheckedTypes \cap SignedTypes, w \in Wallets :
       Word(k, t, w)' \notin { Absent, Word(k, t, w) } => caller' = w]_checkedVars

\* What a wallet has put its name to stands until the wallet itself takes it
\* back: only the authority of an autograph book may strike a name, and only
\* with the whole plugin, or the whole account, does all that is in it go.
SignaturesStand ==
  [][\A k \in Accounts, t \in CheckedTypes \cap SignedTypes, w \in Wallets :
       Word(k, t, w) # Absent /\ Word(k, t, w)' # Word(k, t, w) =>
         \/ caller' = w
         \/ ~HasChecked(k, t)'
         \/ /\ t = "Autograph" /\ Word(k, t, w)' = Absent
            /\ HoldsChecked(caller', k, checked[k][t])]_checkedVars

\* Those who may manage royalties on account k: its update authority, who
\* stands for it as UpdateDelegate, and who holds royalties that are there.
RoyaltyHands(k) ==
  { s \in Signers :
      \/ s \in { ua[k], AuthorityOver(k) }
      \/ Has(k, "UpdateDelegate") /\ DelegateOf(Held(k)["UpdateDelegate"], s, k)
      \/ HasChecked(k, "Royalties") /\ HolderOf(checked[k]["Royalties"], s, k) }

\* Whose business the royalties of asset a are: those on the asset and those on
\* its collection.
RoyaltyKeepers(a) == UNION { RoyaltyHands(k) : k \in { a, ua[a] } \cap Accounts }

RoyaltyData(a) == IF Rules(a) = NoPlugin THEN NoPlugin ELSE Rules(a).data

\* An asset never changes hands between programs that its royalties, or those
\* it has from its collection, keep apart, unless a permanent delegate forces
\* it; and whoever has no say in the royalties, the owner first of all, cannot
\* get rid of them or change them on the way, neither on the asset nor on the
\* collection, nor by taking the asset out of it.
RoyaltiesBindTheOwner ==
  [][\A a \in Assets : Live(a) /\ Live(a)' =>
       /\ RoyaltyData(a)' # RoyaltyData(a) => caller' \in RoyaltyKeepers(a)
       /\ owner[a]' # owner[a] /\ Rules(a) # NoPlugin =>
            ~RulesForbid(Rules(a).data, caller', owner[a]')
            \/ Forced(caller', a)]_checkedVars

\* The shares of all royalties add up and their basis points stay below the
\* whole, as the tests of updates ask (clients/js/test/plugins/asset/
\* royalties.test.ts:688).  The UpdateDelegate, which may update a plugin that
\* is not its own, writes them unchecked.
RoyaltiesAddUp ==
  \A k \in Accounts : HasChecked(k, "Royalties") => ValidRoyalties(checked[k]["Royalties"].data)

=============================================================================
