-------------------------- MODULE MplCoreProperties --------------------------
(***************************************************************************)
(* What the ledger of MplCore promises.  A property speaks of the records  *)
(* that count for an asset (Held), because that is where the handlers look,*)
(* but decides for itself what they are and who holds them.                *)
(***************************************************************************)
EXTENDS MplCore

\* The type invariant; the counters stay within their 32 bits.
TypeOK ==
  /\ stage \in [Accounts -> { "Free", "Live", "Closed" }]
  /\ owner \in [Assets -> Wallets \cup { "None" }]
  /\ ua \in [Accounts -> UpdateAuthorities]
  /\ \A c \in Collections : ua[c] \in Wallets \cup { "None" }
  /\ meta \in [Accounts -> Metas \cup { "None" }]
  /\ plugins \in [Accounts -> PluginMaps]
  /\ size \in [Collections -> 0 .. U32Max]
  /\ minted \in [Collections -> 0 .. U32Max]
  /\ leaves \in [Collections -> 0 .. MaxLeaves]

-----------------------------------------------------------------------------
(* Collections and their members *)

\* current_size never counts a member that is not there, whatever create,
\* update, burn and the reports of Bubblegum do, saturated counters included.
SizeNeverOvercounts ==
  \A c \in Collections : size[c] <= Cardinality(Members(c)) + leaves[c]

\* There are fewer members than a counter can count.
Roomy == Cardinality(Assets) + MaxLeaves <= U32Max

\* current_size is the number of members: burn_collection relies on it to know
\* that a collection is empty, and decrement_size not to fail for a member.
SizeIsExact ==
  Roomy => \A c \in Collections :
             size[c] = Cardinality(Members(c)) + leaves[c]

\* No live asset refers to a collection that was burned: it could never again
\* be transferred, updated or burned, for want of the collection account.
MembersHaveALiveCollection ==
  Roomy => \A a \in Assets :
             Live(a) /\ ua[a] \in Collections => Live(ua[a])

\* The members of each collection, read off the assets.
Home == [a \in Assets |-> IF Live(a) /\ ua[a] \in Collections
                          THEN ua[a] ELSE "None"]

Roll == INSTANCE Membership WITH
          Nowhere <- "None", phase <- [c \in Collections |-> stage[c]],
          home <- Home

\* The counters and references implement the sets of members: a collection is
\* closed only when it has no member, however assets and Bubblegum's reports
\* came and went (for Roomy constants).
MembershipSpec == Roll!Spec

\* The update authority of an account: a member has that of its collection.
AuthorityOver(k) ==
  IF k \in Assets /\ ua[k] \in Collections THEN ua[ua[k]] ELSE ua[k]

\* The holder of a record on account k.
HolderOf(rec, s, k) ==
  \/ rec.auth = s
  \/ rec.auth = "Owner" /\ s = IF k \in Assets THEN owner[k] ELSE ua[k]
  \/ rec.auth = "UpdateAuthority" /\ s = AuthorityOver(k)

DelegateOf(rec, s, k) == HolderOf(rec, s, k) \/ s \in rec.delegates

StaysLive(k) == Live(k) /\ stage'[k] = "Live"

\* The records that count for an asset: its own, and those of its collection
\* where it has none of that type.
Held(a) ==
  [p \in PluginTypes |->
     IF plugins[a][p] = NoPlugin /\ ua[a] \in Collections
     THEN plugins[ua[a]][p] ELSE plugins[a][p]]

\* Is there a record of type p that counts for asset a?
Has(a, p) == p \in PluginTypes /\ Held(a)[p] # NoPlugin

\* An asset leaves its collection only by the hand of the collection: its
\* update authority, its own key, or its UpdateDelegate where the asset has
\* none.  It enters one only by a hand of the new collection: its update
\* authority, or a holder or delegate of its UpdateDelegate.
\* (update: the two sides are checked in different places.)
MembershipNeedsBothSides ==
  [][\A a \in Assets :
       StaysLive(a) /\ ua'[a] # ua[a] =>
         /\ ua[a] \in Collections =>
              \/ ix'.by \in { ua[a], ua[ua[a]] }
              \/ /\ Has(a, "UpdateDelegate")
                 /\ plugins[a]["UpdateDelegate"] = NoPlugin
                 /\ DelegateOf(Held(a)["UpdateDelegate"], ix'.by, a)
         /\ ua'[a] \in Collections =>
              \/ ix'.by = ua[ua'[a]]
              \/ /\ Carries(plugins[ua'[a]], { "UpdateDelegate" })
                 /\ DelegateOf(plugins[ua'[a]]["UpdateDelegate"], ix'.by, ua'[a])]_vars

\* A permanent delegate comes with an account's birth or never: a live asset
\* is not put under one later, neither by a plugin added to it or to its
\* collection nor by a move into a collection that has one.
PermanentDelegatesNeverArrive ==
  [][\A a \in Assets, p \in PermanentDelegates :
       StaysLive(a) /\ Has(a, p)' => Has(a, p)]_vars

-----------------------------------------------------------------------------
(* Ownership and freezing *)

FreezingTypes == { "FreezeDelegate", "PermanentFreezeDelegate" }

Frozen(a) == \E p \in FreezingTypes : Has(a, p) /\ Held(a)[p].frozen

\* The signer holds a plugin of type p that counts for the asset.
HoldsPlugin(a, p, s) == Has(a, p) /\ HolderOf(Held(a)[p], s, a)

\* An asset changes hands, or is burned, by its owner or by a delegate for that
\* purpose; while it is frozen, only a permanent delegate moves it.
OnlyTheEntitledMoveAnAsset ==
  [][\A a \in Assets :
       /\ Live(a) /\ owner'[a] # owner[a] /\ stage'[a] = "Live" =>
            \/ HoldsPlugin(a, "PermanentTransferDelegate", ix'.by)
            \/ /\ ~Frozen(a)
               /\ ix'.by = owner[a] \/ HoldsPlugin(a, "TransferDelegate", ix'.by)
       /\ Live(a) /\ stage'[a] = "Closed" =>
            \/ HoldsPlugin(a, "PermanentBurnDelegate", ix'.by)
            \/ /\ ~Frozen(a)
               /\ ix'.by = owner[a] \/ HoldsPlugin(a, "BurnDelegate", ix'.by)]_vars

\* A frozen plugin stays where it is: it is not removed, so it cannot be put
\* back thawed, and it thaws only by an update_plugin of its holder, or of an
\* UpdateDelegate that stands in for the update authority.  (Four validators
\* see to it, two of them by looking at the target of the instruction.)
OnlyTheHolderThaws ==
  [][\A k \in Accounts, p \in PluginTypes \cap FreezeTypes :
       StaysLive(k) /\ plugins[k][p] # NoPlugin /\ plugins[k][p].frozen =>
         /\ plugins'[k][p] # NoPlugin
         /\ ~plugins'[k][p].frozen =>
              /\ ix'.op = "UpdatePlugin"
              /\ \/ HolderOf(plugins[k][p], ix'.by, k)
                 \/ plugins[k][p].auth = "UpdateAuthority"]_vars

-----------------------------------------------------------------------------
(* The UpdateDelegate plugin *)

\* The authority of an UpdateDelegate record, once it stands, is moved only by
\* its own holder or by the update authority: an additional delegate cannot
\* take the plugin over.
UpdateDelegateIsNotSeized ==
  [][\A k \in Accounts :
       StaysLive(k) /\ "UpdateDelegate" \in PluginTypes =>
         LET old == plugins[k]["UpdateDelegate"]
             new == plugins'[k]["UpdateDelegate"]
         IN old # NoPlugin /\ new # NoPlugin =>
              /\ new.auth # old.auth =>
                   \/ HolderOf(old, ix'.by, k)
                   \/ HolderOf([old EXCEPT !.auth = "UpdateAuthority"], ix'.by, k)
              /\ ~(new.delegates \subseteq old.delegates) =>
                   HolderOf(old, ix'.by, k)]_vars

-----------------------------------------------------------------------------
(* What plugins keep out *)

\* While an AddBlocker counts for an asset nothing but plugins of its owner (and
\* AddBlocker itself) is added to it: not by the update authority, not by an
\* UpdateDelegate, not through the collection.
AddBlockerHolds ==
  [][\A k \in Accounts, p \in PluginTypes \ (OwnerManaged \cup { "AddBlocker" }) :
       /\ StaysLive(k)
       /\ IF k \in Assets THEN Has(k, "AddBlocker")
          ELSE Carries(plugins[k], { "AddBlocker" })
       => (plugins'[k][p] # NoPlugin => plugins[k][p] # NoPlugin)]_vars

\* While ImmutableMetadata counts for an account its name, uri and update
\* authority stay: so a member cannot leave its collection to escape the plugin
\* of the collection and be renamed outside.
ImmutableMetadataHolds ==
  [][\A k \in Accounts :
       /\ StaysLive(k)
       /\ IF k \in Assets THEN Has(k, "ImmutableMetadata")
          ELSE Carries(plugins[k], { "ImmutableMetadata" })
       => meta'[k] = meta[k] /\ ua'[k] = ua[k]]_vars

\* What a collection carries: nothing that belongs to an owner, no Edition, and
\* with BubblegumV2 only what the Bubblegum program supports, however the
\* plugins got there (birth and addition are checked by different code).
CollectionPluginsAreLawful ==
  \A c \in Collections :
    /\ ~Carries(plugins[c], OwnerManaged \cup { "Edition" })
    /\ Carries(plugins[c], { "BubblegumV2" }) =>
         /\ ~Carries(plugins[c], AllPluginTypes \ (BubblegumAllowList \cup { "BubblegumV2" }))
         /\ plugins[c]["BubblegumV2"].auth = Manager("BubblegumV2")

\* Edition and BubblegumV2 are for life: born with the account, never added to
\* it and never removed.
LifelongPluginsStay ==
  [][\A k \in Accounts, p \in PluginTypes \cap { "Edition", "BubblegumV2" } :
       StaysLive(k) => (plugins'[k][p] = NoPlugin <=> plugins[k][p] = NoPlugin)]_vars

=============================================================================
