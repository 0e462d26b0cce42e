-------------------------- MODULE AdaptersProperties --------------------------
(***************************************************************************)
(* What adapters and executions promise.  As in MplCoreProperties, a       *)
(* property decides for itself which records count and who holds them.     *)
(***************************************************************************)
EXTENDS Adapters, MplCoreProperties

Registered(k, key) == adapters[k][key] # NoAdapter

\* The type invariant; what is on an account is there by right, whichever of
\* the three ways (birth, addition, a section of linked data) it came.
AdaptersTypeOK ==
  /\ adapters \in [Accounts -> AdapterMaps]
  /\ oracles \in [OracleAccounts -> SUBSET (HookEvents \cup { "Uninitialized" })]
  /\ agents \subseteq Assets \X Wallets
  /\ \A k \in Accounts, key \in AdapterKeys : Registered(k, key) =>
       /\ Live(k)
       /\ key.type \notin { "LifecycleHook", "LinkedLifecycleHook" }
       /\ key.type = "LinkedAppData" => k \in Collections
       /\ key.type = "AgentIdentity" => k \in Assets

\* A collection of Bubblegum, whose compressed members no adapter could be
\* asked about, has none: neither from its birth nor added later, nor does it
\* get its BubblegumV2 later (three handlers keep the two apart).
BubblegumCollectionsAreBare ==
  \A c \in Collections :
    Carries(plugins[c], { "BubblegumV2" }) => adapters[c] = NoAdapters

-----------------------------------------------------------------------------
(* Oracles *)

Names(rec, event) == rec # NoAdapter /\ \E c \in rec.checks : c[1] = event

\* What an oracle's own account is derived from, for an asset with owner o and
\* update authority u that goes to recipient.
Origin(rec, a, o, u, recipient) ==
  CASE rec.config = "Base" -> "Base"
    [] rec.config = "Asset" -> a
    [] rec.config = "Owner" -> o
    [] rec.config = "Recipient" -> recipient
    [] rec.config = "Collection" -> IF u \in Collections THEN u ELSE "None"

\* The oracle's account is missing, was never written, or is against the event.
IsAgainst(rec, key, event, a, o, u, recipient) ==
  LET from == Origin(rec, a, o, u, recipient)
  IN \/ from = "None"
     \/ oracles[<< key.id, from >>] \cap { event, "Uninitialized" } # {}

\* An oracle that asset a (with adapters own) or its collection u names for the
\* event is against it.  The collection's does not count when the asset names
\* one under the same key.
Refuses(a, own, o, u, event, recipient) ==
  \E key \in AdapterKeys, k \in { a, u } \cap Accounts :
    LET rec == IF k = a THEN own[key] ELSE adapters[k][key]
    IN /\ key.type = "Oracle" /\ Names(rec, event)
       /\ k = a \/ ~Names(own[key], event)
       /\ IsAgainst(rec, key, event, a, o, u, recipient)

RefusesNow(a, event, recipient) ==
  Refuses(a, adapters[a], owner[a], ua[a], event, recipient)

\* An asset is not born, does not move, burn or change against an oracle of its
\* own or of its collection, whichever instruction does it and whoever signs;
\* only a permanent delegate is heard before the oracles are.
OraclesAreHeard ==
  [][\A a \in Assets :
       /\ ~Live(a) /\ stage'[a] = "Live" =>
            ~Refuses(a, adapters'[a], owner'[a], ua'[a], "Create", "None")
       /\ StaysLive(a) /\ owner'[a] # owner[a] =>
            \/ ~RefusesNow(a, "Transfer", owner'[a])
            \/ HoldsPlugin(a, "PermanentTransferDelegate", ix'.by)
       /\ Live(a) /\ stage'[a] = "Closed" =>
            \/ ~RefusesNow(a, "Burn", "None")
            \/ HoldsPlugin(a, "PermanentBurnDelegate", ix'.by)
       /\ StaysLive(a) /\ << ua'[a], meta'[a] >> # << ua[a], meta[a] >> =>
            ~RefusesNow(a, "Update", "None")]_adapterVars

-----------------------------------------------------------------------------
(* Data *)

DataOf(k, key) == IF Registered(k, key) THEN adapters[k][key].data ELSE "Empty"

\* What stands in an AppData or a DataSection was written by the authority that
\* its key names, as the account resolves it then: neither the authority of the
\* adapter nor the update authority puts words in its mouth.
DataComesFromItsAuthority ==
  [][\A k \in Accounts, key \in AdapterKeys :
       StaysLive(k) /\ DataOf(k, key)' \notin { "Empty", DataOf(k, key) } =>
         HolderOf([auth |-> key.id], ax'.by, k)]_adapterVars

\* Adapters come and go by the hand of the update authority, and are configured
\* by the authority of their record: an UpdateDelegate, which stands in for
\* the update authority elsewhere, does neither.  (A section comes with data.)
AdaptersAreManaged ==
  [][\A k \in Accounts, key \in AdapterKeys :
       StaysLive(k) =>
         /\ ~(Registered(k, key) <=> Registered(k, key)') =>
              \/ ax'.by = AuthorityOver(k)
              \/ key.type = "DataSection" /\ Registered(k, key)'
         /\ Registered(k, key) /\ Registered(k, key)'
            /\ [adapters'[k][key] EXCEPT !.data = adapters[k][key].data]
                 # adapters[k][key]
            => HolderOf(adapters[k][key], ax'.by, k)]_adapterVars

-----------------------------------------------------------------------------
(* Executions *)

IsAgentOf(w, a) ==
  /\ << a, w >> \in agents
  /\ \E key \in AdapterKeys : key.type = "AgentIdentity" /\ Registered(a, key)

\* An asset that changes hands by its owner's, a collection by its update
\* authority's.
GivenAwayBy(k, w) ==
  /\ Live(k) /\ ix'.by = w
  /\ \/ k \in Assets /\ owner[k] = w
        /\ (stage'[k] = "Closed" \/ owner'[k] # owner[k])
     \/ k \in Collections /\ ua[k] = w
        /\ (stage'[k] = "Closed" \/ ua'[k] # ua[k])

\* What is held by the vault of an asset goes away only in an execution that
\* the owner of the asset asked for, or an agent that the asset has an identity
\* for; and not while an execute freeze counts for the asset, its own or that of
\* its collection, whoever asks.  (The asset itself may be what its vault holds.)
VaultsGiveWhenTold ==
  [][\A a \in Assets, k \in Accounts : GivenAwayBy(k, Vault[a]) =>
       /\ Live(a)
       /\ caller' = owner[a] \/ IsAgentOf(caller', a)
       /\ \A p \in { "FreezeExecute", "PermanentFreezeExecute" } :
            ~(Has(a, p) /\ Held(a)[p].frozen)]_adapterVars

-----------------------------------------------------------------------------
(* What the documentation says and the code does not do *)

\* agent_identity.rs says of the instructions that register an identity:
\* "Verify that the agent identity program is signing off on the addition."
IdentitiesAreAttested ==
  [][\A a \in Assets, key \in AdapterKeys :
       key.type = "AgentIdentity" /\ ~Registered(a, key) /\ Registered(a, key)'
       => ax'.attested]_adapterVars

=============================================================================
