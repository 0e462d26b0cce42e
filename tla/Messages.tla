------------------------------- MODULE Messages -------------------------------
(***************************************************************************)
(* A call, from the generated client that encodes it to the lamports that  *)
(* it moves.  The client sends a number and a row of accounts with         *)
(* privileges (ClientInstructions); the program names the accounts by      *)
(* their places, asks for the signatures that it needs, and opens, grows,  *)
(* shrinks and closes accounts (Lamports).  What else it asks is the       *)
(* business of the other modules: here it may reject any call.             *)
(***************************************************************************)
EXTENDS ClientInstructions, Lamports, Functions

CONSTANTS
  Wallets,                               \* who signs with a key of their own
  Payers,                                \* the wallets among them that pay
  AssetKeys, CollectionKeys, GroupKeys,  \* accounts of the program
  Vault,                                 \* of each asset, a key that only the program signs for
  CoreBytes, MaxBytes,                   \* bytes of an account without and with plugins
  MaxMembers, MaxCollected,              \* bounds: accounts after those of an instruction
  Funds                                  \* what each payer has at first

ProgramKeys == AssetKeys \cup CollectionKeys \cup GroupKeys
Vaults == { Vault[a] : a \in AssetKeys }
Keys == ProgramKeys \cup Wallets \cup Vaults \cup { Recipients[1], Recipients[2] }

\* Accounts of the program, the vaults it signs for and wallets are different
\* addresses, and so is the program's own.
ASSUME KeysAssumption ==
  /\ IsFiniteSet(Keys) /\ "None" \notin Keys /\ "MplCore" \notin Keys
  /\ AssetKeys \cap CollectionKeys = {} /\ AssetKeys \cap GroupKeys = {}
  /\ CollectionKeys \cap GroupKeys = {}
  /\ ProgramKeys \cap (Wallets \cup Vaults \cup { Recipients[1], Recipients[2] }) = {}
  /\ Vaults \cap Wallets = {}

ASSUME MessagesAssumption ==
  /\ Payers \subseteq Wallets /\ Funds \in Nat /\ MaxMembers \in Nat /\ MaxCollected \in Nat
  /\ CoreBytes \in Nat /\ MaxBytes \in Nat /\ 1 < CoreBytes /\ CoreBytes <= MaxBytes

VARIABLES
  bank,   \* every account, see Lamports
  last    \* history: the last call, as it was meant and as it was sent, and its end

vars == << bank, last >>

-----------------------------------------------------------------------------
(* The client *)

\* A call names an account, or none, for every place of the instruction, and
\* the accounts after those.
Call(op, keys, rest) == [op |-> op, keys |-> keys, rest |-> rest]

Placeholder == [key |-> "MplCore", writable |-> FALSE, signer |-> FALSE]

Encode(meta, key) ==
  IF meta.optional /\ key = "None" THEN Placeholder
  ELSE [key |-> key, writable |-> meta.writable,
        signer |-> \/ meta.signs = "Always"
                   \/ meta.signs = "Chosen" /\ key \notin Vaults]

\* Accounts after those of the instruction are sent with the privileges that
\* the caller gives them; each of them may be changed.
Remaining(key) == [key |-> key, writable |-> TRUE, signer |-> FALSE]

Message(call) ==
  LET metas == ClientInstructions[call.op].metas
  IN [number |-> ClientInstructions[call.op].number,
      accounts |-> [i \in DOMAIN metas |-> Encode(metas[i], call.keys[i])]
                     \o [i \in DOMAIN call.rest |-> Remaining(call.rest[i])]]

Signs(message, key) ==
  \E m \in Range(message.accounts) : m.key = key /\ m.signer

Lends(message, key) ==
  \E m \in Range(message.accounts) : m.key = key /\ m.writable

-----------------------------------------------------------------------------
(* The program *)

\* The accounts of an instruction by their places, and those that a caller may
\* leave out.
Accounts(places, optional) == [places |-> places, optional |-> optional]

OfCreate ==
  Accounts(<< "asset", "collection", "authority", "payer", "owner",
              "update_authority", "system_program", "log_wrapper" >>,
           { "collection", "authority", "owner", "update_authority", "log_wrapper" })

OfCreateCollection ==
  Accounts(<< "collection", "update_authority", "payer", "system_program" >>,
           { "update_authority" })

OfAsset ==
  Accounts(<< "asset", "collection", "payer", "authority",
              "system_program", "log_wrapper" >>,
           { "collection", "authority", "log_wrapper" })

OfCollection ==
  Accounts(<< "collection", "payer", "authority", "system_program",
              "log_wrapper" >>,
           { "authority", "log_wrapper" })

OfBurn ==
  Accounts(<< "asset", "collection", "payer", "authority",
              "system_program", "log_wrapper" >>,
           { "collection", "authority", "system_program", "log_wrapper" })

OfBurnCollection ==
  Accounts(<< "collection", "payer", "authority", "log_wrapper" >>,
           { "authority", "log_wrapper" })

OfTransfer ==
  Accounts(<< "asset", "collection", "payer", "authority", "new_owner",
              "system_program", "log_wrapper" >>,
           { "collection", "authority", "system_program", "log_wrapper" })

OfUpdateCollection ==
  Accounts(<< "collection", "payer", "authority", "new_update_authority",
              "system_program", "log_wrapper" >>,
           { "authority", "new_update_authority", "log_wrapper" })

OfCollect ==
  Accounts(<< "recipient1", "recipient2" >>, {})

OfWrite ==
  Accounts(<< "asset", "collection", "payer", "authority", "buffer",
              "system_program", "log_wrapper" >>,
           { "collection", "authority", "buffer", "log_wrapper" })

OfCollectionWrite ==
  Accounts(<< "collection", "payer", "authority", "buffer",
              "system_program", "log_wrapper" >>,
           { "authority", "buffer", "log_wrapper" })

OfUpdateV2 ==
  Accounts(<< "asset", "collection", "payer", "authority",
              "new_collection", "system_program", "log_wrapper" >>,
           { "collection", "authority", "new_collection", "log_wrapper" })

OfExecute ==
  Accounts(<< "asset", "collection", "asset_signer", "payer",
              "authority", "system_program", "program_id" >>,
           { "collection", "authority" })

OfCollectionInfo ==
  Accounts(<< "collection", "bubblegum_signer" >>, {})

OfCreateGroup ==
  Accounts(<< "group", "update_authority", "payer", "system_program" >>,
           { "update_authority" })

OfGroup ==
  Accounts(<< "group", "payer", "authority", "system_program" >>,
           { "authority" })

OfParentGroup ==
  Accounts(<< "parent_group", "payer", "authority", "system_program" >>,
           { "authority" })

OfCloseGroup ==
  Accounts(<< "group", "payer", "authority" >>,
           { "authority" })

OfUpdateGroup ==
  Accounts(<< "group", "payer", "authority", "new_update_authority",
              "system_program" >>,
           { "authority", "new_update_authority" })

\* The instructions in the order of their numbers.
Instructions == <<
  << "CreateV1", OfCreate >>,
  << "CreateCollectionV1", OfCreateCollection >>,
  << "AddPluginV1", OfAsset >>,
  << "AddCollectionPluginV1", OfCollection >>,
  << "RemovePluginV1", OfAsset >>,
  << "RemoveCollectionPluginV1", OfCollection >>,
  << "UpdatePluginV1", OfAsset >>,
  << "UpdateCollectionPluginV1", OfCollection >>,
  << "ApprovePluginAuthorityV1", OfAsset >>,
  << "ApproveCollectionPluginAuthorityV1", OfCollection >>,
  << "RevokePluginAuthorityV1", OfAsset >>,
  << "RevokeCollectionPluginAuthorityV1", OfCollection >>,
  << "BurnV1", OfBurn >>,
  << "BurnCollectionV1", OfBurnCollection >>,
  << "TransferV1", OfTransfer >>,
  << "UpdateV1", OfAsset >>,
  << "UpdateCollectionV1", OfUpdateCollection >>,
  << "CompressV1", OfAsset >>,
  << "DecompressV1", OfAsset >>,
  << "Collect", OfCollect >>,
  << "CreateV2", OfCreate >>,
  << "CreateCollectionV2", OfCreateCollection >>,
  << "AddExternalPluginAdapterV1", OfAsset >>,
  << "AddCollectionExternalPluginAdapterV1", OfCollection >>,
  << "RemoveExternalPluginAdapterV1", OfAsset >>,
  << "RemoveCollectionExternalPluginAdapterV1", OfCollection >>,
  << "UpdateExternalPluginAdapterV1", OfAsset >>,
  << "UpdateCollectionExternalPluginAdapterV1", OfCollection >>,
  << "WriteExternalPluginAdapterDataV1", OfWrite >>,
  << "WriteCollectionExternalPluginAdapterDataV1", OfCollectionWrite >>,
  << "UpdateV2", OfUpdateV2 >>,
  << "ExecuteV1", OfExecute >>,
  << "UpdateCollectionInfoV1", OfCollectionInfo >>,
  << "AddCollectionsToGroupV1", OfGroup >>,
  << "RemoveCollectionsFromGroupV1", OfGroup >>,
  << "AddAssetsToGroupV1", OfGroup >>,
  << "RemoveAssetsFromGroupV1", OfGroup >>,
  << "AddGroupsToGroupV1", OfParentGroup >>,
  << "RemoveGroupsFromGroupV1", OfParentGroup >>,
  << "CreateGroupV1", OfCreateGroup >>,
  << "CloseGroupV1", OfCloseGroup >>,
  << "UpdateGroupV1", OfUpdateGroup >> >>

\* context(): the accounts of a message under the names of their places, the
\* program's own address standing for none, and what comes after them.
Received(message) ==
  LET instruction == Instructions[message.number + 1]
      places == instruction[2].places
      Reads(i) ==
        LET key == message.accounts[i].key
        IN IF places[i] \in instruction[2].optional /\ key = "MplCore"
           THEN "None" ELSE key
  IN [op |-> instruction[1],
      named |-> [f \in Range(places) |->
                   Reads(CHOOSE i \in DOMAIN places : places[i] = f)],
      rest |-> [i \in 1 .. Len(message.accounts) - Len(places) |->
                  message.accounts[Len(places) + i].key]]

\* The accounts that an instruction needs and names.
Present(r, fields) == { r.named[f] : f \in fields \cap DOMAIN r.named } \ { "None" }

\* What must have signed: the payer, an account that is opened, an authority
\* that is named (resolve_authority), and Bubblegum.  The vault of an asset
\* pays for an execution without a signature of its own.
MustSign(r) ==
  (Present(r, { "payer", "authority", "bubblegum_signer" }) \ Vaults) \cup
    CASE r.op \in { "CreateV1", "CreateV2" } -> { r.named.asset }
      [] r.op \in { "CreateCollectionV1", "CreateCollectionV2" } -> { r.named.collection }
      [] r.op = "CreateGroupV1" -> Present(r, { "group", "update_authority" })
      [] OTHER -> {}

\* The program asks for the writes of group instructions, and the runtime for
\* every other: no account that is not lent for it changes.  Nor does a wallet
\* pay without having signed, or a vault outside an execution.
Privileged(r, message, b, saved) ==
  LET changed == saved \cup { k \in Keys : b.lamports[k] # bank.lamports[k] }
      paying == { k \in Keys \ ProgramKeys : b.lamports[k] < bank.lamports[k] }
  IN /\ \A k \in MustSign(r) : Signs(message, k)
     /\ \A k \in changed : Lends(message, k)
     /\ \A k \in paying :
          Signs(message, k) \/ (r.op = "ExecuteV1" /\ k = Vault[r.named.asset])

Ends(x, end, b) == last' = [exchange |-> x, end |-> end] /\ bank' = b

\* A payer who cannot pay fails the call, and every transfer on the way to its
\* end has to be paid.
Affordable(b) == \A k \in Keys : b.lamports[k] >= 0

\* The end of a handler that comes to bank b, having saved the accounts in
\* saved.
Settle(x, b, saved) ==
  /\ Affordable(b)
  /\ IF Privileged(x.read, x.message, b, saved)
     THEN Ends(x, "Done", b)
     ELSE Ends(x, "Unprivileged", bank)

-----------------------------------------------------------------------------
(* Who calls what *)

MayName(meta) ==
  (CASE meta.field = "asset" -> AssetKeys
     [] meta.field \in { "collection", "new_collection" } -> CollectionKeys
     [] meta.field \in { "group", "parent_group" } -> GroupKeys
     [] meta.field = "payer" -> IF meta.signs = "Chosen" THEN Payers \cup Vaults ELSE Payers
     [] meta.field = "asset_signer" -> Vaults
     [] meta.field = "recipient1" -> { Recipients[1] }
     [] meta.field = "recipient2" -> { Recipients[2] }
     [] meta.field \in { "system_program", "log_wrapper", "program_id", "bubblegum_signer" } ->
          { meta.field }
     [] OTHER -> Wallets)
  \cup (IF meta.optional THEN { "None" } ELSE {})

LinkOps ==
  { "AddAssetsToGroupV1", "RemoveAssetsFromGroupV1", "AddCollectionsToGroupV1",
    "RemoveCollectionsFromGroupV1", "AddGroupsToGroupV1", "RemoveGroupsFromGroupV1" }

\* The accounts after those of the instruction: the members of a group, or
\* what fees are collected from (the same one twice perhaps).
Rests(op) ==
  LET UpTo(max) == UNION { [1 .. n -> ProgramKeys] : n \in 0 .. max }
  IN CASE op \in LinkOps \cup { "CreateGroupV1" } -> UpTo(MaxMembers)
       [] op = "Collect" -> UpTo(MaxCollected)
       [] OTHER -> { << >> }

\* A call, the message that the client makes of it, and what the program reads.
Exchange(call) ==
  LET message == Message(call)
  IN [call |-> call, message |-> message, read |-> Received(message)]

\* The rows of keys that a call may name: no instruction has more than eight
\* places.
Rows(metas) ==
  LET At(i) == IF i \in DOMAIN metas THEN MayName(metas[i]) ELSE { "None" }
  IN { [i \in DOMAIN metas |-> row[i]] :
         row \in At(1) \X At(2) \X At(3) \X At(4) \X At(5) \X At(6) \X At(7) \X At(8) }

Exchanges ==
  [op \in DOMAIN ClientInstructions |->
     { Exchange(Call(op, keys, rest)) :
         keys \in Rows(ClientInstructions[op].metas), rest \in Rests(op) }]

ExchangesOf(ops) == UNION { Exchanges[op] : op \in ops }

OpsOf(accounts) ==
  { Instructions[i][1] : i \in { j \in DOMAIN Instructions : Instructions[j][2] = accounts } }

Sizes == CoreBytes .. MaxBytes

Is(key, kind) == key \in ProgramKeys /\ bank.kind[key] = kind

\* Collections that are named are there.
CollectionsAreThere(r) ==
  \A c \in Present(r, { "collection", "new_collection" }) : Is(c, "CollectionV1")

-----------------------------------------------------------------------------
(* The handlers, in what they do to accounts *)

CreateAsset ==
  \E x \in ExchangesOf(OpsOf(OfCreate)), n \in Sizes :
    LET r == x.read IN
      /\ Is(r.named.asset, "None") /\ CollectionsAreThere(r)
      /\ "None" \in { r.named.collection, r.named.update_authority }
      /\ Settle(x, Open(bank, r.named.asset, "AssetV1", n, CreateFee, r.named.payer),
                Present(r, { "asset", "collection" }))

CreateCollection ==
  \E x \in ExchangesOf(OpsOf(OfCreateCollection)), n \in Sizes :
    LET r == x.read IN
      /\ Is(r.named.collection, "None")
      /\ Settle(x, Open(bank, r.named.collection, "CollectionV1", n, 0, r.named.payer),
                { r.named.collection })

\* What an instruction on an asset changes may change its size.  To leave a
\* collection or to enter one also changes the collection.
ChangeAsset ==
  \E x \in ExchangesOf((OpsOf(OfAsset) \ { "CompressV1", "DecompressV1" })
                        \cup { "WriteExternalPluginAdapterDataV1", "UpdateV2" }),
     n \in Sizes :
    LET r == x.read IN
      /\ Is(r.named.asset, "AssetV1") /\ CollectionsAreThere(r)
      /\ Settle(x, Resize(bank, r.named.asset, n, r.named.payer),
                Present(r, IF r.op = "UpdateV2" THEN { "asset", "collection", "new_collection" }
                           ELSE { "asset" }))

ChangeCollection ==
  \E x \in ExchangesOf(OpsOf(OfCollection) \cup
                      { "WriteCollectionExternalPluginAdapterDataV1", "UpdateCollectionV1" }),
     n \in Sizes :
    LET r == x.read IN
      /\ Is(r.named.collection, "CollectionV1")
      /\ Settle(x, Resize(bank, r.named.collection, n, r.named.payer),
                { r.named.collection })

Transfer ==
  \E x \in Exchanges["TransferV1"] :
    LET r == x.read IN
      /\ Is(r.named.asset, "AssetV1") /\ CollectionsAreThere(r)
      /\ Settle(x, bank, { r.named.asset })

BurnAsset ==
  \E x \in Exchanges["BurnV1"] :
    LET r == x.read IN
      /\ Is(r.named.asset, "AssetV1") /\ CollectionsAreThere(r)
      /\ Settle(x, Close(bank, r.named.asset, r.named.payer),
                Present(r, { "asset", "collection" }))

BurnCollection ==
  \E x \in Exchanges["BurnCollectionV1"] :
    LET r == x.read IN
      /\ Is(r.named.collection, "CollectionV1")
      /\ Settle(x, Close(bank, r.named.collection, r.named.payer), { r.named.collection })

ReportOfBubblegum ==
  \E x \in Exchanges["UpdateCollectionInfoV1"] :
    LET r == x.read IN
      /\ Is(r.named.collection, "CollectionV1")
      /\ Settle(x, bank, { r.named.collection })

\* Mutant of HasAuthority: the payer stands in for the authority, as elsewhere.
PayerIsEnough(r) == TRUE

\* A vault pays only where an authority signs for the asset.
HasAuthority(r) == r.named.payer \in Vaults => r.named.authority # "None"

Execute ==
  \E x \in Exchanges["ExecuteV1"] :
    LET r == x.read IN
      /\ Is(r.named.asset, "AssetV1") /\ CollectionsAreThere(r)
      /\ r.named.asset_signer = Vault[r.named.asset]
      /\ r.named.payer \in Vaults => r.named.payer = r.named.asset_signer
      /\ HasAuthority(r)
      /\ Settle(x, PayFee(bank, r.named.asset, r.named.payer), { r.named.asset })

\* A group and what is in it change together, and their sizes with them: the
\* banks after none, one and all of the accounts.
ResizeEach(b, ks, n, payer) ==
  LET after[i \in 0 .. Len(ks)] ==
        IF i = 0 THEN b ELSE Resize(after[i - 1], ks[i], n, payer)
  IN after

AreThere(ks, kinds) == \A i \in DOMAIN ks : \E kind \in kinds : Is(ks[i], kind)

MemberKinds(op) ==
  CASE op \in { "AddAssetsToGroupV1", "RemoveAssetsFromGroupV1" } -> { "AssetV1" }
    [] op \in { "AddCollectionsToGroupV1", "RemoveCollectionsFromGroupV1" } -> { "CollectionV1" }
    [] op \in { "AddGroupsToGroupV1", "RemoveGroupsFromGroupV1" } -> { "GroupV1" }
    [] OTHER -> { "AssetV1", "CollectionV1", "GroupV1" }

CreateGroup ==
  \E x \in Exchanges["CreateGroupV1"], n, m \in Sizes :
    LET r == x.read
        opened == Open(bank, r.named.group, "GroupV1", n, 0, r.named.payer)
    IN /\ Is(r.named.group, "None") /\ AreThere(r.rest, MemberKinds(r.op))
       /\ LET each == ResizeEach(opened, r.rest, m, r.named.payer)
          IN /\ \A i \in DOMAIN each : Affordable(each[i])
             /\ Settle(x, each[Len(r.rest)], { r.named.group } \cup Range(r.rest))

ChangeGroup ==
  \E x \in ExchangesOf(LinkOps \cup { "UpdateGroupV1" }), n, m \in Sizes :
    LET r == x.read IN
      \E g \in Present(r, { "group", "parent_group" }) :
        /\ Is(g, "GroupV1") /\ AreThere(r.rest, MemberKinds(r.op)) /\ g \notin Range(r.rest)
        /\ LET each == ResizeEach(bank, r.rest, m, r.named.payer)
           IN /\ \A i \in DOMAIN each : Affordable(each[i])
              /\ Settle(x, Resize(each[Len(r.rest)], g, n, r.named.payer),
                        { g } \cup Range(r.rest))

CloseGroup ==
  \E x \in Exchanges["CloseGroupV1"] :
    LET r == x.read IN
      /\ Is(r.named.group, "GroupV1")
      /\ Settle(x, Close(bank, r.named.group, r.named.payer), { r.named.group })

\* collect stops at the first account that has nothing to be collected: the
\* second time it meets a closed one, too.
CollectFees ==
  \E x \in Exchanges["Collect"] :
    LET r == x.read IN
      /\ << r.named.recipient1, r.named.recipient2 >> = Recipients
      /\ LET after == CollectEach(bank, r.rest)
             end == after[Len(r.rest)]
         IN /\ \A i \in DOMAIN r.rest : Collectable(after[i - 1], r.rest[i])
            /\ Settle(x, end, { k \in Range(r.rest) : end.kind[k] # bank.kind[k] })

\* The call fails, for a reason of its own or because what it names is not
\* there; compress and decompress always do.
Reject ==
  \E x \in ExchangesOf(DOMAIN ClientInstructions) : Ends(x, "Rejected", bank)

\* Before the first call.
NoExchange ==
  [call |-> Call("None", << >>, << >>), message |-> [number |-> 0, accounts |-> << >>],
   read |-> [op |-> "None", named |-> << >>, rest |-> << >>]]

Init ==
  /\ bank = [kind |-> [k \in Keys |-> IF k \in ProgramKeys THEN "None" ELSE "Wallet"],
             bytes |-> [k \in Keys |-> 0],
             lamports |-> [k \in Keys |-> IF k \in Payers \cup Vaults THEN Funds ELSE 0],
             owed |-> [k \in Keys |-> 0]]
  /\ last = [exchange |-> NoExchange, end |-> "None"]

Next ==
  \/ CreateAsset \/ CreateCollection \/ CreateGroup
  \/ ChangeAsset \/ ChangeCollection \/ ChangeGroup
  \/ Transfer \/ Execute \/ ReportOfBubblegum
  \/ BurnAsset \/ BurnCollection \/ CloseGroup
  \/ CollectFees \/ Reject

Spec == Init /\ [][Next]_vars

=============================================================================
