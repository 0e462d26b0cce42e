--------------------------- MODULE MessagesProofs ----------------------------
(***************************************************************************)
(* Theorems about calls, for any keys, any number of accounts, of members  *)
(* and of collections, any fees and any sizes.                             *)
(*                                                                         *)
(* The argument has two halves.  The rows of the client and the places of  *)
(* the program are compared one instruction at a time (Table), and with    *)
(* what a row says of a place it is decided for every call what the        *)
(* program reads, who signs and what is lent (Known).  Of the lamports,    *)
(* each operation keeps every account sound and charges one payer (Leads,  *)
(* Collects), a row of them does so by induction on its length, and so     *)
(* each handler comes to an end to which nobody objects (Lawful).  The     *)
(* invariant is stronger than RentAndFeesAreThere: where no account was    *)
(* opened there is nothing, or opening one would leave more than its rent. *)
(***************************************************************************)
EXTENDS MessagesProperties, FiniteSetTheorems, SequenceTheorems, TLAPS

-----------------------------------------------------------------------------
(* The rows of the client and the places of the program *)

\* What a row says of one account.
Form(m, field, writable, signs, optional) ==
  m.field = field /\ m.writable = writable /\ m.signs = signs /\ m.optional = optional

\* An account of a row is the one at its place: with the name of the place, left
\* out where the place may be empty, signing and lent as the two sets say.
FitsAt(m, place, optional, signing, lending) ==
  /\ m.field = place
  /\ m.optional \in BOOLEAN /\ m.optional <=> place \in optional
  /\ m.writable \in BOOLEAN /\ m.writable <=> place \in lending
  /\ m.signs \in { "Always", "Never", "Chosen" }
  /\ m.signs = "Always" <=> place \in signing
  /\ place = "payer" => m.signs # "Never" /\ ~ m.optional

Fits(metas, accounts, signing, lending) ==
  /\ Len(metas) \in 1 .. 8 /\ DOMAIN metas = 1 .. Len(metas)
  /\ Len(accounts.places) = Len(metas) /\ DOMAIN accounts.places = DOMAIN metas
  /\ \A i \in DOMAIN metas :
       FitsAt(metas[i], accounts.places[i], accounts.optional, signing, lending)
  /\ \A i, j \in DOMAIN metas : accounts.places[i] = accounts.places[j] => i = j

\* What the attributes of the generated rows come to.
LEMMA Forms ==
  /\ \A f : Form(Written(f), f, TRUE, "Always", FALSE)
  /\ \A f : Form(Changed(f), f, TRUE, "Never", FALSE)
  /\ \A f : Form(Signer(f), f, FALSE, "Always", FALSE)
  /\ \A f : Form(Named(f), f, FALSE, "Never", FALSE)
  /\ \A f : Form(Maybe(Written(f)), f, TRUE, "Always", TRUE)
  /\ \A f : Form(Maybe(Changed(f)), f, TRUE, "Never", TRUE)
  /\ \A f : Form(Maybe(Signer(f)), f, FALSE, "Always", TRUE)
  /\ \A f : Form(Maybe(Named(f)), f, FALSE, "Never", TRUE)
  /\ Form(Payer, "payer", TRUE, "Always", FALSE)
  /\ Form(ChosenPayer, "payer", TRUE, "Chosen", FALSE)
  /\ Form(Authority, "authority", FALSE, "Always", TRUE)
  /\ Form(System, "system_program", FALSE, "Never", FALSE)
  /\ Form(Log, "log_wrapper", FALSE, "Never", TRUE)
<1>1. \A f : /\ Form(Written(f), f, TRUE, "Always", FALSE)
             /\ Form(Changed(f), f, TRUE, "Never", FALSE)
             /\ Form(Signer(f), f, FALSE, "Always", FALSE)
             /\ Form(Named(f), f, FALSE, "Never", FALSE)
  BY DEF Form, Written, Changed, Signer, Named
<1>2. \A f : /\ Form(Maybe(Written(f)), f, TRUE, "Always", TRUE)
             /\ Form(Maybe(Changed(f)), f, TRUE, "Never", TRUE)
  BY DEF Form, Written, Changed, Signer, Named, Maybe
<1>3. \A f : /\ Form(Maybe(Signer(f)), f, FALSE, "Always", TRUE)
             /\ Form(Maybe(Named(f)), f, FALSE, "Never", TRUE)
  BY DEF Form, Written, Changed, Signer, Named, Maybe
<1>4. Form(Payer, "payer", TRUE, "Always", FALSE)
  BY <1>1 DEF Payer
<1>5. Form(ChosenPayer, "payer", TRUE, "Chosen", FALSE)
  BY DEF Form, ChosenPayer, Payer, Written
<1>6. Form(Authority, "authority", FALSE, "Always", TRUE)
  BY <1>3 DEF Authority
<1>7. Form(System, "system_program", FALSE, "Never", FALSE)
  BY <1>1 DEF System
<1>8. Form(Log, "log_wrapper", FALSE, "Never", TRUE)
  BY <1>3 DEF Log
<1>9. QED
  BY <1>1, <1>2, <1>3, <1>4, <1>5, <1>6, <1>7, <1>8

\* An account that is written, changed, asked to sign or only named fits its place
\* if the two sets agree with that.
LEMMA FormsFit ==
  ASSUME NEW f, NEW optional, NEW signing, NEW lending
  PROVE  /\ f \notin optional /\ f \in signing /\ f \in lending =>
              FitsAt(Written(f), f, optional, signing, lending)
         /\ f \notin optional \cup signing /\ f \in lending /\ f # "payer" =>
              FitsAt(Changed(f), f, optional, signing, lending)
         /\ f \notin optional \cup lending /\ f \in signing =>
              FitsAt(Signer(f), f, optional, signing, lending)
         /\ f \notin optional \cup signing \cup lending /\ f # "payer" =>
              FitsAt(Named(f), f, optional, signing, lending)
         /\ f \in optional /\ f \in signing /\ f \in lending /\ f # "payer" =>
              FitsAt(Maybe(Written(f)), f, optional, signing, lending)
         /\ f \in optional /\ f \notin signing /\ f \in lending /\ f # "payer" =>
              FitsAt(Maybe(Changed(f)), f, optional, signing, lending)
         /\ f \in optional /\ f \in signing /\ f \notin lending /\ f # "payer" =>
              FitsAt(Maybe(Signer(f)), f, optional, signing, lending)
         /\ f \in optional /\ f \notin signing \cup lending /\ f # "payer" =>
              FitsAt(Maybe(Named(f)), f, optional, signing, lending)
         /\ f = "payer" /\ f \notin optional \cup signing /\ f \in lending =>
              FitsAt(ChosenPayer, f, optional, signing, lending)
<1>1. ASSUME f \notin optional, f \in signing, f \in lending
      PROVE  FitsAt(Written(f), f, optional, signing, lending)
  BY <1>1, Forms DEF Form, FitsAt
<1>2. ASSUME f \notin optional \cup signing, f \in lending, f # "payer"
      PROVE  FitsAt(Changed(f), f, optional, signing, lending)
  BY <1>2, Forms DEF Form, FitsAt
<1>3. ASSUME f \notin optional \cup lending, f \in signing
      PROVE  FitsAt(Signer(f), f, optional, signing, lending)
  BY <1>3, Forms DEF Form, FitsAt
<1>4. ASSUME f \notin optional \cup signing \cup lending, f # "payer"
      PROVE  FitsAt(Named(f), f, optional, signing, lending)
  BY <1>4, Forms DEF Form, FitsAt
<1>5. ASSUME f \in optional, f \in signing, f \in lending, f # "payer"
      PROVE  FitsAt(Maybe(Written(f)), f, optional, signing, lending)
  <2>1. Form(Maybe(Written(f)), f, TRUE, "Always", TRUE)
    BY Forms
  <2>2. QED
    BY <1>5, <2>1 DEF Form, FitsAt
<1>6. ASSUME f \in optional, f \notin signing, f \in lending, f # "payer"
      PROVE  FitsAt(Maybe(Changed(f)), f, optional, signing, lending)
  <2>1. Form(Maybe(Changed(f)), f, TRUE, "Never", TRUE)
    BY Forms
  <2>2. QED
    BY <1>6, <2>1 DEF Form, FitsAt
<1>7. ASSUME f \in optional, f \in signing, f \notin lending, f # "payer"
      PROVE  FitsAt(Maybe(Signer(f)), f, optional, signing, lending)
  <2>1. Form(Maybe(Signer(f)), f, FALSE, "Always", TRUE)
    BY Forms
  <2>2. QED
    BY <1>7, <2>1 DEF Form, FitsAt
<1>8. ASSUME f \in optional, f \notin signing \cup lending, f # "payer"
      PROVE  FitsAt(Maybe(Named(f)), f, optional, signing, lending)
  <2>1. Form(Maybe(Named(f)), f, FALSE, "Never", TRUE)
    BY Forms
  <2>2. QED
    BY <1>8, <2>1 DEF Form, FitsAt
<1>9. ASSUME f = "payer", f \notin optional \cup signing, f \in lending
      PROVE  FitsAt(ChosenPayer, f, optional, signing, lending)
  BY <1>9, Forms DEF Form, FitsAt
<1>10. QED
  BY <1>1, <1>2, <1>3, <1>4, <1>5, <1>6, <1>7, <1>8, <1>9

MetasOfCreate ==
  << Written("asset"), Maybe(Changed("collection")),
     Authority, Payer, Maybe(Named("owner")),
     Maybe(Named("update_authority")), System, Log >>

\* One instruction after the other: the row of the client has at each place the
\* account that the program looks for there.
LEMMA CreateRow ==
  Fits(MetasOfCreate, OfCreate,
       { "asset", "authority", "payer" },
       { "asset", "collection", "payer" })
<1> DEFINE M == MetasOfCreate
<1>1. /\ Len(M) = 8 /\ DOMAIN M = 1 .. 8 /\ M[1] = Written("asset")
      /\ M[2] = Maybe(Changed("collection")) /\ M[3] = Authority
      /\ M[4] = Payer /\ M[5] = Maybe(Named("owner"))
      /\ M[6] = Maybe(Named("update_authority")) /\ M[7] = System
      /\ M[8] = Log
  BY DEF MetasOfCreate
<1>2. /\ Len(OfCreate.places) = 8 /\ DOMAIN OfCreate.places = 1 .. 8
      /\ OfCreate.places[1] = "asset" /\ OfCreate.places[2] = "collection"
      /\ OfCreate.places[3] = "authority" /\ OfCreate.places[4] = "payer"
      /\ OfCreate.places[5] = "owner"
      /\ OfCreate.places[6] = "update_authority"
      /\ OfCreate.places[7] = "system_program"
      /\ OfCreate.places[8] = "log_wrapper"
      /\ OfCreate.optional = { "collection", "authority", "owner", "update_authority", "log_wrapper" }
  BY DEF OfCreate, Accounts
<1> HIDE DEF M
<1> DEFINE At(i) == FitsAt(M[i], OfCreate.places[i], OfCreate.optional,
                           { "asset", "authority", "payer" },
                           { "asset", "collection", "payer" })
<1>3. At(1) /\ At(2) /\ At(3) /\ At(4) /\ At(5) /\ At(6) /\ At(7) /\ At(8)
  BY <1>1, <1>2, FormsFit DEF Payer, Authority, System, Log
<1>4. \A i \in 1 .. 8 : At(i)
  BY <1>3
<1>5. \A i, j \in 1 .. 8 : OfCreate.places[i] = OfCreate.places[j] => i = j
  BY <1>2
<1>6. QED
  BY <1>1, <1>2, <1>4, <1>5 DEF Fits, M

MetasOfCreateCollection ==
  << Written("collection"),
     Maybe(Named("update_authority")), Payer, System >>

LEMMA CreateCollectionRow ==
  Fits(MetasOfCreateCollection, OfCreateCollection,
       { "collection", "payer" },
       { "collection", "payer" })
<1> DEFINE M == MetasOfCreateCollection
<1>1. /\ Len(M) = 4 /\ DOMAIN M = 1 .. 4 /\ M[1] = Written("collection")
      /\ M[2] = Maybe(Named("update_authority")) /\ M[3] = Payer
      /\ M[4] = System
  BY DEF MetasOfCreateCollection
<1>2. /\ Len(OfCreateCollection.places) = 4
      /\ DOMAIN OfCreateCollection.places = 1 .. 4
      /\ OfCreateCollection.places[1] = "collection"
      /\ OfCreateCollection.places[2] = "update_authority"
      /\ OfCreateCollection.places[3] = "payer"
      /\ OfCreateCollection.places[4] = "system_program"
      /\ OfCreateCollection.optional = { "update_authority" }
  BY DEF OfCreateCollection, Accounts
<1> HIDE DEF M
<1> DEFINE At(i) == FitsAt(M[i], OfCreateCollection.places[i], OfCreateCollection.optional,
                           { "collection", "payer" },
                           { "collection", "payer" })
<1>3. At(1) /\ At(2) /\ At(3) /\ At(4)
  BY <1>1, <1>2, FormsFit DEF Payer, Authority, System, Log
<1>4. \A i \in 1 .. 4 : At(i)
  BY <1>3
<1>5. \A i, j \in 1 .. 4 : OfCreateCollection.places[i] = OfCreateCollection.places[j] => i = j
  BY <1>2
<1>6. QED
  BY <1>1, <1>2, <1>4, <1>5 DEF Fits, M

MetasOfAsset ==
  << Changed("asset"), Maybe(Changed("collection")), Payer,
     Authority, System, Log >>

LEMMA AssetRow ==
  Fits(MetasOfAsset, OfAsset,
       { "payer", "authority" },
       { "asset", "collection", "payer" })
<1> DEFINE M == MetasOfAsset
<1>1. /\ Len(M) = 6 /\ DOMAIN M = 1 .. 6 /\ M[1] = Changed("asset")
      /\ M[2] = Maybe(Changed("collection")) /\ M[3] = Payer
      /\ M[4] = Authority /\ M[5] = System /\ M[6] = Log
  BY DEF MetasOfAsset
<1>2. /\ Len(OfAsset.places) = 6 /\ DOMAIN OfAsset.places = 1 .. 6
      /\ OfAsset.places[1] = "asset" /\ OfAsset.places[2] = "collection"
      /\ OfAsset.places[3] = "payer" /\ OfAsset.places[4] = "authority"
      /\ OfAsset.places[5] = "system_program"
      /\ OfAsset.places[6] = "log_wrapper"
      /\ OfAsset.optional = { "collection", "authority", "log_wrapper" }
  BY DEF OfAsset, Accounts
<1> HIDE DEF M
<1> DEFINE At(i) == FitsAt(M[i], OfAsset.places[i], OfAsset.optional,
                           { "payer", "authority" },
                           { "asset", "collection", "payer" })
<1>3. At(1) /\ At(2) /\ At(3) /\ At(4) /\ At(5) /\ At(6)
  BY <1>1, <1>2, FormsFit DEF Payer, Authority, System, Log
<1>4. \A i \in 1 .. 6 : At(i)
  BY <1>3
<1>5. \A i, j \in 1 .. 6 : OfAsset.places[i] = OfAsset.places[j] => i = j
  BY <1>2
<1>6. QED
  BY <1>1, <1>2, <1>4, <1>5 DEF Fits, M

MetasOfCollection ==
  << Changed("collection"), Payer, Authority, System,
     Log >>

LEMMA CollectionRow ==
  Fits(MetasOfCollection, OfCollection,
       { "payer", "authority" },
       { "collection", "payer" })
<1> DEFINE M == MetasOfCollection
<1>1. /\ Len(M) = 5 /\ DOMAIN M = 1 .. 5 /\ M[1] = Changed("collection")
      /\ M[2] = Payer /\ M[3] = Authority /\ M[4] = System /\ M[5] = Log
  BY DEF MetasOfCollection
<1>2. /\ Len(OfCollection.places) = 5 /\ DOMAIN OfCollection.places = 1 .. 5
      /\ OfCollection.places[1] = "collection"
      /\ OfCollection.places[2] = "payer"
      /\ OfCollection.places[3] = "authority"
      /\ OfCollection.places[4] = "system_program"
      /\ OfCollection.places[5] = "log_wrapper"
      /\ OfCollection.optional = { "authority", "log_wrapper" }
  BY DEF OfCollection, Accounts
<1> HIDE DEF M
<1> DEFINE At(i) == FitsAt(M[i], OfCollection.places[i], OfCollection.optional,
                           { "payer", "authority" },
                           { "collection", "payer" })
<1>3. At(1) /\ At(2) /\ At(3) /\ At(4) /\ At(5)
  BY <1>1, <1>2, FormsFit DEF Payer, Authority, System, Log
<1>4. \A i \in 1 .. 5 : At(i)
  BY <1>3
<1>5. \A i, j \in 1 .. 5 : OfCollection.places[i] = OfCollection.places[j] => i = j
  BY <1>2
<1>6. QED
  BY <1>1, <1>2, <1>4, <1>5 DEF Fits, M

MetasOfBurn ==
  << Changed("asset"), Maybe(Changed("collection")), Payer,
     Authority, Maybe(Named("system_program")), Log >>

LEMMA BurnRow ==
  Fits(MetasOfBurn, OfBurn,
       { "payer", "authority" },
       { "asset", "collection", "payer" })
<1> DEFINE M == MetasOfBurn
<1>1. /\ Len(M) = 6 /\ DOMAIN M = 1 .. 6 /\ M[1] = Changed("asset")
      /\ M[2] = Maybe(Changed("collection")) /\ M[3] = Payer
      /\ M[4] = Authority /\ M[5] = Maybe(Named("system_program"))
      /\ M[6] = Log
  BY DEF MetasOfBurn
<1>2. /\ Len(OfBurn.places) = 6 /\ DOMAIN OfBurn.places = 1 .. 6
      /\ OfBurn.places[1] = "asset" /\ OfBurn.places[2] = "collection"
      /\ OfBurn.places[3] = "payer" /\ OfBurn.places[4] = "authority"
      /\ OfBurn.places[5] = "system_program"
      /\ OfBurn.places[6] = "log_wrapper"
      /\ OfBurn.optional = { "collection", "authority", "system_program", "log_wrapper" }
  BY DEF OfBurn, Accounts
<1> HIDE DEF M
<1> DEFINE At(i) == FitsAt(M[i], OfBurn.places[i], OfBurn.optional,
                           { "payer", "authority" },
                           { "asset", "collection", "payer" })
<1>3. At(1) /\ At(2) /\ At(3) /\ At(4) /\ At(5) /\ At(6)
  BY <1>1, <1>2, FormsFit DEF Payer, Authority, System, Log
<1>4. \A i \in 1 .. 6 : At(i)
  BY <1>3
<1>5. \A i, j \in 1 .. 6 : OfBurn.places[i] = OfBurn.places[j] => i = j
  BY <1>2
<1>6. QED
  BY <1>1, <1>2, <1>4, <1>5 DEF Fits, M

MetasOfBurnCollection ==
  << Changed("collection"), Payer,
     Maybe(Written("authority")), Log >>

LEMMA BurnCollectionRow ==
  Fits(MetasOfBurnCollection, OfBurnCollection,
       { "payer", "authority" },
       { "collection", "payer", "authority" })
<1> DEFINE M == MetasOfBurnCollection
<1>1. /\ Len(M) = 4 /\ DOMAIN M = 1 .. 4 /\ M[1] = Changed("collection")
      /\ M[2] = Payer /\ M[3] = Maybe(Written("authority")) /\ M[4] = Log
  BY DEF MetasOfBurnCollection
<1>2. /\ Len(OfBurnCollection.places) = 4
      /\ DOMAIN OfBurnCollection.places = 1 .. 4
      /\ OfBurnCollection.places[1] = "collection"
      /\ OfBurnCollection.places[2] = "payer"
      /\ OfBurnCollection.places[3] = "authority"
      /\ OfBurnCollection.places[4] = "log_wrapper"
      /\ OfBurnCollection.optional = { "authority", "log_wrapper" }
  BY DEF OfBurnCollection, Accounts
<1> HIDE DEF M
<1> DEFINE At(i) == FitsAt(M[i], OfBurnCollection.places[i], OfBurnCollection.optional,
                           { "payer", "authority" },
                           { "collection", "payer", "authority" })
<1>3. At(1) /\ At(2) /\ At(3) /\ At(4)
  BY <1>1, <1>2, FormsFit DEF Payer, Authority, System, Log
<1>4. \A i \in 1 .. 4 : At(i)
  BY <1>3
<1>5. \A i, j \in 1 .. 4 : OfBurnCollection.places[i] = OfBurnCollection.places[j] => i = j
  BY <1>2
<1>6. QED
  BY <1>1, <1>2, <1>4, <1>5 DEF Fits, M

MetasOfTransfer ==
  << Changed("asset"), Maybe(Named("collection")), Payer,
     Authority, Named("new_owner"), Maybe(Named("system_program")), Log >>

LEMMA TransferRow ==
  Fits(MetasOfTransfer, OfTransfer,
       { "payer", "authority" },
       { "asset", "payer" })
<1> DEFINE M == MetasOfTransfer
<1>1. /\ Len(M) = 7 /\ DOMAIN M = 1 .. 7 /\ M[1] = Changed("asset")
      /\ M[2] = Maybe(Named("collection")) /\ M[3] = Payer /\ M[4] = Authority
      /\ M[5] = Named("new_owner") /\ M[6] = Maybe(Named("system_program"))
      /\ M[7] = Log
  BY DEF MetasOfTransfer
<1>2. /\ Len(OfTransfer.places) = 7 /\ DOMAIN OfTransfer.places = 1 .. 7
      /\ OfTransfer.places[1] = "asset" /\ OfTransfer.places[2] = "collection"
      /\ OfTransfer.places[3] = "payer" /\ OfTransfer.places[4] = "authority"
      /\ OfTransfer.places[5] = "new_owner"
      /\ OfTransfer.places[6] = "system_program"
      /\ OfTransfer.places[7] = "log_wrapper"
      /\ OfTransfer.optional = { "collection", "authority", "system_program", "log_wrapper" }
  BY DEF OfTransfer, Accounts
<1> HIDE DEF M
<1> DEFINE At(i) == FitsAt(M[i], OfTransfer.places[i], OfTransfer.optional,
                           { "payer", "authority" },
                           { "asset", "payer" })
<1>3. At(1) /\ At(2) /\ At(3) /\ At(4) /\ At(5) /\ At(6) /\ At(7)
  BY <1>1, <1>2, FormsFit DEF Payer, Authority, System, Log
<1>4. \A i \in 1 .. 7 : At(i)
  BY <1>3
<1>5. \A i, j \in 1 .. 7 : OfTransfer.places[i] = OfTransfer.places[j] => i = j
  BY <1>2
<1>6. QED
  BY <1>1, <1>2, <1>4, <1>5 DEF Fits, M

MetasOfAssetReadingCollection ==
  << Changed("asset"),
     Maybe(Named("collection")), Payer, Authority, System, Log >>

LEMMA AssetReadingCollectionRow ==
  Fits(MetasOfAssetReadingCollection, OfAsset,
       { "payer", "authority" },
       { "asset", "payer" })
<1> DEFINE M == MetasOfAssetReadingCollection
<1>1. /\ Len(M) = 6 /\ DOMAIN M = 1 .. 6 /\ M[1] = Changed("asset")
      /\ M[2] = Maybe(Named("collection")) /\ M[3] = Payer /\ M[4] = Authority
      /\ M[5] = System /\ M[6] = Log
  BY DEF MetasOfAssetReadingCollection
<1>2. /\ Len(OfAsset.places) = 6 /\ DOMAIN OfAsset.places = 1 .. 6
      /\ OfAsset.places[1] = "asset" /\ OfAsset.places[2] = "collection"
      /\ OfAsset.places[3] = "payer" /\ OfAsset.places[4] = "authority"
      /\ OfAsset.places[5] = "system_program"
      /\ OfAsset.places[6] = "log_wrapper"
      /\ OfAsset.optional = { "collection", "authority", "log_wrapper" }
  BY DEF OfAsset, Accounts
<1> HIDE DEF M
<1> DEFINE At(i) == FitsAt(M[i], OfAsset.places[i], OfAsset.optional,
                           { "payer", "authority" },
                           { "asset", "payer" })
<1>3. At(1) /\ At(2) /\ At(3) /\ At(4) /\ At(5) /\ At(6)
  BY <1>1, <1>2, FormsFit DEF Payer, Authority, System, Log
<1>4. \A i \in 1 .. 6 : At(i)
  BY <1>3
<1>5. \A i, j \in 1 .. 6 : OfAsset.places[i] = OfAsset.places[j] => i = j
  BY <1>2
<1>6. QED
  BY <1>1, <1>2, <1>4, <1>5 DEF Fits, M

MetasOfUpdateCollection ==
  << Changed("collection"), Payer, Authority,
     Maybe(Named("new_update_authority")), System, Log >>

LEMMA UpdateCollectionRow ==
  Fits(MetasOfUpdateCollection, OfUpdateCollection,
       { "payer", "authority" },
       { "collection", "payer" })
<1> DEFINE M == MetasOfUpdateCollection
<1>1. /\ Len(M) = 6 /\ DOMAIN M = 1 .. 6 /\ M[1] = Changed("collection")
      /\ M[2] = Payer /\ M[3] = Authority
      /\ M[4] = Maybe(Named("new_update_authority")) /\ M[5] = System
      /\ M[6] = Log
  BY DEF MetasOfUpdateCollection
<1>2. /\ Len(OfUpdateCollection.places) = 6
      /\ DOMAIN OfUpdateCollection.places = 1 .. 6
      /\ OfUpdateCollection.places[1] = "collection"
      /\ OfUpdateCollection.places[2] = "payer"
      /\ OfUpdateCollection.places[3] = "authority"
      /\ OfUpdateCollection.places[4] = "new_update_authority"
      /\ OfUpdateCollection.places[5] = "system_program"
      /\ OfUpdateCollection.places[6] = "log_wrapper"
      /\ OfUpdateCollection.optional = { "authority", "new_update_authority", "log_wrapper" }
  BY DEF OfUpdateCollection, Accounts
<1> HIDE DEF M
<1> DEFINE At(i) == FitsAt(M[i], OfUpdateCollection.places[i], OfUpdateCollection.optional,
                           { "payer", "authority" },
                           { "collection", "payer" })
<1>3. At(1) /\ At(2) /\ At(3) /\ At(4) /\ At(5) /\ At(6)
  BY <1>1, <1>2, FormsFit DEF Payer, Authority, System, Log
<1>4. \A i \in 1 .. 6 : At(i)
  BY <1>3
<1>5. \A i, j \in 1 .. 6 : OfUpdateCollection.places[i] = OfUpdateCollection.places[j] => i = j
  BY <1>2
<1>6. QED
  BY <1>1, <1>2, <1>4, <1>5 DEF Fits, M

MetasOfCollect ==
  << Changed("recipient1"), Changed("recipient2") >>

LEMMA CollectRow ==
  Fits(MetasOfCollect, OfCollect,
       {},
       { "recipient1", "recipient2" })
<1> DEFINE M == MetasOfCollect
<1>1. /\ Len(M) = 2 /\ DOMAIN M = 1 .. 2 /\ M[1] = Changed("recipient1")
      /\ M[2] = Changed("recipient2")
  BY DEF MetasOfCollect
<1>2. /\ Len(OfCollect.places) = 2 /\ DOMAIN OfCollect.places = 1 .. 2
      /\ OfCollect.places[1] = "recipient1"
      /\ OfCollect.places[2] = "recipient2" /\ OfCollect.optional = {}
  BY DEF OfCollect, Accounts
<1> HIDE DEF M
<1> DEFINE At(i) == FitsAt(M[i], OfCollect.places[i], OfCollect.optional,
                           {},
                           { "recipient1", "recipient2" })
<1>3. At(1) /\ At(2)
  BY <1>1, <1>2, FormsFit DEF Payer, Authority, System, Log
<1>4. \A i \in 1 .. 2 : At(i)
  BY <1>3
<1>5. \A i, j \in 1 .. 2 : OfCollect.places[i] = OfCollect.places[j] => i = j
  BY <1>2
<1>6. QED
  BY <1>1, <1>2, <1>4, <1>5 DEF Fits, M

MetasOfWrite ==
  << Changed("asset"), Maybe(Changed("collection")), Payer,
     Authority, Maybe(Named("buffer")), System, Log >>

LEMMA WriteRow ==
  Fits(MetasOfWrite, OfWrite,
       { "payer", "authority" },
       { "asset", "collection", "payer" })
<1> DEFINE M == MetasOfWrite
<1>1. /\ Len(M) = 7 /\ DOMAIN M = 1 .. 7 /\ M[1] = Changed("asset")
      /\ M[2] = Maybe(Changed("collection")) /\ M[3] = Payer
      /\ M[4] = Authority /\ M[5] = Maybe(Named("buffer")) /\ M[6] = System
      /\ M[7] = Log
  BY DEF MetasOfWrite
<1>2. /\ Len(OfWrite.places) = 7 /\ DOMAIN OfWrite.places = 1 .. 7
      /\ OfWrite.places[1] = "asset" /\ OfWrite.places[2] = "collection"
      /\ OfWrite.places[3] = "payer" /\ OfWrite.places[4] = "authority"
      /\ OfWrite.places[5] = "buffer" /\ OfWrite.places[6] = "system_program"
      /\ OfWrite.places[7] = "log_wrapper"
      /\ OfWrite.optional = { "collection", "authority", "buffer", "log_wrapper" }
  BY DEF OfWrite, Accounts
<1> HIDE DEF M
<1> DEFINE At(i) == FitsAt(M[i], OfWrite.places[i], OfWrite.optional,
                           { "payer", "authority" },
                           { "asset", "collection", "payer" })
<1>3. At(1) /\ At(2) /\ At(3) /\ At(4) /\ At(5) /\ At(6) /\ At(7)
  BY <1>1, <1>2, FormsFit DEF Payer, Authority, System, Log
<1>4. \A i \in 1 .. 7 : At(i)
  BY <1>3
<1>5. \A i, j \in 1 .. 7 : OfWrite.places[i] = OfWrite.places[j] => i = j
  BY <1>2
<1>6. QED
  BY <1>1, <1>2, <1>4, <1>5 DEF Fits, M

MetasOfCollectionWrite ==
  << Changed("collection"), Payer, Authority,
     Maybe(Named("buffer")), System, Log >>

LEMMA CollectionWriteRow ==
  Fits(MetasOfCollectionWrite, OfCollectionWrite,
       { "payer", "authority" },
       { "collection", "payer" })
<1> DEFINE M == MetasOfCollectionWrite
<1>1. /\ Len(M) = 6 /\ DOMAIN M = 1 .. 6 /\ M[1] = Changed("collection")
      /\ M[2] = Payer /\ M[3] = Authority /\ M[4] = Maybe(Named("buffer"))
      /\ M[5] = System /\ M[6] = Log
  BY DEF MetasOfCollectionWrite
<1>2. /\ Len(OfCollectionWrite.places) = 6
      /\ DOMAIN OfCollectionWrite.places = 1 .. 6
      /\ OfCollectionWrite.places[1] = "collection"
      /\ OfCollectionWrite.places[2] = "payer"
      /\ OfCollectionWrite.places[3] = "authority"
      /\ OfCollectionWrite.places[4] = "buffer"
      /\ OfCollectionWrite.places[5] = "system_program"
      /\ OfCollectionWrite.places[6] = "log_wrapper"
      /\ OfCollectionWrite.optional = { "authority", "buffer", "log_wrapper" }
  BY DEF OfCollectionWrite, Accounts
<1> HIDE DEF M
<1> DEFINE At(i) == FitsAt(M[i], OfCollectionWrite.places[i], OfCollectionWrite.optional,
                           { "payer", "authority" },
                           { "collection", "payer" })
<1>3. At(1) /\ At(2) /\ At(3) /\ At(4) /\ At(5) /\ At(6)
  BY <1>1, <1>2, FormsFit DEF Payer, Authority, System, Log
<1>4. \A i \in 1 .. 6 : At(i)
  BY <1>3
<1>5. \A i, j \in 1 .. 6 : OfCollectionWrite.places[i] = OfCollectionWrite.places[j] => i = j
  BY <1>2
<1>6. QED
  BY <1>1, <1>2, <1>4, <1>5 DEF Fits, M

MetasOfUpdateV2 ==
  << Changed("asset"), Maybe(Changed("collection")), Payer,
     Authority, Maybe(Changed("new_collection")), System, Log >>

LEMMA UpdateV2Row ==
  Fits(MetasOfUpdateV2, OfUpdateV2,
       { "payer", "authority" },
       { "asset", "collection", "payer", "new_collection" })
<1> DEFINE M == MetasOfUpdateV2
<1>1. /\ Len(M) = 7 /\ DOMAIN M = 1 .. 7 /\ M[1] = Changed("asset")
      /\ M[2] = Maybe(Changed("collection")) /\ M[3] = Payer
      /\ M[4] = Authority /\ M[5] = Maybe(Changed("new_collection"))
      /\ M[6] = System /\ M[7] = Log
  BY DEF MetasOfUpdateV2
<1>2. /\ Len(OfUpdateV2.places) = 7 /\ DOMAIN OfUpdateV2.places = 1 .. 7
      /\ OfUpdateV2.places[1] = "asset" /\ OfUpdateV2.places[2] = "collection"
      /\ OfUpdateV2.places[3] = "payer" /\ OfUpdateV2.places[4] = "authority"
      /\ OfUpdateV2.places[5] = "new_collection"
      /\ OfUpdateV2.places[6] = "system_program"
      /\ OfUpdateV2.places[7] = "log_wrapper"
      /\ OfUpdateV2.optional = { "collection", "authority", "new_collection", "log_wrapper" }
  BY DEF OfUpdateV2, Accounts
<1> HIDE DEF M
<1> DEFINE At(i) == FitsAt(M[i], OfUpdateV2.places[i], OfUpdateV2.optional,
                           { "payer", "authority" },
                           { "asset", "collection", "payer", "new_collection" })
<1>3. At(1) /\ At(2) /\ At(3) /\ At(4) /\ At(5) /\ At(6) /\ At(7)
  BY <1>1, <1>2, FormsFit DEF Payer, Authority, System, Log
<1>4. \A i \in 1 .. 7 : At(i)
  BY <1>3
<1>5. \A i, j \in 1 .. 7 : OfUpdateV2.places[i] = OfUpdateV2.places[j] => i = j
  BY <1>2
<1>6. QED
  BY <1>1, <1>2, <1>4, <1>5 DEF Fits, M

MetasOfExecute ==
  << Changed("asset"), Maybe(Changed("collection")),
     Named("asset_signer"), ChosenPayer, Authority, System,
     Named("program_id") >>

LEMMA ExecuteRow ==
  Fits(MetasOfExecute, OfExecute,
       { "authority" },
       { "asset", "collection", "payer" })
<1> DEFINE M == MetasOfExecute
<1>1. /\ Len(M) = 7 /\ DOMAIN M = 1 .. 7 /\ M[1] = Changed("asset")
      /\ M[2] = Maybe(Changed("collection")) /\ M[3] = Named("asset_signer")
      /\ M[4] = ChosenPayer /\ M[5] = Authority /\ M[6] = System
      /\ M[7] = Named("program_id")
  BY DEF MetasOfExecute
<1>2. /\ Len(OfExecute.places) = 7 /\ DOMAIN OfExecute.places = 1 .. 7
      /\ OfExecute.places[1] = "asset" /\ OfExecute.places[2] = "collection"
      /\ OfExecute.places[3] = "asset_signer" /\ OfExecute.places[4] = "payer"
      /\ OfExecute.places[5] = "authority"
      /\ OfExecute.places[6] = "system_program"
      /\ OfExecute.places[7] = "program_id"
      /\ OfExecute.optional = { "collection", "authority" }
  BY DEF OfExecute, Accounts
<1> HIDE DEF M
<1> DEFINE At(i) == FitsAt(M[i], OfExecute.places[i], OfExecute.optional,
                           { "authority" },
                           { "asset", "collection", "payer" })
<1>3. At(1) /\ At(2) /\ At(3) /\ At(4) /\ At(5) /\ At(6) /\ At(7)
  BY <1>1, <1>2, FormsFit DEF Payer, Authority, System, Log
<1>4. \A i \in 1 .. 7 : At(i)
  BY <1>3
<1>5. \A i, j \in 1 .. 7 : OfExecute.places[i] = OfExecute.places[j] => i = j
  BY <1>2
<1>6. QED
  BY <1>1, <1>2, <1>4, <1>5 DEF Fits, M

MetasOfCollectionInfo ==
  << Changed("collection"),
     Signer("bubblegum_signer") >>

LEMMA CollectionInfoRow ==
  Fits(MetasOfCollectionInfo, OfCollectionInfo,
       { "bubblegum_signer" },
       { "collection" })
<1> DEFINE M == MetasOfCollectionInfo
<1>1. /\ Len(M) = 2 /\ DOMAIN M = 1 .. 2 /\ M[1] = Changed("collection")
      /\ M[2] = Signer("bubblegum_signer")
  BY DEF MetasOfCollectionInfo
<1>2. /\ Len(OfCollectionInfo.places) = 2
      /\ DOMAIN OfCollectionInfo.places = 1 .. 2
      /\ OfCollectionInfo.places[1] = "collection"
      /\ OfCollectionInfo.places[2] = "bubblegum_signer"
      /\ OfCollectionInfo.optional = {}
  BY DEF OfCollectionInfo, Accounts
<1> HIDE DEF M
<1> DEFINE At(i) == FitsAt(M[i], OfCollectionInfo.places[i], OfCollectionInfo.optional,
                           { "bubblegum_signer" },
                           { "collection" })
<1>3. At(1) /\ At(2)
  BY <1>1, <1>2, FormsFit DEF Payer, Authority, System, Log
<1>4. \A i \in 1 .. 2 : At(i)
  BY <1>3
<1>5. \A i, j \in 1 .. 2 : OfCollectionInfo.places[i] = OfCollectionInfo.places[j] => i = j
  BY <1>2
<1>6. QED
  BY <1>1, <1>2, <1>4, <1>5 DEF Fits, M

MetasOfGroup ==
  << Changed("group"), Payer, Authority, System >>

LEMMA GroupRow ==
  Fits(MetasOfGroup, OfGroup,
       { "payer", "authority" },
       { "group", "payer" })
<1> DEFINE M == MetasOfGroup
<1>1. /\ Len(M) = 4 /\ DOMAIN M = 1 .. 4 /\ M[1] = Changed("group")
      /\ M[2] = Payer /\ M[3] = Authority /\ M[4] = System
  BY DEF MetasOfGroup
<1>2. /\ Len(OfGroup.places) = 4 /\ DOMAIN OfGroup.places = 1 .. 4
      /\ OfGroup.places[1] = "group" /\ OfGroup.places[2] = "payer"
      /\ OfGroup.places[3] = "authority"
      /\ OfGroup.places[4] = "system_program"
      /\ OfGroup.optional = { "authority" }
  BY DEF OfGroup, Accounts
<1> HIDE DEF M
<1> DEFINE At(i) == FitsAt(M[i], OfGroup.places[i], OfGroup.optional,
                           { "payer", "authority" },
                           { "group", "payer" })
<1>3. At(1) /\ At(2) /\ At(3) /\ At(4)
  BY <1>1, <1>2, FormsFit DEF Payer, Authority, System, Log
<1>4. \A i \in 1 .. 4 : At(i)
  BY <1>3
<1>5. \A i, j \in 1 .. 4 : OfGroup.places[i] = OfGroup.places[j] => i = j
  BY <1>2
<1>6. QED
  BY <1>1, <1>2, <1>4, <1>5 DEF Fits, M

MetasOfParentGroup ==
  << Changed("parent_group"), Payer, Authority,
     System >>

LEMMA ParentGroupRow ==
  Fits(MetasOfParentGroup, OfParentGroup,
       { "payer", "authority" },
       { "parent_group", "payer" })
<1> DEFINE M == MetasOfParentGroup
<1>1. /\ Len(M) = 4 /\ DOMAIN M = 1 .. 4 /\ M[1] = Changed("parent_group")
      /\ M[2] = Payer /\ M[3] = Authority /\ M[4] = System
  BY DEF MetasOfParentGroup
<1>2. /\ Len(OfParentGroup.places) = 4 /\ DOMAIN OfParentGroup.places = 1 .. 4
      /\ OfParentGroup.places[1] = "parent_group"
      /\ OfParentGroup.places[2] = "payer"
      /\ OfParentGroup.places[3] = "authority"
      /\ OfParentGroup.places[4] = "system_program"
      /\ OfParentGroup.optional = { "authority" }
  BY DEF OfParentGroup, Accounts
<1> HIDE DEF M
<1> DEFINE At(i) == FitsAt(M[i], OfParentGroup.places[i], OfParentGroup.optional,
                           { "payer", "authority" },
                           { "parent_group", "payer" })
<1>3. At(1) /\ At(2) /\ At(3) /\ At(4)
  BY <1>1, <1>2, FormsFit DEF Payer, Authority, System, Log
<1>4. \A i \in 1 .. 4 : At(i)
  BY <1>3
<1>5. \A i, j \in 1 .. 4 : OfParentGroup.places[i] = OfParentGroup.places[j] => i = j
  BY <1>2
<1>6. QED
  BY <1>1, <1>2, <1>4, <1>5 DEF Fits, M

MetasOfCreateGroup ==
  << Written("group"),
     Maybe(Signer("update_authority")), Payer, System >>

LEMMA CreateGroupRow ==
  Fits(MetasOfCreateGroup, OfCreateGroup,
       { "group", "update_authority", "payer" },
       { "group", "payer" })
<1> DEFINE M == MetasOfCreateGroup
<1>1. /\ Len(M) = 4 /\ DOMAIN M = 1 .. 4 /\ M[1] = Written("group")
      /\ M[2] = Maybe(Signer("update_authority")) /\ M[3] = Payer
      /\ M[4] = System
  BY DEF MetasOfCreateGroup
<1>2. /\ Len(OfCreateGroup.places) = 4 /\ DOMAIN OfCreateGroup.places = 1 .. 4
      /\ OfCreateGroup.places[1] = "group"
      /\ OfCreateGroup.places[2] = "update_authority"
      /\ OfCreateGroup.places[3] = "payer"
      /\ OfCreateGroup.places[4] = "system_program"
      /\ OfCreateGroup.optional = { "update_authority" }
  BY DEF OfCreateGroup, Accounts
<1> HIDE DEF M
<1> DEFINE At(i) == FitsAt(M[i], OfCreateGroup.places[i], OfCreateGroup.optional,
                           { "group", "update_authority", "payer" },
                           { "group", "payer" })
<1>3. At(1) /\ At(2) /\ At(3) /\ At(4)
  BY <1>1, <1>2, FormsFit DEF Payer, Authority, System, Log
<1>4. \A i \in 1 .. 4 : At(i)
  BY <1>3
<1>5. \A i, j \in 1 .. 4 : OfCreateGroup.places[i] = OfCreateGroup.places[j] => i = j
  BY <1>2
<1>6. QED
  BY <1>1, <1>2, <1>4, <1>5 DEF Fits, M

MetasOfCloseGroup ==
  << Changed("group"), Payer, Authority >>

LEMMA CloseGroupRow ==
  Fits(MetasOfCloseGroup, OfCloseGroup,
       { "payer", "authority" },
       { "group", "payer" })
<1> DEFINE M == MetasOfCloseGroup
<1>1. /\ Len(M) = 3 /\ DOMAIN M = 1 .. 3 /\ M[1] = Changed("group")
      /\ M[2] = Payer /\ M[3] = Authority
  BY DEF MetasOfCloseGroup
<1>2. /\ Len(OfCloseGroup.places) = 3 /\ DOMAIN OfCloseGroup.places = 1 .. 3
      /\ OfCloseGroup.places[1] = "group" /\ OfCloseGroup.places[2] = "payer"
      /\ OfCloseGroup.places[3] = "authority"
      /\ OfCloseGroup.optional = { "authority" }
  BY DEF OfCloseGroup, Accounts
<1> HIDE DEF M
<1> DEFINE At(i) == FitsAt(M[i], OfCloseGroup.places[i], OfCloseGroup.optional,
                           { "payer", "authority" },
                           { "group", "payer" })
<1>3. At(1) /\ At(2) /\ At(3)
  BY <1>1, <1>2, FormsFit DEF Payer, Authority, System, Log
<1>4. \A i \in 1 .. 3 : At(i)
  BY <1>3
<1>5. \A i, j \in 1 .. 3 : OfCloseGroup.places[i] = OfCloseGroup.places[j] => i = j
  BY <1>2
<1>6. QED
  BY <1>1, <1>2, <1>4, <1>5 DEF Fits, M

MetasOfUpdateGroup ==
  << Changed("group"), Payer, Authority,
     Maybe(Named("new_update_authority")), System >>

LEMMA UpdateGroupRow ==
  Fits(MetasOfUpdateGroup, OfUpdateGroup,
       { "payer", "authority" },
       { "group", "payer" })
<1> DEFINE M == MetasOfUpdateGroup
<1>1. /\ Len(M) = 5 /\ DOMAIN M = 1 .. 5 /\ M[1] = Changed("group")
      /\ M[2] = Payer /\ M[3] = Authority
      /\ M[4] = Maybe(Named("new_update_authority")) /\ M[5] = System
  BY DEF MetasOfUpdateGroup
<1>2. /\ Len(OfUpdateGroup.places) = 5 /\ DOMAIN OfUpdateGroup.places = 1 .. 5
      /\ OfUpdateGroup.places[1] = "group"
      /\ OfUpdateGroup.places[2] = "payer"
      /\ OfUpdateGroup.places[3] = "authority"
      /\ OfUpdateGroup.places[4] = "new_update_authority"
      /\ OfUpdateGroup.places[5] = "system_program"
      /\ OfUpdateGroup.optional = { "authority", "new_update_authority" }
  BY DEF OfUpdateGroup, Accounts
<1> HIDE DEF M
<1> DEFINE At(i) == FitsAt(M[i], OfUpdateGroup.places[i], OfUpdateGroup.optional,
                           { "payer", "authority" },
                           { "group", "payer" })
<1>3. At(1) /\ At(2) /\ At(3) /\ At(4) /\ At(5)
  BY <1>1, <1>2, FormsFit DEF Payer, Authority, System, Log
<1>4. \A i \in 1 .. 5 : At(i)
  BY <1>3
<1>5. \A i, j \in 1 .. 5 : OfUpdateGroup.places[i] = OfUpdateGroup.places[j] => i = j
  BY <1>2
<1>6. QED
  BY <1>1, <1>2, <1>4, <1>5 DEF Fits, M

-----------------------------------------------------------------------------
(* The two lists *)

\* The four instructions for which the client does not lend the collection.
Readers == { "TransferV1", "UpdateV1", "CompressV1", "DecompressV1" }

\* What handlers need of the privileges that a row asks for.
Enough(op, places, signing, lending) ==
  /\ \A f \in places : f \in { "authority", "bubblegum_signer" } => f \in signing
  /\ op = "ExecuteV1" \/ ("payer" \in places => "payer" \in signing)
  /\ \A f \in places :
       f \in { "asset", "new_collection", "group", "parent_group", "payer",
               "recipient1", "recipient2" } => f \in lending
  /\ op \in Readers \/ ("collection" \in places => "collection" \in lending)
  /\ op \in { "CreateV1", "CreateV2" } => "asset" \in places \cap signing
  /\ op \in { "CreateCollectionV1", "CreateCollectionV2" } => "collection" \in places \cap signing
  /\ op = "CreateGroupV1" => "group" \in signing /\ "update_authority" \in signing

Listed(j, op, accounts, signing, lending) ==
  /\ Instructions[j] = << op, accounts >>
  /\ op \in DOMAIN ClientInstructions /\ ClientInstructions[op].number + 1 = j
  /\ Fits(ClientInstructions[op].metas, accounts, signing, lending)
  /\ Enough(op, Range(accounts.places), signing, lending)

\* The 42 instructions under the numbers of the client.
LEMMA Table ==
  \A j \in 1 .. 42 : \E op, accounts, signing, lending : Listed(j, op, accounts, signing, lending)
<1>1. Listed(1, "CreateV1", OfCreate, { "asset", "authority", "payer" },
             { "asset", "collection", "payer" })
  <2>1. ClientInstructions["CreateV1"] = Instruction(0, MetasOfCreate)
    BY DEF ClientInstructions, CreateV1, MetasOfCreate
  <2>2. Enough("CreateV1", Range(OfCreate.places), { "asset", "authority", "payer" },
               { "asset", "collection", "payer" })
    BY DEF Enough, Readers, Range, OfCreate, Accounts
  <2>3. "CreateV1" \in DOMAIN ClientInstructions
    BY DEF ClientInstructions
  <2>4. QED
    BY <2>1, <2>2, <2>3, CreateRow DEF Listed, Instructions, Instruction
<1>2. Listed(2, "CreateCollectionV1", OfCreateCollection, { "collection", "payer" },
             { "collection", "payer" })
  <2>1. ClientInstructions["CreateCollectionV1"] = Instruction(1, MetasOfCreateCollection)
    BY DEF ClientInstructions, CreateCollectionV1, MetasOfCreateCollection
  <2>2. Enough("CreateCollectionV1", Range(OfCreateCollection.places),
               { "collection", "payer" }, { "collection", "payer" })
    BY DEF Enough, Readers, Range, OfCreateCollection, Accounts
  <2>3. "CreateCollectionV1" \in DOMAIN ClientInstructions
    BY DEF ClientInstructions
  <2>4. QED
    BY <2>1, <2>2, <2>3, CreateCollectionRow DEF Listed, Instructions, Instruction
<1>3. Listed(3, "AddPluginV1", OfAsset, { "payer", "authority" },
             { "asset", "collection", "payer" })
  <2>1. ClientInstructions["AddPluginV1"] = Instruction(2, MetasOfAsset)
    BY DEF ClientInstructions, AddPluginV1, MetasOfAsset
  <2>2. Enough("AddPluginV1", Range(OfAsset.places), { "payer", "authority" },
               { "asset", "collection", "payer" })
    BY DEF Enough, Readers, Range, OfAsset, Accounts
  <2>3. "AddPluginV1" \in DOMAIN ClientInstructions
    BY DEF ClientInstructions
  <2>4. QED
    BY <2>1, <2>2, <2>3, AssetRow DEF Listed, Instructions, Instruction
<1>4. Listed(4, "AddCollectionPluginV1", OfCollection, { "payer", "authority" },
             { "collection", "payer" })
  <2>1. ClientInstructions["AddCollectionPluginV1"] = Instruction(3, MetasOfCollection)
    BY DEF ClientInstructions, AddCollectionPluginV1, MetasOfCollection
  <2>2. Enough("AddCollectionPluginV1", Range(OfCollection.places), { "payer", "authority" },
               { "collection", "payer" })
    BY DEF Enough, Readers, Range, OfCollection, Accounts
  <2>3. "AddCollectionPluginV1" \in DOMAIN ClientInstructions
    BY DEF ClientInstructions
  <2>4. QED
    BY <2>1, <2>2, <2>3, CollectionRow DEF Listed, Instructions, Instruction
<1>5. Listed(5, "RemovePluginV1", OfAsset, { "payer", "authority" },
             { "asset", "collection", "payer" })
  <2>1. ClientInstructions["RemovePluginV1"] = Instruction(4, MetasOfAsset)
    BY DEF ClientInstructions, RemovePluginV1, MetasOfAsset
  <2>2. Enough("RemovePluginV1", Range(OfAsset.places), { "payer", "authority" },
               { "asset", "collection", "payer" })
    BY DEF Enough, Readers, Range, OfAsset, Accounts
  <2>3. "RemovePluginV1" \in DOMAIN ClientInstructions
    BY DEF ClientInstructions
  <2>4. QED
    BY <2>1, <2>2, <2>3, AssetRow DEF Listed, Instructions, Instruction
<1>6. Listed(6, "RemoveCollectionPluginV1", OfCollection, { "payer", "authority" },
             { "collection", "payer" })
  <2>1. ClientInstructions["RemoveCollectionPluginV1"] = Instruction(5, MetasOfCollection)
    BY DEF ClientInstructions, RemoveCollectionPluginV1, MetasOfCollection
  <2>2. Enough("RemoveCollectionPluginV1", Range(OfCollection.places),
               { "payer", "authority" }, { "collection", "payer" })
    BY DEF Enough, Readers, Range, OfCollection, Accounts
  <2>3. "RemoveCollectionPluginV1" \in DOMAIN ClientInstructions
    BY DEF ClientInstructions
  <2>4. QED
    BY <2>1, <2>2, <2>3, CollectionRow DEF Listed, Instructions, Instruction
<1>7. Listed(7, "UpdatePluginV1", OfAsset, { "payer", "authority" },
             { "asset", "collection", "payer" })
  <2>1. ClientInstructions["UpdatePluginV1"] = Instruction(6, MetasOfAsset)
    BY DEF ClientInstructions, UpdatePluginV1, MetasOfAsset
  <2>2. Enough("UpdatePluginV1", Range(OfAsset.places), { "payer", "authority" },
               { "asset", "collection", "payer" })
    BY DEF Enough, Readers, Range, OfAsset, Accounts
  <2>3. "UpdatePluginV1" \in DOMAIN ClientInstructions
    BY DEF ClientInstructions
  <2>4. QED
    BY <2>1, <2>2, <2>3, AssetRow DEF Listed, Instructions, Instruction
<1>8. Listed(8, "UpdateCollectionPluginV1", OfCollection, { "payer", "authority" },
             { "collection", "payer" })
  <2>1. ClientInstructions["UpdateCollectionPluginV1"] = Instruction(7, MetasOfCollection)
    BY DEF ClientInstructions, UpdateCollectionPluginV1, MetasOfCollection
  <2>2. Enough("UpdateCollectionPluginV1", Range(OfCollection.places),
               { "payer", "authority" }, { "collection", "payer" })
    BY DEF Enough, Readers, Range, OfCollection, Accounts
  <2>3. "UpdateCollectionPluginV1" \in DOMAIN ClientInstructions
    BY DEF ClientInstructions
  <2>4. QED
    BY <2>1, <2>2, <2>3, CollectionRow DEF Listed, Instructions, Instruction
<1>9. Listed(9, "ApprovePluginAuthorityV1", OfAsset, { "payer", "authority" },
             { "asset", "collection", "payer" })
  <2>1. ClientInstructions["ApprovePluginAuthorityV1"] = Instruction(8, MetasOfAsset)
    BY DEF ClientInstructions, ApprovePluginAuthorityV1, MetasOfAsset
  <2>2. Enough("ApprovePluginAuthorityV1", Range(OfAsset.places), { "payer", "authority" },
               { "asset", "collection", "payer" })
    BY DEF Enough, Readers, Range, OfAsset, Accounts
  <2>3. "ApprovePluginAuthorityV1" \in DOMAIN ClientInstructions
    BY DEF ClientInstructions
  <2>4. QED
    BY <2>1, <2>2, <2>3, AssetRow DEF Listed, Instructions, Instruction
<1>10. Listed(10, "ApproveCollectionPluginAuthorityV1", OfCollection,
              { "payer", "authority" }, { "collection", "payer" })
  <2>1. ClientInstructions["ApproveCollectionPluginAuthorityV1"] = Instruction(9, MetasOfCollection)
    BY DEF ClientInstructions, ApproveCollectionPluginAuthorityV1, MetasOfCollection
  <2>2. Enough("ApproveCollectionPluginAuthorityV1", Range(OfCollection.places),
               { "payer", "authority" }, { "collection", "payer" })
    BY DEF Enough, Readers, Range, OfCollection, Accounts
  <2>3. "ApproveCollectionPluginAuthorityV1" \in DOMAIN ClientInstructions
    BY DEF ClientInstructions
  <2>4. QED
    BY <2>1, <2>2, <2>3, CollectionRow DEF Listed, Instructions, Instruction
<1>11. Listed(11, "RevokePluginAuthorityV1", OfAsset, { "payer", "authority" },
              { "asset", "collection", "payer" })
  <2>1. ClientInstructions["RevokePluginAuthorityV1"] = Instruction(10, MetasOfAsset)
    BY DEF ClientInstructions, RevokePluginAuthorityV1, MetasOfAsset
  <2>2. Enough("RevokePluginAuthorityV1", Range(OfAsset.places), { "payer", "authority" },
               { "asset", "collection", "payer" })
    BY DEF Enough, Readers, Range, OfAsset, Accounts
  <2>3. "RevokePluginAuthorityV1" \in DOMAIN ClientInstructions
    BY DEF ClientInstructions
  <2>4. QED
    BY <2>1, <2>2, <2>3, AssetRow DEF Listed, Instructions, Instruction
<1>12. Listed(12, "RevokeCollectionPluginAuthorityV1", OfCollection, { "payer", "authority" },
              { "collection", "payer" })
  <2>1. ClientInstructions["RevokeCollectionPluginAuthorityV1"] = Instruction(11, MetasOfCollection)
    BY DEF ClientInstructions, RevokeCollectionPluginAuthorityV1, MetasOfCollection
  <2>2. Enough("RevokeCollectionPluginAuthorityV1", Range(OfCollection.places),
               { "payer", "authority" }, { "collection", "payer" })
    BY DEF Enough, Readers, Range, OfCollection, Accounts
  <2>3. "RevokeCollectionPluginAuthorityV1" \in DOMAIN ClientInstructions
    BY DEF ClientInstructions
  <2>4. QED
    BY <2>1, <2>2, <2>3, CollectionRow DEF Listed, Instructions, Instruction
<1>13. Listed(13, "BurnV1", OfBurn, { "payer", "authority" }, { "asset", "collection", "payer" })
  <2>1. ClientInstructions["BurnV1"] = Instruction(12, MetasOfBurn)
    BY DEF ClientInstructions, BurnV1, MetasOfBurn
  <2>2. Enough("BurnV1", Range(OfBurn.places), { "payer", "authority" },
               { "asset", "collection", "payer" })
    BY DEF Enough, Readers, Range, OfBurn, Accounts
  <2>3. "BurnV1" \in DOMAIN ClientInstructions
    BY DEF ClientInstructions
  <2>4. QED
    BY <2>1, <2>2, <2>3, BurnRow DEF Listed, Instructions, Instruction
<1>14. Listed(14, "BurnCollectionV1", OfBurnCollection, { "payer", "authority" },
              { "collection", "payer", "authority" })
  <2>1. ClientInstructions["BurnCollectionV1"] = Instruction(13, MetasOfBurnCollection)
    BY DEF ClientInstructions, BurnCollectionV1, MetasOfBurnCollection
  <2>2. Enough("BurnCollectionV1", Range(OfBurnCollection.places), { "payer", "authority" },
               { "collection", "payer", "authority" })
    BY DEF Enough, Readers, Range, OfBurnCollection, Accounts
  <2>3. "BurnCollectionV1" \in DOMAIN ClientInstructions
    BY DEF ClientInstructions
  <2>4. QED
    BY <2>1, <2>2, <2>3, BurnCollectionRow DEF Listed, Instructions, Instruction
<1>15. Listed(15, "TransferV1", OfTransfer, { "payer", "authority" }, { "asset", "payer" })
  <2>1. ClientInstructions["TransferV1"] = Instruction(14, MetasOfTransfer)
    BY DEF ClientInstructions, TransferV1, MetasOfTransfer
  <2>2. Enough("TransferV1", Range(OfTransfer.places), { "payer", "authority" },
               { "asset", "payer" })
    BY DEF Enough, Readers, Range, OfTransfer, Accounts
  <2>3. "TransferV1" \in DOMAIN ClientInstructions
    BY DEF ClientInstructions
  <2>4. QED
    BY <2>1, <2>2, <2>3, TransferRow DEF Listed, Instructions, Instruction
<1>16. Listed(16, "UpdateV1", OfAsset, { "payer", "authority" }, { "asset", "payer" })
  <2>1. ClientInstructions["UpdateV1"] = Instruction(15, MetasOfAssetReadingCollection)
    BY DEF ClientInstructions, UpdateV1, MetasOfAssetReadingCollection
  <2>2. Enough("UpdateV1", Range(OfAsset.places), { "payer", "authority" }, { "asset", "payer" })
    BY DEF Enough, Readers, Range, OfAsset, Accounts
  <2>3. "UpdateV1" \in DOMAIN ClientInstructions
    BY DEF ClientInstructions
  <2>4. QED
    BY <2>1, <2>2, <2>3, AssetReadingCollectionRow DEF Listed, Instructions, Instruction
<1>17. Listed(17, "UpdateCollectionV1", OfUpdateCollection, { "payer", "authority" },
              { "collection", "payer" })
  <2>1. ClientInstructions["UpdateCollectionV1"] = Instruction(16, MetasOfUpdateCollection)
    BY DEF ClientInstructions, UpdateCollectionV1, MetasOfUpdateCollection
  <2>2. Enough("UpdateCollectionV1", Range(OfUpdateCollection.places),
               { "payer", "authority" }, { "collection", "payer" })
    BY DEF Enough, Readers, Range, OfUpdateCollection, Accounts
  <2>3. "UpdateCollectionV1" \in DOMAIN ClientInstructions
    BY DEF ClientInstructions
  <2>4. QED
    BY <2>1, <2>2, <2>3, UpdateCollectionRow DEF Listed, Instructions, Instruction
<1>18. Listed(18, "CompressV1", OfAsset, { "payer", "authority" }, { "asset", "payer" })
  <2>1. ClientInstructions["CompressV1"] = Instruction(17, MetasOfAssetReadingCollection)
    BY DEF ClientInstructions, CompressV1, MetasOfAssetReadingCollection
  <2>2. Enough("CompressV1", Range(OfAsset.places), { "payer", "authority" }, { "asset", "payer" })
    BY DEF Enough, Readers, Range, OfAsset, Accounts
  <2>3. "CompressV1" \in DOMAIN ClientInstructions
    BY DEF ClientInstructions
  <2>4. QED
    BY <2>1, <2>2, <2>3, AssetReadingCollectionRow DEF Listed, Instructions, Instruction
<1>19. Listed(19, "DecompressV1", OfAsset, { "payer", "authority" }, { "asset", "payer" })
  <2>1. ClientInstructions["DecompressV1"] = Instruction(18, MetasOfAssetReadingCollection)
    BY DEF ClientInstructions, DecompressV1, MetasOfAssetReadingCollection
  <2>2. Enough("DecompressV1", Range(OfAsset.places), { "payer", "authority" },
               { "asset", "payer" })
    BY DEF Enough, Readers, Range, OfAsset, Accounts
  <2>3. "DecompressV1" \in DOMAIN ClientInstructions
    BY DEF ClientInstructions
  <2>4. QED
    BY <2>1, <2>2, <2>3, AssetReadingCollectionRow DEF Listed, Instructions, Instruction
<1>20. Listed(20, "Collect", OfCollect, {}, { "recipient1", "recipient2" })
  <2>1. ClientInstructions["Collect"] = Instruction(19, MetasOfCollect)
    BY DEF ClientInstructions, Collect, MetasOfCollect
  <2>2. Enough("Collect", Range(OfCollect.places), {}, { "recipient1", "recipient2" })
    BY DEF Enough, Readers, Range, OfCollect, Accounts
  <2>3. "Collect" \in DOMAIN ClientInstructions
    BY DEF ClientInstructions
  <2>4. QED
    BY <2>1, <2>2, <2>3, CollectRow DEF Listed, Instructions, Instruction
<1>21. Listed(21, "CreateV2", OfCreate, { "asset", "authority", "payer" },
              { "asset", "collection", "payer" })
  <2>1. ClientInstructions["CreateV2"] = Instruction(20, MetasOfCreate)
    BY DEF ClientInstructions, CreateV2, MetasOfCreate
  <2>2. Enough("CreateV2", Range(OfCreate.places), { "asset", "authority", "payer" },
               { "asset", "collection", "payer" })
    BY DEF Enough, Readers, Range, OfCreate, Accounts
  <2>3. "CreateV2" \in DOMAIN ClientInstructions
    BY DEF ClientInstructions
  <2>4. QED
    BY <2>1, <2>2, <2>3, CreateRow DEF Listed, Instructions, Instruction
<1>22. Listed(22, "CreateCollectionV2", OfCreateCollection, { "collection", "payer" },
              { "collection", "payer" })
  <2>1. ClientInstructions["CreateCollectionV2"] = Instruction(21, MetasOfCreateCollection)
    BY DEF ClientInstructions, CreateCollectionV2, MetasOfCreateCollection
  <2>2. Enough("CreateCollectionV2", Range(OfCreateCollection.places),
               { "collection", "payer" }, { "collection", "payer" })
    BY DEF Enough, Readers, Range, OfCreateCollection, Accounts
  <2>3. "CreateCollectionV2" \in DOMAIN ClientInstructions
    BY DEF ClientInstructions
  <2>4. QED
    BY <2>1, <2>2, <2>3, CreateCollectionRow DEF Listed, Instructions, Instruction
<1>23. Listed(23, "AddExternalPluginAdapterV1", OfAsset, { "payer", "authority" },
              { "asset", "collection", "payer" })
  <2>1. ClientInstructions["AddExternalPluginAdapterV1"] = Instruction(22, MetasOfAsset)
    BY DEF ClientInstructions, AddExternalPluginAdapterV1, MetasOfAsset
  <2>2. Enough("AddExternalPluginAdapterV1", Range(OfAsset.places), { "payer", "authority" },
               { "asset", "collection", "payer" })
    BY DEF Enough, Readers, Range, OfAsset, Accounts
  <2>3. "AddExternalPluginAdapterV1" \in DOMAIN ClientInstructions
    BY DEF ClientInstructions
  <2>4. QED
    BY <2>1, <2>2, <2>3, AssetRow DEF Listed, Instructions, Instruction
<1>24. Listed(24, "AddCollectionExternalPluginAdapterV1", OfCollection,
              { "payer", "authority" }, { "collection", "payer" })
  <2>1. ClientInstructions["AddCollectionExternalPluginAdapterV1"] = Instruction(23, MetasOfCollection)
    BY DEF ClientInstructions, AddCollectionExternalPluginAdapterV1, MetasOfCollection
  <2>2. Enough("AddCollectionExternalPluginAdapterV1", Range(OfCollection.places),
               { "payer", "authority" }, { "collection", "payer" })
    BY DEF Enough, Readers, Range, OfCollection, Accounts
  <2>3. "AddCollectionExternalPluginAdapterV1" \in DOMAIN ClientInstructions
    BY DEF ClientInstructions
  <2>4. QED
    BY <2>1, <2>2, <2>3, CollectionRow DEF Listed, Instructions, Instruction
<1>25. Listed(25, "RemoveExternalPluginAdapterV1", OfAsset, { "payer", "authority" },
              { "asset", "collection", "payer" })
  <2>1. ClientInstructions["RemoveExternalPluginAdapterV1"] = Instruction(24, MetasOfAsset)
    BY DEF ClientInstructions, RemoveExternalPluginAdapterV1, MetasOfAsset
  <2>2. Enough("RemoveExternalPluginAdapterV1", Range(OfAsset.places),
               { "payer", "authority" }, { "asset", "collection", "payer" })
    BY DEF Enough, Readers, Range, OfAsset, Accounts
  <2>3. "RemoveExternalPluginAdapterV1" \in DOMAIN ClientInstructions
    BY DEF ClientInstructions
  <2>4. QED
    BY <2>1, <2>2, <2>3, AssetRow DEF Listed, Instructions, Instruction
<1>26. Listed(26, "RemoveCollectionExternalPluginAdapterV1", OfCollection,
              { "payer", "authority" }, { "collection", "payer" })
  <2>1. ClientInstructions["RemoveCollectionExternalPluginAdapterV1"] = Instruction(25, MetasOfCollection)
    BY DEF ClientInstructions, RemoveCollectionExternalPluginAdapterV1, MetasOfCollection
  <2>2. Enough("RemoveCollectionExternalPluginAdapterV1", Range(OfCollection.places),
               { "payer", "authority" }, { "collection", "payer" })
    BY DEF Enough, Readers, Range, OfCollection, Accounts
  <2>3. "RemoveCollectionExternalPluginAdapterV1" \in DOMAIN ClientInstructions
    BY DEF ClientInstructions
  <2>4. QED
    BY <2>1, <2>2, <2>3, CollectionRow DEF Listed, Instructions, Instruction
<1>27. Listed(27, "UpdateExternalPluginAdapterV1", OfAsset, { "payer", "authority" },
              { "asset", "collection", "payer" })
  <2>1. ClientInstructions["UpdateExternalPluginAdapterV1"] = Instruction(26, MetasOfAsset)
    BY DEF ClientInstructions, UpdateExternalPluginAdapterV1, MetasOfAsset
  <2>2. Enough("UpdateExternalPluginAdapterV1", Range(OfAsset.places),
               { "payer", "authority" }, { "asset", "collection", "payer" })
    BY DEF Enough, Readers, Range, OfAsset, Accounts
  <2>3. "UpdateExternalPluginAdapterV1" \in DOMAIN ClientInstructions
    BY DEF ClientInstructions
  <2>4. QED
    BY <2>1, <2>2, <2>3, AssetRow DEF Listed, Instructions, Instruction
<1>28. Listed(28, "UpdateCollectionExternalPluginAdapterV1", OfCollection,
              { "payer", "authority" }, { "collection", "payer" })
  <2>1. ClientInstructions["UpdateCollectionExternalPluginAdapterV1"] = Instruction(27, MetasOfCollection)
    BY DEF ClientInstructions, UpdateCollectionExternalPluginAdapterV1, MetasOfCollection
  <2>2. Enough("UpdateCollectionExternalPluginAdapterV1", Range(OfCollection.places),
               { "payer", "authority" }, { "collection", "payer" })
    BY DEF Enough, Readers, Range, OfCollection, Accounts
  <2>3. "UpdateCollectionExternalPluginAdapterV1" \in DOMAIN ClientInstructions
    BY DEF ClientInstructions
  <2>4. QED
    BY <2>1, <2>2, <2>3, CollectionRow DEF Listed, Instructions, Instruction
<1>29. Listed(29, "WriteExternalPluginAdapterDataV1", OfWrite, { "payer", "authority" },
              { "asset", "collection", "payer" })
  <2>1. ClientInstructions["WriteExternalPluginAdapterDataV1"] = Instruction(28, MetasOfWrite)
    BY DEF ClientInstructions, WriteExternalPluginAdapterDataV1, MetasOfWrite
  <2>2. Enough("WriteExternalPluginAdapterDataV1", Range(OfWrite.places),
               { "payer", "authority" }, { "asset", "collection", "payer" })
    BY DEF Enough, Readers, Range, OfWrite, Accounts
  <2>3. "WriteExternalPluginAdapterDataV1" \in DOMAIN ClientInstructions
    BY DEF ClientInstructions
  <2>4. QED
    BY <2>1, <2>2, <2>3, WriteRow DEF Listed, Instructions, Instruction
<1>30. Listed(30, "WriteCollectionExternalPluginAdapterDataV1", OfCollectionWrite,
              { "payer", "authority" }, { "collection", "payer" })
  <2>1. ClientInstructions["WriteCollectionExternalPluginAdapterDataV1"] = Instruction(29, MetasOfCollectionWrite)
    BY DEF ClientInstructions, WriteCollectionExternalPluginAdapterDataV1, MetasOfCollectionWrite
  <2>2. Enough("WriteCollectionExternalPluginAdapterDataV1", Range(OfCollectionWrite.places),
               { "payer", "authority" }, { "collection", "payer" })
    BY DEF Enough, Readers, Range, OfCollectionWrite, Accounts
  <2>3. "WriteCollectionExternalPluginAdapterDataV1" \in DOMAIN ClientInstructions
    BY DEF ClientInstructions
  <2>4. QED
    BY <2>1, <2>2, <2>3, CollectionWriteRow DEF Listed, Instructions, Instruction
<1>31. Listed(31, "UpdateV2", OfUpdateV2, { "payer", "authority" },
              { "asset", "collection", "payer", "new_collection" })
  <2>1. ClientInstructions["UpdateV2"] = Instruction(30, MetasOfUpdateV2)
    BY DEF ClientInstructions, UpdateV2, MetasOfUpdateV2
  <2>2. Enough("UpdateV2", Range(OfUpdateV2.places), { "payer", "authority" },
               { "asset", "collection", "payer", "new_collection" })
    BY DEF Enough, Readers, Range, OfUpdateV2, Accounts
  <2>3. "UpdateV2" \in DOMAIN ClientInstructions
    BY DEF ClientInstructions
  <2>4. QED
    BY <2>1, <2>2, <2>3, UpdateV2Row DEF Listed, Instructions, Instruction
<1>32. Listed(32, "ExecuteV1", OfExecute, { "authority" }, { "asset", "collection", "payer" })
  <2>1. ClientInstructions["ExecuteV1"] = Instruction(31, MetasOfExecute)
    BY DEF ClientInstructions, ExecuteV1, MetasOfExecute
  <2>2. Enough("ExecuteV1", Range(OfExecute.places), { "authority" },
               { "asset", "collection", "payer" })
    BY DEF Enough, Readers, Range, OfExecute, Accounts
  <2>3. "ExecuteV1" \in DOMAIN ClientInstructions
    BY DEF ClientInstructions
  <2>4. QED
    BY <2>1, <2>2, <2>3, ExecuteRow DEF Listed, Instructions, Instruction
<1>33. Listed(33, "UpdateCollectionInfoV1", OfCollectionInfo, { "bubblegum_signer" },
              { "collection" })
  <2>1. ClientInstructions["UpdateCollectionInfoV1"] = Instruction(32, MetasOfCollectionInfo)
    BY DEF ClientInstructions, UpdateCollectionInfoV1, MetasOfCollectionInfo
  <2>2. Enough("UpdateCollectionInfoV1", Range(OfCollectionInfo.places),
               { "bubblegum_signer" }, { "collection" })
    BY DEF Enough, Readers, Range, OfCollectionInfo, Accounts
  <2>3. "UpdateCollectionInfoV1" \in DOMAIN ClientInstructions
    BY DEF ClientInstructions
  <2>4. QED
    BY <2>1, <2>2, <2>3, CollectionInfoRow DEF Listed, Instructions, Instruction
<1>34. Listed(34, "AddCollectionsToGroupV1", OfGroup, { "payer", "authority" },
              { "group", "payer" })
  <2>1. ClientInstructions["AddCollectionsToGroupV1"] = Instruction(33, MetasOfGroup)
    BY DEF ClientInstructions, AddCollectionsToGroupV1, MetasOfGroup
  <2>2. Enough("AddCollectionsToGroupV1", Range(OfGroup.places), { "payer", "authority" },
               { "group", "payer" })
    BY DEF Enough, Readers, Range, OfGroup, Accounts
  <2>3. "AddCollectionsToGroupV1" \in DOMAIN ClientInstructions
    BY DEF ClientInstructions
  <2>4. QED
    BY <2>1, <2>2, <2>3, GroupRow DEF Listed, Instructions, Instruction
<1>35. Listed(35, "RemoveCollectionsFromGroupV1", OfGroup, { "payer", "authority" },
              { "group", "payer" })
  <2>1. ClientInstructions["RemoveCollectionsFromGroupV1"] = Instruction(34, MetasOfGroup)
    BY DEF ClientInstructions, RemoveCollectionsFromGroupV1, MetasOfGroup
  <2>2. Enough("RemoveCollectionsFromGroupV1", Range(OfGroup.places),
               { "payer", "authority" }, { "group", "payer" })
    BY DEF Enough, Readers, Range, OfGroup, Accounts
  <2>3. "RemoveCollectionsFromGroupV1" \in DOMAIN ClientInstructions
    BY DEF ClientInstructions
  <2>4. QED
    BY <2>1, <2>2, <2>3, GroupRow DEF Listed, Instructions, Instruction
<1>36. Listed(36, "AddAssetsToGroupV1", OfGroup, { "payer", "authority" }, { "group", "payer" })
  <2>1. ClientInstructions["AddAssetsToGroupV1"] = Instruction(35, MetasOfGroup)
    BY DEF ClientInstructions, AddAssetsToGroupV1, MetasOfGroup
  <2>2. Enough("AddAssetsToGroupV1", Range(OfGroup.places), { "payer", "authority" },
               { "group", "payer" })
    BY DEF Enough, Readers, Range, OfGroup, Accounts
  <2>3. "AddAssetsToGroupV1" \in DOMAIN ClientInstructions
    BY DEF ClientInstructions
  <2>4. QED
    BY <2>1, <2>2, <2>3, GroupRow DEF Listed, Instructions, Instruction
<1>37. Listed(37, "RemoveAssetsFromGroupV1", OfGroup, { "payer", "authority" },
              { "group", "payer" })
  <2>1. ClientInstructions["RemoveAssetsFromGroupV1"] = Instruction(36, MetasOfGroup)
    BY DEF ClientInstructions, RemoveAssetsFromGroupV1, MetasOfGroup
  <2>2. Enough("RemoveAssetsFromGroupV1", Range(OfGroup.places), { "payer", "authority" },
               { "group", "payer" })
    BY DEF Enough, Readers, Range, OfGroup, Accounts
  <2>3. "RemoveAssetsFromGroupV1" \in DOMAIN ClientInstructions
    BY DEF ClientInstructions
  <2>4. QED
    BY <2>1, <2>2, <2>3, GroupRow DEF Listed, Instructions, Instruction
<1>38. Listed(38, "AddGroupsToGroupV1", OfParentGroup, { "payer", "authority" },
              { "parent_group", "payer" })
  <2>1. ClientInstructions["AddGroupsToGroupV1"] = Instruction(37, MetasOfParentGroup)
    BY DEF ClientInstructions, AddGroupsToGroupV1, MetasOfParentGroup
  <2>2. Enough("AddGroupsToGroupV1", Range(OfParentGroup.places), { "payer", "authority" },
               { "parent_group", "payer" })
    BY DEF Enough, Readers, Range, OfParentGroup, Accounts
  <2>3. "AddGroupsToGroupV1" \in DOMAIN ClientInstructions
    BY DEF ClientInstructions
  <2>4. QED
    BY <2>1, <2>2, <2>3, ParentGroupRow DEF Listed, Instructions, Instruction
<1>39. Listed(39, "RemoveGroupsFromGroupV1", OfParentGroup, { "payer", "authority" },
              { "parent_group", "payer" })
  <2>1. ClientInstructions["RemoveGroupsFromGroupV1"] = Instruction(38, MetasOfParentGroup)
    BY DEF ClientInstructions, RemoveGroupsFromGroupV1, MetasOfParentGroup
  <2>2. Enough("RemoveGroupsFromGroupV1", Range(OfParentGroup.places),
               { "payer", "authority" }, { "parent_group", "payer" })
    BY DEF Enough, Readers, Range, OfParentGroup, Accounts
  <2>3. "RemoveGroupsFromGroupV1" \in DOMAIN ClientInstructions
    BY DEF ClientInstructions
  <2>4. QED
    BY <2>1, <2>2, <2>3, ParentGroupRow DEF Listed, Instructions, Instruction
<1>40. Listed(40, "CreateGroupV1", OfCreateGroup, { "group", "update_authority", "payer" },
              { "group", "payer" })
  <2>1. ClientInstructions["CreateGroupV1"] = Instruction(39, MetasOfCreateGroup)
    BY DEF ClientInstructions, CreateGroupV1, MetasOfCreateGroup
  <2>2. Enough("CreateGroupV1", Range(OfCreateGroup.places),
               { "group", "update_authority", "payer" }, { "group", "payer" })
    BY DEF Enough, Readers, Range, OfCreateGroup, Accounts
  <2>3. "CreateGroupV1" \in DOMAIN ClientInstructions
    BY DEF ClientInstructions
  <2>4. QED
    BY <2>1, <2>2, <2>3, CreateGroupRow DEF Listed, Instructions, Instruction
<1>41. Listed(41, "CloseGroupV1", OfCloseGroup, { "payer", "authority" }, { "group", "payer" })
  <2>1. ClientInstructions["CloseGroupV1"] = Instruction(40, MetasOfCloseGroup)
    BY DEF ClientInstructions, CloseGroupV1, MetasOfCloseGroup
  <2>2. Enough("CloseGroupV1", Range(OfCloseGroup.places), { "payer", "authority" },
               { "group", "payer" })
    BY DEF Enough, Readers, Range, OfCloseGroup, Accounts
  <2>3. "CloseGroupV1" \in DOMAIN ClientInstructions
    BY DEF ClientInstructions
  <2>4. QED
    BY <2>1, <2>2, <2>3, CloseGroupRow DEF Listed, Instructions, Instruction
<1>42. Listed(42, "UpdateGroupV1", OfUpdateGroup, { "payer", "authority" }, { "group", "payer" })
  <2>1. ClientInstructions["UpdateGroupV1"] = Instruction(41, MetasOfUpdateGroup)
    BY DEF ClientInstructions, UpdateGroupV1, MetasOfUpdateGroup
  <2>2. Enough("UpdateGroupV1", Range(OfUpdateGroup.places), { "payer", "authority" },
               { "group", "payer" })
    BY DEF Enough, Readers, Range, OfUpdateGroup, Accounts
  <2>3. "UpdateGroupV1" \in DOMAIN ClientInstructions
    BY DEF ClientInstructions
  <2>4. QED
    BY <2>1, <2>2, <2>3, UpdateGroupRow DEF Listed, Instructions, Instruction
<1>43. QED
  BY <1>1, <1>2, <1>3, <1>4, <1>5, <1>6, <1>7, <1>8, <1>9, <1>10, <1>11, <1>12, <1>13, <1>14,
     <1>15, <1>16, <1>17, <1>18, <1>19, <1>20, <1>21, <1>22, <1>23, <1>24, <1>25, <1>26,
     <1>27, <1>28, <1>29, <1>30, <1>31, <1>32, <1>33, <1>34, <1>35, <1>36, <1>37, <1>38,
     <1>39, <1>40, <1>41, <1>42

-----------------------------------------------------------------------------
(* Calls are read back *)

\* What the program reads of a call, and the privileges that came with it.
Reading(x, op, places, signing, lending) ==
  LET metas == ClientInstructions[op].metas
      named == x.read.named
  IN /\ x.call.op = op /\ x.read.op = op
     /\ x.call.rest \in Rests(op) /\ x.read.rest = x.call.rest
     /\ DOMAIN x.call.keys = DOMAIN metas /\ DOMAIN named = Range(places)
     /\ Range(places) = { metas[i].field : i \in DOMAIN metas }
     /\ \A i \in DOMAIN metas : named[metas[i].field] = x.call.keys[i]
     /\ \A f \in Range(places) : named[f] # "None" =>
          /\ f \in signing => Signs(x.message, named[f])
          /\ f \in lending => Lends(x.message, named[f])
     /\ \A i \in DOMAIN x.call.rest : Lends(x.message, x.call.rest[i])
     /\ "payer" \in Range(places) =>
          /\ named["payer"] \in Payers \cup Vaults
          /\ "payer" \in signing => named["payer"] \in Payers
          /\ named["payer"] \notin Vaults => Signs(x.message, named["payer"])

\* A row of keys names for each place a key that may stand there.
LEMMA RowsAreNamed ==
  ASSUME NEW metas, DOMAIN metas \subseteq 1 .. 8, NEW keys \in Rows(metas)
  PROVE  DOMAIN keys = DOMAIN metas /\ \A i \in DOMAIN metas : keys[i] \in MayName(metas[i])
<1> DEFINE At(i) == IF i \in DOMAIN metas THEN MayName(metas[i]) ELSE { "None" }
<1>1. PICK row \in At(1) \X At(2) \X At(3) \X At(4) \X At(5) \X At(6) \X At(7) \X At(8) :
        keys = [i \in DOMAIN metas |-> row[i]]
  BY DEF Rows
<1>2. /\ row[1] \in At(1) /\ row[2] \in At(2) /\ row[3] \in At(3) /\ row[4] \in At(4)
      /\ row[5] \in At(5) /\ row[6] \in At(6) /\ row[7] \in At(7) /\ row[8] \in At(8)
  <2> HIDE DEF At
  <2>1. QED
    BY <1>1
<1> HIDE DEF At
<1>3. \A i \in 1 .. 8 : row[i] \in At(i)
  BY <1>2
<1>4. QED
  BY <1>1, <1>3 DEF At

\* No caller names the program's own address, which stands for none.
LEMMA NamesAreKeys ==
  ASSUME NEW meta
  PROVE  /\ "MplCore" \notin MayName(meta)
         /\ meta.field = "payer" /\ ~ meta.optional =>
              /\ MayName(meta) \subseteq Payers \cup Vaults
              /\ meta.signs # "Chosen" => MayName(meta) \subseteq Payers
         /\ meta.field \in { "asset", "collection" } /\ ~ meta.optional => MayName(meta) \subseteq ProgramKeys
<1>1. meta.field = "payer" /\ ~ meta.optional =>
        /\ MayName(meta) \subseteq Payers \cup Vaults
        /\ meta.signs # "Chosen" => MayName(meta) \subseteq Payers
  BY DEF MayName
<1>2. Payers \subseteq Keys /\ Vaults \subseteq Keys /\ AssetKeys \subseteq Keys /\ CollectionKeys \subseteq Keys
      /\ GroupKeys \subseteq Keys /\ Wallets \subseteq Keys /\ Recipients[1] \in Keys /\ Recipients[2] \in Keys
  BY MessagesAssumption DEF Keys, ProgramKeys
<1>3. MayName(meta) \subseteq Keys \cup { "None", "system_program", "log_wrapper", "program_id", "bubblegum_signer" }
  BY <1>2 DEF MayName
<1>4. "MplCore" \notin MayName(meta)
  BY <1>3, KeysAssumption
<1>5. meta.field \in { "asset", "collection" } /\ ~ meta.optional => MayName(meta) \subseteq ProgramKeys
  BY DEF MayName, ProgramKeys
<1>6. QED
  BY <1>1, <1>4, <1>5

\* What comes after the accounts of an instruction.
LEMMA RestsAreRows ==
  ASSUME NEW op, NEW rest \in Rests(op)
  PROVE  \E n \in Nat : rest \in [1 .. n -> ProgramKeys]
<1>1. CASE rest = << >>
  BY <1>1
<1>2. CASE rest # << >>
  <2>1. PICK max \in { MaxMembers, MaxCollected } : rest \in UNION { [1 .. n -> ProgramKeys] : n \in 0 .. max }
    BY <1>2 DEF Rests
  <2>2. PICK n \in 0 .. max : rest \in [1 .. n -> ProgramKeys]
    BY <2>1
  <2>3. QED
    BY <2>2, MessagesAssumption
<1>3. QED
  BY <1>1, <1>2

\* The message of a call has the accounts of its row, then the rest.
Carries(message, op, keys, rest, n, m) ==
  /\ message.number = ClientInstructions[op].number
  /\ Len(message.accounts) = n + m /\ DOMAIN message.accounts = 1 .. n + m
  /\ \A i \in 1 .. n : message.accounts[i] = Encode(ClientInstructions[op].metas[i], keys[i])
  /\ \A i \in 1 .. m : message.accounts[n + i] = Remaining(rest[i])

\* A message has the accounts of the instruction and then the others.
LEMMA MessagesAreRows ==
  ASSUME NEW op, NEW keys, NEW rest, NEW n \in Nat, NEW m \in Nat,
         DOMAIN ClientInstructions[op].metas = 1 .. n,
         rest \in [1 .. m -> ProgramKeys]
  PROVE  Carries(Message(Call(op, keys, rest)), op, keys, rest, n, m)
<1> DEFINE metas == ClientInstructions[op].metas
           message == Message(Call(op, keys, rest))
           named == [i \in 1 .. n |-> Encode(metas[i], keys[i])]
           others == [i \in 1 .. m |-> Remaining(rest[i])]
           S == { named[i] : i \in 1 .. n } \cup { others[i] : i \in 1 .. m }
<1>1. message.accounts = named \o others /\ message.number = ClientInstructions[op].number
  BY DEF Message, Call
<1>2. named \in Seq(S) /\ Len(named) = n
  OBVIOUS
<1>3. others \in Seq(S) /\ Len(others) = m
  OBVIOUS
<1>4. /\ \A i \in 1 .. n : named[i] = Encode(metas[i], keys[i])
      /\ \A i \in 1 .. m : others[i] = Remaining(rest[i])
  OBVIOUS
<1> HIDE DEF named, others, S, metas, message
<1>5. /\ named \o others \in Seq(S) /\ Len(named \o others) = n + m
      /\ \A i \in 1 .. n + m : (named \o others)[i] = IF i <= n THEN named[i] ELSE others[i - n]
  BY <1>2, <1>3, ConcatProperties
<1>6. /\ \A i \in 1 .. n : (named \o others)[i] = named[i]
      /\ \A i \in 1 .. m : (named \o others)[n + i] = others[i]
  BY <1>5
<1>7. DOMAIN (named \o others) = 1 .. n + m
  BY <1>5
<1>8. QED
  BY <1>1, <1>4, <1>5, <1>6, <1>7 DEF metas, message, Carries

\* What the client says of a key that is named.
LEMMA Encoded ==
  ASSUME NEW meta, NEW key
  PROVE  /\ Encode(meta, key).key = IF meta.optional /\ key = "None" THEN "MplCore" ELSE key
         /\ key # "None" =>
              /\ Encode(meta, key).writable = meta.writable
              /\ Encode(meta, key).signer <=>
                   meta.signs = "Always" \/ (meta.signs = "Chosen" /\ key \notin Vaults)
         /\ Remaining(key).key = key /\ Remaining(key).writable
<1>1. CASE meta.optional /\ key = "None"
  BY <1>1 DEF Encode, Placeholder, Remaining
<1>2. CASE ~ (meta.optional /\ key = "None")
  <2>1. Encode(meta, key).key = key
    BY <1>2 DEF Encode
  <2>2. Encode(meta, key).writable = meta.writable
    BY <1>2 DEF Encode
  <2>3. Encode(meta, key).signer <=>
          meta.signs = "Always" \/ (meta.signs = "Chosen" /\ key \notin Vaults)
    BY <1>2 DEF Encode
  <2>4. QED
    BY <1>2, <2>1, <2>2, <2>3 DEF Remaining
<1>3. QED
  BY <1>1, <1>2

LEMMA ReadBack ==
  ASSUME NEW j \in Nat, NEW op, NEW accounts, NEW signing, NEW lending,
         Listed(j, op, accounts, signing, lending),
         NEW keys \in Rows(ClientInstructions[op].metas), NEW rest \in Rests(op)
  PROVE  Reading(Exchange(Call(op, keys, rest)), op, accounts.places, signing, lending)
<1> DEFINE metas == ClientInstructions[op].metas
           places == accounts.places
           optional == accounts.optional
           n == Len(metas)
           x == Exchange(Call(op, keys, rest))
           named == x.read.named
           sent == x.message.accounts
<1>1. /\ n \in 1 .. 8 /\ DOMAIN metas = 1 .. n /\ DOMAIN places = 1 .. n /\ Len(places) = n
      /\ \A i \in 1 .. n : FitsAt(metas[i], places[i], optional, signing, lending)
      /\ \A i, k \in 1 .. n : places[i] = places[k] => i = k
  BY DEF Listed, Fits
<1>2. Instructions[ClientInstructions[op].number + 1] = << op, accounts >>
  BY DEF Listed
<1>3. PICK m \in Nat : rest \in [1 .. m -> ProgramKeys]
  BY RestsAreRows
<1>4. DOMAIN keys = 1 .. n /\ \A i \in 1 .. n : keys[i] \in MayName(metas[i])
  BY <1>1, RowsAreNamed
<1>5. x.call = Call(op, keys, rest) /\ x.message = Message(x.call) /\ x.read = Received(x.message)
  BY DEF Exchange
<1>6. x.call.op = op /\ x.call.keys = keys /\ x.call.rest = rest
  BY <1>5 DEF Call
<1> HIDE DEF n, metas, places, optional, x
<1>7. /\ x.message.number = ClientInstructions[op].number
      /\ Len(sent) = n + m /\ DOMAIN sent = 1 .. n + m
      /\ \A i \in 1 .. n : sent[i] = Encode(metas[i], keys[i])
      /\ \A i \in 1 .. m : sent[n + i] = Remaining(rest[i])
  <2>1. DOMAIN ClientInstructions[op].metas = 1 .. n
    BY <1>1 DEF metas
  <2>2. n \in Nat
    BY <1>1
  <2>3. Carries(Message(Call(op, keys, rest)), op, keys, rest, n, m)
    BY <1>3, <2>1, <2>2, MessagesAreRows
  <2>4. x.message = Message(Call(op, keys, rest))
    BY <1>5
  <2>5. QED
    BY <2>3, <2>4 DEF metas, Carries
<1> DEFINE Reads(i) ==
             IF places[i] \in optional /\ sent[i].key = "MplCore" THEN "None" ELSE sent[i].key
<1>8. /\ x.read.op = op
      /\ named = [f \in Range(places) |-> Reads(CHOOSE i \in DOMAIN places : places[i] = f)]
      /\ x.read.rest = [i \in 1 .. Len(sent) - n |-> sent[n + i].key]
  <2>1. Instructions[x.message.number + 1] = << op, accounts >>
    BY <1>2, <1>7
  <2>2. Len(accounts.places) = n
    BY <1>1 DEF places
  <2> HIDE DEF sent
  <2>3. x.message.accounts = sent
    BY DEF sent
  <2>4. x.read.op = op /\ x.read.rest = [i \in 1 .. Len(sent) - n |-> sent[n + i].key]
    BY <1>5, <2>1, <2>2, <2>3 DEF Received
  <2>5. named = [f \in Range(places) |-> Reads(CHOOSE i \in DOMAIN places : places[i] = f)]
    BY <1>5, <2>1, <2>3 DEF Received, places, optional
  <2>6. QED
    BY <2>4, <2>5
<1> HIDE DEF sent, Reads
<1>9. x.read.rest = rest
  <2>1. \A i \in 1 .. m : sent[n + i].key = rest[i]
    BY <1>7, Encoded
  <2>2. Len(sent) - n = m
    BY <1>1, <1>3, <1>7
  <2>3. rest = [i \in 1 .. m |-> rest[i]]
    BY <1>3
  <2>4. QED
    BY <1>8, <2>1, <2>2, <2>3
<1>10. /\ DOMAIN named = Range(places)
       /\ Range(places) = { metas[i].field : i \in 1 .. n }
  <2>1. Range(places) = { places[i] : i \in 1 .. n }
    BY <1>1 DEF Range
  <2>2. \A i \in 1 .. n : places[i] = metas[i].field
    BY <1>1 DEF FitsAt
  <2>3. QED
    BY <1>8, <2>1, <2>2
<1>11. ASSUME NEW i \in 1 .. n
       PROVE  places[i] \in Range(places) /\ named[places[i]] = keys[i]
  <2>1. places[i] \in Range(places)
    BY <1>1 DEF Range
  <2>2. (CHOOSE k \in DOMAIN places : places[k] = places[i]) = i
    BY <1>1
  <2>3. named[places[i]] = Reads(i)
    BY <1>8, <2>1, <2>2
  <2>4. sent[i].key = IF metas[i].optional /\ keys[i] = "None" THEN "MplCore" ELSE keys[i]
    BY <1>7, Encoded
  <2>5. metas[i].optional <=> places[i] \in optional
    BY <1>1 DEF FitsAt
  <2>6. keys[i] # "MplCore"
    BY <1>4, NamesAreKeys
  <2>7. QED
    BY <2>1, <2>3, <2>4, <2>5, <2>6 DEF Reads
<1> HIDE DEF named
<1>12. ASSUME NEW i \in 1 .. n, keys[i] # "None"
       PROVE  /\ places[i] \in signing => Signs(x.message, keys[i])
              /\ places[i] \in lending => Lends(x.message, keys[i])
              /\ places[i] = "payer" /\ keys[i] \notin Vaults => Signs(x.message, keys[i])
  <2>1. sent[i] \in Range(sent)
    BY <1>1, <1>3, <1>7 DEF Range
  <2>2. sent[i] = Encode(metas[i], keys[i])
    BY <1>7
  <2>3. sent[i].key = keys[i]
    BY <1>12, <2>2, Encoded
  <2>4. metas[i].signs = "Always" \/ (metas[i].signs = "Chosen" /\ keys[i] \notin Vaults) =>
          Signs(x.message, keys[i])
    <3>1. metas[i].signs = "Always" \/ (metas[i].signs = "Chosen" /\ keys[i] \notin Vaults) => sent[i].signer
      <4>1. Encode(metas[i], keys[i]).signer <=>
              metas[i].signs = "Always" \/ (metas[i].signs = "Chosen" /\ keys[i] \notin Vaults)
        BY <1>12, Encoded, Zenon
      <4>2. QED
        BY <2>2, <4>1, Zenon
    <3>2. sent[i].signer => Signs(x.message, keys[i])
      BY <2>1, <2>3 DEF Signs, sent
    <3>3. QED
      BY <3>1, <3>2, Zenon
  <2>5. metas[i].writable => Lends(x.message, keys[i])
    <3>1. metas[i].writable => sent[i].writable
      <4>1. Encode(metas[i], keys[i]).writable = metas[i].writable
        BY <1>12, Encoded, Zenon
      <4>2. QED
        BY <2>2, <4>1, Zenon
    <3>2. sent[i].writable => Lends(x.message, keys[i])
      BY <2>1, <2>3 DEF Lends, sent
    <3>3. QED
      BY <3>1, <3>2, Zenon
  <2>6. /\ places[i] \in signing => metas[i].signs = "Always"
        /\ places[i] \in lending => metas[i].writable
        /\ places[i] = "payer" => metas[i].signs = "Always" \/ metas[i].signs = "Chosen"
    BY <1>1 DEF FitsAt
  <2>7. QED
    BY <2>4, <2>5, <2>6, Zenon
<1>13. \A i \in DOMAIN rest : Lends(x.message, rest[i])
  <2> SUFFICES ASSUME NEW i \in 1 .. m
               PROVE  Lends(x.message, rest[i])
    BY <1>3
  <2>1. n + i \in 1 .. n + m
    BY <1>1
  <2>2. sent[n + i] \in Range(sent)
    BY <1>7, <2>1 DEF Range
  <2>3. sent[n + i].key = rest[i] /\ sent[n + i].writable
    <3>1. sent[n + i] = Remaining(rest[i])
      BY <1>7
    <3>2. Remaining(rest[i]).key = rest[i] /\ Remaining(rest[i]).writable
      BY Encoded, Zenon
    <3>3. QED
      BY <3>1, <3>2
  <2>4. QED
    BY <2>2, <2>3 DEF Lends, sent
<1>14. ASSUME NEW f \in Range(places)
       PROVE  /\ named[f] # "None" => /\ f \in signing => Signs(x.message, named[f])
                                      /\ f \in lending => Lends(x.message, named[f])
              /\ f = "payer" => /\ named[f] \in Payers \cup Vaults
                                /\ f \in signing => named[f] \in Payers
                                /\ named[f] \notin Vaults => Signs(x.message, named[f])
  <2>1. PICK i \in 1 .. n : places[i] = f
    BY <1>1 DEF Range
  <2>2. named[f] = keys[i]
    BY <1>11, <2>1
  <2>3. ASSUME f = "payer"
        PROVE  /\ keys[i] \in Payers \cup Vaults
               /\ f \in signing => keys[i] \in Payers
    <3>1. /\ metas[i].field = "payer" /\ ~ metas[i].optional
          /\ f \in signing => metas[i].signs # "Chosen"
      BY <1>1, <2>1, <2>3 DEF FitsAt
    <3>2. QED
      BY <1>4, <3>1, NamesAreKeys
  <2>4. "None" \notin Payers \cup Vaults
    BY KeysAssumption, MessagesAssumption DEF Keys
  <2>5. QED
    BY <1>12, <2>1, <2>2, <2>3, <2>4
<1>15. QED
  <2>1. /\ x.call.op = op /\ x.read.op = op
        /\ x.call.rest \in Rests(op) /\ x.read.rest = x.call.rest
        /\ DOMAIN x.call.keys = DOMAIN metas /\ DOMAIN named = Range(places)
        /\ Range(places) = { metas[i].field : i \in DOMAIN metas }
    BY <1>1, <1>4, <1>6, <1>8, <1>9, <1>10
  <2>2. \A i \in DOMAIN metas : named[metas[i].field] = x.call.keys[i]
    <3>1. \A i \in 1 .. n : places[i] = metas[i].field
      BY <1>1 DEF FitsAt
    <3>2. QED
      BY <1>1, <1>6, <1>11, <3>1
  <2>3. \A i \in DOMAIN x.call.rest : Lends(x.message, x.call.rest[i])
    BY <1>6, <1>13
  <2>4. QED
    BY <2>1, <2>2, <2>3, <1>14 DEF Reading, metas, places, named, x

\* The program's list has every instruction that the client has.
LEMMA AllAreListed ==
  ASSUME NEW op \in DOMAIN ClientInstructions
  PROVE  \E j \in 1 .. 42 : Instructions[j][1] = op
BY DEF ClientInstructions, Instructions

LEMMA OpsAreCalls ==
  /\ \A accounts : OpsOf(accounts) \subseteq DOMAIN ClientInstructions
  /\ \A accounts : \A op \in OpsOf(accounts) : \E j \in 1 .. 42 : Instructions[j] = << op, accounts >>
<1>1. DOMAIN Instructions = 1 .. 42
  BY DEF Instructions
<1>2. SUFFICES ASSUME NEW accounts, NEW op \in OpsOf(accounts)
               PROVE  /\ op \in DOMAIN ClientInstructions
                      /\ \E j \in 1 .. 42 : Instructions[j] = << op, accounts >>
  OBVIOUS
<1>3. PICK j \in 1 .. 42 : Instructions[j][2] = accounts /\ Instructions[j][1] = op
  BY <1>1 DEF OpsOf
<1>4. PICK op2, accounts2, signing, lending : Listed(j, op2, accounts2, signing, lending)
  BY Table
<1>5. QED
  BY <1>3, <1>4 DEF Listed

\* A call that the program knows, with what it reads and what came with it.
Known(x, op, accounts, signing, lending) ==
  /\ op \in DOMAIN ClientInstructions
  /\ \E j \in 1 .. 42 : Instructions[j] = << op, accounts >>
  /\ Enough(op, Range(accounts.places), signing, lending)
  /\ Reading(x, op, accounts.places, signing, lending)

LEMMA Decoding ==
  ASSUME NEW op \in DOMAIN ClientInstructions, NEW x \in Exchanges[op]
  PROVE  \E accounts, signing, lending : Known(x, op, accounts, signing, lending)
<1>1. PICK j \in 1 .. 42 : Instructions[j][1] = op
  BY AllAreListed
<1>2. PICK op2, accounts, signing, lending : Listed(j, op2, accounts, signing, lending)
  BY <1>1, Table
<1>3. Listed(j, op, accounts, signing, lending)
  <2>1. op2 = op
    BY <1>1, <1>2 DEF Listed
  <2>2. QED
    BY <1>2, <2>1
<1>4. PICK keys \in Rows(ClientInstructions[op].metas), rest \in Rests(op) :
        x = Exchange(Call(op, keys, rest))
  BY DEF Exchanges
<1>5. Reading(x, op, accounts.places, signing, lending)
  BY <1>3, <1>4, ReadBack
<1>6. QED
  BY <1>3, <1>5 DEF Known, Listed

LEMMA SettleEnds ==
  ASSUME NEW x, NEW b, NEW saved, Settle(x, b, saved)
  PROVE  /\ last'.exchange = x /\ Affordable(b)
         /\ \/ bank' = b /\ Privileged(x.read, x.message, b, saved) /\ last'.end = "Done"
            \/ bank' = bank /\ ~ Privileged(x.read, x.message, b, saved) /\ last'.end = "Unprivileged"
BY DEF Settle, Ends

LEMMA CallsOf ==
  ASSUME NEW ops, NEW x \in ExchangesOf(ops)
  PROVE  \E op \in ops : x \in Exchanges[op]
BY DEF ExchangesOf

\* Every step is the end of a call of the client.
LEMMA StepsAreCalls ==
  ASSUME Next
  PROVE  \E op \in DOMAIN ClientInstructions : last'.exchange \in Exchanges[op]
<1> DEFINE Called == \E op \in DOMAIN ClientInstructions : last'.exchange \in Exchanges[op]
<1>1. ASSUME NEW op \in DOMAIN ClientInstructions, NEW x \in Exchanges[op], last'.exchange = x
      PROVE  Called
  BY <1>1
<1>2. { "TransferV1", "BurnV1", "BurnCollectionV1", "UpdateCollectionInfoV1", "ExecuteV1",
        "CreateGroupV1", "CloseGroupV1", "Collect", "WriteExternalPluginAdapterDataV1",
        "UpdateV2", "WriteCollectionExternalPluginAdapterDataV1", "UpdateCollectionV1",
        "UpdateGroupV1" } \cup LinkOps \subseteq DOMAIN ClientInstructions
  BY DEF ClientInstructions, LinkOps
<1> HIDE DEF Called
<1>3. CASE CreateAsset
  <2>1. last'.exchange \in ExchangesOf(OpsOf(OfCreate))
    BY <1>3, SettleEnds DEF CreateAsset
  <2>2. QED
    BY <2>1, OpsAreCalls, CallsOf DEF Called
<1>4. CASE CreateCollection
  <2>1. last'.exchange \in ExchangesOf(OpsOf(OfCreateCollection))
    BY <1>4, SettleEnds DEF CreateCollection
  <2>2. QED
    BY <2>1, OpsAreCalls, CallsOf DEF Called
<1>5. CASE ChangeAsset
  <2>1. (OpsOf(OfAsset) \ { "CompressV1", "DecompressV1" })
           \cup { "WriteExternalPluginAdapterDataV1", "UpdateV2" } \subseteq DOMAIN ClientInstructions
    BY <1>2, OpsAreCalls
  <2>2. last'.exchange \in ExchangesOf((OpsOf(OfAsset) \ { "CompressV1", "DecompressV1" })
                                       \cup { "WriteExternalPluginAdapterDataV1", "UpdateV2" })
    BY <1>5, SettleEnds DEF ChangeAsset
  <2>3. QED
    BY <2>1, <2>2, CallsOf DEF Called
<1>6. CASE ChangeCollection
  <2>1. OpsOf(OfCollection) \cup { "WriteCollectionExternalPluginAdapterDataV1", "UpdateCollectionV1" }
          \subseteq DOMAIN ClientInstructions
    BY <1>2, OpsAreCalls
  <2>2. last'.exchange \in ExchangesOf(OpsOf(OfCollection) \cup
                         { "WriteCollectionExternalPluginAdapterDataV1", "UpdateCollectionV1" })
    BY <1>6, SettleEnds DEF ChangeCollection
  <2>3. QED
    BY <2>1, <2>2, CallsOf DEF Called
<1>7. CASE ChangeGroup
  <2>1. LinkOps \cup { "UpdateGroupV1" } \subseteq DOMAIN ClientInstructions
    BY <1>2
  <2>2. last'.exchange \in ExchangesOf(LinkOps \cup { "UpdateGroupV1" })
    BY <1>7, SettleEnds DEF ChangeGroup
  <2>3. QED
    BY <2>1, <2>2, CallsOf DEF Called
<1>8. CASE CreateGroup
  BY <1>1, <1>2, <1>8, SettleEnds DEF CreateGroup
<1>9. CASE Transfer \/ BurnAsset \/ BurnCollection \/ ReportOfBubblegum
  BY <1>1, <1>2, <1>9, SettleEnds DEF Transfer, BurnAsset, BurnCollection, ReportOfBubblegum
<1>10. CASE Execute \/ CloseGroup \/ CollectFees
  BY <1>1, <1>2, <1>10, SettleEnds DEF Execute, CloseGroup, CollectFees
<1>11. CASE Reject
  <2>1. last'.exchange \in ExchangesOf(DOMAIN ClientInstructions)
    BY <1>11 DEF Reject, Ends
  <2>2. QED
    BY <2>1, CallsOf DEF Called
<1>12. QED
  BY <1>3, <1>4, <1>5, <1>6, <1>7, <1>8, <1>9, <1>10, <1>11 DEF Next, Called

\* An exchange in which the program reads what the caller meant.
Agreed(x) ==
  LET metas == ClientInstructions[x.call.op].metas
  IN /\ x.read.op = x.call.op /\ x.read.rest = x.call.rest
     /\ DOMAIN x.read.named = { metas[i].field : i \in DOMAIN metas }
     /\ \A i \in DOMAIN metas : x.read.named[metas[i].field] = x.call.keys[i]

LEMMA KnownAreAgreed ==
  ASSUME NEW x, NEW op, NEW accounts, NEW signing, NEW lending,
         Known(x, op, accounts, signing, lending)
  PROVE  Agreed(x)
<1>1. x.call.op = op /\ x.read.op = op /\ x.read.rest = x.call.rest
  BY DEF Known, Reading
<1>2. DOMAIN x.read.named =
        { ClientInstructions[op].metas[i].field : i \in DOMAIN ClientInstructions[op].metas }
  BY DEF Known, Reading
<1>3. \A i \in DOMAIN ClientInstructions[op].metas :
        x.read.named[ClientInstructions[op].metas[i].field] = x.call.keys[i]
  BY DEF Known, Reading
<1>4. QED
  BY <1>1, <1>2, <1>3 DEF Agreed

\* Of every call the program reads what the caller meant: the 42 numbers, and the
\* accounts of each by their places, are the same in the client's rows and in the
\* program's context(), with whatever optional accounts left out and whatever
\* accounts behind them.
THEOREM ClientAndProgramAgree ==
  Spec => CallsAreReadBack
<1> DEFINE Agree ==
             LET call == last'.exchange.call
                 metas == ClientInstructions[call.op].metas
                 r == last'.exchange.read
             IN /\ r.op = call.op /\ r.rest = call.rest
                /\ DOMAIN r.named = { metas[i].field : i \in DOMAIN metas }
                /\ \A i \in DOMAIN metas : r.named[metas[i].field] = call.keys[i]
<1>1. ASSUME Next
      PROVE  Agreed(last'.exchange)
  <2>1. PICK op \in DOMAIN ClientInstructions : last'.exchange \in Exchanges[op]
    BY <1>1, StepsAreCalls
  <2>2. PICK accounts, signing, lending : Known(last'.exchange, op, accounts, signing, lending)
    BY <2>1, Decoding
  <2>3. QED
    BY <2>2, KnownAreAgreed
<1>2. [Next]_vars => [Agree]_vars
  BY <1>1 DEF Agreed
<1>3. QED
  BY <1>2, PTL DEF Spec, CallsAreReadBack

-----------------------------------------------------------------------------
(* Lamports *)

\* A bank, on the way to the end of a call perhaps: a payer may owe.
Banks == [kind : [Keys -> Kinds], bytes : [Keys -> Nat], lamports : [Keys -> Int], owed : [Keys -> Nat]]

\* From one key to another.
Moves(b, c, from, to, n) ==
  /\ c.lamports[from] = b.lamports[from] - n /\ c.lamports[to] = b.lamports[to] + n
  /\ \A k \in Keys \ { from, to } : c.lamports[k] = b.lamports[k]

LEMMA MoveMoves ==
  ASSUME NEW b \in Banks, NEW from \in Keys, NEW to \in Keys, from # to, NEW n \in Int
  PROVE  /\ Move(b, from, to, n) \in Banks /\ Moves(b, Move(b, from, to, n), from, to, n)
         /\ Move(b, from, to, n).kind = b.kind /\ Move(b, from, to, n).bytes = b.bytes
         /\ Move(b, from, to, n).owed = b.owed
<1> DEFINE c == Move(b, from, to, n)
<1>1. c = [b EXCEPT !.lamports = [[b.lamports EXCEPT ![from] = @ - n] EXCEPT ![to] = @ + n]]
  BY DEF Move, Banks
<1>2. c.kind = b.kind /\ c.bytes = b.bytes /\ c.owed = b.owed
  BY <1>1 DEF Banks
<1>3. c.lamports = [[b.lamports EXCEPT ![from] = @ - n] EXCEPT ![to] = @ + n]
  BY <1>1 DEF Banks
<1>4. c.lamports \in [Keys -> Int] /\ Moves(b, c, from, to, n)
  <2> HIDE DEF c
  <2>1. b.lamports \in [Keys -> Int]
    BY DEF Banks
  <2>2. QED
    BY <1>3, <2>1 DEF Moves
<1>5. c \in Banks
  BY <1>1, <1>4 DEF Banks
<1>6. QED
  BY <1>2, <1>4, <1>5

LEMMA LamportsAreCounted ==
  ASSUME NEW b, b.lamports \in [Keys -> Nat], NEW k \in Keys
  PROVE  IsFiniteSet(LamportsOf(b, k)) /\ Cardinality(LamportsOf(b, k)) = b.lamports[k]
<1>1. IsFiniteSet({ k }) /\ Cardinality({ k }) = 1
  BY FS_Singleton
<1>2. IsFiniteSet(1 .. b.lamports[k]) /\ Cardinality(1 .. b.lamports[k]) = b.lamports[k]
  BY FS_Interval
<1>3. /\ IsFiniteSet({ k } \X (1 .. b.lamports[k]))
      /\ Cardinality({ k } \X (1 .. b.lamports[k])) = Cardinality({ k }) * Cardinality(1 .. b.lamports[k])
  BY <1>1, <1>2, FS_Product
<1>4. b.lamports[k] \in Nat /\ 1 * b.lamports[k] = b.lamports[k]
  OBVIOUS
<1>5. QED
  BY <1>1, <1>2, <1>3, <1>4 DEF LamportsOf

\* What moves from a key to another is neither made nor lost.
LEMMA MovesConserve ==
  ASSUME NEW b, NEW c, b.lamports \in [Keys -> Nat], c.lamports \in [Keys -> Nat],
         NEW from \in Keys, NEW to \in Keys, from # to, NEW n \in Int, Moves(b, c, from, to, n)
  PROVE  AllLamports(c) = AllLamports(b)
<1> DEFINE Others == UNION { LamportsOf(b, k) : k \in Keys \ { from, to } }
           All(bb) == UNION { LamportsOf(bb, k) : k \in Keys }
<1>1. IsFiniteSet(Others)
  <2>1. IsFiniteSet(Keys \ { from, to })
    BY KeysAssumption, FS_Difference
  <2> DEFINE each == [k \in Keys \ { from, to } |-> LamportsOf(b, k)]
             T == { LamportsOf(b, k) : k \in Keys \ { from, to } }
  <2>2. each \in Surjection(Keys \ { from, to }, T)
    BY DEF Surjection
  <2>3. \A S \in T : IsFiniteSet(S)
    BY LamportsAreCounted
  <2> HIDE DEF each, T
  <2>4. IsFiniteSet(T)
    BY <2>1, <2>2, FS_Surjection
  <2>5. IsFiniteSet(UNION T)
    BY <2>3, <2>4, FS_UNION
  <2>6. QED
    BY <2>5 DEF T
<1>2. ASSUME NEW bb, bb.lamports \in [Keys -> Nat],
             \A k \in Keys \ { from, to } : bb.lamports[k] = b.lamports[k]
      PROVE  AllLamports(bb) = Cardinality(Others) + bb.lamports[from] + bb.lamports[to]
  <2>1. All(bb) = (Others \cup LamportsOf(bb, from)) \cup LamportsOf(bb, to)
    BY <1>2 DEF LamportsOf
  <2>2. /\ Others \cap LamportsOf(bb, from) = {}
        /\ (Others \cup LamportsOf(bb, from)) \cap LamportsOf(bb, to) = {}
    BY DEF LamportsOf
  <2>3. /\ IsFiniteSet(LamportsOf(bb, from)) /\ Cardinality(LamportsOf(bb, from)) = bb.lamports[from]
        /\ IsFiniteSet(LamportsOf(bb, to)) /\ Cardinality(LamportsOf(bb, to)) = bb.lamports[to]
    BY <1>2, LamportsAreCounted
  <2> HIDE DEF Others, All
  <2>4. /\ IsFiniteSet(Others \cup LamportsOf(bb, from))
        /\ Cardinality(Others \cup LamportsOf(bb, from)) = Cardinality(Others) + bb.lamports[from]
    <3> DEFINE From == LamportsOf(bb, from)
    <3>1. /\ IsFiniteSet(Others \cup From)
          /\ Cardinality(Others \cup From) = Cardinality(Others) + Cardinality(From) - Cardinality(Others \cap From)
      <4> HIDE DEF From
      <4>1. IsFiniteSet(From)
        BY <2>3 DEF From
      <4>2. QED
        BY <1>1, <4>1, FS_Union
    <3>2. Cardinality(Others \cap From) = 0
      BY <2>2, FS_EmptySet
    <3>3. Cardinality(Others) \in Nat /\ bb.lamports[from] \in Nat
      BY <1>1, <1>2, FS_CardinalityType
    <3>4. QED
      BY <2>3, <3>1, <3>2, <3>3
  <2>5. Cardinality(All(bb)) = Cardinality(Others) + bb.lamports[from] + bb.lamports[to]
    <3> DEFINE Rest == Others \cup LamportsOf(bb, from)
               To == LamportsOf(bb, to)
    <3>1. Cardinality(Rest \cup To) = Cardinality(Rest) + Cardinality(To) - Cardinality(Rest \cap To)
      <4> HIDE DEF Rest, To
      <4>1. IsFiniteSet(Rest) /\ IsFiniteSet(To)
        BY <2>3, <2>4 DEF Rest, To
      <4>2. QED
        BY <4>1, FS_Union
    <3>2. Cardinality(Rest \cap To) = 0
      BY <2>2, FS_EmptySet
    <3>3. Cardinality(Others) \in Nat /\ bb.lamports[from] \in Nat /\ bb.lamports[to] \in Nat
      BY <1>1, <1>2, FS_CardinalityType
    <3>4. QED
      BY <2>1, <2>3, <2>4, <3>1, <3>2, <3>3
  <2>6. AllLamports(bb) = Cardinality(All(bb))
    BY <1>2 DEF AllLamports, All
  <2>7. QED
    BY <2>5, <2>6
<1>3. AllLamports(b) = Cardinality(Others) + b.lamports[from] + b.lamports[to]
  BY <1>2
<1>4. AllLamports(c) = Cardinality(Others) + c.lamports[from] + c.lamports[to]
  BY <1>2 DEF Moves
<1>5. Cardinality(Others) \in Nat
  BY <1>1, FS_CardinalityType
<1> HIDE DEF Others
<1>6. QED
  BY <1>3, <1>4, <1>5 DEF Moves

\* An account holds what it should.
SoundAt(b, k) ==
  /\ b.kind[k] \in { "None", "Wallet" } => b.bytes[k] = 0
  /\ b.kind[k] \in { "Uninitialized", "Released" } => b.bytes[k] = 1
  /\ b.kind[k] \in { "AssetV1", "CollectionV1", "GroupV1" } => b.bytes[k] \in Sizes
  /\ k \in ProgramKeys =>
       /\ b.kind[k] # "Wallet"
       /\ b.lamports[k] = IF b.kind[k] = "None" THEN 0 ELSE Rent(b.bytes[k]) + b.owed[k]

\* The invariant: of what a bank says, all that RentAndFeesAreThere asks for but
\* that everything is paid, and that there is nothing where no account was opened.
Sound(b) == b \in Banks /\ \A k \in Keys : SoundAt(b, k)

\* What an operation of Lamports does: the account comes out sound, nobody but the
\* payer is charged, and no lamport is made or lost.
Leads(b, c, payer, k) ==
  /\ Sound(c)
  /\ \A j \in Keys \ { payer, k } : c.lamports[j] = b.lamports[j]
  /\ \A j \in Keys \ { k } : c.kind[j] = b.kind[j]
  /\ Affordable(b) /\ Affordable(c) => AllLamports(c) = AllLamports(b)

LEMMA AffordableType ==
  ASSUME NEW b \in Banks, Affordable(b)
  PROVE  b.lamports \in [Keys -> Nat]
<1>1. b.lamports \in [Keys -> Int]
  BY DEF Banks
<1>2. \A k \in Keys : b.lamports[k] \in Nat
  BY <1>1 DEF Affordable
<1>3. QED
  BY <1>1, <1>2

LEMMA ProgramKeysAreKeys == ProgramKeys \subseteq Keys
BY DEF Keys

LEMMA ChangeLeads ==
  ASSUME NEW b, Sound(b), NEW k \in ProgramKeys, NEW payer \in Keys \ ProgramKeys, NEW n \in Int,
         NEW c \in Banks, Moves(b, c, payer, k, n) \/ Moves(b, c, k, payer, n),
         \A j \in Keys \ { k } : /\ c.kind[j] = b.kind[j] /\ c.bytes[j] = b.bytes[j]
                                 /\ c.owed[j] = b.owed[j],
         SoundAt(c, k)
  PROVE  Leads(b, c, payer, k)
<1>1. k \in Keys /\ payer # k
  BY ProgramKeysAreKeys
<1>2. \A j \in Keys \ { payer, k } : c.lamports[j] = b.lamports[j]
  BY DEF Moves
<1>3. ASSUME NEW j \in Keys
      PROVE  SoundAt(c, j)
  <2>1. CASE j = k
    BY <2>1
  <2>2. CASE j # k /\ j # payer
    BY <1>2, <2>2 DEF Sound, SoundAt
  <2>3. CASE j = payer
    BY <1>1, <2>3 DEF Sound, SoundAt
  <2>4. QED
    BY <2>1, <2>2, <2>3
<1>4. ASSUME Affordable(b), Affordable(c)
      PROVE  AllLamports(c) = AllLamports(b)
  <2>1. b.lamports \in [Keys -> Nat] /\ c.lamports \in [Keys -> Nat]
    BY <1>4, AffordableType DEF Sound
  <2>2. QED
    BY <1>1, <2>1, MovesConserve
<1>5. QED
  BY <1>2, <1>3, <1>4 DEF Leads, Sound

\* The accounts of the program that are open.
Kept == { "AssetV1", "CollectionV1", "GroupV1" }

LEMMA KindsAndSizes ==
  /\ Kept \subseteq Kinds /\ "Uninitialized" \in Kinds /\ "Released" \in Kinds
  /\ Sizes \subseteq Nat /\ \A n \in Nat : Rent(n) \in Nat
BY LamportsAssumption, MessagesAssumption DEF Kept, Kinds, Sizes, Rent

LEMMA OpenLeads ==
  ASSUME NEW b, Sound(b), NEW k \in ProgramKeys, b.kind[k] = "None",
         NEW kind \in Kept, NEW n \in Sizes, NEW fee \in Nat, NEW payer \in Keys \ ProgramKeys
  PROVE  Leads(b, Open(b, k, kind, n, fee, payer), payer, k)
<1> DEFINE m == Move(b, payer, k, Rent(n) + fee)
           c == Open(b, k, kind, n, fee, payer)
<1>1. k \in Keys /\ payer \in Keys /\ payer # k /\ b \in Banks /\ Rent(n) + fee \in Nat /\ n \in Nat
  BY ProgramKeysAreKeys, KindsAndSizes DEF Sound
<1>2. /\ m \in Banks /\ Moves(b, m, payer, k, Rent(n) + fee)
      /\ m.kind = b.kind /\ m.bytes = b.bytes /\ m.owed = b.owed
  BY <1>1, MoveMoves
<1>3. c = [m EXCEPT !.kind[k] = kind, !.bytes[k] = n, !.owed[k] = fee]
  BY DEF Open
<1> HIDE DEF m, c
<1>4. /\ c.kind = [b.kind EXCEPT ![k] = kind] /\ c.bytes = [b.bytes EXCEPT ![k] = n]
      /\ c.owed = [b.owed EXCEPT ![k] = fee] /\ c.lamports = m.lamports
      /\ c \in [kind : {c.kind}, bytes : {c.bytes}, lamports : {c.lamports}, owed : {c.owed}]
  BY <1>2, <1>3 DEF Banks
<1>5. c \in Banks
  BY <1>1, <1>2, <1>4, KindsAndSizes DEF Banks
<1>6. Moves(b, c, payer, k, Rent(n) + fee)
  BY <1>2, <1>4 DEF Moves
<1>7. SoundAt(c, k)
  <2>1. b.lamports[k] = 0
    BY <1>1 DEF Sound, SoundAt
  <2>2. c.lamports[k] = Rent(n) + fee
    BY <1>1, <1>6, <2>1 DEF Moves
  <2>3. c.kind[k] = kind /\ c.bytes[k] = n /\ c.owed[k] = fee
    BY <1>1, <1>4 DEF Banks
  <2>4. QED
    BY <2>2, <2>3 DEF SoundAt, Kept
<1>8. \A j \in Keys \ { k } : c.kind[j] = b.kind[j] /\ c.bytes[j] = b.bytes[j] /\ c.owed[j] = b.owed[j]
  BY <1>1, <1>4 DEF Banks
<1>9. Rent(n) + fee \in Int
  BY <1>1
<1>10. QED
  BY <1>5, <1>6, <1>7, <1>8, <1>9, ChangeLeads DEF c

LEMMA ResizeLeads ==
  ASSUME NEW b, Sound(b), NEW k \in ProgramKeys, b.kind[k] \in Kept,
         NEW n \in Sizes, NEW payer \in Keys \ ProgramKeys
  PROVE  Leads(b, Resize(b, k, n, payer), payer, k) /\ Resize(b, k, n, payer).kind = b.kind
<1> DEFINE diff == Rent(n) - Rent(b.bytes[k])
           up == Move(b, payer, k, Rent(n) - Rent(b.bytes[k]))
           down == Move(b, k, payer, Rent(b.bytes[k]) - Rent(n))
           m == IF n >= b.bytes[k] THEN up ELSE down
           c == Resize(b, k, n, payer)
<1>1. /\ k \in Keys /\ payer \in Keys /\ payer # k /\ b \in Banks /\ n \in Nat /\ b.bytes[k] \in Nat
      /\ b.lamports[k] \in Int /\ b.owed[k] \in Nat
  BY ProgramKeysAreKeys, KindsAndSizes DEF Sound, Banks
<1>2. diff \in Int /\ Rent(b.bytes[k]) - Rent(n) \in Int /\ Rent(b.bytes[k]) - Rent(n) = - diff
      /\ Rent(n) \in Nat /\ Rent(b.bytes[k]) \in Nat
  BY <1>1, KindsAndSizes
<1>3. /\ up \in Banks /\ Moves(b, up, payer, k, diff)
      /\ up.kind = b.kind /\ up.bytes = b.bytes /\ up.owed = b.owed
  BY <1>1, <1>2, MoveMoves
<1>4. /\ down \in Banks /\ Moves(b, down, k, payer, Rent(b.bytes[k]) - Rent(n))
      /\ down.kind = b.kind /\ down.bytes = b.bytes /\ down.owed = b.owed
  BY <1>1, <1>2, MoveMoves
<1>5. c = [m EXCEPT !.bytes[k] = n]
  BY DEF Resize
<1>6. b.lamports \in [Keys -> Int]
  BY <1>1 DEF Banks
<1> HIDE DEF up, down, diff
<1>7. /\ m \in Banks /\ Moves(b, m, payer, k, diff)
      /\ m.kind = b.kind /\ m.bytes = b.bytes /\ m.owed = b.owed
  <2>1. CASE n >= b.bytes[k]
    BY <1>3, <2>1
  <2>2. CASE ~ (n >= b.bytes[k])
    <3>1. Moves(b, down, payer, k, diff)
      BY <1>1, <1>2, <1>4, <1>6 DEF Moves
    <3>2. QED
      BY <1>4, <2>2, <3>1
  <2>3. QED
    BY <2>1, <2>2
<1> HIDE DEF m, c
<1>8. /\ c.kind = b.kind /\ c.bytes = [b.bytes EXCEPT ![k] = n]
      /\ c.owed = b.owed /\ c.lamports = m.lamports
  BY <1>5, <1>7 DEF Banks
<1>9. c \in Banks
  BY <1>1, <1>5, <1>7, <1>8 DEF Banks
<1>10. Moves(b, c, payer, k, diff)
  BY <1>7, <1>8 DEF Moves
<1>11. SoundAt(c, k)
  <2>1. b.lamports[k] = Rent(b.bytes[k]) + b.owed[k]
    BY <1>1 DEF Sound, SoundAt, Kept
  <2>2. c.lamports[k] = Rent(n) + b.owed[k]
    BY <1>1, <1>2, <1>10, <2>1 DEF Moves, diff
  <2>3. c.kind[k] = b.kind[k] /\ c.bytes[k] = n /\ c.owed[k] = b.owed[k]
    BY <1>1, <1>8 DEF Banks
  <2>4. QED
    BY <2>2, <2>3 DEF SoundAt, Kept
<1>12. \A j \in Keys \ { k } : c.kind[j] = b.kind[j] /\ c.bytes[j] = b.bytes[j] /\ c.owed[j] = b.owed[j]
  BY <1>1, <1>8 DEF Banks
<1>13. Leads(b, c, payer, k)
  BY <1>2, <1>9, <1>10, <1>11, <1>12, ChangeLeads
<1>14. QED
  BY <1>8, <1>13 DEF c

LEMMA CloseLeads ==
  ASSUME NEW b, Sound(b), NEW k \in ProgramKeys, b.kind[k] \in Kept, NEW to \in Keys \ ProgramKeys
  PROVE  Leads(b, Close(b, k, to), to, k)
<1> DEFINE n == Rent(b.bytes[k]) - Rent(1)
           m == Move(b, k, to, n)
           c == Close(b, k, to)
<1>1. /\ k \in Keys /\ to \in Keys /\ to # k /\ b \in Banks /\ b.bytes[k] \in Nat
      /\ b.lamports[k] \in Int /\ b.owed[k] \in Nat
  BY ProgramKeysAreKeys DEF Sound, Banks
<1>2. n \in Int /\ Rent(b.bytes[k]) \in Nat /\ Rent(1) \in Nat
  BY <1>1, KindsAndSizes
<1> HIDE DEF n
<1>3. m \in Banks /\ Moves(b, m, k, to, n) /\ m.kind = b.kind /\ m.bytes = b.bytes /\ m.owed = b.owed
  BY <1>1, <1>2, MoveMoves
<1>4. c = [m EXCEPT !.kind[k] = "Uninitialized", !.bytes[k] = 1]
  BY DEF Close, n
<1> HIDE DEF m, c
<1>5. /\ c.kind = [b.kind EXCEPT ![k] = "Uninitialized"] /\ c.bytes = [b.bytes EXCEPT ![k] = 1]
      /\ c.owed = b.owed /\ c.lamports = m.lamports
      /\ c \in [kind : {c.kind}, bytes : {c.bytes}, lamports : {c.lamports}, owed : {c.owed}]
  BY <1>3, <1>4 DEF Banks
<1>6. c \in Banks
  BY <1>1, <1>3, <1>5, KindsAndSizes DEF Banks
<1>7. Moves(b, c, k, to, n)
  BY <1>3, <1>5 DEF Moves
<1>8. SoundAt(c, k)
  <2>1. b.lamports[k] = Rent(b.bytes[k]) + b.owed[k]
    BY <1>1 DEF Sound, SoundAt, Kept
  <2>2. c.lamports[k] = Rent(1) + b.owed[k]
    BY <1>1, <1>2, <1>7, <2>1 DEF Moves, n
  <2>3. c.kind[k] = "Uninitialized" /\ c.bytes[k] = 1 /\ c.owed[k] = b.owed[k]
    BY <1>1, <1>5 DEF Banks
  <2>4. QED
    BY <2>2, <2>3 DEF SoundAt
<1>9. \A j \in Keys \ { k } : c.kind[j] = b.kind[j] /\ c.bytes[j] = b.bytes[j] /\ c.owed[j] = b.owed[j]
  BY <1>1, <1>5 DEF Banks
<1>10. QED
  BY <1>2, <1>6, <1>7, <1>8, <1>9, ChangeLeads DEF c

LEMMA FeeLeads ==
  ASSUME NEW b, Sound(b), NEW k \in ProgramKeys, b.kind[k] \in Kept,
         NEW payer \in Keys \ ProgramKeys
  PROVE  Leads(b, PayFee(b, k, payer), payer, k)
<1> DEFINE m == Move(b, payer, k, ExecuteFee)
           c == PayFee(b, k, payer)
<1>1. /\ k \in Keys /\ payer \in Keys /\ payer # k /\ b \in Banks /\ b.bytes[k] \in Nat
      /\ b.lamports[k] \in Int /\ b.owed[k] \in Nat /\ ExecuteFee \in Nat /\ Rent(b.bytes[k]) \in Nat
  BY ProgramKeysAreKeys, KindsAndSizes, LamportsAssumption DEF Sound, Banks
<1>2. /\ m \in Banks /\ Moves(b, m, payer, k, ExecuteFee)
      /\ m.kind = b.kind /\ m.bytes = b.bytes /\ m.owed = b.owed
  BY <1>1, MoveMoves
<1>3. c = [m EXCEPT !.owed[k] = @ + ExecuteFee]
  BY DEF PayFee
<1> HIDE DEF m, c
<1>4. /\ c.kind = b.kind /\ c.bytes = b.bytes /\ c.lamports = m.lamports
      /\ c.owed = [b.owed EXCEPT ![k] = b.owed[k] + ExecuteFee]
      /\ c \in [kind : {c.kind}, bytes : {c.bytes}, lamports : {c.lamports}, owed : {c.owed}]
  BY <1>2, <1>3 DEF Banks
<1>5. c \in Banks
  BY <1>1, <1>2, <1>4 DEF Banks
<1>6. Moves(b, c, payer, k, ExecuteFee)
  BY <1>2, <1>4 DEF Moves
<1>7. SoundAt(c, k)
  <2>1. b.lamports[k] = Rent(b.bytes[k]) + b.owed[k]
    BY <1>1 DEF Sound, SoundAt, Kept
  <2>2. c.lamports[k] = Rent(b.bytes[k]) + b.owed[k] + ExecuteFee
    BY <1>1, <1>6, <2>1 DEF Moves
  <2>3. c.kind[k] = b.kind[k] /\ c.bytes[k] = b.bytes[k] /\ c.owed[k] = b.owed[k] + ExecuteFee
    BY <1>1, <1>4 DEF Banks
  <2>4. b.bytes[k] \in Sizes
    BY <1>1 DEF Sound, SoundAt, Kept
  <2>5. QED
    BY <1>1, <2>2, <2>3, <2>4 DEF SoundAt, Kept
<1>8. \A j \in Keys \ { k } : c.kind[j] = b.kind[j] /\ c.bytes[j] = b.bytes[j] /\ c.owed[j] = b.owed[j]
  BY <1>1, <1>4 DEF Banks
<1>9. QED
  BY <1>1, <1>5, <1>6, <1>7, <1>8, ChangeLeads DEF c

\* What a collection from one account does: the recipients get what was owed.
Collects(b, c, k) ==
  /\ Sound(c)
  /\ \A j \in Keys \ { k, Recipients[1], Recipients[2] } : c.lamports[j] = b.lamports[j]
  /\ \A j \in Keys \ ProgramKeys : c.lamports[j] >= b.lamports[j]
  /\ \A j \in Keys \ { k } : c.kind[j] = b.kind[j]
  /\ Affordable(b) => Affordable(c) /\ AllLamports(c) = AllLamports(b)

LEMMA HalfIsAPart ==
  ASSUME NEW n \in Nat
  PROVE  Half(n) \in Nat /\ Half(n) <= n
BY DEF Half

LEMMA CollectCollects ==
  ASSUME NEW b, Sound(b), NEW k \in ProgramKeys, Collectable(b, k)
  PROVE  Collects(b, CollectFrom(b, k), k)
<1> DEFINE fee == b.lamports[k] - Rent(b.bytes[k])
           rest == fee - Half(fee)
           r1 == Recipients[1]
           r2 == Recipients[2]
           first == Move(b, k, r1, Half(fee))
           m == Move(first, k, r2, rest)
           c == CollectFrom(b, k)
<1>1. /\ k \in Keys /\ b \in Banks /\ b.bytes[k] \in Nat /\ Rent(b.bytes[k]) \in Nat
      /\ b.lamports \in [Keys -> Int] /\ b.lamports[k] \in Int /\ b.owed[k] \in Nat
  BY ProgramKeysAreKeys, KindsAndSizes DEF Sound, Banks
<1>2. r1 \in Keys \ ProgramKeys /\ r2 \in Keys \ ProgramKeys /\ r1 # r2 /\ k # r1 /\ k # r2
  BY KeysAssumption, LamportsAssumption DEF Keys
<1>3. b.kind[k] \in { "AssetV1", "Uninitialized" }
  BY DEF Collectable
<1>4. fee = b.owed[k] /\ fee \in Nat
  BY <1>1, <1>3 DEF Sound, SoundAt
<1> HIDE DEF fee
<1>5. Half(fee) \in Nat /\ rest \in Nat /\ Half(fee) + rest = fee
  <2>1. Half(fee) \in Nat /\ Half(fee) <= fee
    BY <1>4, HalfIsAPart
  <2>2. QED
    BY <1>4, <2>1
<1>6. /\ first \in Banks /\ Moves(b, first, k, r1, Half(fee))
      /\ first.kind = b.kind /\ first.bytes = b.bytes /\ first.owed = b.owed
  <2>1. r1 \in Keys /\ k # r1 /\ Half(fee) \in Int
    BY <1>2, <1>5
  <2> HIDE DEF r1
  <2>2. QED
    BY <1>1, <2>1, MoveMoves
<1> HIDE DEF first, rest
<1>7. /\ m \in Banks /\ Moves(first, m, k, r2, rest)
      /\ m.kind = b.kind /\ m.bytes = b.bytes /\ m.owed = b.owed
  <2>1. r2 \in Keys /\ k # r2 /\ rest \in Int
    BY <1>2, <1>5
  <2> HIDE DEF r2
  <2>2. QED
    BY <1>1, <1>6, <2>1, MoveMoves
<1>8. c = [m EXCEPT !.kind[k] = IF @ = "Uninitialized" THEN "Released" ELSE @, !.owed[k] = 0]
  BY DEF CollectFrom, m, first, rest, fee
<1> HIDE DEF m, c, r1, r2
<1>9. /\ c.kind = [b.kind EXCEPT ![k] = IF @ = "Uninitialized" THEN "Released" ELSE @]
      /\ c.bytes = b.bytes /\ c.lamports = m.lamports /\ c.owed = [b.owed EXCEPT ![k] = 0]
      /\ c \in [kind : {c.kind}, bytes : {c.bytes}, lamports : {c.lamports}, owed : {c.owed}]
  BY <1>7, <1>8 DEF Banks
<1>10. c \in Banks
  BY <1>1, <1>3, <1>7, <1>9, KindsAndSizes DEF Banks
<1>11. /\ first.lamports[k] = b.lamports[k] - Half(fee) /\ first.lamports[r1] = b.lamports[r1] + Half(fee)
       /\ first.lamports[r2] = b.lamports[r2]
       /\ \A j \in Keys \ { k, r1, r2 } : first.lamports[j] = b.lamports[j]
  BY <1>2, <1>6 DEF Moves
<1>12. /\ c.lamports[k] = b.lamports[k] - Half(fee) - rest /\ c.lamports[r1] = b.lamports[r1] + Half(fee)
       /\ c.lamports[r2] = b.lamports[r2] + rest
       /\ \A j \in Keys \ { k, r1, r2 } : c.lamports[j] = b.lamports[j]
  BY <1>1, <1>2, <1>7, <1>9, <1>11 DEF Moves
<1>13. /\ c.lamports[k] = Rent(b.bytes[k])
       /\ b.lamports[r1] \in Int /\ b.lamports[r2] \in Int
       /\ \A j \in Keys : b.lamports[j] \in Int /\ first.lamports[j] \in Int
  BY <1>1, <1>2, <1>4, <1>5, <1>6, <1>12 DEF fee, Banks
<1>14. /\ c.kind[k] = (IF b.kind[k] = "Uninitialized" THEN "Released" ELSE b.kind[k])
       /\ c.bytes[k] = b.bytes[k] /\ c.owed[k] = 0
       /\ \A j \in Keys \ { k } : c.kind[j] = b.kind[j] /\ c.bytes[j] = b.bytes[j]
  BY <1>1, <1>9 DEF Banks
<1>15. ASSUME NEW j \in Keys
       PROVE  SoundAt(c, j)
  <2>1. CASE j = k
    BY <1>1, <1>3, <1>13, <1>14, <2>1 DEF Sound, SoundAt
  <2>2. CASE j \in Keys \ ProgramKeys
    BY <1>14, <2>2 DEF Sound, SoundAt
  <2>3. CASE j \in ProgramKeys /\ j # k
    <3>1. c.kind[j] = b.kind[j] /\ c.bytes[j] = b.bytes[j] /\ c.owed[j] = b.owed[j]
      BY <1>1, <1>9, <2>3 DEF Banks
    <3>2. c.lamports[j] = b.lamports[j]
      BY <1>2, <1>12, <2>3
    <3>3. QED
      BY <3>1, <3>2 DEF Sound, SoundAt
  <2>4. QED
    BY <2>1, <2>2, <2>3
<1>16. \A j \in Keys \ ProgramKeys : c.lamports[j] >= b.lamports[j]
  BY <1>5, <1>12, <1>13
<1>17. ASSUME Affordable(b)
       PROVE  Affordable(c) /\ AllLamports(c) = AllLamports(b)
  <2>1. Affordable(first)
    BY <1>1, <1>4, <1>5, <1>11, <1>13, <1>17 DEF Affordable, fee
  <2>2. Affordable(c)
    BY <1>1, <1>5, <1>12, <1>13, <1>17 DEF Affordable
  <2>3. /\ b.lamports \in [Keys -> Nat] /\ first.lamports \in [Keys -> Nat]
        /\ c.lamports \in [Keys -> Nat]
    BY <1>1, <1>6, <1>10, <1>17, <2>1, <2>2, AffordableType
  <2>4. AllLamports(first) = AllLamports(b)
    <3>1. r1 \in Keys /\ k # r1 /\ Half(fee) \in Int
      BY <1>2, <1>5
    <3>2. QED
      BY <1>1, <1>6, <2>3, <3>1, MovesConserve
  <2>5. AllLamports(c) = AllLamports(first)
    <3>1. r2 \in Keys /\ k # r2 /\ rest \in Int
      BY <1>2, <1>5
    <3>2. Moves(first, c, k, r2, rest)
      BY <1>7, <1>9 DEF Moves
    <3>3. QED
      BY <1>1, <2>3, <3>1, <3>2, MovesConserve
  <2>6. QED
    BY <2>2, <2>4, <2>5
<1>18. QED
  BY <1>10, <1>12, <1>14, <1>15, <1>16, <1>17 DEF Collects, Sound, c, r1, r2

-----------------------------------------------------------------------------
(* One account after the other *)

\* Induction, with a set for the predicate.
LEMMA Counting ==
  ASSUME NEW P, 0 \in P, \A n \in Nat : n \in P => n + 1 \in P
  PROVE  \A n \in Nat : n \in P
<1> DEFINE T == Nat \ P
<1>1. SUFFICES ASSUME T # {}
               PROVE  FALSE
  OBVIOUS
<1>2. PICK x \in T : \A y \in T : ~ << y, x >> \in OpToRel(<, Nat)
  <2>1. T \subseteq Nat
    OBVIOUS
  <2> HIDE DEF T
  <2>2. QED
    BY <1>1, <2>1, WFMin, NatLessThanWellFounded
<1>3. x - 1 \in Nat /\ x - 1 \in T
  <2>1. x # 0 /\ x \in Nat
    OBVIOUS
  <2>2. x - 1 \in Nat /\ (x - 1) + 1 = x
    BY <2>1
  <2>3. x - 1 \notin P
    BY <2>2
  <2>4. QED
    BY <2>2, <2>3
<1>4. << x - 1, x >> \in OpToRel(<, Nat)
  BY <1>3 DEF OpToRel
<1>5. QED
  BY <1>2, <1>3, <1>4

\* What the banks after each account are: each is made of the one before.
LEMMA ResizeEachIs ==
  ASSUME NEW b, NEW ks, NEW n, NEW payer, Len(ks) \in Nat
  PROVE  LET after == ResizeEach(b, ks, n, payer)
         IN /\ DOMAIN after = 0 .. Len(ks) /\ after[0] = b
            /\ \A i \in 1 .. Len(ks) : after[i] = Resize(after[i - 1], ks[i], n, payer)
<1> DEFINE Upto(f, m) == /\ DOMAIN f = 0 .. m /\ f[0] = b
                         /\ \A i \in 1 .. m : f[i] = Resize(f[i - 1], ks[i], n, payer)
           P == { m \in Nat : \E f : Upto(f, m) }
<1>1. 0 \in P
  <2>1. Upto([i \in 0 .. 0 |-> b], 0)
    OBVIOUS
  <2> HIDE DEF Upto
  <2>2. QED
    BY <2>1
<1>2. ASSUME NEW m \in Nat, m \in P
      PROVE  m + 1 \in P
  <2>1. PICK f : Upto(f, m)
    BY <1>2
  <2> DEFINE g == [i \in 0 .. m + 1 |-> IF i = m + 1 THEN Resize(f[m], ks[m + 1], n, payer) ELSE f[i]]
  <2>2. DOMAIN g = 0 .. m + 1 /\ g[0] = b /\ \A i \in 0 .. m : g[i] = f[i]
    BY <2>1
  <2>3. g[m + 1] = Resize(f[m], ks[m + 1], n, payer)
    OBVIOUS
  <2> HIDE DEF g
  <2>4. ASSUME NEW i \in 1 .. m + 1
        PROVE  g[i] = Resize(g[i - 1], ks[i], n, payer)
    <3>1. CASE i = m + 1
      <4>1. i - 1 = m /\ m \in 0 .. m
        BY <3>1
      <4>2. g[i - 1] = f[m]
        BY <2>2, <4>1
      <4>3. QED
        BY <2>3, <3>1, <4>2
    <3>2. CASE i # m + 1
      <4>1. i \in 1 .. m /\ i \in 0 .. m /\ i - 1 \in 0 .. m
        BY <3>2
      <4>2. g[i] = f[i] /\ g[i - 1] = f[i - 1]
        BY <2>2, <4>1
      <4>3. QED
        BY <2>1, <4>1, <4>2
    <3>3. QED
      BY <3>1, <3>2
  <2>5. Upto(g, m + 1)
    BY <2>2, <2>4
  <2> HIDE DEF Upto
  <2>6. QED
    BY <2>5
<1>3. \A m \in Nat : m \in P
  <2> HIDE DEF P
  <2>1. QED
    BY <1>1, <1>2, Counting
<1>4. PICK f : Upto(f, Len(ks))
  BY <1>3
<1> DEFINE Step(g) == [i \in 0 .. Len(ks) |-> IF i = 0 THEN b ELSE Resize(g[i - 1], ks[i], n, payer)]
           e == [i \in 0 .. Len(ks) |-> f[i]]
<1>5. e = Step(e)
  <2>1. \A i \in 0 .. Len(ks) : i = 0 \/ (i \in 1 .. Len(ks) /\ i - 1 \in 0 .. Len(ks))
    OBVIOUS
  <2>2. \A i \in 0 .. Len(ks) : e[i] = IF i = 0 THEN b ELSE Resize(e[i - 1], ks[i], n, payer)
    BY <1>4, <2>1
  <2>3. QED
    BY <2>2
<1>6. ResizeEach(b, ks, n, payer) = Step(ResizeEach(b, ks, n, payer))
  <2> HIDE DEF e
  <2>1. QED
    BY <1>5 DEF ResizeEach
<1> DEFINE after == ResizeEach(b, ks, n, payer)
<1> HIDE DEF after
<1>7. after = [i \in 0 .. Len(ks) |-> IF i = 0 THEN b ELSE Resize(after[i - 1], ks[i], n, payer)]
  BY <1>6 DEF after
<1>8. /\ DOMAIN after = 0 .. Len(ks) /\ after[0] = b
      /\ \A i \in 1 .. Len(ks) : after[i] = Resize(after[i - 1], ks[i], n, payer)
  BY <1>7
<1>9. QED
  BY <1>8 DEF after

LEMMA CollectEachIs ==
  ASSUME NEW b, NEW ks, Len(ks) \in Nat
  PROVE  LET after == CollectEach(b, ks)
         IN /\ DOMAIN after = 0 .. Len(ks) /\ after[0] = b
            /\ \A i \in 1 .. Len(ks) : after[i] = CollectFrom(after[i - 1], ks[i])
<1> DEFINE Upto(f, m) == /\ DOMAIN f = 0 .. m /\ f[0] = b
                         /\ \A i \in 1 .. m : f[i] = CollectFrom(f[i - 1], ks[i])
           P == { m \in Nat : \E f : Upto(f, m) }
<1>1. 0 \in P
  <2>1. Upto([i \in 0 .. 0 |-> b], 0)
    OBVIOUS
  <2> HIDE DEF Upto
  <2>2. QED
    BY <2>1
<1>2. ASSUME NEW m \in Nat, m \in P
      PROVE  m + 1 \in P
  <2>1. PICK f : Upto(f, m)
    BY <1>2
  <2> DEFINE g == [i \in 0 .. m + 1 |-> IF i = m + 1 THEN CollectFrom(f[m], ks[m + 1]) ELSE f[i]]
  <2>2. DOMAIN g = 0 .. m + 1 /\ g[0] = b /\ \A i \in 0 .. m : g[i] = f[i]
    BY <2>1
  <2>3. g[m + 1] = CollectFrom(f[m], ks[m + 1])
    OBVIOUS
  <2> HIDE DEF g
  <2>4. ASSUME NEW i \in 1 .. m + 1
        PROVE  g[i] = CollectFrom(g[i - 1], ks[i])
    <3>1. CASE i = m + 1
      <4>1. i - 1 = m /\ m \in 0 .. m
        BY <3>1
      <4>2. g[i - 1] = f[m]
        BY <2>2, <4>1
      <4>3. QED
        BY <2>3, <3>1, <4>2
    <3>2. CASE i # m + 1
      <4>1. i \in 1 .. m /\ i \in 0 .. m /\ i - 1 \in 0 .. m
        BY <3>2
      <4>2. g[i] = f[i] /\ g[i - 1] = f[i - 1]
        BY <2>2, <4>1
      <4>3. QED
        BY <2>1, <4>1, <4>2
    <3>3. QED
      BY <3>1, <3>2
  <2>5. Upto(g, m + 1)
    BY <2>2, <2>4
  <2> HIDE DEF Upto
  <2>6. QED
    BY <2>5
<1>3. \A m \in Nat : m \in P
  <2> HIDE DEF P
  <2>1. QED
    BY <1>1, <1>2, Counting
<1>4. PICK f : Upto(f, Len(ks))
  BY <1>3
<1> DEFINE Step(g) == [i \in 0 .. Len(ks) |-> IF i = 0 THEN b ELSE CollectFrom(g[i - 1], ks[i])]
           e == [i \in 0 .. Len(ks) |-> f[i]]
<1>5. e = Step(e)
  <2>1. \A i \in 0 .. Len(ks) : i = 0 \/ (i \in 1 .. Len(ks) /\ i - 1 \in 0 .. Len(ks))
    OBVIOUS
  <2>2. \A i \in 0 .. Len(ks) : e[i] = IF i = 0 THEN b ELSE CollectFrom(e[i - 1], ks[i])
    BY <1>4, <2>1
  <2>3. QED
    BY <2>2
<1>6. CollectEach(b, ks) = Step(CollectEach(b, ks))
  <2> HIDE DEF e
  <2>1. QED
    BY <1>5 DEF CollectEach
<1> DEFINE after == CollectEach(b, ks)
<1> HIDE DEF after
<1>7. after = [i \in 0 .. Len(ks) |-> IF i = 0 THEN b ELSE CollectFrom(after[i - 1], ks[i])]
  BY <1>6 DEF after
<1>8. /\ DOMAIN after = 0 .. Len(ks) /\ after[0] = b
      /\ \A i \in 1 .. Len(ks) : after[i] = CollectFrom(after[i - 1], ks[i])
  BY <1>7
<1>9. QED
  BY <1>8 DEF after

\* What it comes to, to resize some accounts or to collect from them.
LeadsAll(b, c, payer, ks) ==
  /\ Sound(c)
  /\ \A j \in Keys \ ({ payer } \cup ks) : c.lamports[j] = b.lamports[j]
  /\ c.kind = b.kind

CollectsAll(b, c, ks) ==
  /\ Sound(c)
  /\ \A j \in Keys \ ({ Recipients[1], Recipients[2] } \cup ks) : c.lamports[j] = b.lamports[j]
  /\ \A j \in Keys \ ProgramKeys : c.lamports[j] >= b.lamports[j]
  /\ Affordable(b) => Affordable(c) /\ AllLamports(c) = AllLamports(b)

LEMMA ResizeEachLeads ==
  ASSUME NEW b, Sound(b), NEW ks, Len(ks) \in Nat, DOMAIN ks = 1 .. Len(ks),
         \A i \in 1 .. Len(ks) : ks[i] \in ProgramKeys /\ b.kind[ks[i]] \in Kept,
         NEW n \in Sizes, NEW payer \in Keys \ ProgramKeys
  PROVE  LET each == ResizeEach(b, ks, n, payer)
         IN /\ DOMAIN each = 0 .. Len(ks)
            /\ LeadsAll(b, each[Len(ks)], payer, Range(ks))
            /\ (\A i \in 0 .. Len(ks) : Affordable(each[i])) =>
                 AllLamports(each[Len(ks)]) = AllLamports(b)
<1> DEFINE each == ResizeEach(b, ks, n, payer)
           max == Len(ks)
           Good(i) == /\ LeadsAll(b, each[i], payer, Range(ks))
                      /\ (\A l \in 0 .. i : Affordable(each[l])) => AllLamports(each[i]) = AllLamports(b)
           P == { i \in Nat : i <= max => Good(i) }
<1>1. /\ DOMAIN each = 0 .. max /\ each[0] = b
      /\ \A i \in 1 .. max : each[i] = Resize(each[i - 1], ks[i], n, payer)
  BY ResizeEachIs
<1> HIDE DEF each
<1>2. 0 \in P
  BY <1>1 DEF LeadsAll
<1>3. ASSUME NEW m \in Nat, m \in P
      PROVE  m + 1 \in P
  <2> SUFFICES ASSUME m + 1 <= max
               PROVE  Good(m + 1)
    OBVIOUS
  <2> DEFINE c == each[m]
             d == each[m + 1]
             k == ks[m + 1]
  <2>1. m + 1 \in 1 .. max /\ (m + 1) - 1 = m
    OBVIOUS
  <2>2. Good(m)
    BY <1>3
  <2>3. k \in ProgramKeys /\ b.kind[k] \in Kept /\ k \in Range(ks)
    BY <2>1 DEF Range
  <2>4. d = Resize(c, k, n, payer)
    BY <1>1, <2>1
  <2>5. Sound(c) /\ c.kind[k] \in Kept
    BY <2>2, <2>3 DEF LeadsAll
  <2> HIDE DEF c, d, k
  <2>6. Leads(c, d, payer, k) /\ d.kind = c.kind
    BY <2>3, <2>4, <2>5, ResizeLeads
  <2>7. LeadsAll(b, d, payer, Range(ks))
    BY <2>2, <2>3, <2>6 DEF Leads, LeadsAll, c
  <2>8. ASSUME \A l \in 0 .. m + 1 : Affordable(each[l])
        PROVE  AllLamports(d) = AllLamports(b)
    <3>1. \A l \in 0 .. m : Affordable(each[l])
      BY <2>8
    <3>2. Affordable(c) /\ Affordable(d)
      <4>1. m \in 0 .. m + 1 /\ m + 1 \in 0 .. m + 1
        OBVIOUS
      <4>2. QED
        BY <2>8, <4>1 DEF c, d
    <3>3. QED
      BY <2>2, <2>6, <3>1, <3>2 DEF Leads, c
  <2>9. QED
    BY <2>7, <2>8 DEF d
<1>4. \A m \in Nat : m \in P
  <2> HIDE DEF P
  <2>1. QED
    BY <1>2, <1>3, Counting
<1>5. Good(max)
  BY <1>4
<1>6. QED
  BY <1>1, <1>5 DEF each

LEMMA CollectEachCollects ==
  ASSUME NEW b, Sound(b), NEW ks, Len(ks) \in Nat, DOMAIN ks = 1 .. Len(ks),
         \A i \in 1 .. Len(ks) : ks[i] \in ProgramKeys /\ Collectable(CollectEach(b, ks)[i - 1], ks[i])
  PROVE  CollectsAll(b, CollectEach(b, ks)[Len(ks)], Range(ks))
<1> DEFINE after == CollectEach(b, ks)
           max == Len(ks)
           P == { i \in Nat : i <= max => CollectsAll(b, after[i], Range(ks)) }
<1>1. /\ DOMAIN after = 0 .. max /\ after[0] = b
      /\ \A i \in 1 .. max : after[i] = CollectFrom(after[i - 1], ks[i])
  BY CollectEachIs
<1>2. \A i \in 1 .. max : ks[i] \in ProgramKeys /\ Collectable(after[i - 1], ks[i])
  OBVIOUS
<1> HIDE DEF after
<1>3. 0 \in P
  <2>1. \A j \in Keys : b.lamports[j] \in Int
    BY DEF Sound, Banks
  <2>2. QED
    BY <1>1, <2>1 DEF CollectsAll
<1>4. ASSUME NEW m \in Nat, m \in P
      PROVE  m + 1 \in P
  <2> SUFFICES ASSUME m + 1 <= max
               PROVE  CollectsAll(b, after[m + 1], Range(ks))
    OBVIOUS
  <2> DEFINE c == after[m]
             d == after[m + 1]
             k == ks[m + 1]
  <2>1. m + 1 \in 1 .. max /\ (m + 1) - 1 = m
    OBVIOUS
  <2>2. CollectsAll(b, c, Range(ks))
    BY <1>4
  <2>3. k \in ProgramKeys /\ Collectable(c, k) /\ k \in Range(ks)
    BY <1>2, <2>1 DEF Range
  <2>4. d = CollectFrom(c, k)
    BY <1>1, <2>1
  <2> HIDE DEF c, d, k
  <2>5. Collects(c, d, k)
    BY <2>2, <2>3, <2>4, CollectCollects DEF CollectsAll
  <2>6. \A j \in Keys : b.lamports[j] \in Int /\ c.lamports[j] \in Int /\ d.lamports[j] \in Int
    BY <2>2, <2>5 DEF Collects, CollectsAll, Sound, Banks
  <2>7. \A j \in Keys \ ({ Recipients[1], Recipients[2] } \cup Range(ks)) : d.lamports[j] = b.lamports[j]
    BY <2>2, <2>3, <2>5 DEF Collects, CollectsAll
  <2>8. \A j \in Keys \ ProgramKeys : d.lamports[j] >= b.lamports[j]
    BY <2>2, <2>5, <2>6 DEF Collects, CollectsAll
  <2>9. CollectsAll(b, d, Range(ks))
    BY <2>2, <2>5, <2>7, <2>8 DEF Collects, CollectsAll
  <2>10. QED
    BY <2>9 DEF d
<1>5. \A m \in Nat : m \in P
  <2> HIDE DEF P
  <2>1. QED
    BY <1>3, <1>4, Counting
<1>6. CollectsAll(b, after[max], Range(ks))
  BY <1>5
<1>7. QED
  BY <1>6 DEF after

-----------------------------------------------------------------------------
(* Who signs and what is lent *)

\* An instruction has one row of places.
LEMMA OneOfEach ==
  ASSUME NEW op, NEW j \in 1 .. 42, NEW k \in 1 .. 42, NEW accounts, NEW others,
         Instructions[j] = << op, accounts >>, Instructions[k] = << op, others >>
  PROVE  accounts = others
<1>1. PICK op1, a1, s1, l1 : Listed(j, op1, a1, s1, l1)
  BY Table
<1>2. PICK op2, a2, s2, l2 : Listed(k, op2, a2, s2, l2)
  BY Table
<1>3. op1 = op /\ op2 = op
  BY <1>1, <1>2 DEF Listed
<1>4. j = k
  BY <1>1, <1>2, <1>3 DEF Listed
<1>5. QED
  BY <1>4

\* The instructions that the handlers tell apart, with their accounts.
LEMMA Places ==
  ASSUME NEW x, NEW op, NEW accounts, NEW signing, NEW lending,
         Known(x, op, accounts, signing, lending)
  PROVE  /\ \A others : op \in OpsOf(others) => accounts = others
         /\ op \in { "CreateV1", "CreateV2" } => accounts = OfCreate
         /\ op \in { "CreateCollectionV1", "CreateCollectionV2" } => accounts = OfCreateCollection
         /\ op \in { "UpdateV1", "CompressV1", "DecompressV1" } => accounts = OfAsset
         /\ op = "TransferV1" => accounts = OfTransfer
         /\ op = "BurnV1" => accounts = OfBurn
         /\ op = "BurnCollectionV1" => accounts = OfBurnCollection
         /\ op = "UpdateCollectionInfoV1" => accounts = OfCollectionInfo
         /\ op = "ExecuteV1" => accounts = OfExecute
         /\ op = "CreateGroupV1" => accounts = OfCreateGroup
         /\ op = "CloseGroupV1" => accounts = OfCloseGroup
         /\ op = "Collect" => accounts = OfCollect
         /\ op = "WriteExternalPluginAdapterDataV1" => accounts = OfWrite
         /\ op = "UpdateV2" => accounts = OfUpdateV2
         /\ op = "WriteCollectionExternalPluginAdapterDataV1" => accounts = OfCollectionWrite
         /\ op = "UpdateCollectionV1" => accounts = OfUpdateCollection
         /\ op = "UpdateGroupV1" => accounts = OfUpdateGroup
         /\ op \in { "AddAssetsToGroupV1", "RemoveAssetsFromGroupV1", "AddCollectionsToGroupV1",
                     "RemoveCollectionsFromGroupV1" } => accounts = OfGroup
         /\ op \in { "AddGroupsToGroupV1", "RemoveGroupsFromGroupV1" } => accounts = OfParentGroup
<1> DEFINE Has(a) == \E k \in 1 .. 42 : Instructions[k] = << op, a >>
<1>1. ASSUME NEW others, Has(others)
      PROVE  accounts = others
  BY <1>1, OneOfEach, Zenon DEF Known
<1>2. \A others : op \in OpsOf(others) => Has(others)
  BY OpsAreCalls
<1>3. /\ Instructions[1] = << "CreateV1", OfCreate >> /\ Instructions[21] = << "CreateV2", OfCreate >>
      /\ Instructions[2] = << "CreateCollectionV1", OfCreateCollection >>
      /\ Instructions[22] = << "CreateCollectionV2", OfCreateCollection >>
      /\ Instructions[16] = << "UpdateV1", OfAsset >> /\ Instructions[18] = << "CompressV1", OfAsset >>
      /\ Instructions[19] = << "DecompressV1", OfAsset >>
  BY DEF Instructions
<1>4. /\ Instructions[15] = << "TransferV1", OfTransfer >> /\ Instructions[13] = << "BurnV1", OfBurn >>
      /\ Instructions[14] = << "BurnCollectionV1", OfBurnCollection >>
      /\ Instructions[33] = << "UpdateCollectionInfoV1", OfCollectionInfo >>
      /\ Instructions[32] = << "ExecuteV1", OfExecute >>
      /\ Instructions[40] = << "CreateGroupV1", OfCreateGroup >>
      /\ Instructions[41] = << "CloseGroupV1", OfCloseGroup >>
      /\ Instructions[20] = << "Collect", OfCollect >>
  BY DEF Instructions
<1>5. /\ Instructions[29] = << "WriteExternalPluginAdapterDataV1", OfWrite >>
      /\ Instructions[31] = << "UpdateV2", OfUpdateV2 >>
      /\ Instructions[30] = << "WriteCollectionExternalPluginAdapterDataV1", OfCollectionWrite >>
      /\ Instructions[17] = << "UpdateCollectionV1", OfUpdateCollection >>
      /\ Instructions[42] = << "UpdateGroupV1", OfUpdateGroup >>
  BY DEF Instructions
<1>6. /\ Instructions[34] = << "AddCollectionsToGroupV1", OfGroup >>
      /\ Instructions[35] = << "RemoveCollectionsFromGroupV1", OfGroup >>
      /\ Instructions[36] = << "AddAssetsToGroupV1", OfGroup >>
      /\ Instructions[37] = << "RemoveAssetsFromGroupV1", OfGroup >>
      /\ Instructions[38] = << "AddGroupsToGroupV1", OfParentGroup >>
      /\ Instructions[39] = << "RemoveGroupsFromGroupV1", OfParentGroup >>
  BY DEF Instructions
<1>7. \A k \in { 1, 2, 13, 14, 15, 16, 17, 18, 19, 20, 21, 22 } : k \in 1 .. 42
  OBVIOUS
<1>8. \A k \in { 29, 30, 31, 32, 33, 34, 35, 36, 37, 38, 39, 40, 41, 42 } : k \in 1 .. 42
  OBVIOUS
<1>9. /\ op \in { "CreateV1", "CreateV2" } => Has(OfCreate)
      /\ op \in { "CreateCollectionV1", "CreateCollectionV2" } => Has(OfCreateCollection)
      /\ op \in { "UpdateV1", "CompressV1", "DecompressV1" } => Has(OfAsset)
  BY <1>3, <1>7
<1>10. /\ op = "TransferV1" => Has(OfTransfer)
       /\ op = "BurnV1" => Has(OfBurn)
       /\ op = "BurnCollectionV1" => Has(OfBurnCollection)
       /\ op = "UpdateCollectionInfoV1" => Has(OfCollectionInfo)
       /\ op = "ExecuteV1" => Has(OfExecute)
       /\ op = "CreateGroupV1" => Has(OfCreateGroup)
       /\ op = "CloseGroupV1" => Has(OfCloseGroup)
       /\ op = "Collect" => Has(OfCollect)
  BY <1>4, <1>7, <1>8
<1>11. /\ op = "WriteExternalPluginAdapterDataV1" => Has(OfWrite)
       /\ op = "UpdateV2" => Has(OfUpdateV2)
       /\ op = "WriteCollectionExternalPluginAdapterDataV1" => Has(OfCollectionWrite)
       /\ op = "UpdateCollectionV1" => Has(OfUpdateCollection)
       /\ op = "UpdateGroupV1" => Has(OfUpdateGroup)
  BY <1>5, <1>7, <1>8
<1>12. /\ op \in { "AddAssetsToGroupV1", "RemoveAssetsFromGroupV1", "AddCollectionsToGroupV1",
                   "RemoveCollectionsFromGroupV1" } => Has(OfGroup)
       /\ op \in { "AddGroupsToGroupV1", "RemoveGroupsFromGroupV1" } => Has(OfParentGroup)
  BY <1>6, <1>8
<1> HIDE DEF Has
<1>13. \A others : op \in OpsOf(others) => accounts = others
  BY <1>1, <1>2
<1>14. /\ op \in { "CreateV1", "CreateV2" } => accounts = OfCreate
       /\ op \in { "CreateCollectionV1", "CreateCollectionV2" } => accounts = OfCreateCollection
       /\ op \in { "UpdateV1", "CompressV1", "DecompressV1" } => accounts = OfAsset
  BY <1>1, <1>9
<1>15. /\ op = "TransferV1" => accounts = OfTransfer
       /\ op = "BurnV1" => accounts = OfBurn
       /\ op = "BurnCollectionV1" => accounts = OfBurnCollection
       /\ op = "UpdateCollectionInfoV1" => accounts = OfCollectionInfo
       /\ op = "ExecuteV1" => accounts = OfExecute
       /\ op = "CreateGroupV1" => accounts = OfCreateGroup
       /\ op = "CloseGroupV1" => accounts = OfCloseGroup
       /\ op = "Collect" => accounts = OfCollect
  BY <1>1, <1>10
<1>16. QED
  BY <1>1, <1>11, <1>12, <1>13, <1>14, <1>15

\* What is present in places that the client lends, is lent.
LEMMA PresentAreLent ==
  ASSUME NEW x, NEW op, NEW accounts, NEW signing, NEW lending,
         Known(x, op, accounts, signing, lending),
         NEW fields, \A f \in fields \cap Range(accounts.places) : f \in lending,
         NEW k \in Present(x.read, fields)
  PROVE  Lends(x.message, k)
<1>1. PICK f \in fields \cap DOMAIN x.read.named : k = x.read.named[f] /\ k # "None"
  BY DEF Present
<1>2. QED
  BY <1>1 DEF Known, Reading

\* Everybody who must sign does.
LEMMA AllSign ==
  ASSUME NEW x, NEW op, NEW accounts, NEW signing, NEW lending,
         Known(x, op, accounts, signing, lending),
         op \in { "CreateV1", "CreateV2" } => x.read.named["asset"] # "None",
         op \in { "CreateCollectionV1", "CreateCollectionV2" } => x.read.named["collection"] # "None",
         NEW k \in MustSign(x.read)
  PROVE  Signs(x.message, k)
<1> DEFINE named == x.read.named
           places == Range(accounts.places)
<1>1. /\ x.read.op = op /\ DOMAIN named = places
      /\ \A f \in places : named[f] # "None" /\ f \in signing => Signs(x.message, named[f])
      /\ "payer" \in places /\ named["payer"] \notin Vaults => Signs(x.message, named["payer"])
  BY DEF Known, Reading
<1>2. /\ \A f \in places : f \in { "authority", "bubblegum_signer" } => f \in signing
      /\ op \in { "CreateV1", "CreateV2" } => "asset" \in places \cap signing
      /\ op \in { "CreateCollectionV1", "CreateCollectionV2" } => "collection" \in places \cap signing
      /\ op = "CreateGroupV1" => "group" \in signing /\ "update_authority" \in signing
  BY DEF Known, Enough
<1> HIDE DEF places
<1>3. CASE k \in Present(x.read, { "payer", "authority", "bubblegum_signer" }) \ Vaults
  <2>1. PICK f \in { "payer", "authority", "bubblegum_signer" } \cap places :
          k = named[f] /\ k # "None" /\ k \notin Vaults
    BY <1>1, <1>3 DEF Present
  <2>2. QED
    BY <1>1, <1>2, <2>1
<1>4. CASE op \in { "CreateV1", "CreateV2" } /\ k = named["asset"]
  BY <1>1, <1>2, <1>4
<1>5. CASE op \in { "CreateCollectionV1", "CreateCollectionV2" } /\ k = named["collection"]
  BY <1>1, <1>2, <1>5
<1>6. CASE op = "CreateGroupV1" /\ k \in Present(x.read, { "group", "update_authority" })
  <2>1. PICK f \in { "group", "update_authority" } \cap places : k = named[f] /\ k # "None"
    BY <1>1, <1>6 DEF Present
  <2>2. QED
    BY <1>1, <1>2, <1>6, <2>1
<1>7. QED
  BY <1>1, <1>3, <1>4, <1>5, <1>6 DEF MustSign

-----------------------------------------------------------------------------
(* The handlers *)

\* A key that may lose lamports in a call.
Pays(x, k) ==
  LET At(i, f) == ClientInstructions[x.call.op].metas[i].field = f
  IN \/ /\ k \in Payers /\ Signs(x.message, k)
        /\ \E i \in DOMAIN x.call.keys : At(i, "payer") /\ x.call.keys[i] = k
     \/ /\ k \in Vaults /\ x.call.op = "ExecuteV1" /\ k = Vault[x.read.named["asset"]]
        /\ \E i \in DOMAIN x.call.keys :
             At(i, "authority") /\ x.call.keys[i] # "None" /\ Signs(x.message, x.call.keys[i])

\* The end of a handler to which nobody can object.
Lawful(x, b, saved) ==
  /\ Sound(b)
  /\ Affordable(bank) /\ Affordable(b) => AllLamports(b) = AllLamports(bank)
  /\ \A k \in MustSign(x.read) : Signs(x.message, k)
  /\ \A k \in saved : Lends(x.message, k)
  /\ \A k \in Keys : b.lamports[k] # bank.lamports[k] => Lends(x.message, k)
  /\ \A k \in Keys \ ProgramKeys : b.lamports[k] < bank.lamports[k] => Pays(x, k)
  /\ x.read.op = x.call.op

\* A lawful end has every privilege that it needs.
LEMMA LawfulIsPrivileged ==
  ASSUME NEW x, NEW b, NEW saved, Lawful(x, b, saved)
  PROVE  Privileged(x.read, x.message, b, saved)
<1>1. \A k \in MustSign(x.read) : Signs(x.message, k)
  BY DEF Lawful
<1>2. \A k \in saved \cup { j \in Keys : b.lamports[j] # bank.lamports[j] } : Lends(x.message, k)
  BY DEF Lawful
<1>3. \A k \in { j \in Keys \ ProgramKeys : b.lamports[j] < bank.lamports[j] } :
        Signs(x.message, k) \/ (x.read.op = "ExecuteV1" /\ k = Vault[x.read.named.asset])
  BY DEF Lawful, Pays
<1>4. QED
  BY <1>1, <1>2, <1>3 DEF Privileged

\* The payer of a call, but for an execution, is a wallet that signs and is lent.
LEMMA PayersPay ==
  ASSUME NEW x, NEW op, NEW accounts, NEW signing, NEW lending,
         Known(x, op, accounts, signing, lending),
         "payer" \in Range(accounts.places), op # "ExecuteV1"
  PROVE  /\ x.read.named["payer"] \in Keys \ ProgramKeys
         /\ Lends(x.message, x.read.named["payer"]) /\ Pays(x, x.read.named["payer"])
<1> DEFINE payer == x.read.named["payer"]
           metas == ClientInstructions[op].metas
<1>1. "payer" \in signing /\ "payer" \in lending
  BY DEF Known, Enough
<1>2. payer \in Payers
  BY <1>1 DEF Known, Reading
<1>3. payer \in Keys \ ProgramKeys /\ payer # "None"
  BY <1>2, KeysAssumption, MessagesAssumption DEF Keys
<1>4. Signs(x.message, payer) /\ Lends(x.message, payer)
  BY <1>1, <1>3 DEF Known, Reading
<1>5. PICK i \in DOMAIN metas : metas[i].field = "payer"
  BY DEF Known, Reading
<1>6. /\ x.call.op = op /\ i \in DOMAIN x.call.keys /\ x.call.keys[i] = payer
  BY <1>5 DEF Known, Reading
<1>7. QED
  BY <1>2, <1>3, <1>4, <1>5, <1>6 DEF Pays

\* A handler that changes one account, at the cost or to the gain of the payer.
LEMMA OneAccountIsLawful ==
  ASSUME NEW x, NEW op, NEW accounts, NEW signing, NEW lending,
         Known(x, op, accounts, signing, lending),
         "payer" \in Range(accounts.places), op # "ExecuteV1",
         \A k \in MustSign(x.read) : Signs(x.message, k),
         NEW b, NEW k \in ProgramKeys, Leads(bank, b, x.read.named["payer"], k), Lends(x.message, k),
         NEW saved, \A j \in saved : Lends(x.message, j)
  PROVE  Lawful(x, b, saved)
<1> DEFINE payer == x.read.named["payer"]
<1>1. payer \in Keys \ ProgramKeys /\ Lends(x.message, payer) /\ Pays(x, payer)
  BY PayersPay
<1>2. x.read.op = x.call.op
  BY DEF Known, Reading
<1> HIDE DEF payer
<1>3. /\ Sound(b) /\ (Affordable(bank) /\ Affordable(b) => AllLamports(b) = AllLamports(bank))
      /\ \A j \in Keys \ { payer, k } : b.lamports[j] = bank.lamports[j]
  BY DEF Leads, payer
<1>4. \A j \in Keys : b.lamports[j] # bank.lamports[j] => Lends(x.message, j)
  BY <1>1, <1>3
<1>5. ASSUME NEW j \in Keys \ ProgramKeys, b.lamports[j] < bank.lamports[j]
      PROVE  Pays(x, j)
  <2>1. CASE j = payer
    BY <1>1, <2>1
  <2>2. CASE j # payer
    <3>1. b.lamports[j] = bank.lamports[j]
      BY <1>3, <2>2
    <3>2. b.lamports[j] \in Int
      BY <1>3 DEF Sound, Banks
    <3>3. QED
      BY <1>5, <3>1, <3>2
  <2>3. QED
    BY <2>1, <2>2
<1>6. QED
  BY <1>2, <1>3, <1>4, <1>5 DEF Lawful

\* What a handler comes to: a settlement that is lawful.
Ended == \E x, b, saved : Settle(x, b, saved) /\ Lawful(x, b, saved)

\* The places of the instructions that the handlers tell apart.
LEMMA NamesOfPlaces ==
  /\ Range(OfCreate.places) = { "asset", "collection", "authority", "payer", "owner",
                                "update_authority", "system_program", "log_wrapper" }
  /\ Range(OfCreateCollection.places) = { "collection", "update_authority", "payer", "system_program" }
  /\ Range(OfAsset.places) = { "asset", "collection", "payer", "authority", "system_program", "log_wrapper" }
  /\ Range(OfCollection.places) = { "collection", "payer", "authority", "system_program", "log_wrapper" }
  /\ Range(OfBurn.places) = { "asset", "collection", "payer", "authority", "system_program", "log_wrapper" }
  /\ Range(OfBurnCollection.places) = { "collection", "payer", "authority", "log_wrapper" }
  /\ Range(OfTransfer.places) = { "asset", "collection", "payer", "authority", "new_owner",
                                  "system_program", "log_wrapper" }
  /\ Range(OfUpdateCollection.places) = { "collection", "payer", "authority", "new_update_authority",
                                          "system_program", "log_wrapper" }
  /\ Range(OfCollect.places) = { "recipient1", "recipient2" }
  /\ Range(OfWrite.places) = { "asset", "collection", "payer", "authority", "buffer",
                               "system_program", "log_wrapper" }
  /\ Range(OfCollectionWrite.places) = { "collection", "payer", "authority", "buffer",
                                         "system_program", "log_wrapper" }
  /\ Range(OfUpdateV2.places) = { "asset", "collection", "payer", "authority", "new_collection",
                                  "system_program", "log_wrapper" }
  /\ Range(OfExecute.places) = { "asset", "collection", "asset_signer", "payer", "authority",
                                 "system_program", "program_id" }
  /\ Range(OfCollectionInfo.places) = { "collection", "bubblegum_signer" }
  /\ Range(OfCreateGroup.places) = { "group", "update_authority", "payer", "system_program" }
  /\ Range(OfGroup.places) = { "group", "payer", "authority", "system_program" }
  /\ Range(OfParentGroup.places) = { "parent_group", "payer", "authority", "system_program" }
  /\ Range(OfCloseGroup.places) = { "group", "payer", "authority" }
  /\ Range(OfUpdateGroup.places) = { "group", "payer", "authority", "new_update_authority", "system_program" }
<1>1. Range(OfCreate.places) = { "asset", "collection", "authority", "payer", "owner",
                                 "update_authority", "system_program", "log_wrapper" }
  BY DEF Range, Accounts, OfCreate
<1>2. Range(OfCreateCollection.places) = { "collection", "update_authority", "payer",
                                           "system_program" }
  BY DEF Range, Accounts, OfCreateCollection
<1>3. Range(OfAsset.places) = { "asset", "collection", "payer", "authority",
                                "system_program", "log_wrapper" }
  BY DEF Range, Accounts, OfAsset
<1>4. Range(OfCollection.places) = { "collection", "payer", "authority",
                                     "system_program", "log_wrapper" }
  BY DEF Range, Accounts, OfCollection
<1>5. Range(OfBurn.places) = { "asset", "collection", "payer", "authority",
                               "system_program", "log_wrapper" }
  BY DEF Range, Accounts, OfBurn
<1>6. Range(OfBurnCollection.places) = { "collection", "payer", "authority",
                                         "log_wrapper" }
  BY DEF Range, Accounts, OfBurnCollection
<1>7. Range(OfTransfer.places) = { "asset", "collection", "payer", "authority",
                                   "new_owner", "system_program", "log_wrapper" }
  BY DEF Range, Accounts, OfTransfer
<1>8. Range(OfUpdateCollection.places) = { "collection", "payer", "authority",
                                           "new_update_authority", "system_program",
                                           "log_wrapper" }
  BY DEF Range, Accounts, OfUpdateCollection
<1>9. Range(OfCollect.places) = { "recipient1", "recipient2" }
  BY DEF Range, Accounts, OfCollect
<1>10. Range(OfWrite.places) = { "asset", "collection", "payer", "authority", "buffer",
                                 "system_program", "log_wrapper" }
  BY DEF Range, Accounts, OfWrite
<1>11. Range(OfCollectionWrite.places) = { "collection", "payer", "authority",
                                           "buffer", "system_program", "log_wrapper" }
  BY DEF Range, Accounts, OfCollectionWrite
<1>12. Range(OfUpdateV2.places) = { "asset", "collection", "payer", "authority",
                                    "new_collection", "system_program", "log_wrapper" }
  BY DEF Range, Accounts, OfUpdateV2
<1>13. Range(OfExecute.places) = { "asset", "collection", "asset_signer", "payer",
                                   "authority", "system_program", "program_id" }
  BY DEF Range, Accounts, OfExecute
<1>14. Range(OfCollectionInfo.places) = { "collection", "bubblegum_signer" }
  BY DEF Range, Accounts, OfCollectionInfo
<1>15. Range(OfCreateGroup.places) = { "group", "update_authority", "payer",
                                       "system_program" }
  BY DEF Range, Accounts, OfCreateGroup
<1>16. Range(OfGroup.places) = { "group", "payer", "authority", "system_program" }
  BY DEF Range, Accounts, OfGroup
<1>17. Range(OfParentGroup.places) = { "parent_group", "payer", "authority",
                                       "system_program" }
  BY DEF Range, Accounts, OfParentGroup
<1>18. Range(OfCloseGroup.places) = { "group", "payer", "authority" }
  BY DEF Range, Accounts, OfCloseGroup
<1>19. Range(OfUpdateGroup.places) = { "group", "payer", "authority",
                                       "new_update_authority", "system_program" }
  BY DEF Range, Accounts, OfUpdateGroup
<1>20. QED
  BY <1>1, <1>2, <1>3, <1>4, <1>5, <1>6, <1>7, <1>8, <1>9, <1>10, <1>11, <1>12, <1>13, <1>14,
     <1>15, <1>16, <1>17, <1>18, <1>19

LEMMA CreateAssetEnds ==
  ASSUME Sound(bank), CreateAsset
  PROVE  Ended
<1>1. PICK x \in ExchangesOf(OpsOf(OfCreate)), n \in Sizes :
        LET r == x.read IN
          /\ Is(r.named.asset, "None")
          /\ Settle(x, Open(bank, r.named.asset, "AssetV1", n, CreateFee, r.named.payer),
                    Present(r, { "asset", "collection" }))
  BY DEF CreateAsset
<1> DEFINE asset == x.read.named["asset"]
           payer == x.read.named["payer"]
           b == Open(bank, asset, "AssetV1", n, CreateFee, payer)
           saved == Present(x.read, { "asset", "collection" })
<1>2. PICK op \in OpsOf(OfCreate) : x \in Exchanges[op]
  BY CallsOf
<1>3. PICK accounts, signing, lending : Known(x, op, accounts, signing, lending)
  BY <1>2, OpsAreCalls, Decoding
<1>4. accounts = OfCreate
  BY <1>3, Places
<1>5. /\ "payer" \in Range(accounts.places) /\ "asset" \in Range(accounts.places)
      /\ op \notin Readers \cup { "ExecuteV1", "CreateCollectionV1", "CreateCollectionV2" }
  <2>1. op \in Readers \cup { "ExecuteV1", "CreateCollectionV1", "CreateCollectionV2" } =>
          accounts \in { OfAsset, OfTransfer, OfExecute, OfCreateCollection }
    BY <1>3, Places DEF Readers
  <2>2. "owner" \notin Range(OfAsset.places) \cup Range(OfTransfer.places)
                         \cup Range(OfExecute.places) \cup Range(OfCreateCollection.places)
    BY NamesOfPlaces
  <2>3. { "payer", "asset", "owner" } \subseteq Range(OfCreate.places)
    BY NamesOfPlaces
  <2>4. QED
    BY <1>4, <2>1, <2>2, <2>3
<1>6. asset \in ProgramKeys /\ bank.kind[asset] = "None"
  BY <1>1 DEF Is
<1>7. asset # "None"
  BY <1>6, KeysAssumption DEF Keys
<1> HIDE DEF asset
<1>8. \A f \in { "asset", "collection" } \cap Range(accounts.places) : f \in lending
  BY <1>3, <1>5 DEF Known, Enough
<1>9. \A k \in saved : Lends(x.message, k)
  BY <1>3, <1>8, PresentAreLent
<1>10. Lends(x.message, asset)
  BY <1>3, <1>5, <1>7, <1>8 DEF Known, Reading, asset
<1>11. \A k \in MustSign(x.read) : Signs(x.message, k)
  BY <1>3, <1>5, <1>7, AllSign DEF asset
<1>12. payer \in Keys \ ProgramKeys
  BY <1>3, <1>5, PayersPay
<1> HIDE DEF payer, b, saved
<1>13. Leads(bank, b, payer, asset)
  BY <1>6, <1>12, OpenLeads, LamportsAssumption DEF b, Kept
<1>14. Lawful(x, b, saved)
  BY <1>3, <1>5, <1>6, <1>9, <1>10, <1>11, <1>13, OneAccountIsLawful DEF payer
<1>15. QED
  BY <1>1, <1>14 DEF Ended, b, saved, asset, payer

LEMMA StayLeads ==
  ASSUME NEW b, Sound(b), NEW payer, NEW k
  PROVE  Leads(b, b, payer, k)
BY DEF Leads

\* The account that a handler is about is lent.
LEMMA AccountIsLent ==
  ASSUME NEW x, NEW op, NEW accounts, NEW signing, NEW lending,
         Known(x, op, accounts, signing, lending),
         NEW f \in Range(accounts.places),
         f \in { "asset", "group", "parent_group" } \/ (f = "collection" /\ op \notin Readers),
         x.read.named[f] \in ProgramKeys
  PROVE  Lends(x.message, x.read.named[f])
<1>1. f \in lending
  BY DEF Known, Enough
<1>2. x.read.named[f] # "None"
  BY KeysAssumption DEF Keys
<1>3. QED
  BY <1>1, <1>2 DEF Known, Reading

\* The instructions that create something.
Creations == { "CreateV1", "CreateV2", "CreateCollectionV1", "CreateCollectionV2" }

LEMMA CreateCollectionEnds ==
  ASSUME Sound(bank), CreateCollection
  PROVE  Ended
<1>1. PICK x \in ExchangesOf(OpsOf(OfCreateCollection)), n \in Sizes :
        LET r == x.read IN
          /\ Is(r.named.collection, "None")
          /\ Settle(x, Open(bank, r.named.collection, "CollectionV1", n, 0, r.named.payer),
                    { r.named.collection })
  BY DEF CreateCollection
<1> DEFINE collection == x.read.named["collection"]
           payer == x.read.named["payer"]
           b == Open(bank, collection, "CollectionV1", n, 0, payer)
<1>2. PICK op \in OpsOf(OfCreateCollection) : x \in Exchanges[op]
  BY CallsOf
<1>3. PICK accounts, signing, lending : Known(x, op, accounts, signing, lending)
  BY <1>2, OpsAreCalls, Decoding
<1>4. accounts = OfCreateCollection
  BY <1>3, Places
<1>5. /\ "payer" \in Range(accounts.places) /\ "collection" \in Range(accounts.places)
      /\ op \notin Readers \cup { "ExecuteV1", "CreateV1", "CreateV2" }
  <2>1. op \in Readers \cup { "ExecuteV1", "CreateV1", "CreateV2" } =>
          accounts \in { OfAsset, OfTransfer, OfExecute, OfCreate }
    BY <1>3, Places DEF Readers
  <2>2. /\ "asset" \in Range(OfAsset.places) \cap Range(OfTransfer.places)
      /\ "asset" \in Range(OfExecute.places) \cap Range(OfCreate.places)
    BY NamesOfPlaces
  <2>3. { "payer", "collection" } \subseteq Range(OfCreateCollection.places)
          /\ "asset" \notin Range(OfCreateCollection.places)
    BY NamesOfPlaces
  <2>4. QED
    BY <1>4, <2>1, <2>2, <2>3
<1>6. collection \in ProgramKeys /\ bank.kind[collection] = "None"
  BY <1>1 DEF Is
<1>7. collection # "None"
  BY <1>6, KeysAssumption DEF Keys
<1> HIDE DEF collection
<1>8. Lends(x.message, collection)
  BY <1>3, <1>5, <1>6, AccountIsLent DEF collection
<1>9. \A k \in MustSign(x.read) : Signs(x.message, k)
  BY <1>3, <1>5, <1>7, AllSign DEF collection
<1>10. payer \in Keys \ ProgramKeys
  BY <1>3, <1>5, PayersPay
<1> HIDE DEF payer, b
<1>11. Leads(bank, b, payer, collection)
  BY <1>6, <1>10, OpenLeads DEF b, Kept
<1>12. Lawful(x, b, { collection })
  BY <1>3, <1>5, <1>6, <1>8, <1>9, <1>11, OneAccountIsLawful DEF payer
<1>13. QED
  BY <1>1, <1>12 DEF Ended, b, collection, payer

LEMMA ChangeAssetEnds ==
  ASSUME Sound(bank), ChangeAsset
  PROVE  Ended
<1> DEFINE ops == (OpsOf(OfAsset) \ { "CompressV1", "DecompressV1" })
                    \cup { "WriteExternalPluginAdapterDataV1", "UpdateV2" }
<1>1. PICK x \in ExchangesOf(ops), n \in Sizes :
        LET r == x.read IN
          /\ Is(r.named.asset, "AssetV1")
          /\ Settle(x, Resize(bank, r.named.asset, n, r.named.payer),
                    Present(r, IF r.op = "UpdateV2" THEN { "asset", "collection", "new_collection" }
                               ELSE { "asset" }))
  BY DEF ChangeAsset
<1> DEFINE asset == x.read.named["asset"]
           payer == x.read.named["payer"]
           b == Resize(bank, asset, n, payer)
           fields == IF x.read.op = "UpdateV2" THEN { "asset", "collection", "new_collection" } ELSE { "asset" }
<1>2. PICK op \in ops : x \in Exchanges[op]
  BY CallsOf
<1>3. op \in DOMAIN ClientInstructions
  <2>1. { "WriteExternalPluginAdapterDataV1", "UpdateV2" } \subseteq DOMAIN ClientInstructions
    BY DEF ClientInstructions
  <2>2. QED
    BY <2>1, OpsAreCalls
<1>4. PICK accounts, signing, lending : Known(x, op, accounts, signing, lending)
  BY <1>2, <1>3, Decoding
<1>5. accounts \in { OfAsset, OfWrite, OfUpdateV2 }
  BY <1>4, Places
<1>6. /\ "payer" \in Range(accounts.places) /\ "asset" \in Range(accounts.places)
      /\ op \notin { "ExecuteV1" } \cup Creations
  <2>1. op \in { "ExecuteV1" } \cup Creations => accounts \in { OfExecute, OfCreate, OfCreateCollection }
    BY <1>4, Places DEF Creations
  <2>2. /\ "program_id" \in Range(OfExecute.places) /\ "owner" \in Range(OfCreate.places)
        /\ "asset" \notin Range(OfCreateCollection.places)
    BY NamesOfPlaces
  <2>3. \A a \in { OfAsset, OfWrite, OfUpdateV2 } :
          /\ { "payer", "asset" } \subseteq Range(a.places)
          /\ "program_id" \notin Range(a.places) /\ "owner" \notin Range(a.places)
    BY NamesOfPlaces
  <2>4. QED
    BY <1>5, <2>1, <2>2, <2>3
<1>7. asset \in ProgramKeys /\ bank.kind[asset] = "AssetV1"
  BY <1>1 DEF Is
<1> HIDE DEF asset
<1>8. Lends(x.message, asset)
  BY <1>4, <1>6, <1>7, AccountIsLent DEF asset
<1>9. \A k \in MustSign(x.read) : Signs(x.message, k)
  BY <1>4, <1>6, AllSign DEF Creations
<1>10. payer \in Keys \ ProgramKeys
  BY <1>4, <1>6, PayersPay
<1>11. \A f \in fields \cap Range(accounts.places) : f \in lending
  <2>1. x.read.op = op
    BY <1>4 DEF Known, Reading
  <2>2. op = "UpdateV2" => op \notin Readers
    BY DEF Readers
  <2>3. QED
    BY <1>4, <2>1, <2>2 DEF Known, Enough
<1> HIDE DEF payer, b, fields
<1>12. \A k \in Present(x.read, fields) : Lends(x.message, k)
  BY <1>4, <1>11, PresentAreLent
<1>13. Leads(bank, b, payer, asset)
  BY <1>7, <1>10, ResizeLeads DEF b, Kept
<1>14. Lawful(x, b, Present(x.read, fields))
  BY <1>4, <1>6, <1>7, <1>8, <1>9, <1>12, <1>13, OneAccountIsLawful DEF payer
<1>15. QED
  BY <1>1, <1>14 DEF Ended, b, asset, payer, fields

LEMMA ChangeCollectionEnds ==
  ASSUME Sound(bank), ChangeCollection
  PROVE  Ended
<1> DEFINE ops == OpsOf(OfCollection) \cup
                    { "WriteCollectionExternalPluginAdapterDataV1", "UpdateCollectionV1" }
<1>1. PICK x \in ExchangesOf(ops), n \in Sizes :
        LET r == x.read IN
          /\ Is(r.named.collection, "CollectionV1")
          /\ Settle(x, Resize(bank, r.named.collection, n, r.named.payer), { r.named.collection })
  BY DEF ChangeCollection
<1> DEFINE collection == x.read.named["collection"]
           payer == x.read.named["payer"]
           b == Resize(bank, collection, n, payer)
<1>2. PICK op \in ops : x \in Exchanges[op]
  BY CallsOf
<1>3. op \in DOMAIN ClientInstructions
  <2>1. { "WriteCollectionExternalPluginAdapterDataV1", "UpdateCollectionV1" } \subseteq DOMAIN ClientInstructions
    BY DEF ClientInstructions
  <2>2. QED
    BY <2>1, OpsAreCalls
<1>4. PICK accounts, signing, lending : Known(x, op, accounts, signing, lending)
  BY <1>2, <1>3, Decoding
<1>5. accounts \in { OfCollection, OfCollectionWrite, OfUpdateCollection }
  BY <1>4, Places
<1>6. /\ "payer" \in Range(accounts.places) /\ "collection" \in Range(accounts.places)
      /\ op \notin { "ExecuteV1" } \cup Creations \cup Readers
  <2>1. op \in { "ExecuteV1" } \cup Creations \cup Readers =>
          accounts \in { OfExecute, OfCreate, OfCreateCollection, OfAsset, OfTransfer }
    BY <1>4, Places DEF Creations, Readers
  <2>2. /\ "asset" \in Range(OfExecute.places) \cap Range(OfCreate.places)
        /\ "asset" \in Range(OfAsset.places) \cap Range(OfTransfer.places)
        /\ "authority" \notin Range(OfCreateCollection.places)
    BY NamesOfPlaces
  <2>3. \A a \in { OfCollection, OfCollectionWrite, OfUpdateCollection } :
          /\ { "payer", "collection", "authority" } \subseteq Range(a.places) /\ "asset" \notin Range(a.places)
    BY NamesOfPlaces
  <2>4. QED
    BY <1>5, <2>1, <2>2, <2>3
<1>7. collection \in ProgramKeys /\ bank.kind[collection] = "CollectionV1"
  BY <1>1 DEF Is
<1> HIDE DEF collection
<1>8. Lends(x.message, collection)
  BY <1>4, <1>6, <1>7, AccountIsLent DEF collection
<1>9. \A k \in MustSign(x.read) : Signs(x.message, k)
  BY <1>4, <1>6, AllSign DEF Creations
<1>10. payer \in Keys \ ProgramKeys
  BY <1>4, <1>6, PayersPay
<1> HIDE DEF payer, b
<1>11. Leads(bank, b, payer, collection)
  BY <1>7, <1>10, ResizeLeads DEF b, Kept
<1>12. Lawful(x, b, { collection })
  BY <1>4, <1>6, <1>7, <1>8, <1>9, <1>11, OneAccountIsLawful DEF payer
<1>13. QED
  BY <1>1, <1>12 DEF Ended, b, collection, payer

LEMMA TransferEnds ==
  ASSUME Sound(bank), Transfer
  PROVE  Ended
<1>1. PICK x \in Exchanges["TransferV1"] :
        LET r == x.read IN
          /\ Is(r.named.asset, "AssetV1")
          /\ Settle(x, bank, { r.named.asset })
  BY DEF Transfer
<1> DEFINE asset == x.read.named["asset"]
           payer == x.read.named["payer"]
           b == bank
           saved == { asset }
<1>2. "TransferV1" \in DOMAIN ClientInstructions
  BY DEF ClientInstructions
<1>3. PICK accounts, signing, lending : Known(x, "TransferV1", accounts, signing, lending)
  BY <1>1, <1>2, Decoding
<1>4. "payer" \in Range(accounts.places) /\ "asset" \in Range(accounts.places)
  BY <1>3, Places, NamesOfPlaces
<1>5. asset \in ProgramKeys /\ bank.kind[asset] = "AssetV1"
  BY <1>1 DEF Is
<1> HIDE DEF asset
<1>6. Lends(x.message, asset)
  BY <1>3, <1>4, <1>5, AccountIsLent DEF asset
<1>7. \A k \in MustSign(x.read) : Signs(x.message, k)
  BY <1>3, AllSign
<1>8. payer \in Keys \ ProgramKeys
  BY <1>3, <1>4, PayersPay
<1>9. \A k \in saved : Lends(x.message, k)
  BY <1>6
<1> HIDE DEF payer, b, saved
<1>10. Leads(bank, b, payer, asset)
  BY <1>5, <1>8, StayLeads DEF b, Kept
<1>11. Lawful(x, b, saved)
  BY <1>3, <1>4, <1>5, <1>6, <1>7, <1>9, <1>10, OneAccountIsLawful DEF payer
<1>12. QED
  BY <1>1, <1>11 DEF Ended, b, saved, asset, payer

LEMMA BurnAssetEnds ==
  ASSUME Sound(bank), BurnAsset
  PROVE  Ended
<1>1. PICK x \in Exchanges["BurnV1"] :
        LET r == x.read IN
          /\ Is(r.named.asset, "AssetV1")
          /\ Settle(x, Close(bank, r.named.asset, r.named.payer), Present(r, { "asset", "collection" }))
  BY DEF BurnAsset
<1> DEFINE asset == x.read.named["asset"]
           payer == x.read.named["payer"]
           b == Close(bank, asset, payer)
           saved == Present(x.read, { "asset", "collection" })
<1>2. "BurnV1" \in DOMAIN ClientInstructions
  BY DEF ClientInstructions
<1>3. PICK accounts, signing, lending : Known(x, "BurnV1", accounts, signing, lending)
  BY <1>1, <1>2, Decoding
<1>4. "payer" \in Range(accounts.places) /\ "asset" \in Range(accounts.places)
  BY <1>3, Places, NamesOfPlaces
<1>5. asset \in ProgramKeys /\ bank.kind[asset] = "AssetV1"
  BY <1>1 DEF Is
<1> HIDE DEF asset
<1>6. Lends(x.message, asset)
  BY <1>3, <1>4, <1>5, AccountIsLent DEF asset
<1>7. \A k \in MustSign(x.read) : Signs(x.message, k)
  BY <1>3, AllSign
<1>8. payer \in Keys \ ProgramKeys
  BY <1>3, <1>4, PayersPay
<1>9. \A k \in saved : Lends(x.message, k)
  <2>1. \A f \in { "asset", "collection" } \cap Range(accounts.places) : f \in lending
    BY <1>3 DEF Known, Enough, Readers
  <2>2. QED
    BY <1>3, <2>1, PresentAreLent
<1> HIDE DEF payer, b, saved
<1>10. Leads(bank, b, payer, asset)
  BY <1>5, <1>8, CloseLeads DEF b, Kept
<1>11. Lawful(x, b, saved)
  BY <1>3, <1>4, <1>5, <1>6, <1>7, <1>9, <1>10, OneAccountIsLawful DEF payer
<1>12. QED
  BY <1>1, <1>11 DEF Ended, b, saved, asset, payer

LEMMA BurnCollectionEnds ==
  ASSUME Sound(bank), BurnCollection
  PROVE  Ended
<1>1. PICK x \in Exchanges["BurnCollectionV1"] :
        LET r == x.read IN
          /\ Is(r.named.collection, "CollectionV1")
          /\ Settle(x, Close(bank, r.named.collection, r.named.payer), { r.named.collection })
  BY DEF BurnCollection
<1> DEFINE collection == x.read.named["collection"]
           payer == x.read.named["payer"]
           b == Close(bank, collection, payer)
           saved == { collection }
<1>2. "BurnCollectionV1" \in DOMAIN ClientInstructions
  BY DEF ClientInstructions
<1>3. PICK accounts, signing, lending : Known(x, "BurnCollectionV1", accounts, signing, lending)
  BY <1>1, <1>2, Decoding
<1>4. "payer" \in Range(accounts.places) /\ "collection" \in Range(accounts.places)
  BY <1>3, Places, NamesOfPlaces
<1>5. collection \in ProgramKeys /\ bank.kind[collection] = "CollectionV1"
  BY <1>1 DEF Is
<1> HIDE DEF collection
<1>6. Lends(x.message, collection)
  BY <1>3, <1>4, <1>5, AccountIsLent DEF collection, Readers
<1>7. \A k \in MustSign(x.read) : Signs(x.message, k)
  BY <1>3, AllSign
<1>8. payer \in Keys \ ProgramKeys
  BY <1>3, <1>4, PayersPay
<1>9. \A k \in saved : Lends(x.message, k)
  BY <1>6
<1> HIDE DEF payer, b, saved
<1>10. Leads(bank, b, payer, collection)
  BY <1>5, <1>8, CloseLeads DEF b, Kept
<1>11. Lawful(x, b, saved)
  BY <1>3, <1>4, <1>5, <1>6, <1>7, <1>9, <1>10, OneAccountIsLawful DEF payer
<1>12. QED
  BY <1>1, <1>11 DEF Ended, b, saved, collection, payer

LEMMA CloseGroupEnds ==
  ASSUME Sound(bank), CloseGroup
  PROVE  Ended
<1>1. PICK x \in Exchanges["CloseGroupV1"] :
        LET r == x.read IN
          /\ Is(r.named.group, "GroupV1")
          /\ Settle(x, Close(bank, r.named.group, r.named.payer), { r.named.group })
  BY DEF CloseGroup
<1> DEFINE group == x.read.named["group"]
           payer == x.read.named["payer"]
           b == Close(bank, group, payer)
           saved == { group }
<1>2. "CloseGroupV1" \in DOMAIN ClientInstructions
  BY DEF ClientInstructions
<1>3. PICK accounts, signing, lending : Known(x, "CloseGroupV1", accounts, signing, lending)
  BY <1>1, <1>2, Decoding
<1>4. "payer" \in Range(accounts.places) /\ "group" \in Range(accounts.places)
  BY <1>3, Places, NamesOfPlaces
<1>5. group \in ProgramKeys /\ bank.kind[group] = "GroupV1"
  BY <1>1 DEF Is
<1> HIDE DEF group
<1>6. Lends(x.message, group)
  BY <1>3, <1>4, <1>5, AccountIsLent DEF group
<1>7. \A k \in MustSign(x.read) : Signs(x.message, k)
  BY <1>3, AllSign
<1>8. payer \in Keys \ ProgramKeys
  BY <1>3, <1>4, PayersPay
<1>9. \A k \in saved : Lends(x.message, k)
  BY <1>6
<1> HIDE DEF payer, b, saved
<1>10. Leads(bank, b, payer, group)
  BY <1>5, <1>8, CloseLeads DEF b, Kept
<1>11. Lawful(x, b, saved)
  BY <1>3, <1>4, <1>5, <1>6, <1>7, <1>9, <1>10, OneAccountIsLawful DEF payer
<1>12. QED
  BY <1>1, <1>11 DEF Ended, b, saved, group, payer

LEMMA ReportEnds ==
  ASSUME Sound(bank), ReportOfBubblegum
  PROVE  Ended
<1>1. PICK x \in Exchanges["UpdateCollectionInfoV1"] :
        LET r == x.read IN
          /\ Is(r.named.collection, "CollectionV1") /\ Settle(x, bank, { r.named.collection })
  BY DEF ReportOfBubblegum
<1> DEFINE collection == x.read.named["collection"]
<1>2. "UpdateCollectionInfoV1" \in DOMAIN ClientInstructions
  BY DEF ClientInstructions
<1>3. PICK accounts, signing, lending : Known(x, "UpdateCollectionInfoV1", accounts, signing, lending)
  BY <1>1, <1>2, Decoding
<1>4. "collection" \in Range(accounts.places)
  BY <1>3, Places, NamesOfPlaces
<1>5. collection \in ProgramKeys
  BY <1>1 DEF Is
<1>6. Lends(x.message, collection)
  BY <1>3, <1>4, <1>5, AccountIsLent DEF Readers
<1>7. \A k \in MustSign(x.read) : Signs(x.message, k)
  BY <1>3, AllSign
<1>8. x.read.op = x.call.op
  BY <1>3 DEF Known, Reading
<1>9. \A k \in Keys : bank.lamports[k] \in Int
  BY DEF Sound, Banks
<1>10. Lawful(x, bank, { collection })
  BY <1>6, <1>7, <1>8, <1>9 DEF Lawful
<1>11. QED
  BY <1>1, <1>10 DEF Ended

\* In an execution the vault may pay, if an authority signed.
LEMMA ExecuteEnds ==
  ASSUME Sound(bank), Execute
  PROVE  Ended
<1>1. PICK x \in Exchanges["ExecuteV1"] :
        LET r == x.read IN
          /\ Is(r.named.asset, "AssetV1")
          /\ r.named.asset_signer = Vault[r.named.asset]
          /\ r.named.payer \in Vaults => r.named.payer = r.named.asset_signer
          /\ HasAuthority(r)
          /\ Settle(x, PayFee(bank, r.named.asset, r.named.payer), { r.named.asset })
  BY DEF Execute
<1> DEFINE asset == x.read.named["asset"]
           payer == x.read.named["payer"]
           authority == x.read.named["authority"]
           metas == ClientInstructions["ExecuteV1"].metas
           b == PayFee(bank, asset, payer)
<1>2. "ExecuteV1" \in DOMAIN ClientInstructions
  BY DEF ClientInstructions
<1>3. PICK accounts, signing, lending : Known(x, "ExecuteV1", accounts, signing, lending)
  BY <1>1, <1>2, Decoding
<1>4. { "payer", "asset", "authority" } \subseteq Range(accounts.places)
  BY <1>3, Places, NamesOfPlaces
<1>5. asset \in ProgramKeys /\ bank.kind[asset] = "AssetV1"
  BY <1>1 DEF Is
<1>6. Lends(x.message, asset)
  BY <1>3, <1>4, <1>5, AccountIsLent
<1>7. \A k \in MustSign(x.read) : Signs(x.message, k)
  BY <1>3, AllSign
<1>8. /\ payer \in Payers \cup Vaults
      /\ payer \notin Vaults => Signs(x.message, payer)
      /\ x.read.op = "ExecuteV1" /\ x.call.op = "ExecuteV1"
  BY <1>3, <1>4 DEF Known, Reading
<1>9. payer \in Keys \ ProgramKeys /\ payer # "None"
  BY <1>8, KeysAssumption, MessagesAssumption DEF Keys
<1>10. Lends(x.message, payer)
  BY <1>3, <1>4, <1>9 DEF Known, Enough, Reading
<1>11. Pays(x, payer)
  <2>1. CASE payer \notin Vaults
    <3>1. PICK i \in DOMAIN metas : metas[i].field = "payer"
      BY <1>3, <1>4 DEF Known, Reading
    <3>2. i \in DOMAIN x.call.keys /\ x.call.keys[i] = payer
      BY <1>3, <3>1 DEF Known, Reading
    <3>3. QED
      BY <1>8, <2>1, <3>1, <3>2 DEF Pays
  <2>2. CASE payer \in Vaults
    <3>1. authority # "None" /\ payer = Vault[asset]
      BY <1>1, <2>2 DEF HasAuthority
    <3>2. Signs(x.message, authority)
      BY <1>3, <1>4, <3>1 DEF Known, Enough, Reading
    <3>3. PICK i \in DOMAIN metas : metas[i].field = "authority"
      BY <1>3, <1>4 DEF Known, Reading
    <3>4. i \in DOMAIN x.call.keys /\ x.call.keys[i] = authority
      BY <1>3, <3>3 DEF Known, Reading
    <3>5. QED
      BY <1>8, <2>2, <3>1, <3>2, <3>3, <3>4 DEF Pays
  <2>3. QED
    BY <2>1, <2>2
<1> HIDE DEF asset, payer, b
<1>12. Leads(bank, b, payer, asset)
  BY <1>5, <1>9, FeeLeads DEF b, Kept
<1>13. ASSUME NEW j \in Keys \ ProgramKeys, b.lamports[j] < bank.lamports[j]
       PROVE  Pays(x, j)
  <2>1. CASE j = payer
    BY <1>11, <2>1
  <2>2. CASE j # payer
    <3>1. b.lamports[j] = bank.lamports[j] /\ bank.lamports[j] \in Int
      BY <1>5, <1>12, <2>2 DEF Leads, Sound, Banks
    <3>2. QED
      BY <1>13, <3>1
  <2>3. QED
    BY <2>1, <2>2
<1>14. Lawful(x, b, { asset })
  BY <1>6, <1>7, <1>8, <1>10, <1>12, <1>13 DEF Lawful, Leads
<1>15. QED
  BY <1>1, <1>14 DEF Ended, b, asset, payer

\* A handler that changes several accounts, all of them at the cost or to the gain
\* of the payer.
ManyChange(x, b, payer, saved) ==
  /\ Sound(b) /\ saved \subseteq ProgramKeys
  /\ \A k \in saved : Lends(x.message, k)
  /\ \A j \in Keys \ ({ payer } \cup saved) : b.lamports[j] = bank.lamports[j]
  /\ Affordable(bank) /\ Affordable(b) => AllLamports(b) = AllLamports(bank)

LEMMA ManyAccountsAreLawful ==
  ASSUME NEW x, NEW op, NEW accounts, NEW signing, NEW lending,
         Known(x, op, accounts, signing, lending),
         "payer" \in Range(accounts.places), op # "ExecuteV1",
         \A k \in MustSign(x.read) : Signs(x.message, k),
         NEW b, NEW saved, ManyChange(x, b, x.read.named["payer"], saved)
  PROVE  Lawful(x, b, saved)
<1> DEFINE payer == x.read.named["payer"]
<1>1. payer \in Keys \ ProgramKeys /\ Lends(x.message, payer) /\ Pays(x, payer)
  BY PayersPay
<1>2. x.read.op = x.call.op
  BY DEF Known, Reading
<1> HIDE DEF payer
<1>3. /\ Sound(b) /\ saved \subseteq ProgramKeys /\ \A k \in saved : Lends(x.message, k)
      /\ \A j \in Keys \ ({ payer } \cup saved) : b.lamports[j] = bank.lamports[j]
      /\ Affordable(bank) /\ Affordable(b) => AllLamports(b) = AllLamports(bank)
  BY DEF ManyChange, payer
<1>4. \A j \in Keys : b.lamports[j] # bank.lamports[j] => Lends(x.message, j)
  BY <1>1, <1>3
<1>5. ASSUME NEW j \in Keys \ ProgramKeys, b.lamports[j] < bank.lamports[j]
      PROVE  Pays(x, j)
  <2>1. CASE j = payer
    BY <1>1, <2>1
  <2>2. CASE j # payer
    <3>1. b.lamports[j] = bank.lamports[j]
      BY <1>3, <2>2
    <3>2. b.lamports[j] \in Int
      BY <1>3 DEF Sound, Banks
    <3>3. QED
      BY <1>5, <3>1, <3>2
  <2>3. QED
    BY <2>1, <2>2
<1>6. QED
  BY <1>2, <1>3, <1>4, <1>5 DEF Lawful

\* What remains of a group call: accounts of the program, each lent.
LEMMA RestsAreLent ==
  ASSUME NEW x, NEW op, NEW accounts, NEW signing, NEW lending,
         Known(x, op, accounts, signing, lending)
  PROVE  LET rest == x.read.rest
         IN /\ Len(rest) \in Nat /\ DOMAIN rest = 1 .. Len(rest)
            /\ \A i \in 1 .. Len(rest) : rest[i] \in ProgramKeys
            /\ Range(rest) \subseteq ProgramKeys
            /\ \A k \in Range(rest) : Lends(x.message, k)
<1> DEFINE rest == x.read.rest
<1>1. rest \in Rests(op) /\ rest = x.call.rest
  BY DEF Known, Reading
<1>2. PICK n \in Nat : rest \in [1 .. n -> ProgramKeys]
  BY <1>1, RestsAreRows
<1>3. \A i \in DOMAIN rest : Lends(x.message, rest[i])
  BY <1>1 DEF Known, Reading
<1> HIDE DEF rest
<1>4. Len(rest) = n /\ DOMAIN rest = 1 .. n
  BY <1>2
<1>5. QED
  BY <1>2, <1>3, <1>4 DEF Range, rest

LEMMA ThereAreKept ==
  ASSUME NEW ks, NEW op, AreThere(ks, MemberKinds(op))
  PROVE  \A i \in DOMAIN ks : ks[i] \in ProgramKeys /\ bank.kind[ks[i]] \in Kept
<1>1. MemberKinds(op) \subseteq Kept
  BY DEF MemberKinds, Kept
<1>2. QED
  BY <1>1 DEF AreThere, Is

\* A group call resizes members and then, or before, opens or resizes the group.
LEMMA CreateGroupEnds ==
  ASSUME Sound(bank), CreateGroup
  PROVE  Ended
<1>1. PICK x \in Exchanges["CreateGroupV1"], n \in Sizes, m \in Sizes :
        LET r == x.read
            opened == Open(bank, r.named.group, "GroupV1", n, 0, r.named.payer)
            each == ResizeEach(opened, r.rest, m, r.named.payer)
        IN /\ Is(r.named.group, "None") /\ AreThere(r.rest, MemberKinds(r.op))
           /\ \A i \in DOMAIN each : Affordable(each[i])
           /\ Settle(x, each[Len(r.rest)], { r.named.group } \cup Range(r.rest))
  BY DEF CreateGroup
<1> DEFINE group == x.read.named["group"]
           payer == x.read.named["payer"]
           rest == x.read.rest
           opened == Open(bank, group, "GroupV1", n, 0, payer)
           each == ResizeEach(opened, rest, m, payer)
           b == each[Len(rest)]
           saved == { group } \cup Range(rest)
<1>2. "CreateGroupV1" \in DOMAIN ClientInstructions
  BY DEF ClientInstructions
<1>3. PICK accounts, signing, lending : Known(x, "CreateGroupV1", accounts, signing, lending)
  BY <1>1, <1>2, Decoding
<1>4. "payer" \in Range(accounts.places) /\ "group" \in Range(accounts.places)
  BY <1>3, Places, NamesOfPlaces
<1>5. group \in ProgramKeys /\ bank.kind[group] = "None"
  BY <1>1 DEF Is
<1>6. Lends(x.message, group)
  BY <1>3, <1>4, <1>5, AccountIsLent
<1>7. \A k \in MustSign(x.read) : Signs(x.message, k)
  BY <1>3, AllSign
<1>8. payer \in Keys \ ProgramKeys
  BY <1>3, <1>4, PayersPay
<1>9. /\ Len(rest) \in Nat /\ DOMAIN rest = 1 .. Len(rest)
      /\ \A i \in 1 .. Len(rest) : rest[i] \in ProgramKeys
      /\ Range(rest) \subseteq ProgramKeys /\ \A k \in Range(rest) : Lends(x.message, k)
  BY <1>3, RestsAreLent
<1>10. \A i \in 1 .. Len(rest) : bank.kind[rest[i]] \in Kept
  BY <1>1, <1>9, ThereAreKept
<1>11. /\ \A i \in DOMAIN each : Affordable(each[i])
       /\ Settle(x, b, saved)
  BY <1>1
<1> HIDE DEF group, payer, rest
<1>12. Leads(bank, opened, payer, group)
  BY <1>5, <1>8, OpenLeads DEF Kept
<1> HIDE DEF opened
<1>13. \A i \in 1 .. Len(rest) : opened.kind[rest[i]] \in Kept
  <2>1. \A i \in 1 .. Len(rest) : rest[i] # group /\ rest[i] \in Keys
    BY <1>5, <1>9, <1>10, ProgramKeysAreKeys DEF Kept
  <2>2. QED
    BY <1>10, <1>12, <2>1 DEF Leads
<1>14. /\ DOMAIN each = 0 .. Len(rest) /\ LeadsAll(opened, b, payer, Range(rest))
       /\ (\A i \in 0 .. Len(rest) : Affordable(each[i])) => AllLamports(b) = AllLamports(opened)
  <2>1. \A i \in 1 .. Len(rest) : rest[i] \in ProgramKeys /\ opened.kind[rest[i]] \in Kept
    BY <1>9, <1>13
  <2>2. Sound(opened)
    BY <1>12 DEF Leads
  <2>3. QED
    BY <1>8, <1>9, <2>1, <2>2, ResizeEachLeads
<1>15. each[0] = opened
  BY <1>9, ResizeEachIs
<1> HIDE DEF each
<1>16. Affordable(opened) /\ AllLamports(b) = AllLamports(opened)
  <2>1. 0 \in DOMAIN each
    BY <1>9, <1>14
  <2>2. QED
    BY <1>11, <1>14, <1>15, <2>1
<1> HIDE DEF b
<1>17. ManyChange(x, b, payer, saved)
  <2>1. saved \subseteq ProgramKeys /\ \A k \in saved : Lends(x.message, k)
    BY <1>5, <1>6, <1>9
  <2>2. Sound(b)
    BY <1>14 DEF LeadsAll
  <2>3. \A j \in Keys \ ({ payer } \cup saved) : b.lamports[j] = bank.lamports[j]
    BY <1>12, <1>14 DEF Leads, LeadsAll
  <2>4. Affordable(bank) => AllLamports(b) = AllLamports(bank)
    BY <1>12, <1>16 DEF Leads
  <2> HIDE DEF saved
  <2>5. QED
    BY <2>1, <2>2, <2>3, <2>4 DEF ManyChange
<1> HIDE DEF saved
<1>18. Lawful(x, b, saved)
  BY <1>3, <1>4, <1>7, <1>17, ManyAccountsAreLawful DEF payer
<1>19. QED
  BY <1>11, <1>18 DEF Ended

LEMMA ChangeGroupEnds ==
  ASSUME Sound(bank), ChangeGroup
  PROVE  Ended
<1> DEFINE ops == LinkOps \cup { "UpdateGroupV1" }
<1>1. PICK x \in ExchangesOf(ops), n \in Sizes, m \in Sizes :
        LET r == x.read IN
          \E g \in Present(r, { "group", "parent_group" }) :
            LET each == ResizeEach(bank, r.rest, m, r.named.payer)
            IN /\ Is(g, "GroupV1") /\ AreThere(r.rest, MemberKinds(r.op)) /\ g \notin Range(r.rest)
               /\ \A i \in DOMAIN each : Affordable(each[i])
               /\ Settle(x, Resize(each[Len(r.rest)], g, n, r.named.payer), { g } \cup Range(r.rest))
  BY DEF ChangeGroup
<1> DEFINE payer == x.read.named["payer"]
           rest == x.read.rest
           each == ResizeEach(bank, rest, m, payer)
           c == each[Len(rest)]
<1>2. PICK g \in Present(x.read, { "group", "parent_group" }) :
        /\ Is(g, "GroupV1") /\ AreThere(rest, MemberKinds(x.read.op)) /\ g \notin Range(rest)
        /\ \A i \in DOMAIN each : Affordable(each[i])
        /\ Settle(x, Resize(c, g, n, payer), { g } \cup Range(rest))
  BY <1>1
<1> DEFINE b == Resize(c, g, n, payer)
           saved == { g } \cup Range(rest)
<1>3. PICK op \in ops : x \in Exchanges[op]
  BY CallsOf
<1>4. op \in DOMAIN ClientInstructions
  BY DEF ClientInstructions, LinkOps
<1>5. PICK accounts, signing, lending : Known(x, op, accounts, signing, lending)
  BY <1>3, <1>4, Decoding
<1>6. accounts \in { OfGroup, OfParentGroup, OfUpdateGroup }
  BY <1>5, Places DEF LinkOps
<1>7. "payer" \in Range(accounts.places) /\ op \notin { "ExecuteV1" } \cup Creations
  <2>1. "payer" \in Range(accounts.places)
    BY <1>6, NamesOfPlaces
  <2>2. QED
    BY <2>1 DEF LinkOps, Creations
<1>8. \A f \in { "group", "parent_group" } \cap Range(accounts.places) : f \in lending
  BY <1>5 DEF Known, Enough
<1>9. Lends(x.message, g)
  BY <1>5, <1>8, PresentAreLent
<1>10. \A k \in MustSign(x.read) : Signs(x.message, k)
  BY <1>5, <1>7, AllSign DEF Creations
<1>11. payer \in Keys \ ProgramKeys
  BY <1>5, <1>7, PayersPay
<1>12. /\ Len(rest) \in Nat /\ DOMAIN rest = 1 .. Len(rest)
       /\ \A i \in 1 .. Len(rest) : rest[i] \in ProgramKeys
       /\ Range(rest) \subseteq ProgramKeys /\ \A k \in Range(rest) : Lends(x.message, k)
  BY <1>5, RestsAreLent
<1>13. \A i \in 1 .. Len(rest) : bank.kind[rest[i]] \in Kept
  BY <1>2, <1>12, ThereAreKept
<1>14. /\ g \in ProgramKeys /\ bank.kind[g] \in Kept /\ g \notin Range(rest)
       /\ \A i \in DOMAIN each : Affordable(each[i])
       /\ Settle(x, b, saved)
  BY <1>2 DEF Is, Kept
<1> HIDE DEF payer, rest
<1>15. /\ DOMAIN each = 0 .. Len(rest) /\ LeadsAll(bank, c, payer, Range(rest))
       /\ (\A i \in 0 .. Len(rest) : Affordable(each[i])) => AllLamports(c) = AllLamports(bank)
  <2>1. \A i \in 1 .. Len(rest) : rest[i] \in ProgramKeys /\ bank.kind[rest[i]] \in Kept
    BY <1>12, <1>13
  <2>2. QED
    BY <1>11, <1>12, <2>1, ResizeEachLeads
<1>16. Affordable(c) /\ AllLamports(c) = AllLamports(bank)
  <2>1. Len(rest) \in DOMAIN each
    BY <1>12, <1>15
  <2>2. QED
    BY <1>14, <1>15, <2>1
<1> HIDE DEF each, c
<1>17. Leads(c, b, payer, g)
  <2>1. Sound(c) /\ c.kind[g] \in Kept
    BY <1>14, <1>15 DEF LeadsAll
  <2>2. QED
    BY <1>11, <1>14, <2>1, ResizeLeads
<1> HIDE DEF b
<1>18. ManyChange(x, b, payer, saved)
  <2>1. saved \subseteq ProgramKeys /\ \A k \in saved : Lends(x.message, k)
    BY <1>9, <1>12, <1>14
  <2>2. Sound(b)
    BY <1>17 DEF Leads
  <2>3. \A j \in Keys \ ({ payer } \cup saved) : b.lamports[j] = bank.lamports[j]
    BY <1>15, <1>17 DEF Leads, LeadsAll
  <2>4. Affordable(b) => AllLamports(b) = AllLamports(bank)
    BY <1>16, <1>17 DEF Leads
  <2> HIDE DEF saved
  <2>5. QED
    BY <2>1, <2>2, <2>3, <2>4 DEF ManyChange
<1> HIDE DEF saved
<1>19. Lawful(x, b, saved)
  BY <1>5, <1>7, <1>10, <1>18, ManyAccountsAreLawful DEF payer
<1>20. QED
  BY <1>14, <1>19 DEF Ended

\* collect charges nobody, and pays the two places that the client lends.
LEMMA CollectFeesEnds ==
  ASSUME Sound(bank), CollectFees
  PROVE  Ended
<1>1. PICK x \in Exchanges["Collect"] :
        LET r == x.read
            after == CollectEach(bank, r.rest)
            end == after[Len(r.rest)]
        IN /\ << r.named.recipient1, r.named.recipient2 >> = Recipients
           /\ \A i \in DOMAIN r.rest : Collectable(after[i - 1], r.rest[i])
           /\ Settle(x, end, { k \in Range(r.rest) : end.kind[k] # bank.kind[k] })
  BY DEF CollectFees
<1> DEFINE named == x.read.named
           rest == x.read.rest
           after == CollectEach(bank, rest)
           b == after[Len(rest)]
           saved == { k \in Range(rest) : b.kind[k] # bank.kind[k] }
<1>2. "Collect" \in DOMAIN ClientInstructions
  BY DEF ClientInstructions
<1>3. PICK accounts, signing, lending : Known(x, "Collect", accounts, signing, lending)
  BY <1>1, <1>2, Decoding
<1>4. { "recipient1", "recipient2" } \subseteq Range(accounts.places)
  BY <1>3, Places, NamesOfPlaces
<1>5. named["recipient1"] = Recipients[1] /\ named["recipient2"] = Recipients[2]
  BY <1>1
<1>6. Lends(x.message, Recipients[1]) /\ Lends(x.message, Recipients[2])
  <2>1. Recipients[1] # "None" /\ Recipients[2] # "None"
    BY KeysAssumption DEF Keys
  <2>2. "recipient1" \in lending /\ "recipient2" \in lending
    BY <1>3, <1>4 DEF Known, Enough
  <2>3. \A f \in { "recipient1", "recipient2" } : named[f] # "None" => Lends(x.message, named[f])
    BY <1>3, <1>4, <2>2 DEF Known, Reading
  <2> HIDE DEF named
  <2>4. QED
    BY <1>5, <2>1, <2>3
<1>7. \A k \in MustSign(x.read) : Signs(x.message, k)
  BY <1>3, AllSign
<1>8. x.read.op = x.call.op
  BY <1>3 DEF Known, Reading
<1>9. /\ Len(rest) \in Nat /\ DOMAIN rest = 1 .. Len(rest)
      /\ \A i \in 1 .. Len(rest) : rest[i] \in ProgramKeys
      /\ Range(rest) \subseteq ProgramKeys /\ \A k \in Range(rest) : Lends(x.message, k)
  BY <1>3, RestsAreLent
<1>10. \A i \in DOMAIN rest : Collectable(after[i - 1], rest[i])
  BY <1>1
<1>11. Settle(x, b, saved)
  BY <1>1
<1> HIDE DEF rest
<1>12. CollectsAll(bank, b, Range(rest))
  BY <1>9, <1>10, CollectEachCollects
<1> HIDE DEF after, b
<1>13. \A k \in saved : Lends(x.message, k)
  BY <1>9
<1> HIDE DEF saved
<1>14. \A k \in Keys : b.lamports[k] # bank.lamports[k] => Lends(x.message, k)
  BY <1>6, <1>9, <1>12 DEF CollectsAll
<1>15. \A k \in Keys \ ProgramKeys : ~ (b.lamports[k] < bank.lamports[k])
  <2>1. \A k \in Keys : b.lamports[k] \in Int /\ bank.lamports[k] \in Int
    BY <1>12 DEF CollectsAll, Sound, Banks
  <2>2. \A k \in Keys \ ProgramKeys : b.lamports[k] >= bank.lamports[k]
    BY <1>12 DEF CollectsAll
  <2>3. QED
    BY <2>1, <2>2
<1>16. Lawful(x, b, saved)
  BY <1>7, <1>8, <1>12, <1>13, <1>14, <1>15 DEF Lawful, CollectsAll
<1>17. QED
  BY <1>11, <1>16 DEF Ended

-----------------------------------------------------------------------------
(* The invariant *)

IndInv == Sound(bank) /\ Affordable(bank) /\ LamportsAreConserved

\* What comes first: nothing is open, and each who pays has what it begins with.
LEMMA InitIsSound ==
  ASSUME Init
  PROVE  IndInv
<1> DEFINE S == Payers \cup Vaults
           bytes == [k \in Keys |-> 0]
           lamports == [k \in Keys |-> IF k \in S THEN Funds ELSE 0]
           kind == [k \in Keys |-> IF k \in ProgramKeys THEN "None" ELSE "Wallet"]
<1>1. bank = [kind |-> kind, bytes |-> bytes, lamports |-> lamports, owed |-> bytes]
  BY DEF Init
<1>2. S \subseteq Keys /\ S \cap ProgramKeys = {}
  BY KeysAssumption, MessagesAssumption DEF Keys
<1>3. bank.kind = kind /\ bank.bytes = bytes /\ bank.lamports = lamports /\ bank.owed = bytes
  BY <1>1
<1>4. /\ kind \in [Keys -> Kinds] /\ bytes \in [Keys -> Nat]
      /\ lamports \in [Keys -> Int]
  BY MessagesAssumption DEF Kinds
<1>5. bank \in Banks
  BY <1>1, <1>4 DEF Banks
<1>6. \A k \in Keys : SoundAt(bank, k)
  BY <1>2, <1>3 DEF SoundAt
<1>7. Affordable(bank)
  BY <1>3, MessagesAssumption DEF Affordable
<1>8. LamportsAreConserved
  <2>1. UNION { LamportsOf(bank, k) : k \in Keys } = S \X (1 .. Funds)
    <3>1. \A k \in S : LamportsOf(bank, k) = { k } \X (1 .. Funds)
      BY <1>2, <1>3 DEF LamportsOf
    <3>2. \A k \in Keys \ S : LamportsOf(bank, k) = {}
      <4>1. \A k \in Keys \ S : bank.lamports[k] = 0
        BY <1>3
      <4>2. 1 .. 0 = {}
        OBVIOUS
      <4>3. QED
        BY <4>1, <4>2 DEF LamportsOf
    <3> HIDE DEF S
    <3>3. QED
      BY <1>2, <3>1, <3>2
  <2>2. IsFiniteSet(S)
    BY <1>2, KeysAssumption, FS_Subset
  <2>3. IsFiniteSet(1 .. Funds) /\ Cardinality(1 .. Funds) = Funds
    BY MessagesAssumption, FS_Interval
  <2> HIDE DEF S
  <2>4. Cardinality(S \X (1 .. Funds)) = Cardinality(S) * Cardinality(1 .. Funds)
    BY <2>2, <2>3, FS_Product
  <2>5. Cardinality(S) \in Nat
    BY <2>2, FS_CardinalityType
  <2>6. Cardinality(S) * Funds = Funds * Cardinality(S)
    BY <2>5, MessagesAssumption
  <2>7. DOMAIN bank.lamports = Keys
    BY <1>3
  <2>8. QED
    BY <2>1, <2>3, <2>4, <2>6, <2>7 DEF LamportsAreConserved, AllLamports, S
<1>9. QED
  BY <1>5, <1>6, <1>7, <1>8 DEF IndInv, Sound

\* Every step is the end of a handler, or a call that is rejected.
LEMMA StepsEnd ==
  ASSUME Sound(bank), Next
  PROVE  Ended \/ (bank' = bank /\ last'.end = "Rejected")
<1>1. CASE CreateAsset
  BY <1>1, CreateAssetEnds
<1>2. CASE CreateCollection
  BY <1>2, CreateCollectionEnds
<1>3. CASE CreateGroup
  BY <1>3, CreateGroupEnds
<1>4. CASE ChangeAsset
  BY <1>4, ChangeAssetEnds
<1>5. CASE ChangeCollection
  BY <1>5, ChangeCollectionEnds
<1>6. CASE ChangeGroup
  BY <1>6, ChangeGroupEnds
<1>7. CASE Transfer
  BY <1>7, TransferEnds
<1>8. CASE Execute
  BY <1>8, ExecuteEnds
<1>9. CASE ReportOfBubblegum
  BY <1>9, ReportEnds
<1>10. CASE BurnAsset
  BY <1>10, BurnAssetEnds
<1>11. CASE BurnCollection
  BY <1>11, BurnCollectionEnds
<1>12. CASE CloseGroup
  BY <1>12, CloseGroupEnds
<1>13. CASE CollectFees
  BY <1>13, CollectFeesEnds
<1>14. CASE Reject
  BY <1>14 DEF Reject, Ends
<1>15. QED
  BY <1>1, <1>2, <1>3, <1>4, <1>5, <1>6, <1>7, <1>8, <1>9, <1>10, <1>11, <1>12, <1>13,
     <1>14 DEF Next

\* A handler is never refused for want of a privilege.
LEMMA HandlersAreDone ==
  ASSUME NEW x, NEW b, NEW saved, Settle(x, b, saved), Lawful(x, b, saved)
  PROVE  /\ bank' = b /\ Affordable(b) /\ last'.exchange = x /\ last'.end = "Done"
<1>1. Privileged(x.read, x.message, b, saved)
  BY LawfulIsPrivileged
<1>2. QED
  BY <1>1, SettleEnds

LEMMA StepsAreSound ==
  ASSUME IndInv, [Next]_vars
  PROVE  IndInv'
<1>1. CASE bank' = bank
  <2>1. IndInv' = IndInv
    BY <1>1 DEF IndInv, Sound, SoundAt, Affordable, LamportsAreConserved, AllLamports,
       LamportsOf, Banks
  <2>2. QED
    BY <2>1
<1>2. CASE Ended
  <2>1. PICK x, b, saved : Settle(x, b, saved) /\ Lawful(x, b, saved)
    BY <1>2 DEF Ended
  <2>2. bank' = b /\ Affordable(b)
    BY <2>1, HandlersAreDone
  <2>3. Sound(b) /\ AllLamports(b) = AllLamports(bank)
    BY <2>1, <2>2 DEF Lawful, IndInv
  <2>4. Sound(bank)' /\ Affordable(bank)' /\ AllLamports(bank)' = AllLamports(b)
    BY <2>2, <2>3 DEF Sound, SoundAt, Affordable, AllLamports, LamportsOf, Banks
  <2>5. QED
    BY <2>3, <2>4 DEF IndInv, LamportsAreConserved
<1>3. QED
  BY <1>1, <1>2, StepsEnd DEF IndInv, vars

LEMMA Invariance ==
  Spec => []IndInv
<1>1. Init => IndInv
  BY InitIsSound
<1>2. IndInv /\ [Next]_vars => IndInv'
  BY StepsAreSound
<1>3. QED
  BY <1>1, <1>2, PTL DEF Spec

\* Whatever was grown, shrunk, closed and collected, an account holds the rent of
\* its bytes and the fees left on it: resize_or_reallocate_account moves the
\* difference of the rents, close_program_account all but the rent of a byte and
\* the fees, collect the fees alone.
THEOREM AccountsHoldRentAndFees ==
  Spec => []RentAndFeesAreThere
<1>1. IndInv => RentAndFeesAreThere
  <2> SUFFICES ASSUME IndInv
               PROVE  RentAndFeesAreThere
    OBVIOUS
  <2>1. bank \in Banks /\ \A k \in Keys : SoundAt(bank, k)
    BY DEF IndInv, Sound
  <2>2. bank.kind \in [Keys -> Kinds] /\ bank.owed \in [Keys -> Nat]
    BY <2>1 DEF Banks
  <2>3. bank.lamports \in [Keys -> Nat]
    BY <2>1, AffordableType DEF IndInv
  <2>4. ASSUME NEW k \in Keys
        PROVE  CASE bank.kind[k] \in { "None", "Wallet" } -> bank.bytes[k] = 0
                 [] bank.kind[k] \in { "Uninitialized", "Released" } -> bank.bytes[k] = 1
                 [] OTHER -> bank.bytes[k] \in Sizes
    <3>1. bank.kind[k] \in Kinds
      BY <2>2
    <3>2. QED
      BY <2>1, <3>1 DEF SoundAt, Kinds
  <2>5. \A k \in ProgramKeys : bank.kind[k] # "None" =>
           bank.lamports[k] = Rent(bank.bytes[k]) + bank.owed[k]
    BY <2>1, ProgramKeysAreKeys DEF SoundAt
  <2>6. QED
    BY <2>2, <2>3, <2>4, <2>5 DEF RentAndFeesAreThere
<1>2. QED
  BY <1>1, Invariance, PTL

\* No handler makes or loses a lamport, the odd one of a collected fee neither:
\* of whatever many accounts and however much is held at first.
THEOREM NoLamportIsMadeOrLost ==
  Spec => []LamportsAreConserved
<1>1. IndInv => LamportsAreConserved
  BY DEF IndInv
<1>2. QED
  BY <1>1, Invariance, PTL

\* What a row of the client asks its caller to sign and to lend is enough for all
\* that the handler asks, saves and moves: for each of the 42 instructions, with
\* any optional accounts left out.
THEOREM ClientAsksForEnough ==
  Spec => PrivilegesSuffice
<1>1. ASSUME IndInv, Next
      PROVE  last'.end # "Unprivileged"
  <2>1. CASE Ended
    <3>1. PICK x, b, saved : Settle(x, b, saved) /\ Lawful(x, b, saved)
      BY <2>1 DEF Ended
    <3>2. QED
      BY <3>1, HandlersAreDone
  <2>2. QED
    BY <1>1, <2>1, StepsEnd DEF IndInv
<1>2. IndInv /\ [Next]_vars => [last'.end # "Unprivileged"]_vars
  BY <1>1
<1>3. QED
  BY <1>2, Invariance, PTL DEF Spec, PrivilegesSuffice

\* Nobody pays but the payer of the call, who signed it, or the vault of the asset
\* that is executed, for which an authority signed.
THEOREM OthersDoNotPay ==
  Spec => OnlyPayersPay
<1> DEFINE Paid(k) ==
             LET call == last'.exchange.call
                 message == last'.exchange.message
                 At(i, f) == ClientInstructions[call.op].metas[i].field = f
             IN \/ /\ k \in Payers /\ Signs(message, k)
                   /\ \E i \in DOMAIN call.keys : At(i, "payer") /\ call.keys[i] = k
                \/ /\ k \in Vaults /\ call.op = "ExecuteV1"
                   /\ \E i \in DOMAIN call.keys :
                        At(i, "authority") /\ call.keys[i] # "None" /\ Signs(message, call.keys[i])
           OnlyPaid == \A k \in Keys \ ProgramKeys : bank'.lamports[k] < bank.lamports[k] => Paid(k)
<1>1. ASSUME IndInv, Next, NEW k \in Keys \ ProgramKeys, bank'.lamports[k] < bank.lamports[k]
      PROVE  Paid(k)
  <2>1. CASE Ended
    <3>1. PICK x, b, saved : Settle(x, b, saved) /\ Lawful(x, b, saved)
      BY <2>1 DEF Ended
    <3>2. bank' = b /\ last'.exchange = x
      BY <3>1, HandlersAreDone
    <3>3. Pays(x, k)
      BY <1>1, <3>1, <3>2 DEF Lawful
    <3>4. QED
      BY <3>2, <3>3 DEF Pays
  <2>2. CASE bank' = bank
    <3>1. bank.lamports[k] \in Int
      BY <1>1 DEF IndInv, Sound, Banks
    <3>2. QED
      BY <1>1, <2>2, <3>1
  <2>3. QED
    BY <1>1, <2>1, <2>2, StepsEnd DEF IndInv
<1>2. IndInv /\ [Next]_vars => [OnlyPaid]_vars
  <2>1. IndInv /\ Next => OnlyPaid
    BY <1>1
  <2>2. QED
    BY <2>1
<1>3. QED
  BY <1>2, Invariance, PTL DEF Spec, OnlyPayersPay

=============================================================================
