----------------------- MODULE AccountLayoutProperties -----------------------
(***************************************************************************)
(* What the instructions, each with offsets of its own, keep true of the   *)
(* bytes of an account.                                                    *)
(***************************************************************************)
EXTENDS AccountLayout

(* Core, header and registry are found where load looks for them: the core *)
(* at 0, the header behind it, the registry where the header says.  There  *)
(* is one entry for each key and its lengths are lengths that it may have. *)
LayoutParses ==
  /\ account.len \in Nat /\ slack \in Nat
  /\ DOMAIN account.bytes = 0 .. account.len - 1
  /\ CoreLen(account) \in CoreLens
  /\ Holds(account, Core(CoreLen(account)), 0)
  /\ HasMeta(account) =>
       /\ Holds(account, Header(RegistryAt(account)), CoreLen(account))
       /\ RegistryAt(account) >= CoreLen(account) + HeaderLen
       /\ Holds(account, Registry(Records(account)), RegistryAt(account))
       /\ Records(account) \in [Keys -> Record \cup { NoRecord }]

(* The plugins and their data fill the space between header and registry:  *)
(* every byte there is a plugin's or its data's, no removal leaves any     *)
(* behind.  And the account ends with its registry, but for what transfers *)
(* left (they shorten records and keep the length).                        *)
NothingIsLeaked ==
  HasMeta(account) =>
    /\ \A i \in CoreLen(account) + HeaderLen .. RegistryAt(account) - 1 :
         \E k \in Keys :
           /\ Records(account)[k] # NoRecord
           /\ LET rec == Records(account)[k]
              IN i \in rec.at .. rec.at + Load(account, rec.at).len + rec.dataLen - 1
    /\ account.len =
         RegistryAt(account) + RegistryLen(Records(account)) + slack

-----------------------------------------------------------------------------
(* What a reader of the account gets *)

NoEntry == [ plugin |-> 0, record |-> 0, data |-> 0 ]

Entries == [ plugin : PluginLens, record : RecordLens, data : DataLens ]

\* The length of the value of a kind and a key that stands at an offset.
Found(kind, k, at) ==
  LET v == Load(account, at)
  IN IF v.kind = kind /\ v.key = k /\ Holds(account, v, at) THEN v.len ELSE 0

\* Through header, registry and record.
Entry(k) ==
  IF ~Has(k) THEN NoEntry
  ELSE LET rec == Records(account)[k]
       IN [ plugin |-> Found("plugin", k, rec.at),
            record |-> rec.len,
            data   |-> IF rec.dataLen = 0 THEN 0
                       ELSE Found("data", k, rec.dataAt) ]

Store == INSTANCE PluginStore WITH
  Managed <- OwnerManaged, OwnerRecord <- ShortRecord,
  core <- CoreLen(account), store <- [k \in Keys |-> Entry(k)]

(* To a reader the account is a store of plugins by key: an instruction    *)
(* changes the one it names, in the way it says, and whatever else it      *)
(* moves reads as before.                                                  *)
ReadsAsAStore == Store!Spec

=============================================================================
