---------------------------- MODULE AccountLayout ----------------------------
(***************************************************************************)
(* The bytes of an asset or a collection.                                  *)
(*                                                                         *)
(*   core | header | plugins and their data, in order of birth | registry  *)
(*                                                                         *)
(* The header holds the offset of the registry, and each record of the     *)
(* registry the offset of its plugin and, for adapters with data, of the   *)
(* data behind it.  So whatever changes its length moves all that follows  *)
(* and the offsets that point there, and every instruction does this by    *)
(* code of its own.  This module is about lengths and offsets; who may     *)
(* call what is the subject of MplCore.                                    *)
(*                                                                         *)
(* A value is written down as the cells <<value, 0>>, <<value, 1>>, ... so *)
(* that a byte tells whose byte it is.  What a value says is abstracted to *)
(* the length of its serialization.                                        *)
(***************************************************************************)
EXTENDS Integers, FiniteSets

CONSTANTS
  Plugins,       \* types of internal plugins
  Groups,        \* the one among them that is saved by code of its own
  OwnerManaged,  \* those whose authority a transfer resets
  Adapters,      \* keys of external plugin adapters
  DataAdapters,  \* those that are followed by data: AppData, DataSection
  CoreLens, PluginLens, DataLens,  \* lengths of the core, a plugin, data
  RecordLens,    \* lengths of a registry record
  ShortRecord,   \* the length of one whose authority is not an address
  HeaderLen,     \* the length of a header
  RegistryBase,  \* the length of an empty registry
  NoRecord,
  MaxLen         \* bound: the length of an account

Keys == Plugins \cup Adapters

ASSUME LayoutKeysAssumption ==
  /\ Plugins \cap Adapters = {} /\ IsFiniteSet(Keys)
  /\ DataAdapters \subseteq Adapters
  /\ Groups \in Plugins /\ OwnerManaged \subseteq Plugins \ { Groups }

ASSUME LengthsAssumption ==
  /\ CoreLens \cup PluginLens \cup RecordLens \subseteq Nat \ { 0 }
  /\ DataLens \subseteq Nat /\ 0 \in DataLens
  /\ HeaderLen \in Nat \ { 0 } /\ RegistryBase \in Nat \ { 0 }
  /\ ShortRecord \in RecordLens /\ \A n \in RecordLens : ShortRecord <= n
  /\ IsFiniteSet(RecordLens) /\ MaxLen \in Nat

\* A record: where the plugin is, how long the record itself is (its authority
\* and its lifecycle checks), and where the data is, 0 if there cannot be any.
Record == [ at : Nat, len : RecordLens, dataAt : Nat, dataLen : Nat ]

ASSUME NoRecordAssumption == NoRecord \notin Record

VARIABLES
  account,  \* the account: its length and its bytes
  slack     \* history: the bytes that transfers left at the end

-----------------------------------------------------------------------------
(* Values and how long they are *)

Core(n) == [kind |-> "core", len |-> n]

Header(at) == [kind |-> "header", at |-> at]

Plugin(k, n) == [kind |-> "plugin", key |-> k, len |-> n]

Data(k, n) == [kind |-> "data", key |-> k, len |-> n]

Registry(recs) == [kind |-> "registry", records |-> recs]

\* The lengths of the records add up: as many as there are pairs.
RecordBytes(recs) ==
  { x \in Keys \X UNION { 1 .. n : n \in RecordLens } :
      recs[x[1]] # NoRecord /\ x[2] <= recs[x[1]].len }

RegistryLen(recs) == RegistryBase + Cardinality(RecordBytes(recs))

LenOf(v) ==
  CASE v.kind = "header" -> HeaderLen
    [] v.kind = "registry" -> RegistryLen(v.records)
    [] OTHER -> v.len

-----------------------------------------------------------------------------
(* Bytes *)

Zero == << [kind |-> "zero", len |-> 0], 0 >>

\* resize_or_reallocate_account: new bytes are zero.
Resize(acc, n) ==
  [ len |-> n,
    bytes |-> [i \in 0 .. n - 1 |-> IF i < acc.len THEN acc.bytes[i] ELSE Zero] ]

\* SolanaAccount::save and sol_memcpy.  What would not fit fails the
\* instruction; here it is cut off, and the value does not hold.
Save(acc, v, at) ==
  [ len |-> acc.len,
    bytes |-> [i \in 0 .. acc.len - 1 |->
                 IF at <= i /\ i < at + LenOf(v) THEN << v, i - at >>
                 ELSE acc.bytes[i]] ]

\* sol_memmove of n bytes.
Move(acc, to, from, n) ==
  [ len |-> acc.len,
    bytes |-> [i \in 0 .. acc.len - 1 |->
                 IF to <= i /\ i < to + n THEN acc.bytes[i - to + from]
                 ELSE acc.bytes[i]] ]

\* The value v stands, whole, at offset at.
Holds(acc, v, at) ==
  /\ at + LenOf(v) <= acc.len
  /\ \A i \in 0 .. LenOf(v) - 1 : acc.bytes[at + i] = << v, i >>

\* SolanaAccount::load: the first byte tells what is read.
Load(acc, at) == acc.bytes[at][1]

CoreLen(acc) == Load(acc, 0).len

HasMeta(acc) == acc.len # CoreLen(acc)

RegistryAt(acc) == Load(acc, CoreLen(acc)).at

Records(acc) == Load(acc, RegistryAt(acc)).records

NoRecords == [k \in Keys |-> NoRecord]

\* create_meta_idempotent.
WithMeta(acc) ==
  LET at == CoreLen(acc) + HeaderLen
      grown == Resize(acc, at + RegistryBase)
  IN IF HasMeta(acc) THEN acc
     ELSE Save(Save(grown, Header(at), CoreLen(acc)), Registry(NoRecords), at)

\* Mutant of BumpOffsets: the data of an adapter stays where it was.
BumpOffsetsNotData(recs, offset, diff) ==
  [k \in Keys |->
     IF recs[k] = NoRecord \/ recs[k].at <= offset THEN recs[k]
     ELSE [recs[k] EXCEPT !.at = @ + diff]]

\* The records after those behind an offset moved by diff.
BumpOffsets(recs, offset, diff) ==
  [k \in Keys |->
     IF recs[k] = NoRecord \/ recs[k].at <= offset THEN recs[k]
     ELSE [recs[k] EXCEPT
             !.at = @ + diff,
             !.dataAt = IF k \in DataAdapters /\ @ > offset THEN @ + diff ELSE @]]

Has(k) == HasMeta(account) /\ Records(account)[k] # NoRecord

-----------------------------------------------------------------------------
(* A plugin is added *)

\* Mutant of InitializePlugin: no room is made for the record.
InitializePluginUnrecorded(acc, k, n, len) ==
  LET at == RegistryAt(acc)
      rec == [at |-> at, len |-> len, dataAt |-> 0, dataLen |-> 0]
      headed == Save(Resize(acc, acc.len + n), Header(at + n), CoreLen(acc))
  IN Save(Save(headed, Plugin(k, n), at),
          Registry([Records(acc) EXCEPT ![k] = rec]), at + n)

\* initialize_plugin.
InitializePlugin(acc, k, n, len) ==
  LET at == RegistryAt(acc)
      rec == [at |-> at, len |-> len, dataAt |-> 0, dataLen |-> 0]
      grown == Resize(acc, acc.len + n + len)
      headed == Save(grown, Header(at + n), CoreLen(acc))
  IN Save(Save(headed, Plugin(k, n), at),
          Registry([Records(acc) EXCEPT ![k] = rec]), at + n)

\* initialize_external_plugin_adapter, with m bytes of data appended.
InitializeAdapter(acc, k, n, len, m) ==
  LET at == RegistryAt(acc)
      rec == [at |-> at, len |-> len,
              dataAt |-> IF k \in DataAdapters THEN at + n ELSE 0, dataLen |-> m]
      grown == Resize(acc, acc.len + n + len + m)
      headed == Save(grown, Header(at + n + m), CoreLen(acc))
      filled == Save(Save(headed, Plugin(k, n), at), Data(k, m), at + n)
  IN Save(filled, Registry([Records(acc) EXCEPT ![k] = rec]), at + n + m)

Becomes(acc) == acc.len <= MaxLen /\ account' = acc

AddPlugin(k, n, len) ==
  /\ ~Has(k)
  /\ Becomes(InitializePlugin(WithMeta(account), k, n, len))
  /\ UNCHANGED slack

AddAdapter(k, n, len) ==
  /\ ~Has(k)
  /\ Becomes(InitializeAdapter(WithMeta(account), k, n, len, 0))
  /\ UNCHANGED slack

\* Data that is linked to an adapter of the collection makes its own section.
AddSection(k, n, len, m) ==
  /\ k \in DataAdapters /\ ~Has(k)
  /\ Becomes(InitializeAdapter(WithMeta(account), k, n, len, m))
  /\ UNCHANGED slack

-----------------------------------------------------------------------------
(* A plugin changes *)

\* process_update_plugin.
UpdatePlugin(k, n) ==
  /\ k # Groups /\ Has(k)
  /\ LET recs == Records(account)
         at == recs[k].at
         registryAt == RegistryAt(account)
         old == Load(account, at).len
         diff == n - old
         grown == IF diff > 0 THEN Resize(account, account.len + diff) ELSE account
         moved == Move(grown, at + n, at + old, registryAt - (at + old))
         cut == IF diff < 0 THEN Resize(moved, account.len + diff) ELSE moved
         headed == Save(cut, Header(registryAt + diff), CoreLen(account))
     IN Becomes(Save(Save(headed, Registry(BumpOffsets(recs, at, diff)),
                          registryAt + diff),
                     Plugin(k, n), at))
  /\ UNCHANGED slack

\* save_updated_groups_plugin.
SaveGroupsPlugin(n) ==
  /\ Has(Groups)
  /\ LET recs == Records(account)
         at == recs[Groups].at
         registryAt == RegistryAt(account)
         old == Load(account, at).len
         diff == n - old
         shift(acc) == Move(acc, at + n, at + old, registryAt - (at + old))
         early == IF diff < 0 THEN shift(account) ELSE account
         sized == IF diff # 0 THEN Resize(early, account.len + diff) ELSE early
         late == IF diff > 0 THEN shift(sized) ELSE sized
         headed == Save(late, Header(registryAt + diff), CoreLen(account))
     IN Becomes(Save(Save(headed, Registry(BumpOffsets(recs, at, diff)),
                          registryAt + diff),
                     Plugin(Groups, n), at))
  /\ UNCHANGED slack

\* process_update_external_plugin_adapter: the record may change its length
\* too.  Only adapters without data change theirs.
UpdateAdapter(k, n, len) ==
  /\ Has(k)
  /\ LET recs == [Records(account) EXCEPT ![k].len = len]
         at == recs[k].at
         registryAt == RegistryAt(account)
         old == Load(account, at).len
         diff == n - old
         size == account.len + diff + len - Records(account)[k].len
         shift(acc) == Move(acc, at + n, at + old, registryAt - (at + old))
         early == IF diff < 0 THEN shift(account) ELSE account
         sized == Resize(early, size)
         late == IF diff > 0 THEN shift(sized) ELSE sized
         headed == Save(late, Header(registryAt + diff), CoreLen(account))
     IN /\ k \in DataAdapters => diff = 0 /\ len = Records(account)[k].len
        /\ Becomes(Save(Save(headed, Registry(BumpOffsets(recs, at, diff)),
                             registryAt + diff),
                        Plugin(k, n), at))
  /\ UNCHANGED slack

\* Mutant of DataEnd: the old data is taken to be empty.
DataEndEmpty(rec) == rec.dataAt

\* The end of the data of a record, where the next plugin starts.
DataEnd(rec) == rec.dataAt + rec.dataLen

\* update_external_plugin_adapter_data: all behind the data moves, the
\* registry too.
WriteData(k, m) ==
  /\ k \in DataAdapters /\ Has(k)
  /\ LET recs == Records(account)
         rec == recs[k]
         diff == m - rec.dataLen
         registryAt == RegistryAt(account)
         grown == IF diff > 0 THEN Resize(account, account.len + diff) ELSE account
         moved == Move(grown, DataEnd(rec) + diff, DataEnd(rec),
                       account.len - DataEnd(rec))
         cut == IF diff < 0 THEN Resize(moved, account.len + diff) ELSE moved
         written == Save(cut, Data(k, m), rec.dataAt)
         new == [BumpOffsets(recs, rec.at, diff) EXCEPT ![k].dataLen = m]
     IN Becomes(Save(Save(written, Registry(new), registryAt + diff),
                     Header(registryAt + diff), CoreLen(account)))
  /\ UNCHANGED slack

\* process_update: the core, of an account with plugins or without.
UpdateCore(n) ==
  /\ LET recs == Records(account)
         old == CoreLen(account)
         diff == n - old
         registryAt == RegistryAt(account)
         first == old + HeaderLen
         grown == IF diff > 0 THEN Resize(account, account.len + diff) ELSE account
         moved == Move(grown, first + diff, first, registryAt - first)
         cut == IF diff < 0 THEN Resize(moved, account.len + diff) ELSE moved
         headed == Save(cut, Header(registryAt + diff), n)
         saved == Save(headed, Registry(BumpOffsets(recs, old, diff)),
                       registryAt + diff)
     IN Becomes(Save(IF HasMeta(account) THEN saved ELSE Resize(account, n),
                     Core(n), 0))
  /\ UNCHANGED slack

-----------------------------------------------------------------------------
(* Authorities: the registry alone changes its length *)

\* approve_authority_on_plugin, revoke_authority_on_plugin.
SetAuthority(k, len) ==
  /\ k # Groups /\ Has(k)
  /\ LET recs == Records(account)
         sized == Resize(account, account.len + len - recs[k].len)
     IN Becomes(Save(sized, Registry([recs EXCEPT ![k].len = len]),
                     RegistryAt(account)))
  /\ UNCHANGED slack

\* Every owner-managed record gets the authority Owner.
ResetRecords(recs) ==
  [k \in Keys |->
     IF k \in OwnerManaged /\ recs[k] # NoRecord
     THEN [recs[k] EXCEPT !.len = ShortRecord] ELSE recs[k]]

\* transfer: the account keeps its length, so the bytes saved are left over.
Transfer ==
  /\ HasMeta(account)
  /\ LET recs == Records(account)
     IN /\ Becomes(Save(account, Registry(ResetRecords(recs)), RegistryAt(account)))
        /\ slack' = slack + RegistryLen(recs) - RegistryLen(ResetRecords(recs))

-----------------------------------------------------------------------------
(* A plugin is removed *)

\* Mutant of Extent: the data stays when its adapter is removed.
ExtentWithoutData(acc, rec) == Load(acc, rec.at).len

\* The bytes of a plugin and of the data behind it.
Extent(acc, rec) == Load(acc, rec.at).len + rec.dataLen

\* delete_plugin, and delete_external_plugin_adapter, which takes the data of
\* the adapter with it.
Delete(k) ==
  /\ k # Groups /\ Has(k)
  /\ LET rec == Records(account)[k]
         registryAt == RegistryAt(account)
         gone == Extent(account, rec)
         next == rec.at + gone
         moved == Move(account, rec.at, next, registryAt - next)
         headed == Save(moved, Header(registryAt - gone), CoreLen(account))
         recs == BumpOffsets([Records(account) EXCEPT ![k] = NoRecord], rec.at, -gone)
         saved == Save(headed, Registry(recs), registryAt - gone)
     IN Becomes(Resize(saved, account.len - rec.len - gone))
  /\ UNCHANGED slack

-----------------------------------------------------------------------------

\* A new account is its core; a creation with plugins is a creation and the
\* additions that follow, in one instruction.
Init ==
  /\ \E n \in CoreLens : account = Save(Resize([len |-> 0, bytes |-> << >>], n), Core(n), 0)
  /\ slack = 0

Next ==
  \/ \E k \in Plugins, n \in PluginLens, len \in RecordLens : AddPlugin(k, n, len)
  \/ \E k \in Adapters, n \in PluginLens, len \in RecordLens :
        \/ AddAdapter(k, n, len)
        \/ UpdateAdapter(k, n, len)
        \/ \E m \in DataLens : AddSection(k, n, len, m)
  \/ \E k \in Plugins, n \in PluginLens : UpdatePlugin(k, n)
  \/ \E n \in PluginLens : SaveGroupsPlugin(n)
  \/ \E k \in Adapters, m \in DataLens : WriteData(k, m)
  \/ \E n \in CoreLens : UpdateCore(n)
  \/ \E k \in Plugins, len \in RecordLens : SetAuthority(k, len)
  \/ Transfer
  \/ \E k \in Keys : Delete(k)

vars == << account, slack >>

Spec == Init /\ [][Next]_vars

=============================================================================
