---------------------------- MODULE AccountReaders ----------------------------
(***************************************************************************)
(* How the Rust client reads the bytes that the program wrote.             *)
(*                                                                         *)
(* The program reads one plugin at a time, through its record.  A client   *)
(* does so too (fetch_plugin), but it also takes an account apart as a     *)
(* whole (Asset, Collection), and an indexer (IndexableAsset) goes by the  *)
(* order of the offsets: what it does not find in a record, where a plugin *)
(* ends, it takes from the record that follows.  And a client may be older *)
(* than the program: it then meets types that it does not know.            *)
(***************************************************************************)
EXTENDS AccountLayoutProperties

CONSTANT Clients   \* clients: each is the set of the types that it knows

ASSUME ClientsAssumption == Clients \subseteq SUBSET Keys

\* The bytes of a slice, from one offset up to another.
Slice(from, to) == [i \in 0 .. to - from - 1 |-> account.bytes[from + i]]

\* The bytes of a value.
Serialized(v) == [i \in 0 .. LenOf(v) - 1 |-> << v, i >>]

Listed == IF HasMeta(account) THEN { k \in Keys : Records(account)[k] # NoRecord } ELSE {}

RecordOf(k) == Records(account)[k]

\* borsh: a value is read from where it starts; what follows is not looked at.
Deserialized(kind, at) ==
  LET v == Load(account, at)
  IN IF v.kind = kind /\ Holds(account, v, at) THEN v ELSE Zero[1]

-----------------------------------------------------------------------------
(* One plugin *)

\* fetch_plugin, fetch_wrapped_external_plugin_adapter: the record and what
\* stands at its offset.
FetchPlugin(k) == << RecordOf(k).len, Deserialized("plugin", RecordOf(k).at) >>

\* fetch_external_plugin_adapter_data_info: where to slice the data.
FetchDataInfo(k) == << RecordOf(k).dataAt, RecordOf(k).dataLen >>

-----------------------------------------------------------------------------
(* The whole account *)

\* registry_records_to_plugin_list: the plugins that the client knows.
InternalList(known) ==
  [ k \in Listed \cap Plugins \cap known |-> Deserialized("plugin", RecordOf(k).at) ]

\* registry_records_to_external_plugin_adapter_list: the adapters it knows, and
\* where the data is of those that have some.
AdapterList(known) ==
  [ k \in Listed \cap Adapters \cap known |->
      << Deserialized("plugin", RecordOf(k).at),
         IF k \in DataAdapters THEN FetchDataInfo(k) ELSE << 0, 0 >> >> ]

\* Asset::deserialize, Collection::deserialize.
ClientAsset(known) ==
  [ plugin_list |-> InternalList(known),
    external_plugin_adapter_list |-> AdapterList(known) ]

\* IndexableAsset::fetch sorts all records, internal and external, by offset.
Later(k) == { j \in Listed : RecordOf(j).at > RecordOf(k).at }

\* Mutant of SliceEnd: data belongs to the adapter before it.
SliceEndAtNext(k) ==
  IF Later(k) = {} THEN RegistryAt(account)
  ELSE CHOOSE n \in { RecordOf(j).at : j \in Later(k) } :
         \A j \in Later(k) : n <= RecordOf(j).at

\* Where the slice of a plugin ends: at its data, or at the next plugin, or at
\* the registry.
SliceEnd(k) ==
  IF k \in DataAdapters THEN RecordOf(k).dataAt
  ELSE IF Later(k) = {} THEN RegistryAt(account)
  ELSE CHOOSE n \in { RecordOf(j).at : j \in Later(k) } :
         \A j \in Later(k) : n <= RecordOf(j).at

\* slice_external_plugin_data.
DataSlice(k) ==
  IF k \in DataAdapters
  THEN Slice(RecordOf(k).dataAt, RecordOf(k).dataAt + RecordOf(k).dataLen)
  ELSE << >>

\* ProcessedPlugin::from_data and that of adapters: a known plugin is
\* deserialized from its slice, an unknown one is kept as the bytes of it.
Processed(known, k) ==
  LET v == Deserialized("plugin", RecordOf(k).at)
      slice == Slice(RecordOf(k).at, SliceEnd(k))
  IN IF k \notin known THEN slice
     ELSE IF LenOf(v) <= SliceEnd(k) - RecordOf(k).at THEN Serialized(v)
     ELSE << >>

\* IndexableAsset::fetch.
IndexableAsset(known) ==
  [ k \in Listed |-> [ plugin |-> Processed(known, k), data |-> DataSlice(k) ] ]

-----------------------------------------------------------------------------
(* What the readers get *)

(* Whatever was added, grown, shrunk, written or removed around them, a    *)
(* plugin stands whole where its record says, and its data where a client  *)
(* is told to slice it: the bumped offsets and the moved bytes agree in    *)
(* every instruction, and reading one plugin through its record gives the  *)
(* same as taking the whole account apart.                                 *)
ClientsReadWhatTheProgramReads ==
  /\ \A k \in Keys : k \in Listed <=> Entry(k) # NoEntry
  /\ \A k \in Listed :
       FetchPlugin(k) = << Entry(k).record, Plugin(k, Entry(k).plugin) >>
  /\ \A known \in Clients :
       LET asset == ClientAsset(known)
       IN /\ \A k \in DOMAIN asset.plugin_list :
               asset.plugin_list[k] = Plugin(k, Entry(k).plugin)
          /\ \A k \in DOMAIN asset.external_plugin_adapter_list :
               LET adapter == asset.external_plugin_adapter_list[k]
                   at == adapter[2][1]
                   n == adapter[2][2]
               IN /\ adapter[1] = Plugin(k, Entry(k).plugin)
                  /\ n = Entry(k).data
                  /\ at + n <= account.len
                  /\ Slice(at, at + n) = Serialized(Data(k, n))

(* An indexer, that knows where plugins start but not where they end, cuts *)
(* the account into exactly the plugins and the data there are: even of a  *)
(* plugin too new for it, it keeps neither a byte too many nor too few.    *)
IndexersCutExactly ==
  \A known \in Clients, k \in Listed :
    /\ IndexableAsset(known)[k].plugin = Serialized(Plugin(k, Entry(k).plugin))
    /\ IndexableAsset(known)[k].data = Serialized(Data(k, Entry(k).data))

=============================================================================
