----------------------------- MODULE PluginStore -----------------------------
(***************************************************************************)
(* What the bytes of an account stand for: a core and, by key, plugins.    *)
(* An instruction touches the one plugin it names, or the core, and leaves *)
(* everything else as it was; only a transfer goes through all records,    *)
(* and then it touches nothing but authorities.                            *)
(*                                                                         *)
(* This is the abstract specification of an account; AccountLayout keeps   *)
(* the same things at offsets of one byte array.                           *)
(***************************************************************************)
EXTENDS Naturals

CONSTANTS
  Keys,      \* plugin types and keys of external adapters
  Managed,   \* the keys whose authority a transfer resets
  CoreLens,  \* what the core may be: its length stands for it
  Entries,   \* what a plugin may be, with its record and its data
  OwnerRecord, \* the record of a plugin whose authority is the owner
  NoEntry

VARIABLES
  core,      \* the core
  store      \* the plugins, by key

Init == core \in CoreLens /\ store = [k \in Keys |-> NoEntry]

UpdateCore == core' \in CoreLens /\ UNCHANGED store

Add(k) ==
  /\ store[k] = NoEntry
  /\ \E e \in Entries : store' = [store EXCEPT ![k] = e]
  /\ UNCHANGED core

Remove(k) ==
  /\ store[k] # NoEntry
  /\ store' = [store EXCEPT ![k] = NoEntry]
  /\ UNCHANGED core

\* The plugin or its record, but not its data.
Update(k) ==
  /\ store[k] # NoEntry
  /\ \E e \in Entries :
       /\ e.data = store[k].data
       /\ store' = [store EXCEPT ![k] = e]
  /\ UNCHANGED core

\* The data, but neither the plugin nor its record.
Write(k) ==
  /\ store[k] # NoEntry
  /\ \E e \in Entries :
       /\ e.plugin = store[k].plugin /\ e.record = store[k].record
       /\ store' = [store EXCEPT ![k] = e]
  /\ UNCHANGED core

Transfer ==
  /\ store' = [k \in Keys |->
       IF k \in Managed /\ store[k] # NoEntry
       THEN [store[k] EXCEPT !.record = OwnerRecord] ELSE store[k]]
  /\ UNCHANGED core

Next ==
  \/ UpdateCore
  \/ \E k \in Keys : Add(k) \/ Remove(k) \/ Update(k) \/ Write(k)
  \/ Transfer

Spec == Init /\ [][Next]_<< core, store >>

=============================================================================
