------------------------- MODULE AccountLayoutProofs -------------------------
(***************************************************************************)
(* Theorems about the bytes of an account, for any number of plugins and   *)
(* of bytes.                                                               *)
(*                                                                         *)
(* What an account must be for its readers is LayoutInv: either it is a    *)
(* bare core, or core, header and registry stand where they are looked for *)
(* and the plugins, each with its data behind it, tile the bytes between.  *)
(* LayoutParses and NothingIsLeaked do not say that no two plugins         *)
(* overlap, and without that no move of bytes could be shown to keep them. *)
(*                                                                         *)
(* The argument goes up in four steps: what Resize, Save and Move do to a  *)
(* range of bytes (Shifted); what a shift of the bytes behind one offset,  *)
(* with the records bumped alike, does to plugins that tile (Rearranged);  *)
(* each instruction as such a shift with three saves (the lemmas named     *)
(* ...Turns); and from them the theorems.                                  *)
(***************************************************************************)
EXTENDS AccountReaders, FiniteSetTheorems, TLAPS

-----------------------------------------------------------------------------
(* The length of a registry *)

\* Registries as the program writes them.
Recs == [Keys -> Record \cup { NoRecord }]

\* The bytes that a registry gives to the record of a key.
LenAt(recs, k) == IF recs[k] = NoRecord THEN 0 ELSE recs[k].len

\* The bytes of the record of a key, as pairs.
Cells(recs, k) == { k } \X (1 .. LenAt(recs, k))

LEMMA LenAtType ==
  ASSUME NEW recs \in Recs, NEW k \in Keys
  PROVE  /\ LenAt(recs, k) \in Nat
         /\ recs[k] # NoRecord => LenAt(recs, k) = recs[k].len /\ recs[k].len \in RecordLens
  BY LengthsAssumption, NoRecordAssumption DEF Recs, Record, LenAt

LEMMA RecordBytesFinite ==
  ASSUME NEW recs \in Recs
  PROVE  IsFiniteSet(RecordBytes(recs)) /\ Cardinality(RecordBytes(recs)) \in Nat
<1> DEFINE B == UNION { 1 .. n : n \in RecordLens }
<1>1. IsFiniteSet({ 1 .. n : n \in RecordLens })
  <2> DEFINE f == [n \in RecordLens |-> 1 .. n]
             T == { 1 .. n : n \in RecordLens }
  <2>1. f \in Surjection(RecordLens, T)
    BY DEF Surjection
  <2> HIDE DEF f, T
  <2>2. IsFiniteSet(T)
    BY <2>1, LengthsAssumption, FS_Surjection
  <2> QED
    BY <2>2 DEF T
<1>2. \A T \in { 1 .. n : n \in RecordLens } : IsFiniteSet(T)
  BY LengthsAssumption, FS_Interval
<1>3. IsFiniteSet(B)
  BY <1>1, <1>2, FS_UNION
<1>4. IsFiniteSet(Keys \X B)
  BY <1>3, LayoutKeysAssumption, FS_Product
<1>5. RecordBytes(recs) \subseteq Keys \X B
  BY DEF RecordBytes
<1> QED
  BY <1>4, <1>5, FS_Subset, FS_CardinalityType

\* The bytes of a registry are those of its records.
LEMMA RecordBytesAre ==
  ASSUME NEW recs \in Recs, NEW k \in Keys, NEW i
  PROVE  << k, i >> \in RecordBytes(recs) <=> i \in 1 .. LenAt(recs, k)
<1>1. CASE recs[k] = NoRecord
  BY <1>1 DEF LenAt, RecordBytes
<1>2. CASE recs[k] # NoRecord
  <2>1. LenAt(recs, k) = recs[k].len /\ recs[k].len \in RecordLens /\ recs[k].len \in Nat
    BY <1>2, LenAtType, LengthsAssumption
  <2>2. ASSUME i \in 1 .. recs[k].len
        PROVE  << k, i >> \in RecordBytes(recs)
    <3>1. i \in UNION { 1 .. n : n \in RecordLens }
      BY <2>1, <2>2
    <3>2. << k, i >> \in Keys \X UNION { 1 .. n : n \in RecordLens }
      BY <3>1
    <3> QED
      BY <1>2, <2>1, <2>2, <3>2 DEF RecordBytes
  <2>3. ASSUME << k, i >> \in RecordBytes(recs)
        PROVE  i \in 1 .. recs[k].len
    <3>1. i \in UNION { 1 .. n : n \in RecordLens } /\ i <= recs[k].len
      BY <2>3 DEF RecordBytes
    <3> QED
      BY <2>1, <3>1, LengthsAssumption
  <2> QED
    BY <2>1, <2>2, <2>3
<1> QED
  BY <1>1, <1>2

LEMMA RecordBytesArePairs ==
  ASSUME NEW recs, NEW x \in RecordBytes(recs)
  PROVE  x = << x[1], x[2] >> /\ x[1] \in Keys
  BY DEF RecordBytes

\* When the record of one key changes its length, or comes or goes, the length
\* of the registry changes by that.
LEMMA RegistryLenChanges ==
  ASSUME NEW recs \in Recs, NEW other \in Recs, NEW k \in Keys,
         \A j \in Keys \ { k } : LenAt(other, j) = LenAt(recs, j)
  PROVE  /\ RegistryLen(recs) \in Nat \ { 0 } /\ RegistryLen(other) \in Nat \ { 0 }
         /\ RegistryLen(other) - LenAt(other, k) = RegistryLen(recs) - LenAt(recs, k)
<1> DEFINE Rest(r) == RecordBytes(r) \ Cells(r, k)
<1>1. ASSUME NEW r \in Recs
      PROVE  /\ IsFiniteSet(Rest(r)) /\ Cardinality(Rest(r)) \in Nat
             /\ Cardinality(RecordBytes(r)) = Cardinality(Rest(r)) + LenAt(r, k)
  <2>1. LenAt(r, k) \in Nat
    BY LenAtType
  <2>2. IsFiniteSet({ k }) /\ Cardinality({ k }) = 1
    BY FS_Singleton
  <2>3. IsFiniteSet(1 .. LenAt(r, k)) /\ Cardinality(1 .. LenAt(r, k)) = LenAt(r, k)
    BY <2>1, FS_Interval
  <2>4. Cardinality(Cells(r, k)) = LenAt(r, k)
    <3>1. Cardinality({ k } \X (1 .. LenAt(r, k)))
            = Cardinality({ k }) * Cardinality(1 .. LenAt(r, k))
      BY <2>2, <2>3, FS_Product
    <3>2. 1 * LenAt(r, k) = LenAt(r, k)
      BY <2>1
    <3> QED
      BY <2>2, <2>3, <3>1, <3>2 DEF Cells
  <2>5. Cells(r, k) \subseteq RecordBytes(r)
    BY RecordBytesAre DEF Cells
  <2>6. RecordBytes(r) \cap Cells(r, k) = Cells(r, k)
    BY <2>5
  <2>7. IsFiniteSet(Rest(r))
        /\ Cardinality(Rest(r)) = Cardinality(RecordBytes(r)) - Cardinality(Cells(r, k))
    BY <2>6, RecordBytesFinite, FS_Difference
  <2> QED
    BY <2>1, <2>4, <2>7, RecordBytesFinite, FS_CardinalityType
<1>2. Rest(recs) = Rest(other)
  <2>1. ASSUME NEW r \in Recs, NEW x
        PROVE  x \in Rest(r) <=> /\ x = << x[1], x[2] >> /\ x[1] \in Keys \ { k }
                                 /\ x[2] \in 1 .. LenAt(r, x[1])
    <3>1. ASSUME x \in Rest(r)
          PROVE  /\ x = << x[1], x[2] >> /\ x[1] \in Keys \ { k }
                 /\ x[2] \in 1 .. LenAt(r, x[1])
      <4>1. x = << x[1], x[2] >> /\ x[1] \in Keys
        BY <3>1, RecordBytesArePairs
      <4>2. x[2] \in 1 .. LenAt(r, x[1])
        BY <3>1, <4>1, RecordBytesAre
      <4>3. x[1] # k
        BY <3>1, <4>1, <4>2 DEF Cells
      <4> QED
        BY <4>1, <4>2, <4>3
    <3>2. ASSUME /\ x = << x[1], x[2] >> /\ x[1] \in Keys \ { k }
                 /\ x[2] \in 1 .. LenAt(r, x[1])
          PROVE  x \in Rest(r)
      <4>1. << x[1], x[2] >> \in RecordBytes(r)
        BY <3>2, RecordBytesAre
      <4>2. x \notin Cells(r, k)
        BY <3>2 DEF Cells
      <4> QED
        BY <3>2, <4>1, <4>2
    <3> QED
      BY <3>1, <3>2
  <2>2. \A x : x \in Rest(recs) <=> x \in Rest(other)
    BY <2>1
  <2> QED
    BY <2>2
<1> HIDE DEF Rest
<1>3. LenAt(recs, k) \in Nat /\ LenAt(other, k) \in Nat
  BY LenAtType
<1>4. /\ RegistryLen(recs) = RegistryBase + Cardinality(Rest(recs)) + LenAt(recs, k)
      /\ RegistryLen(other) = RegistryBase + Cardinality(Rest(recs)) + LenAt(other, k)
      /\ Cardinality(Rest(recs)) \in Nat
  BY <1>1, <1>2, <1>3, LengthsAssumption DEF RegistryLen
<1> QED
  BY <1>3, <1>4, LengthsAssumption

\* Registries whose records are as long are as long.
LEMMA RegistryLenStays ==
  ASSUME NEW recs \in Recs, NEW other \in Recs,
         \A k \in Keys : LenAt(other, k) = LenAt(recs, k)
  PROVE  RegistryLen(other) = RegistryLen(recs)
<1>1. ASSUME NEW k \in Keys PROVE RegistryLen(other) = RegistryLen(recs)
  BY LenAtType, RegistryLenChanges
<1> QED
  BY <1>1, LayoutKeysAssumption DEF Keys

\* Records that got shorter make a registry that is no longer.
LEMMA RegistryLenShrinks ==
  ASSUME NEW recs \in Recs, NEW other \in Recs,
         \A k \in Keys : LenAt(other, k) <= LenAt(recs, k)
  PROVE  RegistryLen(other) <= RegistryLen(recs)
<1>1. RecordBytes(other) \subseteq RecordBytes(recs)
  <2> SUFFICES ASSUME NEW x \in RecordBytes(other)
               PROVE  x \in RecordBytes(recs)
    OBVIOUS
  <2>1. x = << x[1], x[2] >> /\ x[1] \in Keys
    BY RecordBytesArePairs
  <2>2. x[2] \in 1 .. LenAt(other, x[1])
    BY <2>1, RecordBytesAre
  <2>3. x[2] \in 1 .. LenAt(recs, x[1])
    BY <2>1, <2>2, LenAtType
  <2> QED
    BY <2>1, <2>3, RecordBytesAre
<1>2. Cardinality(RecordBytes(other)) <= Cardinality(RecordBytes(recs))
  BY <1>1, RecordBytesFinite, FS_Subset
<1> QED
  BY <1>2, RecordBytesFinite, LengthsAssumption DEF RegistryLen

-----------------------------------------------------------------------------
(* Bytes *)

\* An account has the bytes it says.
Sized(acc) == acc.len \in Nat /\ DOMAIN acc.bytes = 0 .. acc.len - 1

\* The bytes from one offset up to another are in other, diff further.
Shifted(acc, other, from, to, diff) ==
  \A i \in from .. to - 1 : other.bytes[i + diff] = acc.bytes[i]

\* How long the values are that the program writes.
LEMMA Lengths ==
  /\ \A n : LenOf(Core(n)) = n
  /\ \A at : LenOf(Header(at)) = HeaderLen
  /\ \A k, n : LenOf(Plugin(k, n)) = n
  /\ \A k, n : LenOf(Data(k, n)) = n
  /\ \A recs : LenOf(Registry(recs)) = RegistryLen(recs)
  BY DEF LenOf, Core, Header, Plugin, Data, Registry

LEMMA ResizeBytes ==
  ASSUME NEW acc, Sized(acc), NEW n \in Nat
  PROVE  /\ Sized(Resize(acc, n)) /\ Resize(acc, n).len = n
         /\ \A i \in 0 .. n - 1 : i < acc.len => Resize(acc, n).bytes[i] = acc.bytes[i]
  BY DEF Sized, Resize

LEMMA SaveBytes ==
  ASSUME NEW acc, Sized(acc), NEW v, NEW at \in Nat, LenOf(v) \in Nat,
         at + LenOf(v) <= acc.len
  PROVE  /\ Sized(Save(acc, v, at)) /\ Save(acc, v, at).len = acc.len
         /\ Holds(Save(acc, v, at), v, at)
         /\ \A i \in 0 .. acc.len - 1 :
              i < at \/ at + LenOf(v) <= i => Save(acc, v, at).bytes[i] = acc.bytes[i]
  BY DEF Sized, Save, Holds

LEMMA MoveBytes ==
  ASSUME NEW acc, Sized(acc), NEW to \in Nat, NEW from \in Nat, NEW n \in Nat,
         to + n <= acc.len, from + n <= acc.len
  PROVE  /\ Sized(Move(acc, to, from, n)) /\ Move(acc, to, from, n).len = acc.len
         /\ \A i \in from .. from + n - 1 :
              Move(acc, to, from, n).bytes[i + (to - from)] = acc.bytes[i]
         /\ \A i \in 0 .. acc.len - 1 :
              i < to \/ to + n <= i => Move(acc, to, from, n).bytes[i] = acc.bytes[i]
<1> DEFINE other == Move(acc, to, from, n)
<1>1. /\ acc.len \in Nat /\ other.len = acc.len /\ DOMAIN other.bytes = 0 .. acc.len - 1
      /\ \A i \in 0 .. acc.len - 1 :
           other.bytes[i] = IF to <= i /\ i < to + n THEN acc.bytes[i - to + from]
                            ELSE acc.bytes[i]
  BY DEF Sized, Move
<1> HIDE DEF other
<1>2. ASSUME NEW i \in from .. from + n - 1
      PROVE  other.bytes[i + (to - from)] = acc.bytes[i]
  <2> DEFINE j == i + (to - from)
  <2>1. to <= j /\ j < to + n /\ j - to + from = i /\ j \in Int
    OBVIOUS
  <2>2. j \in 0 .. acc.len - 1
    BY <1>1, <2>1
  <2> HIDE DEF j
  <2> QED
    BY <1>1, <2>1, <2>2 DEF j
<1>3. ASSUME NEW i \in 0 .. acc.len - 1, i < to \/ to + n <= i
      PROVE  other.bytes[i] = acc.bytes[i]
  <2>1. ~(to <= i /\ i < to + n)
    BY <1>1, <1>3
  <2> QED
    BY <1>1, <2>1
<1> QED
  BY <1>1, <1>2, <1>3 DEF Sized, other

\* A value that stands in bytes that are kept, or moved, stands there, or where
\* they are moved to.
LEMMA HoldsShifted ==
  ASSUME NEW acc, NEW other, NEW v, NEW at \in Int, NEW from \in Int, NEW to \in Int,
         NEW diff \in Int, LenOf(v) \in Nat, other.len \in Nat,
         Holds(acc, v, at), Shifted(acc, other, from, to, diff),
         from <= at, at + LenOf(v) <= to, to + diff <= other.len
  PROVE  Holds(other, v, at + diff)
<1>1. at + diff + LenOf(v) <= other.len
  OBVIOUS
<1>2. ASSUME NEW i \in 0 .. LenOf(v) - 1
      PROVE  other.bytes[at + diff + i] = << v, i >>
  <2>1. acc.bytes[at + i] = << v, i >>
    BY DEF Holds
  <2>2. at + i \in from .. to - 1
    OBVIOUS
  <2>3. other.bytes[at + i + diff] = acc.bytes[at + i]
    BY <2>2 DEF Shifted
  <2> QED
    BY <2>1, <2>3
<1> QED
  BY <1>1, <1>2 DEF Holds

LEMMA ShiftedTwice ==
  ASSUME NEW a, NEW b, NEW c, NEW from \in Int, NEW to \in Int, NEW d \in Int, NEW e \in Int,
         Shifted(a, b, from, to, d), Shifted(b, c, from + d, to + d, e)
  PROVE  Shifted(a, c, from, to, d + e)
<1> SUFFICES ASSUME NEW i \in from .. to - 1
             PROVE  c.bytes[i + (d + e)] = a.bytes[i]
  BY DEF Shifted
<1>1. b.bytes[i + d] = a.bytes[i]
  BY DEF Shifted
<1>2. i + d \in from + d .. to + d - 1
  OBVIOUS
<1>3. c.bytes[i + d + e] = b.bytes[i + d]
  BY <1>2 DEF Shifted
<1>4. i + d + e = i + (d + e)
  OBVIOUS
<1> QED
  BY <1>1, <1>3, <1>4

\* A value that is saved beside what stands, or was moved, leaves it alone.
LEMMA SaveBeside ==
  ASSUME NEW acc, NEW mid, Sized(mid), NEW v, NEW at \in Nat, LenOf(v) \in Nat,
         at + LenOf(v) <= mid.len,
         NEW from \in Int, NEW to \in Int, NEW diff \in Int, 0 <= from + diff, to + diff <= mid.len,
         at + LenOf(v) <= from + diff \/ to + diff <= at,
         Shifted(acc, mid, from, to, diff)
  PROVE  Shifted(acc, Save(mid, v, at), from, to, diff)
<1> SUFFICES ASSUME NEW i \in from .. to - 1
             PROVE  Save(mid, v, at).bytes[i + diff] = acc.bytes[i]
  BY DEF Shifted
<1>1. mid.bytes[i + diff] = acc.bytes[i]
  BY DEF Shifted
<1>2. i + diff \in 0 .. mid.len - 1
  BY DEF Sized
<1>3. i + diff < at \/ at + LenOf(v) <= i + diff
  OBVIOUS
<1> QED
  BY <1>1, <1>2, <1>3, SaveBytes

LEMMA SaveBesideHolds ==
  ASSUME NEW acc, Sized(acc), NEW v, NEW at \in Nat, LenOf(v) \in Nat,
         at + LenOf(v) <= acc.len,
         NEW w, NEW b \in Nat, LenOf(w) \in Nat, Holds(acc, w, b),
         at + LenOf(v) <= b \/ b + LenOf(w) <= at
  PROVE  Holds(Save(acc, v, at), w, b)
<1>1. b + LenOf(w) <= acc.len /\ Save(acc, v, at).len = acc.len
  BY SaveBytes DEF Holds
<1>2. ASSUME NEW i \in 0 .. LenOf(w) - 1
      PROVE  Save(acc, v, at).bytes[b + i] = << w, i >>
  <2>1. acc.bytes[b + i] = << w, i >>
    BY DEF Holds
  <2>2. b + i \in 0 .. acc.len - 1 /\ (b + i < at \/ at + LenOf(v) <= b + i)
    BY <1>1 DEF Sized
  <2> QED
    BY <2>1, <2>2, SaveBytes
<1> QED
  BY <1>1, <1>2 DEF Holds

LEMMA ResizeKeeps ==
  ASSUME NEW acc, NEW mid, Sized(mid), NEW n \in Nat,
         NEW from \in Int, NEW to \in Int, NEW diff \in Int, 0 <= from + diff,
         to + diff <= n, to + diff <= mid.len,
         Shifted(acc, mid, from, to, diff)
  PROVE  Shifted(acc, Resize(mid, n), from, to, diff)
<1> SUFFICES ASSUME NEW i \in from .. to - 1
             PROVE  Resize(mid, n).bytes[i + diff] = acc.bytes[i]
  BY DEF Shifted
<1>1. mid.bytes[i + diff] = acc.bytes[i]
  BY DEF Shifted
<1>2. i + diff \in 0 .. n - 1 /\ i + diff < mid.len
  BY DEF Sized
<1> QED
  BY <1>1, <1>2, ResizeBytes

LEMMA ResizeHolds ==
  ASSUME NEW acc, Sized(acc), NEW n \in Nat, NEW w, NEW b \in Nat, LenOf(w) \in Nat,
         Holds(acc, w, b), b + LenOf(w) <= n
  PROVE  Holds(Resize(acc, n), w, b)
<1>1. Resize(acc, n).len = n
  BY ResizeBytes
<1>2. ASSUME NEW i \in 0 .. LenOf(w) - 1
      PROVE  Resize(acc, n).bytes[b + i] = << w, i >>
  <2>1. acc.bytes[b + i] = << w, i >> /\ b + LenOf(w) <= acc.len
    BY DEF Holds
  <2>2. b + i \in 0 .. n - 1 /\ b + i < acc.len
    BY <2>1 DEF Sized
  <2> QED
    BY <2>1, <2>2, ResizeBytes
<1> QED
  BY <1>1, <1>2 DEF Holds

LEMMA Untouched ==
  ASSUME NEW acc, NEW from \in Int, NEW to \in Int
  PROVE  Shifted(acc, acc, from, to, 0)
  BY DEF Shifted

\* A part of what was moved was moved.
LEMMA ShiftedPart ==
  ASSUME NEW acc, NEW other, NEW from \in Int, NEW to \in Int, NEW diff \in Int,
         Shifted(acc, other, from, to, diff),
         NEW b \in Int, NEW e \in Int, from <= b, e <= to
  PROVE  Shifted(acc, other, b, e, diff)
<1> SUFFICES ASSUME NEW i \in b .. e - 1
             PROVE  other.bytes[i + diff] = acc.bytes[i]
  BY DEF Shifted
<1>1. i \in from .. to - 1
  OBVIOUS
<1> QED
  BY <1>1 DEF Shifted

\* A memmove of the bytes from q to e.
LEMMA MoveShifts ==
  ASSUME NEW acc, Sized(acc), NEW q \in Nat, NEW e \in Nat, NEW diff \in Int,
         q <= e, e <= acc.len, 0 <= q + diff, e + diff <= acc.len
  PROVE  LET other == Move(acc, q + diff, q, e - q)
         IN /\ Sized(other) /\ other.len = acc.len
            /\ Shifted(acc, other, q, e, diff)
            /\ Shifted(acc, other, 0, q + diff, 0)
<1> DEFINE other == Move(acc, q + diff, q, e - q)
<1>1. /\ q + diff \in Nat /\ e - q \in Nat
      /\ (q + diff) + (e - q) <= acc.len /\ q + (e - q) <= acc.len
      /\ q + diff - q = diff /\ q + (e - q) = e
      /\ q + diff <= acc.len
  BY DEF Sized
<1>2. /\ Sized(other) /\ other.len = acc.len
      /\ \A i \in q .. e - 1 : other.bytes[i + diff] = acc.bytes[i]
      /\ \A i \in 0 .. acc.len - 1 : i < q + diff => other.bytes[i] = acc.bytes[i]
  <2>1. /\ Sized(other) /\ other.len = acc.len
        /\ \A i \in q .. q + (e - q) - 1 : other.bytes[i + (q + diff - q)] = acc.bytes[i]
        /\ \A i \in 0 .. acc.len - 1 : i < q + diff => other.bytes[i] = acc.bytes[i]
    BY <1>1, MoveBytes
  <2> QED
    BY <1>1, <2>1
<1> HIDE DEF other
<1>3. Shifted(acc, other, q, e, diff)
  BY <1>2 DEF Shifted
<1>4. Shifted(acc, other, 0, q + diff, 0)
  <2> SUFFICES ASSUME NEW i \in 0 .. (q + diff) - 1
               PROVE  other.bytes[i + 0] = acc.bytes[i]
    BY DEF Shifted
  <2>1. i \in 0 .. acc.len - 1 /\ i < q + diff /\ i + 0 = i
    BY <1>1 DEF Sized
  <2> QED
    BY <1>2, <2>1
<1> QED
  BY <1>2, <1>3, <1>4 DEF other

\* The account grows, the bytes from q to e move, the account shrinks: so do
\* process_update_plugin, update_external_plugin_adapter_data and process_update.
InPlace(acc, q, e, diff) ==
  LET grown == IF diff > 0 THEN Resize(acc, acc.len + diff) ELSE acc
      moved == Move(grown, q + diff, q, e - q)
  IN IF diff < 0 THEN Resize(moved, acc.len + diff) ELSE moved

LEMMA InPlaceShifts ==
  ASSUME NEW acc, Sized(acc), NEW q \in Nat, NEW e \in Nat, NEW diff \in Int,
         q <= e, e <= acc.len, 0 <= q + diff
  PROVE  LET other == InPlace(acc, q, e, diff)
         IN /\ Sized(other) /\ other.len = acc.len + diff
            /\ Shifted(acc, other, q, e, diff)
            /\ Shifted(acc, other, 0, IF diff < 0 THEN q + diff ELSE q, 0)
<1> DEFINE grown == IF diff > 0 THEN Resize(acc, acc.len + diff) ELSE acc
           moved == Move(grown, q + diff, q, e - q)
           other == IF diff < 0 THEN Resize(moved, acc.len + diff) ELSE moved
<1>1. acc.len \in Nat /\ acc.len + diff \in Nat
  BY DEF Sized
<1>2. /\ Sized(grown) /\ grown.len = IF diff > 0 THEN acc.len + diff ELSE acc.len
      /\ Shifted(acc, grown, 0, acc.len, 0)
  <2>1. CASE diff > 0
    <3>1. Sized(Resize(acc, acc.len + diff)) /\ Resize(acc, acc.len + diff).len = acc.len + diff
      BY <1>1, ResizeBytes
    <3>2. Shifted(acc, Resize(acc, acc.len + diff), 0, acc.len, 0)
      BY <1>1, <2>1, Untouched, ResizeKeeps
    <3> QED
      BY <2>1, <3>1, <3>2
  <2>2. CASE ~(diff > 0)
    BY <1>1, <2>2, Untouched
  <2> QED
    BY <2>1, <2>2
<1> HIDE DEF grown
<1>3. /\ Sized(moved) /\ moved.len = grown.len
      /\ Shifted(grown, moved, q, e, diff) /\ Shifted(grown, moved, 0, q + diff, 0)
  <2>1. e <= grown.len /\ e + diff <= grown.len
    BY <1>1, <1>2
  <2> QED
    BY <1>2, <2>1, MoveShifts
<1> HIDE DEF moved
<1>4. Shifted(acc, moved, q, e, diff)
  <2>1. Shifted(acc, grown, q, e, 0)
    BY <1>1, <1>2, ShiftedPart
  <2>2. q + 0 = q /\ e + 0 = e /\ 0 + diff = diff
    OBVIOUS
  <2>3. Shifted(grown, moved, q + 0, e + 0, diff)
    BY <1>3, <2>2
  <2>4. Shifted(acc, moved, q, e, 0 + diff)
    BY <2>1, <2>3, ShiftedTwice
  <2> QED
    BY <2>2, <2>4
<1>5. Shifted(acc, moved, 0, IF diff < 0 THEN q + diff ELSE q, 0)
  <2> DEFINE low == IF diff < 0 THEN q + diff ELSE q
  <2>1. low \in Int /\ low <= q + diff /\ low <= acc.len
    BY <1>1
  <2> HIDE DEF low
  <2>2. Shifted(acc, grown, 0, low, 0) /\ Shifted(grown, moved, 0, low, 0)
    BY <1>1, <1>2, <1>3, <2>1, ShiftedPart
  <2>3. 0 + 0 = 0 /\ low + 0 = low
    BY <2>1
  <2>4. Shifted(grown, moved, 0 + 0, low + 0, 0)
    BY <2>2, <2>3
  <2>5. Shifted(acc, moved, 0, low, 0 + 0)
    BY <2>1, <2>2, <2>4, ShiftedTwice
  <2> QED
    BY <2>3, <2>5 DEF low
<1>6. CASE diff < 0
  <2>1. other = Resize(moved, acc.len + diff)
    BY <1>6
  <2>2. Sized(other) /\ other.len = acc.len + diff
    <3>1. \A n \in Nat : Sized(Resize(moved, n)) /\ Resize(moved, n).len = n
      BY <1>3, ResizeBytes
    <3> QED
      BY <1>1, <2>1, <3>1
  <2>3. Shifted(acc, other, q, e, diff)
    BY <1>1, <1>2, <1>3, <1>4, <1>6, <2>1, ResizeKeeps
  <2>4. Shifted(acc, other, 0, q + diff, 0)
    <3>1. Shifted(acc, moved, 0, q + diff, 0)
      BY <1>5, <1>6
    <3>2. q + diff + 0 <= acc.len + diff /\ q + diff + 0 <= moved.len /\ 0 <= 0 + 0
      BY <1>1, <1>2, <1>3, <1>6
    <3> QED
      BY <1>1, <1>3, <2>1, <3>1, <3>2, ResizeKeeps
  <2> QED
    BY <1>6, <2>2, <2>3, <2>4 DEF InPlace, grown, moved
<1>7. CASE ~(diff < 0)
  <2>1. other = moved /\ other.len = acc.len + diff
    BY <1>1, <1>2, <1>3, <1>7
  <2> QED
    BY <1>3, <1>4, <1>5, <1>7, <2>1 DEF InPlace, grown, moved
<1> QED
  BY <1>6, <1>7

\* The bytes from q to e move before the account shrinks or after it grew, to
\* a size that need not be that of the move: so do save_updated_groups_plugin
\* and process_update_external_plugin_adapter.
Around(acc, q, e, diff, size) ==
  LET early == IF diff < 0 THEN Move(acc, q + diff, q, e - q) ELSE acc
      sized == Resize(early, size)
  IN IF diff > 0 THEN Move(sized, q + diff, q, e - q) ELSE sized

LEMMA AroundShifts ==
  ASSUME NEW acc, Sized(acc), NEW q \in Nat, NEW e \in Nat, NEW diff \in Int, NEW size \in Nat,
         q <= e, e <= acc.len, 0 <= q + diff, e + diff <= size
  PROVE  LET other == Around(acc, q, e, diff, size)
         IN /\ Sized(other) /\ other.len = size
            /\ Shifted(acc, other, q, e, diff)
            /\ Shifted(acc, other, 0, IF diff < 0 THEN q + diff ELSE q, 0)
<1> DEFINE early == Move(acc, q + diff, q, e - q)
           sized == Resize(acc, size)
           low == IF diff < 0 THEN q + diff ELSE q
<1>0. acc.len \in Nat
  BY DEF Sized
<1>1. CASE diff < 0
  <2>1. /\ Sized(early) /\ early.len = acc.len
        /\ Shifted(acc, early, q, e, diff) /\ Shifted(acc, early, 0, q + diff, 0)
    <3>1. e + diff <= acc.len
      BY <1>0, <1>1
    <3> QED
      BY <3>1, MoveShifts
  <2> HIDE DEF early
  <2>2. Sized(Resize(early, size)) /\ Resize(early, size).len = size
    BY <2>1, ResizeBytes
  <2>3. Shifted(acc, Resize(early, size), q, e, diff)
    BY <1>0, <1>1, <2>1, ResizeKeeps
  <2>4. Shifted(acc, Resize(early, size), 0, q + diff, 0)
    <3>1. q + diff + 0 <= size /\ q + diff + 0 <= early.len /\ 0 <= 0 + 0
      BY <1>0, <1>1, <2>1
    <3> QED
      BY <2>1, <3>1, ResizeKeeps
  <2> QED
    BY <1>1, <2>2, <2>3, <2>4 DEF Around, early
<1>2. CASE ~(diff < 0)
  <2>1. /\ Sized(sized) /\ sized.len = size
    BY ResizeBytes
  <2>2. Shifted(acc, sized, 0, e, 0)
    <3>1. e + 0 <= size /\ e + 0 <= acc.len /\ 0 <= 0 + 0
      BY <1>2
    <3> QED
      BY <1>0, <3>1, Untouched, ResizeKeeps
  <2> HIDE DEF sized
  <2>3. Shifted(acc, sized, q, e, 0) /\ Shifted(acc, sized, 0, q, 0)
    BY <2>2, ShiftedPart
  <2>4. CASE diff > 0
    <3> DEFINE other == Move(sized, q + diff, q, e - q)
    <3>1. /\ Sized(other) /\ other.len = size
          /\ Shifted(sized, other, q, e, diff) /\ Shifted(sized, other, 0, q + diff, 0)
      <4>1. e <= sized.len /\ e + diff <= sized.len
        BY <2>1, <2>4
      <4> QED
        BY <2>1, <4>1, MoveShifts
    <3> HIDE DEF other
    <3>2. Shifted(sized, other, 0, q, 0)
      BY <2>4, <3>1, ShiftedPart
    <3>3. Shifted(acc, other, q, e, diff)
      <4>1. q + 0 = q /\ e + 0 = e /\ 0 + diff = diff
        OBVIOUS
      <4>2. Shifted(sized, other, q + 0, e + 0, diff)
        BY <3>1, <4>1
      <4>3. Shifted(acc, other, q, e, 0 + diff)
        BY <2>3, <4>2, ShiftedTwice
      <4> QED
        BY <4>1, <4>3
    <3>4. Shifted(acc, other, 0, q, 0)
      <4>1. q + 0 = q /\ 0 + 0 = 0
        OBVIOUS
      <4>2. Shifted(sized, other, 0 + 0, q + 0, 0)
        BY <3>2, <4>1
      <4>3. Shifted(acc, other, 0, q, 0 + 0)
        BY <2>3, <4>2, ShiftedTwice
      <4> QED
        BY <4>1, <4>3
    <3> QED
      BY <1>2, <2>4, <3>1, <3>3, <3>4 DEF Around, sized, other
  <2>5. CASE ~(diff > 0)
    <3>1. diff = 0
      BY <1>2, <2>5
    <3> QED
      BY <1>2, <2>1, <2>3, <2>5, <3>1 DEF Around, sized
  <2> QED
    BY <2>4, <2>5
<1> QED
  BY <1>1, <1>2

-----------------------------------------------------------------------------
(* The plugins of an account *)

Present(recs) == { k \in Keys : recs[k] # NoRecord }

\* Where the data of a plugin ends, if it has some; it follows the plugin.
Stop(rec, n) == rec.at + n + rec.dataLen

\* A plugin stands where its record says, and its data behind it.
Placed(acc, k, rec, n) ==
  /\ n \in PluginLens /\ rec.dataLen \in DataLens
  /\ Holds(acc, Plugin(k, n), rec.at)
  /\ IF k \in DataAdapters
     THEN rec.dataAt = rec.at + n /\ Holds(acc, Data(k, rec.dataLen), rec.dataAt)
     ELSE rec.dataAt = 0 /\ rec.dataLen = 0

Before(recs, lens, j, k) == Stop(recs[j], lens[j]) <= recs[k].at

\* The plugins, lens[k] bytes each, with their data fill the bytes from lo to
\* hi, no byte twice.
Tiled(recs, lens, lo, hi) ==
  /\ \A k \in Present(recs) : lo <= recs[k].at /\ Stop(recs[k], lens[k]) <= hi
  /\ \A j, k \in Present(recs) :
       j = k \/ Before(recs, lens, j, k) \/ Before(recs, lens, k, j)
  /\ \A i \in lo .. hi - 1 :
       \E k \in Present(recs) : recs[k].at <= i /\ i < Stop(recs[k], lens[k])

Body(acc, recs, lens, lo, hi) ==
  /\ \A k \in Present(recs) : Placed(acc, k, recs[k], lens[k])
  /\ Tiled(recs, lens, lo, hi)

\* A record of the same plugin, diff further.
Displaced(k, rec, new, diff) ==
  /\ new.at = rec.at + diff /\ new.dataLen = rec.dataLen
  /\ new.dataAt = IF k \in DataAdapters THEN rec.dataAt + diff ELSE rec.dataAt

LEMMA RecordFields ==
  ASSUME NEW recs \in Recs, NEW k \in Present(recs)
  PROVE  /\ recs[k] \in Record /\ recs[k].at \in Nat /\ recs[k].len \in RecordLens
         /\ recs[k].dataAt \in Nat /\ recs[k].dataLen \in Nat
  BY DEF Recs, Record, Present

LEMMA PlacedFields ==
  ASSUME NEW acc, NEW k, NEW rec \in Record, NEW n, Placed(acc, k, rec, n)
  PROVE  /\ n \in Nat \ { 0 } /\ Stop(rec, n) \in Nat
         /\ rec.at < Stop(rec, n) /\ rec.at + n <= Stop(rec, n)
         /\ k \in DataAdapters => rec.at < rec.dataAt /\ rec.dataAt + rec.dataLen = Stop(rec, n)
  BY LengthsAssumption DEF Placed, Stop, Record

\* The offsets that BumpOffsets writes.
LEMMA Bumps ==
  ASSUME NEW recs \in Recs, NEW offset \in Int, NEW diff \in Int,
         \A k \in Present(recs) :
           recs[k].at > offset => /\ recs[k].at + diff >= 0
                                  /\ k \in DataAdapters => recs[k].dataAt >= recs[k].at
  PROVE  LET new == BumpOffsets(recs, offset, diff)
         IN /\ new \in Recs
            /\ \A k \in Keys :
                 /\ recs[k] = NoRecord => new[k] = NoRecord
                 /\ recs[k] # NoRecord =>
                      /\ new[k] # NoRecord /\ new[k].len = recs[k].len
                      /\ Displaced(k, recs[k], new[k], IF recs[k].at <= offset THEN 0 ELSE diff)
<1> DEFINE new == BumpOffsets(recs, offset, diff)
<1>1. ASSUME NEW k \in Keys, recs[k] = NoRecord
      PROVE  new[k] = NoRecord
  BY <1>1 DEF BumpOffsets
<1>2. ASSUME NEW k \in Keys, recs[k] # NoRecord
      PROVE  /\ new[k] \in Record /\ new[k].len = recs[k].len
             /\ Displaced(k, recs[k], new[k], IF recs[k].at <= offset THEN 0 ELSE diff)
  <2>1. k \in Present(recs)
    BY <1>2 DEF Present
  <2>2. /\ recs[k] \in Record /\ recs[k].at \in Nat /\ recs[k].len \in RecordLens
        /\ recs[k].dataAt \in Nat /\ recs[k].dataLen \in Nat
    BY <2>1, RecordFields
  <2>3. CASE recs[k].at <= offset
    <3>1. new[k] = recs[k]
      BY <2>3 DEF BumpOffsets
    <3> QED
      BY <2>2, <2>3, <3>1 DEF Displaced
  <2>4. CASE ~(recs[k].at <= offset)
    <3>1. recs[k].at + diff \in Nat /\ (k \in DataAdapters => recs[k].dataAt > offset /\ recs[k].dataAt + diff \in Nat)
      BY <2>1, <2>2, <2>4
    <3> DEFINE dataAt == IF k \in DataAdapters THEN recs[k].dataAt + diff ELSE recs[k].dataAt
    <3>2. new[k] = [recs[k] EXCEPT !.at = @ + diff, !.dataAt = dataAt]
      BY <1>2, <2>4, <3>1 DEF BumpOffsets
    <3>3. new[k] = [at |-> recs[k].at + diff, len |-> recs[k].len,
                    dataAt |-> dataAt, dataLen |-> recs[k].dataLen]
      BY <2>2, <3>2 DEF Record
    <3>4. dataAt \in Nat
      BY <2>2, <3>1
    <3> HIDE DEF new
    <3>5. new[k] \in Record
      BY <2>2, <3>1, <3>3, <3>4 DEF Record
    <3> QED
      BY <2>4, <3>3, <3>5 DEF Displaced
  <2> QED
    BY <2>3, <2>4
<1>3. new = [k \in Keys |-> new[k]]
  BY DEF BumpOffsets
<1> HIDE DEF new
<1>4. \A k \in Keys : new[k] \in Record \cup { NoRecord }
  BY <1>1, <1>2
<1>5. new \in Recs
  BY <1>3, <1>4 DEF Recs
<1>6. \A k \in Keys : recs[k] # NoRecord => new[k] # NoRecord
  BY <1>2, NoRecordAssumption
<1> QED
  BY <1>1, <1>2, <1>5, <1>6 DEF new

\* A plugin whose bytes are kept, or moved together with its record.
LEMMA PlacedShifted ==
  ASSUME NEW acc, NEW other, NEW recs \in Recs, NEW lens, NEW k \in Present(recs),
         NEW new \in Record, NEW from \in Int, NEW to \in Int, NEW diff \in Int, other.len \in Nat,
         Placed(acc, k, recs[k], lens[k]), Displaced(k, recs[k], new, diff),
         Shifted(acc, other, from, to, diff),
         from <= recs[k].at, Stop(recs[k], lens[k]) <= to, to + diff <= other.len
  PROVE  Placed(other, k, new, lens[k])
<1> DEFINE rec == recs[k]
           n == lens[k]
<1>1. rec.at \in Nat /\ rec.dataAt \in Nat /\ rec.dataLen \in Nat
  BY RecordFields
<1>2. /\ n \in Nat \ { 0 } /\ rec.at + n <= to
      /\ k \in DataAdapters => from <= rec.dataAt /\ rec.dataAt + rec.dataLen <= to
  <2>1. /\ n \in Nat \ { 0 } /\ Stop(rec, n) \in Nat /\ rec.at + n <= Stop(rec, n)
        /\ k \in DataAdapters => rec.at < rec.dataAt /\ rec.dataAt + rec.dataLen = Stop(rec, n)
    BY RecordFields, PlacedFields
  <2> QED
    BY <1>1, <2>1
<1>3. /\ n \in PluginLens /\ rec.dataLen \in DataLens /\ Holds(acc, Plugin(k, n), rec.at)
      /\ k \in DataAdapters => rec.dataAt = rec.at + n /\ Holds(acc, Data(k, rec.dataLen), rec.dataAt)
      /\ k \notin DataAdapters => rec.dataAt = 0 /\ rec.dataLen = 0
  BY DEF Placed
<1>4. new.at = rec.at + diff /\ new.dataLen = rec.dataLen
  BY DEF Displaced
<1>5. LenOf(Plugin(k, n)) = n /\ LenOf(Data(k, rec.dataLen)) = rec.dataLen
  BY Lengths
<1> HIDE DEF rec, n
<1>6. Holds(other, Plugin(k, n), new.at)
  BY <1>1, <1>2, <1>3, <1>4, <1>5, HoldsShifted DEF rec
<1>7. CASE k \in DataAdapters
  <2>1. Holds(other, Data(k, rec.dataLen), rec.dataAt + diff)
    BY <1>1, <1>2, <1>3, <1>5, <1>7, HoldsShifted
  <2>2. new.dataAt = rec.dataAt + diff
    BY <1>7 DEF Displaced, rec
  <2> QED
    BY <1>1, <1>2, <1>3, <1>4, <1>6, <1>7, <2>1, <2>2 DEF Placed, n
<1>8. CASE k \notin DataAdapters
  <2>1. new.dataAt = 0 /\ new.dataLen = 0
    BY <1>3, <1>4, <1>8 DEF Displaced, rec
  <2> QED
    BY <1>3, <1>4, <1>6, <1>8, <2>1 DEF Placed, n
<1> QED
  BY <1>7, <1>8

LEMMA PlacedKept ==
  ASSUME NEW acc, NEW other, NEW recs \in Recs, NEW lens, NEW k \in Present(recs),
         NEW new \in Record, NEW from \in Int, NEW to \in Int, other.len \in Nat,
         Placed(acc, k, recs[k], lens[k]), Displaced(k, recs[k], new, 0),
         Shifted(acc, other, from, to, 0),
         from <= recs[k].at, Stop(recs[k], lens[k]) <= to, to <= other.len
  PROVE  Placed(other, k, new, lens[k])
<1> DEFINE zero == 0
<1>1. zero \in Int /\ to + zero <= other.len
  OBVIOUS
<1>2. Displaced(k, recs[k], new, zero) /\ Shifted(acc, other, from, to, zero)
  OBVIOUS
<1> HIDE DEF zero
<1> QED
  BY <1>1, <1>2, PlacedShifted

\* The records of all keys but k are what BumpOffsets makes of those behind p.
Others(recs, lens, new, newlens, k, p, diff) ==
  \A j \in Keys \ { k } :
    /\ recs[j] = NoRecord => new[j] = NoRecord
    /\ recs[j] # NoRecord =>
         /\ new[j] # NoRecord /\ newlens[j] = lens[j]
         /\ Displaced(j, recs[j], new[j], IF recs[j].at <= p THEN 0 ELSE diff)

\* Another plugin lies before the one at k, and stays, or behind it, and moves.
Stands(recs, lens, new, newlens, k, j, diff) ==
  /\ j \in Present(recs) /\ j \in Present(new) /\ newlens[j] = lens[j]
  /\ \/ /\ Stop(recs[j], lens[j]) <= recs[k].at
        /\ Displaced(j, recs[j], new[j], 0)
        /\ new[j].at = recs[j].at
        /\ Stop(new[j], newlens[j]) = Stop(recs[j], lens[j])
     \/ /\ Stop(recs[k], lens[k]) <= recs[j].at
        /\ Displaced(j, recs[j], new[j], diff)
        /\ new[j].at = recs[j].at + diff
        /\ Stop(new[j], newlens[j]) = Stop(recs[j], lens[j]) + diff

LEMMA OthersStand ==
  ASSUME NEW recs \in Recs, NEW lens, NEW new \in Recs, NEW newlens, NEW k \in Present(recs),
         NEW acc, NEW lo \in Nat, NEW hi \in Nat, NEW diff \in Int, Body(acc, recs, lens, lo, hi),
         Others(recs, lens, new, newlens, k, recs[k].at, diff),
         NEW j \in Keys \ { k }, j \in Present(recs) \/ j \in Present(new)
  PROVE  Stands(recs, lens, new, newlens, k, j, diff)
<1>1. j \in Present(recs) /\ j \in Present(new) /\ newlens[j] = lens[j]
  BY DEF Others, Present
<1>2. Displaced(j, recs[j], new[j], IF recs[j].at <= recs[k].at THEN 0 ELSE diff)
  BY <1>1 DEF Others, Present
<1>3. /\ lens[j] \in Nat \ { 0 } /\ recs[j].at < Stop(recs[j], lens[j])
      /\ recs[k].at < Stop(recs[k], lens[k])
      /\ Stop(recs[j], lens[j]) \in Nat /\ Stop(recs[k], lens[k]) \in Nat
  BY <1>1, RecordFields, PlacedFields DEF Body
<1>4. recs[j].at \in Nat /\ recs[k].at \in Nat /\ recs[j].dataLen \in Nat
  BY <1>1, RecordFields
<1>5. Stop(recs[j], lens[j]) <= recs[k].at \/ Stop(recs[k], lens[k]) <= recs[j].at
  BY <1>1 DEF Body, Tiled, Before
<1>6. CASE Stop(recs[j], lens[j]) <= recs[k].at
  <2>1. recs[j].at <= recs[k].at
    BY <1>3, <1>4, <1>6
  <2>2. Displaced(j, recs[j], new[j], 0)
    BY <1>2, <2>1
  <2>3. new[j].at = recs[j].at /\ new[j].dataLen = recs[j].dataLen
    BY <1>4, <2>2 DEF Displaced
  <2> QED
    BY <1>1, <1>6, <2>2, <2>3 DEF Stop, Stands
<1>7. CASE Stop(recs[k], lens[k]) <= recs[j].at
  <2>1. ~(recs[j].at <= recs[k].at)
    BY <1>3, <1>4, <1>7
  <2>2. Displaced(j, recs[j], new[j], diff)
    BY <1>2, <2>1
  <2>3. new[j].at = recs[j].at + diff /\ new[j].dataLen = recs[j].dataLen
    BY <2>2 DEF Displaced
  <2>4. Stop(new[j], newlens[j]) = Stop(recs[j], lens[j]) + diff
    BY <1>1, <1>3, <1>4, <2>3 DEF Stop
  <2> QED
    BY <1>1, <1>7, <2>2, <2>3, <2>4 DEF Stands
<1> QED
  BY <1>5, <1>6, <1>7

\* A plugin, or its data, grows or shrinks by diff, or goes, and all behind it
\* moves by diff.
LEMMA Rearranged ==
  ASSUME NEW acc, NEW other, NEW recs \in Recs, NEW new \in Recs, NEW lens, NEW newlens,
         NEW lo \in Nat, NEW hi \in Nat, NEW diff \in Int, NEW k \in Present(recs),
         Body(acc, recs, lens, lo, hi), other.len \in Nat, recs[k].at <= other.len, hi + diff <= other.len,
         Shifted(acc, other, lo, recs[k].at, 0),
         Shifted(acc, other, Stop(recs[k], lens[k]), hi, diff),
         recs[k].at <= Stop(recs[k], lens[k]) + diff,
         Others(recs, lens, new, newlens, k, recs[k].at, diff),
         \/ new[k] = NoRecord /\ Stop(recs[k], lens[k]) + diff = recs[k].at
         \/ /\ new[k] # NoRecord /\ new[k].at = recs[k].at
            /\ Stop(new[k], newlens[k]) = Stop(recs[k], lens[k]) + diff
            /\ Placed(other, k, new[k], newlens[k])
  PROVE  Body(other, new, newlens, lo, hi + diff)
<1> DEFINE at(j) == recs[j].at
           end(j) == Stop(recs[j], lens[j])
           nat(j) == new[j].at
           nend(j) == Stop(new[j], newlens[j])
<1>1. ASSUME NEW j \in Present(recs)
      PROVE  /\ at(j) \in Nat /\ end(j) \in Nat /\ at(j) < end(j) /\ lo <= at(j) /\ end(j) <= hi
             /\ Placed(acc, j, recs[j], lens[j])
  BY <1>1, RecordFields, PlacedFields DEF Body, Tiled
<1>2. ASSUME NEW j \in Keys \ { k }, j \in Present(recs) \/ j \in Present(new)
      PROVE  /\ j \in Present(recs) /\ j \in Present(new) /\ newlens[j] = lens[j]
             /\ \/ /\ end(j) <= at(k) /\ Displaced(j, recs[j], new[j], 0)
                   /\ nat(j) = at(j) /\ nend(j) = end(j)
                \/ /\ end(k) <= at(j) /\ Displaced(j, recs[j], new[j], diff)
                   /\ nat(j) = at(j) + diff /\ nend(j) = end(j) + diff
  <2>1. Stands(recs, lens, new, newlens, k, j, diff)
    BY <1>2, OthersStand
  <2> QED
    BY <2>1 DEF Stands
<1>3. k \in Present(new) => /\ nat(k) = at(k) /\ nend(k) = end(k) + diff
                            /\ Placed(other, k, new[k], newlens[k])
  BY DEF Present
<1>4. k \notin Present(new) => end(k) + diff = at(k)
  BY DEF Present
<1>5. ASSUME NEW j \in Present(new)
      PROVE  Placed(other, j, new[j], newlens[j])
  <2>1. CASE j = k
    BY <1>3, <1>5, <2>1
  <2>2. CASE j # k
    <3>1. /\ j \in Present(recs) /\ newlens[j] = lens[j] /\ new[j] \in Record
          /\ Placed(acc, j, recs[j], lens[j])
      BY <1>1, <1>2, <2>2, RecordFields DEF Present
    <3>2. CASE end(j) <= at(k) /\ Displaced(j, recs[j], new[j], 0)
      <4>1. at(k) \in Int /\ at(k) <= other.len /\ lo <= at(j)
        BY <1>1, <3>1
      <4>2. Placed(other, j, new[j], lens[j])
        BY <3>1, <3>2, <4>1, PlacedKept
      <4> QED
        BY <3>1, <4>2
    <3>3. CASE end(k) <= at(j) /\ Displaced(j, recs[j], new[j], diff)
      <4>1. end(k) \in Int /\ end(j) <= hi
        BY <1>1, <3>1
      <4>2. Placed(other, j, new[j], lens[j])
        BY <3>1, <3>3, <4>1, PlacedShifted
      <4> QED
        BY <3>1, <4>2
    <3> QED
      BY <1>2, <1>5, <2>2, <3>2, <3>3 DEF Present
  <2> QED
    BY <2>1, <2>2
<1>6. ASSUME NEW j \in Present(new)
      PROVE  /\ nat(j) \in Nat /\ nend(j) \in Nat /\ lo <= nat(j) /\ nend(j) <= hi + diff
             /\ nat(j) < nend(j)
  <2>1. nat(j) \in Nat /\ nend(j) \in Nat /\ nat(j) < nend(j)
    BY <1>5, <1>6, PlacedFields, RecordFields
  <2>2. CASE j = k
    BY <1>1, <1>3, <1>6, <2>1, <2>2
  <2>3. CASE j # k
    <3>1. j \in Present(recs)
      BY <1>2, <1>6, <2>3 DEF Present
    <3>2. at(k) <= end(k) + diff /\ end(k) <= hi
      BY <1>1
    <3> QED
      BY <1>1, <1>2, <1>6, <2>1, <2>3, <3>1, <3>2 DEF Present
  <2> QED
    BY <2>2, <2>3
<1>7. ASSUME NEW i \in Present(new), NEW j \in Present(new), i # j
      PROVE  nend(i) <= nat(j) \/ nend(j) <= nat(i)
  <2>0. at(k) <= end(k) + diff /\ at(k) \in Nat /\ end(k) \in Nat
    BY <1>1
  <2>1. CASE i = k
    <3>1. j \in Keys \ { k } /\ j \in Present(recs)
      BY <1>2, <1>7, <2>1 DEF Present
    <3>2. at(j) \in Nat /\ end(j) \in Nat
      BY <1>1, <3>1
    <3> QED
      BY <1>2, <1>3, <1>7, <2>0, <2>1, <3>1, <3>2
  <2>2. CASE j = k
    <3>1. i \in Keys \ { k } /\ i \in Present(recs)
      BY <1>2, <1>7, <2>2 DEF Present
    <3>2. at(i) \in Nat /\ end(i) \in Nat
      BY <1>1, <3>1
    <3> QED
      BY <1>2, <1>3, <1>7, <2>0, <2>2, <3>1, <3>2
  <2>3. CASE i # k /\ j # k
    <3>1. i \in Keys \ { k } /\ j \in Keys \ { k } /\ i \in Present(recs) /\ j \in Present(recs)
      BY <1>2, <1>7, <2>3 DEF Present
    <3>2. at(i) \in Nat /\ end(i) \in Nat /\ at(j) \in Nat /\ end(j) \in Nat
          /\ at(i) < end(i) /\ at(j) < end(j)
      BY <1>1, <3>1
    <3>3. end(i) <= at(j) \/ end(j) <= at(i)
      BY <1>7, <3>1 DEF Body, Tiled, Before
    <3>4. \/ end(i) <= at(k) /\ nat(i) = at(i) /\ nend(i) = end(i)
          \/ end(k) <= at(i) /\ nat(i) = at(i) + diff /\ nend(i) = end(i) + diff
      BY <1>2, <3>1
    <3>5. \/ end(j) <= at(k) /\ nat(j) = at(j) /\ nend(j) = end(j)
          \/ end(k) <= at(j) /\ nat(j) = at(j) + diff /\ nend(j) = end(j) + diff
      BY <1>2, <3>1
    <3>6. at(k) < end(k)
      BY <1>1
    <3> HIDE DEF at, end, nat, nend
    <3> QED
      BY <2>0, <3>2, <3>3, <3>4, <3>5, <3>6
  <2> QED
    BY <2>1, <2>2, <2>3
<1>8. ASSUME NEW i \in lo .. (hi + diff) - 1
      PROVE  \E j \in Present(new) : nat(j) <= i /\ i < nend(j)
  <2>0. at(k) <= end(k) + diff /\ at(k) \in Nat /\ end(k) \in Nat /\ at(k) < end(k) /\ end(k) <= hi
    BY <1>1
  <2>1. CASE i < at(k)
    <3>1. i \in lo .. hi - 1
      BY <2>0, <2>1
    <3>2. PICK j \in Present(recs) : at(j) <= i /\ i < end(j)
      BY <3>1 DEF Body, Tiled
    <3>3. at(j) \in Nat /\ end(j) \in Nat
      BY <1>1
    <3>4. j \in Keys \ { k }
      BY <2>1, <2>0, <3>2, <3>3 DEF Present
    <3>5. ~(end(k) <= at(j))
      BY <2>0, <2>1, <3>2, <3>3
    <3> QED
      BY <1>2, <3>2, <3>4, <3>5
  <2>2. CASE at(k) <= i /\ i < end(k) + diff
    BY <1>3, <1>4, <2>0, <2>2
  <2>3. CASE end(k) + diff <= i
    <3>1. i - diff \in lo .. hi - 1 /\ end(k) <= i - diff
      BY <1>1, <2>0, <2>3
    <3>2. PICK j \in Present(recs) : at(j) <= i - diff /\ i - diff < end(j)
      BY <3>1 DEF Body, Tiled
    <3>3. at(j) \in Nat /\ end(j) \in Nat
      BY <1>1
    <3>4. j \in Keys \ { k }
      BY <3>1, <2>0, <3>2, <3>3 DEF Present
    <3>5. ~(end(j) <= at(k))
      BY <2>0, <3>1, <3>2, <3>3
    <3>6. /\ j \in Present(new)
          /\ nat(j) = at(j) + diff /\ nend(j) = end(j) + diff
      BY <1>2, <3>4, <3>5
    <3> QED
      BY <3>2, <3>3, <3>6
  <2> QED
    BY <2>0, <2>1, <2>2, <2>3
<1>9. Tiled(new, newlens, lo, hi + diff)
  BY <1>6, <1>7, <1>8 DEF Tiled, Before
<1> QED
  BY <1>5, <1>9 DEF Body

\* All plugins move by diff.
LEMMA AllMoved ==
  ASSUME NEW acc, NEW other, NEW recs \in Recs, NEW new \in Recs, NEW lens,
         NEW lo \in Nat, NEW hi \in Nat, NEW diff \in Int,
         Body(acc, recs, lens, lo, hi), other.len \in Nat, hi + diff <= other.len,
         Shifted(acc, other, lo, hi, diff),
         \A k \in Keys : /\ recs[k] = NoRecord => new[k] = NoRecord
                         /\ recs[k] # NoRecord =>
                              new[k] # NoRecord /\ Displaced(k, recs[k], new[k], diff)
  PROVE  Body(other, new, lens, lo + diff, hi + diff)
<1>1. ASSUME NEW k \in Present(new)
      PROVE  /\ k \in Present(recs) /\ Displaced(k, recs[k], new[k], diff)
             /\ recs[k] \in Record /\ new[k] \in Record
             /\ Placed(acc, k, recs[k], lens[k])
             /\ lo <= recs[k].at /\ Stop(recs[k], lens[k]) <= hi
             /\ recs[k].at \in Nat /\ Stop(recs[k], lens[k]) \in Nat
             /\ new[k].at = recs[k].at + diff
             /\ Stop(new[k], lens[k]) = Stop(recs[k], lens[k]) + diff
  <2>1. k \in Present(recs) /\ Displaced(k, recs[k], new[k], diff)
    BY <1>1 DEF Present
  <2>2. recs[k] \in Record /\ new[k] \in Record
    BY <1>1, <2>1, RecordFields
  <2>3. Placed(acc, k, recs[k], lens[k]) /\ lo <= recs[k].at /\ Stop(recs[k], lens[k]) <= hi
    BY <2>1 DEF Body, Tiled
  <2>4. lens[k] \in Nat /\ Stop(recs[k], lens[k]) \in Nat
    BY <2>2, <2>3, PlacedFields
  <2>5. recs[k].at \in Nat /\ recs[k].dataLen \in Nat
    BY <2>1, RecordFields
  <2>6. new[k].at = recs[k].at + diff /\ new[k].dataLen = recs[k].dataLen
    BY <2>1 DEF Displaced
  <2> QED
    BY <2>1, <2>2, <2>3, <2>4, <2>5, <2>6 DEF Stop
<1>2. \A k \in Present(recs) : k \in Present(new)
  BY DEF Present
<1>3. ASSUME NEW k \in Present(new)
      PROVE  Placed(other, k, new[k], lens[k])
  BY <1>1, <1>3, PlacedShifted
<1>4. ASSUME NEW k \in Present(new)
      PROVE  lo + diff <= new[k].at /\ Stop(new[k], lens[k]) <= hi + diff
  BY <1>1, <1>4
<1>5. ASSUME NEW j \in Present(new), NEW k \in Present(new), j # k
      PROVE  Before(new, lens, j, k) \/ Before(new, lens, k, j)
  <2>1. Before(recs, lens, j, k) \/ Before(recs, lens, k, j)
    BY <1>1, <1>5 DEF Body, Tiled
  <2> QED
    BY <1>1, <1>5, <2>1 DEF Before
<1>6. ASSUME NEW i \in lo + diff .. (hi + diff) - 1
      PROVE  \E k \in Present(new) : new[k].at <= i /\ i < Stop(new[k], lens[k])
  <2>1. i - diff \in lo .. hi - 1
    OBVIOUS
  <2>2. PICK k \in Present(recs) : recs[k].at <= i - diff /\ i - diff < Stop(recs[k], lens[k])
    BY <2>1 DEF Body, Tiled
  <2> QED
    BY <1>1, <1>2, <2>2
<1>7. Tiled(new, lens, lo + diff, hi + diff)
  BY <1>4, <1>5, <1>6 DEF Tiled
<1> QED
  BY <1>3, <1>7 DEF Body

LEMMA AllKept ==
  ASSUME NEW acc, NEW other, NEW recs \in Recs, NEW new \in Recs, NEW lens,
         NEW lo \in Nat, NEW hi \in Nat,
         Body(acc, recs, lens, lo, hi), other.len \in Nat, hi <= other.len,
         Shifted(acc, other, lo, hi, 0),
         \A k \in Keys : /\ recs[k] = NoRecord => new[k] = NoRecord
                         /\ recs[k] # NoRecord =>
                              new[k] # NoRecord /\ Displaced(k, recs[k], new[k], 0)
  PROVE  Body(other, new, lens, lo, hi)
<1> DEFINE zero == 0
<1>1. zero \in Int /\ hi + zero <= other.len /\ lo + zero = lo /\ hi + zero = hi
  OBVIOUS
<1>2. /\ Shifted(acc, other, lo, hi, zero)
      /\ \A k \in Keys : /\ recs[k] = NoRecord => new[k] = NoRecord
                         /\ recs[k] # NoRecord =>
                              new[k] # NoRecord /\ Displaced(k, recs[k], new[k], zero)
  OBVIOUS
<1> HIDE DEF zero
<1>3. Body(other, new, lens, lo + zero, hi + zero)
  BY <1>1, <1>2, AllMoved
<1> QED
  BY <1>1, <1>3

\* A plugin comes behind all others.
LEMMA Appended ==
  ASSUME NEW acc, NEW recs \in Recs, NEW new \in Recs, NEW lens, NEW newlens,
         NEW lo \in Nat, NEW hi \in Nat, NEW to \in Nat, lo <= hi, NEW k \in Keys,
         Body(acc, recs, lens, lo, hi), recs[k] = NoRecord,
         \A j \in Keys \ { k } : new[j] = recs[j] /\ newlens[j] = lens[j],
         new[k] \in Record, Placed(acc, k, new[k], newlens[k]),
         new[k].at = hi, Stop(new[k], newlens[k]) = to
  PROVE  Body(acc, new, newlens, lo, to)
<1>1. hi < to /\ k \in Present(new)
  BY PlacedFields, NoRecordAssumption DEF Present
<1>2. ASSUME NEW j \in Present(new), j # k
      PROVE  /\ j \in Present(recs) /\ new[j] = recs[j] /\ newlens[j] = lens[j]
             /\ Placed(acc, j, recs[j], lens[j])
             /\ lo <= new[j].at /\ Stop(new[j], newlens[j]) <= hi
             /\ recs[j] \in Record /\ Stop(new[j], newlens[j]) \in Nat
  <2>1. j \in Present(recs) /\ new[j] = recs[j] /\ newlens[j] = lens[j]
    BY <1>2 DEF Present
  <2> QED
    BY <2>1, RecordFields, PlacedFields DEF Body, Tiled
<1>3. \A j \in Present(new) : Placed(acc, j, new[j], newlens[j])
  BY <1>2
<1>4. \A j \in Present(new) : lo <= new[j].at /\ Stop(new[j], newlens[j]) <= to
  BY <1>1, <1>2
<1>5. ASSUME NEW i \in Present(new), NEW j \in Present(new), i # j
      PROVE  Before(new, newlens, i, j) \/ Before(new, newlens, j, i)
  <2>1. CASE i = k
    BY <1>2, <1>5, <2>1 DEF Before
  <2>2. CASE j = k
    BY <1>2, <1>5, <2>2 DEF Before
  <2>3. CASE i # k /\ j # k
    <3>1. Before(recs, lens, i, j) \/ Before(recs, lens, j, i)
      BY <1>2, <1>5, <2>3 DEF Body, Tiled
    <3> QED
      BY <1>2, <1>5, <2>3, <3>1 DEF Before
  <2> QED
    BY <2>1, <2>2, <2>3
<1>6. ASSUME NEW i \in lo .. to - 1
      PROVE  \E j \in Present(new) : new[j].at <= i /\ i < Stop(new[j], newlens[j])
  <2>1. CASE i < hi
    <3>1. i \in lo .. hi - 1
      BY <2>1
    <3>2. PICK j \in Present(recs) : recs[j].at <= i /\ i < Stop(recs[j], lens[j])
      BY <3>1 DEF Body, Tiled
    <3>3. j # k /\ j \in Keys
      BY DEF Present
    <3>4. j \in Present(new) /\ new[j] = recs[j] /\ newlens[j] = lens[j]
      BY <3>3 DEF Present
    <3> QED
      BY <3>2, <3>4
  <2>2. CASE hi <= i
    BY <1>1, <2>2
  <2> QED
    BY <2>1, <2>2
<1>7. Tiled(new, newlens, lo, to)
  BY <1>4, <1>5, <1>6 DEF Tiled
<1> QED
  BY <1>3, <1>7 DEF Body

-----------------------------------------------------------------------------
(* A whole account *)

Framed(acc, n, at, recs, sl) ==
  /\ Sized(acc) /\ n \in CoreLens /\ at \in Nat /\ n + HeaderLen <= at
  /\ recs \in Recs /\ sl \in Nat /\ acc.len = at + RegistryLen(recs) + sl
  /\ Holds(acc, Core(n), 0) /\ Holds(acc, Header(at), n) /\ Holds(acc, Registry(recs), at)

WellFormed(acc, n, at, recs, lens, sl) ==
  Framed(acc, n, at, recs, sl) /\ Body(acc, recs, lens, n + HeaderLen, at)

\* An account without plugins is its core.
Bare(acc, n) == Sized(acc) /\ n \in CoreLens /\ acc.len = n /\ Holds(acc, Core(n), 0)

LEMMA LoadHeld ==
  ASSUME NEW acc, NEW v, NEW at \in Nat, LenOf(v) \in Nat \ { 0 }, Holds(acc, v, at)
  PROVE  Load(acc, at) = v
<1>1. 0 \in 0 .. LenOf(v) - 1 /\ at + 0 = at
  OBVIOUS
<1>2. acc.bytes[at] = << v, 0 >>
  BY <1>1 DEF Holds
<1> QED
  BY <1>2 DEF Load

LEMMA BareRead ==
  ASSUME NEW acc, NEW n, Bare(acc, n)
  PROVE  CoreLen(acc) = n /\ ~HasMeta(acc)
<1>1. n \in Nat \ { 0 } /\ LenOf(Core(n)) = n /\ Core(n).len = n
  BY Lengths, LengthsAssumption DEF Bare, Core
<1>2. Load(acc, 0) = Core(n)
  BY <1>1, LoadHeld DEF Bare
<1> QED
  BY <1>1, <1>2 DEF CoreLen, HasMeta, Bare

LEMMA Read ==
  ASSUME NEW acc, NEW n, NEW at, NEW recs, NEW lens, NEW sl,
         WellFormed(acc, n, at, recs, lens, sl)
  PROVE  /\ CoreLen(acc) = n /\ HasMeta(acc) /\ RegistryAt(acc) = at /\ Records(acc) = recs
         /\ n \in Nat \ { 0 } /\ at \in Nat /\ acc.len \in Nat /\ recs \in Recs
         /\ RegistryLen(recs) \in Nat \ { 0 }
         /\ \A k \in Present(recs) : Load(acc, recs[k].at) = Plugin(k, lens[k])
<1>1. /\ n \in Nat \ { 0 } /\ at \in Nat /\ sl \in Nat /\ recs \in Recs
      /\ n + HeaderLen <= at /\ acc.len = at + RegistryLen(recs) + sl
      /\ Holds(acc, Core(n), 0) /\ Holds(acc, Header(at), n) /\ Holds(acc, Registry(recs), at)
  BY LengthsAssumption DEF WellFormed, Framed
<1>2. RegistryLen(recs) \in Nat \ { 0 }
  BY <1>1, RecordBytesFinite, LengthsAssumption DEF RegistryLen
<1>3. /\ LenOf(Core(n)) = n /\ LenOf(Header(at)) = HeaderLen
      /\ LenOf(Registry(recs)) = RegistryLen(recs)
  BY Lengths
<1>4. Load(acc, 0) = Core(n)
  BY <1>1, <1>3, LoadHeld
<1>5. Load(acc, n) = Header(at)
  BY <1>1, <1>3, LoadHeld, LengthsAssumption
<1>6. Load(acc, at) = Registry(recs)
  BY <1>1, <1>2, <1>3, LoadHeld
<1>7. CoreLen(acc) = n
  BY <1>4 DEF CoreLen, Core
<1>8. RegistryAt(acc) = at
  BY <1>5, <1>7 DEF RegistryAt, Header
<1>9. Records(acc) = recs
  BY <1>6, <1>8 DEF Records, Registry
<1>10. HasMeta(acc)
  BY <1>1, <1>2, <1>7, LengthsAssumption DEF HasMeta
<1>11. ASSUME NEW k \in Present(recs)
       PROVE  Load(acc, recs[k].at) = Plugin(k, lens[k])
  <2>1. recs[k] \in Record /\ recs[k].at \in Nat
    BY <1>1, <1>11, RecordFields
  <2>2. Placed(acc, k, recs[k], lens[k])
    BY <1>11 DEF WellFormed, Body
  <2>3. lens[k] \in Nat \ { 0 } /\ LenOf(Plugin(k, lens[k])) = lens[k]
    BY <2>1, <2>2, PlacedFields, Lengths
  <2> QED
    BY <2>1, <2>2, <2>3, LoadHeld DEF Placed
<1> QED
  BY <1>1, <1>2, <1>7, <1>8, <1>9, <1>10, <1>11

-----------------------------------------------------------------------------
(* Saves *)

\* A value at an offset leaves the bytes from one offset up to another alone.
Clear(v, at, from, to) == at + LenOf(v) <= from \/ to <= at

\* A value that fits.
Fits(acc, v, at) == at \in Nat /\ LenOf(v) \in Nat /\ at + LenOf(v) <= acc.len

LEMMA OneSave ==
  ASSUME NEW acc, Sized(acc), NEW v, NEW a, Fits(acc, v, a)
  PROVE  LET other == Save(acc, v, a)
         IN /\ Sized(other) /\ other.len = acc.len /\ Holds(other, v, a)
            /\ \A w, b : /\ Holds(acc, w, b) /\ b \in Nat /\ LenOf(w) \in Nat
                         /\ Clear(v, a, b, b + LenOf(w))
                         => Holds(other, w, b)
            /\ \A old : \A from, to, diff \in Int :
                 /\ Shifted(old, acc, from, to, diff)
                 /\ 0 <= from + diff /\ to + diff <= acc.len
                 /\ Clear(v, a, from + diff, to + diff)
                 => Shifted(old, other, from, to, diff)
<1> DEFINE other == Save(acc, v, a)
<1>1. Sized(other) /\ other.len = acc.len /\ Holds(other, v, a)
  BY SaveBytes DEF Fits
<1>2. ASSUME NEW w, NEW b, Holds(acc, w, b), b \in Nat, LenOf(w) \in Nat,
             Clear(v, a, b, b + LenOf(w))
      PROVE  Holds(other, w, b)
  BY <1>2, SaveBesideHolds DEF Fits, Clear
<1>3. ASSUME NEW old, NEW from \in Int, NEW to \in Int, NEW diff \in Int,
             Shifted(old, acc, from, to, diff), 0 <= from + diff, to + diff <= acc.len,
             Clear(v, a, from + diff, to + diff)
      PROVE  Shifted(old, other, from, to, diff)
  BY <1>3, SaveBeside DEF Fits, Clear
<1> QED
  BY <1>1, <1>2, <1>3

\* Three values that are saved one after the other, none over another.
LEMMA ThreeSaves ==
  ASSUME NEW acc, Sized(acc), NEW v, NEW a, NEW w, NEW b, NEW x, NEW c,
         Fits(acc, v, a), Fits(acc, w, b), Fits(acc, x, c),
         Clear(w, b, a, a + LenOf(v)), Clear(x, c, a, a + LenOf(v)),
         Clear(x, c, b, b + LenOf(w))
  PROVE  LET other == Save(Save(Save(acc, v, a), w, b), x, c)
         IN /\ Sized(other) /\ other.len = acc.len
            /\ Holds(other, v, a) /\ Holds(other, w, b) /\ Holds(other, x, c)
            /\ \A old : \A from, to, diff \in Int :
                 /\ Shifted(old, acc, from, to, diff)
                 /\ 0 <= from + diff /\ to + diff <= acc.len
                 /\ Clear(v, a, from + diff, to + diff)
                 /\ Clear(w, b, from + diff, to + diff)
                 /\ Clear(x, c, from + diff, to + diff)
                 => Shifted(old, other, from, to, diff)
<1> DEFINE one == Save(acc, v, a)
           two == Save(one, w, b)
           other == Save(two, x, c)
<1>0. a \in Nat /\ b \in Nat /\ c \in Nat
      /\ LenOf(v) \in Nat /\ LenOf(w) \in Nat /\ LenOf(x) \in Nat
  BY DEF Fits
<1>1. /\ Sized(one) /\ one.len = acc.len /\ Holds(one, v, a)
      /\ \A old : \A from, to, diff \in Int :
           /\ Shifted(old, acc, from, to, diff)
           /\ 0 <= from + diff /\ to + diff <= acc.len
           /\ Clear(v, a, from + diff, to + diff)
           => Shifted(old, one, from, to, diff)
  BY OneSave
<1> HIDE DEF one
<1>2. Fits(one, w, b) /\ Fits(one, x, c)
  BY <1>1 DEF Fits
<1>3. /\ Sized(two) /\ two.len = acc.len /\ Holds(two, w, b) /\ Holds(two, v, a)
      /\ \A old : \A from, to, diff \in Int :
           /\ Shifted(old, one, from, to, diff)
           /\ 0 <= from + diff /\ to + diff <= acc.len
           /\ Clear(w, b, from + diff, to + diff)
           => Shifted(old, two, from, to, diff)
  BY <1>0, <1>1, <1>2, OneSave
<1> HIDE DEF two
<1>4. Fits(two, x, c)
  BY <1>0, <1>3 DEF Fits
<1>5. /\ Sized(other) /\ other.len = acc.len
      /\ Holds(other, x, c) /\ Holds(other, w, b) /\ Holds(other, v, a)
      /\ \A old : \A from, to, diff \in Int :
           /\ Shifted(old, two, from, to, diff)
           /\ 0 <= from + diff /\ to + diff <= acc.len
           /\ Clear(x, c, from + diff, to + diff)
           => Shifted(old, other, from, to, diff)
  BY <1>0, <1>3, <1>4, OneSave
<1> HIDE DEF other
<1> QED
  BY <1>1, <1>3, <1>5 DEF other, two, one

\* The program writes the header and the registry and, between them, a value
\* that changed, after everything behind it was moved by diff.
LEMMA Reframed ==
  ASSUME NEW acc, NEW n, NEW at, NEW recs, NEW lens, NEW sl,
         WellFormed(acc, n, at, recs, lens, sl),
         NEW mid, Sized(mid), NEW new \in Recs, NEW diff \in Int, NEW more \in Nat,
         NEW v, NEW b \in Nat, NEW q \in Nat, LenOf(v) \in Nat,
         n + HeaderLen <= b, b <= q, q <= at, b + LenOf(v) = q + diff,
         mid.len = at + diff + RegistryLen(new) + more,
         Shifted(acc, mid, 0, b, 0), Shifted(acc, mid, q, at, diff),
         NEW other,
         \/ other = Save(Save(Save(mid, Header(at + diff), n), Registry(new), at + diff), v, b)
         \/ other = Save(Save(Save(mid, v, b), Registry(new), at + diff), Header(at + diff), n)
  PROVE  /\ Framed(other, n, at + diff, new, more) /\ Holds(other, v, b)
         /\ Shifted(acc, other, n + HeaderLen, b, 0) /\ Shifted(acc, other, q, at, diff)
<1> DEFINE to == at + diff
<1>1. /\ n \in Nat \ { 0 } /\ n \in CoreLens /\ at \in Nat /\ Holds(acc, Core(n), 0)
      /\ RegistryLen(new) \in Nat \ { 0 } /\ HeaderLen \in Nat \ { 0 }
  BY Read, RecordBytesFinite, LengthsAssumption DEF WellFormed, Framed, RegistryLen
<1>2. /\ LenOf(Core(n)) = n /\ LenOf(Header(to)) = HeaderLen
      /\ LenOf(Registry(new)) = RegistryLen(new)
  BY Lengths
<1>3. to \in Nat /\ b + LenOf(v) <= to /\ n + HeaderLen <= to /\ to <= mid.len
      /\ to + RegistryLen(new) <= mid.len /\ mid.len \in Nat /\ b <= to
  BY <1>1
<1> HIDE DEF to
<1>4. Fits(mid, Header(to), n) /\ Fits(mid, Registry(new), to) /\ Fits(mid, v, b)
  BY <1>1, <1>2, <1>3 DEF Fits
<1>5. /\ Clear(Registry(new), to, n, n + LenOf(Header(to)))
      /\ Clear(v, b, n, n + LenOf(Header(to))) /\ Clear(v, b, to, to + LenOf(Registry(new)))
      /\ Clear(Registry(new), to, b, b + LenOf(v)) /\ Clear(Header(to), n, b, b + LenOf(v))
      /\ Clear(Header(to), n, to, to + LenOf(Registry(new)))
  BY <1>1, <1>2, <1>3 DEF Clear
<1>6. /\ Sized(other) /\ other.len = mid.len
      /\ Holds(other, Header(to), n) /\ Holds(other, Registry(new), to) /\ Holds(other, v, b)
      /\ \A old : \A from, end, d \in Int :
           /\ Shifted(old, mid, from, end, d)
           /\ 0 <= from + d /\ end + d <= mid.len
           /\ Clear(Header(to), n, from + d, end + d)
           /\ Clear(Registry(new), to, from + d, end + d)
           /\ Clear(v, b, from + d, end + d)
           => Shifted(old, other, from, end, d)
  <2>1. CASE other = Save(Save(Save(mid, Header(to), n), Registry(new), to), v, b)
    BY <1>4, <1>5, <2>1, ThreeSaves
  <2>2. CASE other = Save(Save(Save(mid, v, b), Registry(new), to), Header(to), n)
    BY <1>4, <1>5, <2>2, ThreeSaves
  <2> QED
    BY <2>1, <2>2 DEF to
<1>7. Shifted(acc, other, q, at, diff)
  <2>1. Clear(Header(to), n, q + diff, at + diff) /\ Clear(v, b, q + diff, at + diff)
        /\ Clear(Registry(new), to, q + diff, at + diff)
        /\ 0 <= q + diff /\ at + diff <= mid.len
    BY <1>1, <1>2, <1>3 DEF Clear, to
  <2> QED
    BY <1>1, <1>6, <2>1
<1>8. ASSUME NEW from \in Nat, NEW end \in Nat, end <= b,
             Clear(Header(to), n, from, end)
      PROVE  Shifted(acc, other, from, end, 0)
  <2> DEFINE d == 0
  <2>1. Shifted(acc, mid, from, end, d)
    BY <1>8, ShiftedPart
  <2>2. d \in Int /\ from + d = from /\ end + d = end
    OBVIOUS
  <2> HIDE DEF d
  <2>3. Clear(v, b, from, end) /\ Clear(Registry(new), to, from, end) /\ end <= mid.len
    BY <1>2, <1>3, <1>8 DEF Clear
  <2>4. /\ Clear(v, b, from + d, end + d) /\ Clear(Registry(new), to, from + d, end + d)
        /\ Clear(Header(to), n, from + d, end + d) /\ 0 <= from + d /\ end + d <= mid.len
    BY <1>8, <2>2, <2>3
  <2>5. Shifted(acc, other, from, end, d)
    BY <1>6, <2>1, <2>2, <2>4
  <2> QED
    BY <2>5 DEF d
<1>9. Shifted(acc, other, n + HeaderLen, b, 0)
  <2>1. Clear(Header(to), n, n + HeaderLen, b) /\ n + HeaderLen \in Nat
    BY <1>1, <1>2 DEF Clear
  <2> QED
    BY <1>8, <2>1
<1>10. Holds(other, Core(n), 0)
  <2>1. Clear(Header(to), n, 0, n) /\ n <= b
    BY <1>1, <1>2 DEF Clear
  <2>2. Shifted(acc, other, 0, n, 0)
    BY <1>1, <1>8, <2>1
  <2>3. n + 0 <= other.len /\ other.len \in Nat /\ 0 + 0 = 0
    BY <1>1, <1>3, <1>6 DEF Sized
  <2>4. Holds(other, Core(n), 0 + 0)
    BY <1>1, <1>2, <2>2, <2>3, HoldsShifted
  <2> QED
    BY <2>3, <2>4
<1>11. Framed(other, n, to, new, more)
  BY <1>1, <1>3, <1>6, <1>10 DEF Framed, to
<1> QED
  BY <1>6, <1>7, <1>9, <1>11 DEF to

-----------------------------------------------------------------------------
(* A plugin is saved *)

\* What the records and the lengths of an account stand for.
EntriesOf(recs, lens) ==
  [k \in Keys |-> IF recs[k] = NoRecord THEN NoEntry
                  ELSE [plugin |-> lens[k], record |-> recs[k].len, data |-> recs[k].dataLen]]

\* One of them changes.
Instead(entries, k, e) == [j \in Keys |-> IF j = k THEN e ELSE entries[j]]

\* The same records, but that the one of k is len bytes long.
Relabelled(recs, other, k, len) ==
  /\ other \in Recs /\ len \in RecordLens
  /\ \A j \in Keys \ { k } : other[j] = recs[j]
  /\ other[k] # NoRecord /\ other[k].at = recs[k].at /\ other[k].len = len
  /\ other[k].dataAt = recs[k].dataAt /\ other[k].dataLen = recs[k].dataLen

\* The records behind the plugin of k move by diff.
BumpedBehind(recs, lens, mid, new, k, at, diff) ==
  /\ new \in Recs
  /\ \A j \in Keys :
       /\ mid[j] = NoRecord => new[j] = NoRecord
       /\ mid[j] # NoRecord => new[j] # NoRecord /\ new[j].len = mid[j].len
       /\ LenAt(new, j) = LenAt(mid, j)
  /\ mid[k] # NoRecord => Displaced(k, mid[k], new[k], 0)
  /\ \A newlens : (\A j \in Keys \ { k } : newlens[j] = lens[j])
                  => Others(recs, lens, new, newlens, k, at, diff)

LEMMA BumpsBehind ==
  ASSUME NEW acc, NEW recs \in Recs, NEW lens, NEW lo \in Nat, NEW hi \in Nat,
         Body(acc, recs, lens, lo, hi), NEW k \in Present(recs), NEW diff \in Int,
         Stop(recs[k], lens[k]) + diff >= 0,
         NEW mid \in Recs, NEW at, at = recs[k].at,
         \A j \in Keys \ { k } : mid[j] = recs[j],
         mid[k] # NoRecord => mid[k].at = recs[k].at
  PROVE  BumpedBehind(recs, lens, mid, BumpOffsets(mid, at, diff), k, at, diff)
<1> DEFINE new == BumpOffsets(mid, at, diff)
<1>0. at \in Nat /\ at = recs[k].at /\ k \in Keys
  BY RecordFields DEF Present
<1>1. ASSUME NEW j \in Present(mid), mid[j].at > at
      PROVE  mid[j].at + diff >= 0 /\ (j \in DataAdapters => mid[j].dataAt >= mid[j].at)
  <2>1. j # k
    BY <1>0, <1>1 DEF Present
  <2>2. j \in Present(recs) /\ mid[j] = recs[j]
    BY <2>1 DEF Present
  <2>3. /\ recs[j] \in Record /\ recs[j].at \in Nat /\ recs[j].dataAt \in Nat
        /\ Placed(acc, j, recs[j], lens[j])
    BY <2>2, RecordFields DEF Body
  <2>4. recs[k] \in Record /\ Placed(acc, k, recs[k], lens[k])
    BY RecordFields DEF Body
  <2>5. /\ Stop(recs[j], lens[j]) \in Nat /\ Stop(recs[k], lens[k]) \in Nat
        /\ recs[j].at < Stop(recs[j], lens[j])
        /\ j \in DataAdapters => recs[j].at < recs[j].dataAt
    BY <2>3, <2>4, PlacedFields
  <2>6. Stop(recs[k], lens[k]) <= recs[j].at \/ Stop(recs[j], lens[j]) <= recs[k].at
    BY <2>1, <2>2 DEF Body, Tiled, Before
  <2> QED
    BY <1>0, <1>1, <2>2, <2>3, <2>5, <2>6
<1>2. /\ new \in Recs
      /\ \A j \in Keys :
           /\ mid[j] = NoRecord => new[j] = NoRecord
           /\ mid[j] # NoRecord =>
                /\ new[j] # NoRecord /\ new[j].len = mid[j].len
                /\ Displaced(j, mid[j], new[j], IF mid[j].at <= at THEN 0 ELSE diff)
  BY <1>0, <1>1, Bumps
<1> HIDE DEF new
<1>3. ASSUME NEW j \in Keys PROVE LenAt(new, j) = LenAt(mid, j)
  BY <1>2 DEF LenAt
<1>4. mid[k] # NoRecord => Displaced(k, mid[k], new[k], 0)
  BY <1>0, <1>2
<1>5. ASSUME NEW newlens, \A j \in Keys \ { k } : newlens[j] = lens[j]
      PROVE  Others(recs, lens, new, newlens, k, at, diff)
  BY <1>2, <1>5 DEF Others
<1> QED
  BY <1>2, <1>3, <1>4, <1>5 DEF new, BumpedBehind

\* process_update_plugin, save_updated_groups_plugin and
\* process_update_external_plugin_adapter, once the bytes are moved.
LEMMA PluginSaved ==
  ASSUME NEW acc, NEW n, NEW at, NEW recs, NEW lens, NEW sl,
         WellFormed(acc, n, at, recs, lens, sl),
         NEW k \in Present(recs), NEW m \in PluginLens, NEW len, NEW diff, diff = m - lens[k],
         k \in DataAdapters => diff = 0,
         NEW same, Relabelled(recs, same, k, len),
         NEW mid, Sized(mid), mid.len = acc.len + diff + len - recs[k].len,
         Shifted(acc, mid, 0, recs[k].at, 0),
         Shifted(acc, mid, recs[k].at + lens[k], at, diff)
  PROVE  LET new == BumpOffsets(same, recs[k].at, diff)
             newlens == Instead(lens, k, m)
             other == Save(Save(Save(mid, Header(at + diff), n), Registry(new), at + diff),
                           Plugin(k, m), recs[k].at)
         IN /\ WellFormed(other, n, at + diff, new, newlens, sl)
            /\ EntriesOf(new, newlens)
                 = Instead(EntriesOf(recs, lens), k,
                           [plugin |-> m, record |-> len, data |-> recs[k].dataLen])
<1> DEFINE new == BumpOffsets(same, recs[k].at, diff)
           newlens == Instead(lens, k, m)
           other == Save(Save(Save(mid, Header(at + diff), n), Registry(new), at + diff),
                         Plugin(k, m), recs[k].at)
           b == recs[k].at
           q == recs[k].at + lens[k]
           lo == n + HeaderLen
<1>1. /\ n \in Nat \ { 0 } /\ at \in Nat /\ recs \in Recs /\ acc.len \in Nat
      /\ lo \in Nat /\ Body(acc, recs, lens, lo, at)
      /\ sl \in Nat /\ acc.len = at + RegistryLen(recs) + sl
  BY Read, LengthsAssumption DEF WellFormed, Framed
<1>2. /\ k \in Keys /\ recs[k] # NoRecord /\ recs[k] \in Record /\ b \in Nat
      /\ recs[k].dataLen \in Nat /\ recs[k].len \in Nat /\ Placed(acc, k, recs[k], lens[k])
  BY <1>1, RecordFields, LengthsAssumption DEF Body, Present
<1>3. /\ lens[k] \in Nat \ { 0 } /\ m \in Nat \ { 0 } /\ diff \in Int /\ q \in Nat
      /\ Stop(recs[k], lens[k]) \in Nat /\ q <= Stop(recs[k], lens[k])
      /\ Stop(recs[k], lens[k]) <= at /\ lo <= b /\ b < q
  <2>1. lens[k] \in Nat \ { 0 } /\ Stop(recs[k], lens[k]) \in Nat /\ q <= Stop(recs[k], lens[k])
    BY <1>2, PlacedFields
  <2>2. lo <= b /\ Stop(recs[k], lens[k]) <= at
    BY <1>1 DEF Body, Tiled
  <2> QED
    BY <1>2, <2>1, <2>2, LengthsAssumption
<1>4. same \in Recs /\ (\A j \in Keys \ { k } : same[j] = recs[j]) /\ same[k] # NoRecord
      /\ same[k].at = recs[k].at /\ same[k].len = len /\ len \in Nat
      /\ same[k].dataAt = recs[k].dataAt /\ same[k].dataLen = recs[k].dataLen
  BY LengthsAssumption DEF Relabelled
<1>5. /\ new \in Recs
      /\ \A j \in Keys :
           /\ same[j] = NoRecord => new[j] = NoRecord
           /\ same[j] # NoRecord => new[j] # NoRecord /\ new[j].len = same[j].len
           /\ LenAt(new, j) = LenAt(same, j)
      /\ same[k] # NoRecord => Displaced(k, same[k], new[k], 0)
      /\ \A nl : (\A j \in Keys \ { k } : nl[j] = lens[j]) => Others(recs, lens, new, nl, k, b, diff)
  <2>1. Stop(recs[k], lens[k]) + diff >= 0
    BY <1>2, <1>3
  <2>2. b = recs[k].at /\ (same[k] # NoRecord => same[k].at = recs[k].at)
    BY <1>4
  <2> HIDE DEF b, lo
  <2>3. lo \in Nat /\ diff \in Int /\ at \in Nat /\ recs \in Recs /\ same \in Recs
    BY <1>1, <1>3, <1>4
  <2>4. BumpedBehind(recs, lens, same, BumpOffsets(same, b, diff), k, b, diff)
    BY <1>1, <1>4, <2>1, <2>2, <2>3, BumpsBehind
  <2>5. BumpOffsets(same, b, diff) = new
    BY <2>2
  <2> QED
    BY <2>4, <2>5 DEF BumpedBehind
<1> HIDE DEF new
<1>6. newlens[k] = m /\ \A j \in Keys \ { k } : newlens[j] = lens[j]
  BY <1>2 DEF Instead
<1> HIDE DEF newlens
<1>7. Others(recs, lens, new, newlens, k, b, diff)
  BY <1>5, <1>6
<1>8. RegistryLen(new) = RegistryLen(recs) + len - recs[k].len /\ RegistryLen(new) \in Nat \ { 0 }
  <2>1. \A j \in Keys \ { k } : LenAt(new, j) = LenAt(recs, j)
    BY <1>4, <1>5 DEF LenAt
  <2>2. LenAt(new, k) = len /\ LenAt(recs, k) = recs[k].len
    BY <1>2, <1>4, <1>5 DEF LenAt
  <2>3. /\ RegistryLen(recs) \in Nat \ { 0 } /\ RegistryLen(new) \in Nat \ { 0 }
        /\ RegistryLen(new) - LenAt(new, k) = RegistryLen(recs) - LenAt(recs, k)
    BY <1>1, <1>2, <1>5, <2>1, RegistryLenChanges
  <2> QED
    BY <1>2, <1>4, <2>2, <2>3
<1>9. mid.len = at + diff + RegistryLen(new) + sl
  <2>1. RegistryLen(recs) \in Nat
    BY <1>1, Read
  <2> QED
    BY <1>1, <1>2, <1>3, <1>4, <1>8, <2>1
<1>10. LenOf(Plugin(k, m)) = m /\ b + m = q + diff /\ m = lens[k] + diff
  BY <1>2, <1>3, Lengths
<1>11. /\ Framed(other, n, at + diff, new, sl) /\ Holds(other, Plugin(k, m), b)
       /\ Shifted(acc, other, lo, b, 0) /\ Shifted(acc, other, q, at, diff)
  <2>1. /\ b <= q /\ LenOf(Plugin(k, m)) \in Nat /\ b + LenOf(Plugin(k, m)) = q + diff
    BY <1>2, <1>3, <1>10
  <2>4. q <= at
    BY <1>1, <1>3
  <2> HIDE DEF b, q, lo
  <2> DEFINE v == Plugin(k, m)
  <2>2. \/ other = Save(Save(Save(mid, Header(at + diff), n), Registry(new), at + diff), v, b)
        \/ other = Save(Save(Save(mid, v, b), Registry(new), at + diff), Header(at + diff), n)
    BY DEF b
  <2>3. n + HeaderLen <= b /\ Shifted(acc, mid, 0, b, 0) /\ Shifted(acc, mid, q, at, diff)
    BY <1>3 DEF b, q, lo
  <2> HIDE DEF v, other
  <2> QED
    BY <1>1, <1>2, <1>3, <1>5, <1>9, <2>1, <2>2, <2>3, <2>4, Reframed DEF v, lo
<1> HIDE DEF other
<1>12. Placed(other, k, new[k], newlens[k])
  <2>1. new[k].at = b /\ new[k].dataLen = recs[k].dataLen /\ new[k].dataAt = recs[k].dataAt
    <3>1. new[k].at = b + 0 /\ new[k].dataLen = recs[k].dataLen
          /\ (new[k].dataAt = recs[k].dataAt + 0 \/ new[k].dataAt = recs[k].dataAt)
          /\ recs[k].dataAt \in Nat
      BY <1>1, <1>4, <1>5, RecordFields DEF Displaced
    <3> QED
      BY <1>2, <3>1
  <2>2. CASE k \notin DataAdapters
    BY <1>2, <1>6, <1>11, <2>1, <2>2 DEF Placed
  <2>3. CASE k \in DataAdapters
    <3> DEFINE d == Data(k, recs[k].dataLen)
    <3>1. /\ recs[k].dataAt = q /\ Holds(acc, d, q) /\ m = lens[k] /\ LenOf(d) = recs[k].dataLen
          /\ recs[k].dataLen \in DataLens
      BY <1>2, <1>3, <1>10, <2>3, Lengths DEF Placed
    <3>2. q + LenOf(d) <= at
      BY <1>2, <1>3, <3>1 DEF Stop
    <3>3. other.len \in Nat /\ at + diff <= other.len /\ diff = 0
      BY <1>1, <1>3, <1>8, <1>11, <2>3 DEF Framed
    <3> HIDE DEF d
    <3>4. Holds(other, d, q + diff)
      BY <1>1, <1>2, <1>3, <1>11, <3>1, <3>2, <3>3, HoldsShifted
    <3>5. Holds(other, d, q)
      BY <1>3, <3>3, <3>4
    <3> QED
      BY <1>6, <1>11, <2>1, <2>3, <3>1, <3>5 DEF Placed, d
  <2> QED
    BY <2>2, <2>3
<1>13. Body(other, new, newlens, lo, at + diff)
  <2>1. other.len = at + diff + RegistryLen(new) + sl /\ other.len \in Nat
    BY <1>11 DEF Framed, Sized
  <2>2. /\ b <= other.len /\ at + diff <= other.len
        /\ b <= Stop(recs[k], lens[k]) + diff
    <3>1. b \in Nat /\ q \in Nat /\ q <= at /\ b + m = q + diff /\ m \in Nat
      BY <1>1, <1>2, <1>3, <1>10
    <3>2. q <= Stop(recs[k], lens[k]) /\ Stop(recs[k], lens[k]) \in Nat /\ diff \in Int
      BY <1>3
    <3> HIDE DEF b, q
    <3>3. at + diff <= other.len
      BY <1>1, <1>3, <1>8, <2>1
    <3> QED
      BY <1>1, <2>1, <3>1, <3>2, <3>3
  <2>3. Shifted(acc, other, Stop(recs[k], lens[k]), at, diff)
    BY <1>1, <1>3, <1>11, ShiftedPart
  <2>4. /\ new[k] # NoRecord /\ new[k].at = b
        /\ Stop(new[k], newlens[k]) = Stop(recs[k], lens[k]) + diff
    <3>1. new[k].at = b + 0 /\ new[k].dataLen = recs[k].dataLen
      BY <1>4, <1>5 DEF Displaced
    <3> QED
      BY <1>2, <1>3, <1>4, <1>5, <1>6, <1>10, <3>1 DEF Stop
  <2> QED
    BY <1>1, <1>3, <1>5, <1>7, <1>11, <1>12, <2>1, <2>2, <2>3, <2>4, Rearranged
<1>14. EntriesOf(new, newlens)
         = Instead(EntriesOf(recs, lens), k,
                   [plugin |-> m, record |-> len, data |-> recs[k].dataLen])
  <2>1. new[k].dataLen = recs[k].dataLen /\ new[k] # NoRecord /\ new[k].len = len
    BY <1>2, <1>4, <1>5 DEF Displaced
  <2>2. ASSUME NEW j \in Keys \ { k }
        PROVE  /\ recs[j] = NoRecord => new[j] = NoRecord
               /\ recs[j] # NoRecord => /\ new[j] # NoRecord /\ new[j].len = recs[j].len
                                        /\ new[j].dataLen = recs[j].dataLen
    BY <1>4, <1>5, <1>7 DEF Others, Displaced
  <2> QED
    BY <1>2, <1>6, <2>1, <2>2 DEF EntriesOf, Instead
<1> QED
  BY <1>11, <1>13, <1>14 DEF WellFormed, new, newlens, other

-----------------------------------------------------------------------------
(* The operations *)

\* The account becomes one of another core and other entries.
Turns(n, entries) ==
  \E at, recs, lens : /\ WellFormed(account', n, at, recs, lens, slack')
                      /\ EntriesOf(recs, lens) = entries

LEMMA HasPresent ==
  ASSUME NEW n, NEW at, NEW recs, NEW lens, WellFormed(account, n, at, recs, lens, slack),
         NEW k \in Keys
  PROVE  Has(k) <=> k \in Present(recs)
  BY Read DEF Has, Present

\* What is known of a plugin that an operation names.
LEMMA Named ==
  ASSUME NEW acc, NEW n, NEW at, NEW recs, NEW lens, NEW sl,
         WellFormed(acc, n, at, recs, lens, sl), NEW k \in Present(recs)
  PROVE  /\ k \in Keys /\ recs \in Recs /\ recs[k] # NoRecord /\ recs[k] \in Record
         /\ recs[k].at \in Nat /\ recs[k].len \in RecordLens /\ recs[k].len \in Nat \ { 0 }
         /\ recs[k].dataAt \in Nat /\ recs[k].dataLen \in Nat /\ recs[k].dataLen \in DataLens
         /\ lens[k] \in PluginLens /\ lens[k] \in Nat \ { 0 }
         /\ Load(acc, recs[k].at).len = lens[k]
         /\ Stop(recs[k], lens[k]) \in Nat /\ Stop(recs[k], lens[k]) <= at
         /\ Stop(recs[k], lens[k]) = recs[k].at + lens[k] + recs[k].dataLen
         /\ n + HeaderLen <= recs[k].at
         /\ k \notin DataAdapters => recs[k].dataLen = 0 /\ recs[k].dataAt = 0
         /\ k \in DataAdapters => recs[k].dataAt = recs[k].at + lens[k]
         /\ Placed(acc, k, recs[k], lens[k])
         /\ acc.len = at + RegistryLen(recs) + sl /\ at \in Nat /\ sl \in Nat /\ n \in Nat \ { 0 }
         /\ RegistryLen(recs) \in Nat \ { 0 } /\ acc.len \in Nat /\ Sized(acc)
         /\ Body(acc, recs, lens, n + HeaderLen, at) /\ n + HeaderLen \in Nat
<1>1. /\ recs \in Recs /\ n \in Nat \ { 0 } /\ at \in Nat /\ acc.len \in Nat
      /\ RegistryLen(recs) \in Nat \ { 0 } /\ Load(acc, recs[k].at) = Plugin(k, lens[k])
  BY Read
<1>2. /\ acc.len = at + RegistryLen(recs) + sl /\ sl \in Nat /\ Sized(acc)
      /\ Body(acc, recs, lens, n + HeaderLen, at)
  BY DEF WellFormed, Framed
<1>3. /\ k \in Keys /\ recs[k] # NoRecord /\ recs[k] \in Record
      /\ recs[k].at \in Nat /\ recs[k].len \in RecordLens
      /\ recs[k].dataAt \in Nat /\ recs[k].dataLen \in Nat
  BY <1>1, RecordFields DEF Present
<1>4. /\ Placed(acc, k, recs[k], lens[k]) /\ n + HeaderLen <= recs[k].at
      /\ Stop(recs[k], lens[k]) <= at
  BY <1>2 DEF Body, Tiled
<1>5. lens[k] \in Nat \ { 0 } /\ Stop(recs[k], lens[k]) \in Nat
  BY <1>3, <1>4, PlacedFields
<1>6. /\ lens[k] \in PluginLens /\ recs[k].dataLen \in DataLens
      /\ k \notin DataAdapters => recs[k].dataLen = 0 /\ recs[k].dataAt = 0
      /\ k \in DataAdapters => recs[k].dataAt = recs[k].at + lens[k]
  BY <1>4 DEF Placed
<1>7. Load(acc, recs[k].at).len = lens[k]
  BY <1>1 DEF Plugin
<1>8. n + HeaderLen \in Nat /\ recs[k].len \in Nat \ { 0 }
  BY <1>1, <1>3, LengthsAssumption
<1>9. Stop(recs[k], lens[k]) = recs[k].at + lens[k] + recs[k].dataLen
  BY DEF Stop
<1> QED
  BY <1>1, <1>2, <1>3, <1>4, <1>5, <1>6, <1>7, <1>8, <1>9

LEMMA UpdatePluginTurns ==
  ASSUME NEW n, NEW at, NEW recs, NEW lens, WellFormed(account, n, at, recs, lens, slack),
         NEW k \in Plugins, NEW m \in PluginLens, UpdatePlugin(k, m)
  PROVE  /\ k \in Present(recs)
         /\ Turns(n, Instead(EntriesOf(recs, lens), k,
                             [plugin |-> m, record |-> recs[k].len, data |-> recs[k].dataLen]))
<1> DEFINE diff == m - lens[k]
           q == recs[k].at + lens[k]
           mid == InPlace(account, q, at, diff)
           new == BumpOffsets(recs, recs[k].at, diff)
<1>1. k \in Present(recs) /\ k \notin DataAdapters
  BY HasPresent, LayoutKeysAssumption DEF UpdatePlugin, Keys
<1>2. CoreLen(account) = n /\ RegistryAt(account) = at /\ Records(account) = recs
  BY Read
<1>3. /\ k \in Keys /\ recs \in Recs /\ recs[k] # NoRecord /\ recs[k].at \in Nat
      /\ recs[k].len \in RecordLens /\ recs[k].len \in Nat
      /\ lens[k] \in Nat \ { 0 } /\ Load(account, recs[k].at).len = lens[k]
      /\ recs[k].dataLen \in Nat
      /\ Stop(recs[k], lens[k]) <= at /\ Stop(recs[k], lens[k]) = recs[k].at + lens[k] + recs[k].dataLen
      /\ account.len = at + RegistryLen(recs) + slack /\ at \in Nat /\ slack \in Nat
      /\ RegistryLen(recs) \in Nat /\ account.len \in Nat /\ Sized(account)
  BY <1>1, Named
<1>4. m \in Nat /\ diff \in Int /\ q \in Nat /\ q <= at /\ at <= account.len
      /\ 0 <= q + diff /\ q + diff = recs[k].at + m /\ recs[k].at <= q + diff
  BY <1>3, LengthsAssumption
<1>5. /\ Sized(mid) /\ mid.len = account.len + diff
      /\ Shifted(account, mid, q, at, diff) /\ Shifted(account, mid, 0, recs[k].at, 0)
  <2> DEFINE low == IF diff < 0 THEN q + diff ELSE q
  <2>1. recs[k].at <= low /\ low \in Int
    BY <1>3, <1>4
  <2> HIDE DEF q, diff
  <2>2. /\ Sized(mid) /\ mid.len = account.len + diff
        /\ Shifted(account, mid, q, at, diff) /\ Shifted(account, mid, 0, low, 0)
    BY <1>3, <1>4, InPlaceShifts
  <2> HIDE DEF mid, low
  <2>3. Shifted(account, mid, 0, recs[k].at, 0)
    BY <1>3, <2>1, <2>2, ShiftedPart
  <2> QED
    BY <2>2, <2>3
<1>6. account' = Save(Save(Save(mid, Header(at + diff), n), Registry(new), at + diff),
                      Plugin(k, m), recs[k].at)
  BY <1>2, <1>3, <1>4 DEF UpdatePlugin, Becomes, InPlace
<1>7. slack' = slack
  BY DEF UpdatePlugin
<1>8. Relabelled(recs, recs, k, recs[k].len)
  BY <1>3 DEF Relabelled
<1>9. mid.len = account.len + diff + recs[k].len - recs[k].len
  BY <1>3, <1>4, <1>5
<1>10. /\ WellFormed(account', n, at + diff, new, Instead(lens, k, m), slack)
       /\ EntriesOf(new, Instead(lens, k, m))
            = Instead(EntriesOf(recs, lens), k,
                      [plugin |-> m, record |-> recs[k].len, data |-> recs[k].dataLen])
  <2> HIDE DEF mid
  <2>1. diff = m - lens[k]
    OBVIOUS
  <2>2. Shifted(account, mid, recs[k].at + lens[k], at, diff)
    BY <1>5
  <2> HIDE DEF diff
  <2> QED
    BY <1>1, <1>5, <1>6, <1>8, <1>9, <2>1, <2>2, PluginSaved
<1> QED
  BY <1>1, <1>7, <1>10 DEF Turns

LEMMA SaveGroupsPluginTurns ==
  ASSUME NEW n, NEW at, NEW recs, NEW lens, WellFormed(account, n, at, recs, lens, slack),
         NEW m \in PluginLens, SaveGroupsPlugin(m)
  PROVE  /\ Groups \in Present(recs)
         /\ Turns(n, Instead(EntriesOf(recs, lens), Groups,
                             [plugin |-> m, record |-> recs[Groups].len, data |-> recs[Groups].dataLen]))
<1> DEFINE k == Groups
           diff == m - lens[k]
           q == recs[k].at + lens[k]
           mid == IF diff = 0 THEN account ELSE Around(account, q, at, diff, account.len + diff)
           new == BumpOffsets(recs, recs[k].at, diff)
<1>1. k \in Present(recs) /\ k \notin DataAdapters
  BY HasPresent, LayoutKeysAssumption DEF SaveGroupsPlugin, Keys
<1>2. CoreLen(account) = n /\ RegistryAt(account) = at /\ Records(account) = recs
  BY Read
<1>3. /\ k \in Keys /\ recs \in Recs /\ recs[k] # NoRecord /\ recs[k].at \in Nat
      /\ recs[k].len \in RecordLens /\ recs[k].len \in Nat
      /\ lens[k] \in Nat \ { 0 } /\ Load(account, recs[k].at).len = lens[k]
      /\ recs[k].dataLen \in Nat
      /\ Stop(recs[k], lens[k]) <= at /\ Stop(recs[k], lens[k]) = recs[k].at + lens[k] + recs[k].dataLen
      /\ account.len = at + RegistryLen(recs) + slack /\ at \in Nat /\ slack \in Nat
      /\ RegistryLen(recs) \in Nat /\ account.len \in Nat /\ Sized(account)
  BY <1>1, Named
<1>4. m \in Nat /\ diff \in Int /\ q \in Nat /\ q <= at /\ at <= account.len
      /\ 0 <= q + diff /\ q + diff = recs[k].at + m /\ recs[k].at <= q + diff
      /\ account.len + diff \in Nat /\ at + diff <= account.len + diff
  BY <1>3, LengthsAssumption
<1>5. /\ Sized(mid) /\ mid.len = account.len + diff
      /\ Shifted(account, mid, q, at, diff) /\ Shifted(account, mid, 0, recs[k].at, 0)
  <2>1. CASE diff = 0
    <3>1. mid = account
      BY <2>1
    <3>2. Shifted(account, mid, q, at, 0) /\ Shifted(account, mid, 0, recs[k].at, 0)
      BY <1>3, <1>4, <3>1, Untouched
    <3> HIDE DEF mid, diff
    <3> QED
      BY <1>3, <2>1, <3>1, <3>2
  <2>2. CASE diff # 0
    <3> DEFINE low == IF diff < 0 THEN q + diff ELSE q
               size == account.len + diff
    <3>1. recs[k].at <= low /\ low \in Int
      BY <1>3, <1>4
    <3>2. mid = Around(account, q, at, diff, size)
      BY <2>2
    <3>3. size \in Nat /\ at + diff <= size
      BY <1>4
    <3> HIDE DEF q, diff, mid, size
    <3>4. /\ Sized(mid) /\ mid.len = size
          /\ Shifted(account, mid, q, at, diff) /\ Shifted(account, mid, 0, low, 0)
      BY <1>3, <1>4, <3>2, <3>3, AroundShifts
    <3> HIDE DEF low
    <3>5. Shifted(account, mid, 0, recs[k].at, 0)
      BY <1>3, <3>1, <3>4, ShiftedPart
    <3> QED
      BY <3>4, <3>5 DEF size
  <2> QED
    BY <2>1, <2>2
<1>6. account' = Save(Save(Save(mid, Header(at + diff), n), Registry(new), at + diff),
                      Plugin(k, m), recs[k].at)
  BY <1>2, <1>3, <1>4 DEF SaveGroupsPlugin, Becomes, Around
<1>7. slack' = slack
  BY DEF SaveGroupsPlugin
<1>8. Relabelled(recs, recs, k, recs[k].len)
  BY <1>3 DEF Relabelled
<1>9. mid.len = account.len + diff + recs[k].len - recs[k].len
  BY <1>3, <1>4, <1>5
<1>10. /\ WellFormed(account', n, at + diff, new, Instead(lens, k, m), slack)
       /\ EntriesOf(new, Instead(lens, k, m))
            = Instead(EntriesOf(recs, lens), k,
                      [plugin |-> m, record |-> recs[k].len, data |-> recs[k].dataLen])
  <2> HIDE DEF mid
  <2>1. diff = m - lens[k]
    OBVIOUS
  <2>2. Shifted(account, mid, recs[k].at + lens[k], at, diff)
    BY <1>5
  <2> HIDE DEF diff
  <2> QED
    BY <1>1, <1>5, <1>6, <1>8, <1>9, <2>1, <2>2, PluginSaved
<1> QED
  BY <1>1, <1>7, <1>10 DEF Turns

LEMMA UpdateAdapterTurns ==
  ASSUME NEW n, NEW at, NEW recs, NEW lens, WellFormed(account, n, at, recs, lens, slack),
         NEW k \in Adapters, NEW m \in PluginLens, NEW len \in RecordLens, UpdateAdapter(k, m, len)
  PROVE  /\ k \in Present(recs)
         /\ Turns(n, Instead(EntriesOf(recs, lens), k,
                             [plugin |-> m, record |-> len, data |-> recs[k].dataLen]))
<1> DEFINE diff == m - lens[k]
           q == recs[k].at + lens[k]
           size == account.len + diff + len - recs[k].len
           mid == Around(account, q, at, diff, size)
           same == [recs EXCEPT ![k].len = len]
           new == BumpOffsets(same, recs[k].at, diff)
<1>1. k \in Present(recs)
  BY HasPresent DEF UpdateAdapter, Keys
<1>2. CoreLen(account) = n /\ RegistryAt(account) = at /\ Records(account) = recs
  BY Read
<1>3. /\ k \in Keys /\ recs \in Recs /\ recs[k] # NoRecord /\ recs[k].at \in Nat
      /\ recs[k] \in Record /\ recs[k].len \in RecordLens /\ recs[k].len \in Nat
      /\ lens[k] \in Nat \ { 0 } /\ Load(account, recs[k].at).len = lens[k]
      /\ recs[k].dataLen \in Nat
      /\ Stop(recs[k], lens[k]) <= at /\ Stop(recs[k], lens[k]) = recs[k].at + lens[k] + recs[k].dataLen
      /\ account.len = at + RegistryLen(recs) + slack /\ at \in Nat /\ slack \in Nat
      /\ RegistryLen(recs) \in Nat /\ account.len \in Nat /\ Sized(account)
  BY <1>1, Named
<1>4. m \in Nat /\ diff \in Int /\ q \in Nat /\ q <= at /\ at <= account.len
      /\ 0 <= q + diff /\ q + diff = recs[k].at + m /\ recs[k].at <= q + diff
  BY <1>3, LengthsAssumption
<1>5. Relabelled(recs, same, k, len)
  <2>1. /\ same[k] = [at |-> recs[k].at, len |-> len,
                      dataAt |-> recs[k].dataAt, dataLen |-> recs[k].dataLen]
        /\ \A j \in Keys \ { k } : same[j] = recs[j]
        /\ DOMAIN same = Keys /\ same = [j \in Keys |-> same[j]]
    BY <1>3 DEF Recs, Record
  <2> HIDE DEF same
  <2>2. same[k] \in Record
    BY <1>3, <2>1 DEF Record
  <2>3. same \in Recs
    <3>1. \A j \in Keys : same[j] \in Record \cup { NoRecord }
      BY <1>3, <2>1, <2>2 DEF Recs
    <3> QED
      BY <2>1, <3>1 DEF Recs
  <2> QED
    BY <2>1, <2>2, <2>3, NoRecordAssumption DEF Relabelled
<1>6. size \in Nat /\ at + diff <= size
  <2>1. /\ RegistryLen(same) - LenAt(same, k) = RegistryLen(recs) - LenAt(recs, k)
        /\ RegistryLen(same) \in Nat
    <3> HIDE DEF same
    <3>1. same \in Recs /\ \A j \in Keys \ { k } : LenAt(same, j) = LenAt(recs, j)
      BY <1>5 DEF Relabelled, LenAt
    <3> QED
      BY <1>3, <3>1, RegistryLenChanges
  <2>2. LenAt(same, k) = len /\ LenAt(recs, k) = recs[k].len /\ len \in Nat
    BY <1>3, <1>5, LengthsAssumption DEF Relabelled, LenAt
  <2> QED
    BY <1>3, <1>4, <2>1, <2>2
<1>7. /\ Sized(mid) /\ mid.len = size
      /\ Shifted(account, mid, q, at, diff) /\ Shifted(account, mid, 0, recs[k].at, 0)
  <2> DEFINE low == IF diff < 0 THEN q + diff ELSE q
  <2>1. recs[k].at <= low /\ low \in Int
    BY <1>3, <1>4
  <2> HIDE DEF q, diff, size
  <2>2. /\ Sized(mid) /\ mid.len = size
        /\ Shifted(account, mid, q, at, diff) /\ Shifted(account, mid, 0, low, 0)
    <3>1. /\ Sized(account) /\ q \in Nat /\ at \in Nat /\ diff \in Int /\ size \in Nat
          /\ q <= at /\ at <= account.len /\ 0 <= q + diff /\ at + diff <= size
      BY <1>3, <1>4, <1>6
    <3> QED
      BY <3>1, AroundShifts
  <2> HIDE DEF mid, low
  <2>3. Shifted(account, mid, 0, recs[k].at, 0)
    BY <1>3, <2>1, <2>2, ShiftedPart
  <2> QED
    BY <2>2, <2>3
<1>8. /\ account' = Save(Save(Save(mid, Header(at + diff), n), Registry(new), at + diff),
                         Plugin(k, m), recs[k].at)
      /\ k \in DataAdapters => diff = 0
  <2>1. same[k].at = recs[k].at
    BY <1>5 DEF Relabelled
  <2> HIDE DEF same
  <2>2. same = [Records(account) EXCEPT ![k].len = len]
    BY <1>2 DEF same
  <2> QED
    BY <1>2, <1>3, <1>4, <2>1, <2>2 DEF UpdateAdapter, Becomes, Around
<1>9. slack' = slack
  BY DEF UpdateAdapter
<1>10. /\ WellFormed(account', n, at + diff, new, Instead(lens, k, m), slack)
       /\ EntriesOf(new, Instead(lens, k, m))
            = Instead(EntriesOf(recs, lens), k,
                      [plugin |-> m, record |-> len, data |-> recs[k].dataLen])
  <2> HIDE DEF mid, same
  <2>1. diff = m - lens[k]
    OBVIOUS
  <2>2. Shifted(account, mid, recs[k].at + lens[k], at, diff)
    BY <1>7
  <2>3. mid.len = account.len + diff + len - recs[k].len
    BY <1>7
  <2> HIDE DEF diff
  <2> QED
    BY <1>1, <1>7, <1>8, <1>5, <2>1, <2>2, <2>3, PluginSaved
<1> QED
  BY <1>1, <1>9, <1>10 DEF Turns

LEMMA WriteDataTurns ==
  ASSUME NEW n, NEW at, NEW recs, NEW lens, WellFormed(account, n, at, recs, lens, slack),
         NEW k \in Adapters, NEW m \in DataLens, WriteData(k, m)
  PROVE  /\ k \in Present(recs)
         /\ Turns(n, Instead(EntriesOf(recs, lens), k,
                             [plugin |-> lens[k], record |-> recs[k].len, data |-> m]))
<1> DEFINE diff == m - recs[k].dataLen
           b == recs[k].dataAt
           q == Stop(recs[k], lens[k])
           mid == InPlace(account, q, account.len, diff)
           bumped == BumpOffsets(recs, recs[k].at, diff)
           new == [bumped EXCEPT ![k].dataLen = m]
           lo == n + HeaderLen
           other == Save(Save(Save(mid, Data(k, m), b), Registry(new), at + diff),
                         Header(at + diff), n)
<1>1. k \in Present(recs) /\ k \in DataAdapters
  BY HasPresent DEF WriteData, Keys
<1>2. CoreLen(account) = n /\ RegistryAt(account) = at /\ Records(account) = recs
  BY Read
<1>3. /\ k \in Keys /\ recs \in Recs /\ recs[k] # NoRecord /\ recs[k].at \in Nat
      /\ recs[k].len \in RecordLens /\ recs[k].dataLen \in Nat /\ b \in Nat
      /\ lens[k] \in Nat \ { 0 } /\ b = recs[k].at + lens[k]
      /\ q <= at /\ q = recs[k].at + lens[k] + recs[k].dataLen /\ q \in Nat
      /\ lo <= recs[k].at /\ lo \in Nat
      /\ account.len = at + RegistryLen(recs) + slack /\ at \in Nat /\ slack \in Nat
      /\ RegistryLen(recs) \in Nat \ { 0 } /\ account.len \in Nat /\ Sized(account)
      /\ Placed(account, k, recs[k], lens[k]) /\ Body(account, recs, lens, lo, at)
  BY <1>1, Named
<1>4. m \in Nat /\ diff \in Int /\ at <= account.len /\ q <= account.len
      /\ 0 <= q + diff /\ q + diff = b + m /\ b <= q /\ b <= q + diff /\ lo <= b
  BY <1>3, LengthsAssumption
<1>5. /\ Sized(mid) /\ mid.len = account.len + diff
      /\ Shifted(account, mid, q, at, diff) /\ Shifted(account, mid, 0, b, 0)
  <2> DEFINE low == IF diff < 0 THEN q + diff ELSE q
  <2>1. b <= low /\ low \in Int
    BY <1>3, <1>4
  <2> HIDE DEF q, diff, b
  <2>2. /\ Sized(mid) /\ mid.len = account.len + diff
        /\ Shifted(account, mid, q, account.len, diff) /\ Shifted(account, mid, 0, low, 0)
    <3> DEFINE e == account.len
    <3>1. /\ e \in Nat /\ q <= e /\ e <= account.len /\ mid = InPlace(account, q, e, diff)
          /\ 0 <= q + diff /\ q \in Nat /\ diff \in Int
      BY <1>3, <1>4
    <3> HIDE DEF e, mid
    <3>2. /\ Sized(mid) /\ mid.len = account.len + diff
          /\ Shifted(account, mid, q, e, diff) /\ Shifted(account, mid, 0, low, 0)
      <4>1. Sized(account)
        BY <1>3
      <4>2. /\ Sized(InPlace(account, q, e, diff))
            /\ InPlace(account, q, e, diff).len = account.len + diff
            /\ Shifted(account, InPlace(account, q, e, diff), q, e, diff)
            /\ Shifted(account, InPlace(account, q, e, diff), 0, IF diff < 0 THEN q + diff ELSE q, 0)
        BY <3>1, <4>1, InPlaceShifts
      <4> QED
        BY <3>1, <4>2
    <3> QED
      BY <3>2 DEF e
  <2> HIDE DEF mid, low
  <2>3. Shifted(account, mid, 0, b, 0) /\ Shifted(account, mid, q, at, diff)
    BY <1>3, <1>4, <2>1, <2>2, ShiftedPart
  <2> QED
    BY <2>2, <2>3
<1>6. account' = other /\ slack' = slack
  <2>1. DataEnd(recs[k]) = q
    BY <1>3 DEF DataEnd
  <2> QED
    BY <1>2, <2>1 DEF WriteData, Becomes, InPlace
<1>7. BumpedBehind(recs, lens, recs, bumped, k, recs[k].at, diff)
  <2> HIDE DEF diff, lo
  <2>1. Stop(recs[k], lens[k]) + diff >= 0
    BY <1>4
  <2> QED
    BY <1>1, <1>3, <1>4, <2>1, BumpsBehind
<1>8. /\ bumped \in Recs /\ bumped[k] # NoRecord /\ bumped[k] \in Record
      /\ bumped[k].len = recs[k].len /\ bumped[k].at = recs[k].at
      /\ bumped[k].dataAt = b
      /\ \A j \in Keys : /\ recs[j] = NoRecord => bumped[j] = NoRecord
                         /\ recs[j] # NoRecord => bumped[j] # NoRecord /\ bumped[j].len = recs[j].len
      /\ Others(recs, lens, bumped, lens, k, recs[k].at, diff)
  <2> HIDE DEF bumped, b, diff
  <2>1. /\ bumped \in Recs /\ bumped[k] # NoRecord /\ bumped[k].len = recs[k].len
        /\ \A j \in Keys : /\ recs[j] = NoRecord => bumped[j] = NoRecord
                           /\ recs[j] # NoRecord => bumped[j] # NoRecord /\ bumped[j].len = recs[j].len
        /\ Displaced(k, recs[k], bumped[k], 0)
    BY <1>3, <1>7 DEF BumpedBehind
  <2>2. Others(recs, lens, bumped, lens, k, recs[k].at, diff)
    BY <1>7 DEF BumpedBehind
  <2>3. bumped[k].at = recs[k].at /\ bumped[k].dataAt = recs[k].dataAt
    BY <1>1, <1>3, <2>1 DEF Displaced, b
  <2>4. bumped[k] \in Record
    BY <1>3, <2>1 DEF Recs
  <2> QED
    BY <2>1, <2>2, <2>3, <2>4 DEF b
<1> HIDE DEF bumped
<1>9. /\ new \in Recs /\ new[k] # NoRecord /\ new[k].len = recs[k].len /\ new[k].at = recs[k].at
      /\ new[k].dataAt = b /\ new[k].dataLen = m
      /\ \A j \in Keys \ { k } : new[j] = bumped[j]
  <2>1. /\ new[k] = [at |-> recs[k].at, len |-> recs[k].len, dataAt |-> b, dataLen |-> m]
        /\ \A j \in Keys \ { k } : new[j] = bumped[j]
        /\ new = [j \in Keys |-> new[j]]
    BY <1>3, <1>8 DEF Recs, Record
  <2> HIDE DEF new, b
  <2>2. new[k] \in Record
    BY <1>3, <1>4, <2>1 DEF Record
  <2>3. \A j \in Keys : new[j] \in Record \cup { NoRecord }
    BY <1>8, <2>1, <2>2 DEF Recs
  <2>4. new \in Recs
    BY <2>1, <2>3 DEF Recs
  <2> QED
    BY <2>1, <2>2, <2>4, NoRecordAssumption
<1> HIDE DEF new
<1>10. RegistryLen(new) = RegistryLen(recs)
  <2>1. \A j \in Keys : LenAt(new, j) = LenAt(recs, j)
    BY <1>3, <1>8, <1>9 DEF LenAt
  <2> QED
    BY <1>3, <1>9, <2>1, RegistryLenStays
<1>11. Others(recs, lens, new, lens, k, recs[k].at, diff)
  BY <1>8, <1>9 DEF Others
<1>12. /\ Framed(other, n, at + diff, new, slack) /\ Holds(other, Data(k, m), b)
       /\ Shifted(account, other, lo, b, 0) /\ Shifted(account, other, q, at, diff)
  <2> DEFINE v == Data(k, m)
  <2>1. LenOf(v) \in Nat /\ b + LenOf(v) = q + diff
    BY <1>4, Lengths
  <2>2. mid.len = at + diff + RegistryLen(new) + slack
    BY <1>3, <1>4, <1>5, <1>10
  <2> HIDE DEF b, q, diff, mid, v
  <2>3. \/ other = Save(Save(Save(mid, Header(at + diff), n), Registry(new), at + diff), v, b)
        \/ other = Save(Save(Save(mid, v, b), Registry(new), at + diff), Header(at + diff), n)
    BY DEF v
  <2>4. /\ n + HeaderLen <= b /\ b <= q /\ q <= at /\ b \in Nat /\ q \in Nat /\ diff \in Int
        /\ slack \in Nat /\ new \in Recs
    BY <1>3, <1>4, <1>9
  <2> HIDE DEF other
  <2>5. /\ Framed(other, n, at + diff, new, slack) /\ Holds(other, v, b)
        /\ Shifted(account, other, n + HeaderLen, b, 0) /\ Shifted(account, other, q, at, diff)
    BY <1>5, <2>1, <2>2, <2>3, <2>4, Reframed
  <2> QED
    BY <2>5 DEF v
<1> HIDE DEF other
<1>13. /\ other.len \in Nat /\ other.len = at + diff + RegistryLen(new) + slack
       /\ at + diff <= other.len /\ recs[k].at <= other.len /\ b <= other.len
       /\ recs[k].at <= q + diff
  <2>1. other.len \in Nat /\ other.len = at + diff + RegistryLen(new) + slack
    BY <1>12 DEF Framed, Sized
  <2> HIDE DEF q, diff, b
  <2>2. at + diff <= other.len /\ q + diff <= other.len
    BY <1>3, <1>4, <1>10, <2>1
  <2> QED
    BY <1>3, <1>4, <2>1, <2>2
<1>14. Placed(other, k, new[k], lens[k])
  <2> DEFINE v == Plugin(k, lens[k])
             d == 0
  <2>1. Holds(account, v, recs[k].at) /\ LenOf(v) = lens[k]
    BY <1>3, Lengths DEF Placed
  <2>2. d \in Int /\ Shifted(account, other, lo, b, d) /\ b + d <= other.len
        /\ recs[k].at + d = recs[k].at
    BY <1>3, <1>12, <1>13
  <2> HIDE DEF v, d, b, lo
  <2>3. Holds(other, v, recs[k].at + d)
    BY <1>3, <1>13, <2>1, <2>2, HoldsShifted
  <2>4. Holds(other, v, recs[k].at)
    BY <2>2, <2>3
  <2>5. lens[k] \in PluginLens
    BY <1>3 DEF Placed
  <2> QED
    BY <1>1, <1>3, <1>9, <1>12, <2>4, <2>5 DEF Placed, v
<1>15. Body(other, new, lens, lo, at + diff)
  <2>1. Stop(new[k], lens[k]) = q + diff
    BY <1>3, <1>4, <1>9 DEF Stop
  <2>2. Shifted(account, other, lo, recs[k].at, 0)
    BY <1>3, <1>4, <1>12, ShiftedPart
  <2>3. /\ Shifted(account, other, Stop(recs[k], lens[k]), at, diff)
        /\ recs[k].at <= Stop(recs[k], lens[k]) + diff
        /\ Stop(new[k], lens[k]) = Stop(recs[k], lens[k]) + diff
    BY <1>12, <1>13, <2>1
  <2> HIDE DEF q, b, diff, lo
  <2> QED
    BY <1>1, <1>3, <1>4, <1>9, <1>11, <1>13, <1>14, <2>2, <2>3, Rearranged
<1>16. EntriesOf(new, lens)
         = Instead(EntriesOf(recs, lens), k, [plugin |-> lens[k], record |-> recs[k].len, data |-> m])
  <2>1. ASSUME NEW j \in Keys \ { k }
        PROVE  /\ recs[j] = NoRecord => new[j] = NoRecord
               /\ recs[j] # NoRecord => /\ new[j] # NoRecord /\ new[j].len = recs[j].len
                                        /\ new[j].dataLen = recs[j].dataLen
    BY <1>8, <1>9, <1>11 DEF Others, Displaced
  <2> QED
    BY <1>3, <1>9, <2>1 DEF EntriesOf, Instead
<1> QED
  BY <1>1, <1>6, <1>12, <1>15, <1>16 DEF WellFormed, Turns

\* A value in bytes that are kept stands where it stood.
LEMMA HoldsKept ==
  ASSUME NEW acc, NEW other, NEW v, NEW at \in Int, NEW from \in Int, NEW to \in Int,
         LenOf(v) \in Nat, other.len \in Nat, Holds(acc, v, at), Shifted(acc, other, from, to, 0),
         from <= at, at + LenOf(v) <= to, to <= other.len
  PROVE  Holds(other, v, at)
<1> DEFINE d == 0
<1>1. d \in Int /\ to + d <= other.len /\ at + d = at /\ Shifted(acc, other, from, to, d)
  OBVIOUS
<1> HIDE DEF d
<1>2. Holds(other, v, at + d)
  BY <1>1, HoldsShifted
<1> QED
  BY <1>1, <1>2

\* Header and registry are written to an account that has its core.
LEMMA HeaderSaved ==
  ASSUME NEW mid, Sized(mid), NEW n \in CoreLens, Holds(mid, Core(n), 0),
         NEW to \in Nat, NEW new \in Recs, n + HeaderLen <= to, to + RegistryLen(new) <= mid.len
  PROVE  LET other == Save(Save(mid, Header(to), n), Registry(new), to)
         IN /\ Sized(other) /\ other.len = mid.len
            /\ Holds(other, Core(n), 0) /\ Holds(other, Header(to), n)
            /\ Holds(other, Registry(new), to)
            /\ \A old : \A from, end, d \in Int :
                 /\ Shifted(old, mid, from, end, d)
                 /\ n + HeaderLen <= from + d /\ end + d <= to
                 => Shifted(old, other, from, end, d)
<1> DEFINE one == Save(mid, Header(to), n)
           two == Save(one, Registry(new), to)
<1>1. /\ n \in Nat \ { 0 } /\ HeaderLen \in Nat \ { 0 } /\ mid.len \in Nat
      /\ LenOf(Core(n)) = n /\ LenOf(Header(to)) = HeaderLen
      /\ LenOf(Registry(new)) = RegistryLen(new) /\ RegistryLen(new) \in Nat \ { 0 }
  BY Lengths, LengthsAssumption, RecordBytesFinite DEF Sized, RegistryLen
<1>2. Fits(mid, Header(to), n) /\ Clear(Header(to), n, 0, 0 + LenOf(Core(n)))
  BY <1>1 DEF Fits, Clear
<1>3. /\ Sized(one) /\ one.len = mid.len /\ Holds(one, Header(to), n) /\ Holds(one, Core(n), 0)
      /\ \A old : \A from, end, d \in Int :
           /\ Shifted(old, mid, from, end, d)
           /\ 0 <= from + d /\ end + d <= mid.len
           /\ Clear(Header(to), n, from + d, end + d)
           => Shifted(old, one, from, end, d)
  BY <1>1, <1>2, OneSave
<1> HIDE DEF one
<1>4. /\ Fits(one, Registry(new), to)
      /\ Clear(Registry(new), to, 0, 0 + LenOf(Core(n)))
      /\ Clear(Registry(new), to, n, n + LenOf(Header(to)))
  BY <1>1, <1>3 DEF Fits, Clear
<1>5. /\ Sized(two) /\ two.len = one.len /\ Holds(two, Registry(new), to)
      /\ Holds(two, Header(to), n) /\ Holds(two, Core(n), 0)
      /\ \A old : \A from, end, d \in Int :
           /\ Shifted(old, one, from, end, d)
           /\ 0 <= from + d /\ end + d <= one.len
           /\ Clear(Registry(new), to, from + d, end + d)
           => Shifted(old, two, from, end, d)
  BY <1>1, <1>3, <1>4, OneSave
<1> HIDE DEF two
<1>6. ASSUME NEW old, NEW from \in Int, NEW end \in Int, NEW d \in Int,
             Shifted(old, mid, from, end, d), n + HeaderLen <= from + d, end + d <= to
      PROVE  Shifted(old, two, from, end, d)
  <2>1. /\ 0 <= from + d /\ end + d <= mid.len /\ end + d <= one.len
        /\ Clear(Header(to), n, from + d, end + d)
        /\ Clear(Registry(new), to, from + d, end + d)
    BY <1>1, <1>3, <1>6 DEF Clear
  <2>2. Shifted(old, one, from, end, d)
    BY <1>3, <1>6, <2>1
  <2> QED
    BY <1>5, <2>1, <2>2
<1> QED
  BY <1>3, <1>5, <1>6 DEF two, one

LEMMA DeleteTurns ==
  ASSUME NEW n, NEW at, NEW recs, NEW lens, WellFormed(account, n, at, recs, lens, slack),
         NEW k \in Keys, Delete(k)
  PROVE  /\ k \in Present(recs)
         /\ Turns(n, Instead(EntriesOf(recs, lens), k, NoEntry))
<1> DEFINE gone == lens[k] + recs[k].dataLen
           diff == -gone
           to == at - gone
           p == recs[k].at
           q == p + gone
           without == [recs EXCEPT ![k] = NoRecord]
           new == BumpOffsets(without, p, diff)
           mid == Move(account, p, q, at - q)
           saved == Save(Save(mid, Header(to), n), Registry(new), to)
           size == account.len - recs[k].len - gone
           other == Resize(saved, size)
           lo == n + HeaderLen
<1>1. k \in Present(recs)
  BY HasPresent DEF Delete
<1>2. CoreLen(account) = n /\ RegistryAt(account) = at /\ Records(account) = recs
  BY Read
<1>3. /\ k \in Keys /\ recs \in Recs /\ recs[k] # NoRecord /\ p \in Nat
      /\ recs[k].len \in Nat \ { 0 } /\ recs[k].dataLen \in Nat /\ lens[k] \in Nat \ { 0 }
      /\ Stop(recs[k], lens[k]) <= at /\ Stop(recs[k], lens[k]) = p + lens[k] + recs[k].dataLen
      /\ Load(account, p).len = lens[k] /\ lo <= p /\ lo \in Nat /\ n \in Nat \ { 0 }
      /\ account.len = at + RegistryLen(recs) + slack /\ at \in Nat /\ slack \in Nat
      /\ RegistryLen(recs) \in Nat \ { 0 } /\ account.len \in Nat /\ Sized(account)
      /\ Body(account, recs, lens, lo, at)
  BY <1>1, Named
<1>4. /\ gone \in Nat \ { 0 } /\ diff \in Int /\ q \in Nat /\ q = Stop(recs[k], lens[k]) /\ q <= at
      /\ q + diff = p /\ at + diff = to /\ to \in Nat /\ p <= to /\ at <= account.len
  BY <1>3
<1>5. account' = other /\ slack' = slack
  <2>1. Extent(account, recs[k]) = gone
    BY <1>3 DEF Extent
  <2> QED
    BY <1>2, <2>1 DEF Delete, Becomes
<1>6. /\ Sized(mid) /\ mid.len = account.len
      /\ Shifted(account, mid, q, at, diff) /\ Shifted(account, mid, 0, p, 0)
  <2>1. /\ 0 <= q + diff /\ at + diff <= account.len
        /\ mid = Move(account, q + diff, q, at - q)
    BY <1>3, <1>4
  <2> HIDE DEF mid, q, diff
  <2>2. /\ Sized(mid) /\ mid.len = account.len
        /\ Shifted(account, mid, q, at, diff) /\ Shifted(account, mid, 0, q + diff, 0)
    <3>1. /\ Sized(account) /\ q \in Nat /\ at \in Nat /\ diff \in Int
          /\ q <= at /\ at <= account.len /\ 0 <= q + diff /\ at + diff <= account.len
      BY <1>3, <1>4, <2>1
    <3>2. /\ Sized(Move(account, q + diff, q, at - q))
          /\ Move(account, q + diff, q, at - q).len = account.len
          /\ Shifted(account, Move(account, q + diff, q, at - q), q, at, diff)
          /\ Shifted(account, Move(account, q + diff, q, at - q), 0, q + diff, 0)
      BY <3>1, MoveShifts
    <3> QED
      BY <2>1, <3>2
  <2> QED
    BY <1>4, <2>2
<1>7. /\ without \in Recs /\ without[k] = NoRecord /\ \A j \in Keys \ { k } : without[j] = recs[j]
  BY <1>3 DEF Recs
<1>8. BumpedBehind(recs, lens, without, new, k, p, diff)
  <2>1. Stop(recs[k], lens[k]) + diff >= 0
    BY <1>3, <1>4
  <2>2. p = recs[k].at
    OBVIOUS
  <2> HIDE DEF diff, lo, without, p
  <2> QED
    BY <1>1, <1>3, <1>4, <1>7, <2>1, <2>2, BumpsBehind
<1> HIDE DEF without
<1>9. /\ new \in Recs /\ new[k] = NoRecord /\ Others(recs, lens, new, lens, k, p, diff)
      /\ \A j \in Keys : LenAt(new, j) = LenAt(without, j)
  BY <1>7, <1>8 DEF BumpedBehind
<1> HIDE DEF new
<1>10. /\ RegistryLen(new) \in Nat \ { 0 } /\ RegistryLen(new) = RegistryLen(recs) - recs[k].len
  <2>1. \A j \in Keys \ { k } : LenAt(new, j) = LenAt(recs, j)
    BY <1>7, <1>9 DEF LenAt
  <2>2. LenAt(new, k) = 0 /\ LenAt(recs, k) = recs[k].len
    BY <1>3, <1>9 DEF LenAt
  <2>3. /\ RegistryLen(new) \in Nat \ { 0 }
        /\ RegistryLen(new) - LenAt(new, k) = RegistryLen(recs) - LenAt(recs, k)
    BY <1>3, <1>9, <2>1, RegistryLenChanges
  <2> QED
    BY <1>3, <2>2, <2>3
<1>11. size \in Nat /\ size = to + RegistryLen(new) + slack /\ size <= account.len
  <2>1. /\ gone \in Nat /\ to = at - gone /\ to \in Nat /\ recs[k].len \in Nat /\ slack \in Nat
        /\ account.len = at + RegistryLen(recs) + slack /\ at \in Nat
        /\ size = account.len - recs[k].len - gone
        /\ RegistryLen(new) \in Nat /\ RegistryLen(new) = RegistryLen(recs) - recs[k].len
        /\ RegistryLen(recs) \in Nat
    BY <1>3, <1>4, <1>10
  <2> HIDE DEF size, to, gone
  <2> QED
    BY <2>1
<1>12. n \in CoreLens /\ Holds(mid, Core(n), 0)
  <2>1. Holds(account, Core(n), 0) /\ LenOf(Core(n)) = n /\ n \in CoreLens
    BY Lengths DEF WellFormed, Framed
  <2>2. n <= p /\ p <= mid.len /\ 0 + LenOf(Core(n)) <= p
    BY <1>3, <1>4, <1>6, <2>1, LengthsAssumption
  <2> HIDE DEF mid, p
  <2> QED
    BY <1>3, <1>6, <2>1, <2>2, HoldsKept
<1>13. /\ Sized(saved) /\ saved.len = mid.len
       /\ Holds(saved, Core(n), 0) /\ Holds(saved, Header(to), n)
       /\ Holds(saved, Registry(new), to)
       /\ Shifted(account, saved, q, at, diff) /\ Shifted(account, saved, lo, p, 0)
  <2> DEFINE d == 0
  <2>1. n + HeaderLen <= to /\ to + RegistryLen(new) <= mid.len
    BY <1>3, <1>4, <1>6, <1>10
  <2>2. /\ d \in Int /\ Shifted(account, mid, lo, p, d) /\ n + HeaderLen <= lo + d /\ p + d <= to
        /\ n + HeaderLen <= q + diff /\ at + diff <= to
    BY <1>3, <1>4, <1>6, ShiftedPart
  <2> HIDE DEF mid, to, q, diff, d, lo, p
  <2>3. /\ Sized(saved) /\ saved.len = mid.len
        /\ Holds(saved, Core(n), 0) /\ Holds(saved, Header(to), n)
        /\ Holds(saved, Registry(new), to)
        /\ \A old : \A from, end, e \in Int :
             /\ Shifted(old, mid, from, end, e)
             /\ n + HeaderLen <= from + e /\ end + e <= to
             => Shifted(old, saved, from, end, e)
    BY <1>4, <1>6, <1>9, <1>12, <2>1, HeaderSaved
  <2> HIDE DEF saved
  <2>4. Shifted(account, saved, q, at, diff)
    BY <1>3, <1>4, <1>6, <2>2, <2>3
  <2>5. Shifted(account, saved, lo, p, d)
    BY <1>3, <2>2, <2>3
  <2> QED
    BY <2>3, <2>4, <2>5 DEF d
<1> HIDE DEF mid, saved
<1>14. /\ Sized(other) /\ other.len = size
       /\ Holds(other, Core(n), 0) /\ Holds(other, Header(to), n)
       /\ Holds(other, Registry(new), to)
       /\ Shifted(account, other, q, at, diff) /\ Shifted(account, other, lo, p, 0)
  <2>1. /\ LenOf(Core(n)) = n /\ LenOf(Header(to)) = HeaderLen
        /\ LenOf(Registry(new)) = RegistryLen(new)
    BY Lengths
  <2>2. /\ 0 + n <= size /\ n + HeaderLen <= size /\ to + RegistryLen(new) <= size
        /\ at + diff <= size /\ at + diff <= saved.len /\ 0 <= q + diff
        /\ p + 0 <= size /\ p + 0 <= saved.len /\ 0 <= lo + 0
    <3>1. /\ lo = n + HeaderLen /\ lo <= p /\ p <= to /\ at + diff = to /\ q + diff = p
          /\ saved.len = account.len /\ size <= account.len /\ account.len \in Nat
          /\ size = to + RegistryLen(new) + slack /\ size \in Nat
          /\ RegistryLen(new) \in Nat /\ slack \in Nat /\ lo \in Nat /\ p \in Nat /\ to \in Nat
          /\ n \in Nat /\ HeaderLen \in Nat
      BY <1>3, <1>4, <1>6, <1>10, <1>11, <1>13, LengthsAssumption
    <3> HIDE DEF size, to, q, diff, lo, p
    <3> QED
      BY <3>1
  <2> HIDE DEF size, to, q, diff, lo, p
  <2>3. Sized(other) /\ other.len = size
    BY <1>11, <1>13, ResizeBytes
  <2>4. Holds(other, Core(n), 0)
    BY <1>3, <1>11, <1>13, <2>1, <2>2, ResizeHolds
  <2>5. Holds(other, Header(to), n)
    BY <1>3, <1>11, <1>13, <2>1, <2>2, ResizeHolds, LengthsAssumption
  <2>6. Holds(other, Registry(new), to)
    BY <1>4, <1>10, <1>11, <1>13, <2>1, <2>2, ResizeHolds
  <2>7. Shifted(account, other, q, at, diff)
    BY <1>3, <1>4, <1>11, <1>13, <2>2, ResizeKeeps
  <2>8. Shifted(account, other, lo, p, 0)
    BY <1>3, <1>11, <1>13, <2>2, ResizeKeeps
  <2> QED
    BY <2>3, <2>4, <2>5, <2>6, <2>7, <2>8
<1> HIDE DEF other
<1>15. Framed(other, n, to, new, slack)
  BY <1>3, <1>4, <1>9, <1>11, <1>12, <1>14 DEF Framed
<1>16. Body(other, new, lens, lo, at + diff)
  <2>1. other.len \in Nat /\ p <= other.len /\ at + diff <= other.len
    BY <1>3, <1>4, <1>10, <1>11, <1>14
  <2>2. /\ Stop(recs[k], lens[k]) + diff = p /\ p <= Stop(recs[k], lens[k]) + diff
        /\ Shifted(account, other, Stop(recs[k], lens[k]), at, diff)
    BY <1>3, <1>4, <1>14
  <2> HIDE DEF diff, lo, q, to
  <2> QED
    BY <1>1, <1>3, <1>4, <1>9, <1>14, <2>1, <2>2, Rearranged
<1>17. EntriesOf(new, lens) = Instead(EntriesOf(recs, lens), k, NoEntry)
  <2>1. ASSUME NEW j \in Keys \ { k }
        PROVE  /\ recs[j] = NoRecord => new[j] = NoRecord
               /\ recs[j] # NoRecord => /\ new[j] # NoRecord /\ new[j].len = recs[j].len
                                        /\ new[j].dataLen = recs[j].dataLen
    BY <1>7, <1>8, <1>9 DEF Others, Displaced, BumpedBehind, new
  <2> QED
    BY <1>3, <1>9, <2>1 DEF EntriesOf, Instead
<1>18. at + diff = to
  BY <1>4
<1> QED
  BY <1>1, <1>5, <1>15, <1>16, <1>17, <1>18 DEF WellFormed, Turns

LEMMA UpdateCoreTurns ==
  ASSUME NEW n, NEW at, NEW recs, NEW lens, WellFormed(account, n, at, recs, lens, slack),
         NEW m \in CoreLens, UpdateCore(m)
  PROVE  Turns(m, EntriesOf(recs, lens))
<1> DEFINE diff == m - n
           to == at + diff
           lo == n + HeaderLen
           first == m + HeaderLen
           mid == InPlace(account, lo, at, diff)
           new == BumpOffsets(recs, n, diff)
           other == Save(Save(Save(mid, Header(to), m), Registry(new), to), Core(m), 0)
<1>1. /\ CoreLen(account) = n /\ RegistryAt(account) = at /\ Records(account) = recs
      /\ HasMeta(account) /\ n \in Nat \ { 0 } /\ at \in Nat /\ account.len \in Nat
      /\ recs \in Recs /\ RegistryLen(recs) \in Nat \ { 0 }
  BY Read
<1>2. /\ Sized(account) /\ slack \in Nat /\ account.len = at + RegistryLen(recs) + slack
      /\ Body(account, recs, lens, lo, at) /\ lo <= at /\ lo \in Nat
  BY <1>1, LengthsAssumption DEF WellFormed, Framed
<1>3. /\ m \in Nat \ { 0 } /\ diff \in Int /\ lo + diff = first /\ first \in Nat /\ to \in Nat
      /\ first <= to /\ HeaderLen \in Nat \ { 0 }
  BY <1>1, <1>2, LengthsAssumption
<1>4. /\ Sized(mid) /\ mid.len = account.len + diff /\ Shifted(account, mid, lo, at, diff)
  <2>1. 0 <= lo + diff /\ at <= account.len
    BY <1>1, <1>2, <1>3
  <2> HIDE DEF lo, diff
  <2>2. /\ Sized(InPlace(account, lo, at, diff)) /\ InPlace(account, lo, at, diff).len = account.len + diff
        /\ Shifted(account, InPlace(account, lo, at, diff), lo, at, diff)
    <3>1. /\ Sized(account) /\ lo \in Nat /\ at \in Nat /\ diff \in Int
          /\ lo <= at /\ at <= account.len /\ 0 <= lo + diff
      BY <1>1, <1>2, <1>3, <2>1
    <3> QED
      BY <3>1, InPlaceShifts
  <2> QED
    BY <2>2
<1>5. account' = other /\ slack' = slack
  BY <1>1 DEF UpdateCore, Becomes, InPlace
<1>6. /\ new \in Recs
      /\ \A k \in Keys : /\ recs[k] = NoRecord => new[k] = NoRecord
                         /\ recs[k] # NoRecord =>
                              /\ new[k] # NoRecord /\ new[k].len = recs[k].len
                              /\ Displaced(k, recs[k], new[k], diff)
  <2>1. ASSUME NEW k \in Present(recs)
        PROVE  /\ recs[k].at > n /\ recs[k].at + diff >= 0
               /\ k \in DataAdapters => recs[k].dataAt >= recs[k].at
    <3>1. lo <= recs[k].at /\ recs[k].at \in Nat /\ lens[k] \in Nat
          /\ (k \in DataAdapters => recs[k].dataAt = recs[k].at + lens[k])
      BY <2>1, Named
    <3> QED
      BY <1>1, <1>3, <3>1
  <2> HIDE DEF diff
  <2>2. /\ new \in Recs
        /\ \A k \in Keys : /\ recs[k] = NoRecord => new[k] = NoRecord
                           /\ recs[k] # NoRecord =>
                                /\ new[k] # NoRecord /\ new[k].len = recs[k].len
                                /\ Displaced(k, recs[k], new[k], IF recs[k].at <= n THEN 0 ELSE diff)
    BY <1>1, <1>3, <2>1, Bumps
  <2> HIDE DEF new
  <2>3. \A k \in Keys : recs[k] # NoRecord => ~(recs[k].at <= n)
    <3> SUFFICES ASSUME NEW k \in Keys, recs[k] # NoRecord PROVE ~(recs[k].at <= n)
      OBVIOUS
    <3>1. k \in Present(recs)
      BY DEF Present
    <3> QED
      BY <1>1, <2>1, <3>1, RecordFields
  <2> QED
    BY <2>2, <2>3
<1> HIDE DEF new
<1>7. RegistryLen(new) = RegistryLen(recs)
  <2>1. \A k \in Keys : LenAt(new, k) = LenAt(recs, k)
    BY <1>6 DEF LenAt
  <2> QED
    BY <1>1, <1>6, <2>1, RegistryLenStays
<1>8. mid.len = to + RegistryLen(new) + slack /\ to <= mid.len /\ to + RegistryLen(new) <= mid.len
      /\ mid.len \in Nat /\ m <= to
  BY <1>1, <1>2, <1>3, <1>4, <1>7
<1>9. /\ Sized(other) /\ other.len = mid.len /\ Holds(other, Header(to), m)
      /\ Holds(other, Registry(new), to) /\ Holds(other, Core(m), 0)
      /\ Shifted(account, other, lo, at, diff)
  <2>1. /\ LenOf(Core(m)) = m /\ LenOf(Header(to)) = HeaderLen
        /\ LenOf(Registry(new)) = RegistryLen(new)
    BY Lengths
  <2>2. /\ lo + diff = first /\ at + diff = to /\ 0 <= lo + diff /\ at + diff <= mid.len
    BY <1>3, <1>8
  <2>3. /\ Fits(mid, Header(to), m) /\ Fits(mid, Registry(new), to) /\ Fits(mid, Core(m), 0)
        /\ Clear(Registry(new), to, m, m + LenOf(Header(to)))
        /\ Clear(Core(m), 0, m, m + LenOf(Header(to)))
        /\ Clear(Core(m), 0, to, to + LenOf(Registry(new)))
        /\ Clear(Header(to), m, lo + diff, at + diff)
        /\ Clear(Registry(new), to, lo + diff, at + diff)
        /\ Clear(Core(m), 0, lo + diff, at + diff)
    <3>1. RegistryLen(new) \in Nat /\ first = m + HeaderLen
      BY <1>1, <1>7
    <3> HIDE DEF first, to, lo, diff
    <3> QED
      BY <1>3, <1>8, <2>1, <2>2, <3>1 DEF Fits, Clear
  <2> HIDE DEF mid, to, diff, lo
  <2>4. /\ Sized(other) /\ other.len = mid.len /\ Holds(other, Header(to), m)
        /\ Holds(other, Registry(new), to) /\ Holds(other, Core(m), 0)
        /\ \A old : \A from, end, d \in Int :
             /\ Shifted(old, mid, from, end, d)
             /\ 0 <= from + d /\ end + d <= mid.len
             /\ Clear(Header(to), m, from + d, end + d)
             /\ Clear(Registry(new), to, from + d, end + d)
             /\ Clear(Core(m), 0, from + d, end + d)
             => Shifted(old, other, from, end, d)
    BY <1>4, <2>3, ThreeSaves
  <2> HIDE DEF other
  <2>5. Shifted(account, other, lo, at, diff)
    BY <1>1, <1>2, <1>3, <1>4, <2>2, <2>3, <2>4
  <2> QED
    BY <2>4, <2>5
<1> HIDE DEF other, mid
<1>10. Framed(other, m, to, new, slack)
  BY <1>2, <1>3, <1>6, <1>8, <1>9 DEF Framed
<1>11. Body(other, new, lens, first, to)
  <2>1. lo + diff = first /\ at + diff = to /\ at + diff <= other.len /\ other.len \in Nat
    BY <1>3, <1>8, <1>9
  <2> HIDE DEF lo, diff, first, to
  <2>2. Body(other, new, lens, lo + diff, at + diff)
    BY <1>1, <1>2, <1>3, <1>6, <1>9, <2>1, AllMoved
  <2> QED
    BY <2>1, <2>2
<1>12. EntriesOf(new, lens) = EntriesOf(recs, lens)
  BY <1>6 DEF EntriesOf, Displaced
<1> QED
  BY <1>5, <1>10, <1>11, <1>12 DEF WellFormed, Turns

LEMMA UpdateBareCore ==
  ASSUME NEW n, Bare(account, n), NEW m \in CoreLens, UpdateCore(m)
  PROVE  Bare(account', m) /\ slack' = slack
<1> DEFINE mid == Resize(account, m)
<1>1. account' = Save(mid, Core(m), 0) /\ slack' = slack
  BY BareRead DEF UpdateCore, Becomes
<1>2. m \in Nat /\ LenOf(Core(m)) = m
  BY Lengths, LengthsAssumption
<1>3. Sized(mid) /\ mid.len = m
  BY <1>2, ResizeBytes DEF Bare
<1> HIDE DEF mid
<1>4. Fits(mid, Core(m), 0)
  BY <1>2, <1>3 DEF Fits
<1>5. /\ Sized(Save(mid, Core(m), 0)) /\ Save(mid, Core(m), 0).len = m
      /\ Holds(Save(mid, Core(m), 0), Core(m), 0)
  BY <1>3, <1>4, OneSave
<1> QED
  BY <1>1, <1>5 DEF Bare

LEMMA NoRecordsLen ==
  NoRecords \in Recs /\ Present(NoRecords) = {} /\ RegistryLen(NoRecords) = RegistryBase
<1>1. NoRecords \in Recs /\ Present(NoRecords) = {}
  BY DEF NoRecords, Recs, Present
<1>2. RecordBytes(NoRecords) = {}
  BY DEF RecordBytes, NoRecords
<1> QED
  BY <1>1, <1>2, FS_EmptySet, LengthsAssumption DEF RegistryLen

\* create_meta_idempotent gives an account without plugins an empty registry.
LEMMA WithMetaFormed ==
  ASSUME NEW acc, NEW n, Bare(acc, n), NEW lens
  PROVE  WellFormed(WithMeta(acc), n, n + HeaderLen, NoRecords, lens, 0)
<1> DEFINE at == n + HeaderLen
           grown == Resize(acc, at + RegistryBase)
           other == Save(Save(grown, Header(at), n), Registry(NoRecords), at)
<1>1. /\ n \in Nat \ { 0 } /\ n \in CoreLens /\ HeaderLen \in Nat \ { 0 } /\ at \in Nat
      /\ RegistryBase \in Nat \ { 0 } /\ at + RegistryBase \in Nat
      /\ Sized(acc) /\ acc.len = n /\ Holds(acc, Core(n), 0) /\ LenOf(Core(n)) = n
  BY LengthsAssumption, Lengths DEF Bare
<1>2. WithMeta(acc) = other
  BY BareRead DEF WithMeta
<1>3. /\ Sized(grown) /\ grown.len = at + RegistryBase /\ Holds(grown, Core(n), 0)
  <2> DEFINE size == at + RegistryBase
  <2>1. size \in Nat /\ 0 + LenOf(Core(n)) <= size
    BY <1>1
  <2> HIDE DEF size
  <2>2. Sized(Resize(acc, size)) /\ Resize(acc, size).len = size
    BY <1>1, <2>1, ResizeBytes
  <2>3. Holds(Resize(acc, size), Core(n), 0)
    BY <1>1, <2>1, ResizeHolds
  <2> QED
    BY <2>2, <2>3 DEF size
<1>4. /\ Sized(other) /\ other.len = grown.len
      /\ Holds(other, Core(n), 0) /\ Holds(other, Header(at), n)
      /\ Holds(other, Registry(NoRecords), at)
  <2>1. n + HeaderLen <= at /\ at + RegistryLen(NoRecords) <= grown.len
    BY <1>1, <1>3, NoRecordsLen
  <2> HIDE DEF grown
  <2> QED
    BY <1>1, <1>3, <2>1, NoRecordsLen, HeaderSaved
<1> HIDE DEF other, grown
<1>5. Framed(other, n, at, NoRecords, 0)
  BY <1>1, <1>3, <1>4, NoRecordsLen DEF Framed
<1>6. Body(other, NoRecords, lens, at, at)
  BY <1>1, NoRecordsLen DEF Body, Tiled
<1> QED
  BY <1>2, <1>5, <1>6 DEF WellFormed

\* What the account stands for, with plugins or without.
Stored(n, at, recs, lens) ==
  \/ WellFormed(account, n, at, recs, lens, slack)
  \/ Bare(account, n) /\ slack = 0 /\ at = n + HeaderLen /\ recs = NoRecords

\* The account before an addition.
LEMMA Additions ==
  ASSUME NEW n, NEW at, NEW recs, NEW lens, Stored(n, at, recs, lens)
  PROVE  /\ WellFormed(WithMeta(account), n, at, recs, lens, slack)
         /\ \A k \in Keys : Has(k) <=> recs[k] # NoRecord
<1>1. CASE WellFormed(account, n, at, recs, lens, slack)
  BY <1>1, Read DEF WithMeta, Has
<1>2. CASE Bare(account, n) /\ slack = 0 /\ at = n + HeaderLen /\ recs = NoRecords
  <2>1. ~HasMeta(account)
    BY <1>2, BareRead
  <2> QED
    BY <1>2, <2>1, WithMetaFormed DEF Has, NoRecords
<1> QED
  BY <1>1, <1>2 DEF Stored

LEMMA AdapterAdded ==
  ASSUME NEW acc, NEW n, NEW at, NEW recs, NEW lens, NEW sl,
         WellFormed(acc, n, at, recs, lens, sl),
         NEW k \in Keys, recs[k] = NoRecord, NEW m \in PluginLens, NEW len \in RecordLens,
         NEW d \in DataLens, k \notin DataAdapters => d = 0
  PROVE  \E new, newlens :
           /\ WellFormed(InitializeAdapter(acc, k, m, len, d), n, at + m + d, new, newlens, sl)
           /\ EntriesOf(new, newlens)
                = Instead(EntriesOf(recs, lens), k, [plugin |-> m, record |-> len, data |-> d])
<1> DEFINE rec == [at |-> at, len |-> len,
                   dataAt |-> IF k \in DataAdapters THEN at + m ELSE 0, dataLen |-> d]
           new == [recs EXCEPT ![k] = rec]
           newlens == Instead(lens, k, m)
           to == at + m + d
           size == acc.len + m + len + d
           grown == Resize(acc, size)
           headed == Save(grown, Header(to), n)
           placed == Save(headed, Plugin(k, m), at)
           filled == Save(placed, Data(k, d), at + m)
           other == Save(filled, Registry(new), to)
           lo == n + HeaderLen
<1>1. /\ CoreLen(acc) = n /\ RegistryAt(acc) = at /\ Records(acc) = recs
      /\ n \in Nat \ { 0 } /\ at \in Nat /\ acc.len \in Nat /\ recs \in Recs
      /\ RegistryLen(recs) \in Nat \ { 0 }
  BY Read
<1>2. /\ Sized(acc) /\ n \in CoreLens /\ sl \in Nat /\ lo <= at /\ lo \in Nat
      /\ acc.len = at + RegistryLen(recs) + sl
      /\ Holds(acc, Core(n), 0) /\ Body(acc, recs, lens, lo, at)
  BY <1>1, LengthsAssumption DEF WellFormed, Framed
<1>3. /\ m \in Nat \ { 0 } /\ len \in Nat /\ d \in Nat /\ HeaderLen \in Nat \ { 0 }
      /\ to \in Nat /\ size \in Nat /\ at + m \in Nat /\ at + m <= to /\ at <= to
  BY <1>1, LengthsAssumption
<1>4. InitializeAdapter(acc, k, m, len, d) = other
  BY <1>1 DEF InitializeAdapter
<1>5. /\ new \in Recs /\ new[k] = rec /\ rec \in Record /\ rec # NoRecord
      /\ \A j \in Keys \ { k } : new[j] = recs[j]
      /\ newlens[k] = m /\ \A j \in Keys \ { k } : newlens[j] = lens[j]
  <2>1. rec \in Record
    BY <1>1, <1>3 DEF Record
  <2> HIDE DEF rec
  <2> QED
    BY <1>1, <2>1, NoRecordAssumption DEF Recs, Instead
<1>6. /\ rec.at = at /\ rec.len = len /\ rec.dataLen = d
      /\ rec.dataAt = IF k \in DataAdapters THEN at + m ELSE 0
  OBVIOUS
<1> HIDE DEF rec, new, newlens
<1>7. /\ RegistryLen(new) \in Nat \ { 0 } /\ RegistryLen(new) = RegistryLen(recs) + len
  <2>1. LenAt(new, k) = len /\ LenAt(recs, k) = 0
    BY <1>5, <1>6 DEF LenAt
  <2>2. \A j \in Keys \ { k } : LenAt(new, j) = LenAt(recs, j)
    BY <1>5 DEF LenAt
  <2>3. /\ RegistryLen(new) \in Nat \ { 0 }
        /\ RegistryLen(new) - LenAt(new, k) = RegistryLen(recs) - LenAt(recs, k)
    BY <1>1, <1>5, <2>2, RegistryLenChanges
  <2> QED
    BY <1>1, <1>3, <2>1, <2>3
<1>8. size = to + RegistryLen(new) + sl /\ acc.len <= size /\ at <= acc.len /\ to + RegistryLen(new) <= size
  <2>1. to = at + m + d /\ size = acc.len + m + len + d
    OBVIOUS
  <2> HIDE DEF to, size
  <2> QED
    BY <1>1, <1>2, <1>3, <1>7, <2>1
<1>9. /\ LenOf(Core(n)) = n /\ LenOf(Header(to)) = HeaderLen /\ LenOf(Plugin(k, m)) = m
      /\ LenOf(Data(k, d)) = d /\ LenOf(Registry(new)) = RegistryLen(new)
  BY Lengths
<1>10. to = at + m + d /\ lo = n + HeaderLen /\ n <= lo
  BY <1>1, <1>3
<1> DEFINE z == 0
<1>11. /\ Sized(grown) /\ grown.len = size /\ Holds(grown, Core(n), 0)
       /\ Shifted(acc, grown, lo, at, z)
  <2>1. 0 + LenOf(Core(n)) <= size /\ lo + z <= size /\ at + z <= size /\ at + z <= acc.len /\ 0 <= lo + z
    BY <1>1, <1>2, <1>3, <1>8, <1>9, <1>10
  <2>2. Shifted(acc, acc, lo, at, z) /\ z \in Int
    BY <1>1, <1>2, Untouched
  <2> HIDE DEF size, lo, z
  <2>3. Sized(grown) /\ grown.len = size
    BY <1>2, <1>3, ResizeBytes
  <2>4. Holds(grown, Core(n), 0)
    BY <1>1, <1>2, <1>3, <1>9, <2>1, ResizeHolds
  <2>5. Shifted(acc, grown, lo, at, z)
    BY <1>1, <1>2, <1>3, <2>1, <2>2, ResizeKeeps
  <2> QED
    BY <2>3, <2>4, <2>5
<1> HIDE DEF grown
<1>12. z \in Int /\ lo + z = lo /\ at + z = at
  BY <1>1, <1>2
<1> HIDE DEF z, lo, to, size
<1>13. /\ Sized(headed) /\ headed.len = size /\ Holds(headed, Core(n), 0)
       /\ Holds(headed, Header(to), n) /\ Shifted(acc, headed, lo, at, z)
  <2>1. /\ Fits(grown, Header(to), n) /\ Clear(Header(to), n, 0, 0 + LenOf(Core(n)))
        /\ Clear(Header(to), n, lo + z, at + z) /\ 0 <= lo + z /\ at + z <= grown.len
    BY <1>1, <1>2, <1>3, <1>8, <1>9, <1>10, <1>11, <1>12 DEF Fits, Clear
  <2>2. LenOf(Core(n)) \in Nat
    BY <1>1, <1>9
  <2> QED
    BY <1>1, <1>2, <1>11, <1>12, <2>1, <2>2, OneSave
<1> HIDE DEF headed
<1>14. /\ Sized(placed) /\ placed.len = size /\ Holds(placed, Core(n), 0)
       /\ Holds(placed, Header(to), n) /\ Shifted(acc, placed, lo, at, z)
       /\ Holds(placed, Plugin(k, m), at)
  <2>1. /\ Fits(headed, Plugin(k, m), at) /\ Clear(Plugin(k, m), at, 0, 0 + LenOf(Core(n)))
        /\ Clear(Plugin(k, m), at, n, n + LenOf(Header(to)))
        /\ Clear(Plugin(k, m), at, lo + z, at + z) /\ 0 <= lo + z /\ at + z <= headed.len
    BY <1>1, <1>2, <1>3, <1>7, <1>8, <1>9, <1>10, <1>12, <1>13 DEF Fits, Clear
  <2>2. LenOf(Core(n)) \in Nat /\ LenOf(Header(to)) \in Nat
    BY <1>1, <1>3, <1>9
  <2> QED
    BY <1>1, <1>2, <1>12, <1>13, <2>1, <2>2, OneSave
<1> HIDE DEF placed
<1>15. /\ Sized(filled) /\ filled.len = size /\ Holds(filled, Core(n), 0)
       /\ Holds(filled, Header(to), n) /\ Shifted(acc, filled, lo, at, z)
       /\ Holds(filled, Plugin(k, m), at) /\ Holds(filled, Data(k, d), at + m)
  <2>1. /\ Fits(placed, Data(k, d), at + m) /\ Clear(Data(k, d), at + m, 0, 0 + LenOf(Core(n)))
        /\ Clear(Data(k, d), at + m, n, n + LenOf(Header(to)))
        /\ Clear(Data(k, d), at + m, at, at + LenOf(Plugin(k, m)))
        /\ Clear(Data(k, d), at + m, lo + z, at + z) /\ 0 <= lo + z /\ at + z <= placed.len
    BY <1>1, <1>2, <1>3, <1>7, <1>8, <1>9, <1>10, <1>12, <1>14 DEF Fits, Clear
  <2>2. LenOf(Core(n)) \in Nat /\ LenOf(Header(to)) \in Nat /\ LenOf(Plugin(k, m)) \in Nat
    BY <1>1, <1>3, <1>9
  <2> QED
    BY <1>1, <1>2, <1>12, <1>14, <2>1, <2>2, OneSave
<1> HIDE DEF filled
<1>16. /\ Sized(other) /\ other.len = size /\ Holds(other, Core(n), 0)
       /\ Holds(other, Header(to), n) /\ Shifted(acc, other, lo, at, z)
       /\ Holds(other, Plugin(k, m), at) /\ Holds(other, Data(k, d), at + m)
       /\ Holds(other, Registry(new), to)
  <2>1. /\ Fits(filled, Registry(new), to) /\ Clear(Registry(new), to, 0, 0 + LenOf(Core(n)))
        /\ Clear(Registry(new), to, n, n + LenOf(Header(to)))
        /\ Clear(Registry(new), to, at, at + LenOf(Plugin(k, m)))
        /\ Clear(Registry(new), to, at + m, at + m + LenOf(Data(k, d)))
        /\ Clear(Registry(new), to, lo + z, at + z) /\ 0 <= lo + z /\ at + z <= filled.len
    BY <1>1, <1>2, <1>3, <1>7, <1>8, <1>9, <1>10, <1>12, <1>15 DEF Fits, Clear
  <2>2. LenOf(Core(n)) \in Nat /\ LenOf(Header(to)) \in Nat /\ LenOf(Plugin(k, m)) \in Nat
        /\ LenOf(Data(k, d)) \in Nat
    BY <1>1, <1>3, <1>9
  <2> QED
    BY <1>1, <1>2, <1>3, <1>12, <1>15, <2>1, <2>2, OneSave
<1> HIDE DEF other
<1>17. Framed(other, n, to, new, sl)
  BY <1>1, <1>2, <1>3, <1>5, <1>8, <1>10, <1>16 DEF Framed
<1>18. Placed(other, k, new[k], newlens[k])
  BY <1>1, <1>3, <1>5, <1>6, <1>16 DEF Placed
<1>19. Body(other, new, newlens, lo, to)
  <2>1. Body(other, recs, lens, lo, at)
    <3>1. ASSUME NEW j \in Present(recs) PROVE Placed(other, j, recs[j], lens[j])
      <4>1. /\ recs[j] \in Record /\ Placed(acc, j, recs[j], lens[j])
            /\ lo <= recs[j].at /\ Stop(recs[j], lens[j]) <= at
        BY <1>1, <1>2, <3>1, RecordFields DEF Body, Tiled
      <4>2. Displaced(j, recs[j], recs[j], z) /\ at + z <= other.len /\ other.len \in Nat
        BY <1>1, <1>3, <1>8, <1>12, <1>16, <3>1, RecordFields DEF Displaced, z
      <4> QED
        BY <1>1, <1>2, <1>12, <1>16, <3>1, <4>1, <4>2, PlacedShifted
    <3> QED
      BY <1>2, <3>1 DEF Body
  <2>2. new[k].at = at /\ Stop(new[k], newlens[k]) = to
    BY <1>1, <1>3, <1>5, <1>6, <1>10 DEF Stop
  <2> QED
    BY <1>1, <1>2, <1>3, <1>5, <1>18, <2>1, <2>2, Appended
<1>20. EntriesOf(new, newlens)
         = Instead(EntriesOf(recs, lens), k, [plugin |-> m, record |-> len, data |-> d])
  BY <1>5, <1>6 DEF EntriesOf, Instead
<1> QED
  BY <1>4, <1>17, <1>19, <1>20 DEF WellFormed, to, lo

\* A plugin is added like an adapter without data.
LEMMA PluginAsAdapter ==
  ASSUME NEW acc, acc.len \in Nat, RegistryAt(acc) \in Nat,
         NEW k \in Plugins, NEW m \in Nat, NEW len \in Nat
  PROVE  InitializePlugin(acc, k, m, len) = InitializeAdapter(acc, k, m, len, 0)
<1> DEFINE at == RegistryAt(acc)
           rec == [at |-> at, len |-> len, dataAt |-> 0, dataLen |-> 0]
           placed == Save(Save(Resize(acc, acc.len + m + len), Header(at + m), CoreLen(acc)),
                          Plugin(k, m), at)
<1>1. k \notin DataAdapters /\ at + m + 0 = at + m /\ acc.len + m + len + 0 = acc.len + m + len
  BY LayoutKeysAssumption
<1>2. InitializePlugin(acc, k, m, len)
        = Save(placed, Registry([Records(acc) EXCEPT ![k] = rec]), at + m)
  BY DEF InitializePlugin
<1>3. InitializeAdapter(acc, k, m, len, 0)
        = Save(Save(placed, Data(k, 0), at + m), Registry([Records(acc) EXCEPT ![k] = rec]), at + m)
  BY <1>1 DEF InitializeAdapter
<1>4. Save(placed, Data(k, 0), at + m) = placed
  <2> DEFINE old == Resize(acc, acc.len + m + len)
             one == Save(old, Header(at + m), CoreLen(acc))
             f == [i \in 0 .. one.len - 1 |->
                     IF at <= i /\ i < at + LenOf(Plugin(k, m)) THEN << Plugin(k, m), i - at >>
                     ELSE one.bytes[i]]
  <2>1. placed = [len |-> one.len, bytes |-> f]
    BY DEF Save
  <2>2. placed.len = one.len /\ placed.bytes = f
    <3> HIDE DEF placed, one, f
    <3> QED
      BY <2>1
  <2>3. LenOf(Data(k, 0)) = 0 /\ at + m \in Int
    BY Lengths
  <2> DEFINE g == [i \in 0 .. placed.len - 1 |->
                     IF at + m <= i /\ i < at + m + LenOf(Data(k, 0))
                     THEN << Data(k, 0), i - (at + m) >> ELSE placed.bytes[i]]
  <2>4. Save(placed, Data(k, 0), at + m) = [len |-> placed.len, bytes |-> g]
    BY DEF Save
  <2>5. g = f
    <3>1. DOMAIN f = 0 .. one.len - 1 /\ f = [i \in 0 .. one.len - 1 |-> f[i]]
      OBVIOUS
    <3>2. ASSUME NEW i \in 0 .. one.len - 1
          PROVE  ~(at + m <= i /\ i < at + m + LenOf(Data(k, 0)))
      BY <2>3
    <3> HIDE DEF f, one, placed
    <3>3. g = [i \in 0 .. one.len - 1 |-> f[i]]
      BY <2>2, <3>2
    <3> QED
      BY <3>1, <3>3
  <2> HIDE DEF f, g, one, placed
  <2> QED
    BY <2>1, <2>2, <2>4, <2>5
<1> QED
  BY <1>2, <1>3, <1>4

LEMMA AddPluginTurns ==
  ASSUME NEW n, NEW at, NEW recs, NEW lens, Stored(n, at, recs, lens),
         NEW k \in Plugins, NEW m \in PluginLens, NEW len \in RecordLens, AddPlugin(k, m, len)
  PROVE  /\ recs[k] = NoRecord
         /\ Turns(n, Instead(EntriesOf(recs, lens), k, [plugin |-> m, record |-> len, data |-> 0]))
<1> DEFINE acc == WithMeta(account)
<1>1. k \in Keys /\ 0 \in DataLens /\ m \in Nat /\ len \in Nat
  BY LengthsAssumption DEF Keys
<1>2. WellFormed(acc, n, at, recs, lens, slack) /\ recs[k] = NoRecord
  BY <1>1, Additions DEF AddPlugin
<1>3. account' = InitializePlugin(acc, k, m, len) /\ slack' = slack
  BY DEF AddPlugin, Becomes
<1> HIDE DEF acc
<1>4. InitializePlugin(acc, k, m, len) = InitializeAdapter(acc, k, m, len, 0)
  BY <1>1, <1>2, Read, PluginAsAdapter
<1>5. \E new, newlens :
        /\ WellFormed(InitializeAdapter(acc, k, m, len, 0), n, at + m + 0, new, newlens, slack)
        /\ EntriesOf(new, newlens)
             = Instead(EntriesOf(recs, lens), k, [plugin |-> m, record |-> len, data |-> 0])
  BY <1>1, <1>2, AdapterAdded
<1> QED
  BY <1>2, <1>3, <1>4, <1>5 DEF Turns

LEMMA AddSectionTurns ==
  ASSUME NEW n, NEW at, NEW recs, NEW lens, Stored(n, at, recs, lens),
         NEW k \in Adapters, NEW m \in PluginLens, NEW len \in RecordLens, NEW d \in DataLens,
         AddSection(k, m, len, d) \/ (d = 0 /\ AddAdapter(k, m, len))
  PROVE  /\ recs[k] = NoRecord
         /\ Turns(n, Instead(EntriesOf(recs, lens), k, [plugin |-> m, record |-> len, data |-> d]))
<1> DEFINE acc == WithMeta(account)
<1>1. k \in Keys /\ (k \notin DataAdapters => d = 0)
  BY DEF Keys, AddSection
<1>2. WellFormed(acc, n, at, recs, lens, slack) /\ recs[k] = NoRecord
  BY <1>1, Additions DEF AddSection, AddAdapter
<1>3. account' = InitializeAdapter(acc, k, m, len, d) /\ slack' = slack
  BY DEF AddSection, AddAdapter, Becomes
<1> HIDE DEF acc
<1>4. \E new, newlens :
        /\ WellFormed(InitializeAdapter(acc, k, m, len, d), n, at + m + d, new, newlens, slack)
        /\ EntriesOf(new, newlens)
             = Instead(EntriesOf(recs, lens), k, [plugin |-> m, record |-> len, data |-> d])
  BY <1>1, <1>2, AdapterAdded
<1> QED
  BY <1>2, <1>3, <1>4 DEF Turns

\* Records that keep their offsets are written over the old registry.
LEMMA Relabels ==
  ASSUME NEW acc, NEW n, NEW at, NEW recs, NEW lens, NEW sl,
         WellFormed(acc, n, at, recs, lens, sl),
         NEW new \in Recs, NEW more \in Nat, NEW size, size = at + RegistryLen(new) + more,
         \A k \in Keys : /\ recs[k] = NoRecord => new[k] = NoRecord
                         /\ recs[k] # NoRecord =>
                              /\ new[k] # NoRecord /\ new[k].at = recs[k].at
                              /\ new[k].dataAt = recs[k].dataAt /\ new[k].dataLen = recs[k].dataLen,
         NEW mid, mid = Resize(acc, size) \/ (mid = acc /\ acc.len = size)
  PROVE  WellFormed(Save(mid, Registry(new), at), n, at, new, lens, more)
<1> DEFINE other == Save(mid, Registry(new), at)
           lo == n + HeaderLen
<1>1. /\ n \in Nat \ { 0 } /\ at \in Nat /\ acc.len \in Nat /\ recs \in Recs
      /\ RegistryLen(new) \in Nat \ { 0 } /\ HeaderLen \in Nat \ { 0 }
      /\ RegistryLen(recs) \in Nat \ { 0 }
  BY Read, RecordBytesFinite, LengthsAssumption DEF RegistryLen
<1>2. /\ Sized(acc) /\ n \in CoreLens /\ lo <= at /\ lo \in Nat /\ sl \in Nat
      /\ acc.len = at + RegistryLen(recs) + sl
      /\ Holds(acc, Core(n), 0) /\ Holds(acc, Header(at), n)
      /\ Body(acc, recs, lens, lo, at)
  BY <1>1 DEF WellFormed, Framed
<1>3. /\ LenOf(Core(n)) = n /\ LenOf(Header(at)) = HeaderLen
      /\ LenOf(Registry(new)) = RegistryLen(new)
  BY Lengths
<1>4. /\ size \in Nat /\ at <= size /\ at <= acc.len /\ at + RegistryLen(new) <= size
      /\ lo = n + HeaderLen /\ n <= lo
  BY <1>1, <1>2
<1> HIDE DEF lo
<1> DEFINE z == 0
<1>5. z \in Int /\ lo + z = lo /\ at + z = at
  BY <1>1, <1>2
<1>6. /\ Sized(mid) /\ mid.len = size /\ Holds(mid, Core(n), 0) /\ Holds(mid, Header(at), n)
      /\ Shifted(acc, mid, lo, at, z)
  <2>1. CASE mid = Resize(acc, size)
    <3>1. Sized(mid) /\ mid.len = size
      BY <1>2, <1>4, <2>1, ResizeBytes
    <3>2. Holds(mid, Core(n), 0)
      <4>1. 0 + LenOf(Core(n)) <= size /\ LenOf(Core(n)) \in Nat
        BY <1>1, <1>2, <1>3, <1>4
      <4> QED
        BY <1>2, <1>4, <2>1, <4>1, ResizeHolds
    <3>3. Holds(mid, Header(at), n)
      <4>1. n + LenOf(Header(at)) <= size /\ LenOf(Header(at)) \in Nat
        BY <1>1, <1>2, <1>3, <1>4
      <4> QED
        BY <1>1, <1>2, <1>4, <2>1, <4>1, ResizeHolds
    <3>4. Shifted(acc, mid, lo, at, z)
      <4>1. 0 <= lo + z /\ at + z <= size /\ at + z <= acc.len
        BY <1>2, <1>4, <1>5
      <4>2. Shifted(acc, acc, lo, at, z)
        BY <1>1, <1>2, Untouched
      <4> HIDE DEF z
      <4> QED
        BY <1>1, <1>2, <1>4, <1>5, <2>1, <4>1, <4>2, ResizeKeeps
    <3> QED
      BY <3>1, <3>2, <3>3, <3>4
  <2>2. CASE mid = acc /\ acc.len = size
    BY <1>1, <1>2, <2>2, Untouched
  <2> QED
    BY <2>1, <2>2
<1> HIDE DEF z
<1>7. /\ Sized(other) /\ other.len = size /\ Holds(other, Core(n), 0)
      /\ Holds(other, Header(at), n) /\ Holds(other, Registry(new), at)
      /\ Shifted(acc, other, lo, at, z)
  <2>1. /\ Fits(mid, Registry(new), at) /\ Clear(Registry(new), at, 0, 0 + LenOf(Core(n)))
        /\ Clear(Registry(new), at, n, n + LenOf(Header(at)))
        /\ Clear(Registry(new), at, lo + z, at + z) /\ 0 <= lo + z /\ at + z <= mid.len
        /\ LenOf(Core(n)) \in Nat /\ LenOf(Header(at)) \in Nat
    BY <1>1, <1>2, <1>3, <1>4, <1>5, <1>6 DEF Fits, Clear
  <2> QED
    BY <1>1, <1>2, <1>5, <1>6, <2>1, OneSave
<1> HIDE DEF other
<1>8. Framed(other, n, at, new, more)
  BY <1>1, <1>2, <1>4, <1>7 DEF Framed
<1>9. Body(other, new, lens, lo, at)
  <2>1. ASSUME NEW k \in Keys
        PROVE  /\ recs[k] = NoRecord => new[k] = NoRecord
               /\ recs[k] # NoRecord => new[k] # NoRecord /\ Displaced(k, recs[k], new[k], 0)
    <3>1. recs[k] # NoRecord => recs[k].at \in Nat /\ recs[k].dataAt \in Nat
      BY <1>1, RecordFields DEF Present
    <3> QED
      BY <3>1 DEF Displaced
  <2>2. at <= other.len /\ other.len \in Nat /\ Shifted(acc, other, lo, at, 0)
    BY <1>4, <1>7 DEF z
  <2> QED
    BY <1>1, <1>2, <2>1, <2>2, AllKept
<1> QED
  BY <1>8, <1>9 DEF WellFormed, lo, other

LEMMA SetAuthorityTurns ==
  ASSUME NEW n, NEW at, NEW recs, NEW lens, WellFormed(account, n, at, recs, lens, slack),
         NEW k \in Plugins, NEW len \in RecordLens, SetAuthority(k, len)
  PROVE  /\ k \in Present(recs)
         /\ Turns(n, Instead(EntriesOf(recs, lens), k,
                             [plugin |-> lens[k], record |-> len, data |-> recs[k].dataLen]))
<1> DEFINE new == [recs EXCEPT ![k].len = len]
           size == account.len + len - recs[k].len
<1>1. k \in Present(recs)
  BY HasPresent DEF SetAuthority, Keys
<1>2. CoreLen(account) = n /\ RegistryAt(account) = at /\ Records(account) = recs
  BY Read
<1>3. /\ k \in Keys /\ recs \in Recs /\ recs[k] # NoRecord /\ recs[k] \in Record
      /\ recs[k].len \in Nat \ { 0 } /\ recs[k].at \in Nat /\ recs[k].dataAt \in Nat
      /\ recs[k].dataLen \in Nat
      /\ account.len = at + RegistryLen(recs) + slack /\ at \in Nat /\ slack \in Nat
      /\ RegistryLen(recs) \in Nat \ { 0 } /\ account.len \in Nat
  BY <1>1, Named
<1>4. account' = Save(Resize(account, size), Registry(new), at) /\ slack' = slack
  BY <1>2 DEF SetAuthority, Becomes
<1>5. Relabelled(recs, new, k, len)
  <2>1. /\ new[k] = [at |-> recs[k].at, len |-> len,
                     dataAt |-> recs[k].dataAt, dataLen |-> recs[k].dataLen]
        /\ \A j \in Keys \ { k } : new[j] = recs[j]
        /\ new = [j \in Keys |-> new[j]]
    BY <1>3 DEF Recs, Record
  <2> HIDE DEF new
  <2>2. new[k] \in Record
    BY <1>3, <2>1 DEF Record
  <2>3. \A j \in Keys : new[j] \in Record \cup { NoRecord }
    BY <1>3, <2>1, <2>2 DEF Recs
  <2>4. new \in Recs
    BY <2>1, <2>3 DEF Recs
  <2> QED
    BY <2>1, <2>2, <2>4, NoRecordAssumption DEF Relabelled
<1> HIDE DEF new
<1>6. size = at + RegistryLen(new) + slack
  <2>1. new \in Recs /\ \A j \in Keys \ { k } : LenAt(new, j) = LenAt(recs, j)
    BY <1>5 DEF Relabelled, LenAt
  <2>2. LenAt(new, k) = len /\ LenAt(recs, k) = recs[k].len /\ len \in Nat
    BY <1>3, <1>5, LengthsAssumption DEF Relabelled, LenAt
  <2>3. /\ RegistryLen(new) \in Nat
        /\ RegistryLen(new) - LenAt(new, k) = RegistryLen(recs) - LenAt(recs, k)
    BY <1>3, <2>1, RegistryLenChanges
  <2> QED
    BY <1>3, <2>2, <2>3
<1>7. WellFormed(account', n, at, new, lens, slack)
  <2>1. /\ new \in Recs
        /\ \A j \in Keys : /\ recs[j] = NoRecord => new[j] = NoRecord
                           /\ recs[j] # NoRecord =>
                                /\ new[j] # NoRecord /\ new[j].at = recs[j].at
                                /\ new[j].dataAt = recs[j].dataAt /\ new[j].dataLen = recs[j].dataLen
    BY <1>3, <1>5 DEF Relabelled
  <2> HIDE DEF size
  <2> DEFINE mid == Resize(account, size)
  <2>2. mid = Resize(account, size) \/ (mid = account /\ account.len = size)
    OBVIOUS
  <2> HIDE DEF mid
  <2>3. WellFormed(Save(mid, Registry(new), at), n, at, new, lens, slack)
    BY <1>3, <1>6, <2>1, <2>2, Relabels
  <2> QED
    BY <1>4, <2>3 DEF mid
<1>8. EntriesOf(new, lens)
        = Instead(EntriesOf(recs, lens), k,
                  [plugin |-> lens[k], record |-> len, data |-> recs[k].dataLen])
  BY <1>3, <1>5 DEF Relabelled, EntriesOf, Instead
<1> QED
  BY <1>1, <1>4, <1>7, <1>8 DEF Turns

\* What a transfer does to the entries.
Reset(entries) ==
  [k \in Keys |-> IF k \in OwnerManaged /\ entries[k] # NoEntry
                  THEN [entries[k] EXCEPT !.record = ShortRecord] ELSE entries[k]]

LEMMA TransferTurns ==
  ASSUME NEW n, NEW at, NEW recs, NEW lens, WellFormed(account, n, at, recs, lens, slack), Transfer
  PROVE  Turns(n, Reset(EntriesOf(recs, lens)))
<1> DEFINE new == ResetRecords(recs)
           more == slack + RegistryLen(recs) - RegistryLen(new)
<1>1. /\ CoreLen(account) = n /\ RegistryAt(account) = at /\ Records(account) = recs
      /\ recs \in Recs /\ at \in Nat /\ RegistryLen(recs) \in Nat \ { 0 }
  BY Read
<1>2. slack \in Nat /\ account.len = at + RegistryLen(recs) + slack
  BY DEF WellFormed, Framed
<1>3. account' = Save(account, Registry(new), at) /\ slack' = more
  BY <1>1 DEF Transfer, Becomes
<1>4. ASSUME NEW k \in Keys
      PROVE  /\ recs[k] = NoRecord => new[k] = NoRecord
             /\ recs[k] # NoRecord =>
                  /\ new[k] \in Record
                  /\ new[k].at = recs[k].at
                  /\ new[k].dataAt = recs[k].dataAt /\ new[k].dataLen = recs[k].dataLen
                  /\ new[k].len = IF k \in OwnerManaged THEN ShortRecord ELSE recs[k].len
  <2>1. CASE recs[k] = NoRecord
    BY <2>1 DEF ResetRecords
  <2>2. CASE recs[k] # NoRecord
    <3>1. recs[k] \in Record
      BY <1>1, <2>2 DEF Recs
    <3>2. CASE k \in OwnerManaged
      <4>1. new[k] = [at |-> recs[k].at, len |-> ShortRecord,
                      dataAt |-> recs[k].dataAt, dataLen |-> recs[k].dataLen]
        BY <2>2, <3>1, <3>2 DEF ResetRecords, Record
      <4> HIDE DEF new
      <4> QED
        BY <2>2, <3>1, <3>2, <4>1, LengthsAssumption DEF Record
    <3>3. CASE k \notin OwnerManaged
      <4>1. new[k] = recs[k]
        BY <3>3 DEF ResetRecords
      <4> HIDE DEF new
      <4> QED
        BY <2>2, <3>1, <3>3, <4>1
    <3> QED
      BY <3>2, <3>3
  <2> QED
    BY <2>1, <2>2
<1>5. new = [k \in Keys |-> new[k]]
  BY DEF ResetRecords
<1> HIDE DEF new
<1>6. new \in Recs /\ \A k \in Keys : recs[k] # NoRecord => new[k] # NoRecord
  <2>1. \A k \in Keys : new[k] \in Record \cup { NoRecord }
    BY <1>4
  <2> QED
    BY <1>4, <1>5, <2>1, NoRecordAssumption DEF Recs
<1>7. RegistryLen(new) <= RegistryLen(recs) /\ RegistryLen(new) \in Nat
  <2>1. ASSUME NEW k \in Keys PROVE LenAt(new, k) <= LenAt(recs, k)
    <3>1. recs[k] # NoRecord => recs[k].len \in RecordLens
      BY <1>1, LenAtType
    <3>2. recs[k] # NoRecord => ShortRecord <= recs[k].len /\ recs[k].len \in Nat
      BY <3>1, LengthsAssumption
    <3> QED
      BY <1>4, <1>6, <3>2 DEF LenAt
  <2> QED
    BY <1>1, <1>6, <2>1, RegistryLenShrinks, RecordBytesFinite, LengthsAssumption DEF RegistryLen
<1>8. more \in Nat /\ account.len = at + RegistryLen(new) + more
  BY <1>1, <1>2, <1>7
<1>9. WellFormed(account', n, at, new, lens, more)
  <2> HIDE DEF more
  <2>1. \A k \in Keys : /\ recs[k] = NoRecord => new[k] = NoRecord
                        /\ recs[k] # NoRecord =>
                             /\ new[k] # NoRecord /\ new[k].at = recs[k].at
                             /\ new[k].dataAt = recs[k].dataAt /\ new[k].dataLen = recs[k].dataLen
    BY <1>4, <1>6
  <2> DEFINE size == account.len
  <2>2. size = at + RegistryLen(new) + more /\ account.len = size
    BY <1>8
  <2> HIDE DEF size
  <2>3. WellFormed(Save(account, Registry(new), at), n, at, new, lens, more)
    BY <1>6, <1>8, <2>1, <2>2, Relabels
  <2> QED
    BY <1>3, <2>3
<1>10. EntriesOf(new, lens) = Reset(EntriesOf(recs, lens))
  <2> DEFINE e == EntriesOf(recs, lens)
  <2>1. ASSUME NEW k \in Keys PROVE EntriesOf(new, lens)[k] = Reset(e)[k]
    <3>1. CASE recs[k] = NoRecord
      BY <1>4, <3>1 DEF EntriesOf, Reset
    <3>2. CASE recs[k] # NoRecord
      <4>1. e[k] = [plugin |-> lens[k], record |-> recs[k].len, data |-> recs[k].dataLen]
        BY <3>2 DEF EntriesOf
      <4>2. EntriesOf(new, lens)[k]
              = [plugin |-> lens[k], record |-> new[k].len, data |-> recs[k].dataLen]
        BY <1>4, <1>6, <3>2 DEF EntriesOf
      <4>3. e[k] # NoEntry
        <5>1. recs[k].len \in Nat \ { 0 }
          BY <1>1, <3>2, LenAtType, LengthsAssumption
        <5> QED
          BY <4>1, <5>1 DEF NoEntry
      <4> HIDE DEF e
      <4> QED
        BY <1>4, <3>2, <4>1, <4>2, <4>3 DEF Reset
    <3> QED
      BY <3>1, <3>2
  <2> QED
    BY <2>1 DEF EntriesOf, Reset
<1> QED
  BY <1>3, <1>9, <1>10 DEF Turns

-----------------------------------------------------------------------------
(* The invariant *)

\* The lengths of the plugins, read where the records say.
LensOf(acc) ==
  [k \in Keys |-> IF Records(acc)[k] = NoRecord THEN 0 ELSE Load(acc, Records(acc)[k].at).len]

\* The account is a bare core, or core, header and registry stand where they
\* are looked for and the plugins fill the bytes between header and registry.
LayoutInv ==
  \/ Bare(account, CoreLen(account)) /\ slack = 0
  \/ WellFormed(account, CoreLen(account), RegistryAt(account), Records(account),
                LensOf(account), slack)

LEMMA Concrete ==
  ASSUME NEW acc, NEW n, NEW at, NEW recs, NEW lens, NEW sl,
         WellFormed(acc, n, at, recs, lens, sl)
  PROVE  WellFormed(acc, CoreLen(acc), RegistryAt(acc), Records(acc), LensOf(acc), sl)
<1>1. CoreLen(acc) = n /\ RegistryAt(acc) = at /\ Records(acc) = recs
  BY Read
<1>2. \A k \in Present(recs) : LensOf(acc)[k] = lens[k]
  BY <1>1, Named DEF LensOf
<1> DEFINE ls == LensOf(acc)
<1>3. Body(acc, recs, ls, n + HeaderLen, at)
  <2>1. \A k \in Present(recs) : ls[k] = lens[k]
    BY <1>2
  <2> HIDE DEF ls
  <2>2. Body(acc, recs, lens, n + HeaderLen, at)
    BY DEF WellFormed
  <2> QED
    BY <2>1, <2>2 DEF Body, Tiled, Before
<1> QED
  BY <1>1, <1>3 DEF WellFormed

LEMMA InvStored ==
  ASSUME LayoutInv
  PROVE  \E n, at, recs, lens : Stored(n, at, recs, lens)
  BY DEF LayoutInv, Stored

\* What the account stands for after a step.
Turned(n, entries) ==
  \/ Turns(n, entries)
  \/ Bare(account', n) /\ slack' = 0 /\ entries = [k \in Keys |-> NoEntry]

LEMMA TurnedInv ==
  ASSUME NEW n, NEW entries, Turned(n, entries)
  PROVE  LayoutInv'
<1>1. CASE Turns(n, entries)
  <2>1. PICK at, recs, lens : WellFormed(account', n, at, recs, lens, slack')
    BY <1>1 DEF Turns
  <2>2. WellFormed(account', CoreLen(account'), RegistryAt(account'), Records(account'),
                   LensOf(account'), slack')
    BY <2>1, Concrete
  <2> QED
    BY <2>2 DEF LayoutInv
<1>2. CASE Bare(account', n) /\ slack' = 0
  <2>1. CoreLen(account') = n
    BY <1>2, BareRead
  <2> QED
    BY <1>2, <2>1 DEF LayoutInv
<1> QED
  BY <1>1, <1>2 DEF Turned

LEMMA StoredHas ==
  ASSUME NEW n, NEW at, NEW recs, NEW lens, Stored(n, at, recs, lens)
  PROVE  /\ CoreLen(account) = n
         /\ HasMeta(account) => WellFormed(account, n, at, recs, lens, slack)
         /\ \A k \in Keys : Has(k) => WellFormed(account, n, at, recs, lens, slack)
  BY Read, BareRead DEF Stored, Has

\* An entry is what the records and the lengths say, and not the empty one.
LEMMA EntriesType ==
  ASSUME NEW n, NEW at, NEW recs, NEW lens, Stored(n, at, recs, lens), NEW k \in Keys
  PROVE  /\ recs[k] = NoRecord => EntriesOf(recs, lens)[k] = NoEntry
         /\ recs[k] # NoRecord =>
              /\ WellFormed(account, n, at, recs, lens, slack)
              /\ EntriesOf(recs, lens)[k] \in Entries /\ EntriesOf(recs, lens)[k] # NoEntry
              /\ EntriesOf(recs, lens)[k]
                   = [plugin |-> lens[k], record |-> recs[k].len, data |-> recs[k].dataLen]
<1>1. recs[k] = NoRecord => EntriesOf(recs, lens)[k] = NoEntry
  BY DEF EntriesOf
<1>2. ASSUME recs[k] # NoRecord
      PROVE  /\ WellFormed(account, n, at, recs, lens, slack)
             /\ EntriesOf(recs, lens)[k] \in Entries /\ EntriesOf(recs, lens)[k] # NoEntry
             /\ EntriesOf(recs, lens)[k]
                  = [plugin |-> lens[k], record |-> recs[k].len, data |-> recs[k].dataLen]
  <2>1. WellFormed(account, n, at, recs, lens, slack)
    BY <1>2 DEF Stored, NoRecords
  <2>2. /\ lens[k] \in PluginLens /\ lens[k] \in Nat \ { 0 } /\ recs[k].len \in RecordLens
        /\ recs[k].dataLen \in DataLens
    BY <1>2, <2>1, Named DEF Present
  <2>3. EntriesOf(recs, lens)[k]
          = [plugin |-> lens[k], record |-> recs[k].len, data |-> recs[k].dataLen]
    BY <1>2 DEF EntriesOf
  <2> QED
    BY <2>1, <2>2, <2>3 DEF Entries, NoEntry
<1> QED
  BY <1>1, <1>2

-----------------------------------------------------------------------------
(* Every step *)

\* What a step does to the entries: the steps of a store of plugins.
Effect(n, e) ==
  \/ \E k \in Keys, x \in Entries : e[k] = NoEntry /\ Turned(n, Instead(e, k, x))
  \/ \E k \in Keys : e[k] # NoEntry /\ Turned(n, Instead(e, k, NoEntry))
  \/ \E k \in Keys, x \in Entries :
       /\ e[k] # NoEntry /\ Turned(n, Instead(e, k, x))
       /\ \/ x.data = e[k].data
          \/ x.plugin = e[k].plugin /\ x.record = e[k].record
  \/ \E m \in CoreLens : Turned(m, e)
  \/ Turned(n, Reset(e))

LEMMA Changes ==
  ASSUME NEW n, NEW at, NEW recs, NEW lens, Stored(n, at, recs, lens),
         NEW k \in Present(recs), NEW m \in PluginLens, NEW len \in RecordLens, NEW d \in DataLens,
         \/ d = recs[k].dataLen
         \/ m = lens[k] /\ len = recs[k].len,
         Turns(n, Instead(EntriesOf(recs, lens), k, [plugin |-> m, record |-> len, data |-> d]))
  PROVE  Effect(n, EntriesOf(recs, lens))
<1> DEFINE e == EntriesOf(recs, lens)
           x == [plugin |-> m, record |-> len, data |-> d]
<1>1. k \in Keys /\ recs[k] # NoRecord
  BY DEF Present
<1>2. /\ e[k] # NoEntry
      /\ e[k] = [plugin |-> lens[k], record |-> recs[k].len, data |-> recs[k].dataLen]
  BY <1>1, EntriesType
<1>3. x \in Entries /\ x.plugin = m /\ x.record = len /\ x.data = d
  BY DEF Entries
<1>4. Turned(n, Instead(e, k, x))
  BY DEF Turned
<1> HIDE DEF e, x
<1>5. x.data = e[k].data \/ (x.plugin = e[k].plugin /\ x.record = e[k].record)
  BY <1>2, <1>3
<1> QED
  BY <1>1, <1>2, <1>3, <1>4, <1>5 DEF Effect, e

LEMMA Adds ==
  ASSUME NEW n, NEW at, NEW recs, NEW lens, Stored(n, at, recs, lens),
         NEW k \in Keys, recs[k] = NoRecord,
         NEW m \in PluginLens, NEW len \in RecordLens, NEW d \in DataLens,
         Turns(n, Instead(EntriesOf(recs, lens), k, [plugin |-> m, record |-> len, data |-> d]))
  PROVE  Effect(n, EntriesOf(recs, lens))
<1> DEFINE e == EntriesOf(recs, lens)
           x == [plugin |-> m, record |-> len, data |-> d]
<1>1. e[k] = NoEntry /\ x \in Entries
  BY DEF EntriesOf, Entries
<1>2. Turned(n, Instead(e, k, x))
  BY DEF Turned
<1> HIDE DEF e, x
<1> QED
  BY <1>1, <1>2 DEF Effect, e

LEMMA Effects ==
  ASSUME NEW n, NEW at, NEW recs, NEW lens, Stored(n, at, recs, lens), Next
  PROVE  Effect(n, EntriesOf(recs, lens))
<1> DEFINE e == EntriesOf(recs, lens)
<1>0. /\ 0 \in DataLens
      /\ \A k \in Plugins \cup Adapters : k \in Keys
  BY LengthsAssumption DEF Keys
<1>1. ASSUME NEW k \in Keys, k \in Present(recs), WellFormed(account, n, at, recs, lens, slack)
      PROVE  recs[k].dataLen \in DataLens /\ recs[k].len \in RecordLens /\ lens[k] \in PluginLens
  BY <1>1, Named
<1>2. ASSUME NEW k \in Plugins, NEW m \in PluginLens, NEW len \in RecordLens, AddPlugin(k, m, len)
      PROVE  Effect(n, e)
  <2>1. k \in Keys /\ 0 \in DataLens
    BY <1>0
  <2>2. /\ recs[k] = NoRecord
        /\ Turns(n, Instead(EntriesOf(recs, lens), k, [plugin |-> m, record |-> len, data |-> 0]))
    BY <1>2, AddPluginTurns
  <2> QED
    BY <2>1, <2>2, Adds
<1>3. ASSUME NEW k \in Adapters, NEW m \in PluginLens, NEW len \in RecordLens, NEW d \in DataLens,
             AddSection(k, m, len, d) \/ (d = 0 /\ AddAdapter(k, m, len))
      PROVE  Effect(n, e)
  <2>1. k \in Keys
    BY <1>0
  <2>2. /\ recs[k] = NoRecord
        /\ Turns(n, Instead(EntriesOf(recs, lens), k, [plugin |-> m, record |-> len, data |-> d]))
    BY <1>3, AddSectionTurns
  <2> QED
    BY <2>1, <2>2, Adds
<1>4. ASSUME NEW k \in Adapters, NEW m \in PluginLens, NEW len \in RecordLens, UpdateAdapter(k, m, len)
      PROVE  Effect(n, e)
  <2>1. WellFormed(account, n, at, recs, lens, slack)
    BY <1>0, <1>4, StoredHas DEF UpdateAdapter
  <2>2. /\ k \in Present(recs)
        /\ Turns(n, Instead(e, k, [plugin |-> m, record |-> len, data |-> recs[k].dataLen]))
    BY <1>4, <2>1, UpdateAdapterTurns
  <2> QED
    BY <1>0, <1>1, <2>1, <2>2, Changes
<1>5. ASSUME NEW k \in Plugins, NEW m \in PluginLens, UpdatePlugin(k, m)
      PROVE  Effect(n, e)
  <2>1. WellFormed(account, n, at, recs, lens, slack)
    BY <1>0, <1>5, StoredHas DEF UpdatePlugin
  <2>2. /\ k \in Present(recs)
        /\ Turns(n, Instead(e, k, [plugin |-> m, record |-> recs[k].len, data |-> recs[k].dataLen]))
    BY <1>5, <2>1, UpdatePluginTurns
  <2> QED
    BY <1>0, <1>1, <2>1, <2>2, Changes
<1>6. ASSUME NEW m \in PluginLens, SaveGroupsPlugin(m)
      PROVE  Effect(n, e)
  <2> DEFINE k == Groups
  <2>0. k \in Keys
    BY LayoutKeysAssumption DEF Keys
  <2>1. WellFormed(account, n, at, recs, lens, slack)
    BY <1>6, <2>0, StoredHas DEF SaveGroupsPlugin
  <2>2. /\ k \in Present(recs)
        /\ Turns(n, Instead(e, k, [plugin |-> m, record |-> recs[k].len, data |-> recs[k].dataLen]))
    BY <1>6, <2>1, SaveGroupsPluginTurns
  <2> QED
    BY <1>1, <2>0, <2>1, <2>2, Changes
<1>7. ASSUME NEW k \in Adapters, NEW d \in DataLens, WriteData(k, d)
      PROVE  Effect(n, e)
  <2>1. WellFormed(account, n, at, recs, lens, slack)
    BY <1>0, <1>7, StoredHas DEF WriteData
  <2>2. /\ k \in Present(recs)
        /\ Turns(n, Instead(e, k, [plugin |-> lens[k], record |-> recs[k].len, data |-> d]))
    BY <1>7, <2>1, WriteDataTurns
  <2> QED
    BY <1>0, <1>1, <2>1, <2>2, Changes
<1>8. ASSUME NEW m \in CoreLens, UpdateCore(m)
      PROVE  Effect(n, e)
  <2>1. CASE WellFormed(account, n, at, recs, lens, slack)
    <3>1. Turned(m, e)
      BY <1>8, <2>1, UpdateCoreTurns DEF Turned
    <3> HIDE DEF e
    <3> QED
      BY <3>1 DEF Effect
  <2>2. CASE Bare(account, n) /\ slack = 0 /\ recs = NoRecords
    <3>1. Bare(account', m) /\ slack' = 0
      BY <1>8, <2>2, UpdateBareCore
    <3>2. e = [k \in Keys |-> NoEntry]
      BY <2>2 DEF EntriesOf, NoRecords
    <3>3. Turned(m, e)
      BY <3>1, <3>2 DEF Turned
    <3> HIDE DEF e
    <3> QED
      BY <3>3 DEF Effect
  <2> QED
    BY <2>1, <2>2 DEF Stored
<1>9. ASSUME NEW k \in Plugins, NEW len \in RecordLens, SetAuthority(k, len)
      PROVE  Effect(n, e)
  <2>1. WellFormed(account, n, at, recs, lens, slack)
    BY <1>0, <1>9, StoredHas DEF SetAuthority
  <2>2. /\ k \in Present(recs)
        /\ Turns(n, Instead(e, k, [plugin |-> lens[k], record |-> len, data |-> recs[k].dataLen]))
    BY <1>9, <2>1, SetAuthorityTurns
  <2> QED
    BY <1>0, <1>1, <2>1, <2>2, Changes
<1>10. ASSUME Transfer
       PROVE  Effect(n, e)
  <2>1. WellFormed(account, n, at, recs, lens, slack)
    BY <1>10, StoredHas DEF Transfer
  <2>2. Turned(n, Reset(e))
    BY <1>10, <2>1, TransferTurns DEF Turned
  <2> HIDE DEF e
  <2> QED
    BY <2>2 DEF Effect
<1>11. ASSUME NEW k \in Keys, Delete(k)
       PROVE  Effect(n, e)
  <2>1. WellFormed(account, n, at, recs, lens, slack)
    BY <1>11, StoredHas DEF Delete
  <2>2. k \in Present(recs) /\ Turns(n, Instead(e, k, NoEntry))
    BY <1>11, <2>1, DeleteTurns
  <2>3. e[k] # NoEntry /\ Turned(n, Instead(e, k, NoEntry))
    <3>1. recs[k] # NoRecord
      BY <2>2 DEF Present
    <3>2. /\ EntriesOf(recs, lens)[k] \in Entries /\ EntriesOf(recs, lens)[k] # NoEntry
          /\ EntriesOf(recs, lens)[k]
               = [plugin |-> lens[k], record |-> recs[k].len, data |-> recs[k].dataLen]
      <4> HIDE DEF e
      <4>1. Stored(n, at, recs, lens) /\ k \in Keys
        OBVIOUS
      <4> QED
        BY <3>1, <4>1, EntriesType
    <3> QED
      BY <2>2, <3>2 DEF Turned
  <2> HIDE DEF e
  <2> QED
    BY <2>3 DEF Effect
<1> HIDE DEF e
<1> QED
  BY <1>0, <1>2, <1>3, <1>4, <1>5, <1>6, <1>7, <1>8, <1>9, <1>10, <1>11 DEF Next, e

LEMMA InitBare ==
  ASSUME Init
  PROVE  slack = 0 /\ \E n : Bare(account, n)
<1> DEFINE empty == [len |-> 0, bytes |-> << >>]
<1>1. PICK n \in CoreLens : account = Save(Resize(empty, n), Core(n), 0)
  BY DEF Init
<1>2. n \in Nat \ { 0 } /\ LenOf(Core(n)) = n /\ slack = 0
  BY LengthsAssumption, Lengths DEF Init
<1>3. Sized(empty)
  BY DEF Sized
<1> HIDE DEF empty
<1>4. Sized(Resize(empty, n)) /\ Resize(empty, n).len = n
  BY <1>2, <1>3, ResizeBytes
<1>5. Fits(Resize(empty, n), Core(n), 0)
  BY <1>2, <1>4 DEF Fits
<1>6. Bare(account, n)
  BY <1>1, <1>4, <1>5, OneSave DEF Bare
<1> QED
  BY <1>2, <1>6

LEMMA InvInit ==
  ASSUME Init
  PROVE  LayoutInv
  BY InitBare, BareRead DEF LayoutInv

LEMMA InvNext ==
  ASSUME LayoutInv, [Next]_vars
  PROVE  LayoutInv'
<1>1. CASE Next
  <2>1. PICK n, at, recs, lens : Stored(n, at, recs, lens)
    BY InvStored
  <2>2. Effect(n, EntriesOf(recs, lens))
    BY <1>1, <2>1, Effects
  <2>3. \E m, f : Turned(m, f)
    BY <2>2 DEF Effect
  <2> QED
    BY <2>3, TurnedInv
<1>2. CASE UNCHANGED vars
  BY <1>2 DEF vars, LayoutInv, CoreLen, RegistryAt, Records, LensOf
<1> QED
  BY <1>1, <1>2

\* Every instruction that moves bytes, and each has code of its own for it,
\* leaves an account whose plugins lie side by side where their records say.
THEOREM LayoutInvariant == Spec => []LayoutInv
<1>1. Init => LayoutInv
  BY InvInit
<1>2. LayoutInv /\ [Next]_vars => LayoutInv'
  BY InvNext
<1> QED
  BY <1>1, <1>2, PTL DEF Spec

-----------------------------------------------------------------------------
(* What is found in an account *)

(* Core, header and registry are found where load looks for them.          *)
THEOREM AccountsParse == Spec => []LayoutParses
<1>1. LayoutInv => LayoutParses
  <2> DEFINE n == CoreLen(account)
             at == RegistryAt(account)
             recs == Records(account)
  <2>1. CASE Bare(account, n) /\ slack = 0
    <3>1. ~HasMeta(account)
      BY <2>1, BareRead
    <3> QED
      BY <2>1, <3>1, LengthsAssumption DEF LayoutParses, Bare, Sized
  <2>2. CASE WellFormed(account, n, at, recs, LensOf(account), slack)
    BY <2>2, LengthsAssumption DEF LayoutParses, WellFormed, Framed, Sized, Recs
  <2> QED
    BY <2>1, <2>2 DEF LayoutInv
<1> QED
  BY <1>1, LayoutInvariant, PTL

(* Every byte between header and registry is a plugin's or its data's, and *)
(* the account ends with its registry, but for what transfers left.        *)
THEOREM AccountsAreTight == Spec => []NothingIsLeaked
<1>1. LayoutInv => NothingIsLeaked
  <2> DEFINE n == CoreLen(account)
             at == RegistryAt(account)
             recs == Records(account)
             lens == LensOf(account)
  <2>1. CASE Bare(account, n) /\ slack = 0
    BY <2>1, BareRead DEF NothingIsLeaked
  <2>2. CASE WellFormed(account, n, at, recs, lens, slack)
    <3>1. account.len = at + RegistryLen(recs) + slack /\ Body(account, recs, lens, n + HeaderLen, at)
      BY <2>2 DEF WellFormed, Framed
    <3>2. ASSUME NEW i \in n + HeaderLen .. at - 1
          PROVE  \E k \in Keys :
                   /\ recs[k] # NoRecord
                   /\ i \in recs[k].at .. recs[k].at + Load(account, recs[k].at).len + recs[k].dataLen - 1
      <4>1. PICK k \in Present(recs) : recs[k].at <= i /\ i < Stop(recs[k], lens[k])
        BY <3>1, <3>2 DEF Body, Tiled
      <4> HIDE DEF n, at, recs, lens
      <4>2. /\ recs[k].at \in Nat /\ recs[k].dataLen \in Nat /\ lens[k] \in Nat /\ k \in Keys
            /\ recs[k] # NoRecord /\ Load(account, recs[k].at).len = lens[k]
            /\ Stop(recs[k], lens[k]) = recs[k].at + lens[k] + recs[k].dataLen
            /\ n \in Nat /\ at \in Nat
        BY <2>2, Named
      <4>3. i \in Int
        BY <3>2, <4>2, LengthsAssumption
      <4>4. i \in recs[k].at .. recs[k].at + lens[k] + recs[k].dataLen - 1
        BY <4>1, <4>2, <4>3
      <4> QED
        BY <4>2, <4>4
    <3> QED
      BY <3>1, <3>2 DEF NothingIsLeaked
  <2> QED
    BY <2>1, <2>2 DEF LayoutInv
<1> QED
  BY <1>1, LayoutInvariant, PTL

\* Entry, of any account.
EntryOf(acc, k) ==
  LET rec == Records(acc)[k]
      found(kind, at) ==
        IF Load(acc, at).kind = kind /\ Load(acc, at).key = k /\ Holds(acc, Load(acc, at), at)
        THEN Load(acc, at).len ELSE 0
  IN IF HasMeta(acc) /\ rec # NoRecord
     THEN [plugin |-> found("plugin", rec.at), record |-> rec.len,
           data |-> IF rec.dataLen = 0 THEN 0 ELSE found("data", rec.dataAt)]
     ELSE NoEntry

LEMMA EntryIs ==
  \A k : Entry(k) = EntryOf(account, k) /\ Entry(k)' = EntryOf(account', k)
<1> TAKE k
<1>1. Entry(k) = EntryOf(account, k)
  BY DEF Entry, EntryOf, Found, Has
<1>2. Entry(k)' = EntryOf(account', k)
  BY DEF Entry, EntryOf, Found, Has
<1> QED
  BY <1>1, <1>2

LEMMA BareEntry ==
  ASSUME NEW acc, NEW n, Bare(acc, n), NEW k
  PROVE  EntryOf(acc, k) = NoEntry
  BY BareRead DEF EntryOf

LEMMA EntryRead ==
  ASSUME NEW acc, NEW n, NEW at, NEW recs, NEW lens, NEW sl,
         WellFormed(acc, n, at, recs, lens, sl), NEW k \in Keys
  PROVE  EntryOf(acc, k) = EntriesOf(recs, lens)[k]
<1>1. HasMeta(acc) /\ Records(acc) = recs
  BY Read
<1>2. CASE recs[k] = NoRecord
  BY <1>1, <1>2 DEF EntryOf, EntriesOf
<1>3. CASE recs[k] # NoRecord
  <2> DEFINE rec == recs[k]
  <2>1. k \in Present(recs)
    BY <1>3 DEF Present
  <2>2. /\ lens[k] \in Nat \ { 0 } /\ rec.dataLen \in Nat /\ rec.dataAt \in Nat
        /\ Placed(acc, k, rec, lens[k])
        /\ k \notin DataAdapters => rec.dataLen = 0
    BY <2>1, Named
  <2>3. Load(acc, rec.at) = Plugin(k, lens[k])
    BY <2>1, Read
  <2>4. Holds(acc, Plugin(k, lens[k]), rec.at)
    BY <2>2 DEF Placed
  <2>5. rec.dataLen # 0 => /\ Load(acc, rec.dataAt) = Data(k, rec.dataLen)
                           /\ Holds(acc, Data(k, rec.dataLen), rec.dataAt)
    <3> SUFFICES ASSUME rec.dataLen # 0
                 PROVE  /\ Load(acc, rec.dataAt) = Data(k, rec.dataLen)
                        /\ Holds(acc, Data(k, rec.dataLen), rec.dataAt)
      OBVIOUS
    <3>1. Holds(acc, Data(k, rec.dataLen), rec.dataAt)
      BY <2>2 DEF Placed
    <3>2. LenOf(Data(k, rec.dataLen)) \in Nat \ { 0 }
      BY <2>2, Lengths
    <3> QED
      BY <2>2, <3>1, <3>2, LoadHeld
  <2>6. /\ Plugin(k, lens[k]).kind = "plugin" /\ Plugin(k, lens[k]).key = k
        /\ Plugin(k, lens[k]).len = lens[k]
        /\ Data(k, rec.dataLen).kind = "data" /\ Data(k, rec.dataLen).key = k
        /\ Data(k, rec.dataLen).len = rec.dataLen
    BY DEF Plugin, Data
  <2>7. EntriesOf(recs, lens)[k] = [plugin |-> lens[k], record |-> rec.len, data |-> rec.dataLen]
    BY <1>3 DEF EntriesOf
  <2> HIDE DEF rec
  <2>8. EntryOf(acc, k) = [plugin |-> lens[k], record |-> rec.len, data |-> rec.dataLen]
    BY <1>1, <1>3, <2>3, <2>4, <2>5, <2>6 DEF EntryOf, rec
  <2> QED
    BY <2>7, <2>8
<1> QED
  BY <1>2, <1>3

-----------------------------------------------------------------------------
(* To a reader the account is a store of plugins by key *)

LEMMA StoredReads ==
  ASSUME NEW n, NEW at, NEW recs, NEW lens, Stored(n, at, recs, lens)
  PROVE  CoreLen(account) = n /\ n \in CoreLens /\ [k \in Keys |-> Entry(k)] = EntriesOf(recs, lens)
<1>1. CASE WellFormed(account, n, at, recs, lens, slack)
  <2>1. \A k \in Keys : Entry(k) = EntriesOf(recs, lens)[k]
    BY <1>1, EntryIs, EntryRead
  <2>2. [k \in Keys |-> Entry(k)] = EntriesOf(recs, lens)
    BY <2>1 DEF EntriesOf
  <2> QED
    BY <1>1, <2>2, Read DEF WellFormed, Framed
<1>2. CASE Bare(account, n) /\ recs = NoRecords
  <2>1. \A k \in Keys : Entry(k) = NoEntry
    BY <1>2, EntryIs, BareEntry
  <2>2. EntriesOf(recs, lens) = [k \in Keys |-> NoEntry]
    BY <1>2 DEF EntriesOf, NoRecords
  <2>3. [k \in Keys |-> Entry(k)] = [k \in Keys |-> NoEntry]
    BY <2>1
  <2> QED
    BY <1>2, <2>2, <2>3, BareRead DEF Bare
<1> QED
  BY <1>1, <1>2 DEF Stored

LEMMA TurnedReads ==
  ASSUME NEW n, NEW entries, Turned(n, entries)
  PROVE  /\ CoreLen(account)' = n /\ n \in CoreLens
         /\ [k \in Keys |-> Entry(k)]' = entries
<1>1. CASE Turns(n, entries)
  <2>1. PICK at, recs, lens : /\ WellFormed(account', n, at, recs, lens, slack')
                              /\ EntriesOf(recs, lens) = entries
    BY <1>1 DEF Turns
  <2>2. \A k \in Keys : EntryOf(account', k) = EntriesOf(recs, lens)[k]
    BY <2>1, EntryRead
  <2>3. \A k \in Keys : Entry(k)' = EntriesOf(recs, lens)[k]
    BY <2>2, EntryIs
  <2>4. [k \in Keys |-> Entry(k)]' = EntriesOf(recs, lens)
    BY <2>3 DEF EntriesOf
  <2>5. CoreLen(account') = n /\ n \in CoreLens
    BY <2>1, Read DEF WellFormed, Framed
  <2> QED
    BY <2>1, <2>4, <2>5
<1>2. CASE Bare(account', n) /\ entries = [k \in Keys |-> NoEntry]
  <2>1. \A k \in Keys : EntryOf(account', k) = NoEntry
    BY <1>2, BareEntry
  <2>2. \A k \in Keys : Entry(k)' = NoEntry
    BY <2>1, EntryIs
  <2>3. [k \in Keys |-> Entry(k)]' = entries
    BY <1>2, <2>2
  <2>4. CoreLen(account') = n /\ n \in CoreLens
    BY <1>2, BareRead DEF Bare
  <2> QED
    BY <2>3, <2>4
<1> QED
  BY <1>1, <1>2 DEF Turned

\* What a step does to the entries is a step of the store.
LEMMA EffectImplements ==
  ASSUME NEW n, NEW e, CoreLen(account) = n, [k \in Keys |-> Entry(k)] = e, Effect(n, e)
  PROVE  Store!Next
<1> DEFINE now == [k \in Keys |-> Entry(k)]
<1>1. \A k \in Keys : \A x : Instead(e, k, x) = [e EXCEPT ![k] = x]
  BY DEF Instead
<1>2. \A m, f : Turned(m, f) =>
        CoreLen(account)' = m /\ m \in CoreLens /\ now' = f
  BY TurnedReads
<1>3. now = e
  OBVIOUS
<1> HIDE DEF now
<1>4. ASSUME NEW k \in Keys, NEW x \in Entries, e[k] = NoEntry, Turned(n, Instead(e, k, x))
      PROVE  Store!Next
  <2>1. now[k] = NoEntry /\ now' = [now EXCEPT ![k] = x] /\ CoreLen(account)' = CoreLen(account)
    BY <1>1, <1>2, <1>3, <1>4
  <2>2. Store!Add(k)
    BY <2>1 DEF Store!Add, now
  <2> QED
    BY <2>2 DEF Store!Next
<1>5. ASSUME NEW k \in Keys, e[k] # NoEntry, Turned(n, Instead(e, k, NoEntry))
      PROVE  Store!Next
  <2>1. /\ now[k] # NoEntry /\ now' = [now EXCEPT ![k] = NoEntry]
        /\ CoreLen(account)' = CoreLen(account)
    BY <1>1, <1>2, <1>3, <1>5
  <2>2. Store!Remove(k)
    BY <2>1 DEF Store!Remove, now
  <2> QED
    BY <2>2 DEF Store!Next
<1>6. ASSUME NEW k \in Keys, NEW x \in Entries, e[k] # NoEntry, Turned(n, Instead(e, k, x)),
             x.data = e[k].data \/ (x.plugin = e[k].plugin /\ x.record = e[k].record)
      PROVE  Store!Next
  <2>1. /\ now[k] # NoEntry /\ now' = [now EXCEPT ![k] = x]
        /\ CoreLen(account)' = CoreLen(account)
    BY <1>1, <1>2, <1>3, <1>6
  <2>2. CASE x.data = e[k].data
    <3>1. Store!Update(k)
      BY <1>3, <2>1, <2>2 DEF Store!Update, now
    <3> QED
      BY <3>1 DEF Store!Next
  <2>3. CASE x.plugin = e[k].plugin /\ x.record = e[k].record
    <3>1. Store!Write(k)
      BY <1>3, <2>1, <2>3 DEF Store!Write, now
    <3> QED
      BY <3>1 DEF Store!Next
  <2> QED
    BY <1>6, <2>2, <2>3
<1>7. ASSUME NEW m \in CoreLens, Turned(m, e)
      PROVE  Store!Next
  <2>1. CoreLen(account)' \in CoreLens /\ now' = now
    BY <1>2, <1>3, <1>7
  <2>2. Store!UpdateCore
    BY <2>1 DEF Store!UpdateCore, now
  <2> QED
    BY <2>2 DEF Store!Next
<1>8. ASSUME Turned(n, Reset(e))
      PROVE  Store!Next
  <2>1. now' = Reset(now) /\ CoreLen(account)' = CoreLen(account)
    BY <1>2, <1>3, <1>8
  <2>2. Store!Transfer
    BY <2>1 DEF Store!Transfer, now, Reset
  <2> QED
    BY <2>2 DEF Store!Next
<1> QED
  BY <1>4, <1>5, <1>6, <1>7, <1>8 DEF Effect

\* Every instruction changes the plugin that it names, or the core, in the way
\* it says; whatever else it moves in the account reads as before.
THEOREM ImplementsStore == Spec => ReadsAsAStore
<1>1. Init => Store!Init
  <2> SUFFICES ASSUME Init
               PROVE  Store!Init
    OBVIOUS
  <2>1. PICK m : Bare(account, m)
    BY InitBare
  <2>2. CoreLen(account) \in CoreLens /\ \A k \in Keys : Entry(k) = NoEntry
    BY <2>1, BareRead, EntryIs, BareEntry DEF Bare
  <2> QED
    BY <2>2 DEF Store!Init
<1>2. LayoutInv /\ [Next]_vars => [Store!Next]_<< CoreLen(account), [k \in Keys |-> Entry(k)] >>
  <2> SUFFICES ASSUME LayoutInv, [Next]_vars
               PROVE  \/ Store!Next
                      \/ UNCHANGED << CoreLen(account), [k \in Keys |-> Entry(k)] >>
    OBVIOUS
  <2>1. CASE Next
    <3>1. PICK n, at, recs, lens : Stored(n, at, recs, lens)
      BY InvStored
    <3>2. Effect(n, EntriesOf(recs, lens))
      BY <2>1, <3>1, Effects
    <3> QED
      BY <3>1, <3>2, StoredReads, EffectImplements
  <2>2. CASE UNCHANGED vars
    <3>1. account' = account
      BY <2>2 DEF vars
    <3>2. CoreLen(account)' = CoreLen(account)
      BY <3>1
    <3>3. \A k : Entry(k)' = Entry(k)
      BY <3>1, EntryIs
    <3> QED
      BY <3>2, <3>3
  <2> QED
    BY <2>1, <2>2 DEF vars
<1> QED
  BY <1>1, <1>2, LayoutInvariant, PTL DEF Spec, ReadsAsAStore, Store!Spec

-----------------------------------------------------------------------------
(* What the clients read *)

LEMMA HeldSlice ==
  ASSUME NEW v, NEW at \in Nat, NEW n \in Nat, LenOf(v) = n, Holds(account, v, at)
  PROVE  Slice(at, at + n) = Serialized(v)
<1>1. at + n - at - 1 = n - 1
  OBVIOUS
<1>2. \A i \in 0 .. n - 1 : account.bytes[at + i] = << v, i >>
  BY DEF Holds
<1> QED
  BY <1>1, <1>2 DEF Slice, Serialized

\* What is listed, in an account with plugins, and what an entry says of it.
LEMMA ListedPresent ==
  ASSUME NEW n, NEW at, NEW recs, NEW lens, WellFormed(account, n, at, recs, lens, slack)
  PROVE  /\ Listed = Present(recs) /\ RegistryAt(account) = at
         /\ \A k \in Keys : RecordOf(k) = recs[k]
         /\ \A k \in Keys : k \in Present(recs) <=> Entry(k) # NoEntry
         /\ \A k \in Present(recs) :
              Entry(k) = [plugin |-> lens[k], record |-> recs[k].len, data |-> recs[k].dataLen]
<1>1. HasMeta(account) /\ Records(account) = recs /\ RegistryAt(account) = at
  BY Read
<1>2. Listed = Present(recs) /\ \A k \in Keys : RecordOf(k) = recs[k]
  BY <1>1 DEF Listed, Present, RecordOf
<1>3. \A k \in Keys : Entry(k) = EntriesOf(recs, lens)[k]
  BY EntryIs, EntryRead
<1>4. Stored(n, at, recs, lens)
  BY DEF Stored
<1>5. ASSUME NEW k \in Keys
      PROVE  /\ recs[k] = NoRecord => Entry(k) = NoEntry
             /\ recs[k] # NoRecord =>
                  /\ Entry(k) # NoEntry
                  /\ Entry(k) = [plugin |-> lens[k], record |-> recs[k].len, data |-> recs[k].dataLen]
  <2> DEFINE e == EntriesOf(recs, lens)[k]
  <2>1. /\ recs[k] = NoRecord => e = NoEntry
        /\ recs[k] # NoRecord =>
             /\ e # NoEntry
             /\ e = [plugin |-> lens[k], record |-> recs[k].len, data |-> recs[k].dataLen]
    BY <1>4, EntriesType
  <2>2. Entry(k) = e
    BY <1>3
  <2> HIDE DEF e
  <2> QED
    BY <2>1, <2>2
<1> QED
  BY <1>1, <1>2, <1>5 DEF Present

LEMMA BareListed ==
  ASSUME NEW n, Bare(account, n)
  PROVE  Listed = {} /\ \A k \in Keys : Entry(k) = NoEntry
  BY BareRead, EntryIs, BareEntry DEF Listed

\* A plugin is deserialized from where its record says, its data is sliced there.
LEMMA PluginRead ==
  ASSUME NEW n, NEW at, NEW recs, NEW lens, WellFormed(account, n, at, recs, lens, slack),
         NEW k \in Present(recs)
  PROVE  /\ Deserialized("plugin", recs[k].at) = Plugin(k, lens[k])
         /\ Slice(recs[k].at, recs[k].at + lens[k]) = Serialized(Plugin(k, lens[k]))
         /\ k \in DataAdapters =>
              /\ recs[k].dataAt + recs[k].dataLen <= account.len
              /\ Slice(recs[k].dataAt, recs[k].dataAt + recs[k].dataLen)
                   = Serialized(Data(k, recs[k].dataLen))
         /\ k \notin DataAdapters =>
              << >> = Serialized(Data(k, recs[k].dataLen)) /\ recs[k].dataLen = 0
<1>1. /\ lens[k] \in Nat \ { 0 } /\ recs[k].at \in Nat /\ recs[k].dataAt \in Nat
      /\ recs[k].dataLen \in Nat /\ Placed(account, k, recs[k], lens[k])
      /\ k \notin DataAdapters => recs[k].dataLen = 0
  BY Named
<1>2. Load(account, recs[k].at) = Plugin(k, lens[k]) /\ account.len \in Nat
  BY Read
<1>3. /\ Holds(account, Plugin(k, lens[k]), recs[k].at)
      /\ k \in DataAdapters => Holds(account, Data(k, recs[k].dataLen), recs[k].dataAt)
  BY <1>1 DEF Placed
<1>4. LenOf(Plugin(k, lens[k])) = lens[k] /\ LenOf(Data(k, recs[k].dataLen)) = recs[k].dataLen
  BY Lengths
<1>5. Deserialized("plugin", recs[k].at) = Plugin(k, lens[k])
  <2>1. Plugin(k, lens[k]).kind = "plugin"
    BY DEF Plugin
  <2> QED
    BY <1>2, <1>3, <2>1 DEF Deserialized
<1>6. Slice(recs[k].at, recs[k].at + lens[k]) = Serialized(Plugin(k, lens[k]))
  BY <1>1, <1>3, <1>4, HeldSlice
<1>7. k \in DataAdapters =>
        /\ recs[k].dataAt + recs[k].dataLen <= account.len
        /\ Slice(recs[k].dataAt, recs[k].dataAt + recs[k].dataLen)
             = Serialized(Data(k, recs[k].dataLen))
  BY <1>1, <1>3, <1>4, HeldSlice DEF Holds
<1>8. k \notin DataAdapters => << >> = Serialized(Data(k, recs[k].dataLen))
  <2> SUFFICES ASSUME k \notin DataAdapters
               PROVE  << >> = Serialized(Data(k, recs[k].dataLen))
    OBVIOUS
  <2>1. LenOf(Data(k, recs[k].dataLen)) = 0
    BY <1>1, <1>4
  <2>2. 0 .. LenOf(Data(k, recs[k].dataLen)) - 1 = {}
    BY <2>1
  <2> QED
    BY <2>2 DEF Serialized
<1> QED
  BY <1>1, <1>5, <1>6, <1>7, <1>8

\* fetch_plugin and its like read through a record what the instructions wrote,
\* and Asset and Collection, which take the account apart, get the same.
THEOREM ClientsAgree == Spec => []ClientsReadWhatTheProgramReads
<1>1. LayoutInv => ClientsReadWhatTheProgramReads
  <2> DEFINE n == CoreLen(account)
             at == RegistryAt(account)
             recs == Records(account)
             lens == LensOf(account)
  <2>1. CASE Bare(account, n)
    <3>1. Listed = {} /\ \A k \in Keys : Entry(k) = NoEntry
      BY <2>1, BareListed
    <3>2. \A k \in Keys : k \in Listed <=> Entry(k) # NoEntry
      BY <3>1
    <3>3. \A known \in Clients :
            /\ DOMAIN ClientAsset(known).plugin_list = {}
            /\ DOMAIN ClientAsset(known).external_plugin_adapter_list = {}
      BY <3>1 DEF ClientAsset, InternalList, AdapterList
    <3> QED
      BY <3>1, <3>2, <3>3 DEF ClientsReadWhatTheProgramReads
  <2>2. CASE WellFormed(account, n, at, recs, lens, slack)
    <3> HIDE DEF n, at, recs, lens
    <3>1. /\ Listed = Present(recs)
          /\ \A k \in Keys : RecordOf(k) = recs[k]
          /\ \A k \in Keys : k \in Present(recs) <=> Entry(k) # NoEntry
          /\ \A k \in Present(recs) :
               Entry(k) = [plugin |-> lens[k], record |-> recs[k].len, data |-> recs[k].dataLen]
      BY <2>2, ListedPresent
    <3>2. \A k \in Listed :
            /\ k \in Keys /\ RecordOf(k) = recs[k]
            /\ Entry(k).plugin = lens[k] /\ Entry(k).record = recs[k].len
            /\ Entry(k).data = recs[k].dataLen
      BY <3>1 DEF Present
    <3>3. \A k \in Listed : FetchPlugin(k) = << Entry(k).record, Plugin(k, Entry(k).plugin) >>
      BY <2>2, <3>1, <3>2, PluginRead DEF FetchPlugin
    <3>4. ASSUME NEW known \in Clients, NEW k \in DOMAIN ClientAsset(known).plugin_list
          PROVE  ClientAsset(known).plugin_list[k] = Plugin(k, Entry(k).plugin)
      <4>1. ClientAsset(known).plugin_list = InternalList(known)
        BY DEF ClientAsset
      <4>2. k \in Listed /\ ClientAsset(known).plugin_list[k] = Deserialized("plugin", RecordOf(k).at)
        BY <4>1, <3>4 DEF InternalList
      <4> QED
        BY <2>2, <3>1, <3>2, <4>2, PluginRead
    <3>5. ASSUME NEW known \in Clients,
                 NEW k \in DOMAIN ClientAsset(known).external_plugin_adapter_list
          PROVE  LET adapter == ClientAsset(known).external_plugin_adapter_list[k]
                     from == adapter[2][1]
                     m == adapter[2][2]
                 IN /\ adapter[1] = Plugin(k, Entry(k).plugin)
                    /\ m = Entry(k).data
                    /\ from + m <= account.len
                    /\ Slice(from, from + m) = Serialized(Data(k, m))
      <4> DEFINE adapter == ClientAsset(known).external_plugin_adapter_list[k]
      <4>1. ClientAsset(known).external_plugin_adapter_list = AdapterList(known)
        BY DEF ClientAsset
      <4>2. /\ k \in Listed
            /\ adapter = << Deserialized("plugin", RecordOf(k).at),
                            IF k \in DataAdapters THEN FetchDataInfo(k) ELSE << 0, 0 >> >>
        BY <4>1, <3>5 DEF AdapterList
      <4> HIDE DEF adapter
      <4>3. adapter[1] = Plugin(k, Entry(k).plugin)
        BY <2>2, <3>1, <3>2, <4>2, PluginRead
      <4>4. CASE k \in DataAdapters
        <5>1. adapter[2] = << recs[k].dataAt, recs[k].dataLen >>
          BY <3>2, <4>2, <4>4 DEF FetchDataInfo
        <5>2. /\ recs[k].dataAt + recs[k].dataLen <= account.len
              /\ Slice(recs[k].dataAt, recs[k].dataAt + recs[k].dataLen)
                   = Serialized(Data(k, recs[k].dataLen))
          BY <2>2, <3>1, <4>2, <4>4, PluginRead
        <5> QED
          BY <3>2, <4>2, <4>3, <5>1, <5>2 DEF adapter
      <4>5. CASE k \notin DataAdapters
        <5>1. adapter[2] = << 0, 0 >>
          BY <4>2, <4>5
        <5>2. recs[k].dataLen = 0 /\ account.len \in Nat
          BY <2>2, <3>1, <4>2, <4>5, PluginRead, Read
        <5>3. LenOf(Data(k, 0)) = 0
          BY Lengths
        <5>4. Holds(account, Data(k, 0), 0)
          BY <5>2, <5>3 DEF Holds
        <5>5. Slice(0, 0 + 0) = Serialized(Data(k, 0))
          BY <5>3, <5>4, HeldSlice
        <5> QED
          BY <3>2, <4>2, <4>3, <5>1, <5>2, <5>5 DEF adapter
      <4> QED
        BY <4>4, <4>5
    <3> QED
      BY <3>1, <3>3, <3>4, <3>5 DEF ClientsReadWhatTheProgramReads
  <2> QED
    BY <2>1, <2>2 DEF LayoutInv
<1> QED
  BY <1>1, LayoutInvariant, PTL


\* The slice of a plugin ends where it ends: where its data starts, or the plugin
\* behind it, or the registry, there is nothing between them.
LEMMA SliceEnds ==
  ASSUME NEW n, NEW at, NEW recs, NEW lens, WellFormed(account, n, at, recs, lens, slack),
         NEW k \in Present(recs)
  PROVE  SliceEnd(k) = recs[k].at + lens[k]
<1> DEFINE stop == recs[k].at + lens[k]
<1>1. /\ Listed = Present(recs) /\ RegistryAt(account) = at
      /\ \A j \in Present(recs) : RecordOf(j) = recs[j]
  BY ListedPresent DEF Present
<1>2. CASE k \in DataAdapters
  BY <1>1, <1>2, Named DEF SliceEnd
<1>3. CASE k \notin DataAdapters
  <2>1. ASSUME NEW j \in Present(recs)
        PROVE  /\ recs[j].at \in Nat /\ lens[j] \in Nat \ { 0 } /\ recs[j].dataLen \in Nat
               /\ Stop(recs[j], lens[j]) = recs[j].at + lens[j] + recs[j].dataLen
               /\ Stop(recs[j], lens[j]) <= at /\ n + HeaderLen <= recs[j].at
               /\ n + HeaderLen \in Nat /\ at \in Nat
    BY Named
  <2>2. recs[k].dataLen = 0 /\ Tiled(recs, lens, n + HeaderLen, at)
    BY <1>3, Named DEF Body
  <2>3. Stop(recs[k], lens[k]) = stop /\ stop \in Nat /\ stop <= at /\ recs[k].at < stop
        /\ n + HeaderLen <= stop
    BY <2>1, <2>2
  <2>4. ASSUME NEW j \in Later(k)
        PROVE  j \in Present(recs) /\ recs[j].at \in Nat /\ stop <= recs[j].at
    <3>1. j \in Present(recs) /\ recs[j].at > recs[k].at
      BY <1>1, <2>4 DEF Later
    <3>2. j # k /\ Stop(recs[j], lens[j]) > recs[k].at
      BY <2>1, <3>1
    <3>3. Before(recs, lens, j, k) \/ Before(recs, lens, k, j)
      BY <2>2, <3>1, <3>2 DEF Tiled
    <3> QED
      BY <2>1, <2>3, <3>1, <3>2, <3>3 DEF Before
  <2>5. stop < at => \E j \in Later(k) : recs[j].at = stop
    <3> SUFFICES ASSUME stop < at
                 PROVE  \E j \in Later(k) : recs[j].at = stop
      OBVIOUS
    <3> HIDE DEF stop
    <3>1. stop \in n + HeaderLen .. at - 1
      BY <2>1, <2>3
    <3>2. PICK j \in Present(recs) : recs[j].at <= stop /\ stop < Stop(recs[j], lens[j])
      BY <2>2, <3>1 DEF Tiled
    <3>3. j # k /\ ~Before(recs, lens, j, k)
      BY <2>1, <2>3, <3>2 DEF Before
    <3>4. stop <= recs[j].at
      BY <2>2, <2>3, <3>3 DEF Tiled, Before
    <3>5. recs[j].at = stop
      BY <2>1, <2>3, <3>2, <3>4
    <3>6. j \in Later(k)
      BY <1>1, <2>1, <2>3, <3>5 DEF Later
    <3> QED
      BY <3>5, <3>6
  <2> HIDE DEF stop
  <2>6. CASE Later(k) = {}
    BY <1>1, <1>3, <2>1, <2>3, <2>5, <2>6 DEF SliceEnd, stop
  <2>7. CASE Later(k) # {}
    <3> DEFINE ends == { RecordOf(j).at : j \in Later(k) }
    <3>1. ends = { recs[j].at : j \in Later(k) }
      BY <1>1, <2>4
    <3>2. stop \in ends /\ \A j \in Later(k) : stop <= RecordOf(j).at
      <4>1. stop < at
        BY <2>1, <2>3, <2>4, <2>7
      <4> QED
        BY <1>1, <2>4, <2>5, <3>1, <4>1
    <3>3. \A e \in ends : (\A j \in Later(k) : e <= RecordOf(j).at) => e = stop
      BY <1>1, <2>3, <2>4, <3>2
    <3> DEFINE Least(e) == \A j \in Later(k) : e <= RecordOf(j).at
    <3>4. (CHOOSE e \in ends : Least(e)) = stop
      <4> HIDE DEF ends, Least
      <4>1. stop \in ends /\ Least(stop) /\ \A e \in ends : Least(e) => e = stop
        BY <3>2, <3>3 DEF Least
      <4> QED
        BY <4>1
    <3> QED
      BY <1>3, <2>7, <3>4 DEF SliceEnd, stop
  <2> QED
    BY <2>6, <2>7
<1> QED
  BY <1>2, <1>3

\* An indexer that cuts the account at the offsets of its records gets exactly
\* the bytes of each plugin and of its data, those of plugins too new for it too.
THEOREM IndexersAgree == Spec => []IndexersCutExactly
<1>1. LayoutInv => IndexersCutExactly
  <2> DEFINE n == CoreLen(account)
             at == RegistryAt(account)
             recs == Records(account)
             lens == LensOf(account)
  <2>1. CASE Bare(account, n)
    <3>1. Listed = {}
      BY <2>1, BareListed
    <3> QED
      BY <3>1 DEF IndexersCutExactly
  <2>2. CASE WellFormed(account, n, at, recs, lens, slack)
    <3> HIDE DEF n, at, recs, lens
    <3> SUFFICES ASSUME NEW known \in Clients, NEW k \in Listed
                 PROVE  /\ Processed(known, k) = Serialized(Plugin(k, Entry(k).plugin))
                        /\ DataSlice(k) = Serialized(Data(k, Entry(k).data))
      BY DEF IndexersCutExactly, IndexableAsset
    <3>1. /\ k \in Present(recs) /\ RecordOf(k) = recs[k]
          /\ Entry(k).plugin = lens[k] /\ Entry(k).data = recs[k].dataLen
      BY <2>2, ListedPresent DEF Present
    <3>2. /\ Deserialized("plugin", recs[k].at) = Plugin(k, lens[k])
          /\ Slice(recs[k].at, recs[k].at + lens[k]) = Serialized(Plugin(k, lens[k]))
          /\ k \in DataAdapters =>
               Slice(recs[k].dataAt, recs[k].dataAt + recs[k].dataLen)
                 = Serialized(Data(k, recs[k].dataLen))
          /\ k \notin DataAdapters => << >> = Serialized(Data(k, recs[k].dataLen))
      BY <2>2, <3>1, PluginRead
    <3>3. SliceEnd(k) = recs[k].at + lens[k]
      BY <2>2, <3>1, SliceEnds
    <3>4. LenOf(Plugin(k, lens[k])) <= SliceEnd(k) - recs[k].at
      <4>1. lens[k] \in Nat /\ recs[k].at \in Nat
        BY <2>2, <3>1, Named
      <4>2. LenOf(Plugin(k, lens[k])) = lens[k]
        BY Lengths
      <4> QED
        BY <3>3, <4>1, <4>2
    <3>5. Processed(known, k) = Serialized(Plugin(k, lens[k]))
      BY <3>1, <3>2, <3>3, <3>4 DEF Processed
    <3>6. DataSlice(k) = Serialized(Data(k, recs[k].dataLen))
      BY <3>1, <3>2 DEF DataSlice
    <3> QED
      BY <3>1, <3>5, <3>6
  <2> QED
    BY <2>1, <2>2 DEF LayoutInv
<1> QED
  BY <1>1, LayoutInvariant, PTL

=============================================================================
