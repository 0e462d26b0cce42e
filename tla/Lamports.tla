------------------------------- MODULE Lamports -------------------------------
(***************************************************************************)
(* What accounts cost.  An account of the program holds the rent for its   *)
(* bytes, paid by whoever makes it grow and given back to whoever makes it *)
(* shrink or closes it, and on top of that the fees that creations and     *)
(* executions leave on it until they are collected.                        *)
(*                                                                         *)
(* A bank is a record of functions on the keys: what kind of account a key *)
(* is, its bytes and its lamports; "owed" counts the fees that were left   *)
(* on it and not collected (a history, no instruction reads it).           *)
(***************************************************************************)
EXTENDS Integers, FiniteSets, Sequences

CONSTANTS
  RentOverhead,        \* the bytes that rent counts beside those of the data
  CreateFee,           \* fees in lamports, where a byte rents for one
  ExecuteFee,
  Recipients           \* the two who collect, in order

ASSUME LamportsAssumption ==
  /\ RentOverhead \in Nat /\ CreateFee \in Nat /\ ExecuteFee \in Nat
  /\ Len(Recipients) = 2 /\ Recipients[1] # Recipients[2]

\* Rent::minimum_balance.
Rent(n) == RentOverhead + n

Move(b, from, to, n) ==
  [b EXCEPT !.lamports[from] = @ - n, !.lamports[to] = @ + n]

\* create_account, with n bytes and a fee on top of their rent.
Open(b, k, kind, n, fee, payer) ==
  [Move(b, payer, k, Rent(n) + fee) EXCEPT
     !.kind[k] = kind, !.bytes[k] = n, !.owed[k] = fee]

\* resize_or_reallocate_account: only the difference of the rents moves, so
\* what lies on the account beside its rent stays there.
Resize(b, k, n, payer) ==
  [IF n >= b.bytes[k] THEN Move(b, payer, k, Rent(n) - Rent(b.bytes[k]))
   ELSE Move(b, k, payer, Rent(b.bytes[k]) - Rent(n))
   EXCEPT !.bytes[k] = n]

\* Mutants of Close: nothing stays for the last byte; the bytes stay.
CloseWithAllRent(b, k, to) ==
  [Move(b, k, to, Rent(b.bytes[k])) EXCEPT
     !.kind[k] = "Uninitialized", !.bytes[k] = 1]

CloseWithoutShrinking(b, k, to) ==
  [Move(b, k, to, Rent(b.bytes[k]) - Rent(1)) EXCEPT !.kind[k] = "Uninitialized"]

\* close_program_account: one byte, its rent and the fees stay.
Close(b, k, to) ==
  [Move(b, k, to, Rent(b.bytes[k]) - Rent(1)) EXCEPT
     !.kind[k] = "Uninitialized", !.bytes[k] = 1]

PayFee(b, k, payer) ==
  [Move(b, payer, k, ExecuteFee) EXCEPT !.owed[k] = @ + ExecuteFee]

\* Fees are collected from assets and from what is left of closed accounts; the
\* latter are handed to the system program.
Collectable(b, k) == b.kind[k] \in { "AssetV1", "Uninitialized" }

\* The first recipient's part of a fee; the second gets the rest.
Half(fee) == fee \div 2

\* Mutant of CollectFrom: an odd lamport goes to nobody.
CollectFromByHalves(b, k) ==
  LET fee == b.lamports[k] - Rent(b.bytes[k])
      half(acc, r) == [acc EXCEPT !.lamports[r] = @ + Half(fee)]
  IN [half(half(b, Recipients[1]), Recipients[2]) EXCEPT
        !.lamports[k] = Rent(b.bytes[k]), !.owed[k] = 0,
        !.kind[k] = IF @ = "Uninitialized" THEN "Released" ELSE @]

CollectFrom(b, k) ==
  LET fee == b.lamports[k] - Rent(b.bytes[k])
      first == Move(b, k, Recipients[1], Half(fee))
  IN [Move(first, k, Recipients[2], fee - Half(fee)) EXCEPT
        !.kind[k] = IF @ = "Uninitialized" THEN "Released" ELSE @,
        !.owed[k] = 0]

\* collect: the banks after none, one and all of the accounts, the same one
\* twice perhaps.
CollectEach(b, ks) ==
  LET after[i \in 0 .. Len(ks)] ==
        IF i = 0 THEN b ELSE CollectFrom(after[i - 1], ks[i])
  IN after

\* Every lamport of a key, as a pair.
LamportsOf(b, k) == { k } \X (1 .. b.lamports[k])

AllLamports(b) == Cardinality(UNION { LamportsOf(b, k) : k \in DOMAIN b.lamports })

=============================================================================
