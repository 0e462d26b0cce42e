-------------------------- MODULE MessagesProperties --------------------------
(* What a caller of the client, and whoever pays, may rely on. *)
EXTENDS Messages

Kinds == { "None", "Wallet", "AssetV1", "CollectionV1", "GroupV1", "Uninitialized", "Released" }

\* Of every call, with whatever optional accounts, the program reads what the
\* caller meant: the instruction, each account under its name, and what comes
\* after them.  (The client leaves no gap for what is left out, and the program
\* counts places: two lists of 42 instructions, in two crates, must agree.)
CallsAreReadBack ==
  [][LET call == last'.exchange.call
         metas == ClientInstructions[call.op].metas
         r == last'.exchange.read
     IN /\ r.op = call.op /\ r.rest = call.rest
        /\ DOMAIN r.named = { metas[i].field : i \in DOMAIN metas }
        /\ \A i \in DOMAIN metas : r.named[metas[i].field] = call.keys[i]]_vars

\* No call of the client fails for want of a signature or of a writable account:
\* what it asks its caller to sign and to lend is enough for all that the
\* handler does.
PrivilegesSuffice == [][last'.end # "Unprivileged"]_vars

\* The type invariant; whatever was grown, shrunk, closed and collected, an
\* account holds the rent of its bytes and the fees that were left on it, no
\* lamport more or less: it stays exempt from rent, and a collection can always
\* subtract.  A closed account keeps one byte, and the rent of it.
RentAndFeesAreThere ==
  /\ bank.kind \in [Keys -> Kinds]
  /\ bank.lamports \in [Keys -> Nat] /\ bank.owed \in [Keys -> Nat]
  /\ \A k \in Keys :
       CASE bank.kind[k] \in { "None", "Wallet" } -> bank.bytes[k] = 0
         [] bank.kind[k] \in { "Uninitialized", "Released" } -> bank.bytes[k] = 1
         [] OTHER -> bank.bytes[k] \in Sizes
  /\ \A k \in ProgramKeys : bank.kind[k] # "None" =>
       bank.lamports[k] = Rent(bank.bytes[k]) + bank.owed[k]

\* No handler makes or loses lamports, in odd fees neither.
LamportsAreConserved ==
  AllLamports(bank) = Funds * Cardinality(Payers \cup Vaults)

\* Nobody pays but the payer of a call, who signed it, or the vault of an asset
\* in an execution that an authority signed.
OnlyPayersPay ==
  [][\A k \in Keys \ ProgramKeys : bank'.lamports[k] < bank.lamports[k] =>
       LET call == last'.exchange.call
           message == last'.exchange.message
           At(i, f) == ClientInstructions[call.op].metas[i].field = f
       IN \/ /\ k \in Payers /\ Signs(message, k)
             /\ \E i \in DOMAIN call.keys : At(i, "payer") /\ call.keys[i] = k
          \/ /\ k \in Vaults /\ call.op = "ExecuteV1"
             /\ \E i \in DOMAIN call.keys :
                  At(i, "authority") /\ call.keys[i] # "None" /\ Signs(message, call.keys[i])]_vars

=============================================================================
