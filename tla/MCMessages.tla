------------------------------ MODULE MCMessages ------------------------------
(* Values for the constants of Messages that a configuration file cannot write *)
EXTENDS MessagesProperties, TLC

CONSTANTS w1, w2, a1, v1, c1, g1, g2, r1, r2

\* The state without the history.
accounts == bank

MCRecipients == << r1, r2 >>

MCVault == [a \in AssetKeys |-> v1]

GroupSymmetry == Permutations(GroupKeys)

=============================================================================
