------------------------------- MODULE MCGroups ------------------------------
(* Values for the constants of Groups that a configuration file cannot write *)
EXTENDS GroupsProperties, MCMplCore

\* The state without the two histories.
groupLedger == << ledger, links >>

GroupSymmetry == Permutations(GroupKeys)

GroupAndAssetSymmetry == GroupSymmetry \cup AssetSymmetry

GroupAndWalletSymmetry == GroupSymmetry \cup WalletSymmetry

\* Asset and collection are born bare.
MCBareBirths == { NoPlugins }

=============================================================================
