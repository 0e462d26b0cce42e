------------------------------ MODULE MCMplCore ------------------------------
(* Values for the constants of MplCore that a configuration file cannot write *)
EXTENDS MplCoreProperties, TLC

\* An account is born with at most one plugin, of any type; what an asset or a
\* collection may not be born with is for the handlers to refuse.
MCBirths ==
  { NoPlugins } \cup
  UNION { { [NoPlugins EXCEPT ![p] = rec] : rec \in PluginArgs(p) } :
            p \in PluginTypes }

\* Bubblegum collections are born with a second plugin too.
MCBubblegumBirths ==
  MCBirths \cup
  UNION { { [pl EXCEPT ![p] = rec] : pl \in MCBirths, rec \in PluginArgs(p) } :
            p \in PluginTypes }

\* The collection has no UpdateDelegate, the asset one at birth or never.
MCOtherBirths == { pl \in MCBirths : ~Carries(pl, { "UpdateDelegate" }) }

\* Nobody, or one wallet, is an additional delegate.
MCDelegateArgs == { {} } \cup { { w } : w \in Wallets }

\* One wallet always is.
OneDelegate == { { w } : w \in Wallets }

\* Every wallet is, so that a wallet with no other role is a delegate.
AllDelegates == { Wallets }

NoDelegateArgs == { {} }

\* Plugins are delegated to any single wallet.
MCAuthorityArgs == Wallets

WalletSymmetry == Permutations(Wallets)

AssetSymmetry == Permutations(Assets)

=============================================================================
