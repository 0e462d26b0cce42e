------------------------------ MODULE MCAdapters ------------------------------
(* Values for the constants of Adapters that a configuration file cannot write *)
EXTENDS AdaptersProperties, MCMplCore

CONSTANTS c1, w1, v1, o1

\* The state without the histories.
adapterLedger == << ledger, adapters, oracles, agents >>

OracleKey == [type |-> "Oracle", id |-> o1]
IdentityKey == [type |-> "AgentIdentity", id |-> "None"]
AppKey == [type |-> "AppData", id |-> w1]
LinkedKey == [type |-> "LinkedAppData", id |-> "Owner"]

MCOracleKeys == { OracleKey }
MCIdentityKeys == { IdentityKey }
MCDataKeys == { AppKey, LinkedKey, Section(LinkedKey) }
MCAllKeys == MCIdentityKeys \cup MCDataKeys

Rejecting(events) == { << e, "reject" >> : e \in events }

MCOracleChecks == { Rejecting({ "Transfer" }), Rejecting(HookEvents) }

MCExecuteChecks == { { << "Execute", "approve" >> }, { << "Execute", "listen" >> } }

Born(key, checks) ==
  [NoAdapters EXCEPT ![key] =
     [auth |-> "UpdateAuthority", checks |-> checks, config |-> "Base", data |-> "Empty"]]

\* An account is born with at most one adapter.
MCAdapterBirths ==
  { NoAdapters } \cup { Born(key, checks) : key \in AdapterKeys, checks \in CheckArgs \cup { {} } }

\* Oracles that anybody asks, and one for each collection.
MCPublished == { << o1, "Base" >>, << o1, c1 >> }

MCVerdicts == { {}, { "Transfer" }, HookEvents }

MCVault == [a \in Assets |-> v1]

=============================================================================
