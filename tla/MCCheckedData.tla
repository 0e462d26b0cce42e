---------------------------- MODULE MCCheckedData ----------------------------
(* Values for the constants of CheckedData that a configuration cannot write *)
EXTENDS CheckedDataProperties, TLC

\* Two states that differ in who came last only are one to the model checker.
checkedLedger == << ledger, checked >>

CONSTANTS w1, w2, m1, m2

MCPrograms == (w1 :> "System" @@ w2 :> "Escrow")

Share(w, n) == [address |-> w, percentage |-> n]

WithRule(rule, programs) ==
  [ basisPoints |-> 500, creators |-> << Share(w1, 100) >>,
    rule |-> rule, programs |-> programs ]

\* Royalties that pass the check, with each kind of rule.
MCRoyalties == { WithRule("Allow", { "System" }), WithRule("Deny", { "Escrow" }) }

\* And royalties that do not: too many basis points, shares that fall short or
\* that only the saturation keeps from adding up, and a creator named twice.
MCAllRoyalties ==
  { WithRule("None", {}),
    [WithRule("None", {}) EXCEPT !.basisPoints = 10001],
    [WithRule("None", {}) EXCEPT !.creators = << Share(w1, 50), Share(w2, 49) >>],
    [WithRule("None", {}) EXCEPT !.creators = << Share(w1, 200), Share(w2, 156) >>],
    [WithRule("None", {}) EXCEPT !.creators = << Share(w1, 50), Share(w1, 50) >>] }

\* Births with nothing, or with one of these plugins.
MCCheckedBirths ==
  { NothingChecked } \cup
  UNION { { [NothingChecked EXCEPT ![t] = [auth |-> Manager(t), data |-> d]] :
              d \in DataArgs(t) } : t \in CheckedTypes }

\* Permanent plugins and an UpdateDelegate come at birth.
MCPermanentBirths ==
  { NoPlugins } \cup
  UNION { { [NoPlugins EXCEPT ![p] = rec] :
              rec \in { r \in PluginArgs(p) : r.auth \in AuthorityArgs } } : p \in PluginTypes }

NothingBorn == { NoPlugins }

\* A delegate that holds nothing else.
MCDelegateArgs == { { w2 } }

MCMessageSymmetry == Permutations({ m1, m2 })

=============================================================================
