-------------------------- MODULE GroupsProperties ---------------------------
(* What groups promise. *)
EXTENDS Groups, MplCoreProperties

NodePhase(k) == IF k \in GroupKeys THEN gstage[k] ELSE stage[k]

\* The type invariant of the variables of Groups.  A group account that is not
\* there has no fields, and no group refers to an account that never was.
GroupsTypeOK ==
  /\ gstage \in [GroupKeys -> { "Free", "Live", "Closed" }]
  /\ gua \in [GroupKeys -> Wallets \cup Signers \cup { "None" }]
  /\ contents \in [GroupKeys -> SUBSET Nodes]
  /\ parents \in [Nodes -> SUBSET GroupKeys]
  /\ \A g \in GroupKeys : gstage[g] # "Live" => gua[g] = "None" /\ contents[g] = {}
  /\ \A g \in GroupKeys : \A k \in contents[g] : NodePhase(k) # "Free"

Present(k) == NodePhase(k) = "Live"

\* Between accounts that are there a link is on both sides or on neither,
\* whatever creations, additions, removals and burns did in whichever of the
\* two directions; and nothing believes to be in a group that was closed.
LinksAreMutual ==
  \A g \in GroupKeys, k \in Nodes :
    /\ g \in parents[k] => Present(g) /\ Present(k) /\ k \in contents[g]
    /\ k \in contents[g] /\ Present(k) => g \in parents[k]

\* No vector outgrows its limit, from whichever end it grows: a child is added
\* by the parent, by the creation of the parent, and by its own creation.
VectorsAreBounded ==
  \A g \in GroupKeys :
    FitsVectors(contents[g]) /\ Cardinality(parents[g]) <= MaxParents

\* A link is made and undone only by one signer with authority over both ends:
\* the group's update authority, who over the member is update authority too,
\* of its collection if it has one, or an additional delegate.
LinksNeedBothEnds ==
  [][\A g \in GroupKeys, k \in Nodes :
       /\ NodePhase(k)' = "Live" /\ NodePhase(g)' = "Live"
       /\ (g \in parents[k]) # (g \in parents'[k])
       => /\ gix'.by = gua'[g]
          /\ \/ k \in GroupKeys /\ gix'.by = gua'[k]
             \/ /\ k \in Accounts
                /\ \/ gix'.by = AuthorityOver(k)
                   \/ gix'.by \in Delegates(k)
                   \/ /\ k \in Assets /\ ua[k] \in Collections
                      /\ gix'.by \in Delegates(ua[k])]_groupVars

\* An account that is in a group is burned only by the holder of a permanent
\* burn delegate: not by its owner, its update authority or a burn delegate.
\* (The Groups plugin of a collection does not stop its assets from burning.)
MembersAreBurnedOnlyByForce ==
  [][\A k \in Accounts :
       Live(k) /\ stage'[k] = "Closed" /\ parents[k] # {} =>
         /\ "PermanentBurnDelegate" \in PluginTypes
         /\ LET rec == IF k \in Assets THEN Held(k)["PermanentBurnDelegate"]
                       ELSE plugins[k]["PermanentBurnDelegate"]
            IN rec # NoPlugin /\ HolderOf(rec, ix'.by, k)]_groupVars

\* The links as one relation, read off the members.
Edges == { e \in GroupKeys \X Nodes : e[1] \in parents[e[2]] }

Graph == INSTANCE GroupGraph WITH
           GroupNodes <- GroupKeys, Leaves <- Accounts,
           phase <- [k \in Nodes |-> NodePhase(k)], edges <- Edges

\* The two copies of every link implement the one relation; in particular a
\* group is closed only when no account is in it.
GraphSpec == Graph!Spec

=============================================================================
