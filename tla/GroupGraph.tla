----------------------------- MODULE GroupGraph ------------------------------
(***************************************************************************)
(* What groups promise: a relation between groups and their members, with  *)
(* one copy of each link, between nodes that are there.  A group closes    *)
(* only when no link touches it; a member that is burned takes its links   *)
(* with it.  The program keeps each link in two accounts; Groups, which    *)
(* does as the program does, is to implement this specification.           *)
(***************************************************************************)

CONSTANTS
  GroupNodes,  \* groups
  Leaves       \* assets and collections

VARIABLES
  phase,  \* Free, Live or Closed for each node
  edges   \* the links, as pairs of a group and a member

Nodes == GroupNodes \cup Leaves

Touches(e, k) == e[1] = k \/ e[2] = k

LiveNodes == { k \in Nodes : phase[k] = "Live" }

Init == phase = [k \in Nodes |-> "Free"] /\ edges = {}

\* A group is opened with members and parents; it is none of them itself.
Open(g, M, P) ==
  /\ phase[g] = "Free"
  /\ M \subseteq LiveNodes /\ P \subseteq LiveNodes \cap GroupNodes
  /\ phase' = [phase EXCEPT ![g] = "Live"]
  /\ edges' = edges \cup ({ g } \X M) \cup (P \X { g })

Close(g) ==
  /\ phase[g] = "Live" /\ \A e \in edges : ~Touches(e, g)
  /\ phase' = [phase EXCEPT ![g] = "Closed"]
  /\ UNCHANGED edges

Link(g, M) ==
  /\ phase[g] = "Live" /\ M \subseteq LiveNodes \ { g }
  /\ edges' = edges \cup ({ g } \X M)
  /\ UNCHANGED phase

Unlink(g, M) ==
  /\ phase[g] = "Live"
  /\ edges' = edges \ ({ g } \X M)
  /\ UNCHANGED phase

Appear(m) ==
  /\ phase[m] = "Free"
  /\ phase' = [phase EXCEPT ![m] = "Live"]
  /\ UNCHANGED edges

Vanish(m) ==
  /\ phase[m] = "Live"
  /\ phase' = [phase EXCEPT ![m] = "Closed"]
  /\ edges' = { e \in edges : ~Touches(e, m) }

Next ==
  \/ \E g \in GroupNodes :
       \/ \E M \in SUBSET Nodes, P \in SUBSET GroupNodes : Open(g, M, P)
       \/ Close(g)
       \/ \E M \in SUBSET Nodes : Link(g, M) \/ Unlink(g, M)
  \/ \E m \in Leaves : Appear(m) \/ Vanish(m)

Spec == Init /\ [][Next]_<< phase, edges >>

=============================================================================
