----------------------------- MODULE Membership ------------------------------
(***************************************************************************)
(* What a collection promises: it is a set of members that can be closed   *)
(* only when it is empty, and only to a live collection can a member go.   *)
(* The program never sees that set.  It keeps a counter in the collection  *)
(* account and a reference in each asset account; MplCore, which does as   *)
(* the program does, is to implement this specification.                   *)
(***************************************************************************)
EXTENDS Naturals

CONSTANTS
  Assets,
  Collections,
  Nowhere,    \* an asset that is in no collection, or is not live
  MaxLeaves   \* bound: compressed members of a collection

VARIABLES
  phase,   \* Free, Live or Closed for each collection
  home,    \* the collection each asset is a member of, or Nowhere
  leaves   \* the number of compressed members of each collection

roll == << phase, home, leaves >>

Init ==
  /\ phase = [c \in Collections |-> "Free"]
  /\ home = [a \in Assets |-> Nowhere]
  /\ leaves = [c \in Collections |-> 0]

Empty(c) == leaves[c] = 0 /\ \A a \in Assets : home[a] # c

Found(c) ==
  /\ phase[c] = "Free"
  /\ phase' = [phase EXCEPT ![c] = "Live"]
  /\ UNCHANGED << home, leaves >>

\* The address of a closed collection is spent: it is never founded again.
Dissolve(c) ==
  /\ phase[c] = "Live" /\ Empty(c)
  /\ phase' = [phase EXCEPT ![c] = "Closed"]
  /\ UNCHANGED << home, leaves >>

\* An asset joins, leaves or changes its collection: one member at a time.
Rehome(a, h) ==
  /\ h \in Collections => phase[h] = "Live"
  /\ home' = [home EXCEPT ![a] = h]
  /\ UNCHANGED << phase, leaves >>

Report(c, n) ==
  /\ phase[c] = "Live"
  /\ leaves' = [leaves EXCEPT ![c] = n]
  /\ UNCHANGED << phase, home >>

Next ==
  \/ \E c \in Collections : Found(c) \/ Dissolve(c)
  \/ \E a \in Assets, h \in Collections \cup { Nowhere } : Rehome(a, h)
  \/ \E c \in Collections, n \in 0 .. MaxLeaves : Report(c, n)

Spec == Init /\ [][Next]_roll

=============================================================================
