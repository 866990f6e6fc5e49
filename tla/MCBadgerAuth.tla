---------------------------- MODULE MCBadgerAuth ----------------------------
(***************************************************************************)
(* Instances of BadgerAuth for TLC: clusters of two and three nodes.       *)
(***************************************************************************)
EXTENDS BadgerAuth, SequencesExt

CONSTANTS n1, n2, n3, k1, k2, k3

\* Every node lists every other node, as the clusters of the tests do.
FullMesh == [n \in Node |-> SetToSeq(Node \ {n})]

\* n2's list of peers holds n2's own address.
SelfJoin == [n \in Node |-> IF n = n2 THEN <<n1, n2>> ELSE <<n2>>]

\* n1 takes the Puts; n2 fetches from n1 and from n3, n3 from n1 only.
RelayJoin == [n \in Node |-> CASE n = n1 -> << >>
                               [] n = n2 -> <<n1, n3>>
                               [] OTHER -> <<n1>>]

\* Each node has one peer, the one before it.
ChainJoin == [n \in Node |-> CASE n = n1 -> << >>
                               [] n = n2 -> <<n1>>
                               [] OTHER -> <<n2>>]

NeverExpires == [k \in Key |-> 0]
FirstExpires == [k \in Key |-> IF k = k1 THEN 2 ELSE 0]

EachPuts(i) == [n \in Node |-> i]
OnlyN1Puts(i) == [n \in Node |-> IF n = n1 THEN i ELSE 0]

Bounds(time, puts, crashes, admin, losses) ==
  [time |-> time, puts |-> puts, crashes |-> crashes, admin |-> admin,
   losses |-> losses]

Restarting == Bounds(1, EachPuts(1), 1, 0, 0)
Faulty == Bounds(2, EachPuts(1), 1, 1, 1)
Claiming == Bounds(2, EachPuts(2), 0, 0, 0)
Chained == Bounds(1, OnlyN1Puts(1), 0, 0, 0)
Relayed == Bounds(1, OnlyN1Puts(3), 1, 0, 0)
RelayedExpiring == Bounds(2, OnlyN1Puts(3), 0, 0, 0)
RelayedFaulty == Bounds(2, OnlyN1Puts(2), 1, 1, 1)
=============================================================================
