------------------------------ MODULE MCAuthGet ------------------------------
(***************************************************************************)
(* Instances of AuthGet for TLC.                                           *)
(***************************************************************************)
EXTENDS AuthGet, SequencesExt

CONSTANTS n1, n2, n3, k1

FullMesh == [n \in Node |-> SetToSeq(Node \ {n})]

\* n3 asks the other two, n2 asks n1, which takes the Puts.
StarJoin == [n \in Node |-> CASE n = n1 -> << >>
                              [] n = n2 -> <<n1>>
                              [] OTHER -> <<n1, n2>>]

NeverExpires == [k \in Key |-> 0]
Expires == [k \in Key |-> 2]

Reading ==
  [time |-> 2, puts |-> [n \in Node |-> IF n = n1 THEN 1 ELSE 0],
   crashes |-> 1, admin |-> 1, losses |-> 0]
Invalidating ==
  [time |-> 1, puts |-> [n \in Node |-> IF n = n1 THEN 1 ELSE 0],
   crashes |-> 0, admin |-> 1, losses |-> 0]
=============================================================================
