------------------------------- MODULE Feeds -------------------------------
(***************************************************************************)
(* What the replicated auth database promises as long as nothing expires,  *)
(* is deleted or is lost: every node has a feed of the records it took,    *)
(* and every node holds a prefix of each feed and nothing else.  A node    *)
(* gets on in the feeds of others by following somebody who is further, as *)
(* far as that one or a part of the way.                                   *)
(***************************************************************************)
EXTENDS Naturals, Sequences

CONSTANTS Node, Key

VARIABLES
  feed,    \* feed[o]: the keys of the records that o took, in their order
  prefix,  \* prefix[n][o]: how many of o's records n has
  holds    \* holds[n]: the keys of the records that n can return

feedVars == <<feed, prefix, holds>>

Init ==
  /\ feed = [o \in Node |-> << >>]
  /\ prefix = [n \in Node |-> [o \in Node |-> 0]]
  /\ holds = [n \in Node |-> {}]

\* No two records have the same key.
Take(o, k) ==
  /\ \A n \in Node : \A i \in DOMAIN feed[n] : feed[n][i] # k
  /\ feed' = [feed EXCEPT ![o] = Append(@, k)]
  /\ prefix' = [prefix EXCEPT ![o][o] = Len(feed'[o])]
  /\ holds' = [holds EXCEPT ![o] = @ \cup {k}]

\* The keys of the first p[o] records of every feed.
Prefixes(p) == UNION {{feed[o][i] : i \in 1 .. p[o]} : o \in Node}

\* n is told of o's records after those it has, up to the last one that m has.
Follow(n, m) ==
  /\ \A o \in Node \ {n} :
       \/ prefix'[n][o] = prefix[n][o]
       \/ prefix'[n][o] \in prefix[n][o] + 1 .. prefix[m][o]
  /\ prefix'[n][n] = prefix[n][n]
  /\ prefix' = [prefix EXCEPT ![n] = [o \in Node |-> prefix'[n][o]]]
  /\ holds' = [holds EXCEPT ![n] = Prefixes(prefix'[n])]
  /\ UNCHANGED feed

Next ==
  \/ \E o \in Node, k \in Key : Take(o, k)
  \/ \E n, m \in Node : Follow(n, m)

Spec == Init /\ [][Next]_feedVars
=============================================================================
