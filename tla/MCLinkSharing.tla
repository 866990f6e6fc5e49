---------------------------- MODULE MCLinkSharing ----------------------------
(***************************************************************************)
(* Instances of LinkSharing for TLC.                                       *)
(***************************************************************************)
EXTENDS LinkSharing, TLC

CONSTANTS h1, f1, f2, f3, m1, m2

Texts == {[access |-> "key", root |-> "bucket", tls |-> TRUE, ttl |-> 0],
          [access |-> "grant", root |-> "bucket/p", tls |-> FALSE, ttl |-> 2]}

P == <<"p">>
PIndex == <<"p", "index.html">>
PrefixOf == [root \in {"bucket", "bucket/p"} |-> IF root = "bucket" THEN << >> ELSE P]

MCKey == {P, <<"p", "">>, PIndex, <<"404.html">>, <<"index.html">>}

Filled(keys, size) == [k \in MCKey |-> IF k \in keys THEN size ELSE None]

Ask == [method |-> "GET", page |-> "raw", host |-> h1, path |-> P, slash |-> FALSE,
        access |-> "public", signed |-> FALSE, lists |-> TRUE, allowed |-> FALSE,
        cname |-> TRUE, download |-> None, wrap |-> None, view |-> None, map |-> FALSE,
        archive |-> None, range |-> None, ifRange |-> TRUE]

Hosting ==
  {[Ask EXCEPT !.page = "hosted"], [Ask EXCEPT !.page = "certificate"]}

Ranges ==
  {h \in [first : {None, 0, 1, 2}, last : {None, 0, 1, 2, 3}] :
     IF h.first = None THEN h.last # None ELSE h.last = None \/ h.last >= h.first}

\* Ranges of lists: the first byte, the second, the last, all but the first, beyond the
\* end of the smaller object, and none.
Byte(n) == [first |-> n, last |-> n]
Rest == [first |-> 1, last |-> None]
Listed ==
  {Byte(0), Byte(1), [first |-> None, last |-> 1], Rest, Byte(2), Malformed}

Lists == {<< >>, <<Malformed>>, <<Rest, Byte(0)>>, <<Rest, Rest>>, <<Malformed, Byte(0)>>}
         \cup {<<Byte(0), h>> : h \in Listed}

Single ==
  {[Ask EXCEPT !.range = <<h>>] : h \in Ranges}
  \cup {[Ask EXCEPT !.range = l] : l \in Lists}
  \cup {[Ask EXCEPT !.range = <<h>>, !.ifRange = FALSE] : h \in {Byte(0), Byte(2), Malformed}}
  \cup {[Ask EXCEPT !.range = <<Byte(0), h>>, !.method = "HEAD"] : h \in {Byte(1), Rest}}
  \cup {[Ask EXCEPT !.page = p] :
         p \in {"s", "http", "landing", "unwrapped", "static", "health", "no bucket"}}
  \cup {[Ask EXCEPT !.method = m] : m \in {"HEAD", "OPTIONS", "POST"}}
  \cup {[Ask EXCEPT !.access = a, !.signed = b] :
         a \in {"grant", "public", "private", "invalid"}, b \in BOOLEAN}
  \cup {[Ask EXCEPT !.path = p, !.slash = b, !.lists = l, !.page = g] :
         p \in {<<"">>, P, <<"p", "">>}, b \in BOOLEAN, l \in BOOLEAN, g \in {"raw", "hosted"}}
  \cup {[Ask EXCEPT !.archive = p, !.page = g, !.map = m, !.download = d] :
         p \in {None, "entry", "/"}, g \in {"raw", "s"}, m \in BOOLEAN, d \in {None, "on"}}
  \cup {[Ask EXCEPT !.archive = "entry", !.range = <<[first |-> 0, last |-> None]>>]}
  \cup {[Ask EXCEPT !.view = v, !.wrap = w] : v \in {None, "on"}, w \in {None, "off"}}
  \cup {[Ask EXCEPT !.page = "certificate", !.allowed = b, !.cname = c] :
         b \in BOOLEAN, c \in BOOLEAN}

\* Requests for a domain and for its certificate that share the cache; and requests
\* that look for an object or a prefix in a bucket that changes.
MCScenes ==
  [cache |-> [asks |-> Hosting, meet |-> TRUE, contents |-> {Filled({P}, 2)}, writes |-> 0,
    faults |-> 0],
   bucket |-> [asks |-> Single, meet |-> FALSE, writes |-> 1, faults |-> 1,
    contents |-> {Filled(keys, 2) : keys \in
      {{}, {P}, {P, PIndex}, {<<"p", "">>, PIndex}, {<<"p", "">>},
       {PIndex, <<"404.html">>}}}]]

Alike == Permutations(Fetch) \cup Permutations(Mutex)
=============================================================================
