----------------------------- MODULE MCGateway -----------------------------
(***************************************************************************)
(* Instances of Gateway for TLC: what two clients may send.                *)
(***************************************************************************)
EXTENDS Gateway, TLC

CONSTANTS k1, k2, u1, u2, b1, o1, h1, anonymous

Owner1 == [k \in AccessKey |-> IF k = k1 THEN u1 ELSE u2]
OneHead == [k \in AccessKey |-> h1]

Signed(k, defects) == [s \in {"v4"} |-> [key |-> k, defects |-> defects]]

Req(method, target, query, headers, creds) ==
  [method |-> method, target |-> target, query |-> query, headers |-> headers,
   creds |-> creds, bucket |-> b1, object |-> o1, source |-> b1]

ByKey1(method, target, query) ==
  Req(method, target, query, {}, Signed(k1, {}))

\* Uploads, downloads and multipart uploads of one object.
Objects ==
  {ByKey1(m, "object", {}) : m \in {"PUT", "GET", "HEAD", "DELETE"}}
  \cup {ByKey1("POST", "object", {"uploads"}), ByKey1("PUT", "object", Part),
        ByKey1("POST", "object", {"uploadId"})}

\* Buckets of two users.
Buckets ==
  {Req(m, "bucket", {}, {}, Signed(k, {})) : m \in {"PUT", "DELETE"}, k \in AccessKey}
  \cup {ByKey1("HEAD", "bucket", {})}

\* Every method with every query that some route looks for, not signed, and
\* requests for the other handlers and with other credentials.
Queries == {r.query : r \in {Routes[i] : i \in DOMAIN Routes}}

Shapes ==
  {Req(m, t, q, {}, [s \in {} |-> None]) :
     m \in {"GET", "HEAD", "PUT", "POST", "DELETE", "PATCH"},
     t \in {"root", "bucket", "object"}, q \in Queries}
  \cup {Req("PUT", "object", {}, {"copy-source"}, Signed(k1, {})),
        Req("POST", "bucket", {}, {"form"}, [s \in {"form"} |->
              [key |-> k1, defects |-> {}]]),
        Req("GET", "object", {}, {}, Signed(k1, {"no credential"})),
        Req("GET", "object", {}, {}, Signed(k1, {"date", "credential"})),
        ByKey1("GET", "root", {}), ByKey1("GET", "bucket", {}),
        ByKey1("GET", "object", {"tagging"}), ByKey1("DELETE", "object", {"uploadId"})}

GatewayCalls == {Objects, Buckets}
AloneCalls == Shapes

NewBuckets == {{c \in Buckets : c.method = "PUT"}}
NoCalls == {}

Symmetry == Permutations(Request)
=============================================================================
