----------------------------- MODULE MCAuthApi -----------------------------
(***************************************************************************)
(* Instances of AuthApi for TLC: what its clients send, and what the lists *)
(* of satellites may say.                                                  *)
(***************************************************************************)
EXTENDS AuthApi, TLC

CONSTANTS s1, s2, n1, n2

Grant(readable, satellite, caveats) ==
  [readable |-> readable, satellite |-> satellite, caveats |-> caveats]

Sent(via, path, method, body, grant) ==
  [via |-> via, path |-> path, method |-> method, body |-> body, grant |-> grant,
   tooLarge |-> FALSE, authorized |-> TRUE, name |-> None]

Post(body, grant) == Sent("http", <<"v1", "access">>, "POST", body, grant)
Register1(grant) == Sent("drpc", << >>, "", "ok", grant)
Bucket(name) == [Sent("http", <<"v1", "bucket">>, "GET", "ok", None) EXCEPT !.name = name]

\* What is wrong with a call before it reaches the database.
Bad == {
  Post("bad", None), Post("tooLarge", None),
  Sent("http", <<"v1", "access">>, "OPTIONS", "ok", None),
  Sent("http", <<"v1", "access">>, "GET", "ok", None),
  Sent("http", <<"v1">>, "GET", "ok", None),
  [Post("ok", None) EXCEPT !.tooLarge = TRUE],
  [Register1(Grant(TRUE, s1, << >>)) EXCEPT !.tooLarge = TRUE],
  [Bucket(n1) EXCEPT !.authorized = FALSE]}

Activity(sent, lookups, reloads, first) ==
  [sent |-> sent, lookups |-> lookups, reloads |-> reloads, first |-> first]

\* Access keys with caveats that are looked up; registrations while the lists change;
\* calls that are refused, and claims of names.
Together == {
  Activity({Post("ok", Grant(TRUE, s1, <<0, 3>>)), Post("ok", Grant(TRUE, s1, <<2, None>>))},
           TRUE, FALSE, {{s1}}),
  Activity({Register1(Grant(TRUE, s, << >>)) : s \in {s1, s2, None}}
           \cup {Register1(Grant(FALSE, None, << >>)), Register1(Grant(TRUE, s1, None))},
           FALSE, TRUE, SUBSET {s1, s2}),
  Activity(Bad \cup {Bucket(n1), Bucket(n2)}, FALSE, FALSE, {{s1}})}

Claims == {Activity({Bucket(n1)}, FALSE, FALSE, {{s1}})}

Sources2 == <<"http", "file">>
Lists2 == {[lists |-> l, readable |-> b] : l \in SUBSET {s1, s2}, b \in BOOLEAN}

Symmetry == Permutations(Request) \cup Permutations(ApiCall)
=============================================================================
