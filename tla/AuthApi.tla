------------------------------ MODULE AuthApi ------------------------------
(***************************************************************************)
(* The auth service as its clients see it (pkg/auth: httpauth, drpcauth,   *)
(* authdb, the reloading of the satellite lists), with the auth clients of *)
(* AuthClient as the ones who look access keys up.  The key/value store is *)
(* one node of badgerauth, whose Put looks whether the key exists before   *)
(* its transaction; an access key is random, so that only the names of     *)
(* buckets, which their clients choose, can meet there.                    *)
(*                                                                         *)
(* The clock counts the seconds of CreatedAtUnix.                          *)
(***************************************************************************)
EXTENDS AuthClient, Sequences, FiniteSetsExt

CONSTANTS
  ApiCall,     \* calls of the API other than lookups
  Name, Satellite,
  Source,      \* the sources of AllowedSatellites, in their order
  Contents,    \* what a source may hold: [lists, readable]
  Activities,  \* bound of the model: what goes on in one behaviour:
               \* [sent, lookups, reloads, first]: a set of API calls, whether
               \* there are lookups and reloads, and what the sources list at first
  MaxChanges   \* bound of the model: changes of the sources

\* What the store keeps under an access key, and what a reload has found so far.
AccessRecord == [expires: Nat \cup {None}, valid: BOOLEAN, caveats: Seq(Nat \cup {None})]
Reload == [next: Nat, found: SUBSET Satellite]

VARIABLES
  active,    \* what goes on in this behaviour
  call,      \* call[p]: an API call
  record,    \* record[k]: the record of an access key, or None
  names,     \* names[n]: CreatedAtUnix of the record of bucket name n, or None
  content,   \* content[i]: what the i-th source holds
  reload,    \* the reload that goes on: [next, found], or None
  allowed,   \* Database.allowedSatelliteURLs
  always,    \* always[i]: history: the satellites that source i has listed throughout
  ever,      \* history: those that have been in one
  handedOut, \* handedOut[k]: history: when the answer with k was given, or None
  changes,
  broken     \* calls of the store and of other services that failed so far

callVars == <<call, record, names, handedOut>>
listVars == <<content, reload, allowed, always, ever, changes>>
vars == <<authVars, callVars, listVars, active, broken>>

NoCall == [stage |-> "idle", sent |-> None, key |-> None, created |-> None,
           status |-> None, available |-> FALSE]

\* The satellites that the sources list, a bad line in one of them or not.
Listed(c) == UNION {c[i].lists : i \in DOMAIN c}

Init ==
  /\ AuthInit /\ active \in Activities
  /\ call = [p \in ApiCall |-> NoCall]
  /\ record = [k \in AccessKey |-> None]
  /\ names = [n \in Name |-> None]
  /\ content \in [DOMAIN Source -> {c \in Contents : c.readable /\ c.lists \in active.first}]
  /\ reload = None
  \* New refuses to start without a satellite.
  /\ allowed = Listed(content) /\ allowed # {}
  /\ always = [i \in DOMAIN content |-> content[i].lists] /\ ever = allowed
  /\ handedOut = [k \in AccessKey |-> None] /\ changes = 0 /\ broken = 0

Failing == broken < MaxFaults /\ broken' = broken + 1
-----------------------------------------------------------------------------
(* The HTTP routes, of Dir, Method and Capture; "*" is any component.      *)

HttpRoutes == {
  <<<<"v1", "health", "startup">>, "GET", "getStartup">>,
  <<<<"v1", "health", "live">>, "GET", "getLive">>,
  <<<<"v1", "access">>, "POST", "newAccess">>,
  <<<<"v1", "access">>, "OPTIONS", "newAccessCORS">>,
  <<<<"v1", "access", "*">>, "GET", "getAccess">>,
  <<<<"v1", "bucket">>, "GET", "getBucket">>}

Fits(path, pattern) ==
  /\ Len(path) = Len(pattern)
  /\ \A i \in DOMAIN path : pattern[i] \in {path[i], "*"}

Dispatch(path, method) ==
  LET fitting == {t \in HttpRoutes : Fits(path, t[1])}
      found == {t \in fitting : t[2] = method}
  IN  IF fitting = {} THEN "NotFound"
      ELSE IF found = {} THEN "MethodNotAllowed"
      ELSE (CHOOSE t \in found : TRUE)[3]

\* An access grant is [readable, satellite, caveats]: satellite is None for an
\* address that is no node URL, caveats is their NotAfter or None each, or None
\* when they cannot be read.

\* A variant: the last caveat with a time counts.
ApiKeyExpiration_Last(caveats) ==
  LET timed == {i \in DOMAIN caveats : caveats[i] # None}
  IN  IF timed = {} THEN None ELSE caveats[Max(timed)]

\* apiKeyExpiration: the earliest NotAfter.
ApiKeyExpiration(caveats) ==
  LET times == {caveats[i] : i \in DOMAIN caveats} \ {None}
  IN  IF times = {} THEN None ELSE Min(times)

\* At time t one of the caveats forbids the use of the grant.
Over(caveats, t) == \E i \in DOMAIN caveats : caveats[i] # None /\ caveats[i] <= t

HandlerOf(sent) ==
  IF sent.via = "drpc" THEN "RegisterAccess"
  ELSE IF sent.tooLarge THEN "TooLarge"
  ELSE Dispatch(sent.path, sent.method)

Registers(sent) == HandlerOf(sent) \in {"newAccess", "RegisterAccess"}

\* The store is empty at first; the time of a caveat is a number, and who asks for a
\* bucket name gives one.
ASSUME ApiAssumption ==
  /\ Known = {} /\ Source \in Seq({"http", "file"})
  /\ Contents \subseteq [lists: SUBSET Satellite, readable: BOOLEAN]
  /\ \A a \in Activities : \A sent \in a.sent :
       /\ Registers(sent) /\ sent.body = "ok" /\ sent.grant.caveats # None =>
            sent.grant.caveats \in Seq(Nat \cup {None})
       /\ HandlerOf(sent) = "getBucket" => sent.name \in Name
  /\ None \notin AccessRecord /\ None \notin Reload

Answers4xx(sent, status) == IF sent.via = "drpc" THEN 500 ELSE status

Stage(p, stage) == call[p].stage = stage
Ends(p, status) ==
  call' = [call EXCEPT ![p] = [@ EXCEPT !.stage = "done", !.status = status]]

Available(p) ==
  call' = [call EXCEPT ![p] = [@ EXCEPT
    !.stage = "done", !.status = 200, !.available = TRUE]]

\* A call arrives: what the handlers answer without the database, and the fresh
\* key of a registration.
Receive(p) ==
  /\ Stage(p, "idle")
  /\ \E sent \in active.sent :
       LET h == HandlerOf(sent)
           Got(stage, key, status) ==
             call' = [call EXCEPT ![p] = [NoCall EXCEPT
               !.stage = stage, !.sent = sent, !.key = key, !.status = status]]
       IN  \/ h = "NotFound" /\ Got("done", None, 404)
           \/ h = "MethodNotAllowed" /\ Got("done", None, 405)
           \/ h = "TooLarge" /\ Got("done", None, 413)
           \/ h = "newAccessCORS" /\ Got("done", None, 200)
           \/ /\ h = "newAccess" /\ sent.body = "bad"
              /\ Got("done", None, 422)
           \/ /\ h = "newAccess" /\ sent.body = "tooLarge"
              /\ Got("done", None, 413)
           \/ /\ h = "RegisterAccess" /\ sent.tooLarge
              /\ Got("done", None, 400)
           \/ /\ Registers(sent) /\ ~sent.tooLarge /\ sent.body = "ok"
              /\ \E k \in AccessKey \ registered :
                   /\ \A q \in ApiCall : call[q].key # k
                   /\ Got("satellite", k, None)
           \/ h = "getBucket" /\ ~sent.authorized /\ Got("done", None, 401)
           \/ h = "getBucket" /\ sent.authorized /\ Got("look", None, None)
  /\ UNCHANGED <<authVars, record, names, handedOut, listVars, active, broken>>

\* Database.Put up to the store: the grant and, under the mutex, its satellite.
CheckSatellite(p) ==
  LET sent == call[p].sent
      g == sent.grant
  IN  /\ Stage(p, "satellite")
      /\ IF ~g.readable \/ g.satellite = None \/ g.satellite \notin allowed
         THEN Ends(p, Answers4xx(sent, 400))
         ELSE IF g.caveats = None THEN Ends(p, 500)
         ELSE call' = [call EXCEPT ![p].stage = "put"]
      /\ UNCHANGED <<authVars, record, names, handedOut, listVars, active, broken>>

\* The record is stored.
PutRecord(p) ==
  LET k == call[p].key
      g == call[p].sent.grant
  IN  /\ Stage(p, "put") /\ record[k] = None
      /\ record' = [record EXCEPT ![k] =
           [expires |-> ApiKeyExpiration(g.caveats), valid |-> TRUE,
            caveats |-> g.caveats]]
      /\ call' = [call EXCEPT ![p].stage = "stored"]
      /\ Register(k, Over(g.caveats, now))
      /\ UNCHANGED <<names, handedOut, listVars, active, broken>>

\* A variant: the error comes after the record has been stored.
PutFails_Stored(p) ==
  /\ Stage(p, "put") /\ Failing /\ Ends(p, 500)
  /\ record' = [record EXCEPT ![call[p].key] =
       [expires |-> None, valid |-> TRUE, caveats |-> << >>]]
  /\ UNCHANGED <<authVars, names, handedOut, listVars, active>>

PutFails(p) ==
  /\ Stage(p, "put") /\ Failing /\ Ends(p, 500)
  /\ UNCHANGED <<authVars, record, names, handedOut, listVars, active>>

\* The client has the access key.
HandOut(p) ==
  /\ Stage(p, "stored") /\ Ends(p, 200)
  /\ handedOut' = [handedOut EXCEPT ![call[p].key] = now]
  /\ UNCHANGED <<authVars, record, names, listVars, active, broken>>

\* getBucket: GetBucket and, if there is no such record, PutBucket.
GetBucket(p) ==
  /\ Stage(p, "look")
  /\ \/ /\ names[call[p].sent.name] # None /\ Ends(p, 200) /\ UNCHANGED broken
     \/ /\ names[call[p].sent.name] = None /\ call' = [call EXCEPT ![p].stage = "claim"]
        /\ UNCHANGED broken
     \/ Failing /\ Ends(p, 500)
  /\ UNCHANGED <<authVars, record, names, handedOut, listVars, active>>

\* Put: the record is of this second.
PutBucket(p) ==
  /\ Stage(p, "claim")
  /\ call' = [call EXCEPT ![p] = [@ EXCEPT !.stage = "check", !.created = now]]
  /\ UNCHANGED <<authVars, record, names, handedOut, listVars, active, broken>>

\* PutAtTime looks whether there is such a key, in a transaction of its own.
CheckBucket(p) ==
  /\ Stage(p, "check")
  /\ \/ /\ names[call[p].sent.name] # None /\ Ends(p, 500) /\ UNCHANGED broken
     \/ /\ names[call[p].sent.name] = None /\ call' = [call EXCEPT ![p].stage = "insert"]
        /\ UNCHANGED broken
     \/ Failing /\ Ends(p, 500)
  /\ UNCHANGED <<authVars, record, names, handedOut, listVars, active>>

\* A variant: InsertRecord leaves it to the check before it.
InsertBucket_Any(p) ==
  LET n == call[p].sent.name
  IN  /\ Stage(p, "insert")
      /\ \/ /\ names' = [names EXCEPT ![n] = call[p].created]
            /\ Available(p) /\ UNCHANGED broken
         \/ Failing /\ Ends(p, 500) /\ UNCHANGED names
      /\ UNCHANGED <<authVars, record, handedOut, listVars, active>>

\* InsertRecord accepts a key that exists if the records are equal, and two empty
\* ones of the same second are.
InsertBucket(p) ==
  LET n == call[p].sent.name
  IN  /\ Stage(p, "insert")
      /\ \/ /\ names[n] \in {None, call[p].created}
            /\ names' = [names EXCEPT ![n] = call[p].created]
            /\ Available(p) /\ UNCHANGED broken
         \/ /\ names[n] \notin {None, call[p].created}
            /\ Ends(p, 500) /\ UNCHANGED <<names, broken>>
         \/ Failing /\ Ends(p, 500) /\ UNCHANGED names
      /\ UNCHANGED <<authVars, record, handedOut, listVars, active>>
-----------------------------------------------------------------------------
(* Lookups: getAccess answers the auth clients.                            *)

\* What a record that the store does not return becomes.
NotFoundStatus_404 == 404
NotFoundStatus == 401

\* A variant: whether the record is valid is not looked at.
GetAccess_Invalid(k) ==
  IF record[k] = None \/ (record[k].expires # None /\ record[k].expires <= now)
  THEN NotFoundStatus ELSE 200

\* getAccess on what Database.Get returns: a record that has expired is not there.
GetAccess(k) ==
  IF record[k] = None \/ (record[k].expires # None /\ record[k].expires <= now)
  THEN NotFoundStatus
  ELSE IF ~record[k].valid THEN 401 ELSE 200

\* What the auth client makes of the status.
AnswerOf(status) ==
  CASE status = 200 -> "grant" [] status = 404 -> "missing" [] OTHER -> "refused"

LookUp(r) ==
  /\ active.lookups
  /\ \/ \E k \in AccessKey : StartLookup(r, k)
     \/ ResolveStep(r) \/ Cancel(r)
     \/ At(r, "ask") /\ Ask(r, AnswerOf(GetAccess(lookup[r].key)))
  /\ UNCHANGED <<callVars, listVars, active, broken>>

\* An administrator invalidates a record.
Invalidate(k) ==
  /\ active.lookups /\ record[k] # None /\ record[k].valid
  /\ record' = [record EXCEPT ![k].valid = FALSE]
  /\ IF revoked[k] = None THEN Revoke(k) ELSE UNCHANGED authVars
  /\ UNCHANGED <<call, names, handedOut, listVars, active, broken>>

\* The clock, with which the rights of a key end at its earliest caveat.  It stands
\* still while lists are reloaded, where nothing depends on it (bound of the model).
Time ==
  /\ ~active.reloads
  /\ Tick({k \in Served : Over(record[k].caveats, now + 1)})
  /\ UNCHANGED <<callVars, listVars, broken, active>>
-----------------------------------------------------------------------------
(* The satellite lists.                                                    *)

\* What is behind a source changes.
Publish(i) ==
  /\ active.reloads /\ changes < MaxChanges /\ changes' = changes + 1
  /\ \E c \in Contents \ {content[i]} : content' = [content EXCEPT ![i] = c]
  /\ always' = [always EXCEPT ![i] = @ \cap content'[i].lists]
  /\ ever' = ever \cup Listed(content')
  /\ UNCHANGED <<authVars, callVars, reload, allowed, active, broken>>

\* satelliteListReload fires.
ReloadStart ==
  /\ active.reloads /\ reload = None
  /\ reload' = [next |-> 1, found |-> {}]
  /\ UNCHANGED <<authVars, callVars, content, allowed, always, ever, changes, active, broken>>

\* Resolve reads one source after the other.
ReadSource ==
  /\ reload # None /\ reload.next <= Len(Source) /\ content[reload.next].readable
  /\ reload' = [next |-> reload.next + 1,
                found |-> reload.found \cup content[reload.next].lists]
  /\ UNCHANGED <<authVars, callVars, content, allowed, always, ever, changes, active, broken>>

\* A variant: what Resolve has found before the error is taken.
ReadFails_Partial ==
  /\ reload # None /\ reload.next <= Len(Source)
  /\ \/ ~content[reload.next].readable /\ UNCHANGED broken
     \/ Source[reload.next] = "http" /\ Failing
  /\ reload' = None /\ allowed' = reload.found
  /\ UNCHANGED <<authVars, callVars, content, always, ever, changes, active>>

\* An error of one source leaves the list as it was.
ReadFails ==
  /\ reload # None /\ reload.next <= Len(Source)
  /\ \/ ~content[reload.next].readable /\ UNCHANGED broken
     \/ Source[reload.next] = "http" /\ Failing
  /\ reload' = None
  /\ UNCHANGED <<authVars, callVars, content, allowed, always, ever, changes, active>>

SetAllowedSatellites ==
  /\ reload # None /\ reload.next > Len(Source)
  /\ allowed' = reload.found /\ reload' = None
  /\ UNCHANGED <<authVars, callVars, content, always, ever, changes, active, broken>>

CallStep(p) ==
  \/ Receive(p) \/ CheckSatellite(p) \/ PutRecord(p) \/ PutFails(p) \/ HandOut(p)
  \/ GetBucket(p) \/ PutBucket(p) \/ CheckBucket(p) \/ InsertBucket(p)

ReloadStep ==
  \/ \E i \in DOMAIN Source : Publish(i)
  \/ ReloadStart \/ ReadSource \/ ReadFails \/ SetAllowedSatellites

Next ==
  \/ \E p \in ApiCall : CallStep(p)
  \/ \E r \in Request : LookUp(r)
  \/ \E k \in AccessKey : Invalidate(k)
  \/ Time \/ ReloadStep

Spec == Init /\ [][Next]_vars
-----------------------------------------------------------------------------
\* The types of the API's state.
AuthApiTypeOK ==
  /\ AuthTypeOK
  /\ names \in [Name -> Nat \cup {None}]
  /\ allowed \in SUBSET Satellite /\ content \in [DOMAIN Source -> Contents]
  /\ \A k \in AccessKey : record[k] # None <=> k \in registered

\* An access key works as soon as it is handed out: nobody who looks it up later
\* is refused while it is valid, even if it was looked up before it existed (which
\* is why getAccess says 401 and not 404, that the auth client would cache) or
\* waits for somebody's question that is older.
HandedOutIsServed ==
  \A r \in Request :
    At(r, "done") /\ lookup[r].got \in {"refused", "missing"} =>
      LET k == lookup[r].key
      IN  handedOut[k] # None /\ handedOut[k] < lookup[r].since => revoked[k] # None

\* Whatever reloads fail, at whichever source, and however the sources change while
\* they are read: what one of them has listed throughout stays allowed, and what none
\* ever has is not.
ListedIsAllowed ==
  UNION {always[i] : i \in DOMAIN always} \subseteq allowed /\ allowed \subseteq ever

\* However the calls that ask for a bucket name interleave between the lookup, the
\* check of Put and its transaction: all that are told that it is available have
\* claimed it within the same second.
NameGivenWithinASecond ==
  \A p, q \in ApiCall :
    /\ call[p].available /\ call[q].available
    /\ call[p].sent.name = call[q].sent.name
    => call[p].created = call[q].created

\* What authdb.KV and PutAtTime say of Put, "It is an error if the key already
\* exists": the name that a call is told is available had no record before.
PutOfExistingIsError ==
  [][\A p \in ApiCall :
       call'[p].available /\ ~call[p].available => names[call[p].sent.name] = None]_vars

\* What the service answers is what the auth client relies on.
ClientIsServed == AuthSpec
=============================================================================
