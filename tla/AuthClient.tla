----------------------------- MODULE AuthClient -----------------------------
(***************************************************************************)
(* How the gateway and the link sharing service resolve an access key      *)
(* (pkg/authclient, pkg/backoff): one request per key asks the auth        *)
(* service, with retries, while the others for that key wait for it in an  *)
(* LRU cache whose entries are as old as the question they answer.         *)
(***************************************************************************)
EXTENDS Integers, FiniteSets

CONSTANTS
  Request,     \* requests that are served at the same time
  AccessKey,
  Known,       \* the access keys that exist from the beginning
  Expiration,  \* Cache.Expiration
  Capacity,    \* Cache.Capacity
  MinDelay, MaxDelay,  \* BackOff.Min and BackOff.Max
  MaxTime,     \* bound of the model: the clock
  MaxFaults,   \* bound of the model: answers that are errors
  None

Answers == {"grant", "refused", "missing", "error500", "badBody", "noConn"}
Results == {"grant", "refused", "missing", "failed", "gone"}

\* cachedAuthServiceResponse: encrypted under the access key it belongs to.
Sealed == [under: AccessKey, holds: {"grant", "missing"}]

Entry == [when: Nat,                      \* when the question was begun
          by: Request \cup {None},        \* who asks, None when it is settled
          value: Sealed \cup {None}]

Lookup == [stage: {"idle", "cache", "wait", "ask", "received", "pause", "done"},
           key: AccessKey \cup {None},
           since: Nat,                    \* when ResolveWithCache was called
           on: Request \cup {None},       \* whose question is waited for
           delay: Nat, left: Nat,         \* delay.Delay and what is left of it
           got: Answers \cup Results \cup {None}]

ASSUME AuthClientAssumption ==
  /\ IsFiniteSet(Request) /\ Known \subseteq AccessKey
  /\ Capacity \in Nat \ {0} /\ Expiration \in Nat \ {0}
  /\ MinDelay \in Nat \ {0} /\ MaxDelay \in Nat /\ MinDelay <= MaxDelay
  /\ MaxTime \in Nat /\ MaxFaults \in Nat
  /\ None \notin Request \cup AccessKey \cup Sealed \cup Entry \cup Nat

VARIABLES
  now,
  registered, \* the access keys that the auth service has or had
  revoked,    \* revoked[k]: when it stopped to serve k, or None
  entry,      \* entry[k]: the cache
  lookup,     \* lookup[r]: r's call of ResolveWithCache
  cancelled,  \* the requests whose client is gone
  faults      \* answers that were errors so far

authVars == <<now, registered, revoked, entry, lookup, cancelled, faults>>

Idle == [stage |-> "idle", key |-> None, since |-> 0, on |-> None,
         delay |-> 0, left |-> 0, got |-> None]

AuthInit ==
  /\ now = 0
  /\ registered = Known /\ revoked = [k \in AccessKey |-> None]
  /\ entry = [k \in AccessKey |-> None]
  /\ lookup = [r \in Request |-> Idle]
  /\ cancelled = {}
  /\ faults = 0

At(r, stage) == lookup[r].stage = stage

StartLookup(r, k) ==
  /\ At(r, "idle")
  /\ lookup' = [lookup EXCEPT ![r] =
       [Idle EXCEPT !.stage = "cache", !.key = k, !.since = now]]
  /\ UNCHANGED <<now, registered, revoked, entry, cancelled, faults>>

\* encryptResponse, decrypt: only its own access key opens an entry.
Encrypt(k, v) == [under |-> k, holds |-> v]
Decrypt(k, sealed) == IF sealed.under = k THEN sealed.holds ELSE "failed"

\* A variant: the cache is made without an expiration.
Expired_Never(e) == FALSE

Expired(e) == now - e.when > Expiration

Usable(k) == entry[k] # None /\ ~Expired(entry[k])

\* The answer is in the cache, or somebody asks for it already.
Hit(r) ==
  LET k == lookup[r].key
  IN  /\ At(r, "cache") /\ Usable(k)
      /\ lookup' = [lookup EXCEPT ![r] =
           IF entry[k].by = None
           THEN [@ EXCEPT !.stage = "done", !.got = Decrypt(k, entry[k].value)]
           ELSE [@ EXCEPT !.stage = "wait", !.on = entry[k].by]]
      /\ UNCHANGED <<now, registered, revoked, entry, cancelled, faults>>

\* A new entry takes the place of an expired one, or of another key's when the
\* cache is full; who waits for an entry that was put out gets its answer anyway.
Miss(r) ==
  LET k == lookup[r].key
      kept == {c \in AccessKey \ {k} : entry[c] # None}
  IN  /\ At(r, "cache") /\ ~Usable(k)
      /\ \E out \in SUBSET kept :
           /\ Cardinality(out) = IF Cardinality(kept) >= Capacity THEN 1 ELSE 0
           /\ entry' = [c \in AccessKey |->
                CASE c = k -> [when |-> now, by |-> r, value |-> None]
                  [] c \in out -> None
                  [] OTHER -> entry[c]]
      /\ lookup' = [lookup EXCEPT ![r] =
           [@ EXCEPT !.stage = "ask"]]
      /\ UNCHANGED <<now, registered, revoked, cancelled, faults>>

\* What the service may answer to a lookup of k while it works.
Answer(k) ==
  IF k \in registered /\ revoked[k] = None THEN {"grant"} ELSE {"refused", "missing"}

\* The service comes to its answer now, and it is received later.  For a client
\* that is gone the request fails at once.
Ask(r, answer) ==
  /\ At(r, "ask")
  /\ \E a \in Answers :
       /\ \/ a = answer /\ r \notin cancelled /\ UNCHANGED faults
          \/ a = "noConn" /\ r \in cancelled /\ UNCHANGED faults
          \/ /\ a \in {"error500", "badBody", "noConn"} /\ r \notin cancelled
             /\ faults < MaxFaults /\ faults' = faults + 1
       /\ lookup' = [lookup EXCEPT ![r] = [@ EXCEPT !.stage = "received", !.got = a]]
  /\ UNCHANGED <<now, registered, revoked, entry, cancelled>>

\* r's call ends.  The cache keeps what is worth it under the entry that r made,
\* if that is still there, and gives it to everyone who waits for r; otherwise
\* the entry goes and they look into the cache again.
Finish(r, result, cached) ==
  LET k == lookup[r].key
      mine == entry[k] # None /\ entry[k].by = r
      sealed == Encrypt(k, result)
  IN  /\ entry' = IF ~mine THEN entry
                  ELSE [entry EXCEPT ![k] =
                    IF cached THEN [when |-> @.when, by |-> None, value |-> sealed]
                    ELSE None]
      /\ lookup' = [s \in Request |->
           IF s = r
           THEN [lookup[r] EXCEPT !.stage = "done", !.got = result,
                                  !.delay = 0, !.left = 0]
           ELSE IF ~(At(s, "wait") /\ lookup[s].on = r) THEN lookup[s]
           ELSE IF cached
           THEN [lookup[s] EXCEPT !.stage = "done", !.on = None,
                                  !.got = Decrypt(lookup[s].key, sealed)]
           ELSE [lookup[s] EXCEPT !.stage = "cache", !.on = None]]
      /\ UNCHANGED <<now, registered, revoked, cancelled, faults>>

\* Wait doubles the delay up to the maximum.
NextDelay(d) == IF d = 0 THEN MinDelay ELSE IF 2 * d > MaxDelay THEN MaxDelay ELSE 2 * d
Maxed(r) == lookup[r].delay = MaxDelay

BeginWait(r) ==
  LET d == NextDelay(lookup[r].delay)
  IN  IF r \in cancelled THEN Finish(r, "gone", FALSE)
      ELSE /\ lookup' = [lookup EXCEPT ![r] =
                [@ EXCEPT !.stage = "pause", !.got = None, !.delay = d, !.left = d]]
           /\ UNCHANGED <<now, registered, revoked, entry, cancelled, faults>>

\* Resolve: a failed connection and an answer that cannot be read are retried
\* until the delay is at its maximum, an error 500 always.
Retry(r) ==
  /\ At(r, "received")
  /\ \/ lookup[r].got = "error500"
     \/ lookup[r].got \in {"badBody", "noConn"} /\ ~Maxed(r)
  /\ BeginWait(r)

\* A variant: the entry goes, and nobody tells those who wait for it.
GiveUp_Alone(r) ==
  /\ At(r, "received") /\ lookup[r].got \in {"badBody", "noConn"} /\ Maxed(r)
  /\ entry' = [k \in AccessKey |-> IF entry[k] # None /\ entry[k].by = r THEN None ELSE entry[k]]
  /\ lookup' = [lookup EXCEPT ![r].stage = "done", ![r].got = "failed"]
  /\ UNCHANGED <<now, registered, revoked, cancelled, faults>>

GiveUp(r) ==
  /\ At(r, "received") /\ lookup[r].got \in {"badBody", "noConn"} /\ Maxed(r)
  /\ Finish(r, "failed", FALSE)

\* ResolveWithCache caches the answers 200 and 404 only.
Settle(r) ==
  /\ At(r, "received")
  /\ \/ lookup[r].got \in {"grant", "missing"} /\ Finish(r, lookup[r].got, TRUE)
     \/ lookup[r].got = "refused" /\ Finish(r, "refused", FALSE)

\* The delay is over, or the client is.
Resume(r) ==
  /\ At(r, "pause") /\ lookup[r].left = 0
  /\ lookup' = [lookup EXCEPT ![r] = [@ EXCEPT !.stage = "ask"]]
  /\ UNCHANGED <<now, registered, revoked, entry, cancelled, faults>>

\* A variant: ResolveWithCache caches this error, too.
Leave_Cached(r) ==
  /\ At(r, "pause") /\ r \in cancelled
  /\ Finish(r, "gone", TRUE)

Leave(r) ==
  /\ At(r, "pause") /\ r \in cancelled
  /\ Finish(r, "gone", FALSE)

Cancel(r) ==
  /\ r \notin cancelled /\ ~At(r, "idle") /\ ~At(r, "done")
  /\ cancelled' = cancelled \cup {r}
  /\ UNCHANGED <<now, registered, revoked, entry, lookup, faults>>

\* A key comes into being, perhaps for a grant that has expired, and stops to be
\* served.
Register(k, expired) ==
  /\ k \notin registered /\ registered' = registered \cup {k}
  /\ revoked' = [revoked EXCEPT ![k] = IF expired THEN now ELSE None]
  /\ UNCHANGED <<now, entry, lookup, cancelled, faults>>

Revoke(k) ==
  /\ k \in registered /\ revoked[k] = None
  /\ revoked' = [revoked EXCEPT ![k] = now]
  /\ UNCHANGED <<now, registered, entry, lookup, cancelled, faults>>

\* The keys of ended expire by the next tick.
Tick(ended) ==
  /\ now < MaxTime /\ now' = now + 1
  /\ revoked' = [k \in AccessKey |-> IF k \in ended THEN now + 1 ELSE revoked[k]]
  /\ lookup' = [r \in Request |-> [lookup[r] EXCEPT !.left = IF @ = 0 THEN 0 ELSE @ - 1]]
  /\ UNCHANGED <<registered, entry, cancelled, faults>>

Served == {k \in registered : revoked[k] = None}

ResolveStep(r) ==
  \/ Hit(r) \/ Miss(r) \/ Retry(r) \/ GiveUp(r) \/ Settle(r)
  \/ Resume(r) \/ Leave(r)

AuthNext ==
  \/ \E ended \in SUBSET Served : Tick(ended)
  \/ \E k \in AccessKey :
       Revoke(k) \/ \E expired \in BOOLEAN : Register(k, expired)
  \/ \E r \in Request :
       \/ ResolveStep(r) \/ Cancel(r)
       \/ \E answer \in Answer(lookup[r].key) : Ask(r, answer)
       \/ \E k \in AccessKey : StartLookup(r, k)

AuthSpec == AuthInit /\ [][AuthNext]_authVars
-----------------------------------------------------------------------------
AuthTypeOK ==
  /\ now \in Nat /\ faults \in Nat /\ registered \in SUBSET AccessKey
  /\ revoked \in [AccessKey -> Nat \cup {None}]
  /\ entry \in [AccessKey -> Entry \cup {None}]
  /\ lookup \in [Request -> Lookup]
  /\ cancelled \in SUBSET Request

\* However late an answer arrives and whoever it was asked for: a lookup that
\* begins more than Expiration after a key was revoked does not get its grant,
\* because an entry counts its age from the question, not from the answer.
RevokedIsRefused ==
  \A r \in Request :
    At(r, "done") /\ lookup[r].got = "grant" =>
      LET gone == revoked[lookup[r].key]
      IN  gone # None => gone + Expiration >= lookup[r].since

\* Many requests wait for one that asks the auth service with its own context:
\* only those whose own client is gone are answered with 499.
CancelIsOwn ==
  \A r \in Request :
    At(r, "done") /\ lookup[r].got = "gone" => r \in cancelled

\* Whoever waits for an answer waits for a request that is still at it, for the same
\* key: when that one gives up, is cancelled or is answered, or its entry is put out of
\* the cache, none of those who wait is left behind.
NobodyWaitsInVain ==
  \A r \in Request :
    At(r, "wait") =>
      LET s == lookup[r].on
      IN  /\ s \in Request /\ lookup[s].key = lookup[r].key
          /\ lookup[s].stage \in {"ask", "received", "pause"}
=============================================================================
