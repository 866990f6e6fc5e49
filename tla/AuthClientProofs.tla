-------------------------- MODULE AuthClientProofs --------------------------
(***************************************************************************)
(* The lookups of access keys, for any number of requests, keys and any    *)
(* expiration: no lookup that begins more than Expiration after a key was  *)
(* revoked is given its grant, and only the requests whose own client is   *)
(* gone are told so.                                                       *)
(*                                                                         *)
(* A grant may sit in four places: in a settled entry, in an answer that   *)
(* is on its way, with a request that is done, and in front of one that    *)
(* waits.  Grants says of each how long its key was served.                *)
(***************************************************************************)
EXTENDS AuthClient, TLAPS

\* The types, and what the stages and the entries have.
Types ==
  /\ AuthTypeOK
  /\ \A r \in Request : ~At(r, "idle") => lookup[r].key \in AccessKey
  /\ \A k \in AccessKey :
       entry[k] # None /\ entry[k].by = None => entry[k].value \in Sealed

\* Nothing is dated in the future.
Ages ==
  /\ \A r \in Request : lookup[r].since <= now
  /\ \A k \in AccessKey : entry[k] # None => entry[k].when <= now

\* The key was served at the time t, or at a time less than Expiration before.
ServedAt(k, t) == revoked[k] # None => t <= revoked[k]
ServedBefore(k, t) == revoked[k] # None => t <= revoked[k] + Expiration

\* An answer that is on its way, for the entry it will settle and for those who
\* wait for it.
AnswerIsFresh(r) ==
  LET k == lookup[r].key
  IN  /\ ServedAt(k, lookup[r].since)
      /\ entry[k] # None /\ entry[k].by = r => ServedAt(k, entry[k].when)
      /\ \A s \in Request :
           At(s, "wait") /\ lookup[s].on = r /\ lookup[s].key = k
             => ServedBefore(k, lookup[s].since)

EntryIsFresh(k) ==
  entry[k] # None /\ entry[k].by = None /\ entry[k].value.holds = "grant"
    => ServedAt(k, entry[k].when)

ResultIsFresh(r) ==
  At(r, "done") /\ lookup[r].got = "grant"
    => ServedBefore(lookup[r].key, lookup[r].since)

Grants ==
  /\ \A k \in AccessKey : EntryIsFresh(k)
  /\ \A r \in Request : At(r, "received") /\ lookup[r].got = "grant" => AnswerIsFresh(r)
  /\ \A r \in Request : ResultIsFresh(r)

AuthInv == Types /\ Ages /\ Grants /\ CancelIsOwn

-----------------------------------------------------------------------------
LEMMA AuthInitInv == AuthInit => AuthInv
<1> SUFFICES ASSUME AuthInit PROVE AuthInv
  OBVIOUS
<1>1. Idle \in Lookup /\ Idle.stage = "idle" /\ Idle.since = 0
  BY DEF Idle, Lookup
<1>2. \A r \in Request : lookup[r] = Idle
  BY DEF AuthInit
<1>3. \A r \in Request : At(r, "idle")
  BY <1>1, <1>2 DEF At
<1>4. Types
  BY <1>1, <1>2, <1>3, AuthClientAssumption DEF AuthInit, Types, AuthTypeOK
<1>5. Ages /\ Grants /\ CancelIsOwn
  BY <1>1, <1>2, <1>3
     DEF AuthInit, Ages, Grants, EntryIsFresh, ResultIsFresh, CancelIsOwn, At
<1> QED
  BY <1>4, <1>5 DEF AuthInv

\* Steps that change the lookup of one request only, and give it no grant: what
\* the others have and wait for stays as it was.
LEMMA OneLookup ==
  ASSUME AuthInv, NEW r \in Request, NEW l \in Lookup,
         lookup' = [lookup EXCEPT ![r] = l],
         l.stage # "idle" => l.key \in AccessKey,
         l.since <= now,
         l.stage = "done" /\ l.got = "grant" => ServedBefore(l.key, l.since),
         l.stage = "done" => l.got # "gone",
         l.stage = "received" /\ l.got = "grant" =>
           ~At(r, "wait") /\ l.key = lookup[r].key /\ revoked[l.key] = None,
         l.stage = "wait" =>
           \A s \in Request \ {r} :
             At(s, "received") /\ lookup[s].got = "grant" /\ l.on = s
               /\ lookup[s].key = l.key => ServedBefore(l.key, l.since),
         UNCHANGED <<now, registered, revoked, entry, cancelled>>,
         faults' \in Nat
  PROVE  AuthInv'
<1>1. /\ lookup' \in [Request -> Lookup] /\ lookup'[r] = l
      /\ \A s \in Request \ {r} : lookup'[s] = lookup[s]
  BY DEF AuthInv, Types, AuthTypeOK
<1>2. Types'
  <2>1. AuthTypeOK'
    BY <1>1 DEF AuthInv, Types, AuthTypeOK
  <2>2. \A s \in Request : ~At(s, "idle")' => lookup'[s].key \in AccessKey
    BY <1>1 DEF AuthInv, Types, At
  <2> QED
    BY <2>1, <2>2 DEF AuthInv, Types
<1>3. Ages'
  BY <1>1 DEF AuthInv, Ages
<1>4. ASSUME NEW k \in AccessKey
      PROVE  EntryIsFresh(k)'
  BY DEF AuthInv, Grants, EntryIsFresh, ServedAt
<1>5. ASSUME NEW s \in Request, At(s, "received")', lookup'[s].got = "grant"
      PROVE  AnswerIsFresh(s)'
  <2>1. CASE s = r
    <3>1. revoked'[lookup'[s].key] = None
      BY <1>1, <1>5, <2>1 DEF At
    <3> QED
      BY <3>1 DEF AnswerIsFresh, ServedAt, ServedBefore
  <2>2. CASE s # r
    <3>1. lookup'[s] = lookup[s] /\ At(s, "received") /\ AnswerIsFresh(s)
      BY <1>1, <1>5, <2>2 DEF AuthInv, Grants, At
    <3>2. ASSUME NEW u \in Request, At(u, "wait")', lookup'[u].on = s,
                 lookup'[u].key = lookup'[s].key
          PROVE  ServedBefore(lookup[s].key, lookup[u].since)'
      <4>1. CASE u = r
        BY <1>1, <1>5, <2>2, <3>1, <3>2, <4>1 DEF At, ServedBefore
      <4>2. CASE u # r
        BY <1>1, <3>1, <3>2, <4>2 DEF At, AnswerIsFresh, ServedBefore
      <4> QED
        BY <4>1, <4>2
    <3> QED
      BY <3>1, <3>2 DEF AnswerIsFresh, ServedAt, ServedBefore
  <2> QED
    BY <2>1, <2>2
<1>6. ASSUME NEW s \in Request
      PROVE  ResultIsFresh(s)'
  BY <1>1 DEF AuthInv, Grants, ResultIsFresh, ServedBefore, At
<1>7. CancelIsOwn'
  BY <1>1 DEF AuthInv, CancelIsOwn, At
<1> QED
  BY <1>2, <1>3, <1>4, <1>5, <1>6, <1>7 DEF AuthInv, Grants

\* The end of a call: its result, and a grant only if it was received.
LEMMA FinishKeeps ==
  ASSUME AuthInv, NEW r \in Request, NEW result \in Results, NEW cached \in BOOLEAN,
         Finish(r, result, cached),
         lookup[r].stage \in {"received", "pause"},
         cached => result \in {"grant", "missing"},
         result = "grant" => At(r, "received") /\ lookup[r].got = "grant",
         result = "gone" => r \in cancelled
  PROVE  AuthInv'
<1>k. PICK k \in AccessKey : k = lookup[r].key
  BY DEF AuthInv, Types, At
<1>u. UNCHANGED <<now, registered, revoked, cancelled, faults>>
  BY DEF Finish
<1>t. /\ lookup \in [Request -> Lookup] /\ entry \in [AccessKey -> Entry \cup {None}]
  BY DEF AuthInv, Types, AuthTypeOK
\* What the entries and the lookups become.
<1>e. /\ entry' \in [AccessKey -> Entry \cup {None}]
      /\ \A c \in AccessKey \ {k} : entry'[c] = entry[c]
      /\ \/ entry'[k] = entry[k] /\ (entry[k] = None \/ entry[k].by # r)
         \/ entry'[k] = None
         \/ /\ cached /\ entry[k] # None /\ entry[k].by = r
            /\ entry'[k] = [when |-> entry[k].when, by |-> None,
                            value |-> Encrypt(k, result)]
  <2>1. cached => Encrypt(k, result) \in Sealed
    BY DEF Encrypt, Sealed
  <2>2. ASSUME entry[k] # None, cached
        PROVE  [when |-> entry[k].when, by |-> None, value |-> Encrypt(k, result)] \in Entry
    BY <1>t, <2>1, <2>2 DEF Entry
  <2>3. entry' = IF ~(entry[k] # None /\ entry[k].by = r) THEN entry
                 ELSE [entry EXCEPT ![k] =
                   IF cached THEN [when |-> entry[k].when, by |-> None,
                                   value |-> Encrypt(k, result)]
                   ELSE None]
    BY <1>k, <1>t DEF Finish
  <2>4. CASE ~(entry[k] # None /\ entry[k].by = r)
    BY <1>t, <2>3, <2>4
  <2>5. CASE entry[k] # None /\ entry[k].by = r /\ cached
    BY <1>t, <2>2, <2>3, <2>5
  <2>6. CASE entry[k] # None /\ entry[k].by = r /\ ~cached
    BY <1>t, <2>3, <2>6
  <2> QED
    BY <2>4, <2>5, <2>6
<1>l. ASSUME NEW s \in Request
      PROVE  /\ lookup'[s] \in Lookup
             /\ lookup'[s].key = lookup[s].key /\ lookup'[s].since = lookup[s].since
             /\ \/ lookup'[s] = lookup[s] /\ s # r /\ ~(At(s, "wait") /\ lookup[s].on = r)
                \/ s = r /\ lookup'[s].stage = "done" /\ lookup'[s].got = result
                \/ /\ At(s, "wait") /\ lookup[s].on = r /\ s # r
                   /\ \/ lookup'[s].stage = "cache"
                      \/ /\ cached /\ lookup'[s].stage = "done"
                         /\ \/ lookup[s].key = k /\ lookup'[s].got = result
                            \/ lookup'[s].got = "failed"
  <2>1. lookup[s] \in Lookup
    BY <1>t
  <2>2. CASE s = r
    <3>1. lookup'[s] = [lookup[s] EXCEPT !.stage = "done", !.got = result,
                                         !.delay = 0, !.left = 0]
      BY <2>2 DEF Finish
    <3>2. lookup'[s] \in Lookup
      <4>1. PICK l \in Lookup : l = [lookup[s] EXCEPT !.stage = "done", !.got = result]
        BY <2>1 DEF Lookup
      <4>2. [l EXCEPT !.delay = 0, !.left = 0] \in Lookup
        BY DEF Lookup
      <4> QED
        BY <2>1, <2>2, <3>1, <4>1, <4>2 DEF Lookup
    <3>3. /\ lookup'[s].key = lookup[s].key /\ lookup'[s].since = lookup[s].since
          /\ lookup'[s].stage = "done" /\ lookup'[s].got = result
      BY <2>1, <2>2, <3>1 DEF Lookup
    <3> QED
      BY <2>2, <3>2, <3>3
  <2>3. CASE s # r /\ ~(At(s, "wait") /\ lookup[s].on = r)
    BY <2>1, <2>3 DEF Finish
  <2>4. CASE s # r /\ At(s, "wait") /\ lookup[s].on = r /\ cached
    <3>1. lookup'[s] = [lookup[s] EXCEPT !.stage = "done", !.on = None,
                          !.got = Decrypt(lookup[s].key, Encrypt(k, result))]
      BY <1>k, <2>4 DEF Finish
    <3>2. Decrypt(lookup[s].key, Encrypt(k, result))
            = IF lookup[s].key = k THEN result ELSE "failed"
      BY DEF Decrypt, Encrypt
    <3>3. Decrypt(lookup[s].key, Encrypt(k, result)) \in Results
      BY <3>2 DEF Results
    <3> QED
      BY <2>1, <2>4, <3>1, <3>2, <3>3 DEF Lookup
  <2>5. CASE s # r /\ At(s, "wait") /\ lookup[s].on = r /\ ~cached
    <3>1. lookup'[s] = [lookup[s] EXCEPT !.stage = "cache", !.on = None]
      BY <2>5 DEF Finish
    <3> QED
      BY <2>1, <2>5, <3>1 DEF Lookup
  <2> QED
    BY <2>2, <2>3, <2>4, <2>5
\* When the call ends with a grant, the answer was fresh.
<1>f. ASSUME result = "grant"
      PROVE  /\ ServedAt(k, lookup[r].since)
             /\ entry[k] # None /\ entry[k].by = r => ServedAt(k, entry[k].when)
             /\ \A s \in Request :
                  At(s, "wait") /\ lookup[s].on = r /\ lookup[s].key = k
                    => ServedBefore(k, lookup[s].since)
  BY <1>f, <1>k DEF AuthInv, Grants, AnswerIsFresh
<1>1. Types'
  <2>1. AuthTypeOK'
    <3>1. lookup' \in [Request -> Lookup]
      BY <1>l DEF Finish
    <3> QED
      BY <3>1, <1>e, <1>u DEF AuthInv, Types, AuthTypeOK
  <2>2. \A s \in Request : ~At(s, "idle")' => lookup'[s].key \in AccessKey
    BY <1>l DEF AuthInv, Types, At
  <2>3. ASSUME NEW c \in AccessKey, entry'[c] # None, entry'[c].by = None
        PROVE  entry'[c].value \in Sealed
    <3>1. cached => Encrypt(k, result) \in Sealed
      BY DEF Encrypt, Sealed
    <3> QED
      BY <1>e, <2>3, <3>1 DEF AuthInv, Types
  <2> QED
    BY <2>1, <2>2, <2>3 DEF Types
<1>2. Ages'
  BY <1>e, <1>l, <1>u DEF AuthInv, Ages
<1>3. ASSUME NEW c \in AccessKey
      PROVE  EntryIsFresh(c)'
  <2>1. CASE entry'[c] = entry[c] \/ entry'[c] = None
    BY <1>u, <2>1 DEF AuthInv, Grants, EntryIsFresh, ServedAt
  <2>2. CASE c = k /\ cached /\ entry[k] # None /\ entry[k].by = r
             /\ entry'[k] = [when |-> entry[k].when, by |-> None,
                             value |-> Encrypt(k, result)]
    BY <1>f, <1>u, <2>2 DEF EntryIsFresh, ServedAt, Encrypt
  <2> QED
    BY <1>e, <2>1, <2>2
<1>4. ASSUME NEW s \in Request, At(s, "received")', lookup'[s].got = "grant"
      PROVE  AnswerIsFresh(s)'
  <2>1. lookup'[s] = lookup[s] /\ s # r
    BY <1>4, <1>l DEF At
  <2>2. At(s, "received") /\ AnswerIsFresh(s) /\ lookup[s].key \in AccessKey
    BY <1>4, <2>1 DEF AuthInv, Types, Grants, At
  <2>n. s # None
    BY AuthClientAssumption
  <2>3. entry'[lookup[s].key] # None /\ entry'[lookup[s].key].by = s
          => entry'[lookup[s].key] = entry[lookup[s].key]
    BY <1>e, <2>1, <2>2, <2>n
  <2>4. \A u \in Request : At(u, "wait")' => lookup'[u] = lookup[u] /\ At(u, "wait")
    BY <1>l DEF At
  <2> QED
    BY <1>u, <2>1, <2>2, <2>3, <2>4 DEF AnswerIsFresh, ServedAt, ServedBefore
<1>5. ASSUME NEW s \in Request
      PROVE  ResultIsFresh(s)'
  <2> SUFFICES ASSUME At(s, "done")', lookup'[s].got = "grant"
               PROVE  ServedBefore(lookup[s].key, lookup[s].since)'
    BY DEF ResultIsFresh
  <2>1. CASE lookup'[s] = lookup[s]
    BY <1>u, <2>1 DEF AuthInv, Grants, ResultIsFresh, ServedBefore, At
  <2>2. CASE s = r /\ lookup'[s].got = result
    <3>1. ServedAt(k, lookup[r].since)
      BY <1>f, <2>2
    <3>2. lookup[r].since \in Nat /\ revoked[k] \in Nat \cup {None}
      BY <1>t DEF AuthInv, Types, AuthTypeOK, Lookup
    <3> QED
      BY <1>k, <1>l, <1>u, <2>2, <3>1, <3>2, AuthClientAssumption
         DEF ServedAt, ServedBefore
  <2>3. CASE At(s, "wait") /\ lookup[s].on = r /\ lookup[s].key = k /\ lookup'[s].got = result
    BY <1>f, <1>l, <1>u, <2>3 DEF ServedBefore
  <2> QED
    BY <1>l, <2>1, <2>2, <2>3 DEF At
<1>6. CancelIsOwn'
  <2> SUFFICES ASSUME NEW s \in Request, At(s, "done")', lookup'[s].got = "gone"
               PROVE  s \in cancelled'
    BY DEF CancelIsOwn
  <2> QED
    BY <1>l, <1>u DEF AuthInv, CancelIsOwn, At
<1> QED
  BY <1>1, <1>2, <1>3, <1>4, <1>5, <1>6 DEF AuthInv, Grants

\* Time passes, keys come and go: whoever was served until now is served now.
LEMMA KeysChange ==
  ASSUME AuthInv,
         now' \in Nat, now <= now',
         registered' \in SUBSET AccessKey,
         revoked' \in [AccessKey -> Nat \cup {None}],
         \A k \in AccessKey :
           revoked'[k] = revoked[k] \/ revoked'[k] = None \/ now <= revoked'[k],
         lookup' \in [Request -> Lookup],
         \A r \in Request :
           /\ lookup'[r].stage = lookup[r].stage /\ lookup'[r].key = lookup[r].key
           /\ lookup'[r].since = lookup[r].since /\ lookup'[r].on = lookup[r].on
           /\ lookup'[r].got = lookup[r].got,
         UNCHANGED <<entry, cancelled, faults>>
  PROVE  AuthInv'
<1>1. Types' /\ CancelIsOwn'
  BY DEF AuthInv, Types, AuthTypeOK, CancelIsOwn, At
<1>2. now \in Nat /\ \A r \in Request : lookup[r].since \in Nat /\ lookup[r].since <= now
  BY DEF AuthInv, Types, AuthTypeOK, Lookup, Ages
<1>3. \A k \in AccessKey : entry[k] # None => entry[k].when \in Nat /\ entry[k].when <= now
  BY DEF AuthInv, Types, AuthTypeOK, Entry, Ages
<1>4. Ages'
  <2>1. \A r \in Request : lookup'[r].since <= now'
    BY <1>2
  <2>2. \A k \in AccessKey : entry'[k] # None => entry'[k].when <= now'
    BY <1>2, <1>3
  <2> QED
    BY <2>1, <2>2 DEF Ages
<1>5. ASSUME NEW k \in AccessKey, NEW t \in Nat, t <= now
      PROVE  /\ ServedAt(k, t) => (revoked'[k] # None => t <= revoked'[k])
             /\ ServedBefore(k, t) => (revoked'[k] # None => t <= revoked'[k] + Expiration)
  <2>1. revoked'[k] \in Nat \cup {None}
    OBVIOUS
  <2>2. revoked'[k] = revoked[k] \/ revoked'[k] = None \/ now <= revoked'[k]
    OBVIOUS
  <2> QED
    BY <1>2, <1>5, <2>1, <2>2, AuthClientAssumption DEF ServedAt, ServedBefore
<1>6. ASSUME NEW k \in AccessKey
      PROVE  EntryIsFresh(k)'
  BY <1>3, <1>5 DEF AuthInv, Grants, EntryIsFresh, ServedAt
<1>7. ASSUME NEW r \in Request, At(r, "received")', lookup'[r].got = "grant"
      PROVE  AnswerIsFresh(r)'
  <2>1. AnswerIsFresh(r) /\ lookup[r].key \in AccessKey
    BY <1>7 DEF AuthInv, Types, Grants, At
  <2>2. PICK k \in AccessKey : k = lookup[r].key /\ k = lookup'[r].key
    BY <2>1
  <2>3. revoked'[k] # None => lookup[r].since <= revoked'[k]
    BY <1>2, <1>5, <2>1, <2>2 DEF AnswerIsFresh
  <2>4. entry[k] # None /\ entry[k].by = r =>
          (revoked'[k] # None => entry[k].when <= revoked'[k])
    BY <1>3, <1>5, <2>1, <2>2 DEF AnswerIsFresh
  <2>5. ASSUME NEW s \in Request, At(s, "wait"), lookup[s].on = r, lookup[s].key = k
        PROVE  revoked'[k] # None => lookup[s].since <= revoked'[k] + Expiration
    BY <1>2, <1>5, <2>1, <2>2, <2>5 DEF AnswerIsFresh
  <2> QED
    BY <2>2, <2>3, <2>4, <2>5 DEF AnswerIsFresh, ServedAt, ServedBefore, At
<1>8. ASSUME NEW r \in Request
      PROVE  ResultIsFresh(r)'
  <2> SUFFICES ASSUME At(r, "done"), lookup[r].got = "grant"
               PROVE  ServedBefore(lookup[r].key, lookup[r].since)'
    BY DEF ResultIsFresh, At
  <2>1. ServedBefore(lookup[r].key, lookup[r].since) /\ lookup[r].key \in AccessKey
    BY DEF AuthInv, Types, Grants, ResultIsFresh, At
  <2>2. revoked'[lookup[r].key] # None =>
          lookup[r].since <= revoked'[lookup[r].key] + Expiration
    BY <1>2, <1>5, <2>1
  <2> QED
    BY <2>2 DEF ServedBefore
<1> QED
  BY <1>1, <1>4, <1>6, <1>7, <1>8 DEF AuthInv, Grants

\* A lookup makes the entry that it will settle.
LEMMA MissKeeps ==
  ASSUME AuthInv, NEW r \in Request, Miss(r)
  PROVE  AuthInv'
<1>k. PICK k \in AccessKey : k = lookup[r].key
  BY DEF Miss, AuthInv, Types, At
<1>t. /\ lookup \in [Request -> Lookup] /\ entry \in [AccessKey -> Entry \cup {None}]
      /\ now \in Nat
  BY DEF AuthInv, Types, AuthTypeOK
<1>u. UNCHANGED <<now, registered, revoked, cancelled, faults>> /\ At(r, "cache")
  BY DEF Miss
<1>e. /\ entry' \in [AccessKey -> Entry \cup {None}]
      /\ \A c \in AccessKey :
           \/ entry'[c] = entry[c]
           \/ entry'[c] = None
           \/ entry'[c] # None /\ entry'[c].by = r /\ entry'[c].when = now
  <2>1. PICK out : entry' = [c \in AccessKey |->
                CASE c = k -> [when |-> now, by |-> r, value |-> None]
                  [] c \in out -> None
                  [] OTHER -> entry[c]]
    BY <1>k DEF Miss
  <2>2. [when |-> now, by |-> r, value |-> None] \in Entry
    BY <1>t DEF Entry
  <2> QED
    BY <1>t, <2>1, <2>2
<1>l. /\ lookup' \in [Request -> Lookup]
      /\ \A s \in Request \ {r} : lookup'[s] = lookup[s]
      /\ At(r, "ask")' /\ lookup'[r].key = lookup[r].key
      /\ lookup'[r].since = lookup[r].since
  <2>1. lookup' = [lookup EXCEPT ![r] = [lookup[r] EXCEPT !.stage = "ask"]]
    BY DEF Miss
  <2>2. [lookup[r] EXCEPT !.stage = "ask"] \in Lookup
    BY <1>t DEF Lookup
  <2> QED
    BY <1>t, <2>1, <2>2 DEF At, Lookup
<1>n. r # None /\ None \notin Entry
  BY AuthClientAssumption
<1>1. Types'
  <2>1. AuthTypeOK'
    BY <1>e, <1>l, <1>u DEF AuthInv, Types, AuthTypeOK
  <2>2. \A s \in Request : ~At(s, "idle")' => lookup'[s].key \in AccessKey
    BY <1>k, <1>l DEF AuthInv, Types, At
  <2>3. \A c \in AccessKey :
          entry'[c] # None /\ entry'[c].by = None => entry'[c].value \in Sealed
    BY <1>e, <1>n DEF AuthInv, Types
  <2> QED
    BY <2>1, <2>2, <2>3 DEF Types
<1>2. Ages'
  BY <1>e, <1>l, <1>t, <1>u DEF AuthInv, Ages
<1>3. ASSUME NEW c \in AccessKey
      PROVE  EntryIsFresh(c)'
  BY <1>e, <1>n, <1>u DEF AuthInv, Grants, EntryIsFresh, ServedAt
<1>4. ASSUME NEW s \in Request, At(s, "received")', lookup'[s].got = "grant"
      PROVE  AnswerIsFresh(s)'
  <2>1. s # r /\ lookup'[s] = lookup[s] /\ At(s, "received") /\ AnswerIsFresh(s)
        /\ lookup[s].key \in AccessKey
    BY <1>4, <1>l DEF AuthInv, Types, Grants, At
  <2>2. entry'[lookup[s].key] # None /\ entry'[lookup[s].key].by = s
          => entry'[lookup[s].key] = entry[lookup[s].key]
    BY <1>e, <2>1
  <2>3. \A u \in Request : At(u, "wait")' => lookup'[u] = lookup[u] /\ At(u, "wait")
    BY <1>l DEF At
  <2> QED
    BY <1>u, <2>1, <2>2, <2>3 DEF AnswerIsFresh, ServedAt, ServedBefore
<1>5. ASSUME NEW s \in Request
      PROVE  ResultIsFresh(s)'
  BY <1>l, <1>u DEF AuthInv, Grants, ResultIsFresh, ServedBefore, At
<1>6. CancelIsOwn'
  BY <1>l, <1>u DEF AuthInv, CancelIsOwn, At
<1> QED
  BY <1>1, <1>2, <1>3, <1>4, <1>5, <1>6 DEF AuthInv, Grants

\* A settled answer is taken from the cache, or somebody's question is joined: the
\* entry is not older than Expiration, and the key was served when it was made.
LEMMA HitKeeps ==
  ASSUME AuthInv, NEW r \in Request, Hit(r)
  PROVE  AuthInv'
<1>k. PICK k \in AccessKey : k = lookup[r].key
  BY DEF Hit, AuthInv, Types, At
<1>t. /\ lookup[r] \in Lookup /\ entry[k] \in Entry /\ now \in Nat
      /\ revoked[k] \in Nat \cup {None} /\ lookup[r].since \in Nat
      /\ entry[k].when \in Nat /\ At(r, "cache") /\ entry[k] # None
  BY <1>k, AuthClientAssumption DEF Hit, Usable, AuthInv, Types, AuthTypeOK, Lookup, Entry
<1>u. UNCHANGED <<now, registered, revoked, entry, cancelled, faults>>
  BY DEF Hit
<1>a. ASSUME ServedAt(k, entry[k].when)
      PROVE  ServedBefore(k, lookup[r].since)
  <2>1. now - entry[k].when <= Expiration
    BY <1>k, <1>t, AuthClientAssumption DEF Hit, Usable, Expired
  <2>2. lookup[r].since <= now
    BY DEF AuthInv, Ages
  <2> QED
    BY <1>a, <1>t, <2>1, <2>2, AuthClientAssumption DEF ServedAt, ServedBefore
<1>1. CASE entry[k].by = None
  <2>1. entry[k].value \in Sealed
    BY <1>1, <1>t DEF AuthInv, Types
  <2>2. PICK g \in {"grant", "missing", "failed"} :
          g = Decrypt(k, entry[k].value) /\ (g = "grant" => entry[k].value.holds = "grant")
    BY <2>1 DEF Decrypt, Sealed
  <2>3. lookup' = [lookup EXCEPT ![r] = [lookup[r] EXCEPT !.stage = "done", !.got = g]]
    BY <1>1, <1>k, <2>2 DEF Hit
  <2>4. g = "grant" => ServedBefore(k, lookup[r].since)
    BY <1>1, <1>a, <1>t, <2>2 DEF AuthInv, Grants, EntryIsFresh
  <2>5. PICK l \in Lookup : l = [lookup[r] EXCEPT !.stage = "done", !.got = g]
    BY <1>t DEF Lookup, Results
  <2>6. l.stage = "done" /\ l.got = g /\ l.key = k /\ l.since = lookup[r].since
    BY <1>k, <1>t, <2>5 DEF Lookup
  <2> QED
    BY <1>u, <1>t, <2>3, <2>4, <2>5, <2>6, OneLookup
       DEF AuthInv, Ages, Types, AuthTypeOK
<1>2. CASE entry[k].by # None
  <2>1. lookup' = [lookup EXCEPT ![r] =
                     [lookup[r] EXCEPT !.stage = "wait", !.on = entry[k].by]]
    BY <1>2, <1>k DEF Hit
  <2>2. PICK l \in Lookup : l = [lookup[r] EXCEPT !.stage = "wait", !.on = entry[k].by]
    BY <1>t DEF Lookup, Entry
  <2>3. l.stage = "wait" /\ l.on = entry[k].by /\ l.key = k /\ l.since = lookup[r].since
    BY <1>k, <1>t, <2>2 DEF Lookup
  <2>4. ASSUME NEW s \in Request \ {r}, At(s, "received"), lookup[s].got = "grant",
               l.on = s, lookup[s].key = l.key
        PROVE  ServedBefore(l.key, l.since)
    <3>1. AnswerIsFresh(s)
      BY <2>4 DEF AuthInv, Grants
    <3>2. ServedAt(k, entry[k].when)
      BY <1>t, <2>3, <2>4, <3>1 DEF AnswerIsFresh
    <3> QED
      BY <1>a, <2>3, <3>2
  <2> QED
    BY <1>u, <1>t, <2>1, <2>2, <2>3, <2>4, OneLookup
       DEF AuthInv, Ages, Types, AuthTypeOK
<1> QED
  BY <1>1, <1>2

\* A question, and its answer: a grant means that the key is served now.
LEMMA AskKeeps ==
  ASSUME AuthInv, NEW r \in Request, NEW answer \in Answer(lookup[r].key),
         Ask(r, answer)
  PROVE  AuthInv'
<1>1. PICK a \in Answers :
        /\ lookup' = [lookup EXCEPT ![r] = [lookup[r] EXCEPT !.stage = "received", !.got = a]]
        /\ a = "grant" => a = answer
        /\ faults' = faults \/ faults' = faults + 1
  BY DEF Ask
<1>2. lookup[r] \in Lookup /\ At(r, "ask") /\ lookup[r].key \in AccessKey
  BY DEF Ask, AuthInv, Types, AuthTypeOK, At
<1>3. PICK l \in Lookup : l = [lookup[r] EXCEPT !.stage = "received", !.got = a]
  BY <1>2 DEF Lookup
<1>4. l.stage = "received" /\ l.got = a /\ l.key = lookup[r].key /\ l.since = lookup[r].since
  BY <1>2, <1>3 DEF Lookup
<1>5. a = "grant" => revoked[l.key] = None
  BY <1>1, <1>4 DEF Answer
<1>6. UNCHANGED <<now, registered, revoked, entry, cancelled>> /\ faults' \in Nat
  BY <1>1 DEF Ask, AuthInv, Types, AuthTypeOK
<1>7. l.since <= now /\ ~At(r, "wait")
  BY <1>2, <1>4 DEF AuthInv, Ages, At
<1> QED
  BY <1>1, <1>2, <1>3, <1>4, <1>5, <1>6, <1>7, OneLookup

\* A lookup begins.
LEMMA StartKeeps ==
  ASSUME AuthInv, NEW r \in Request, NEW k \in AccessKey, StartLookup(r, k)
  PROVE  AuthInv'
<1>1. now \in Nat
  BY DEF AuthInv, Types, AuthTypeOK
<1>2. PICK l \in Lookup : l = [Idle EXCEPT !.stage = "cache", !.key = k, !.since = now]
  BY <1>1 DEF Idle, Lookup
<1>3. l.stage = "cache" /\ l.key = k /\ l.since = now
  BY <1>2 DEF Idle
<1>4. /\ lookup' = [lookup EXCEPT ![r] = l]
      /\ UNCHANGED <<now, registered, revoked, entry, cancelled>> /\ faults' \in Nat
  BY <1>2 DEF StartLookup, AuthInv, Types, AuthTypeOK
<1>5. l.since <= now
  BY <1>1, <1>3
<1> QED
  BY <1>3, <1>4, <1>5, OneLookup

\* A pause begins, or ends, and the next question is put.
LEMMA PauseKeeps ==
  ASSUME AuthInv, NEW r \in Request, BeginWait(r) \/ Resume(r),
         lookup[r].stage \in {"received", "pause"}
  PROVE  AuthInv'
<1>1. lookup[r] \in Lookup /\ lookup[r].key \in AccessKey /\ lookup[r].since <= now
  BY DEF AuthInv, Types, AuthTypeOK, At, Ages
<1>2. CASE BeginWait(r) /\ r \in cancelled
  BY <1>2, FinishKeeps DEF BeginWait, Results
<1>3. CASE BeginWait(r) /\ r \notin cancelled
  <2>1. PICK d \in Nat : d = NextDelay(lookup[r].delay)
    BY <1>1, AuthClientAssumption DEF Lookup, NextDelay
  <2>2. PICK l \in Lookup :
          l = [lookup[r] EXCEPT !.stage = "pause", !.got = None, !.delay = d, !.left = d]
    BY <1>1 DEF Lookup
  <2>3. l.stage = "pause" /\ l.key = lookup[r].key /\ l.since = lookup[r].since
    BY <1>1, <2>2 DEF Lookup
  <2> QED
    BY <1>1, <1>3, <2>1, <2>2, <2>3, OneLookup DEF BeginWait, AuthInv, Types, AuthTypeOK
<1>4. CASE Resume(r)
  <2>1. PICK l \in Lookup : l = [lookup[r] EXCEPT !.stage = "ask"]
    BY <1>1 DEF Lookup
  <2>2. l.stage = "ask" /\ l.key = lookup[r].key /\ l.since = lookup[r].since
    BY <1>1, <2>1 DEF Lookup
  <2> QED
    BY <1>1, <1>4, <2>1, <2>2, OneLookup DEF Resume, AuthInv, Types, AuthTypeOK
<1> QED
  BY <1>2, <1>3, <1>4

\* Every step keeps the invariant.
LEMMA AuthStep == AuthInv /\ [AuthNext]_authVars => AuthInv'
<1> SUFFICES ASSUME AuthInv, [AuthNext]_authVars PROVE AuthInv'
  OBVIOUS
<1>t. /\ now \in Nat /\ faults \in Nat /\ registered \in SUBSET AccessKey
      /\ revoked \in [AccessKey -> Nat \cup {None}] /\ lookup \in [Request -> Lookup]
      /\ cancelled \in SUBSET Request
  BY DEF AuthInv, Types, AuthTypeOK
<1>1. ASSUME NEW ended \in SUBSET Served, Tick(ended)
      PROVE  AuthInv'
  <2>1. lookup' = [r \in Request |-> [lookup[r] EXCEPT !.left = IF @ = 0 THEN 0 ELSE @ - 1]]
    BY <1>1 DEF Tick
  <2>2. \A r \in Request :
           /\ lookup'[r] \in Lookup
           /\ lookup'[r].stage = lookup[r].stage /\ lookup'[r].key = lookup[r].key
           /\ lookup'[r].since = lookup[r].since /\ lookup'[r].on = lookup[r].on
           /\ lookup'[r].got = lookup[r].got
    BY <1>t, <2>1 DEF Lookup
  <2>3. lookup' \in [Request -> Lookup]
    BY <2>1, <2>2
  <2>4. now' = now + 1
        /\ revoked' = [k \in AccessKey |-> IF k \in ended THEN now + 1 ELSE revoked[k]]
        /\ UNCHANGED <<registered, entry, cancelled, faults>>
    BY <1>1 DEF Tick
  <2>5. revoked' \in [AccessKey -> Nat \cup {None}]
    BY <1>t, <2>4
  <2>6. \A k \in AccessKey :
          revoked'[k] = revoked[k] \/ revoked'[k] = None \/ now <= revoked'[k]
    BY <1>t, <2>4
  <2>7. now' \in Nat /\ now <= now'
    BY <1>t, <2>4
  <2> QED
    BY <1>t, <2>2, <2>3, <2>4, <2>5, <2>6, <2>7, KeysChange
<1>2. ASSUME NEW k \in AccessKey, Revoke(k) \/ \E expired \in BOOLEAN : Register(k, expired)
      PROVE  AuthInv'
  <2>1. registered' \in SUBSET AccessKey /\ now <= now /\ now' = now
        /\ UNCHANGED <<entry, lookup, cancelled, faults>>
    BY <1>2, <1>t DEF Revoke, Register
  <2>2. \E t \in {now, None} : revoked' = [revoked EXCEPT ![k] = t]
    BY <1>2 DEF Revoke, Register
  <2>3. revoked' \in [AccessKey -> Nat \cup {None}]
    BY <1>t, <2>2
  <2>4. \A c \in AccessKey :
          revoked'[c] = revoked[c] \/ revoked'[c] = None \/ now <= revoked'[c]
    BY <1>t, <2>2
  <2> QED
    BY <1>t, <2>1, <2>3, <2>4, KeysChange
<1>3. ASSUME NEW r \in Request, Cancel(r)
      PROVE  AuthInv'
  <2>1. cancelled' = cancelled \cup {r}
        /\ UNCHANGED <<now, registered, revoked, entry, lookup, faults>>
    BY <1>3 DEF Cancel
  <2>2. Types' /\ Ages' /\ CancelIsOwn'
    BY <1>t, <2>1 DEF AuthInv, Types, AuthTypeOK, Ages, CancelIsOwn, At
  <2>3. Grants'
    BY <2>1 DEF AuthInv, Grants, EntryIsFresh, AnswerIsFresh, ResultIsFresh, ServedAt,
                ServedBefore, At
  <2> QED
    BY <2>2, <2>3 DEF AuthInv
<1>4. ASSUME NEW r \in Request, ResolveStep(r)
      PROVE  AuthInv'
  <2>1. CASE Hit(r)
    BY <2>1, HitKeeps
  <2>2. CASE Miss(r)
    BY <2>2, MissKeeps
  <2>3. CASE Retry(r) \/ Resume(r)
    BY <2>3, PauseKeeps DEF Retry, Resume, At
  <2>4. CASE GiveUp(r)
    BY <2>4, FinishKeeps DEF GiveUp, At, Results
  <2>5. CASE Settle(r)
    BY <2>5, FinishKeeps DEF Settle, At, Results
  <2>6. CASE Leave(r)
    BY <2>6, FinishKeeps DEF Leave, At, Results
  <2> QED
    BY <1>4, <2>1, <2>2, <2>3, <2>4, <2>5, <2>6 DEF ResolveStep
<1>5. CASE UNCHANGED authVars
  BY <1>5 DEF authVars, AuthInv, Types, AuthTypeOK, Ages, Grants, EntryIsFresh,
              AnswerIsFresh, ResultIsFresh, ServedAt, ServedBefore, CancelIsOwn, At
<1> QED
  BY <1>1, <1>2, <1>3, <1>4, <1>5, AskKeeps, StartKeeps DEF AuthNext

-----------------------------------------------------------------------------
\* The invariant holds of every behaviour.
THEOREM AuthIsKept == AuthSpec => []AuthInv
BY AuthInitInv, AuthStep, PTL DEF AuthSpec

\* Every variable of the auth client has its type.
THEOREM AuthTypes == AuthSpec => []AuthTypeOK
<1>1. AuthInv => AuthTypeOK
  BY DEF AuthInv, Types
<1> QED
  BY <1>1, AuthIsKept, PTL

\* No lookup that begins more than Expiration after a key was revoked gets its
\* grant, whatever is cached, joined or on its way.
THEOREM RevokedKeysAreRefused == AuthSpec => []RevokedIsRefused
<1>1. AuthInv => RevokedIsRefused
  <2> SUFFICES ASSUME AuthInv, NEW r \in Request, At(r, "done"), lookup[r].got = "grant",
                      revoked[lookup[r].key] # None
               PROVE  revoked[lookup[r].key] + Expiration >= lookup[r].since
    BY DEF RevokedIsRefused
  <2>1. /\ lookup[r].key \in AccessKey /\ lookup[r].since \in Nat
        /\ lookup[r].since <= revoked[lookup[r].key] + Expiration
    BY DEF AuthInv, Types, AuthTypeOK, Lookup, Grants, ResultIsFresh, ServedBefore, At
  <2>2. revoked[lookup[r].key] \in Nat
    BY <2>1 DEF AuthInv, Types, AuthTypeOK
  <2> QED
    BY <2>1, <2>2, AuthClientAssumption
<1> QED
  BY <1>1, AuthIsKept, PTL

\* Only requests whose own client is gone are told so, also when they waited for
\* one whose client was.
THEOREM CancelsAreOwn == AuthSpec => []CancelIsOwn
<1>1. AuthInv => CancelIsOwn
  BY DEF AuthInv
<1> QED
  BY <1>1, AuthIsKept, PTL
-----------------------------------------------------------------------------
(* Those who wait.                                                         *)

\* By the calls, s is at it, for the key.
Asks(calls, s, k) ==
  s \in Request /\ calls[s].key = k /\ calls[s].stage \in {"ask", "received", "pause"}

\* An entry that is not settled is of somebody who is at it, so that those who find it
\* have somebody to wait for.
WaitInv ==
  /\ NobodyWaitsInVain
  /\ \A k \in AccessKey : entry[k] # None /\ entry[k].by # None => Asks(lookup, entry[k].by, k)

\* Who is at it stays at it, and those who begin to wait find somebody.
LEMMA WaitersStay ==
  ASSUME WaitInv, UNCHANGED entry,
         \A s \in Request :
           lookup[s].stage \in {"ask", "received", "pause"} =>
             /\ lookup'[s].key = lookup[s].key
             /\ lookup'[s].stage \in {"ask", "received", "pause"},
         \A s \in Request :
           lookup'[s].stage = "wait" =>
             \/ /\ At(s, "wait") /\ lookup'[s].on = lookup[s].on
                /\ lookup'[s].key = lookup[s].key
             \/ Asks(lookup, lookup'[s].on, lookup'[s].key)
  PROVE  WaitInv'
<1>1. \A s, k : Asks(lookup, s, k) => Asks(lookup', s, k)
  BY DEF Asks
<1>2. ASSUME NEW r \in Request, At(r, "wait")'
      PROVE  Asks(lookup', lookup'[r].on, lookup'[r].key)
  <2>1. Asks(lookup, lookup'[r].on, lookup'[r].key)
    BY <1>2 DEF WaitInv, NobodyWaitsInVain, Asks, At
  <2> QED
    BY <1>1, <2>1
<1>3. NobodyWaitsInVain'
  BY <1>2 DEF NobodyWaitsInVain, Asks
<1> QED
  BY <1>1, <1>3 DEF WaitInv

\* The end of a call lets go everyone who waits for it, and takes its entry away or
\* settles it.
LEMMA WaitersGo ==
  ASSUME Types, WaitInv, NEW r \in Request, NEW result, NEW cached \in BOOLEAN,
         Finish(r, result, cached), lookup[r].stage \in {"received", "pause"}
  PROVE  WaitInv'
<1> DEFINE k == lookup[r].key
<1>t. /\ lookup \in [Request -> Lookup] /\ entry \in [AccessKey -> Entry \cup {None}]
      /\ k \in AccessKey /\ None \notin Entry
  BY AuthClientAssumption DEF Types, AuthTypeOK, At
<1>1. ASSUME NEW s \in Request
      PROVE  /\ lookup'[s].stage = "wait" => lookup'[s] = lookup[s] /\ lookup[s].on # r
             /\ s # r /\ lookup[s].stage # "wait" => lookup'[s] = lookup[s]
  <2>1. lookup[s] \in Lookup
    BY <1>t
  <2>2. CASE s = r
    <3>1. lookup'[s] = [lookup[s] EXCEPT !.stage = "done", !.got = result,
                                         !.delay = 0, !.left = 0]
      BY <2>2 DEF Finish
    <3> QED
      BY <2>1, <2>2, <3>1 DEF Lookup
  <2>3. CASE s # r /\ ~(At(s, "wait") /\ lookup[s].on = r)
    <3>1. lookup'[s] = lookup[s]
      BY <2>3 DEF Finish
    <3> QED
      BY <2>3, <3>1 DEF At
  <2>4. CASE s # r /\ At(s, "wait") /\ lookup[s].on = r
    <3>1. lookup'[s].stage \in {"done", "cache"}
      BY <2>1, <2>4 DEF Finish, Lookup
    <3> QED
      BY <2>4, <3>1 DEF At
  <2> QED
    BY <2>2, <2>3, <2>4
<1>2. \A s \in Request : \A c : s # r /\ Asks(lookup, s, c) => Asks(lookup', s, c)
  BY <1>1 DEF Asks
<1>3. ASSUME NEW s \in Request, At(s, "wait")'
      PROVE  Asks(lookup', lookup'[s].on, lookup'[s].key)
  <2>1. lookup'[s] = lookup[s] /\ lookup[s].on # r
    BY <1>1, <1>3 DEF At
  <2>2. Asks(lookup, lookup[s].on, lookup[s].key)
    BY <1>3, <2>1 DEF WaitInv, NobodyWaitsInVain, Asks, At
  <2> QED
    BY <1>2, <2>1, <2>2 DEF Asks
<1>4. ASSUME NEW c \in AccessKey, entry'[c] # None, entry'[c].by # None
      PROVE  Asks(lookup', entry'[c].by, c)
  <2>1. entry'[c] = entry[c] /\ entry[c].by # r
    <3>1. CASE ~(entry[k] # None /\ entry[k].by = r)
      <4>1. entry' = entry
        BY <3>1 DEF Finish
      <4>2. c # k => entry[c].by # r
        BY <1>4, <4>1 DEF WaitInv, Asks
      <4> QED
        BY <1>4, <3>1, <4>1, <4>2
    <3>2. CASE entry[k] # None /\ entry[k].by = r
      <4> DEFINE e == IF cached THEN [when |-> entry[k].when, by |-> None,
                                      value |-> Encrypt(k, result)]
                      ELSE None
      <4>1. entry' = [entry EXCEPT ![k] = e]
        BY <3>2 DEF Finish
      <4>2. e = None \/ e.by = None
        OBVIOUS
      <4> HIDE DEF e
      <4>3. c # k
        BY <1>4, <1>t, <4>1, <4>2
      <4>4. entry'[c] = entry[c]
        BY <1>t, <4>1, <4>3
      <4>5. entry[c].by # r
        BY <1>4, <4>3, <4>4 DEF WaitInv, Asks
      <4> QED
        BY <4>4, <4>5
    <3> QED
      BY <3>1, <3>2
  <2>2. Asks(lookup, entry[c].by, c)
    BY <1>4, <2>1 DEF WaitInv
  <2> QED
    BY <1>2, <2>1, <2>2 DEF Asks
<1>5. NobodyWaitsInVain'
  BY <1>3 DEF NobodyWaitsInVain, Asks
<1> QED
  BY <1>4, <1>5 DEF WaitInv

\* Who makes an entry asks.
LEMMA WaitersMiss ==
  ASSUME Types, WaitInv, NEW r \in Request, Miss(r)
  PROVE  WaitInv'
<1> DEFINE k == lookup[r].key
<1>t. lookup \in [Request -> Lookup] /\ k \in AccessKey /\ At(r, "cache")
  BY DEF Types, AuthTypeOK, Miss, At
<1>1. /\ lookup'[r].stage = "ask" /\ lookup'[r].key = k
      /\ \A s \in Request \ {r} : lookup'[s] = lookup[s]
  BY <1>t DEF Miss, Lookup
<1>2. \A s, c : Asks(lookup, s, c) => Asks(lookup', s, c)
  BY <1>1, <1>t DEF Asks, At
<1>3. ASSUME NEW c \in AccessKey
      PROVE  \/ entry'[c] = entry[c] \/ entry'[c] = None
             \/ c = k /\ entry'[c].by = r
  <2>1. PICK out : entry' = [d \in AccessKey |->
                CASE d = k -> [when |-> now, by |-> r, value |-> None]
                  [] d \in out -> None
                  [] OTHER -> entry[d]]
    BY DEF Miss
  <2>2. CASE c = k
    BY <2>1, <2>2
  <2>3. CASE c # k /\ c \in out
    BY <2>1, <2>3
  <2>4. CASE c # k /\ c \notin out
    BY <2>1, <2>4
  <2> QED
    BY <2>2, <2>3, <2>4
<1>4. Asks(lookup', r, k)
  BY <1>1 DEF Asks
<1>5. ASSUME NEW c \in AccessKey, entry'[c] # None, entry'[c].by # None
      PROVE  Asks(lookup', entry'[c].by, c)
  <2>1. CASE entry'[c] = entry[c]
    <3>1. Asks(lookup, entry[c].by, c)
      BY <1>5, <2>1 DEF WaitInv
    <3> QED
      BY <1>2, <2>1, <3>1 DEF Asks
  <2>2. CASE c = k /\ entry'[c].by = r
    BY <1>4, <2>2 DEF Asks
  <2> QED
    BY <1>3, <1>5, <2>1, <2>2
<1>6. ASSUME NEW s \in Request, At(s, "wait")'
      PROVE  Asks(lookup', lookup'[s].on, lookup'[s].key)
  <2>1. lookup'[s] = lookup[s] /\ At(s, "wait")
    BY <1>1, <1>6 DEF At
  <2>2. Asks(lookup, lookup[s].on, lookup[s].key)
    BY <2>1 DEF WaitInv, NobodyWaitsInVain, Asks
  <2> QED
    BY <1>2, <2>1, <2>2 DEF Asks
<1>7. NobodyWaitsInVain'
  BY <1>6 DEF NobodyWaitsInVain, Asks
<1> QED
  BY <1>5, <1>7 DEF WaitInv

LEMMA WaitStep ==
  ASSUME Types, WaitInv, [AuthNext]_authVars
  PROVE  WaitInv'
<1>t. lookup \in [Request -> Lookup]
  BY DEF Types, AuthTypeOK
<1>1. ASSUME UNCHANGED entry,
             \A s \in Request : /\ lookup'[s].stage = lookup[s].stage
                                /\ lookup'[s].key = lookup[s].key
                                /\ lookup'[s].on = lookup[s].on
      PROVE  WaitInv'
  BY <1>1, WaitersStay DEF At
<1>2. ASSUME NEW ended \in SUBSET Served, Tick(ended)
      PROVE  WaitInv'
  <2>1. /\ UNCHANGED entry
        /\ lookup' = [r \in Request |->
             [lookup[r] EXCEPT !.left = IF @ = 0 THEN 0 ELSE @ - 1]]
    BY <1>2 DEF Tick
  <2> QED
    BY <1>1, <1>t, <2>1 DEF Lookup
<1>3. ASSUME NEW k \in AccessKey, Revoke(k) \/ \E expired \in BOOLEAN : Register(k, expired)
      PROVE  WaitInv'
  BY <1>1, <1>3 DEF Revoke, Register
<1>4. ASSUME NEW r \in Request, Cancel(r)
      PROVE  WaitInv'
  BY <1>1, <1>4 DEF Cancel
\* One request moves, to ask, to pause, or to wait for somebody who asks.
<1>5. ASSUME NEW r \in Request, NEW l, lookup' = [lookup EXCEPT ![r] = l], UNCHANGED entry,
             lookup[r].stage \in {"ask", "received", "pause"} =>
               l.key = lookup[r].key /\ l.stage \in {"ask", "received", "pause"},
             l.stage = "wait" => Asks(lookup, l.on, l.key)
      PROVE  WaitInv'
  <2>1. lookup'[r] = l /\ \A s \in Request \ {r} : lookup'[s] = lookup[s]
    BY <1>5, <1>t
  <2> QED
    BY <1>5, <2>1, WaitersStay DEF At
<1>6. ASSUME NEW r \in Request, NEW answer, Ask(r, answer)
      PROVE  WaitInv'
  <2>1. PICK a \in Answers :
          lookup' = [lookup EXCEPT ![r] = [lookup[r] EXCEPT !.stage = "received", !.got = a]]
    BY <1>6, <1>t DEF Ask
  <2> DEFINE l == [lookup[r] EXCEPT !.stage = "received", !.got = a]
  <2>2. l.stage = "received" /\ l.key = lookup[r].key
    BY <1>t DEF Lookup
  <2> HIDE DEF l
  <2> QED
    BY <1>5, <1>6, <2>1, <2>2 DEF Ask, l
<1>7. ASSUME NEW r \in Request, NEW k \in AccessKey, StartLookup(r, k)
      PROVE  WaitInv'
  <2> DEFINE l == [Idle EXCEPT !.stage = "cache", !.key = k, !.since = now]
  <2>1. l.stage = "cache" /\ lookup[r].stage = "idle"
    BY <1>7 DEF Idle, StartLookup, At
  <2>2. lookup' = [lookup EXCEPT ![r] = l] /\ UNCHANGED entry
    BY <1>7 DEF StartLookup
  <2> HIDE DEF l
  <2> QED
    BY <1>5, <2>1, <2>2
<1>8. ASSUME NEW r \in Request, Hit(r)
      PROVE  WaitInv'
  <2> DEFINE k == lookup[r].key
             l == IF entry[k].by = None
                  THEN [lookup[r] EXCEPT !.stage = "done", !.got = Decrypt(k, entry[k].value)]
                  ELSE [lookup[r] EXCEPT !.stage = "wait", !.on = entry[k].by]
  <2>1. lookup' = [lookup EXCEPT ![r] = l] /\ UNCHANGED entry /\ At(r, "cache")
    BY <1>8, <1>t DEF Hit
  <2>2. k \in AccessKey /\ entry[k] # None
    BY <1>8, <2>1 DEF Hit, Usable, Types, At
  <2>3. l.stage = "wait" => l.key = k /\ l.on = entry[k].by /\ entry[k].by # None
    BY <1>t DEF Lookup
  <2> HIDE DEF l
  <2>4. l.stage = "wait" => Asks(lookup, l.on, l.key)
    BY <2>2, <2>3 DEF WaitInv
  <2> QED
    BY <1>5, <2>1, <2>4 DEF At
<1>9. ASSUME NEW r \in Request, NEW d, BeginWait(r) \/ Resume(r),
             lookup[r].stage \in {"received", "pause"}
      PROVE  WaitInv'
  <2>1. CASE r \in cancelled /\ BeginWait(r)
    BY <1>9, <2>1, WaitersGo DEF BeginWait
  <2>2. CASE r \notin cancelled /\ BeginWait(r)
    <3> DEFINE n == NextDelay(lookup[r].delay)
               l == [lookup[r] EXCEPT !.stage = "pause", !.got = None, !.delay = n, !.left = n]
    <3>1. lookup' = [lookup EXCEPT ![r] = l] /\ UNCHANGED entry
      BY <1>t, <2>2 DEF BeginWait
    <3>2. l.stage = "pause" /\ l.key = lookup[r].key
      BY <1>t DEF Lookup
    <3> HIDE DEF l
    <3> QED
      BY <1>5, <3>1, <3>2
  <2>3. CASE Resume(r)
    <3> DEFINE l == [lookup[r] EXCEPT !.stage = "ask"]
    <3>1. lookup' = [lookup EXCEPT ![r] = l] /\ UNCHANGED entry
      BY <1>t, <2>3 DEF Resume
    <3>2. l.stage = "ask" /\ l.key = lookup[r].key
      BY <1>t DEF Lookup
    <3> HIDE DEF l
    <3> QED
      BY <1>5, <3>1, <3>2
  <2> QED
    BY <1>9, <2>1, <2>2, <2>3
<1>10. ASSUME NEW r \in Request, ResolveStep(r)
       PROVE  WaitInv'
  <2>1. CASE Retry(r) \/ Resume(r)
    BY <1>9, <2>1 DEF Retry, Resume, At
  <2>2. CASE GiveUp(r) \/ Settle(r) \/ Leave(r)
    BY <2>2, WaitersGo DEF GiveUp, Settle, Leave, At
  <2> QED
    BY <1>8, <1>10, <2>1, <2>2, WaitersMiss DEF ResolveStep
<1>11. CASE UNCHANGED authVars
  BY <1>1, <1>11 DEF authVars
<1> QED
  BY <1>2, <1>3, <1>4, <1>6, <1>7, <1>10, <1>11 DEF AuthNext

\* Nobody is left behind by the request that asks for all.
THEOREM WaitersAreNotLeft == AuthSpec => []NobodyWaitsInVain
<1>1. AuthInit => WaitInv
  <2> SUFFICES ASSUME AuthInit PROVE WaitInv
    OBVIOUS
  <2>1. \A r \in Request : lookup[r].stage = "idle"
    BY DEF AuthInit, Idle
  <2> QED
    BY <2>1 DEF AuthInit, WaitInv, NobodyWaitsInVain, At
<1>2. AuthInv /\ WaitInv /\ [AuthNext]_authVars => WaitInv'
  BY WaitStep DEF AuthInv
<1>3. WaitInv => NobodyWaitsInVain
  BY DEF WaitInv
<1> QED
  BY <1>1, <1>2, <1>3, AuthIsKept, PTL DEF AuthSpec
=============================================================================
