--------------------------- MODULE AuthApiProofs ---------------------------
(***************************************************************************)
(* The auth service, for any number of calls, keys, names, satellites and  *)
(* sources.  Its answers are those that the auth client relies on, so that *)
(* what AuthClientProofs shows holds of the two together; a key works as   *)
(* soon as it is handed out; a bucket name is given within one second; and *)
(* the list of allowed satellites is neither short of what a source has    *)
(* listed all the time nor holds what none ever has.                       *)
(***************************************************************************)
EXTENDS AuthApi, AuthClientProofs, FiniteSetTheorems

SentCalls == UNION {a.sent : a \in Activities}

CallState ==
  [stage: {"idle", "satellite", "put", "stored", "look", "claim", "check", "insert", "done"},
   sent: SentCalls \cup {None}, key: AccessKey \cup {None},
   created: Nat \cup {None}, status: Nat \cup {None}, available: BOOLEAN]

ApiTypes ==
  /\ active \in Activities
  /\ call \in [ApiCall -> CallState]
  /\ record \in [AccessKey -> AccessRecord \cup {None}]
  /\ names \in [Name -> Nat \cup {None}]
  /\ handedOut \in [AccessKey -> Nat \cup {None}]

\* What a call has at its stage.
CallFits(c) ==
  /\ c.stage \in {"satellite", "put"} =>
       c.key \in AccessKey /\ c.sent \in SentCalls /\ Registers(c.sent) /\ c.sent.body = "ok"
  /\ c.stage = "put" => c.sent.grant.caveats # None
  /\ c.stage = "stored" => c.key \in AccessKey /\ record[c.key] # None
  /\ c.stage \in {"look", "claim", "check", "insert"} =>
       c.sent \in SentCalls /\ HandlerOf(c.sent) = "getBucket"
  /\ c.stage \in {"check", "insert"} => c.created \in Nat
  /\ c.available =>
       /\ c.stage = "done" /\ c.sent.name \in Name /\ c.created \in Nat
       /\ names[c.sent.name] = c.created

Calls == \A p \in ApiCall : CallFits(call[p])

\* Names keep their records.
NamesStay == \A n \in Name : names[n] # None => names'[n] = names[n]

\* A key is served while its record is valid and none of its caveats is over.
Records ==
  \A k \in AccessKey :
    /\ record[k] # None <=> k \in registered
    /\ handedOut[k] # None => k \in registered
    /\ k \in registered =>
         /\ record[k].expires = ApiKeyExpiration(record[k].caveats)
         /\ revoked[k] = None <=> record[k].valid /\ ~Over(record[k].caveats, now)

\* A key that is refused was not handed out before, or it is not served any more.
RefusalIsDue(r) ==
  LET k == lookup[r].key
  IN  handedOut[k] # None /\ handedOut[k] < lookup[r].since => revoked[k] # None

\* Nobody caches that a key is missing, and refusals are due.
Refusals ==
  /\ \A k \in AccessKey :
       entry[k] # None /\ entry[k].by = None => entry[k].value.holds # "missing"
  /\ \A r \in Request :
       lookup[r].stage \in {"received", "done"} =>
         /\ lookup[r].got # "missing"
         /\ lookup[r].got = "refused" => RefusalIsDue(r)

\* A reload has found what the sources that it has read have listed all the time.
Lists ==
  /\ content \in [DOMAIN Source -> Contents] /\ DOMAIN always = DOMAIN Source
  /\ \A i \in DOMAIN Source : always[i] \subseteq content[i].lists
  /\ Listed(content) \subseteq ever
  /\ allowed \in SUBSET Satellite /\ ListedIsAllowed
  /\ reload # None =>
       /\ reload \in Reload /\ reload.next \in Nat \ {0} /\ reload.found \subseteq ever
       /\ \A i \in DOMAIN Source : i < reload.next => always[i] \subseteq reload.found

ApiInv == AuthInv /\ ApiTypes /\ Calls /\ Records /\ Refusals /\ Lists
-----------------------------------------------------------------------------
\* A set of times has an earliest one: the least of the intervals up to them is.
LEMMA EarliestIsThere ==
  ASSUME NEW S \in SUBSET Nat, S # {}
  PROVE  Min(S) \in S /\ \A t \in S : Min(S) <= t
<1> DEFINE T == {0 .. t : t \in S}
<1>1. T \subseteq FiniteSubsetsOf(Nat) /\ T # {}
  <2>1. \A t \in S : 0 .. t \subseteq Nat /\ IsFiniteSet(0 .. t)
    BY FS_Interval
  <2> QED
    BY <2>1 DEF FiniteSubsetsOf
<1>2. PICK x \in T : \A y \in T : ~ (<<y, x>> \in StrictSubsetOrdering(Nat))
  <2> HIDE DEF T
  <2> QED
    BY <1>1, FS_StrictSubsetOrderingWellFounded, WFMin
<1>3. PICK m \in S : x = 0 .. m
  OBVIOUS
<1>4. ASSUME NEW t \in S
      PROVE  m <= t
  <2> SUFFICES ASSUME t < m PROVE FALSE
    OBVIOUS
  <2>1. 0 .. t \subseteq 0 .. m /\ 0 .. t # 0 .. m
    <3>1. m \in 0 .. m /\ m \notin 0 .. t
      OBVIOUS
    <3> QED
      BY <3>1
  <2>2. <<0 .. t, 0 .. m>> \in StrictSubsetOrdering(Nat)
    <3>1. 0 .. t \in SUBSET Nat /\ 0 .. m \in SUBSET Nat
      OBVIOUS
    <3> QED
      BY <2>1, <3>1, Zenon DEF StrictSubsetOrdering
  <2>3. 0 .. t \in T
    OBVIOUS
  <2> HIDE DEF T
  <2> QED
    BY <1>2, <1>3, <2>2, <2>3
<1> QED
  BY <1>4 DEF Min

\* The expiration of the key is its earliest caveat: when that is over, one is.
LEMMA ExpiresAtEarliest ==
  ASSUME NEW c \in Seq(Nat \cup {None}), NEW t \in Nat
  PROVE  /\ ApiKeyExpiration(c) \in Nat \cup {None}
         /\ Over(c, t) <=> ApiKeyExpiration(c) # None /\ ApiKeyExpiration(c) <= t
<1> DEFINE times == {c[i] : i \in DOMAIN c} \ {None}
<1>1. times \in SUBSET Nat
  OBVIOUS
<1>2. ApiKeyExpiration(c) = IF times = {} THEN None ELSE Min(times)
  BY DEF ApiKeyExpiration
<1>3. Over(c, t) <=> \E u \in times : u <= t
  BY DEF Over
<1>n. None \notin Nat
  BY AuthClientAssumption
<1>4. CASE times = {}
  BY <1>2, <1>3, <1>4
<1>5. CASE times # {}
  <2> HIDE DEF times
  <2>1. PICK m \in times : m = Min(times) /\ \A u \in times : m <= u
    BY <1>1, <1>5, EarliestIsThere
  <2>2. (\E u \in times : u <= t) <=> m <= t
    BY <1>1, <2>1
  <2> QED
    BY <1>1, <1>2, <1>3, <1>5, <1>n, <2>1, <2>2
<1> QED
  BY <1>4, <1>5

\* A step of one call.
LEMMA OneCall ==
  ASSUME ApiTypes, Calls, NEW p \in ApiCall, NEW c \in CallState,
         call' = [call EXCEPT ![p] = c],
         CallFits(c)', NamesStay,
         \A k \in AccessKey : record[k] # None => record'[k] # None
  PROVE  Calls' /\ call' \in [ApiCall -> CallState]
<1>1. /\ call' \in [ApiCall -> CallState] /\ call'[p] = c
      /\ \A q \in ApiCall \ {p} : call'[q] = call[q]
  BY DEF ApiTypes
<1>2. ASSUME NEW q \in ApiCall
      PROVE  CallFits(call[q])'
  <2>1. CASE q = p
    BY <1>1, <2>1 DEF CallFits
  <2>2. CASE q # p
    <3>1. call'[q] = call[q] /\ CallFits(call[q])
      BY <1>1, <2>2 DEF Calls
    <3>2. None \notin Nat
      BY AuthClientAssumption
    <3>3. call[q].available => names'[call[q].sent.name] = call[q].created
      BY <3>1, <3>2 DEF CallFits, NamesStay
    <3> QED
      BY <3>1, <3>3 DEF CallFits
  <2> QED
    BY <2>1, <2>2
<1> QED
  BY <1>1, <1>2 DEF Calls

\* Steps that leave the calls and the names alone.
LEMMA NoCallMoves ==
  ASSUME Calls, UNCHANGED <<call, names>>,
         \A k \in AccessKey : record[k] # None => record'[k] # None
  PROVE  Calls'
BY DEF Calls, CallFits

\* A call arrives.
LEMMA ReceiveKeeps ==
  ASSUME ApiInv, NEW p \in ApiCall, Receive(p)
  PROVE  Calls' /\ ApiTypes'
<1> DEFINE Got(sent, stage, key, status) ==
             call' = [call EXCEPT ![p] = [NoCall EXCEPT
               !.stage = stage, !.sent = sent, !.key = key, !.status = status]]
<1>1. PICK sent \in active.sent :
        \/ \E status \in {200, 400, 401, 404, 405, 413, 422} : Got(sent, "done", None, status)
        \/ /\ Registers(sent) /\ sent.body = "ok"
           /\ \E k \in AccessKey : Got(sent, "satellite", k, None)
        \/ HandlerOf(sent) = "getBucket" /\ Got(sent, "look", None, None)
  <2>1. PICK sent \in active.sent :
       \/ HandlerOf(sent) = "NotFound" /\ Got(sent, "done", None, 404)
       \/ HandlerOf(sent) = "MethodNotAllowed" /\ Got(sent, "done", None, 405)
       \/ HandlerOf(sent) = "TooLarge" /\ Got(sent, "done", None, 413)
       \/ HandlerOf(sent) = "newAccessCORS" /\ Got(sent, "done", None, 200)
       \/ /\ HandlerOf(sent) = "newAccess" /\ sent.body = "bad"
          /\ Got(sent, "done", None, 422)
       \/ /\ HandlerOf(sent) = "newAccess" /\ sent.body = "tooLarge"
          /\ Got(sent, "done", None, 413)
       \/ /\ HandlerOf(sent) = "RegisterAccess" /\ sent.tooLarge
          /\ Got(sent, "done", None, 400)
       \/ /\ Registers(sent) /\ ~sent.tooLarge /\ sent.body = "ok"
          /\ \E k \in AccessKey \ registered :
               /\ \A q \in ApiCall : call[q].key # k
               /\ Got(sent, "satellite", k, None)
       \/ HandlerOf(sent) = "getBucket" /\ ~sent.authorized /\ Got(sent, "done", None, 401)
       \/ HandlerOf(sent) = "getBucket" /\ sent.authorized /\ Got(sent, "look", None, None)
    BY Zenon DEF Receive
  <2> HIDE DEF Got
  <2> QED
    BY <2>1
<1>2. PICK stage \in {"done", "satellite", "look"}, key \in AccessKey \cup {None},
           status \in Nat \cup {None} :
          /\ Got(sent, stage, key, status)
          /\ stage = "satellite" => key \in AccessKey /\ Registers(sent) /\ sent.body = "ok"
          /\ stage = "look" => HandlerOf(sent) = "getBucket"
  <2>1. CASE \E status \in {200, 400, 401, 404, 405, 413, 422} :
               Got(sent, "done", None, status)
    <3>1. {200, 400, 401, 404, 405, 413, 422} \subseteq Nat
      OBVIOUS
    <3> HIDE DEF Got
    <3> QED
      BY <2>1, <3>1
  <2>2. CASE Registers(sent) /\ sent.body = "ok" /\ \E k \in AccessKey : Got(sent, "satellite", k, None)
    <3> HIDE DEF Got
    <3> QED
      BY <2>2
  <2>3. CASE HandlerOf(sent) = "getBucket" /\ Got(sent, "look", None, None)
    <3> HIDE DEF Got
    <3> QED
      BY <2>3
  <2> QED
    BY <1>1, <2>1, <2>2, <2>3, ZenonT(60)
<1>3. sent \in SentCalls
  BY DEF ApiInv, ApiTypes, SentCalls
<1>4. PICK c \in CallState :
        c = [NoCall EXCEPT !.stage = stage, !.sent = sent, !.key = key, !.status = status]
  BY <1>3 DEF NoCall, CallState
<1>5. /\ call' = [call EXCEPT ![p] = c]
      /\ c.stage = stage /\ c.sent = sent /\ c.key = key /\ c.available = FALSE
  BY <1>2, <1>4 DEF NoCall
<1>6. UNCHANGED <<record, names, handedOut, active>> /\ NamesStay
  BY DEF Receive, NamesStay
<1>7. CallFits(c)'
  BY <1>2, <1>3, <1>5 DEF CallFits
<1>8. ApiTypes /\ Calls
  BY DEF ApiInv
<1>9. Calls' /\ call' \in [ApiCall -> CallState]
  BY <1>5, <1>6, <1>7, <1>8, OneCall
<1> QED
  BY <1>6, <1>8, <1>9 DEF ApiTypes

\* The record of a registration has its type, and so has its expiration.
LEMMA CaveatsAreTimes ==
  ASSUME ApiInv, NEW p \in ApiCall, Stage(p, "put")
  PROVE  /\ call[p].key \in AccessKey
         /\ call[p].sent.grant.caveats \in Seq(Nat \cup {None})
         /\ ApiKeyExpiration(call[p].sent.grant.caveats) \in Nat \cup {None}
<1>1. /\ CallFits(call[p]) /\ call[p].stage = "put"
      /\ call[p].sent \in SentCalls /\ Registers(call[p].sent)
      /\ call[p].sent.body = "ok" /\ call[p].sent.grant.caveats # None
      /\ call[p].key \in AccessKey
  BY DEF ApiInv, Calls, CallFits, Stage
<1>2. call[p].sent.grant.caveats \in Seq(Nat \cup {None})
  <2>1. PICK a \in Activities : call[p].sent \in a.sent
    BY <1>1 DEF SentCalls
  <2> QED
    BY <1>1, <2>1, ApiAssumption
<1>3. now \in Nat
  BY DEF ApiInv, AuthInv, Types, AuthTypeOK
<1> QED
  BY <1>1, <1>2, <1>3, ExpiresAtEarliest

\* Each kind of step keeps the types and the calls.
LEMMA CallStepKeeps ==
  ASSUME ApiInv, NEW p \in ApiCall, CallStep(p)
  PROVE  Calls' /\ ApiTypes'
<1>1. ApiTypes /\ Calls /\ call[p] \in CallState
  BY DEF ApiInv, ApiTypes
<1>n. None \notin AccessRecord /\ None \notin Nat
  BY ApiAssumption, AuthClientAssumption
<1>s. /\ call[p].status \in Nat \cup {None} /\ call[p].available \in BOOLEAN
      /\ call[p].created \in Nat \cup {None}
      /\ \A s : Stage(p, s) /\ s # "done" => call[p].available = FALSE
  <2>1. /\ call[p].status \in Nat \cup {None} /\ call[p].available \in BOOLEAN
        /\ call[p].created \in Nat \cup {None}
    BY <1>1 DEF CallState
  <2>2. \A s : Stage(p, s) /\ s # "done" => call[p].available = FALSE
    BY <1>1, <2>1 DEF Calls, CallFits, Stage
  <2> QED
    BY <2>1, <2>2
\* A call that ends without a name.
<1>e. ASSUME NEW status \in Nat, Ends(p, status), ~Stage(p, "done"), names' = names,
             \A k \in AccessKey : record[k] # None => record'[k] # None
      PROVE  Calls' /\ call' \in [ApiCall -> CallState]
  <2>1. PICK c \in CallState : c = [call[p] EXCEPT !.stage = "done", !.status = status]
    BY <1>1 DEF CallState
  <2>2. call' = [call EXCEPT ![p] = c] /\ NamesStay
    BY <1>e, <2>1 DEF Ends, NamesStay
  <2>3. c.stage = "done" /\ c.available = call[p].available
    BY <1>1, <2>1 DEF CallState
  <2>4. CallFits(c)'
    BY <1>e, <1>s, <2>3 DEF CallFits, Stage
  <2> QED
    BY <1>1, <1>e, <2>2, <2>4, OneCall
\* A call that goes on.
<1>m. ASSUME NEW stage \in {"put", "stored", "claim", "check", "insert"},
             NEW created \in Nat \cup {None},
             call' = [call EXCEPT ![p] = [call[p] EXCEPT !.stage = stage, !.created = created]],
             ~Stage(p, "done"), names' = names,
             \A k \in AccessKey : record[k] # None => record'[k] # None,
             stage = "put" => Stage(p, "satellite") /\ call[p].sent.grant.caveats # None,
             stage = "stored" => Stage(p, "put") /\ record'[call[p].key] # None,
             stage = "claim" => Stage(p, "look"),
             stage = "check" => Stage(p, "claim") /\ created \in Nat,
             stage = "insert" => Stage(p, "check") /\ created = call[p].created
      PROVE  Calls' /\ call' \in [ApiCall -> CallState]
  <2>1. PICK c \in CallState : c = [call[p] EXCEPT !.stage = stage, !.created = created]
    BY <1>1, <1>m DEF CallState
  <2>2. call' = [call EXCEPT ![p] = c] /\ NamesStay
    BY <1>m, <2>1 DEF NamesStay
  <2>3. /\ c.stage = stage /\ c.created = created /\ c.available = call[p].available
        /\ c.sent = call[p].sent /\ c.key = call[p].key
    BY <1>1, <2>1 DEF CallState
  <2>4. call[p].available = FALSE
    BY <1>1, <1>m, <1>s DEF Stage
  <2>5. CallFits(call[p])
    BY <1>1 DEF Calls
  <2>6. CallFits(c)'
    BY <1>m, <2>3, <2>4, <2>5 DEF CallFits, Stage
  <2> QED
    BY <1>1, <1>m, <2>2, <2>6, OneCall
\* A call that goes on with the record it has.
<1>k. ASSUME NEW stage, call' = [call EXCEPT ![p].stage = stage]
      PROVE  call' = [call EXCEPT ![p] =
               [call[p] EXCEPT !.stage = stage, !.created = call[p].created]]
  <2>1. [call[p] EXCEPT !.stage = stage]
          = [call[p] EXCEPT !.stage = stage, !.created = call[p].created]
    BY <1>1 DEF CallState
  <2> QED
    BY <1>k, <2>1
<1>2. CASE Receive(p)
  BY <1>2, ReceiveKeeps
<1>3. CASE CheckSatellite(p)
  <2>1. UNCHANGED <<record, names, handedOut, active>> /\ Stage(p, "satellite")
        /\ ~Stage(p, "done")
    BY <1>3 DEF CheckSatellite, Stage
  <2>2. CASE \E status \in Nat : Ends(p, status)
    BY <1>1, <1>e, <2>1, <2>2 DEF ApiTypes
  <2>3. CASE call[p].sent.grant.caveats # None /\ call' = [call EXCEPT ![p].stage = "put"]
    <3>3. Calls' /\ call' \in [ApiCall -> CallState]
      BY <1>k, <1>m, <1>s, <2>1, <2>3
    <3> QED
      BY <1>1, <2>1, <3>3 DEF ApiTypes
  <2>4. Answers4xx(call[p].sent, 400) \in Nat /\ 500 \in Nat
    BY DEF Answers4xx
  <2> QED
    BY <1>3, <2>2, <2>3, <2>4 DEF CheckSatellite
<1>4. CASE PutRecord(p)
  <2>1. call[p].key \in AccessKey /\ call[p].sent.grant.caveats \in Seq(Nat \cup {None})
        /\ ApiKeyExpiration(call[p].sent.grant.caveats) \in Nat \cup {None}
    BY <1>4, CaveatsAreTimes DEF PutRecord
  <2>2. PICK rec \in AccessRecord : record' = [record EXCEPT ![call[p].key] = rec]
    BY <1>4, <2>1 DEF PutRecord, AccessRecord
  <2>3. UNCHANGED <<names, handedOut, active>> /\ Stage(p, "put")
        /\ call' = [call EXCEPT ![p].stage = "stored"]
    BY <1>4 DEF PutRecord
  <2>4. /\ record' \in [AccessKey -> AccessRecord \cup {None}]
        /\ record'[call[p].key] # None
        /\ \A k \in AccessKey : record[k] # None => record'[k] # None
    BY <1>1, <1>n, <2>1, <2>2 DEF ApiTypes
  <2>5. ~Stage(p, "done") /\ names' = names
    BY <2>3 DEF Stage
  <2>7. Calls' /\ call' \in [ApiCall -> CallState]
    BY <1>k, <1>m, <1>s, <2>3, <2>4, <2>5
  <2> QED
    BY <1>1, <2>3, <2>4, <2>7 DEF ApiTypes
<1>5. CASE PutFails(p)
  <2>1. Ends(p, 500) /\ ~Stage(p, "done") /\ UNCHANGED <<record, names, handedOut, active>>
    BY <1>5 DEF PutFails, Stage
  <2> QED
    BY <1>1, <1>e, <2>1 DEF ApiTypes
<1>6. CASE HandOut(p)
  <2>1. Ends(p, 200) /\ ~Stage(p, "done") /\ UNCHANGED <<record, names, active>>
        /\ handedOut' = [handedOut EXCEPT ![call[p].key] = now]
    BY <1>6 DEF HandOut, Stage
  <2>2. handedOut' \in [AccessKey -> Nat \cup {None}]
    BY <1>1, <2>1 DEF ApiTypes, ApiInv, AuthInv, Types, AuthTypeOK
  <2> QED
    BY <1>1, <1>e, <2>1, <2>2 DEF ApiTypes
<1>7. CASE GetBucket(p)
  <2>1. UNCHANGED <<record, names, handedOut, active>> /\ Stage(p, "look")
        /\ ~Stage(p, "done")
    BY <1>7 DEF GetBucket, Stage
  <2>2. CASE Ends(p, 200) \/ Ends(p, 500)
    BY <1>1, <1>e, <2>1, <2>2 DEF ApiTypes
  <2>3. CASE call' = [call EXCEPT ![p].stage = "claim"]
    <3>3. Calls' /\ call' \in [ApiCall -> CallState]
      BY <1>k, <1>m, <1>s, <2>1, <2>3
    <3> QED
      BY <1>1, <2>1, <3>3 DEF ApiTypes
  <2> QED
    BY <1>7, <2>2, <2>3 DEF GetBucket
<1>8. CASE PutBucket(p)
  <2>1. /\ UNCHANGED <<record, names, handedOut, active>> /\ Stage(p, "claim")
        /\ ~Stage(p, "done")
        /\ call' = [call EXCEPT ![p] = [call[p] EXCEPT !.stage = "check", !.created = now]]
    BY <1>8 DEF PutBucket, Stage
  <2>2. now \in Nat
    BY DEF ApiInv, AuthInv, Types, AuthTypeOK
  <2>3. Calls' /\ call' \in [ApiCall -> CallState]
    BY <1>m, <2>1, <2>2
  <2> QED
    BY <1>1, <2>1, <2>3 DEF ApiTypes
<1>9. CASE CheckBucket(p)
  <2>1. UNCHANGED <<record, names, handedOut, active>> /\ Stage(p, "check")
        /\ ~Stage(p, "done")
    BY <1>9 DEF CheckBucket, Stage
  <2>2. CASE Ends(p, 500)
    BY <1>1, <1>e, <2>1, <2>2 DEF ApiTypes
  <2>3. CASE call' = [call EXCEPT ![p].stage = "insert"]
    <3>3. Calls' /\ call' \in [ApiCall -> CallState]
      BY <1>k, <1>m, <1>s, <2>1, <2>3
    <3> QED
      BY <1>1, <2>1, <3>3 DEF ApiTypes
  <2> QED
    BY <1>9, <2>2, <2>3 DEF CheckBucket
<1>10. CASE InsertBucket(p)
  <2> DEFINE n == call[p].sent.name
             t == call[p].created
  <2>1. UNCHANGED <<record, handedOut, active>> /\ Stage(p, "insert") /\ ~Stage(p, "done")
    BY <1>10 DEF InsertBucket, Stage
  <2>2. CASE Ends(p, 500) /\ UNCHANGED names
    BY <1>1, <1>e, <2>1, <2>2 DEF ApiTypes
  <2>3. CASE /\ names[n] \in {None, t} /\ names' = [names EXCEPT ![n] = t]
             /\ Available(p)
    <3>1. n \in Name /\ t \in Nat
      <4>1. call[p].sent \in SentCalls /\ HandlerOf(call[p].sent) = "getBucket" /\ t \in Nat
        BY <1>1, <2>1 DEF Calls, CallFits, Stage
      <4>2. PICK a \in Activities : call[p].sent \in a.sent
        BY <4>1 DEF SentCalls
      <4> QED
        BY <4>1, <4>2, ApiAssumption
    <3>2. /\ names' \in [Name -> Nat \cup {None}] /\ names'[n] = t
          /\ NamesStay
      BY <1>1, <2>3, <3>1 DEF ApiTypes, NamesStay
    <3>3. PICK c \in CallState :
            c = [call[p] EXCEPT !.stage = "done", !.status = 200, !.available = TRUE]
      <4>1. ASSUME NEW status \in Nat, NEW available \in BOOLEAN
            PROVE  [call[p] EXCEPT !.stage = "done", !.status = status,
                                   !.available = available] \in CallState
        BY <1>1 DEF CallState
      <4>2. 200 \in Nat /\ TRUE \in BOOLEAN
        OBVIOUS
      <4>3. [call[p] EXCEPT !.stage = "done", !.status = 200, !.available = TRUE]
              \in CallState
        BY <4>1, <4>2, Zenon
      <4> QED
        BY <4>3, Zenon
    <3>4. call' = [call EXCEPT ![p] = c]
      BY <2>3, <3>3 DEF Available
    <3>5. c.stage = "done" /\ c.created = t /\ c.sent = call[p].sent
      BY <1>1, <3>3 DEF CallState
    <3>6. CallFits(c)'
      BY <3>1, <3>2, <3>5 DEF CallFits
    <3>7. \A k \in AccessKey : record[k] # None => record'[k] # None
      BY <2>1
    <3>8. Calls' /\ call' \in [ApiCall -> CallState]
      BY <1>1, <3>2, <3>4, <3>6, <3>7, OneCall
    <3> QED
      BY <1>1, <2>1, <3>2, <3>8 DEF ApiTypes
  <2> QED
    BY <1>10, <2>2, <2>3 DEF InsertBucket
<1> QED
  BY <1>2, <1>3, <1>4, <1>5, <1>6, <1>7, <1>8, <1>9, <1>10 DEF CallStep

\* What getAccess answers is what the auth client takes it for.
LEMMA AccessIsAnswered ==
  ASSUME ApiInv, NEW k \in AccessKey
  PROVE  /\ AnswerOf(GetAccess(k)) \in Answer(k)
         /\ AnswerOf(GetAccess(k)) \in {"grant", "refused"}
         /\ AnswerOf(GetAccess(k)) = "refused" => handedOut[k] = None \/ revoked[k] # None
<1>1. /\ record[k] # None <=> k \in registered
      /\ handedOut[k] # None => k \in registered
      /\ record[k] # None =>
           /\ record[k].expires = ApiKeyExpiration(record[k].caveats)
           /\ revoked[k] = None <=> record[k].valid /\ ~Over(record[k].caveats, now)
  BY DEF ApiInv, Records
<1>2. record[k] # None =>
        /\ record[k].caveats \in Seq(Nat \cup {None})
        /\ record[k].valid \in BOOLEAN
  BY DEF ApiInv, ApiTypes, AccessRecord
<1>3. now \in Nat
  BY DEF ApiInv, AuthInv, Types, AuthTypeOK
<1>4. record[k] # None =>
        (Over(record[k].caveats, now)
           <=> record[k].expires # None /\ record[k].expires <= now)
  BY <1>1, <1>2, <1>3, ExpiresAtEarliest
<1>5. CASE record[k] = None
  BY <1>1, <1>5 DEF GetAccess, NotFoundStatus, AnswerOf, Answer
<1>6. CASE record[k] # None
  BY <1>1, <1>2, <1>4, <1>6 DEF GetAccess, NotFoundStatus, AnswerOf, Answer
<1> QED
  BY <1>5, <1>6

\* A step of the service is one of those that the auth client expects of it, or
\* leaves alone what it knows.
LEMMA ServiceStep ==
  ASSUME ApiInv, [Next]_vars
  PROVE  [AuthNext]_authVars
<1>1. ASSUME NEW p \in ApiCall, CallStep(p)
      PROVE  [AuthNext]_authVars
  <2>1. CASE PutRecord(p)
    <3>1. call[p].key \in AccessKey
      BY <2>1, CaveatsAreTimes DEF PutRecord
    <3>2. Over(call[p].sent.grant.caveats, now) \in BOOLEAN
      BY DEF Over
    <3>3. \E expired \in BOOLEAN : Register(call[p].key, expired)
      BY <2>1, <3>2, Zenon DEF PutRecord
    <3> QED
      BY <3>1, <3>3, Zenon DEF AuthNext
  <2>2. CASE ~PutRecord(p)
    <3>1. UNCHANGED authVars
      BY <1>1, <2>2 DEF CallStep, Receive, CheckSatellite, PutFails, HandOut, GetBucket,
                        PutBucket, CheckBucket, InsertBucket
    <3> QED
      BY <3>1
  <2> QED
    BY <2>1, <2>2
<1>2. ASSUME NEW r \in Request, LookUp(r)
      PROVE  AuthNext
  <2>1. CASE At(r, "ask") /\ Ask(r, AnswerOf(GetAccess(lookup[r].key)))
    <3>1. lookup[r].key \in AccessKey
      BY <2>1 DEF ApiInv, AuthInv, Types, At
    <3> QED
      BY <2>1, <3>1, AccessIsAnswered, Zenon DEF AuthNext
  <2>2. CASE \/ \E k \in AccessKey : StartLookup(r, k)
             \/ ResolveStep(r) \/ Cancel(r)
    BY <2>2, Zenon DEF AuthNext
  <2> QED
    BY <1>2, <2>1, <2>2, Zenon DEF LookUp
<1>3. ASSUME NEW k \in AccessKey, Invalidate(k)
      PROVE  [AuthNext]_authVars
  BY <1>3, Zenon DEF Invalidate, AuthNext
<1>4. CASE Time
  <2>1. {k \in Served : Over(record[k].caveats, now + 1)} \in SUBSET Served
    OBVIOUS
  <2> QED
    BY <1>4, <2>1, Zenon DEF Time, AuthNext
<1>5. CASE ReloadStep
  <2>1. UNCHANGED authVars
    BY <1>5 DEF ReloadStep, Publish, ReloadStart, ReadSource, ReadFails, SetAllowedSatellites
  <2> QED
    BY <2>1
<1>6. CASE UNCHANGED vars
  BY <1>6 DEF vars
<1> QED
  BY <1>1, <1>2, <1>3, <1>4, <1>5, <1>6 DEF Next

\* Steps that keep the records, the keys and the clock.
LEMMA NoKeyMoves ==
  ASSUME ApiInv, UNCHANGED <<now, registered, revoked, record>>,
         \A k \in AccessKey : handedOut'[k] # None => k \in registered
  PROVE  Records'
BY DEF ApiInv, Records

LEMMA RecordsStay ==
  ASSUME ApiInv, [Next]_vars
  PROVE  Records'
<1>t. /\ now \in Nat /\ registered \in SUBSET AccessKey
      /\ revoked \in [AccessKey -> Nat \cup {None}]
      /\ record \in [AccessKey -> AccessRecord \cup {None}]
      /\ handedOut \in [AccessKey -> Nat \cup {None}]
  BY DEF ApiInv, AuthInv, Types, AuthTypeOK, ApiTypes
<1>n. None \notin AccessRecord /\ None \notin Nat
  BY ApiAssumption, AuthClientAssumption
<1>h. \A k \in AccessKey : handedOut[k] # None => k \in registered
  BY DEF ApiInv, Records
<1>1. ASSUME NEW p \in ApiCall, PutRecord(p)
      PROVE  Records'
  <2> DEFINE k == call[p].key
             c == call[p].sent.grant.caveats
  <2>1. k \in AccessKey /\ c \in Seq(Nat \cup {None})
        /\ ApiKeyExpiration(c) \in Nat \cup {None}
    BY <1>1, CaveatsAreTimes DEF PutRecord
  <2>2. /\ record' = [record EXCEPT ![k] =
             [expires |-> ApiKeyExpiration(c), valid |-> TRUE, caveats |-> c]]
        /\ registered' = registered \cup {k}
        /\ revoked' = [revoked EXCEPT ![k] = IF Over(c, now) THEN now ELSE None]
        /\ UNCHANGED <<now, handedOut>> /\ record[k] = None
    BY <1>1 DEF PutRecord, Register
  <2> HIDE DEF k, c
  <2>3. PICK rec \in AccessRecord :
          rec = [expires |-> ApiKeyExpiration(c), valid |-> TRUE, caveats |-> c]
    BY <2>1 DEF AccessRecord
  <2>4. /\ record'[k] # None
        /\ record'[k].expires = ApiKeyExpiration(record'[k].caveats)
        /\ revoked'[k] = None <=> record'[k].valid /\ ~Over(record'[k].caveats, now')
    <3>1. record'[k] = rec /\ rec.expires = ApiKeyExpiration(c) /\ rec.valid = TRUE
          /\ rec.caveats = c /\ record'[k] # None
      BY <1>n, <1>t, <2>1, <2>2, <2>3
    <3>2. revoked'[k] = IF Over(c, now) THEN now ELSE None
      BY <1>t, <2>1, <2>2
    <3> QED
      BY <1>n, <1>t, <2>2, <3>1, <3>2
  <2>5. ASSUME NEW q \in AccessKey, q # k
        PROVE  record'[q] = record[q] /\ revoked'[q] = revoked[q]
               /\ (q \in registered' <=> q \in registered)
    BY <1>t, <2>1, <2>2, <2>5
  <2>6. ASSUME NEW q \in AccessKey, q # k
        PROVE  /\ record'[q] # None <=> q \in registered'
               /\ q \in registered' =>
                  /\ record'[q].expires = ApiKeyExpiration(record'[q].caveats)
                  /\ revoked'[q] = None <=> record'[q].valid /\ ~Over(record'[q].caveats, now')
    <3>1. /\ record[q] # None <=> q \in registered
          /\ q \in registered =>
               /\ record[q].expires = ApiKeyExpiration(record[q].caveats)
               /\ revoked[q] = None <=> record[q].valid /\ ~Over(record[q].caveats, now)
      BY DEF ApiInv, Records
    <3> QED
      BY <2>2, <2>5, <2>6, <3>1
  <2>7. \A q \in AccessKey : handedOut'[q] # None => q \in registered'
    BY <1>h, <2>2
  <2>8. k \in registered'
    BY <2>2
  <2> QED
    BY <2>4, <2>6, <2>7, <2>8 DEF Records
<1>2. ASSUME NEW p \in ApiCall, CallStep(p), ~PutRecord(p)
      PROVE  Records'
  <2>1. UNCHANGED <<now, registered, revoked, record>>
    BY <1>2 DEF CallStep, Receive, CheckSatellite, PutFails, HandOut, GetBucket,
                      PutBucket, CheckBucket, InsertBucket, authVars
  <2>2. CASE HandOut(p)
    <3>1. call[p].key \in AccessKey /\ record[call[p].key] # None
      BY <2>2 DEF HandOut, Stage, ApiInv, Calls, CallFits
    <3>2. call[p].key \in registered
      BY <3>1 DEF ApiInv, Records
    <3>3. handedOut' = [handedOut EXCEPT ![call[p].key] = now]
      BY <2>2 DEF HandOut
    <3> QED
      BY <1>h, <1>t, <2>1, <3>2, <3>3, NoKeyMoves
  <2>3. CASE ~HandOut(p)
    <3>1. UNCHANGED handedOut
      BY <1>2, <2>3 DEF CallStep, Receive, CheckSatellite, PutFails, GetBucket, PutBucket,
                        CheckBucket, InsertBucket
    <3> QED
      BY <1>h, <2>1, <3>1, NoKeyMoves
  <2> QED
    BY <2>2, <2>3
<1>3. ASSUME NEW r \in Request, LookUp(r)
      PROVE  Records'
  <2>1. UNCHANGED <<now, registered, revoked>>
    BY <1>3 DEF LookUp, StartLookup, ResolveStep, Hit, Miss, Retry, GiveUp, Settle, Resume,
                Leave, Cancel, Ask, BeginWait, Finish
  <2>2. UNCHANGED <<record, handedOut>>
    BY <1>3 DEF LookUp, callVars
  <2> QED
    BY <1>h, <2>1, <2>2, NoKeyMoves
<1>4. ASSUME NEW k \in AccessKey, Invalidate(k)
      PROVE  Records'
  <2>1. /\ record' = [record EXCEPT ![k].valid = FALSE]
        /\ UNCHANGED <<now, registered, handedOut>>
        /\ \/ revoked[k] = None /\ revoked' = [revoked EXCEPT ![k] = now]
           \/ revoked[k] # None /\ revoked' = revoked
        /\ record[k] # None
    BY <1>4 DEF Invalidate, Revoke, authVars
  <2>2. record[k] \in AccessRecord
    BY <1>t, <2>1
  <2>3. PICK rec \in AccessRecord : rec = [record[k] EXCEPT !.valid = FALSE]
    BY <2>2 DEF AccessRecord
  <2>4. record'[k] = rec /\ rec.valid = FALSE /\ rec.caveats = record[k].caveats
        /\ rec.expires = record[k].expires /\ record'[k] # None
    <3>1. rec.valid = FALSE /\ rec.caveats = record[k].caveats
          /\ rec.expires = record[k].expires
      BY <2>2, <2>3 DEF AccessRecord
    <3> QED
      BY <1>n, <1>t, <2>1, <2>3, <3>1
  <2>5. revoked'[k] # None
    BY <1>n, <1>t, <2>1
  <2>6. \A q \in AccessKey \ {k} : record'[q] = record[q] /\ revoked'[q] = revoked[q]
    BY <1>t, <2>1
  <2> QED
    BY <2>1, <2>4, <2>5, <2>6 DEF ApiInv, Records
<1>5. CASE Time
  <2> DEFINE ended == {k \in Served : Over(record[k].caveats, now + 1)}
  <2>1. /\ now' = now + 1 /\ UNCHANGED <<registered, record, handedOut>>
        /\ revoked' = [k \in AccessKey |-> IF k \in ended THEN now + 1 ELSE revoked[k]]
    BY <1>5 DEF Time, Tick, callVars
  <2>2. ASSUME NEW k \in AccessKey, k \in registered
        PROVE  revoked'[k] = None <=> record[k].valid /\ ~Over(record[k].caveats, now + 1)
    <3>1. /\ record[k] \in AccessRecord
          /\ revoked[k] = None <=> record[k].valid /\ ~Over(record[k].caveats, now)
      BY <1>t, <2>2 DEF ApiInv, Records
    <3>2. record[k].caveats \in Seq(Nat \cup {None})
      BY <3>1 DEF AccessRecord
    <3>3. Over(record[k].caveats, now) => Over(record[k].caveats, now + 1)
      <4>1. \A i \in DOMAIN record[k].caveats : record[k].caveats[i] \in Nat \cup {None}
        BY <3>2
      <4> QED
        BY <1>t, <4>1 DEF Over
    <3>4. revoked'[k] = IF k \in ended THEN now + 1 ELSE revoked[k]
      BY <2>1
    <3>5. k \in ended <=> revoked[k] = None /\ Over(record[k].caveats, now + 1)
      BY <2>2 DEF Served
    <3> HIDE DEF ended
    <3> QED
      BY <1>n, <1>t, <3>1, <3>3, <3>4, <3>5
  <2> HIDE DEF ended
  <2> QED
    BY <2>1, <2>2 DEF ApiInv, Records
<1>6. CASE ReloadStep \/ UNCHANGED vars
  <2>1. UNCHANGED <<now, registered, revoked, record, handedOut>>
    BY <1>6 DEF ReloadStep, Publish, ReloadStart, ReadSource, ReadFails,
                SetAllowedSatellites, authVars, callVars, vars
  <2> QED
    BY <1>h, <2>1, NoKeyMoves
<1> QED
  BY <1>1, <1>2, <1>3, <1>4, <1>5, <1>6 DEF Next

\* Steps that give no answer: a key that is handed out now was not when a lookup that
\* has its answer began.
LEMMA AnswersStay ==
  ASSUME ApiInv,
         \A r \in Request :
           lookup'[r].stage \in {"received", "done"} =>
             /\ lookup[r].stage \in {"received", "done"}
             /\ lookup'[r].got = lookup[r].got
             /\ lookup'[r].key = lookup[r].key /\ lookup'[r].since = lookup[r].since,
         \A k \in AccessKey :
           entry'[k] # None /\ entry'[k].by = None => entry'[k] = entry[k],
         \A k \in AccessKey :
           /\ handedOut'[k] = handedOut[k] \/ handedOut'[k] = now
           /\ revoked[k] # None => revoked'[k] # None \/ handedOut'[k] = None
  PROVE  Refusals'
<1>1. ASSUME NEW k \in AccessKey, entry'[k] # None, entry'[k].by = None
      PROVE  entry'[k].value.holds # "missing"
  BY <1>1 DEF ApiInv, Refusals
<1>2. ASSUME NEW r \in Request, lookup'[r].stage \in {"received", "done"}
      PROVE  lookup'[r].got # "missing"
  BY <1>2 DEF ApiInv, Refusals
<1>3. ASSUME NEW r \in Request, lookup'[r].stage \in {"received", "done"},
             lookup'[r].got = "refused"
      PROVE  RefusalIsDue(r)'
  <2>1. /\ lookup[r].stage \in {"received", "done"} /\ lookup[r].got = "refused"
        /\ lookup'[r].key = lookup[r].key /\ lookup'[r].since = lookup[r].since
    BY <1>3
  <2>2. PICK k \in AccessKey : k = lookup[r].key
    BY <2>1 DEF ApiInv, AuthInv, Types, At
  <2>3. now \in Nat /\ lookup[r].since \in Nat /\ lookup[r].since <= now
    BY DEF ApiInv, AuthInv, Types, AuthTypeOK, Lookup, Ages
  <2>4. handedOut[k] # None /\ handedOut[k] < lookup[r].since => revoked[k] # None
    BY <2>1, <2>2 DEF ApiInv, Refusals, RefusalIsDue
  <2>5. /\ handedOut'[k] = handedOut[k] \/ handedOut'[k] = now
        /\ revoked[k] # None => revoked'[k] # None \/ handedOut'[k] = None
    OBVIOUS
  <2>6. handedOut'[k] # None /\ handedOut'[k] < lookup[r].since => revoked'[k] # None
    BY <2>3, <2>4, <2>5
  <2> QED
    BY <2>1, <2>2, <2>6 DEF RefusalIsDue
<1> QED
  BY <1>1, <1>2, <1>3 DEF Refusals, RefusalIsDue

\* The end of a call gives no answer but the one that was received.
LEMMA EndsAsReceived ==
  ASSUME ApiInv, NEW r \in Request, NEW result, NEW cached \in BOOLEAN,
         Finish(r, result, cached), UNCHANGED handedOut,
         result \in {"grant", "refused", "missing"} =>
           At(r, "received") /\ result = lookup[r].got,
         cached => result \in {"grant", "missing"}
  PROVE  Refusals'
<1>t. /\ lookup \in [Request -> Lookup] /\ entry \in [AccessKey -> Entry \cup {None}]
      /\ UNCHANGED revoked
  BY DEF ApiInv, AuthInv, Types, AuthTypeOK, Finish
<1>r. /\ result # "missing" /\ (cached => result = "grant")
      /\ result = "refused" => RefusalIsDue(r)
  <2>1. At(r, "received") => lookup[r].got # "missing"
          /\ (lookup[r].got = "refused" => RefusalIsDue(r))
    BY DEF ApiInv, Refusals, RefusalIsDue, At
  <2> QED
    BY <2>1
<1>k. ASSUME NEW k \in AccessKey, entry'[k] # None, entry'[k].by = None
      PROVE  entry'[k].value.holds # "missing"
  <2>1. entry'[k] = entry[k] \/ entry'[k] = None
          \/ (cached /\ entry'[k] = [when |-> entry[k].when, by |-> None,
                                     value |-> Encrypt(lookup[r].key, result)])
    BY <1>t DEF Finish
  <2>2. CASE cached /\ entry'[k] = [when |-> entry[k].when, by |-> None,
                                     value |-> Encrypt(lookup[r].key, result)]
    BY <1>r, <2>2 DEF Encrypt
  <2> QED
    BY <1>k, <2>1, <2>2 DEF ApiInv, Refusals
<1>l. ASSUME NEW s \in Request
      PROVE  /\ lookup'[s].key = lookup[s].key /\ lookup'[s].since = lookup[s].since
             /\ \/ lookup'[s] = lookup[s]
                \/ s = r /\ lookup'[s].got = result
                \/ lookup'[s].stage = "cache"
                \/ cached /\ lookup'[s].got \in {"grant", "failed"}
  <2>1. lookup[s] \in Lookup
    BY <1>t
  <2>2. CASE s = r
    <3>1. lookup'[s] = [lookup[s] EXCEPT !.stage = "done", !.got = result,
                                         !.delay = 0, !.left = 0]
      BY <2>2 DEF Finish
    <3> QED
      BY <2>1, <2>2, <3>1 DEF Lookup
  <2>3. CASE s # r /\ ~(At(s, "wait") /\ lookup[s].on = r)
    BY <2>1, <2>3 DEF Finish
  <2>4. CASE s # r /\ At(s, "wait") /\ lookup[s].on = r /\ cached
    <3>1. lookup'[s] = [lookup[s] EXCEPT !.stage = "done", !.on = None,
             !.got = Decrypt(lookup[s].key, Encrypt(lookup[r].key, result))]
      BY <2>4 DEF Finish
    <3>2. Decrypt(lookup[s].key, Encrypt(lookup[r].key, result)) \in {"grant", "failed"}
      BY <1>r, <2>4 DEF Decrypt, Encrypt
    <3> QED
      BY <2>1, <2>4, <3>1, <3>2 DEF Lookup
  <2>5. CASE s # r /\ At(s, "wait") /\ lookup[s].on = r /\ ~cached
    <3>1. lookup'[s] = [lookup[s] EXCEPT !.stage = "cache", !.on = None]
      BY <2>5 DEF Finish
    <3> QED
      BY <2>1, <2>5, <3>1 DEF Lookup
  <2> QED
    BY <2>2, <2>3, <2>4, <2>5
<1>1. ASSUME NEW s \in Request, lookup'[s].stage \in {"received", "done"}
      PROVE  lookup'[s].got # "missing" /\ (lookup'[s].got = "refused" => RefusalIsDue(s)')
  <2>1. CASE lookup'[s] = lookup[s]
    <3>1. lookup[s].got # "missing" /\ (lookup[s].got = "refused" => RefusalIsDue(s))
      BY <1>1, <2>1 DEF ApiInv, Refusals, RefusalIsDue
    <3> QED
      BY <1>t, <2>1, <3>1 DEF RefusalIsDue
  <2>2. CASE s = r /\ lookup'[s].got = result
    BY <1>l, <1>r, <1>t, <2>2 DEF RefusalIsDue
  <2>3. CASE cached /\ lookup'[s].got \in {"grant", "failed"}
    BY <2>3
  <2> QED
    BY <1>1, <1>l, <2>1, <2>2, <2>3
<1> QED
  BY <1>1, <1>k DEF Refusals, RefusalIsDue

\* A step of a lookup keeps that refusals are due.
LEMMA LookUpKeepsRefusals ==
  ASSUME ApiInv, NEW r \in Request, LookUp(r)
  PROVE  Refusals'
<1>u. UNCHANGED handedOut
  BY DEF LookUp, callVars
<1>t. /\ lookup \in [Request -> Lookup] /\ entry \in [AccessKey -> Entry \cup {None}]
      /\ lookup[r] \in Lookup
  BY DEF ApiInv, AuthInv, Types, AuthTypeOK
\* A step that only changes the lookup, to one with no answer or with a due one.
<1>o. ASSUME NEW l, lookup' = [lookup EXCEPT ![r] = l], UNCHANGED <<entry, revoked>>,
             l.stage \in {"received", "done"} =>
               /\ l.got # "missing"
               /\ l.got = "refused" =>
                    (handedOut[l.key] # None /\ handedOut[l.key] < l.since
                       => revoked[l.key] # None)
      PROVE  Refusals'
  <2>1. lookup'[r] = l /\ \A s \in Request \ {r} : lookup'[s] = lookup[s]
    BY <1>o, <1>t
  <2>2. ASSUME NEW s \in Request, lookup'[s].stage \in {"received", "done"}
        PROVE  lookup'[s].got # "missing" /\ (lookup'[s].got = "refused" => RefusalIsDue(s)')
    <3>1. CASE s = r
      BY <1>o, <1>u, <2>1, <2>2, <3>1 DEF RefusalIsDue
    <3>2. CASE s # r
      BY <1>o, <1>u, <2>1, <2>2, <3>2 DEF RefusalIsDue, ApiInv, Refusals
    <3> QED
      BY <3>1, <3>2
  <2>3. \A k \in AccessKey :
          entry'[k] # None /\ entry'[k].by = None => entry'[k].value.holds # "missing"
    BY <1>o DEF ApiInv, Refusals
  <2> QED
    BY <2>2, <2>3 DEF Refusals, RefusalIsDue
<1>1. ASSUME NEW k \in AccessKey, StartLookup(r, k)
      PROVE  Refusals'
  <2>1. PICK l : l = [Idle EXCEPT !.stage = "cache", !.key = k, !.since = now]
    OBVIOUS
  <2>2. l.stage = "cache"
    BY <2>1 DEF Idle
  <2>3. lookup' = [lookup EXCEPT ![r] = l] /\ UNCHANGED <<entry, revoked>>
    BY <1>1, <2>1 DEF StartLookup
  <2> QED
    BY <1>o, <2>2, <2>3
<1>2. CASE Hit(r)
  <2>1. PICK k \in AccessKey : k = lookup[r].key
    BY <1>2 DEF Hit, ApiInv, AuthInv, Types, At
  <2>2. UNCHANGED <<entry, revoked>> /\ entry[k] # None
    BY <1>2, <2>1 DEF Hit, Usable
  <2>3. CASE entry[k].by = None
    <3>1. Decrypt(k, entry[k].value) \in {"grant", "failed"}
      <4>1. entry[k].value \in Sealed /\ entry[k].value.holds # "missing"
        BY <2>2, <2>3 DEF ApiInv, AuthInv, Types, Refusals
      <4> QED
        BY <4>1 DEF Sealed, Decrypt
    <3>2. PICK l : l = [lookup[r] EXCEPT !.stage = "done", !.got = Decrypt(k, entry[k].value)]
      OBVIOUS
    <3>3. l.got \in {"grant", "failed"}
      BY <1>t, <3>1, <3>2 DEF Lookup
    <3>4. lookup' = [lookup EXCEPT ![r] = l]
      BY <1>2, <2>1, <2>3, <3>2 DEF Hit
    <3> QED
      BY <1>o, <2>2, <3>3, <3>4
  <2>4. CASE entry[k].by # None
    <3>1. PICK l : l = [lookup[r] EXCEPT !.stage = "wait", !.on = entry[k].by]
      OBVIOUS
    <3>2. l.stage = "wait"
      BY <1>t, <3>1 DEF Lookup
    <3>3. lookup' = [lookup EXCEPT ![r] = l]
      BY <1>2, <2>1, <2>4, <3>1 DEF Hit
    <3> QED
      BY <1>o, <2>2, <3>2, <3>3
  <2> QED
    BY <2>3, <2>4
<1>3. CASE Miss(r)
  <2>1. lookup' = [lookup EXCEPT ![r] = [lookup[r] EXCEPT !.stage = "ask"]]
        /\ UNCHANGED revoked
    BY <1>3 DEF Miss
  <2>2. ASSUME NEW s \in Request, lookup'[s].stage \in {"received", "done"}
        PROVE  lookup'[s] = lookup[s]
    <3>1. [lookup[r] EXCEPT !.stage = "ask"].stage = "ask"
      BY <1>t DEF Lookup
    <3> QED
      BY <1>t, <2>1, <2>2, <3>1
  <2>3. ASSUME NEW c \in AccessKey, entry'[c] # None, entry'[c].by = None
        PROVE  entry'[c] = entry[c]
    <3>1. PICK out : entry' = [c1 \in AccessKey |->
                CASE c1 = lookup[r].key -> [when |-> now, by |-> r, value |-> None]
                  [] c1 \in out -> None
                  [] OTHER -> entry[c1]]
      BY <1>3 DEF Miss
    <3>2. r # None
      BY AuthClientAssumption
    <3> QED
      BY <2>3, <3>1, <3>2
  <2>4. \A k \in AccessKey : handedOut'[k] = handedOut[k] /\ revoked'[k] = revoked[k]
    BY <1>u, <2>1
  <2> QED
    BY <2>2, <2>3, <2>4, AnswersStay
<1>4. CASE Retry(r)
  <2>1. CASE Finish(r, "gone", FALSE)
    BY <1>u, <2>1, EndsAsReceived
  <2>2. CASE ~Finish(r, "gone", FALSE)
    <3>1. PICK d : /\ lookup' = [lookup EXCEPT ![r] =
                        [lookup[r] EXCEPT !.stage = "pause", !.got = None, !.delay = d, !.left = d]]
                   /\ UNCHANGED <<entry, revoked>>
      BY <1>4, <2>2 DEF Retry, BeginWait
    <3>2. PICK l : l = [lookup[r] EXCEPT !.stage = "pause", !.got = None, !.delay = d, !.left = d]
      OBVIOUS
    <3>3. l.stage = "pause"
      BY <1>t, <3>2 DEF Lookup
    <3> QED
      BY <1>o, <3>1, <3>2, <3>3
  <2> QED
    BY <2>1, <2>2
<1>5. CASE GiveUp(r) \/ Leave(r)
  BY <1>5, <1>u, EndsAsReceived DEF GiveUp, Leave
<1>6. CASE Settle(r)
  <2>1. CASE lookup[r].got \in {"grant", "missing"} /\ Finish(r, lookup[r].got, TRUE)
    BY <1>6, <1>u, <2>1, EndsAsReceived DEF Settle
  <2>2. CASE lookup[r].got = "refused" /\ Finish(r, "refused", FALSE)
    BY <1>6, <1>u, <2>2, EndsAsReceived DEF Settle
  <2> QED
    BY <1>6, <2>1, <2>2 DEF Settle
<1>7. CASE Resume(r)
  <2>1. PICK l : l = [lookup[r] EXCEPT !.stage = "ask"]
    OBVIOUS
  <2>2. l.stage = "ask"
    BY <1>t, <2>1 DEF Lookup
  <2>3. lookup' = [lookup EXCEPT ![r] = l] /\ UNCHANGED <<entry, revoked>>
    BY <1>7, <2>1 DEF Resume
  <2> QED
    BY <1>o, <2>2, <2>3
<1>8. CASE Cancel(r)
  <2>1. UNCHANGED <<lookup, entry, revoked>>
    BY <1>8 DEF Cancel
  <2> QED
    BY <1>u, <2>1, AnswersStay
<1>9. CASE At(r, "ask") /\ Ask(r, AnswerOf(GetAccess(lookup[r].key)))
  <2>1. PICK a \in Answers :
          /\ lookup' = [lookup EXCEPT ![r] = [lookup[r] EXCEPT !.stage = "received", !.got = a]]
          /\ a = AnswerOf(GetAccess(lookup[r].key)) \/ a \in {"error500", "badBody", "noConn"}
    BY <1>9 DEF Ask
  <2>2. lookup[r].key \in AccessKey
    BY <1>9 DEF ApiInv, AuthInv, Types, At
  <2>3. /\ a # "missing"
        /\ a = "refused" => handedOut[lookup[r].key] = None \/ revoked[lookup[r].key] # None
    BY <2>1, <2>2, AccessIsAnswered
  <2>4. PICK l : l = [lookup[r] EXCEPT !.stage = "received", !.got = a]
    OBVIOUS
  <2>5. l.got = a /\ l.key = lookup[r].key
    BY <1>t, <2>4 DEF Lookup
  <2>6. lookup' = [lookup EXCEPT ![r] = l] /\ UNCHANGED <<entry, revoked>>
    BY <1>9, <2>1, <2>4 DEF Ask
  <2> QED
    BY <1>o, <2>3, <2>5, <2>6
<1> QED
  BY <1>1, <1>2, <1>3, <1>4, <1>5, <1>6, <1>7, <1>8, <1>9 DEF LookUp, ResolveStep

LEMMA RefusalsStay ==
  ASSUME ApiInv, [Next]_vars
  PROVE  Refusals'
<1>t. /\ now \in Nat /\ registered \in SUBSET AccessKey
      /\ revoked \in [AccessKey -> Nat \cup {None}]
      /\ handedOut \in [AccessKey -> Nat \cup {None}]
  BY DEF ApiInv, AuthInv, Types, AuthTypeOK, ApiTypes
<1>n. None \notin Nat
  BY AuthClientAssumption
<1>1. ASSUME NEW p \in ApiCall, PutRecord(p)
      PROVE  Refusals'
  <2>1. call[p].key \in AccessKey
    BY <1>1, CaveatsAreTimes DEF PutRecord
  <2>2. /\ UNCHANGED <<lookup, entry, handedOut>> /\ call[p].key \notin registered
        /\ \E t : revoked' = [revoked EXCEPT ![call[p].key] = t]
    BY <1>1 DEF PutRecord, Register
  <2>3. handedOut[call[p].key] = None
    BY <2>1, <2>2 DEF ApiInv, Records
  <2>4. \A k \in AccessKey : revoked[k] # None => revoked'[k] # None \/ handedOut'[k] = None
    BY <1>t, <2>2, <2>3
  <2> QED
    BY <2>2, <2>4, AnswersStay
<1>2. ASSUME NEW p \in ApiCall, CallStep(p), ~PutRecord(p)
      PROVE  Refusals'
  <2>1. UNCHANGED <<revoked, entry, lookup>>
        /\ (UNCHANGED handedOut \/ handedOut' = [handedOut EXCEPT ![call[p].key] = now])
    BY <1>2 DEF CallStep, Receive, CheckSatellite, PutFails, HandOut, GetBucket,
                      PutBucket, CheckBucket, InsertBucket, authVars
  <2>2. \A k \in AccessKey : handedOut'[k] = handedOut[k] \/ handedOut'[k] = now
    BY <1>t, <2>1
  <2> QED
    BY <2>1, <2>2, AnswersStay
<1>3. ASSUME NEW r \in Request, LookUp(r)
      PROVE  Refusals'
  BY <1>3, LookUpKeepsRefusals
<1>4. ASSUME NEW k \in AccessKey, Invalidate(k)
      PROVE  Refusals'
  <2>1. UNCHANGED <<lookup, entry, handedOut>>
        /\ (UNCHANGED revoked \/ revoked' = [revoked EXCEPT ![k] = now])
    BY <1>4 DEF Invalidate, Revoke, authVars
  <2>2. \A c \in AccessKey : revoked[c] # None => revoked'[c] # None
    BY <1>n, <1>t, <2>1
  <2> QED
    BY <2>1, <2>2, AnswersStay
<1>5. CASE Time
  <2>1. PICK ended : Tick(ended) /\ UNCHANGED handedOut
    BY <1>5 DEF Time, callVars
  <2>2. UNCHANGED entry /\ revoked' = [k \in AccessKey |-> IF k \in ended THEN now + 1 ELSE revoked[k]]
        /\ lookup' = [r \in Request |-> [lookup[r] EXCEPT !.left = IF @ = 0 THEN 0 ELSE @ - 1]]
    BY <2>1 DEF Tick
  <2>3. \A c \in AccessKey : revoked[c] # None => revoked'[c] # None
    BY <1>n, <1>t, <2>2
  <2>4. \A r \in Request :
           /\ lookup'[r].stage = lookup[r].stage /\ lookup'[r].key = lookup[r].key
           /\ lookup'[r].since = lookup[r].since /\ lookup'[r].got = lookup[r].got
    BY <2>2 DEF Lookup, ApiInv, AuthInv, Types, AuthTypeOK
  <2> QED
    BY <2>1, <2>2, <2>3, <2>4, AnswersStay
<1>6. CASE ReloadStep \/ UNCHANGED vars
  <2>1. UNCHANGED <<lookup, entry, revoked, handedOut>>
    BY <1>6 DEF ReloadStep, Publish, ReloadStart, ReadSource, ReadFails,
                SetAllowedSatellites, authVars, callVars, vars
  <2> QED
    BY <2>1, AnswersStay
<1> QED
  BY <1>1, <1>2, <1>3, <1>4, <1>5, <1>6 DEF Next

\* Steps that leave the satellite lists alone.
LEMMA NoListMoves ==
  ASSUME Lists, UNCHANGED listVars
  PROVE  Lists'
BY DEF Lists, listVars, Listed, ListedIsAllowed

LEMMA ListsStay ==
  ASSUME ApiInv, [Next]_vars
  PROVE  Lists'
<1>s. /\ Source \in Seq({"http", "file"}) /\ None \notin Reload
      /\ Contents \subseteq [lists: SUBSET Satellite, readable: BOOLEAN]
  BY ApiAssumption
<1>d. Len(Source) \in Nat /\ DOMAIN Source = 1 .. Len(Source)
  BY <1>s
<1>t. Lists /\ content \in [DOMAIN Source -> Contents] /\ DOMAIN always = DOMAIN Source
  BY DEF ApiInv, Lists
<1>1. ASSUME NEW i \in DOMAIN Source, Publish(i)
      PROVE  Lists'
  <2>1. PICK c \in Contents : content' = [content EXCEPT ![i] = c]
    BY <1>1 DEF Publish
  <2>2. /\ always' = [always EXCEPT ![i] = @ \cap content'[i].lists]
        /\ ever' = ever \cup Listed(content') /\ UNCHANGED <<reload, allowed>>
    BY <1>1 DEF Publish
  <2>3. /\ content' \in [DOMAIN Source -> Contents] /\ content'[i] = c
        /\ \A j \in DOMAIN Source \ {i} : content'[j] = content[j]
    BY <1>t, <2>1
  <2>4. /\ DOMAIN always' = DOMAIN Source
        /\ \A j \in DOMAIN Source :
             always'[j] \subseteq always[j] /\ always'[j] \subseteq content'[j].lists
    <3>1. DOMAIN always' = DOMAIN Source
      BY <1>t, <2>2
    <3>2. ASSUME NEW j \in DOMAIN Source
          PROVE  always'[j] \subseteq always[j] /\ always'[j] \subseteq content'[j].lists
      <4>1. CASE j = i
        <5>1. always'[i] = always[i] \cap content'[i].lists
          BY <1>t, <2>2
        <5> QED
          BY <4>1, <5>1
      <4>2. CASE j # i
        <5>1. always'[j] = always[j] /\ content'[j] = content[j]
          BY <1>t, <2>2, <2>3, <4>2
        <5> QED
          BY <1>t, <5>1 DEF Lists
      <4> QED
        BY <4>1, <4>2
    <3> QED
      BY <3>1, <3>2
  <2>5. Listed(content') \subseteq ever' /\ ever \subseteq ever'
    BY <2>2
  <2>6. ListedIsAllowed'
    BY <1>t, <2>2, <2>4, <2>5 DEF Lists, ListedIsAllowed
  <2>7. reload' # None =>
          /\ reload' \in Reload /\ reload'.next \in Nat \ {0} /\ reload'.found \subseteq ever'
          /\ \A j \in DOMAIN Source : j < reload'.next => always'[j] \subseteq reload'.found
    BY <1>t, <2>2, <2>4, <2>5 DEF Lists
  <2> QED
    BY <1>t, <2>2, <2>3, <2>4, <2>5, <2>6, <2>7 DEF Lists
<1>2. CASE ReloadStart
  <2>1. /\ reload' = [next |-> 1, found |-> {}]
        /\ UNCHANGED <<content, allowed, always, ever>>
    BY <1>2 DEF ReloadStart
  <2>2. PICK new \in Reload : new = [next |-> 1, found |-> {}]
    BY DEF Reload
  <2>3. new.next = 1 /\ new.found = {}
    BY <2>2
  <2>4. \A j \in DOMAIN Source : ~ j < 1
    BY <1>d
  <2> QED
    BY <1>t, <2>1, <2>2, <2>3, <2>4 DEF Lists, ListedIsAllowed
<1>3. CASE ReadSource
  <2> DEFINE i == reload.next
  <2>1. /\ reload # None /\ reload \in Reload /\ i \in Nat \ {0} /\ reload.found \subseteq ever
        /\ \A j \in DOMAIN Source : j < i => always[j] \subseteq reload.found
        /\ reload.found \in SUBSET Satellite
    BY <1>3, <1>t DEF ReadSource, Lists, Reload
  <2>2. i \in DOMAIN Source /\ content[i] \in Contents
    BY <1>3, <1>d, <1>t, <2>1 DEF ReadSource
  <2>3. content[i].lists \in SUBSET Satellite /\ content[i].lists \subseteq ever
    <3>1. content[i].lists \subseteq Listed(content)
      BY <1>t, <2>2 DEF Listed
    <3> QED
      BY <1>s, <1>t, <2>2, <3>1 DEF Lists
  <2>4. PICK new \in Reload :
          new = [next |-> i + 1, found |-> reload.found \cup content[i].lists]
    <3>1. i + 1 \in Nat /\ reload.found \cup content[i].lists \in SUBSET Satellite
      BY <2>1, <2>3
    <3> HIDE DEF i
    <3> QED
      BY <3>1 DEF Reload
  <2>5. reload' = new /\ UNCHANGED <<content, allowed, always, ever>>
    BY <1>3, <2>4 DEF ReadSource
  <2>6. ASSUME NEW j \in DOMAIN Source, j < new.next
        PROVE  always[j] \subseteq new.found
    <3>1. j < i \/ j = i
      BY <1>d, <2>1, <2>4, <2>6
    <3>2. always[i] \subseteq content[i].lists
      BY <1>t, <2>2 DEF Lists
    <3> QED
      BY <2>1, <2>4, <3>1, <3>2
  <2>7. new.next \in Nat \ {0} /\ new.found \subseteq ever
    BY <2>1, <2>3, <2>4
  <2> HIDE DEF i
  <2> QED
    BY <1>t, <2>5, <2>6, <2>7 DEF Lists, ListedIsAllowed
<1>4. CASE ReadFails
  <2>1. reload' = None /\ UNCHANGED <<content, allowed, always, ever>>
    BY <1>4 DEF ReadFails
  <2> QED
    BY <1>t, <2>1 DEF Lists, ListedIsAllowed
<1>5. CASE SetAllowedSatellites
  <2>1. /\ reload # None /\ reload.next > Len(Source) /\ allowed' = reload.found
        /\ reload' = None /\ UNCHANGED <<content, always, ever>>
    BY <1>5 DEF SetAllowedSatellites
  <2>2. \A j \in DOMAIN Source : always[j] \subseteq reload.found
    BY <1>d, <1>t, <2>1 DEF Lists
  <2>3. reload.found \in SUBSET Satellite /\ reload.found \subseteq ever
    BY <1>t, <2>1 DEF Lists, Reload
  <2> QED
    BY <1>t, <2>1, <2>2, <2>3 DEF Lists, ListedIsAllowed
<1>6. CASE UNCHANGED listVars
  BY <1>6, <1>t, NoListMoves
<1>7. CASE ~ReloadStep
  <2>1. ASSUME NEW p \in ApiCall, CallStep(p)
        PROVE  UNCHANGED listVars
    BY <2>1 DEF CallStep, Receive, CheckSatellite, PutRecord, PutFails, HandOut,
                GetBucket, PutBucket, CheckBucket, InsertBucket
  <2>2. ASSUME Time \/ (\E r \in Request : LookUp(r)) \/ \E k \in AccessKey : Invalidate(k)
        PROVE  UNCHANGED listVars
    BY <2>2 DEF LookUp, Invalidate, Time
  <2>3. UNCHANGED vars => UNCHANGED listVars
    BY DEF vars
  <2>4. UNCHANGED listVars
    BY <1>7, <2>1, <2>2, <2>3 DEF Next
  <2> QED
    BY <1>6, <2>4
<1> QED
  BY <1>1, <1>2, <1>3, <1>4, <1>5, <1>7 DEF ReloadStep

-----------------------------------------------------------------------------
LEMMA ApiInitInv == Init => ApiInv
<1> SUFFICES ASSUME Init PROVE ApiInv
  OBVIOUS
<1>s. /\ Known = {} /\ Source \in Seq({"http", "file"}) /\ None \notin Reload
      /\ Contents \subseteq [lists: SUBSET Satellite, readable: BOOLEAN]
  BY ApiAssumption
<1>1. AuthInv
  BY AuthInitInv DEF Init
<1>2. NoCall \in CallState /\ NoCall.stage = "idle" /\ NoCall.available = FALSE
  BY DEF NoCall, CallState
<1>3. ApiTypes /\ Calls
  BY <1>2 DEF Init, ApiTypes, Calls, CallFits
<1>4. Records
  BY <1>s DEF Init, AuthInit, Records
<1>5. Refusals
  <2>1. \A r \in Request : lookup[r].stage = "idle"
    BY DEF Init, AuthInit, Idle
  <2> QED
    BY <2>1 DEF Init, AuthInit, Refusals
<1>6. Lists
  <2>1. /\ content \in [DOMAIN Source -> {c \in Contents : c.readable /\ c.lists \in active.first}]
        /\ reload = None /\ allowed = Listed(content) /\ ever = allowed
        /\ always = [i \in DOMAIN content |-> content[i].lists]
    BY DEF Init
  <2>2. Listed(content) \in SUBSET Satellite
    BY <1>s, <2>1 DEF Listed
  <2>3. ListedIsAllowed
    BY <2>1 DEF ListedIsAllowed, Listed
  <2> QED
    BY <2>1, <2>2, <2>3 DEF Lists
<1> QED
  BY <1>1, <1>3, <1>4, <1>5, <1>6 DEF ApiInv

LEMMA ApiStep == ApiInv /\ [Next]_vars => ApiInv'
<1> SUFFICES ASSUME ApiInv, [Next]_vars PROVE ApiInv'
  OBVIOUS
<1>1. AuthInv'
  BY ServiceStep, AuthStep DEF ApiInv
<1>2. Calls' /\ ApiTypes'
  <2>1. ASSUME NEW p \in ApiCall, CallStep(p)
        PROVE  Calls' /\ ApiTypes'
    BY <2>1, CallStepKeeps
  <2>2. CASE UNCHANGED <<callVars, active>>
    BY <2>2, NoCallMoves DEF ApiInv, ApiTypes, callVars
  <2>3. ASSUME NEW r \in Request, LookUp(r)
        PROVE  UNCHANGED <<callVars, active>>
    BY <2>3 DEF LookUp
  <2>4. ASSUME NEW k \in AccessKey, Invalidate(k)
        PROVE  Calls' /\ ApiTypes'
    <3>1. /\ record' = [record EXCEPT ![k].valid = FALSE] /\ record[k] # None
          /\ UNCHANGED <<call, names, handedOut, active>>
      BY <2>4 DEF Invalidate
    <3>2. [record[k] EXCEPT !.valid = FALSE] \in AccessRecord
      BY <3>1 DEF ApiInv, ApiTypes, AccessRecord
    <3>3. /\ record' \in [AccessKey -> AccessRecord \cup {None}]
          /\ \A c \in AccessKey : record[c] # None => record'[c] # None
      BY <3>1, <3>2, ApiAssumption DEF ApiInv, ApiTypes
    <3>4. Calls'
      BY <3>1, <3>3, NoCallMoves DEF ApiInv
    <3> QED
      BY <3>1, <3>3, <3>4 DEF ApiInv, ApiTypes
  <2>5. Time \/ ReloadStep \/ UNCHANGED vars => UNCHANGED <<callVars, active>>
    BY DEF Time, ReloadStep, Publish, ReloadStart, ReadSource, ReadFails,
           SetAllowedSatellites, vars
  <2> QED
    BY <2>1, <2>2, <2>3, <2>4, <2>5 DEF Next
<1> QED
  BY <1>1, <1>2, RecordsStay, RefusalsStay, ListsStay DEF ApiInv

\* The invariant holds of every behaviour.
THEOREM ApiIsKept == Spec => []ApiInv
BY ApiInitInv, ApiStep, PTL DEF Spec

\* Every variable of the service has its type.
THEOREM ApiTypesHold == Spec => []AuthApiTypeOK
<1>1. ApiInv => AuthApiTypeOK
  BY DEF ApiInv, AuthApiTypeOK, AuthInv, Types, ApiTypes, Lists, Records
<1> QED
  BY <1>1, ApiIsKept, PTL

\* What the service answers is what the auth client relies on: each of its steps is
\* one of those that AuthClient allows, or it stutters.
THEOREM ServiceImplementsClient == Spec => ClientIsServed
<1>1. Init => AuthInit
  BY DEF Init
<1>2. ApiInv /\ [Next]_vars => [AuthNext]_authVars
  BY ServiceStep
<1> QED
  BY <1>1, <1>2, ApiIsKept, PTL DEF Spec, ClientIsServed, AuthSpec

\* With the real service a lookup that begins more than Expiration after a key was
\* invalidated, or its caveats were over, does not get its grant either.
THEOREM RevokedIsRefusedByApi == Spec => []RevokedIsRefused
BY ServiceImplementsClient, RevokedKeysAreRefused, PTL DEF ClientIsServed

\* With the real service, too, everyone who waits for an answer waits for a request
\* that is still at it.
THEOREM WaitersAreNotLeftByApi == Spec => []NobodyWaitsInVain
BY ServiceImplementsClient, WaitersAreNotLeft, PTL DEF ClientIsServed

\* A key works as soon as it is handed out.
THEOREM KeysWork == Spec => []HandedOutIsServed
<1>1. ApiInv => HandedOutIsServed
  <2> SUFFICES ASSUME ApiInv, NEW r \in Request, At(r, "done"),
                      lookup[r].got \in {"refused", "missing"}
               PROVE  RefusalIsDue(r)
    BY DEF HandedOutIsServed, RefusalIsDue
  <2> QED
    BY DEF ApiInv, Refusals, At
<1> QED
  BY <1>1, ApiIsKept, PTL

\* Whatever reloads fail and however the sources change meanwhile: what one of them
\* has listed throughout is allowed, and what none ever has is not.
THEOREM ListsAreRight == Spec => []ListedIsAllowed
<1>1. ApiInv => ListedIsAllowed
  BY DEF ApiInv, Lists
<1> QED
  BY <1>1, ApiIsKept, PTL

\* Calls that are told that a bucket name is available have claimed it within the
\* same second: the record of the name is theirs, and it never changes.
THEOREM NamesAreGivenWithinASecond == Spec => []NameGivenWithinASecond
<1>1. ApiInv => NameGivenWithinASecond
  BY DEF ApiInv, Calls, CallFits, NameGivenWithinASecond
<1> QED
  BY <1>1, ApiIsKept, PTL
=============================================================================
