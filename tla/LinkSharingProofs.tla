------------------------- MODULE LinkSharingProofs -------------------------
(***************************************************************************)
(* The cache of TXT records, for any number of requests and hosts: a       *)
(* host's updates do not overlap, no update undoes a later one and none    *)
(* removes another's record.  The last two rest on the first: who asks the *)
(* DNS server holds the host's lock until it has stored what it got.       *)
(*                                                                         *)
(* Every behaviour of the link sharing service is one of this cache: pages *)
(* and certificates ask it, whatever becomes of them then, and the         *)
(* goroutines that they leave behind finish what they began.  So what is   *)
(* proved of the cache holds in the service.                               *)
(*                                                                         *)
(* Of the requests themselves: each stage on the way says which calls have *)
(* been made in vain, so that the key, its index.html or what is under it  *)
(* cannot have been there all the time (IsSound); and whoever uses the     *)
(* cache gets from it no record that an update has flushed that was over   *)
(* when the request came (HasFlushed).                                     *)
(***************************************************************************)
EXTENDS LinkSharing, FiniteSetTheorems, TLAPS

\* The stages in which a fetch is counted under its host's name, and those who are.
Counted == {"wait", "release"} \cup Locked
Users(h) == {f \in Fetch : fetch[f].host = h /\ fetch[f].stage \in Counted}

MutexInv ==
  /\ TxtTypeOK
  /\ \A f \in Fetch : fetch[f].stage # "idle" => fetch[f].host \in Host
  /\ \A f \in Fetch : fetch[f].stage \in Counted =>
       fetch[f].mutex \in Mutex /\ names[fetch[f].host] = fetch[f].mutex
  /\ \A h \in Host : waiters[h] = Cardinality(Users(h))
  /\ \A f \in Fetch : fetch[f].stage \in Locked => owner[fetch[f].mutex] = f

\* An answer is not older than what it is to replace, and not newer than the DNS.
AnswerIsNewer(f) ==
  LET h == fetch[f].host
  IN  /\ fetch[f].answer \in DnsAnswer
      /\ fetch[f].answer.version <= dns[h].version
      /\ cache[h] # None => cache[h].version <= fetch[f].answer.version

CacheInv ==
  /\ \A h \in Host : cache[h] # None => cache[h].version <= dns[h].version
  /\ \A f \in Fetch :
       fetch[f].stage \in {"query", "resolve"} /\ cache[fetch[f].host] # None =>
         fetch[f].expect = cache[fetch[f].host].expires
  /\ \A f \in Fetch : fetch[f].stage = "resolve" => AnswerIsNewer(f)

TxtInv == MutexInv /\ CacheInv

\* The users of a host are finitely many.
LEMMA UsersFinite ==
  \A h : IsFiniteSet(Users(h)) /\ Cardinality(Users(h)) \in Nat
BY TxtAssumption, FS_Subset, FS_CardinalityType, \A h : Users(h) \in SUBSET Fetch DEF Users

-----------------------------------------------------------------------------
\* Who holds a host's lock holds it alone.
LEMMA LockedAlone == MutexInv => AtMostOneUpdates
BY DEF MutexInv, AtMostOneUpdates, Counted

LEMMA TxtInitInv == TxtInit => TxtInv
<1> SUFFICES ASSUME TxtInit PROVE TxtInv
  OBVIOUS
<1>1. NoFetch \in FetchState /\ NoFetch.stage = "idle"
  BY DEF NoFetch, FetchState, Zero
<1>2. \A f \in Fetch : fetch[f] = NoFetch
  BY DEF TxtInit
<1>3. TxtTypeOK
  <2>1. dns \in [Host -> DnsAnswer]
    BY DEF TxtInit, DnsAnswer
  <2> QED
    BY <1>1, <2>1 DEF TxtInit, TxtTypeOK
<1>4. \A h \in Host : Users(h) = {}
  BY <1>1, <1>2 DEF Users, Counted, Locked
<1>5. MutexInv
  BY <1>1, <1>2, <1>3, <1>4, FS_EmptySet DEF MutexInv, TxtInit, Counted, Locked
<1>6. CacheInv
  BY <1>1, <1>2 DEF CacheInv, TxtInit
<1> QED
  BY <1>5, <1>6 DEF TxtInv

-----------------------------------------------------------------------------
(* The mutexes.                                                            *)

\* Steps of one fetch that leave the mutexes alone: it stays counted or uncounted,
\* and does not come to hold a lock.
LEMMA StaysWhere ==
  ASSUME MutexInv, TxtTypeOK', NEW f \in Fetch,
         \A g \in Fetch \ {f} : fetch'[g] = fetch[g],
         fetch'[f].stage # "idle" => fetch'[f].host \in Host,
         fetch'[f].stage \in Counted <=> fetch[f].stage \in Counted,
         fetch'[f].stage \in Locked => fetch[f].stage \in Locked,
         fetch[f].stage \in Counted =>
           fetch'[f].host = fetch[f].host /\ fetch'[f].mutex = fetch[f].mutex,
         UNCHANGED <<names, waiters, owner>>
  PROVE  MutexInv'
<1>1. \A h \in Host : Users(h)' = Users(h)
  BY DEF Users
<1>2. \A g \in Fetch : fetch'[g].stage # "idle" => fetch'[g].host \in Host
  BY DEF MutexInv
<1>3. \A g \in Fetch : fetch'[g].stage \in Counted =>
        fetch'[g].mutex \in Mutex /\ names'[fetch'[g].host] = fetch'[g].mutex
  BY DEF MutexInv
<1>4. \A h \in Host : waiters'[h] = Cardinality(Users(h)')
  BY <1>1 DEF MutexInv
<1>5. \A g \in Fetch : fetch'[g].stage \in Locked => owner'[fetch'[g].mutex] = g
  BY DEF MutexInv, Counted
<1> QED
  BY <1>2, <1>3, <1>4, <1>5 DEF MutexInv

\* A fetch comes to be counted.
LEMMA LockNameKeeps ==
  ASSUME MutexInv, NEW f \in Fetch, LockName(f)
  PROVE  MutexInv'
<1>t. /\ fetch \in [Fetch -> FetchState] /\ names \in [Host -> Mutex \cup {None}]
      /\ waiters \in [Host -> Nat]
  BY DEF MutexInv, TxtTypeOK
<1>h. PICK h \in Host : h = fetch[f].host /\ fetch[f].stage = "begin"
  BY DEF LockName, Updating, MutexInv
<1>m. PICK m \in Mutex :
        /\ names[h] = None \/ names[h] = m
        /\ names' = [names EXCEPT ![h] = m]
        /\ fetch' = [fetch EXCEPT ![f].stage = "wait", ![f].mutex = m]
  BY <1>h, <1>t, TxtAssumption DEF LockName, Unused
<1>f. /\ fetch'[f] \in FetchState /\ fetch'[f].stage = "wait" /\ fetch'[f].mutex = m
      /\ fetch'[f].host = h
      /\ \A g \in Fetch \ {f} : fetch'[g] = fetch[g]
  <2>1. fetch[f] \in FetchState
    BY <1>t
  <2>2. fetch'[f] = [fetch[f] EXCEPT !.stage = "wait", !.mutex = m]
        /\ \A g \in Fetch \ {f} : fetch'[g] = fetch[g]
    BY <1>t, <1>m
  <2> QED
    BY <1>h, <2>1, <2>2 DEF FetchState
<1>w. waiters' = [waiters EXCEPT ![h] = @ + 1] /\ owner' = owner
  BY <1>h DEF LockName
<1>1. TxtTypeOK'
  <2>1. fetch' \in [Fetch -> FetchState]
    BY <1>t, <1>m, <1>f
  <2> QED
    BY <2>1, <1>t, <1>m, <1>w DEF LockName, MutexInv, TxtTypeOK
<1>2. \A g \in Fetch : fetch'[g].stage # "idle" => fetch'[g].host \in Host
  BY <1>f DEF MutexInv
<1>3. ASSUME NEW g \in Fetch, fetch'[g].stage \in Counted
      PROVE  fetch'[g].mutex \in Mutex /\ names'[fetch'[g].host] = fetch'[g].mutex
  <2>1. CASE g = f
    BY <1>t, <1>m, <1>f, <2>1
  <2>2. CASE g # f
    <3>1. /\ fetch[g].mutex \in Mutex /\ names[fetch[g].host] = fetch[g].mutex
          /\ fetch[g].host \in Host
      BY <1>3, <1>f, <2>2 DEF MutexInv, Counted, Locked
    <3>2. fetch[g].host = h => fetch[g].mutex = m
      BY <1>m, <3>1, TxtAssumption
    <3> QED
      BY <1>t, <1>m, <1>f, <2>2, <3>1, <3>2
  <2> QED
    BY <2>1, <2>2
<1>4. ASSUME NEW j \in Host
      PROVE  waiters'[j] = Cardinality(Users(j)')
  <2>1. CASE j = h
    <3>1. Users(h)' = Users(h) \cup {f} /\ f \notin Users(h)
      BY <1>f, <1>h DEF Users, Counted, Locked
    <3>2. Cardinality(Users(h) \cup {f}) = Cardinality(Users(h)) + 1
      BY <3>1, UsersFinite, FS_AddElement
    <3> QED
      BY <1>t, <1>w, <2>1, <3>1, <3>2 DEF MutexInv
  <2>2. CASE j # h
    <3>1. Users(j)' = Users(j)
      BY <1>f, <1>h, <2>2 DEF Users
    <3> QED
      BY <1>t, <1>w, <2>2, <3>1 DEF MutexInv
  <2> QED
    BY <2>1, <2>2
<1>5. \A g \in Fetch : fetch'[g].stage \in Locked => owner'[fetch'[g].mutex] = g
  BY <1>f, <1>w DEF MutexInv, Locked
<1> QED
  BY <1>1, <1>2, <1>3, <1>4, <1>5 DEF MutexInv

\* A fetch takes a mutex that nobody has, or gives its own back.
LEMMA OwnerKeeps ==
  ASSUME MutexInv, NEW f \in Fetch, Acquire(f) \/ Unlock(f)
  PROVE  MutexInv'
<1>t. fetch \in [Fetch -> FetchState] /\ owner \in [Mutex -> Fetch \cup {None}]
  BY DEF MutexInv, TxtTypeOK
<1>m. PICK m \in Mutex : m = fetch[f].mutex
  BY DEF Acquire, Unlock, Updating, MutexInv, Counted, Locked
<1>s. PICK s \in {"check", "release"} :
        /\ fetch' = [fetch EXCEPT ![f].stage = s]
        /\ s = "check" => fetch[f].stage = "wait" /\ owner[m] = None
                          /\ owner' = [owner EXCEPT ![m] = f]
        /\ s = "release" => fetch[f].stage = "unlock" /\ owner' = [owner EXCEPT ![m] = None]
  BY <1>m DEF Acquire, Unlock, Updating
<1>f. /\ fetch'[f] \in FetchState /\ fetch'[f].stage = s
      /\ fetch'[f].host = fetch[f].host /\ fetch'[f].mutex = m
      /\ \A g \in Fetch \ {f} : fetch'[g] = fetch[g]
  BY <1>t, <1>m, <1>s DEF FetchState, Locked
<1>1. TxtTypeOK'
  <2>1. fetch' \in [Fetch -> FetchState]
    BY <1>t, <1>s, <1>f
  <2> QED
    BY <2>1, <1>t, <1>s DEF Acquire, Unlock, MutexInv, TxtTypeOK
<1>2. \A g \in Fetch : fetch'[g].stage # "idle" => fetch'[g].host \in Host
  BY <1>f, <1>s DEF MutexInv
<1>u. UNCHANGED <<names, waiters>> /\ fetch[f].stage \in Counted
  BY <1>s DEF Acquire, Unlock, Counted, Locked
<1>3. \A g \in Fetch : fetch'[g].stage \in Counted =>
        fetch'[g].mutex \in Mutex /\ names'[fetch'[g].host] = fetch'[g].mutex
  BY <1>f, <1>m, <1>u DEF MutexInv
<1>4. \A h \in Host : waiters'[h] = Cardinality(Users(h)')
  <2>1. \A h \in Host : Users(h)' = Users(h)
    BY <1>f, <1>s, <1>u DEF Users, Counted, Locked
  <2> QED
    BY <2>1, <1>u DEF MutexInv
<1>5. ASSUME NEW g \in Fetch, fetch'[g].stage \in Locked
      PROVE  owner'[fetch'[g].mutex] = g
  <2>1. CASE g = f
    BY <1>5, <1>f, <1>s, <1>t, <2>1 DEF Locked
  <2>2. CASE g # f
    <3>1. fetch[g].mutex \in Mutex /\ owner[fetch[g].mutex] = g
      BY <1>5, <1>f, <2>2 DEF MutexInv, Counted
    <3>2. owner[m] = None \/ owner[m] = f
      BY <1>m, <1>s DEF MutexInv, Locked
    <3>3. fetch[g].mutex # m
      BY <2>2, <3>1, <3>2, TxtAssumption
    <3> QED
      BY <1>f, <1>s, <1>t, <2>2, <3>1, <3>3
  <2> QED
    BY <2>1, <2>2
<1> QED
  BY <1>1, <1>2, <1>3, <1>4, <1>5 DEF MutexInv

\* A fetch is no longer counted; the name goes if it was the only one.
LEMMA ReleaseKeeps ==
  ASSUME MutexInv, NEW f \in Fetch, Release(f)
  PROVE  MutexInv'
<1>t. /\ fetch \in [Fetch -> FetchState] /\ names \in [Host -> Mutex \cup {None}]
      /\ waiters \in [Host -> Nat] /\ got \in [Fetch -> Record \cup {Failed, None}]
  BY DEF MutexInv, TxtTypeOK
<1>h. PICK h \in Host : h = fetch[f].host /\ fetch[f].stage = "release"
  BY DEF Release, Updating, MutexInv
<1>f. /\ fetch' = [fetch EXCEPT ![f] = NoFetch] /\ fetch'[f] = NoFetch
      /\ \A g \in Fetch \ {f} : fetch'[g] = fetch[g]
  BY <1>t DEF Release, Return
<1>w. /\ waiters' = [waiters EXCEPT ![h] = @ - 1] /\ owner' = owner
      /\ names' = IF waiters[h] = 1 THEN [names EXCEPT ![h] = None] ELSE names
  BY <1>h DEF Release
<1>n. NoFetch \in FetchState /\ NoFetch.stage = "idle"
  BY DEF NoFetch, FetchState, Zero
<1>c. /\ f \in Users(h) /\ Users(h)' = Users(h) \ {f}
      /\ Cardinality(Users(h) \ {f}) = Cardinality(Users(h)) - 1
      /\ waiters[h] = Cardinality(Users(h)) /\ waiters[h] \in Nat
  <2>1. f \in Users(h) /\ Users(h)' = Users(h) \ {f}
    BY <1>f, <1>h, <1>n DEF Users, Counted, Locked
  <2> QED
    BY <1>t, <2>1, UsersFinite, FS_RemoveElement DEF MutexInv
<1>d. waiters[h] \in Nat \ {0}
  BY <1>c, UsersFinite, FS_EmptySet
<1>1. TxtTypeOK'
  <2>1. fetch' \in [Fetch -> FetchState] /\ names' \in [Host -> Mutex \cup {None}]
    BY <1>t, <1>f, <1>n, <1>w
  <2>2. waiters' \in [Host -> Nat]
    BY <1>t, <1>w, <1>d
  <2>3. got' \in [Fetch -> Record \cup {Failed, None}]
    BY <1>t DEF Release, Return, FetchState
  <2> QED
    BY <2>1, <2>2, <2>3, <1>w DEF Release, MutexInv, TxtTypeOK
<1>2. \A g \in Fetch : fetch'[g].stage # "idle" => fetch'[g].host \in Host
  BY <1>f, <1>n DEF MutexInv
<1>3. ASSUME NEW g \in Fetch, fetch'[g].stage \in Counted
      PROVE  fetch'[g].mutex \in Mutex /\ names'[fetch'[g].host] = fetch'[g].mutex
  <2>1. g # f /\ fetch'[g] = fetch[g]
    BY <1>3, <1>f, <1>n DEF Counted, Locked
  <2>2. /\ fetch[g].mutex \in Mutex /\ names[fetch[g].host] = fetch[g].mutex
        /\ fetch[g].host \in Host
    BY <1>3, <2>1 DEF MutexInv, Counted, Locked
  <2>3. ASSUME fetch[g].host = h, waiters[h] = 1
        PROVE  FALSE
    <3>1. Cardinality(Users(h) \ {f}) = 0
      BY <1>c, <2>3
    <3>2. Users(h) \ {f} = {}
      BY <3>1, UsersFinite, FS_Subset, FS_EmptySet
    <3>3. g \in Users(h)
      BY <1>3, <2>1, <2>3 DEF Users
    <3> QED
      BY <2>1, <3>2, <3>3
  <2> QED
    BY <1>t, <1>w, <2>1, <2>2, <2>3
<1>4. ASSUME NEW j \in Host
      PROVE  waiters'[j] = Cardinality(Users(j)')
  <2>1. CASE j = h
    BY <1>t, <1>c, <1>w, <2>1
  <2>2. CASE j # h
    <3>1. Users(j)' = Users(j)
      BY <1>f, <1>h, <1>n, <2>2 DEF Users, Counted, Locked
    <3> QED
      BY <1>t, <1>w, <2>2, <3>1 DEF MutexInv
  <2> QED
    BY <2>1, <2>2
<1>5. \A g \in Fetch : fetch'[g].stage \in Locked => owner'[fetch'[g].mutex] = g
  BY <1>f, <1>n, <1>w DEF MutexInv, Locked
<1> QED
  BY <1>1, <1>2, <1>3, <1>4, <1>5 DEF MutexInv

-----------------------------------------------------------------------------
(* The updates.                                                            *)

\* What a fetch that begins or goes on becomes: it keeps its host and its mutex,
\* and changes the cache only for its host and before it unlocks.
UpdateOf(f) ==
  /\ fetch' \in [Fetch -> FetchState]
  /\ \A g \in Fetch \ {f} : fetch'[g] = fetch[g]
  /\ fetch'[f].host = fetch[f].host /\ fetch'[f].mutex = fetch[f].mutex
  /\ fetch'[f].expect = fetch[f].expect
  /\ UNCHANGED <<now, dns, names, waiters, owner, got, gone>>
  /\ fetch[f].host \in Host
  /\ faults' \in Nat

\* Who has the lock looks at the record that it may replace.
LEMMA CheckShape ==
  ASSUME TxtInv, NEW f \in Fetch, Check(f)
  PROVE  /\ UpdateOf(f) /\ cache' = cache
         /\ fetch[f].stage = "check" /\ fetch'[f].stage \in {"query", "unlock"}
         /\ fetch'[f].stage = "query" /\ cache[fetch[f].host] # None =>
              fetch[f].expect = cache[fetch[f].host].expires
<1>t. /\ fetch \in [Fetch -> FetchState] /\ cache \in [Host -> Record \cup {None}]
      /\ faults \in Nat
  BY DEF TxtInv, MutexInv, TxtTypeOK
<1>h. PICK h \in Host : h = fetch[f].host /\ fetch[f].stage = "check"
  BY DEF Check, Updating, TxtInv, MutexInv
<1>u. UNCHANGED <<now, dns, cache, names, waiters, owner, got, gone, faults>>
  BY DEF Check
<1>1. CASE cache[h] # None /\ (fetch[f].expect = Zero \/ cache[h].expires # fetch[f].expect)
  <2>1. fetch' = [fetch EXCEPT ![f].stage = "unlock", ![f].result = cache[h]]
    BY <1>1, <1>h DEF Check, Finish
  <2>2. cache[h] \in Record
    BY <1>1, <1>t
  <2>3. [fetch[f] EXCEPT !.stage = "unlock", !.result = cache[h]] \in FetchState
    <3> DEFINE g == fetch[f]
               v == cache[h]
    <3>1. g \in FetchState /\ v \in Record
      BY <1>t, <2>2
    <3> HIDE DEF g, v
    <3>2. [g EXCEPT !.stage = "unlock", !.result = v] \in FetchState
      BY <3>1 DEF FetchState, Locked
    <3> QED
      BY <3>2 DEF g, v
  <2>4. fetch'[f] = [fetch[f] EXCEPT !.stage = "unlock", !.result = cache[h]]
    BY <1>t, <2>1
  <2> QED
    BY <1>t, <1>h, <1>u, <2>1, <2>3, <2>4 DEF UpdateOf, FetchState
<1>2. CASE ~(cache[h] # None /\ (fetch[f].expect = Zero \/ cache[h].expires # fetch[f].expect))
  <2>1. fetch' = [fetch EXCEPT ![f].stage = "query"]
    BY <1>2, <1>h DEF Check
  <2>2. [fetch[f] EXCEPT !.stage = "query"] \in FetchState
    BY <1>t DEF FetchState, Locked
  <2>3. fetch'[f] = [fetch[f] EXCEPT !.stage = "query"]
    BY <1>t, <2>1
  <2> QED
    BY <1>2, <1>t, <1>h, <1>u, <2>1, <2>2, <2>3 DEF UpdateOf, FetchState
<1> QED
  BY <1>1, <1>2

\* An update that fails takes the record of its host away.
LEMMA UpdateFailsShape ==
  ASSUME TxtInv, NEW f \in Fetch, fetch[f].stage \in {"query", "resolve"},
         UpdateFails(f), UNCHANGED <<now, dns, names, waiters, owner, got, gone>>,
         faults' \in Nat
  PROVE  /\ UpdateOf(f) /\ fetch'[f].stage = "unlock"
         /\ cache' = [cache EXCEPT ![fetch[f].host] = None]
<1>t. fetch \in [Fetch -> FetchState] /\ fetch[f].host \in Host
  BY DEF TxtInv, MutexInv, TxtTypeOK
<1>1. fetch' = [fetch EXCEPT ![f].stage = "unlock", ![f].result = Failed]
  BY DEF UpdateFails, Finish
<1>2. [fetch[f] EXCEPT !.stage = "unlock", !.result = Failed] \in FetchState
  BY <1>t DEF FetchState, Locked
<1>3. fetch'[f] = [fetch[f] EXCEPT !.stage = "unlock", !.result = Failed]
  BY <1>t, <1>1
<1> QED
  BY <1>t, <1>1, <1>2, <1>3 DEF UpdateOf, UpdateFails, FetchState

\* The DNS server answers with what it has now, or the update fails.
LEMMA QueryShape ==
  ASSUME TxtInv, NEW f \in Fetch, QueryDNS(f)
  PROVE  /\ UpdateOf(f) /\ fetch[f].stage = "query"
         /\ \/ /\ cache' = cache /\ fetch'[f].stage = "resolve"
               /\ fetch'[f].answer = dns[fetch[f].host]
            \/ /\ cache' = [cache EXCEPT ![fetch[f].host] = None]
               /\ fetch'[f].stage = "unlock"
<1>t. /\ fetch \in [Fetch -> FetchState] /\ dns \in [Host -> DnsAnswer] /\ faults \in Nat
      /\ fetch[f].stage = "query" /\ fetch[f].host \in Host
      /\ UNCHANGED <<now, dns, names, waiters, owner, got, gone>>
  BY DEF QueryDNS, Updating, TxtInv, MutexInv, TxtTypeOK
<1>1. CASE fetch' = [fetch EXCEPT ![f].stage = "resolve", ![f].answer = dns[fetch[f].host]]
           /\ UNCHANGED <<cache, faults>>
  <2>1. [fetch[f] EXCEPT !.stage = "resolve", !.answer = dns[fetch[f].host]] \in FetchState
    BY <1>t DEF FetchState, Locked
  <2>2. fetch'[f] = [fetch[f] EXCEPT !.stage = "resolve", !.answer = dns[fetch[f].host]]
    BY <1>t, <1>1
  <2> QED
    BY <1>t, <1>1, <2>1, <2>2 DEF UpdateOf, FetchState
<1>2. CASE UpdateFails(f) /\ faults' \in Nat
  BY <1>2, <1>t, UpdateFailsShape
<1> QED
  BY <1>1, <1>2, <1>t DEF QueryDNS, May

\* The answer becomes the record of the host, or the update fails.
LEMMA StoreShape ==
  ASSUME TxtInv, NEW f \in Fetch, ParseAndStore(f)
  PROVE  /\ UpdateOf(f) /\ fetch[f].stage = "resolve" /\ fetch'[f].stage = "unlock"
         /\ \/ cache' = [cache EXCEPT ![fetch[f].host] = None]
            \/ \E record \in Record :
                 /\ cache' = [cache EXCEPT ![fetch[f].host] = record]
                 /\ record.version = fetch[f].answer.version
<1>t. /\ fetch \in [Fetch -> FetchState] /\ faults \in Nat /\ now \in Nat
      /\ fetch[f].stage = "resolve" /\ fetch[f].host \in Host
      /\ fetch[f].answer \in DnsAnswer
      /\ UNCHANGED <<now, dns, names, waiters, owner, got, gone>>
  BY DEF ParseAndStore, Updating, TxtInv, MutexInv, TxtTypeOK, CacheInv, AnswerIsNewer
<1>1. ASSUME NEW record \in Record, Finish(f, record),
             cache' = [cache EXCEPT ![fetch[f].host] = record],
             record.version = fetch[f].answer.version, faults' = faults
      PROVE  /\ UpdateOf(f) /\ fetch'[f].stage = "unlock"
  <2>1. [fetch[f] EXCEPT !.stage = "unlock", !.result = record] \in FetchState
    BY <1>t DEF FetchState, Locked
  <2>2. fetch'[f] = [fetch[f] EXCEPT !.stage = "unlock", !.result = record]
    BY <1>t, <1>1 DEF Finish
  <2> QED
    BY <1>t, <1>1, <2>1, <2>2 DEF UpdateOf, FetchState, Finish
<1>2. CASE UpdateFails(f) /\ faults' \in Nat
  BY <1>2, <1>t, UpdateFailsShape
<1>3. CASE ~(UpdateFails(f) /\ faults' \in Nat)
  <2> DEFINE record ==
        [version |-> fetch[f].answer.version, access |-> fetch[f].answer.text.access,
         root |-> fetch[f].answer.text.root, tls |-> fetch[f].answer.text.tls,
         expires |-> now + Smaller(fetch[f].answer.text.ttl, MaxTTL)]
  <2>1. /\ fetch[f].answer.text.access # "invalid"
        /\ cache' = [cache EXCEPT ![fetch[f].host] = record]
        /\ Finish(f, record) /\ faults' = faults
    BY <1>3, <1>t DEF ParseAndStore, May
  <2>2. PICK text \in Text : text = fetch[f].answer.text
    BY <1>t DEF DnsAnswer
  <2>3. text.access \in {"grant", "key"} /\ text.tls \in BOOLEAN /\ text.ttl \in Nat
    BY <2>1, <2>2, TxtAssumption
  <2>4. now + Smaller(text.ttl, MaxTTL) \in Nat
    BY <1>t, <2>3, TxtAssumption DEF Smaller
  <2>5. record \in Record
    BY <1>t, <2>2, <2>3, <2>4 DEF Record, DnsAnswer
  <2> QED
    BY <1>1, <1>t, <2>1, <2>5
<1> QED
  BY <1>2, <1>3

\* An update by one that has the lock keeps the mutexes as they are.
LEMMA UpdateKeepsMutexes ==
  ASSUME TxtInv, NEW f \in Fetch, UpdateOf(f),
         fetch[f].stage \in Locked, fetch'[f].stage \in Locked,
         cache' \in [Host -> Record \cup {None}]
  PROVE  MutexInv'
<1>1. TxtTypeOK'
  BY DEF UpdateOf, TxtInv, MutexInv, TxtTypeOK
<1> QED
  BY <1>1, StaysWhere DEF UpdateOf, TxtInv, Counted

\* It keeps the cache in order: what it does to its host's record concerns no other
\* fetch, since it is alone.
LEMMA UpdateKeepsCache ==
  ASSUME TxtInv, NEW f \in Fetch, UpdateOf(f), fetch[f].stage \in Locked,
         fetch'[f].stage = "unlock",
         \/ cache' = [cache EXCEPT ![fetch[f].host] = None]
         \/ \E record \in Record :
              /\ cache' = [cache EXCEPT ![fetch[f].host] = record]
              /\ record.version <= dns[fetch[f].host].version
  PROVE  CacheInv'
<1>t. cache \in [Host -> Record \cup {None}] /\ fetch[f].host \in Host
  BY DEF TxtInv, MutexInv, TxtTypeOK, UpdateOf
<1>o. \A h \in Host \ {fetch[f].host} : cache'[h] = cache[h]
  BY <1>t
<1>1. \A h \in Host : cache'[h] # None => cache'[h].version <= dns'[h].version
  BY <1>t, <1>o DEF TxtInv, CacheInv, UpdateOf
<1>2. ASSUME NEW g \in Fetch, fetch'[g].stage \in {"query", "resolve"}
      PROVE  /\ g # f /\ fetch'[g] = fetch[g]
             /\ fetch[g].host \in Host \ {fetch[f].host}
  <2>1. g # f /\ fetch'[g] = fetch[g]
    BY <1>2 DEF UpdateOf
  <2>2. fetch[g].host \in Host
    BY <1>2, <2>1 DEF TxtInv, MutexInv
  <2>3. fetch[g].host # fetch[f].host
    BY <1>2, <2>1, LockedAlone DEF TxtInv, AtMostOneUpdates, Locked
  <2> QED
    BY <2>1, <2>2, <2>3
<1>3. \A g \in Fetch :
        fetch'[g].stage \in {"query", "resolve"} /\ cache'[fetch'[g].host] # None =>
          fetch'[g].expect = cache'[fetch'[g].host].expires
  BY <1>2, <1>o DEF TxtInv, CacheInv
<1>4. \A g \in Fetch : fetch'[g].stage = "resolve" => AnswerIsNewer(g)'
  BY <1>2, <1>o DEF TxtInv, CacheInv, AnswerIsNewer, UpdateOf
<1> QED
  BY <1>1, <1>3, <1>4 DEF CacheInv

\* A fetch that leaves the cache alone: it may query once it has checked.
LEMMA CacheIsLeft ==
  ASSUME TxtInv, NEW f \in Fetch,
         \A g \in Fetch \ {f} : fetch'[g] = fetch[g],
         fetch'[f].stage \in {"query", "resolve"} =>
           /\ fetch'[f].host \in Host
           /\ cache[fetch'[f].host] # None =>
                fetch'[f].expect = cache[fetch'[f].host].expires,
         fetch'[f].stage = "resolve" => fetch'[f].answer = dns[fetch'[f].host],
         UNCHANGED <<cache, dns>>
  PROVE  CacheInv'
<1>t. dns \in [Host -> DnsAnswer] /\ cache \in [Host -> Record \cup {None}]
  BY DEF TxtInv, MutexInv, TxtTypeOK
<1>1. \A h \in Host : cache'[h] # None => cache'[h].version <= dns'[h].version
  BY DEF TxtInv, CacheInv
<1>2. \A g \in Fetch :
        fetch'[g].stage \in {"query", "resolve"} /\ cache'[fetch'[g].host] # None =>
          fetch'[g].expect = cache'[fetch'[g].host].expires
  BY DEF TxtInv, CacheInv
<1>3. ASSUME NEW g \in Fetch, fetch'[g].stage = "resolve"
      PROVE  AnswerIsNewer(g)'
  <2>1. CASE g = f
    <3>1. fetch'[f].host \in Host /\ fetch'[f].answer = dns[fetch'[f].host]
      BY <1>3, <2>1
    <3>2. dns[fetch'[f].host] \in DnsAnswer /\ dns[fetch'[f].host].version \in Nat
      BY <1>t, <3>1 DEF DnsAnswer
    <3> QED
      BY <1>1, <2>1, <3>1, <3>2 DEF AnswerIsNewer
  <2>2. CASE g # f
    BY <1>3, <2>2 DEF TxtInv, CacheInv, AnswerIsNewer
  <2> QED
    BY <2>1, <2>2
<1> QED
  BY <1>1, <1>2, <1>3 DEF CacheInv

\* Every step of an update that has the lock keeps the invariant.
LEMMA LockedStep ==
  ASSUME TxtInv, NEW f \in Fetch, Check(f) \/ QueryDNS(f) \/ ParseAndStore(f)
  PROVE  TxtInv'
<1>t. cache \in [Host -> Record \cup {None}] /\ dns \in [Host -> DnsAnswer]
  BY DEF TxtInv, MutexInv, TxtTypeOK
<1>1. CASE Check(f)
  <2>1. MutexInv'
    BY <1>1, <1>t, CheckShape, UpdateKeepsMutexes DEF Locked
  <2>2. CacheInv'
    BY <1>1, CheckShape, CacheIsLeft DEF UpdateOf
  <2> QED
    BY <2>1, <2>2 DEF TxtInv
<1>2. CASE QueryDNS(f)
  <2>1. MutexInv'
    BY <1>2, <1>t, QueryShape, UpdateKeepsMutexes DEF Locked, UpdateOf
  <2>2. CASE cache' = cache /\ fetch'[f].stage = "resolve"
             /\ fetch'[f].answer = dns[fetch[f].host]
    <3>1. cache[fetch[f].host] # None => fetch[f].expect = cache[fetch[f].host].expires
      BY <1>2, QueryShape DEF TxtInv, CacheInv
    <3> QED
      BY <1>2, <2>1, <2>2, <3>1, QueryShape, CacheIsLeft DEF UpdateOf, TxtInv
  <2>3. CASE cache' = [cache EXCEPT ![fetch[f].host] = None] /\ fetch'[f].stage = "unlock"
    BY <1>2, <2>1, <2>3, QueryShape, UpdateKeepsCache DEF Locked, TxtInv
  <2> QED
    BY <1>2, <2>2, <2>3, QueryShape
<1>3. CASE ParseAndStore(f)
  <2>1. MutexInv'
    BY <1>3, <1>t, StoreShape, UpdateKeepsMutexes DEF Locked, UpdateOf
  <2>2. fetch[f].answer.version <= dns[fetch[f].host].version
    BY <1>3, StoreShape DEF TxtInv, CacheInv, AnswerIsNewer
  <2>3. CacheInv'
    BY <1>3, <2>2, StoreShape, UpdateKeepsCache DEF Locked
  <2> QED
    BY <2>1, <2>3 DEF TxtInv
<1> QED
  BY <1>1, <1>2, <1>3

\* A fetch begins: it has its record, or an update that is not counted yet.
LEMMA BeginKeeps ==
  ASSUME TxtInv, NEW f \in Fetch, NEW h \in Host, NEW allow \in BOOLEAN,
         FetchAccessForHost(f, h, allow)
  PROVE  TxtInv'
<1>t. /\ fetch \in [Fetch -> FetchState] /\ cache \in [Host -> Record \cup {None}]
      /\ got \in [Fetch -> Record \cup {Failed, None}]
      /\ fetch[f].stage = "idle"
      /\ UNCHANGED <<now, dns, cache, names, waiters, owner, gone, faults>>
  BY DEF FetchAccessForHost, Updating, TxtInv, MutexInv, TxtTypeOK
<1>1. got' \in [Fetch -> Record \cup {Failed, None}]
  BY <1>t DEF FetchAccessForHost
<1>2. fetch' = fetch
      \/ \E background \in BOOLEAN, expect \in Nat \cup {Zero} :
           fetch' = [fetch EXCEPT ![f] = [NoFetch EXCEPT !.stage = "begin", !.host = h,
                       !.allow = allow, !.background = background, !.expect = expect]]
  <2>1. cache[h] # None => cache[h].expires \in Nat
    BY <1>t DEF Record
  <2> QED
    BY <2>1 DEF FetchAccessForHost
<1>3. CASE fetch' = fetch
  <2>1. TxtTypeOK'
    BY <1>t, <1>1, <1>3 DEF TxtInv, MutexInv, TxtTypeOK
  <2>2. MutexInv'
    BY <1>t, <1>3, <2>1, StaysWhere DEF TxtInv, Counted, Locked
  <2>3. CacheInv'
    BY <1>t, <1>3, CacheIsLeft
  <2> QED
    BY <2>2, <2>3 DEF TxtInv
<1>4. CASE fetch' # fetch
  <2>1. PICK background \in BOOLEAN, expect \in Nat \cup {Zero} :
          fetch' = [fetch EXCEPT ![f] = [NoFetch EXCEPT !.stage = "begin", !.host = h,
                      !.allow = allow, !.background = background, !.expect = expect]]
    BY <1>2, <1>4
  <2>2. PICK l \in FetchState :
          l = [NoFetch EXCEPT !.stage = "begin", !.host = h,
                 !.allow = allow, !.background = background, !.expect = expect]
    BY DEF NoFetch, FetchState, Zero
  <2>3. l.stage = "begin" /\ l.host = h
    BY <2>2 DEF NoFetch
  <2>4. /\ fetch' \in [Fetch -> FetchState] /\ fetch'[f] = l
        /\ \A g \in Fetch \ {f} : fetch'[g] = fetch[g]
    BY <1>t, <2>1, <2>2
  <2>5. TxtTypeOK'
    BY <1>t, <1>1, <2>4 DEF TxtInv, MutexInv, TxtTypeOK
  <2>6. MutexInv'
    BY <1>t, <2>3, <2>4, <2>5, StaysWhere DEF TxtInv, Counted, Locked
  <2>7. CacheInv'
    BY <1>t, <2>3, <2>4, CacheIsLeft
  <2> QED
    BY <2>6, <2>7 DEF TxtInv
<1> QED
  BY <1>3, <1>4

\* The steps before and after the lock is held leave the cache alone.
LEMMA MutexStep ==
  ASSUME TxtInv, NEW f \in Fetch, LockName(f) \/ Acquire(f) \/ Unlock(f) \/ Release(f)
  PROVE  TxtInv'
<1>1. MutexInv'
  BY LockNameKeeps, OwnerKeeps, ReleaseKeeps DEF TxtInv
<1>2. /\ \A g \in Fetch \ {f} : fetch'[g] = fetch[g]
      /\ fetch'[f].stage \in {"wait", "check", "release", "idle"}
      /\ UNCHANGED <<cache, dns>>
  BY DEF LockName, Acquire, Unlock, Release, Return, NoFetch, TxtInv, MutexInv,
         TxtTypeOK, FetchState
<1>3. CacheInv'
  BY <1>2, CacheIsLeft
<1> QED
  BY <1>1, <1>3 DEF TxtInv

\* Every step keeps the invariant.
LEMMA TxtStep == TxtInv /\ [TxtNext]_txtVars => TxtInv'
<1> SUFFICES ASSUME TxtInv, [TxtNext]_txtVars PROVE TxtInv'
  OBVIOUS
<1>1. ASSUME NEW f \in Fetch, UpdateStep(f)
      PROVE  TxtInv'
  BY <1>1, MutexStep, LockedStep DEF UpdateStep
<1>2. ASSUME NEW h \in Host, ChangeDNS(h)
      PROVE  TxtInv'
  <2>t. dns \in [Host -> DnsAnswer] /\ cache \in [Host -> Record \cup {None}]
    BY DEF TxtInv, MutexInv, TxtTypeOK
  <2>1. PICK t \in Text : dns' = [dns EXCEPT ![h] =
                            [version |-> dns[h].version + 1, text |-> t]]
    BY <1>2 DEF ChangeDNS
  <2>2. /\ dns' \in [Host -> DnsAnswer]
        /\ \A j \in Host : /\ dns[j].version \in Nat /\ dns'[j].version \in Nat
                           /\ dns[j].version <= dns'[j].version
    BY <2>t, <2>1 DEF DnsAnswer
  <2>3. UNCHANGED <<now, cache, names, waiters, owner, fetch, got, gone, faults>>
    BY <1>2 DEF ChangeDNS
  <2>4. MutexInv'
    BY <2>2, <2>3 DEF TxtInv, MutexInv, TxtTypeOK, Users
  <2>5. ASSUME NEW j \in Host, cache[j] # None
        PROVE  cache[j].version <= dns'[j].version
    <3>1. cache[j].version \in Nat /\ cache[j].version <= dns[j].version
      BY <2>t, <2>5 DEF TxtInv, CacheInv, Record
    <3> QED
      BY <2>2, <3>1
  <2>6. ASSUME NEW f \in Fetch, fetch[f].stage = "resolve"
        PROVE  AnswerIsNewer(f)'
    <3>1. AnswerIsNewer(f) /\ fetch[f].host \in Host
      BY <2>6 DEF TxtInv, CacheInv, MutexInv
    <3>2. fetch[f].answer.version \in Nat
      BY <3>1 DEF AnswerIsNewer, DnsAnswer
    <3>3. fetch[f].answer.version <= dns'[fetch[f].host].version
      BY <2>2, <3>1, <3>2 DEF AnswerIsNewer
    <3> QED
      BY <2>3, <3>1, <3>3 DEF AnswerIsNewer
  <2>7. CacheInv'
    BY <2>3, <2>5, <2>6 DEF TxtInv, CacheInv
  <2> QED
    BY <2>4, <2>7 DEF TxtInv
<1>3. CASE Tick \/ (\E f \in Fetch : ContextEnds(f)) \/ UNCHANGED txtVars
  <2>1. /\ now' \in Nat /\ gone' \subseteq Fetch
        /\ UNCHANGED <<dns, cache, names, waiters, owner, fetch, got, faults>>
    BY <1>3 DEF Tick, ContextEnds, txtVars, TxtInv, MutexInv, TxtTypeOK
  <2>2. MutexInv'
    BY <2>1 DEF TxtInv, MutexInv, TxtTypeOK, Users
  <2>3. CacheInv'
    BY <2>1 DEF TxtInv, CacheInv, AnswerIsNewer
  <2> QED
    BY <2>2, <2>3 DEF TxtInv
<1> QED
  BY <1>1, <1>2, <1>3, BeginKeeps DEF TxtNext

-----------------------------------------------------------------------------
\* The invariant holds of every behaviour.
THEOREM TxtIsKept == TxtSpec => []TxtInv
BY TxtInitInv, TxtStep, PTL DEF TxtSpec

\* Every variable of the cache of TXT records has its type.
THEOREM TxtTypes == TxtSpec => []TxtTypeOK
<1>1. TxtInv => TxtTypeOK
  BY DEF TxtInv, MutexInv
<1> QED
  BY <1>1, TxtIsKept, PTL

\* At most one update of a host is at work, although its mutex comes and goes.
THEOREM UpdatesExclude == TxtSpec => []AtMostOneUpdates
<1>1. TxtInv => AtMostOneUpdates
  BY LockedAlone DEF TxtInv
<1> QED
  BY <1>1, TxtIsKept, PTL

\* Which steps change the cache, and how.
LEMMA CacheChanges ==
  ASSUME TxtInv, [TxtNext]_txtVars
  PROVE  \/ cache' = cache
         \/ \E f \in Fetch :
              /\ fetch[f].stage \in {"query", "resolve"} /\ fetch[f].host \in Host
              /\ \/ cache' = [cache EXCEPT ![fetch[f].host] = None]
                 \/ \E record \in Record :
                      /\ fetch[f].stage = "resolve"
                      /\ cache' = [cache EXCEPT ![fetch[f].host] = record]
                      /\ record.version = fetch[f].answer.version
<1>1. ASSUME NEW f \in Fetch, Check(f) \/ QueryDNS(f) \/ ParseAndStore(f)
      PROVE  \/ cache' = cache
             \/ /\ fetch[f].stage \in {"query", "resolve"} /\ fetch[f].host \in Host
                /\ \/ cache' = [cache EXCEPT ![fetch[f].host] = None]
                   \/ \E record \in Record :
                        /\ fetch[f].stage = "resolve"
                        /\ cache' = [cache EXCEPT ![fetch[f].host] = record]
                        /\ record.version = fetch[f].answer.version
  <2>1. CASE Check(f)
    BY <2>1, CheckShape
  <2>2. CASE QueryDNS(f)
    BY <2>2, QueryShape DEF UpdateOf
  <2>3. CASE ParseAndStore(f)
    BY <2>3, StoreShape DEF UpdateOf
  <2> QED
    BY <1>1, <2>1, <2>2, <2>3
<1>2. ASSUME NEW f \in Fetch,
             \/ LockName(f) \/ Acquire(f) \/ Unlock(f) \/ Release(f) \/ ContextEnds(f)
             \/ \E h \in Host, allow \in BOOLEAN : FetchAccessForHost(f, h, allow)
      PROVE  cache' = cache
  BY <1>2 DEF LockName, Acquire, Unlock, Release, ContextEnds, FetchAccessForHost
<1>3. CASE Tick \/ (\E h \in Host : ChangeDNS(h)) \/ UNCHANGED txtVars
  BY <1>3 DEF Tick, ChangeDNS, txtVars
<1> QED
  BY <1>1, <1>2, <1>3 DEF TxtNext, UpdateStep

\* No update undoes a later one, however slow the DNS server and the auth service
\* answer it.
THEOREM RecordsGetNewer == TxtSpec => NeverOlder
<1> DEFINE Newer == \A h \in Host : cache[h] # None /\ cache'[h] # None =>
                      cache'[h].version >= cache[h].version
<1>1. TxtInv /\ [TxtNext]_txtVars => [Newer]_txtVars
  <2> SUFFICES ASSUME TxtInv, [TxtNext]_txtVars, NEW h \in Host,
                      cache[h] # None, cache'[h] # None
               PROVE  cache'[h].version >= cache[h].version
    OBVIOUS
  <2>t. cache \in [Host -> Record \cup {None}]
    BY DEF TxtInv, MutexInv, TxtTypeOK
  <2>1. cache[h].version \in Nat
    BY <2>t DEF Record
  <2>2. CASE cache'[h] = cache[h]
    BY <2>1, <2>2
  <2>3. CASE cache'[h] # cache[h]
    <3>1. PICK f \in Fetch : fetch[f].stage = "resolve" /\ fetch[f].host = h
                             /\ cache'[h].version = fetch[f].answer.version
      BY <2>t, <2>3, CacheChanges
    <3>2. AnswerIsNewer(f)
      BY <3>1 DEF TxtInv, CacheInv
    <3>3. fetch[f].answer.version \in Nat /\ cache[h].version <= fetch[f].answer.version
      BY <3>1, <3>2 DEF AnswerIsNewer, DnsAnswer
    <3> QED
      BY <2>1, <3>1, <3>3
  <2> QED
    BY <2>2, <2>3
<1> QED
  BY <1>1, TxtIsKept, PTL DEF TxtSpec, NeverOlder

\* A failed update takes away only the record it set out to replace.
THEOREM UpdatesDropTheirOwn == TxtSpec => DropsItsOwn
<1> DEFINE Drops == \A h \in Host : cache[h] # None /\ cache'[h] = None =>
                      \E f \in Fetch : fetch[f].host = h /\ fetch[f].expect = cache[h].expires
<1>1. TxtInv /\ [TxtNext]_txtVars => [Drops]_txtVars
  <2> SUFFICES ASSUME TxtInv, [TxtNext]_txtVars, NEW h \in Host,
                      cache[h] # None, cache'[h] = None
               PROVE  \E f \in Fetch : fetch[f].host = h
                                       /\ fetch[f].expect = cache[h].expires
    OBVIOUS
  <2>t. cache \in [Host -> Record \cup {None}]
    BY DEF TxtInv, MutexInv, TxtTypeOK
  <2>1. PICK f \in Fetch : fetch[f].stage \in {"query", "resolve"} /\ fetch[f].host = h
    BY <2>t, CacheChanges
  <2>2. fetch[f].expect = cache[h].expires
    BY <2>1 DEF TxtInv, CacheInv
  <2> QED
    BY <2>1, <2>2
<1> QED
  BY <1>1, TxtIsKept, PTL DEF TxtSpec, DropsItsOwn

-----------------------------------------------------------------------------
(* The service.                                                            *)

\* The bounds of a behaviour stay the ones it began with.
InScene == scene \in DOMAIN Scenes

LEMMA SceneStays == InScene /\ [Next]_vars => InScene'
<1> SUFFICES ASSUME [Next]_vars PROVE scene' = scene
  BY DEF InScene
<1>1. CASE Environment
  BY <1>1 DEF Environment
<1>2. ASSUME NEW k \in Key, Write(k)
      PROVE  scene' = scene
  BY <1>2 DEF Write
<1>3. ASSUME NEW r \in Fetch,
             \/ Arrive(r) \/ ParseAccess(r) \/ Hosted(r) \/ Certificate(r)
             \/ Update(r) \/ Answered(r)
      PROVE  scene' = scene
  BY <1>3 DEF Arrive, ParseAccess, Hosted, Certificate, Update, Answered
<1>4. ASSUME NEW r \in Fetch, PresentStep(r)
      PROVE  scene' = scene
  <2>1. Present(r)
    BY <1>4 DEF PresentStep, SendPart, StatIndex, StatSlash, JoinIndex, DownloadFirst, StatPlain,
                IsPrefixOfObjects, StatRoot, ServePrefix, NotFoundPage, ShowObject
  <2> QED
    BY <2>1 DEF Present
<1>5. CASE UNCHANGED vars
  BY <1>5 DEF vars
<1> QED
  BY <1>1, <1>2, <1>3, <1>4, <1>5 DEF Next

\* Who asks for a record asks for that of a host of the cache.
LEMMA ArriveAsks ==
  ASSUME InScene, NEW r \in Fetch, Arrive(r)
  PROVE  TxtNext \/ UNCHANGED txtVars
<1>1. PICK a \in Scenes[scene].asks :
        \/ FetchAccessForHost(r, a.host, Route(a) = "hosted")
        \/ UNCHANGED txtVars
  BY DEF Arrive
<1>2. a.host \in Host /\ (Route(a) = "hosted") \in BOOLEAN
  BY LinkAssumption DEF InScene
<1> QED
  BY <1>1, <1>2 DEF TxtNext

\* A step of the service is a step of the cache, or leaves it alone.
LEMMA CacheStep == InScene /\ [Next]_vars => [TxtNext]_txtVars
<1> SUFFICES ASSUME InScene, [Next]_vars PROVE TxtNext \/ UNCHANGED txtVars
  OBVIOUS
<1>1. CASE Environment
  BY <1>1 DEF Environment, TxtNext
<1>2. ASSUME NEW k \in Key, Write(k)
      PROVE  UNCHANGED txtVars
  BY <1>2 DEF Write
<1>3. ASSUME NEW r \in Fetch, Arrive(r)
      PROVE  TxtNext \/ UNCHANGED txtVars
  BY <1>3, ArriveAsks
<1>4. ASSUME NEW r \in Fetch, ParseAccess(r) \/ Hosted(r) \/ Certificate(r)
      PROVE  UNCHANGED txtVars
  BY <1>4 DEF ParseAccess, Hosted, Certificate
<1>5. ASSUME NEW r \in Fetch, Update(r) \/ Answered(r)
      PROVE  TxtNext
  BY <1>5 DEF Update, Answered, TxtNext
<1>6. ASSUME NEW r \in Fetch, PresentStep(r)
      PROVE  UNCHANGED txtVars
  <2>1. Present(r)
    BY <1>6 DEF PresentStep, SendPart, StatIndex, StatSlash, JoinIndex, DownloadFirst, StatPlain,
                IsPrefixOfObjects, StatRoot, ServePrefix, NotFoundPage, ShowObject
  <2> QED
    BY <2>1 DEF Present
<1>7. CASE UNCHANGED vars
  BY <1>7 DEF vars
<1> QED
  BY <1>1, <1>2, <1>3, <1>4, <1>5, <1>6, <1>7 DEF Next

-----------------------------------------------------------------------------
\* Pages and certificates keep to the protocol of the cache of TXT records.
LEMMA LinkKeepsTxtCache == Spec => TxtSpec
<1>1. Init => InScene /\ TxtInit
  BY DEF Init, InScene
<1> QED
  BY <1>1, SceneStays, CacheStep, PTL DEF Spec, TxtSpec

\* In the service, too, the updates of a host do not overlap.
THEOREM LinkUpdatesExclude == Spec => []AtMostOneUpdates
BY LinkKeepsTxtCache, UpdatesExclude, PTL

\* In the service, too, no update undoes a later one.
THEOREM LinkRecordsGetNewer == Spec => NeverOlder
BY LinkKeepsTxtCache, RecordsGetNewer, PTL

\* In the service, too, a failed update takes away only what it was to replace.
THEOREM LinkUpdatesDropTheirOwn == Spec => DropsItsOwn
BY LinkKeepsTxtCache, UpdatesDropTheirOwn, PTL
-----------------------------------------------------------------------------
(* What a request has found out.                                           *)

\* The sets that the fields of a request are from.
Asks == UNION {Scenes[s].asks : s \in DOMAIN Scenes}
AskOrNone == Asks \cup {None}
Roots == {t.root : t \in Text}
Keys == {a.path : a \in Asks} \cup {HostedKey(root, a.path) : root \in Roots, a \in Asks}
        \cup {<< >>}
Sizes == Size \cup {None}
FoundOrFailed == {<<found>> : found \in Sizes \cup {Failed}}
IndexOrNone == FoundOrFailed \cup {None}
Objects == [key : Key, size : Size]
ObjectOrNone == Objects \cup {None}
Opens == [start : Int, length : Int]
OpenOrNone == Opens \cup {None}
AnswerOrNone == Answers \cup {None}
FetchSets == SUBSET Fetch
KeySets == SUBSET Key
Stages == {"idle", "host", "access", "present", "join", "stat", "prefix", "prefix list",
           "list", "404", "show", "parts", "done"}
Contents == SUBSET Size

Req == [stage : Stages, ask : AskOrNone, key : Keys, index : IndexOrNone,
        object : ObjectOrNone, opened : OpenOrNone, part : Nat, content : Contents,
        said : AnswerOrNone, at : Nat, after : FetchSets, kept : KeySets]

Searching == {"host", "access", "present", "join", "stat", "prefix", "prefix list", "list"}
Plain(k) == ~IsEmpty(k) /\ ~EndsInSlash(k)
AsPrefix(k) == IF Plain(k) THEN Slashed(k) ELSE k

\* The key is not there, nor anything that would be shown for it.
IsMissing(q) ==
  /\ q.key \notin q.kept
  /\ q.object = None =>
       /\ Index(AsPrefix(q.key)) \notin q.kept
       /\ q.ask.lists => Under(AsPrefix(q.key), q.kept) = {}

\* What the stage of a request says of the objects that have been there all the time:
\* the calls that it has made would have found them.
HasLooked(q) ==
  /\ q.stage \in {"join", "list", "prefix", "prefix list"} => q.key \notin q.kept
  /\ q.stage = "list" => ~Plain(q.key) /\ Index(q.key) \notin q.kept
  /\ q.stage = "prefix list" => Index(Slashed(q.key)) \notin q.kept
  /\ q.stage = "join" => ~Plain(q.key)
  /\ q.stage \in {"stat", "prefix", "prefix list"} => Plain(q.key)
  /\ q.stage = "404" => IsMissing(q) /\ q.ask.page = "hosted"

\* What the goroutine that looks for index.html has found.
HasIndex(q) ==
  /\ q.stage \in {"idle", "host", "access"} => q.index = None
  /\ q.index # None => ~Plain(q.key)
  /\ q.index = <<None>> => Index(q.key) \notin q.kept
  /\ q.index \in {<<size>> : size \in Size} => Index(q.key) \in Key

\* The object that is shown, and the download of it that was opened first; parts are sent
\* of a list only.
HasObject(q) ==
  /\ q.stage \in Searching \cup {"idle"} => q.object = None /\ q.opened = None
  /\ q.stage \in {"show", "parts"} => q.object # None
  /\ q.stage = "parts" => ~AsksForOne(q.ask, q.object.size)
  /\ q.object # None => q.object.key = q.key \/ q.key \notin q.kept
  /\ q.opened # None =>
       /\ q.object # None /\ Predicts(q.ask)
       /\ q.opened = OptionsToRange(q.object.size, Options(q.ask))

IsPresented(q) == Route(q.ask) \in {"access", "hosted"}

\* The answer.
HasSaid(q) ==
  /\ q.said \in {"404", "404 page"} => IsMissing(q)
  /\ q.said = "redirect" => q.key \notin q.kept
  /\ q.said = "listing" /\ q.object = None => Index(AsPrefix(q.key)) \notin q.kept

SendsWhatIsShown(q) ==
  /\ q.said = "content" /\ q.ask.method = "GET" /\ q.opened # None
  /\ AsksForOne(q.ask, q.object.size)
  => q.content = {q.object.size}

IsSound(q) ==
  /\ q.stage = "done" <=> q.said # None
  /\ q.stage # "idle" => q.ask \in Asks
  /\ HasLooked(q) /\ HasIndex(q) /\ HasObject(q)
  /\ q.stage = "done" /\ IsPresented(q) => HasSaid(q)
  /\ q.stage = "done" => SendsWhatIsShown(q)

-----------------------------------------------------------------------------
\* One field after another.
LEMMA Edits ==
  ASSUME NEW q \in Req
  PROVE  /\ \A s \in Stages : [q EXCEPT !.stage = s] \in Req
         /\ \A s \in AnswerOrNone : [q EXCEPT !.said = s] \in Req
         /\ \A k \in Keys : [q EXCEPT !.key = k] \in Req
         /\ \A i \in IndexOrNone : [q EXCEPT !.index = i] \in Req
         /\ \A o \in ObjectOrNone : [q EXCEPT !.object = o] \in Req
         /\ \A o \in OpenOrNone : [q EXCEPT !.opened = o] \in Req
         /\ \A c \in Contents : [q EXCEPT !.content = c] \in Req
         /\ \A i \in Nat : [q EXCEPT !.part = i] \in Req
         /\ \A K \in KeySets : [q EXCEPT !.kept = K] \in Req
BY DEF Req

\* Whatever goes while a request is on its way, what it has found out stays right.
LEMMA LessIsSound ==
  ASSUME NEW q \in Req, IsSound(q), NEW K \in SUBSET q.kept,
         NEW x, x = [q EXCEPT !.kept = K]
  PROVE  x \in Req /\ IsSound(x)
<1>1. /\ x \in Req /\ x.kept = K /\ x.stage = q.stage /\ x.ask = q.ask /\ x.key = q.key
      /\ x.index = q.index /\ x.object = q.object /\ x.opened = q.opened
      /\ x.content = q.content /\ x.said = q.said
  BY DEF Req, KeySets
<1>2. IsMissing(q) => IsMissing(x)
  BY <1>1 DEF IsMissing, Under
<1>3. HasLooked(x)
  BY <1>1, <1>2 DEF HasLooked, IsSound
<1>4. HasIndex(x)
  BY <1>1 DEF HasIndex, IsSound
<1>5. HasObject(x)
  BY <1>1 DEF HasObject, IsSound
<1>6. HasSaid(q) => HasSaid(x)
  BY <1>1, <1>2 DEF HasSaid
<1>7. SendsWhatIsShown(q) => SendsWhatIsShown(x)
  BY <1>1 DEF SendsWhatIsShown
<1> QED
  BY <1>1, <1>3, <1>4, <1>5, <1>6, <1>7 DEF IsSound, IsPresented

\* What is predicted is a range.
LEMMA FirstIsTyped ==
  ASSUME NEW a \in Asks, Predictable(a.range), a.range # None
  PROVE  a.range[1] \in ByteRange
<1>1. PICK s \in DOMAIN Scenes : a \in Scenes[s].asks
  BY DEF Asks
<1>2. a.range \in Seq(ByteRange \cup {Malformed})
  BY <1>1, LinkAssumption DEF RangeHeader
<1>3. a.range # << >> /\ a.range[1] # Malformed
  BY DEF Predictable
<1>4. a.range[1] \in ByteRange \cup {Malformed}
  BY <1>2, <1>3
<1> QED
  BY <1>3, <1>4

\* The download that was opened first is of the range that is wanted.
LEMMA OpensWhatIsWanted ==
  ASSUME NEW a \in Asks, NEW size \in Size, Predicts(a), AsksForOne(a, size),
         NEW range,
         range = IF a.range = None THEN Whole(size) ELSE ParseRange(a.range[1], size),
         range # None
  PROVE  OptionsToRange(size, Options(a)) = range
<1> DEFINE h == a.range[1]
           o == PredictRange(h)
<1>1. size \in Nat /\ None \notin Nat
  BY LinkAssumption
<1>2. a.range # None => h \in ByteRange
  BY FirstIsTyped DEF Predicts
<1>o. \A f, n \in Int : [offset |-> f, length |-> n] # None
  <2>1. None \notin [offset : Int, length : Int]
    BY LinkAssumption
  <2> QED
    BY <2>1
<1>3. CASE a.range = None
  BY <1>1, <1>3 DEF OptionsToRange, Options, Whole
<1>4. CASE a.range # None
  <2>p. range = ParseRange(h, size)
    BY <1>4
  <2>1. /\ h.first \in Nat \cup {None} /\ h.last \in Nat \cup {None}
        /\ h.first = None => h.last # None
        /\ h.first # None => h.last = None \/ h.last >= h.first
    BY <1>2, <1>4 DEF ByteRange
  <2>2. Options(a) = o
    BY <1>4 DEF Options
  <2>3. CASE h.first = None
    <3>1. o = [offset |-> -h.last, length |-> -1] /\ h.last \in 1..size
      BY <1>4, <2>3 DEF PredictRange, AsksForOne
    <3>2. o # None /\ o.offset = -h.last /\ o.offset < 0
      BY <1>1, <1>o, <3>1
    <3>3. OptionsToRange(size, o) = [start |-> size - h.last, length |-> h.last]
      BY <1>1, <3>1, <3>2 DEF OptionsToRange
    <3>4. ParseRange(h, size) = [start |-> size - h.last, length |-> h.last]
      BY <1>1, <1>4, <2>3, <3>1 DEF ParseRange, Smaller
    <3> QED
      BY <2>2, <2>p, <3>3, <3>4
  <2>4. CASE h.first # None /\ h.last = None
    <3>1. o = [offset |-> h.first, length |-> -1] /\ h.first \in Nat
      BY <2>1, <2>4 DEF PredictRange
    <3>2. o # None /\ o.offset = h.first /\ o.length = -1
      BY <1>1, <1>o, <3>1
    <3>3. h.first < size
      BY <1>1, <1>4, <2>4, <2>p, <3>1 DEF ParseRange
    <3>4. OptionsToRange(size, o) = [start |-> h.first, length |-> size - h.first]
      BY <1>1, <3>1, <3>2, <3>3 DEF OptionsToRange
    <3>5. ParseRange(h, size) = [start |-> h.first, length |-> size - h.first]
      BY <1>1, <1>4, <2>4, <3>1, <3>3 DEF ParseRange
    <3> QED
      BY <2>2, <2>p, <3>4, <3>5
  <2>5. CASE h.first # None /\ h.last # None
    <3> DEFINE last == IF h.last < size - 1 THEN h.last ELSE size - 1
    <3>1. /\ o = [offset |-> h.first, length |-> h.last - h.first + 1]
          /\ h.first \in Nat /\ h.last \in Nat /\ h.last >= h.first
      BY <2>1, <2>5 DEF PredictRange
    <3>2. o # None /\ o.offset = h.first /\ o.length = h.last - h.first + 1
      BY <1>1, <1>o, <3>1
    <3>3. h.first < size
      BY <1>1, <1>4, <2>5, <2>p, <3>1 DEF ParseRange
    <3>4. OptionsToRange(size, o) = [start |-> h.first, length |-> last - h.first + 1]
      BY <1>1, <3>1, <3>2, <3>3 DEF OptionsToRange
    <3>5. ParseRange(h, size) = [start |-> h.first, length |-> last - h.first + 1]
      BY <1>1, <1>4, <2>5, <3>1, <3>3 DEF ParseRange, Smaller
    <3> QED
      BY <2>2, <2>p, <3>4, <3>5
  <2> QED
    BY <2>3, <2>4, <2>5
<1> QED
  BY <1>3, <1>4
-----------------------------------------------------------------------------
(* How a request goes on.                                                  *)

\* A request goes to its next call.
LEMMA GoIsSound ==
  ASSUME NEW q \in Req, IsSound(q), NEW t \in Stages \ {"idle", "host", "access", "show", "done"},
         q.stage \notin {"idle", "done"}, t \in Searching => q.stage \in Searching,
         t = "parts" => q.object # None /\ ~AsksForOne(q.ask, q.object.size),
         NEW x, x = [q EXCEPT !.stage = t], HasLooked(x)
  PROVE  x \in Req /\ IsSound(x)
<1>1. /\ x \in Req /\ x.stage = t /\ x.kept = q.kept /\ x.ask = q.ask /\ x.key = q.key
      /\ x.index = q.index /\ x.object = q.object /\ x.opened = q.opened
      /\ x.content = q.content /\ x.said = q.said
  BY Edits DEF Req
<1>2. HasIndex(x)
  BY <1>1 DEF HasIndex, IsSound
<1>3. HasObject(x)
  BY <1>1 DEF HasObject, IsSound, Searching
<1> QED
  BY <1>1, <1>2, <1>3 DEF IsSound

\* It is answered.
LEMMA SayIsSound ==
  ASSUME NEW q \in Req, IsSound(q), q.stage \notin {"idle", "done"},
         NEW said \in Answers \ {"content"},
         NEW x, x = [q EXCEPT !.stage = "done", !.said = said],
         IsPresented(q) /\ said \in {"404", "404 page"} => IsMissing(q),
         IsPresented(q) /\ said = "redirect" => q.key \notin q.kept,
         IsPresented(q) /\ said = "listing" /\ q.object = None =>
           Index(AsPrefix(q.key)) \notin q.kept
  PROVE  x \in Req /\ IsSound(x)
<1>1. /\ x \in Req /\ x.stage = "done" /\ x.kept = q.kept /\ x.ask = q.ask /\ x.key = q.key
      /\ x.index = q.index /\ x.object = q.object /\ x.opened = q.opened /\ x.said = said
  BY DEF Req, Stages, AnswerOrNone
<1>2. HasLooked(x)
  BY <1>1 DEF HasLooked
<1>3. HasIndex(x)
  BY <1>1 DEF HasIndex, IsSound
<1>4. HasObject(x)
  BY <1>1 DEF HasObject, IsSound, Searching
<1>5. IsPresented(x) => HasSaid(x)
  BY <1>1 DEF HasSaid, IsMissing, IsPresented
<1>6. said # None
  BY LinkAssumption
<1> QED
  BY <1>1, <1>2, <1>3, <1>4, <1>5, <1>6 DEF IsSound, SendsWhatIsShown

\* It has an object to show.
LEMMA ShowIsSound ==
  ASSUME NEW q \in Req, IsSound(q), q.stage \in Searching,
         NEW o \in Objects, NEW d \in OpenOrNone,
         o.key = q.key \/ q.key \notin q.kept,
         d # None => Predicts(q.ask) /\ d = OptionsToRange(o.size, Options(q.ask)),
         NEW x, x = [q EXCEPT !.stage = "show", !.object = o, !.opened = d]
  PROVE  x \in Req /\ IsSound(x)
<1>1. /\ x \in Req /\ x.stage = "show" /\ x.kept = q.kept /\ x.ask = q.ask /\ x.key = q.key
      /\ x.index = q.index /\ x.object = o /\ x.opened = d /\ x.said = q.said
  BY DEF Req, Stages, ObjectOrNone
<1>2. HasLooked(x)
  BY <1>1 DEF HasLooked
<1>3. HasIndex(x)
  BY <1>1 DEF HasIndex, IsSound
<1>4. o # None
  BY LinkAssumption DEF Objects
<1>5. HasObject(x)
  BY <1>1, <1>4 DEF HasObject, IsSound, Searching
<1> QED
  BY <1>1, <1>2, <1>3, <1>5 DEF IsSound, Searching

\* It is sent the content of the object that it is shown.
LEMMA SendIsSound ==
  ASSUME NEW q \in Req, IsSound(q), q.stage \in {"show", "parts"}, NEW c \in Contents,
         q.opened # None /\ q.ask.method = "GET" /\ AsksForOne(q.ask, q.object.size)
           => c = {q.object.size},
         NEW x, x = [q EXCEPT !.stage = "done", !.said = "content", !.content = c]
  PROVE  x \in Req /\ IsSound(x)
<1>1. /\ x \in Req /\ x.stage = "done" /\ x.kept = q.kept /\ x.ask = q.ask /\ x.key = q.key
      /\ x.index = q.index /\ x.object = q.object /\ x.opened = q.opened
      /\ x.said = "content" /\ x.content = c
  BY DEF Req, Stages, AnswerOrNone, Answers
<1>2. HasLooked(x)
  BY <1>1 DEF HasLooked
<1>3. HasIndex(x)
  BY <1>1 DEF HasIndex, IsSound
<1>4. HasObject(x)
  BY <1>1 DEF HasObject, IsSound, Searching
<1>5. HasSaid(x)
  BY <1>1 DEF HasSaid
<1>6. x.said # None
  BY <1>1, LinkAssumption DEF Answers
<1>7. SendsWhatIsShown(x)
  BY <1>1 DEF SendsWhatIsShown
<1> QED
  BY <1>1, <1>2, <1>3, <1>4, <1>5, <1>6, <1>7 DEF IsSound
-----------------------------------------------------------------------------
(* The calls of present and showObject.                                    *)

\* Every request is sound, and what it counts as kept is there.
FoundInv ==
  /\ req \in [Fetch -> Req] /\ stored \in [Key -> Sizes]
  /\ \A r \in Fetch : IsSound(req[r]) /\ req[r].kept \subseteq Stored

Early == {"idle", "host", "access"}

\* The request goes on, and is the same.
Becomes(r) ==
  \E x \in Req :
    /\ req' = [req EXCEPT ![r] = x] /\ IsSound(x) /\ x.stage \notin Early
    /\ x.ask = req[r].ask /\ x.at = req[r].at /\ x.after = req[r].after
    /\ x.kept = req[r].kept

LEMMA SayBecomes ==
  ASSUME FoundInv, NEW r \in Fetch, req[r].stage \notin {"idle", "done"},
         NEW said \in Answers \ {"content"}, Say(r, said),
         IsPresented(req[r]) /\ said \in {"404", "404 page"} => IsMissing(req[r]),
         IsPresented(req[r]) /\ said = "redirect" => req[r].key \notin req[r].kept,
         IsPresented(req[r]) /\ said = "listing" /\ req[r].object = None =>
           Index(AsPrefix(req[r].key)) \notin req[r].kept
  PROVE  Becomes(r)
<1> DEFINE x == [req[r] EXCEPT !.stage = "done", !.said = said]
<1>1. req[r] \in Req /\ IsSound(req[r])
  BY DEF FoundInv
<1>2. x \in Req /\ IsSound(x)
  BY <1>1, SayIsSound
<1>3. /\ x.stage = "done" /\ x.ask = req[r].ask /\ x.at = req[r].at
      /\ x.after = req[r].after /\ x.kept = req[r].kept
  BY <1>1 DEF Req
<1>4. req' = [req EXCEPT ![r] = x]
  BY DEF Say, FoundInv
<1> QED
  BY <1>2, <1>3, <1>4 DEF Becomes, Early

LEMMA GoBecomes ==
  ASSUME FoundInv, NEW r \in Fetch, req[r].stage \notin {"idle", "done"},
         NEW t \in Stages \ {"idle", "host", "access", "show", "done"}, Go(r, t),
         t \in Searching => req[r].stage \in Searching,
         t = "parts" =>
           req[r].object # None /\ ~AsksForOne(req[r].ask, req[r].object.size),
         HasLooked([req[r] EXCEPT !.stage = t])
  PROVE  Becomes(r)
<1> DEFINE x == [req[r] EXCEPT !.stage = t]
<1>1. req[r] \in Req /\ IsSound(req[r])
  BY DEF FoundInv
<1>2. x \in Req /\ IsSound(x)
  BY <1>1, GoIsSound
<1>3. /\ x.stage = t /\ x.ask = req[r].ask /\ x.at = req[r].at
      /\ x.after = req[r].after /\ x.kept = req[r].kept
  BY <1>1 DEF Req
<1>4. req' = [req EXCEPT ![r] = x]
  BY DEF Go, FoundInv
<1> QED
  BY <1>2, <1>3, <1>4 DEF Becomes, Early

LEMMA ShowBecomes ==
  ASSUME FoundInv, NEW r \in Fetch, req[r].stage \in Searching,
         NEW k \in Key, NEW size \in Size, Show(r, k, size),
         k = req[r].key \/ req[r].key \notin req[r].kept
  PROVE  Becomes(r)
<1> DEFINE o == [key |-> k, size |-> size]
           x == [req[r] EXCEPT !.stage = "show", !.object = o, !.opened = None]
<1>1. req[r] \in Req /\ IsSound(req[r]) /\ req[r].opened = None
  BY DEF FoundInv, IsSound, HasObject
<1>2. o \in Objects /\ o.key = k /\ None \in OpenOrNone
  BY DEF Objects, OpenOrNone
<1>3. x \in Req /\ IsSound(x)
  BY <1>1, <1>2, ShowIsSound
<1>4. /\ x.stage = "show" /\ x.ask = req[r].ask /\ x.at = req[r].at
      /\ x.after = req[r].after /\ x.kept = req[r].kept
  BY <1>1 DEF Req
<1>5. x = [req[r] EXCEPT !.stage = "show", !.object = o]
  BY <1>1 DEF Req
<1>6. req' = [req EXCEPT ![r] = x]
  BY <1>5 DEF Show, FoundInv
<1> QED
  BY <1>3, <1>4, <1>6 DEF Becomes, Early

LEMMA NotFoundBecomes ==
  ASSUME FoundInv, NEW r \in Fetch, req[r].stage \notin {"idle", "done"}, NotFound(r),
         IsMissing(req[r])
  PROVE  Becomes(r)
<1>1. CASE req[r].ask.page = "hosted"
  <2>1. Go(r, "404")
    BY <1>1 DEF NotFound
  <2>2. HasLooked([req[r] EXCEPT !.stage = "404"])
    BY <1>1 DEF HasLooked, IsMissing, FoundInv, Req
  <2> QED
    BY <2>1, <2>2, GoBecomes DEF Stages, Searching
<1>2. CASE req[r].ask.page # "hosted"
  <2>1. Say(r, "404")
    BY <1>2 DEF NotFound
  <2> QED
    BY <2>1, SayBecomes DEF Answers
<1> QED
  BY <1>1, <1>2

\* A call of the satellite finds the object, does not, or fails.
LEMMA StatBecomes ==
  ASSUME FoundInv, NEW r \in Fetch, req[r].stage \in Searching, NEW k, NEW missing,
         Stat(r, k, missing),
         k = req[r].key \/ req[r].key \notin req[r].kept,
         k \notin Stored /\ missing => Becomes(r)
  PROVE  Becomes(r)
<1>1. CASE k \in Stored /\ Show(r, k, stored[k])
  <2>1. k \in Key /\ stored[k] \in Size
    BY <1>1 DEF Stored, FoundInv, Sizes
  <2> QED
    BY <1>1, <2>1, ShowBecomes
<1>2. CASE Say(r, "error")
  BY <1>2, SayBecomes DEF Answers, Searching
<1>3. CASE k \notin Stored /\ missing
  BY <1>3
<1> QED
  BY <1>1, <1>2, <1>3 DEF Stat

-----------------------------------------------------------------------------
\* The key of an index.html that is not there was not kept.
LEMMA NotKept ==
  ASSUME FoundInv, NEW r \in Fetch, NEW k, k \notin Stored
  PROVE  k \notin req[r].kept
BY DEF FoundInv

\* What was found, nothing and an error are different.
LEMMA FoundAreDifferent ==
  /\ \A a, b : <<a>> = <<b>> => a = b
  /\ None # Failed /\ None \notin Size /\ Failed \notin Size
BY LinkAssumption, TxtAssumption

LEMMA SlashSteps ==
  ASSUME FoundInv, NEW r \in Fetch, StatIndex(r) \/ StatSlash(r) \/ JoinIndex(r)
  PROVE  Becomes(r)
<1> DEFINE q == req[r]
<1>q. q \in Req /\ IsSound(q) /\ q.kept \subseteq Stored
  BY DEF FoundInv
<1>1. CASE StatIndex(r)
  <2> DEFINE k == Index(q.key)
  <2>1. q.stage \in {"present", "join"} /\ EndsInSlash(q.key) /\ q.index = None
    BY <1>1 DEF StatIndex
  <2>2. PICK i \in {<<IF k \in Stored THEN stored[k] ELSE None>>, <<Failed>>} :
          req' = [req EXCEPT ![r].index = i]
    BY <1>1 DEF StatIndex
  <2> DEFINE x == [q EXCEPT !.index = i]
  <2>3. k \in Stored => k \in Key /\ stored[k] \in Size
    BY DEF Stored, FoundInv, Sizes
  <2>4. i \in FoundOrFailed
    BY <2>2, <2>3 DEF FoundOrFailed, Sizes
  <2>5. x \in Req
    BY <1>q, <2>4, Edits DEF IndexOrNone
  <2>6. /\ x.stage = q.stage /\ x.ask = q.ask /\ x.key = q.key /\ x.index = i
        /\ x.object = q.object /\ x.opened = q.opened /\ x.content = q.content
        /\ x.said = q.said /\ x.at = q.at /\ x.after = q.after /\ x.kept = q.kept
    BY <1>q DEF Req
  <2>7. i = <<None>> => k \notin Stored
    BY <2>2, <2>3, FoundAreDifferent
  <2>8. i \in {<<size>> : size \in Size} => k \in Stored
    BY <2>2, <2>3, FoundAreDifferent
  <2>9. HasIndex(x)
    BY <1>q, <2>1, <2>3, <2>6, <2>7, <2>8 DEF HasIndex, Plain
  <2>10. HasLooked(x)
    BY <1>q, <2>6 DEF HasLooked, IsMissing, IsSound
  <2>11. HasObject(x)
    BY <1>q, <2>6 DEF HasObject, IsSound
  <2>12. IsSound(x)
    BY <1>q, <2>1, <2>6, <2>9, <2>10, <2>11 DEF IsSound
  <2>13. req' = [req EXCEPT ![r] = x]
    BY <2>2
  <2> QED
    BY <2>1, <2>5, <2>6, <2>12, <2>13 DEF Becomes, Early
<1>2. CASE StatSlash(r)
  <2>1. q.stage = "present" /\ EndsInSlash(q.key)
    BY <1>2 DEF StatSlash, In
  <2>2. ASSUME q.key \notin Stored, Go(r, "join")
        PROVE  Becomes(r)
    <3>1. HasLooked([q EXCEPT !.stage = "join"])
      BY <1>q, <2>1, <2>2 DEF HasLooked, Req, Plain
    <3> QED
      BY <2>1, <2>2, <3>1, GoBecomes DEF Stages, Searching
  <2>3. Stat(r, q.key, Go(r, "join"))
    BY <1>2 DEF StatSlash
  <2> QED
    BY <2>1, <2>2, <2>3, StatBecomes DEF Searching
<1>3. CASE JoinIndex(r)
  <2>1. q.stage = "join" /\ q.index # None /\ ~Plain(q.key) /\ q.key \notin q.kept
    BY <1>3, <1>q DEF JoinIndex, In, IsSound, HasLooked
  <2>2. PICK found \in Sizes \cup {Failed} : q.index = <<found>>
    BY <1>q, <2>1 DEF Req, IndexOrNone, FoundOrFailed
  <2>3. CASE found = Failed
    <3>1. Say(r, "error")
      BY <1>3, <2>2, <2>3, FoundAreDifferent DEF JoinIndex
    <3> QED
      BY <2>1, <3>1, SayBecomes DEF Answers
  <2>4. CASE found = None
    <3>1. q.index = <<None>> /\ q.index # <<Failed>>
      BY <2>2, <2>4, FoundAreDifferent
    <3>2. Go(r, "list")
      BY <1>3, <3>1 DEF JoinIndex
    <3>3. Index(q.key) \notin q.kept
      BY <1>q, <3>1 DEF IsSound, HasIndex
    <3>4. HasLooked([q EXCEPT !.stage = "list"])
      BY <1>q, <2>1, <3>3 DEF HasLooked, Req
    <3> QED
      BY <2>1, <3>2, <3>4, GoBecomes DEF Stages, Searching
  <2>5. CASE found \in Size
    <3>1. q.index # <<None>> /\ q.index # <<Failed>> /\ q.index[1] = found
      BY <2>2, <2>5, FoundAreDifferent
    <3>2. Show(r, Index(q.key), found)
      BY <1>3, <3>1 DEF JoinIndex
    <3>3. Index(q.key) \in Key
      BY <1>q, <2>2, <2>5 DEF IsSound, HasIndex
    <3> QED
      BY <2>1, <2>5, <3>2, <3>3, ShowBecomes DEF Searching
  <2> QED
    BY <2>2, <2>3, <2>4, <2>5 DEF Sizes
<1> QED
  BY <1>1, <1>2, <1>3
\* A download is opened for a range of integers.
LEMMA OpenIsTyped ==
  ASSUME NEW a \in Asks, NEW size \in Size, Predicts(a)
  PROVE  OptionsToRange(size, Options(a)) \in Opens
<1> DEFINE o == Options(a)
<1>1. size \in Nat /\ None \notin Nat
  BY LinkAssumption
<1>2. o = None \/ o \in [offset : Int, length : Int]
  <2>2. a.range # None => a.range[1] \in ByteRange
    BY FirstIsTyped DEF Predicts
  <2>3. CASE a.range = None
    BY <2>3 DEF Options
  <2>4. CASE a.range # None
    <3>1. /\ a.range[1].first \in Nat \cup {None} /\ a.range[1].last \in Nat \cup {None}
          /\ a.range[1].first = None => a.range[1].last # None
      BY <2>2, <2>4 DEF ByteRange
    <3> QED
      BY <2>4, <3>1 DEF Options, PredictRange
  <2> QED
    BY <2>3, <2>4
<1>3. \A s, n \in Int : [start |-> s, length |-> n] \in Opens
  BY DEF Opens
<1>4. CASE o = None
  <2>1. [start |-> 0, length |-> size] \in Opens
    BY <1>1, <1>3
  <2>2. OptionsToRange(size, None) = [start |-> 0, length |-> size]
    BY <1>1 DEF OptionsToRange
  <2> QED
    BY <1>4, <2>1, <2>2
<1>5. CASE o # None
  <2>1. o.offset \in Int /\ o.length \in Int
    BY <1>2, <1>5
  <2> HIDE DEF o
  <2> DEFINE p == CASE o # None /\ o.offset < 0 ->
                         [start |-> size + o.offset, length |-> size - o.offset]
                    [] o # None /\ o.offset >= 0 /\ o.length < 0 ->
                         [start |-> o.offset, length |-> size - o.offset]
                    [] OTHER -> [start |-> o.offset, length |-> o.length]
  <2>2. PICK s \in Int, n \in Int :
          OptionsToRange(size, o) =
            IF s < size /\ s + n > size THEN [start |-> s, length |-> size - s]
            ELSE [start |-> s, length |-> n]
    <3>1. CASE o.offset < 0
      BY <1>1, <1>5, <2>1, <3>1 DEF OptionsToRange
    <3>2. CASE o.offset >= 0 /\ o.length < 0
      BY <1>1, <1>5, <2>1, <3>2 DEF OptionsToRange
    <3>3. CASE o.offset >= 0 /\ o.length >= 0
      BY <1>1, <1>5, <2>1, <3>3 DEF OptionsToRange
    <3> QED
      BY <2>1, <3>1, <3>2, <3>3
  <2> QED
    BY <1>1, <1>3, <2>2 DEF o
<1> QED
  BY <1>4, <1>5

\* A plain key: a download, a call that finds it, and the two that look for a prefix.
LEMMA PlainSteps ==
  ASSUME FoundInv, NEW r \in Fetch, DownloadFirst(r) \/ StatPlain(r) \/ IsPrefixOfObjects(r)
  PROVE  Becomes(r)
<1> DEFINE q == req[r]
<1>q. q \in Req /\ IsSound(q) /\ q.kept \subseteq Stored
  BY DEF FoundInv
<1>p. ASSUME q.stage \in {"present", "stat"}, Plain(q.key), q.key \notin Stored, Go(r, "prefix")
      PROVE  Becomes(r)
  <2>1. HasLooked([q EXCEPT !.stage = "prefix"])
    BY <1>q, <1>p DEF HasLooked, Req
  <2> QED
    BY <1>p, <2>1, GoBecomes DEF Stages, Searching
<1>1. CASE DownloadFirst(r)
  <2> DEFINE k == q.key
             o == Options(q.ask)
             d == OptionsToRange(stored[k], o)
             shown == [key |-> k, size |-> stored[k]]
  <2>1. q.stage = "present" /\ Plain(k) /\ Predicts(q.ask) /\ q.ask \in Asks
    BY <1>1, <1>q DEF DownloadFirst, In, Plain, IsSound
  <2>2. CASE k \in Stored /\ req' = [req EXCEPT ![r].stage = "show",
               ![r].object = shown, ![r].opened = d]
    <3>1. k \in Key /\ stored[k] \in Size
      BY <2>2 DEF Stored, FoundInv, Sizes
    <3>2. d \in Opens /\ shown \in Objects /\ shown.key = k /\ shown.size = stored[k]
      BY <2>1, <3>1, OpenIsTyped DEF Objects
    <3> HIDE DEF d, shown
    <3> DEFINE x == [q EXCEPT !.stage = "show", !.object = shown, !.opened = d]
    <3>3. d # None => d = OptionsToRange(shown.size, o)
      BY <3>2 DEF d
    <3>4. x \in Req /\ IsSound(x)
      BY <1>q, <2>1, <3>2, <3>3, ShowIsSound DEF OpenOrNone, Searching
    <3>5. /\ x.stage = "show" /\ x.ask = q.ask /\ x.at = q.at /\ x.after = q.after
          /\ x.kept = q.kept
      BY <1>q DEF Req
    <3>6. req' = [req EXCEPT ![r] = x]
      BY <2>2 DEF FoundInv
    <3> QED
      BY <3>4, <3>5, <3>6 DEF Becomes, Early
  <2>3. CASE Go(r, "stat")
    <3>1. HasLooked([q EXCEPT !.stage = "stat"])
      BY <1>q, <2>1 DEF HasLooked, Req
    <3> QED
      BY <2>1, <2>3, <3>1, GoBecomes DEF Stages, Searching
  <2>4. CASE k \notin Stored /\ Go(r, "prefix")
    BY <1>p, <2>1, <2>4
  <2>5. CASE Say(r, "403")
    BY <2>1, <2>5, SayBecomes DEF Answers
  <2> QED
    BY <1>1, <2>2, <2>3, <2>4, <2>5 DEF DownloadFirst
<1>2. CASE StatPlain(r)
  <2>1. q.stage \in {"present", "stat"} /\ Plain(q.key)
    BY <1>2, <1>q DEF StatPlain, In, Plain, IsSound, HasLooked
  <2>2. Stat(r, q.key, Go(r, "prefix"))
    BY <1>2 DEF StatPlain
  <2> QED
    BY <1>p, <2>1, <2>2, StatBecomes DEF Searching
<1>3. CASE IsPrefixOfObjects(r)
  <2> DEFINE k == Slashed(q.key)
  <2>1. /\ q.stage \in {"prefix", "prefix list"} /\ Plain(q.key) /\ q.key \notin q.kept
        /\ q.object = None /\ AsPrefix(q.key) = k
        /\ q.stage = "prefix list" => Index(k) \notin q.kept
    BY <1>3, <1>q
       DEF IsPrefixOfObjects, In, IsSound, HasLooked, HasObject, Searching, AsPrefix
  <2>2. CASE Say(r, "redirect") \/ Say(r, "error")
    BY <2>1, <2>2, SayBecomes DEF Answers
  <2>3. CASE q.stage = "prefix" /\ Index(k) \notin Stored /\ Go(r, "prefix list")
    <3>1. HasLooked([q EXCEPT !.stage = "prefix list"])
      BY <1>q, <2>1, <2>3 DEF HasLooked, Req
    <3> QED
      BY <2>1, <2>3, <3>1, GoBecomes DEF Stages, Searching
  <2>4. CASE q.stage = "prefix list" /\ ~(q.ask.lists /\ Under(k, Stored) # {}) /\ NotFound(r)
    <3>1. Under(k, q.kept) \subseteq Under(k, Stored)
      BY <1>q DEF Under
    <3>2. IsMissing(q)
      BY <2>1, <2>4, <3>1 DEF IsMissing
    <3> QED
      BY <2>1, <2>4, <3>2, NotFoundBecomes
  <2> QED
    BY <1>3, <2>2, <2>3, <2>4 DEF IsPrefixOfObjects, In
<1> QED
  BY <1>1, <1>2, <1>3

\* The empty key, the listing of a prefix, and the page for what is not found.
LEMMA ListSteps ==
  ASSUME FoundInv, NEW r \in Fetch, StatRoot(r) \/ ServePrefix(r) \/ NotFoundPage(r)
  PROVE  Becomes(r)
<1> DEFINE q == req[r]
<1>q. q \in Req /\ IsSound(q) /\ q.kept \subseteq Stored
  BY DEF FoundInv
<1>1. CASE StatRoot(r)
  <2> DEFINE missing == IF q.ask.slash THEN Go(r, "list") ELSE Say(r, "redirect")
  <2>1. q.stage = "present" /\ IsEmpty(q.key) /\ ~Plain(q.key)
    BY <1>1 DEF StatRoot, In, Plain
  <2>2. q.key \notin q.kept
    BY <1>q, <2>1, LinkAssumption DEF IsEmpty, Stored
  <2>3. ASSUME Index(q.key) \notin Stored, missing
        PROVE  Becomes(r)
    <3>1. HasLooked([q EXCEPT !.stage = "list"])
      BY <1>q, <2>1, <2>2, <2>3 DEF HasLooked, Req
    <3>2. CASE Go(r, "list")
      BY <2>1, <3>1, <3>2, GoBecomes DEF Stages, Searching
    <3>3. CASE Say(r, "redirect")
      BY <2>1, <2>2, <3>3, SayBecomes DEF Answers
    <3> QED
      BY <2>3, <3>2, <3>3
  <2>4. Stat(r, Index(q.key), missing)
    BY <1>1 DEF StatRoot
  <2> QED
    BY <2>1, <2>2, <2>3, <2>4, StatBecomes DEF Searching
<1>2. CASE ServePrefix(r)
  <2>1. /\ q.stage = "list" /\ q.key \notin q.kept /\ Index(q.key) \notin q.kept
        /\ AsPrefix(q.key) = q.key
    BY <1>2, <1>q DEF ServePrefix, In, IsSound, HasLooked, AsPrefix
  <2>2. CASE Say(r, "listing") \/ Say(r, "403") \/ Say(r, "error")
    BY <2>1, <2>2, SayBecomes DEF Answers
  <2>3. CASE Under(q.key, Stored) = {} /\ NotFound(r)
    <3>1. Under(q.key, q.kept) \subseteq Under(q.key, Stored)
      BY <1>q DEF Under
    <3>2. IsMissing(q)
      BY <2>1, <2>3, <3>1 DEF IsMissing
    <3> QED
      BY <2>1, <2>3, <3>2, NotFoundBecomes
  <2> QED
    BY <1>2, <2>2, <2>3 DEF ServePrefix
<1>3. CASE NotFoundPage(r)
  <2>1. q.stage = "404" /\ IsMissing(q)
    BY <1>3, <1>q DEF NotFoundPage, In, IsSound, HasLooked
  <2>2. Say(r, "404 page") \/ Say(r, "404") \/ Say(r, "error")
    BY <1>3 DEF NotFoundPage
  <2> QED
    BY <2>1, <2>2, SayBecomes DEF Answers
<1> QED
  BY <1>1, <1>2, <1>3

\* The places in a header are those of a sequence.
LEMMA HeadersAreLists ==
  ASSUME NEW a \in Asks, a.range # None
  PROVE  DOMAIN a.range = 1..Len(a.range) /\ Len(a.range) \in Nat
<1>1. PICK s \in DOMAIN Scenes : a \in Scenes[s].asks
  BY DEF Asks
<1>2. a.range \in Seq(ByteRange \cup {Malformed})
  BY <1>1, LinkAssumption DEF RangeHeader
<1> QED
  BY <1>2

\* What was found is shown.
LEMMA ShowSteps ==
  ASSUME FoundInv, NEW r \in Fetch, ShowObject(r)
  PROVE  Becomes(r)
<1> DEFINE q == req[r]
           a == q.ask
           o == q.object
<1>q. q \in Req /\ IsSound(q) /\ q.kept \subseteq Stored
  BY DEF FoundInv
<1>1. /\ q.stage = "show" /\ a \in Asks /\ o # None /\ o \in Objects
      /\ o.key \in Key /\ o.size \in Size /\ (o.key = q.key \/ q.key \notin q.kept)
  BY <1>q DEF ShowObject, In, IsSound, HasObject, Req, ObjectOrNone, Objects
<1>2. CASE \E said \in Answers \ {"content", "404", "404 page", "redirect"} : Say(r, said)
  BY <1>1, <1>2, SayBecomes
<1>3. ASSUME NEW c \in Contents, Send(r, c),
             q.opened # None /\ a.method = "GET" /\ AsksForOne(a, o.size) => c = {o.size}
      PROVE  Becomes(r)
  <2> DEFINE x == [q EXCEPT !.stage = "done", !.said = "content", !.content = c]
  <2>1. x \in Req /\ IsSound(x)
    BY <1>q, <1>1, <1>3, SendIsSound
  <2>2. /\ x.stage = "done" /\ x.ask = q.ask /\ x.at = q.at /\ x.after = q.after
        /\ x.kept = q.kept
    BY <1>q DEF Req
  <2>3. req' = [req EXCEPT ![r] = x]
    BY <1>3 DEF Send, FoundInv
  <2> QED
    BY <2>1, <2>2, <2>3 DEF Becomes, Early
<1>4. CASE o.key \notin Stored /\ NotFound(r)
  <2>1. IsMissing(q)
    BY <1>q, <1>1, <1>4 DEF IsMissing
  <2> QED
    BY <1>1, <1>4, <2>1, NotFoundBecomes
<1>o. ASSUME NEW range, SendRange(r, range),
             q.opened # None /\ AsksForOne(a, o.size) => q.opened = range
      PROVE  Becomes(r)
  <2>1. CASE Send(r, {o.size})
    BY <1>1, <1>3, <2>1 DEF Contents
  <2>2. CASE q.opened # range /\ o.key \in Stored /\ Send(r, {stored[o.key]})
    <3>1. {stored[o.key]} \in Contents
      BY <1>1, <2>2 DEF Stored, FoundInv, Sizes, Contents
    <3> QED
      BY <1>3, <1>o, <2>2, <3>1
  <2>3. CASE Say(r, "error")
    BY <1>2, <2>3 DEF Answers
  <2> QED
    BY <1>4, <1>o, <2>1, <2>2, <2>3 DEF SendRange
<1>5. CASE ServeContent(r)
  <2>1. CASE Say(r, "416")
    BY <1>2, <2>1 DEF Answers
  <2>2. CASE a.method = "HEAD" /\ Send(r, {})
    BY <1>3, <2>2 DEF Contents
  <2>3. ASSUME NEW range, range # None, a.method # "HEAD", SendRange(r, range),
               AsksForOne(a, o.size) =>
                 range = IF a.range = None THEN Whole(o.size)
                         ELSE ParseRange(a.range[1], o.size)
        PROVE  Becomes(r)
    <3>1. ASSUME q.opened # None, AsksForOne(a, o.size)
          PROVE  q.opened = range
      <4>1. Predicts(a) /\ q.opened = OptionsToRange(o.size, Options(a))
        BY <1>q, <3>1 DEF IsSound, HasObject
      <4> QED
        BY <1>1, <2>3, <3>1, <4>1, OpensWhatIsWanted
    <3> QED
      BY <1>o, <2>3, <3>1
  <2>4. Whole(o.size) # None
    <3>1. None \notin [start : Int, length : Int] /\ o.size \in Nat
      BY <1>1, LinkAssumption
    <3> QED
      BY <3>1 DEF Whole
  <2>5. CASE ~IsPartial(a) /\ a.method # "HEAD" /\ SendRange(r, Whole(o.size))
    <3>1. AsksForOne(a, o.size) => a.range = None
      BY <2>5 DEF IsPartial, AsksForOne
    <3> QED
      BY <2>3, <2>4, <2>5, <3>1
  <2>6. ASSUME NEW i \in Parts(a, o.size), IsPartial(a), a.method # "HEAD",
               SendRange(r, ParseRange(a.range[i], o.size))
        PROVE  Becomes(r)
    <3>1. AsksForOne(a, o.size) => i = 1
      <4>1. AsksForOne(a, o.size) => Len(a.range) = 1
        BY <2>6 DEF IsPartial, AsksForOne
      <4>2. i \in DOMAIN a.range
        BY <2>6 DEF Parts
      <4>3. DOMAIN a.range = 1..Len(a.range)
        BY <1>1, <2>6, HeadersAreLists DEF IsPartial
      <4> HIDE DEF a
      <4>4. AsksForOne(a, o.size) => i \in 1..1
        BY <4>1, <4>2, <4>3
      <4> QED
        BY <4>4
    <3>2. ParseRange(a.range[i], o.size) # None
      BY <2>6 DEF Parts
    <3> QED
      BY <2>3, <2>6, <3>1, <3>2 DEF IsPartial
  <2>7. CASE IsPartial(a) /\ \E i, j \in Parts(a, o.size) : i # j
    <3>1. ~AsksForOne(a, o.size)
      <4>1. Len(a.range) # 1
        BY <1>1, <2>7, HeadersAreLists DEF Parts, IsPartial
      <4> QED
        BY <2>7, <4>1 DEF IsPartial, AsksForOne
    <3>2. CASE a.method # "HEAD" /\ SendRange(r, Whole(o.size))
      BY <2>3, <2>4, <3>1, <3>2
    <3>3. CASE Go(r, "parts")
      <4>1. HasLooked([q EXCEPT !.stage = "parts"])
        BY <1>q DEF HasLooked, Req
      <4> QED
        BY <1>1, <3>1, <3>3, <4>1, GoBecomes DEF Stages, Searching
    <3> QED
      BY <1>5, <2>1, <2>2, <2>5, <2>6, <2>7, <3>2, <3>3 DEF ServeContent
  <2> QED
    BY <1>5, <2>1, <2>2, <2>5, <2>6, <2>7 DEF ServeContent
<1>6. CASE ServeArchive(r)
  <2>1. Say(r, "416") \/ Say(r, "archive") \/ Say(r, "415")
    BY <1>6 DEF ServeArchive
  <2> QED
    BY <1>2, <2>1 DEF Answers
<1>7. CASE ServePage(r)
  <2>1. Say(r, "listing") \/ Say(r, "map") \/ Say(r, "page") \/ Say(r, "error")
    BY <1>7 DEF ServePage
  <2> QED
    BY <1>2, <2>1 DEF Answers
<1> QED
  BY <1>5, <1>6, <1>7 DEF ShowObject

\* Of several ranges, whatever versions they are of.
LEMMA PartSteps ==
  ASSUME FoundInv, NEW r \in Fetch, SendPart(r)
  PROVE  Becomes(r)
<1> DEFINE q == req[r]
           i == q.part
<1>1. /\ q \in Req /\ IsSound(q) /\ q.stage = "parts" /\ q.object \in Objects
      /\ ~AsksForOne(q.ask, q.object.size)
  BY DEF FoundInv, SendPart, In, IsSound, HasObject, Req, ObjectOrNone
<1>2. CASE Say(r, "content")
  <2> DEFINE x == [q EXCEPT !.stage = "done", !.said = "content", !.content = q.content]
  <2>1. q.content \in Contents
    BY <1>1 DEF Req
  <2>2. x \in Req /\ IsSound(x)
    BY <1>1, <2>1, SendIsSound
  <2>3. /\ x.stage = "done" /\ x.ask = q.ask /\ x.at = q.at /\ x.after = q.after
        /\ x.kept = q.kept
    BY <1>1 DEF Req
  <2>4. x = [q EXCEPT !.stage = "done", !.said = "content"]
    BY <1>1 DEF Req
  <2>5. req' = [req EXCEPT ![r] = x]
    BY <1>2, <2>4 DEF Say, FoundInv
  <2> QED
    BY <2>2, <2>3, <2>5 DEF Becomes, Early
<1>3. CASE Say(r, "cut off")
  BY <1>1, <1>3, SayBecomes DEF Answers
<1>4. ASSUME NEW versions \in Contents,
             req' = [req EXCEPT ![r].part = i + 1, ![r].content = @ \cup versions]
      PROVE  Becomes(r)
  <2> DEFINE x == [q EXCEPT !.part = i + 1, !.content = q.content \cup versions]
  <2>1. /\ x \in Req /\ x.stage = q.stage /\ x.kept = q.kept /\ x.ask = q.ask
        /\ x.key = q.key /\ x.index = q.index /\ x.object = q.object
        /\ x.opened = q.opened /\ x.said = q.said /\ x.at = q.at /\ x.after = q.after
    <3>1. i + 1 \in Nat /\ q.content \cup versions \in Contents
      BY <1>1, <1>4 DEF Req, Contents
    <3> DEFINE p == [q EXCEPT !.part = i + 1]
    <3>2. p \in Req
      BY ONLY <1>1, <3>1, Edits
    <3>3. x = [p EXCEPT !.content = q.content \cup versions]
      BY ONLY <1>1 DEF Req
    <3>4. x \in Req
      BY ONLY <3>1, <3>2, <3>3, Edits
    <3> QED
      BY <1>1, <3>4 DEF Req
  <2>2. HasLooked(x)
    BY <1>1, <2>1 DEF HasLooked
  <2>3. HasIndex(x)
    BY <1>1, <2>1 DEF HasIndex, IsSound
  <2>4. HasObject(x)
    BY <1>1, <2>1 DEF HasObject, IsSound, Searching
  <2>5. IsSound(x)
    BY <1>1, <2>1, <2>2, <2>3, <2>4 DEF IsSound
  <2>6. req' = [req EXCEPT ![r] = x]
    BY <1>4 DEF FoundInv
  <2> HIDE DEF x
  <2> QED
    BY <1>1, <2>1, <2>5, <2>6 DEF Becomes, Early
<1>5. /\ {} \in Contents /\ {q.object.size} \in Contents
      /\ q.object.key \in Stored => {stored[q.object.key]} \in Contents
  BY <1>1 DEF Contents, Objects, Stored, FoundInv, Sizes
<1> QED
  BY <1>2, <1>3, <1>4, <1>5 DEF SendPart

\* Whatever call is made, the request stays sound.
LEMMA PresentBecomes ==
  ASSUME FoundInv, NEW r \in Fetch, PresentStep(r)
  PROVE  Becomes(r)
BY SlashSteps, PlainSteps, ListSteps, ShowSteps, PartSteps DEF PresentStep
-----------------------------------------------------------------------------
(* Requests as users of the cache.                                         *)

\* A request uses the cache for the host that it is for; a goroutine updates the cache
\* for one that has a record already.
IsUser(r) ==
  /\ In(r, "idle") => fetch[r].stage = "idle" /\ got[r] = None /\ req[r].after = {}
  /\ fetch[r].stage # "idle" =>
       /\ fetch[r].host = req[r].ask.host
       /\ IF fetch[r].background THEN got[r] \in Record ELSE got[r] = None
  /\ req[r].at <= now
  /\ \A s \in req[r].after : In(s, "done") /\ fetch[s].stage = "idle"

\* Who is shown something in a hosted domain has the record of it.
HasPage(r) ==
  /\ In(r, "access") => req[r].ask.page # "hosted"
  /\ req[r].stage \notin Early \cup {"done"} /\ req[r].ask.page = "hosted" => got[r] \in Record

\* A record of no earlier than some time; and a request that got one that had expired.
IsFresh(x, t) == x \notin {None, Failed} => x.expires >= t
IsStale(s) == got[s] \notin {None, Failed} /\ got[s].expires < req[s].at

\* Whoever waits for an update gets a record that is no older than the request.  Who got
\* an expired one has an update under way that replaces it, if nobody else does, and
\* then there is none in the cache that had expired; so those who come later get none.
HasFlushed(s) ==
  LET h == req[s].ask.host
      waits == fetch[s].stage # "idle" /\ ~fetch[s].background
  IN  /\ waits => IsFresh(cache[h], req[s].at) /\ IsFresh(fetch[s].result, req[s].at)
      /\ IsStale(s) =>
           /\ fetch[s].stage # "idle" => fetch[s].expect = got[s].expires
           /\ cache[h] # None =>
                cache[h].expires = got[s].expires \/ cache[h].expires >= req[s].at
           /\ fetch[s].stage \in {"unlock", "release", "idle"} =>
                IsFresh(cache[h], req[s].at)
      /\ \A p \in req[s].after : req[p].ask.host = h /\ IsStale(p) =>
           /\ IsFresh(got[s], req[p].at)
           /\ waits => IsFresh(fetch[s].result, req[p].at)

UserInv == \A r \in Fetch : IsUser(r) /\ HasPage(r) /\ HasFlushed(r)

LinkInv == InScene /\ TxtInv /\ FoundInv /\ UserInv /\ {writes, broken} \subseteq Nat
-----------------------------------------------------------------------------
\* How an update goes on: it returns, or has the record that was there, or takes it
\* away, or stores a new one, or comes nearer to one of these.
Returns(f) ==
  /\ fetch[f].stage = "release" /\ fetch'[f].stage = "idle" /\ cache' = cache
  /\ got'[f] = IF fetch[f].background THEN got[f] ELSE fetch[f].result

GoesOn(f) ==
  LET h == fetch[f].host
  IN  /\ got' = got
      /\ fetch'[f].stage # "idle" /\ fetch'[f].host = h
      /\ fetch'[f].expect = fetch[f].expect /\ fetch'[f].background = fetch[f].background
      /\ \/ /\ cache' = cache /\ fetch'[f].result = fetch[f].result
            /\ fetch'[f].stage \in {"unlock", "release"} => fetch[f].stage = "unlock"
         \/ /\ cache' = cache /\ cache[h] # None /\ fetch'[f].result = cache[h]
            /\ fetch[f].expect = Zero \/ cache[h].expires # fetch[f].expect
         \/ /\ cache' = [cache EXCEPT ![h] = None] /\ fetch'[f].result = Failed
         \/ \E record \in Record :
              /\ cache' = [cache EXCEPT ![h] = record] /\ fetch'[f].result = record
              /\ record.expires >= now

LEMMA HowUpdatesGo ==
  ASSUME TxtInv, NEW f \in Fetch, UpdateStep(f)
  PROVE  /\ fetch[f].stage # "idle" /\ fetch[f].host \in Host /\ now' = now
         /\ \A g \in Fetch \ {f} : fetch'[g] = fetch[g] /\ got'[g] = got[g]
         /\ Returns(f) \/ GoesOn(f)
<1>t. /\ fetch \in [Fetch -> FetchState] /\ cache \in [Host -> Record \cup {None}]
      /\ got \in [Fetch -> Record \cup {Failed, None}] /\ now \in Nat
  BY DEF TxtInv, MutexInv, TxtTypeOK
<1>1. fetch[f].stage # "idle" /\ now' = now
  BY DEF UpdateStep, LockName, Acquire, Check, QueryDNS, ParseAndStore, Unlock, Release,
         Updating
<1>2. fetch[f].host \in Host
  BY <1>1 DEF TxtInv, MutexInv
<1>3. CASE LockName(f) \/ Acquire(f) \/ Unlock(f)
  <2>1. PICK x \in {[fetch[f] EXCEPT !.stage = "wait", !.mutex = m] : m \in Mutex}
                   \cup {[fetch[f] EXCEPT !.stage = "check"]}
                   \cup {[fetch[f] EXCEPT !.stage = "release"]} :
          /\ fetch' = [fetch EXCEPT ![f] = x] /\ cache' = cache /\ got' = got
          /\ x.stage = "release" => fetch[f].stage = "unlock"
    <3>1. CASE LockName(f)
      <4>1. PICK m \in Mutex : fetch' = [fetch EXCEPT ![f].stage = "wait", ![f].mutex = m]
        <5>1. names[fetch[f].host] \in Mutex \cup {None}
          BY <1>2 DEF TxtInv, MutexInv, TxtTypeOK
        <5> QED
          BY <3>1, <5>1 DEF LockName, Unused
      <4>2. fetch' = [fetch EXCEPT ![f] = [fetch[f] EXCEPT !.stage = "wait", !.mutex = m]]
        BY <1>t, <4>1
      <4>3. [fetch[f] EXCEPT !.stage = "wait", !.mutex = m].stage # "release"
        BY <1>t DEF FetchState
      <4> QED
        BY <3>1, <4>2, <4>3 DEF LockName
    <3>2. CASE Acquire(f)
      <4>1. fetch' = [fetch EXCEPT ![f] = [fetch[f] EXCEPT !.stage = "check"]]
        BY <1>t, <3>2 DEF Acquire
      <4>2. [fetch[f] EXCEPT !.stage = "check"].stage # "release"
        BY <1>t DEF FetchState
      <4> QED
        BY <3>2, <4>1, <4>2 DEF Acquire
    <3>3. CASE Unlock(f)
      <4>1. fetch' = [fetch EXCEPT ![f] = [fetch[f] EXCEPT !.stage = "release"]]
        BY <1>t, <3>3 DEF Unlock
      <4> QED
        BY <3>3, <4>1 DEF Unlock, Updating
    <3> QED
      BY <1>3, <3>1, <3>2, <3>3
  <2>2. /\ x.host = fetch[f].host /\ x.expect = fetch[f].expect
        /\ x.background = fetch[f].background /\ x.result = fetch[f].result
        /\ x.stage \in {"wait", "check", "release"}
    <3>1. fetch[f] \in FetchState
      BY <1>t
    <3>2. ASSUME NEW m \in Mutex, x = [fetch[f] EXCEPT !.stage = "wait", !.mutex = m]
          PROVE  /\ x.host = fetch[f].host /\ x.expect = fetch[f].expect
                 /\ x.background = fetch[f].background /\ x.result = fetch[f].result
                 /\ x.stage \in {"wait", "check", "release"}
      BY <3>1, <3>2 DEF FetchState
    <3>3. ASSUME NEW stage \in {"check", "release"}, x = [fetch[f] EXCEPT !.stage = stage]
          PROVE  /\ x.host = fetch[f].host /\ x.expect = fetch[f].expect
                 /\ x.background = fetch[f].background /\ x.result = fetch[f].result
                 /\ x.stage \in {"wait", "check", "release"}
      BY <3>1, <3>3 DEF FetchState
    <3> QED
      BY <2>1, <3>2, <3>3
  <2>3. GoesOn(f)
    BY <1>t, <2>1, <2>2 DEF GoesOn
  <2> QED
    BY <1>t, <1>1, <1>2, <2>1, <2>3
<1>4. CASE Release(f)
  <2>1. Returns(f)
    BY <1>t, <1>4 DEF Returns, Release, Return, Updating, NoFetch
  <2> QED
    BY <1>t, <1>1, <1>2, <1>4, <2>1 DEF Release, Return
<1>5. ASSUME NEW x \in {[fetch[f] EXCEPT !.stage = s] : s \in {"query"}}
                   \cup {[fetch[f] EXCEPT !.stage = "resolve", !.answer = dns[fetch[f].host]]},
             fetch' = [fetch EXCEPT ![f] = x], cache' = cache, got' = got
      PROVE  GoesOn(f)
  BY <1>t, <1>5 DEF GoesOn, FetchState
<1>6. ASSUME NEW result, Finish(f, result), got' = got,
             \/ /\ cache' = cache /\ cache[fetch[f].host] # None
                /\ result = cache[fetch[f].host]
                /\ \/ fetch[f].expect = Zero
                   \/ cache[fetch[f].host].expires # fetch[f].expect
             \/ cache' = [cache EXCEPT ![fetch[f].host] = None] /\ result = Failed
             \/ /\ result \in Record /\ result.expires >= now
                /\ cache' = [cache EXCEPT ![fetch[f].host] = result]
      PROVE  GoesOn(f) /\ \A g \in Fetch \ {f} : fetch'[g] = fetch[g]
  <2> DEFINE x == [fetch[f] EXCEPT !.stage = "unlock", !.result = result]
  <2>1. fetch' = [fetch EXCEPT ![f] = x]
    BY <1>t, <1>6 DEF Finish
  <2>2. /\ x.stage = "unlock" /\ x.host = fetch[f].host /\ x.expect = fetch[f].expect
        /\ x.background = fetch[f].background /\ x.result = result
    BY <1>t DEF FetchState
  <2>3. fetch'[f] = x
    BY <1>t, <2>1
  <2> HIDE DEF x
  <2> QED
    BY <1>t, <1>6, <2>1, <2>2, <2>3 DEF GoesOn
<1>7. CASE Check(f)
  <2>1. CASE Finish(f, cache[fetch[f].host])
             /\ cache[fetch[f].host] # None
             /\ (fetch[f].expect = Zero \/ cache[fetch[f].host].expires # fetch[f].expect)
    BY <1>1, <1>2, <1>6, <1>7, <2>1 DEF Check
  <2>2. CASE fetch' = [fetch EXCEPT ![f].stage = "query"]
    <3>1. fetch' = [fetch EXCEPT ![f] = [fetch[f] EXCEPT !.stage = "query"]]
      BY <1>t, <2>2
    <3>2. GoesOn(f)
      BY <1>5, <1>7, <3>1 DEF Check
    <3> QED
      BY <1>t, <1>1, <1>2, <1>7, <3>1, <3>2 DEF Check
  <2> QED
    BY <1>7, <2>1, <2>2 DEF Check
<1>8. CASE QueryDNS(f)
  <2>1. CASE UpdateFails(f)
    BY <1>1, <1>2, <1>6, <1>8, <2>1 DEF QueryDNS, UpdateFails
  <2>2. CASE fetch' = [fetch EXCEPT ![f].stage = "resolve", ![f].answer = dns[fetch[f].host]]
             /\ cache' = cache
    <3>1. fetch' = [fetch EXCEPT ![f] =
                      [fetch[f] EXCEPT !.stage = "resolve", !.answer = dns[fetch[f].host]]]
      BY <1>t, <2>2
    <3>2. GoesOn(f)
      BY <1>5, <1>8, <2>2, <3>1 DEF QueryDNS
    <3> QED
      BY <1>t, <1>1, <1>2, <1>8, <3>1, <3>2 DEF QueryDNS
  <2> QED
    BY <1>8, <2>1, <2>2 DEF QueryDNS
<1>9. CASE ParseAndStore(f)
  <2> DEFINE a == fetch[f].answer
             record == [version |-> a.version, access |-> a.text.access, root |-> a.text.root,
                        tls |-> a.text.tls, expires |-> now + Smaller(a.text.ttl, MaxTTL)]
  <2>1. CASE UpdateFails(f)
    BY <1>1, <1>2, <1>6, <1>9, <2>1 DEF ParseAndStore, UpdateFails
  <2>2. CASE /\ a.text.access # "invalid" /\ Finish(f, record)
             /\ cache' = [cache EXCEPT ![fetch[f].host] = record]
    <3>1. a \in DnsAnswer
      BY <1>9 DEF ParseAndStore, Updating, TxtInv, CacheInv, AnswerIsNewer
    <3>2. PICK text \in Text : text = a.text
      BY <3>1 DEF DnsAnswer
    <3>3. text.access \in {"grant", "key"} /\ text.tls \in BOOLEAN /\ text.ttl \in Nat
      BY <2>2, <3>2, TxtAssumption
    <3>4. Smaller(text.ttl, MaxTTL) \in Nat
      BY <3>3, TxtAssumption DEF Smaller
    <3>5. record \in Record /\ record.expires >= now
      BY <1>t, <3>1, <3>2, <3>3, <3>4 DEF Record, DnsAnswer
    <3> QED
      BY <1>1, <1>2, <1>6, <1>9, <2>2, <3>5 DEF ParseAndStore
  <2> QED
    BY <1>9, <2>1, <2>2 DEF ParseAndStore
<1> QED
  BY <1>3, <1>4, <1>7, <1>8, <1>9 DEF UpdateStep
\* The types that the records of the cache and the times of requests have.
LEMMA CacheIsTyped ==
  ASSUME TxtInv, FoundInv
  PROVE  /\ now \in Nat /\ fetch \in [Fetch -> FetchState]
         /\ cache \in [Host -> Record \cup {None}]
         /\ got \in [Fetch -> Record \cup {Failed, None}]
         /\ \A x \in Record : x.expires \in Nat /\ x.expires # None /\ x # None
         /\ Failed # None
         /\ \A r \in Fetch : req[r].at \in Nat /\ req[r].after \subseteq Fetch
<1>1. \A x \in Record : x.expires \in Nat
  BY DEF Record
<1>2. None \notin Nat /\ None \notin Record /\ Failed # None
  BY LinkAssumption, TxtAssumption
<1>3. \A r \in Fetch : req[r].at \in Nat /\ req[r].after \subseteq Fetch
  BY DEF FoundInv, Req, FetchSets
<1> QED
  BY <1>1, <1>2, <1>3 DEF TxtInv, MutexInv, TxtTypeOK

\* Every record of the cache is the one that was there, or has not expired.
Ages ==
  \A h \in Host : \/ cache'[h] = cache[h]
                  \/ cache'[h] = None
                  \/ cache'[h] \in Record /\ cache'[h].expires >= now

\* Nothing happens to a request, or to those that were over when it came.
Rests(r) ==
  /\ fetch'[r] = fetch[r] /\ got'[r] = got[r]
  /\ req'[r].ask = req[r].ask /\ req'[r].at = req[r].at /\ req'[r].after = req[r].after
  /\ \A p \in req[r].after :
       got'[p] = got[p] /\ req'[p].ask = req[p].ask /\ req'[p].at = req[p].at

LEMMA AsksAHost ==
  ASSUME FoundInv, NEW r \in Fetch, req[r].stage # "idle"
  PROVE  req[r].ask.host \in Host
<1>1. req[r].ask \in Asks
  BY DEF FoundInv, IsSound
<1> QED
  <2>1. PICK s \in DOMAIN Scenes : req[r].ask \in Scenes[s].asks
    BY <1>1 DEF Asks
  <2>2. \A a \in Scenes[s].asks : a.host \in Host
    BY LinkAssumption
  <2> QED
    BY <2>1, <2>2

\* What is fresh stays so while the cache only ages.
LEMMA StaysFresh ==
  ASSUME TxtInv, FoundInv, Ages, NEW h \in Host, NEW t \in Nat, t <= now,
         IsFresh(cache[h], t)
  PROVE  IsFresh(cache'[h], t)
<1>1. \A x \in Record : x.expires \in Nat
  BY CacheIsTyped
<1>2. now \in Nat
  BY CacheIsTyped
<1> QED
  BY <1>1, <1>2 DEF Ages, IsFresh

\* What is stored in the meantime is no older than the requests that are there.
LEMMA RestingStaysFlushed ==
  ASSUME TxtInv, FoundInv, Ages, NEW r \in Fetch, IsUser(r), HasFlushed(r), Rests(r)
  PROVE  HasFlushed(r)'
<1> DEFINE h == req[r].ask.host
<1>t. /\ now \in Nat /\ req[r].at \in Nat /\ req[r].at <= now
      /\ got[r] \in Record \cup {Failed, None}
      /\ \A x \in Record : x.expires \in Nat /\ x.expires # None /\ x # None
  BY CacheIsTyped DEF IsUser
<1>1. CASE req[r].stage = "idle"
  <2>1. fetch[r].stage = "idle" /\ got[r] = None /\ req[r].after = {}
    BY <1>1 DEF IsUser, In
  <2> QED
    BY <2>1 DEF HasFlushed, Rests, IsStale
<1>2. CASE req[r].stage # "idle"
  <2>1. h \in Host
    BY <1>2, AsksAHost
  <2>2. IsFresh(cache[h], req[r].at) => IsFresh(cache'[h], req[r].at)
    BY <1>t, <2>1, StaysFresh
  <2>3. \/ cache'[h] = cache[h] \/ cache'[h] = None
        \/ cache'[h] \in Record /\ cache'[h].expires >= now
    BY <2>1 DEF Ages
  <2>4. IsStale(r)' <=> IsStale(r)
    BY DEF IsStale, Rests
  <2>5. ASSUME IsStale(r), cache'[h] # None
        PROVE  cache'[h].expires = got[r].expires \/ cache'[h].expires >= req[r].at
    <3>1. CASE cache'[h] = cache[h]
      BY <2>5, <3>1 DEF HasFlushed
    <3>2. CASE cache'[h] \in Record /\ cache'[h].expires >= now
      BY <1>t, <3>2
    <3> QED
      BY <2>3, <2>5, <3>1, <3>2
  <2>6. \A p \in req[r].after : IsStale(p)' <=> IsStale(p)
    BY DEF IsStale, Rests
  <2>7. \A p \in req[r].after : req'[p].ask.host = h /\ IsStale(p)' =>
          /\ IsFresh(got[r], req'[p].at)
          /\ fetch[r].stage # "idle" /\ ~fetch[r].background =>
               IsFresh(fetch[r].result, req'[p].at)
    BY <2>6 DEF HasFlushed, Rests
  <2>8. fetch[r].stage # "idle" /\ ~fetch[r].background =>
          IsFresh(cache'[h], req[r].at) /\ IsFresh(fetch[r].result, req[r].at)
    BY <2>2 DEF HasFlushed
  <2>9. IsStale(r) /\ fetch[r].stage # "idle" => fetch[r].expect = got[r].expires
    BY DEF HasFlushed
  <2>10. IsStale(r) /\ fetch[r].stage \in {"unlock", "release", "idle"} =>
           IsFresh(cache'[h], req[r].at)
    BY <2>2 DEF HasFlushed
  <2>11. /\ fetch'[r] = fetch[r] /\ got'[r] = got[r] /\ req'[r].at = req[r].at
         /\ req'[r].ask.host = h /\ req'[r].after = req[r].after
    BY DEF Rests
  <2> HIDE DEF h
  <2> QED
    BY <2>4, <2>5, <2>7, <2>8, <2>9, <2>10, <2>11 DEF HasFlushed
<1> QED
  BY <1>1, <1>2
\* Updates only let the cache age.
LEMMA UpdateAges ==
  ASSUME TxtInv, FoundInv, NEW r \in Fetch, UpdateStep(r)
  PROVE  Ages
<1>t. cache \in [Host -> Record \cup {None}]
  BY CacheIsTyped
<1>1. fetch[r].host \in Host /\ (Returns(r) \/ GoesOn(r))
  BY HowUpdatesGo
<1>2. \A h \in Host \ {fetch[r].host} : cache'[h] = cache[h]
  BY <1>t, <1>1 DEF Returns, GoesOn
<1>3. \/ cache'[fetch[r].host] = cache[fetch[r].host] \/ cache'[fetch[r].host] = None
      \/ cache'[fetch[r].host] \in Record /\ cache'[fetch[r].host].expires >= now
  BY <1>t, <1>1 DEF Returns, GoesOn
<1> QED
  BY <1>2, <1>3 DEF Ages

\* Who was over when another came has nothing under way.
LEMMA OverIsOver ==
  ASSUME NEW s \in Fetch, IsUser(s), NEW r \in Fetch, fetch[r].stage # "idle"
  PROVE  r \notin req[s].after
BY DEF IsUser

\* An update that returns gives its request what it was to have.
LEMMA ReturnKeepsUser ==
  ASSUME TxtInv, FoundInv, UserInv, NEW r \in Fetch, UpdateStep(r), Returns(r), req' = req
  PROVE  IsUser(r)' /\ HasPage(r)' /\ HasFlushed(r)'
<1> DEFINE h == req[r].ask.host
<1>t. /\ now \in Nat /\ got[r] \in Record \cup {Failed, None}
      /\ \A x \in Record : x.expires \in Nat /\ x # None
      /\ req[r].at \in Nat /\ req[r].after \subseteq Fetch /\ fetch \in [Fetch -> FetchState]
  BY CacheIsTyped
<1>1. /\ fetch[r].stage = "release" /\ fetch'[r].stage = "idle" /\ cache' = cache
      /\ got'[r] = IF fetch[r].background THEN got[r] ELSE fetch[r].result
      /\ now' = now /\ \A g \in Fetch \ {r} : fetch'[g] = fetch[g] /\ got'[g] = got[g]
  BY HowUpdatesGo DEF Returns
<1>2. IsUser(r) /\ HasPage(r) /\ HasFlushed(r) /\ req[r].stage # "idle"
  BY <1>1 DEF UserInv, IsUser, In
<1>3. fetch[r].background \in BOOLEAN
  BY <1>t DEF FetchState
<1>p. \A p \in req[r].after : p \in Fetch \ {r} /\ fetch'[p] = fetch[p] /\ got'[p] = got[p]
  BY <1>t, <1>1, <1>2, OverIsOver
<1>4. IsUser(r)'
  BY <1>1, <1>2, <1>p DEF IsUser, In
<1>5. HasPage(r)'
  BY <1>t, <1>1, <1>2 DEF HasPage, IsUser, In
<1>6. \A p \in req[r].after : IsStale(p)' <=> IsStale(p)
  BY <1>p DEF IsStale
<1>7. IsStale(r)' =>
        /\ cache[h] # None =>
             cache[h].expires = got'[r].expires \/ cache[h].expires >= req[r].at
        /\ IsFresh(cache[h], req[r].at)
  <2>1. CASE fetch[r].background
    <3>1. IsStale(r)' <=> IsStale(r)
      BY <1>1, <2>1 DEF IsStale
    <3> QED
      BY <1>1, <1>2, <2>1, <3>1 DEF HasFlushed
  <2>2. CASE ~fetch[r].background
    <3>1. IsFresh(fetch[r].result, req[r].at) /\ got'[r] = fetch[r].result
      BY <1>1, <1>2, <2>2 DEF HasFlushed
    <3>2. fetch[r].result \in Record \cup {Failed, None}
      BY <1>t DEF FetchState
    <3>3. ~IsStale(r)'
      BY <1>t, <3>1, <3>2 DEF IsStale, IsFresh
    <3> QED
      BY <3>3
  <2> QED
    BY <1>3, <2>1, <2>2
<1>8. ASSUME NEW p \in req[r].after, req[p].ask.host = h, IsStale(p)
      PROVE  IsFresh(got'[r], req[p].at)
  <2>1. /\ IsFresh(got[r], req[p].at)
        /\ ~fetch[r].background => IsFresh(fetch[r].result, req[p].at)
    BY <1>1, <1>2, <1>8 DEF HasFlushed
  <2> QED
    BY <1>1, <2>1
<1>9. HasFlushed(r)'
  <2> HIDE DEF h
  <2>1. req'[r].ask.host = h
    BY DEF h
  <2> QED
    BY <1>1, <1>6, <1>7, <1>8, <2>1 DEF HasFlushed
<1> QED
  BY <1>4, <1>5, <1>9

\* An update that goes on finds or stores a record that has not expired when its request
\* came, nor when those came that were over then.
LEMMA GoingOnKeepsUser ==
  ASSUME TxtInv, FoundInv, UserInv, NEW r \in Fetch, UpdateStep(r), GoesOn(r), req' = req
  PROVE  IsUser(r)' /\ HasPage(r)' /\ HasFlushed(r)'
<1> DEFINE h == req[r].ask.host
           waits == fetch[r].stage # "idle" /\ ~fetch[r].background
<1>t. /\ now \in Nat /\ got[r] \in Record \cup {Failed, None}
      /\ \A x \in Record : x.expires \in Nat /\ x.expires # None /\ x # None
      /\ req[r].at \in Nat /\ req[r].after \subseteq Fetch
      /\ cache \in [Host -> Record \cup {None}]
      /\ \A p \in req[r].after : req[p].at \in Nat
  BY CacheIsTyped
<1>1. /\ fetch[r].stage # "idle" /\ fetch[r].host \in Host /\ got' = got
      /\ fetch'[r].stage # "idle" /\ fetch'[r].host = fetch[r].host
      /\ fetch'[r].expect = fetch[r].expect /\ fetch'[r].background = fetch[r].background
      /\ now' = now /\ \A g \in Fetch \ {r} : fetch'[g] = fetch[g]
  BY HowUpdatesGo DEF GoesOn
<1>2. IsUser(r) /\ HasPage(r) /\ HasFlushed(r) /\ req[r].stage # "idle"
  BY <1>1 DEF UserInv, IsUser, In
<1>h. h = fetch[r].host /\ h \in Host
  BY <1>1, <1>2 DEF IsUser
<1>p. \A p \in req[r].after : p \in Fetch \ {r} /\ fetch'[p] = fetch[p]
  BY <1>t, <1>1, <1>2, OverIsOver
<1>4. IsUser(r)'
  BY <1>1, <1>2, <1>p DEF IsUser, In
<1>5. HasPage(r)'
  BY <1>1, <1>2 DEF HasPage, In
<1>6. Ages
  BY UpdateAges
<1>s. \A p : IsStale(p)' <=> IsStale(p)
  BY <1>1 DEF IsStale
<1>r. \/ /\ cache' = cache /\ fetch'[r].result = fetch[r].result
         /\ fetch'[r].stage \in {"unlock", "release"} => fetch[r].stage = "unlock"
      \/ /\ cache' = cache /\ cache[h] # None /\ fetch'[r].result = cache[h]
         /\ fetch[r].expect = Zero \/ cache[h].expires # fetch[r].expect
      \/ cache'[h] = None /\ fetch'[r].result = Failed
      \/ /\ cache'[h] \in Record /\ fetch'[r].result = cache'[h]
         /\ cache'[h].expires >= now
  BY <1>t, <1>h DEF GoesOn
<1>7. ASSUME NEW t \in Nat, t <= now, IsFresh(fetch[r].result, t), IsFresh(cache[h], t)
      PROVE  IsFresh(fetch'[r].result, t)
  BY <1>t, <1>r, <1>7 DEF IsFresh
<1>8. waits => IsFresh(cache'[h], req[r].at) /\ IsFresh(fetch'[r].result, req[r].at)
  <2> SUFFICES ASSUME waits
               PROVE  IsFresh(cache'[h], req[r].at) /\ IsFresh(fetch'[r].result, req[r].at)
    OBVIOUS
  <2>1. IsFresh(cache[h], req[r].at) /\ IsFresh(fetch[r].result, req[r].at)
        /\ req[r].at <= now
    BY <1>2 DEF HasFlushed, IsUser
  <2> QED
    BY <1>t, <1>h, <1>6, <1>7, <2>1, StaysFresh
<1>9. ASSUME IsStale(r)
      PROVE  /\ fetch[r].expect = got[r].expires
             /\ cache'[h] # None =>
                  cache'[h].expires = got[r].expires \/ cache'[h].expires >= req[r].at
             /\ fetch'[r].stage \in {"unlock", "release", "idle"} =>
                  IsFresh(cache'[h], req[r].at)
  <2>1. /\ fetch[r].expect = got[r].expires /\ got[r] \in Record /\ req[r].at <= now
        /\ cache[h] # None =>
             cache[h].expires = got[r].expires \/ cache[h].expires >= req[r].at
        /\ fetch[r].stage = "unlock" => IsFresh(cache[h], req[r].at)
    BY <1>t, <1>1, <1>2, <1>9 DEF HasFlushed, IsStale, IsUser
  <2>2. fetch[r].expect # Zero
    BY <1>t, <2>1 DEF Zero
  <2>3. cache'[h] # None =>
          cache'[h].expires = got[r].expires \/ cache'[h].expires >= req[r].at
    BY <1>t, <1>r, <1>h, <2>1
  <2>4. fetch'[r].stage \in {"unlock", "release"} => IsFresh(cache'[h], req[r].at)
    BY <1>t, <1>r, <1>h, <2>1, <2>2 DEF IsFresh
  <2> QED
    BY <1>1, <2>1, <2>3, <2>4
<1>10. ASSUME NEW p \in req[r].after, req[p].ask.host = h, IsStale(p)
       PROVE  IsFresh(got[r], req[p].at) /\ (waits => IsFresh(fetch'[r].result, req[p].at))
  <2>1. fetch[p].stage = "idle" /\ IsUser(p) /\ HasFlushed(p)
    BY <1>2, <1>t DEF IsUser, UserInv
  <2>2. IsFresh(cache[h], req[p].at) /\ req[p].at <= now
    BY <1>10, <2>1 DEF HasFlushed, IsUser
  <2>3. IsFresh(got[r], req[p].at) /\ (waits => IsFresh(fetch[r].result, req[p].at))
    BY <1>2, <1>10 DEF HasFlushed
  <2> QED
    BY <1>t, <1>7, <2>2, <2>3
<1>11. HasFlushed(r)'
  <2> HIDE DEF h
  <2>1. req'[r].ask.host = h
    BY DEF h
  <2> QED
    BY <1>1, <1>s, <1>8, <1>9, <1>10, <2>1 DEF HasFlushed
<1> QED
  BY <1>4, <1>5, <1>11
\* A request that nothing happens to remains a user of the cache as it was.
LEMMA RestingStaysUser ==
  ASSUME TxtInv, FoundInv, UserInv, Ages, now' \in Nat, now' >= now,
         NEW r \in Fetch, Rests(r), req'[r].stage = req[r].stage,
         \A p \in req[r].after : In(p, "done")' /\ fetch'[p].stage = "idle"
  PROVE  IsUser(r)' /\ HasPage(r)' /\ HasFlushed(r)'
<1>1. IsUser(r) /\ HasPage(r) /\ HasFlushed(r) /\ now \in Nat /\ req[r].at \in Nat
  BY CacheIsTyped DEF UserInv
<1>2. IsUser(r)'
  <2>1. req[r].at <= now'
    BY <1>1 DEF IsUser
  <2> QED
    BY <1>1, <2>1 DEF IsUser, Rests, In
<1>3. HasPage(r)'
  BY <1>1 DEF HasPage, Rests, In
<1> QED
  BY <1>1, <1>2, <1>3, RestingStaysFlushed

\* An update keeps all users in order.
LEMMA UpdateKeepsUsers ==
  ASSUME TxtInv, FoundInv, UserInv, NEW r \in Fetch, UpdateStep(r), req' = req
  PROVE  UserInv'
<1>1. /\ fetch[r].stage # "idle" /\ now' = now /\ now \in Nat
      /\ \A g \in Fetch \ {r} : fetch'[g] = fetch[g] /\ got'[g] = got[g]
      /\ Returns(r) \/ GoesOn(r)
  BY HowUpdatesGo, CacheIsTyped
<1>2. IsUser(r)' /\ HasPage(r)' /\ HasFlushed(r)'
  BY <1>1, ReturnKeepsUser, GoingOnKeepsUser
<1>3. ASSUME NEW s \in Fetch \ {r}
      PROVE  IsUser(s)' /\ HasPage(s)' /\ HasFlushed(s)'
  <2>1. IsUser(s) /\ req[s].after \subseteq Fetch
    BY CacheIsTyped DEF UserInv
  <2>2. \A p \in req[s].after : p \in Fetch \ {r} /\ In(p, "done") /\ fetch[p].stage = "idle"
    BY <1>1, <2>1, OverIsOver DEF IsUser
  <2>3. Rests(s) /\ \A p \in req[s].after : In(p, "done")' /\ fetch'[p].stage = "idle"
    BY <1>1, <2>2 DEF Rests, In
  <2> QED
    BY <1>1, <2>3, UpdateAges, RestingStaysUser
<1> QED
  BY <1>2, <1>3 DEF UserInv

\* A request goes on, and the cache is left alone.
LEMMA GoesOnSoundly ==
  ASSUME TxtInv, FoundInv, UserInv, NEW r \in Fetch, Becomes(r), ~In(r, "done"),
         UNCHANGED txtVars, stored' = stored,
         ~In(r, "done")' /\ req[r].ask.page = "hosted" => got[r] \in Record
  PROVE  FoundInv' /\ UserInv'
<1>1. PICK x \in Req :
        /\ req' = [req EXCEPT ![r] = x] /\ IsSound(x) /\ x.stage \notin Early
        /\ x.ask = req[r].ask /\ x.at = req[r].at /\ x.after = req[r].after
        /\ x.kept = req[r].kept
  BY DEF Becomes
<1>2. req \in [Fetch -> Req] /\ req' \in [Fetch -> Req] /\ req'[r] = x
      /\ \A s \in Fetch \ {r} : req'[s] = req[s]
  BY <1>1 DEF FoundInv
<1>3. FoundInv'
  BY <1>1, <1>2 DEF FoundInv, Stored
<1>4. UNCHANGED <<now, cache, fetch, got>> /\ now \in Nat /\ Ages
  BY CacheIsTyped DEF txtVars, Ages
<1>5. ASSUME NEW s \in Fetch
      PROVE  /\ Rests(s)
             /\ \A p \in req[s].after : In(p, "done")' /\ fetch'[p].stage = "idle"
  <2>1. \A p \in req[s].after : p \in Fetch \ {r} /\ In(p, "done") /\ fetch[p].stage = "idle"
    BY CacheIsTyped DEF UserInv, IsUser
  <2> QED
    BY <1>1, <1>2, <1>4, <2>1 DEF Rests, In
<1>6. \A s \in Fetch \ {r} : IsUser(s)' /\ HasPage(s)' /\ HasFlushed(s)'
  BY <1>2, <1>4, <1>5, RestingStaysUser
<1>7. IsUser(r) /\ HasFlushed(r)
  BY DEF UserInv
<1>8. HasFlushed(r)'
  BY <1>4, <1>5, <1>7, RestingStaysFlushed
<1>9. IsUser(r)'
  BY <1>1, <1>2, <1>4, <1>5, <1>7 DEF IsUser, In, Early
<1>10. HasPage(r)'
  BY <1>1, <1>2, <1>4 DEF HasPage, In, Early
<1> QED
  BY <1>3, <1>6, <1>8, <1>9, <1>10 DEF UserInv

-----------------------------------------------------------------------------
\* The steps of a request before it is presented.
LEMMA EarlySteps ==
  ASSUME TxtInv, FoundInv, UserInv, NEW r \in Fetch,
         ParseAccess(r) \/ Hosted(r) \/ Certificate(r)
  PROVE  /\ Becomes(r) /\ ~In(r, "done")
         /\ ~In(r, "done")' /\ req[r].ask.page = "hosted" => got[r] \in Record
<1> DEFINE q == req[r]
<1>q. q \in Req /\ IsSound(q) /\ req \in [Fetch -> Req]
  BY DEF FoundInv
<1>u. HasPage(r) /\ got[r] \in Record \cup {Failed, None}
  BY CacheIsTyped DEF UserInv
<1>s. q.stage \in {"host", "access"} /\ ~In(r, "done")
  BY DEF ParseAccess, Hosted, Certificate, In
<1>1. ASSUME NEW said \in {"403", "400", "error", "refused", "certificate"}, Say(r, said)
      PROVE  Becomes(r) /\ In(r, "done")'
  <2>1. Becomes(r)
    BY <1>1, <1>s, SayBecomes DEF Answers
  <2> QED
    BY <1>q, <1>1, <2>1 DEF Say, In
<1>2. CASE ParseAccess(r)
  <2>1. CASE Go(r, "present")
    <3>1. HasLooked([q EXCEPT !.stage = "present"])
      BY <1>q DEF HasLooked, Req
    <3>2. Becomes(r)
      BY <1>s, <2>1, <3>1, GoBecomes DEF Stages, Searching
    <3>3. q.ask.page # "hosted"
      BY <1>u, <1>2 DEF HasPage, ParseAccess
    <3> QED
      BY <1>s, <3>2, <3>3
  <2> QED
    BY <1>1, <1>2, <1>s, <2>1 DEF ParseAccess
<1>3. CASE Hosted(r)
  <2> DEFINE k == HostedKey(got[r].root, q.ask.path)
             x == [q EXCEPT !.stage = "present", !.key = k]
  <2>1. CASE got[r] # Failed /\ req' = [req EXCEPT ![r].stage = "present", ![r].key = k]
    <3>1. got[r] \in Record
      BY <1>3, <1>u, <2>1 DEF Hosted
    <3>2. q.ask \in Asks /\ k \in Keys
      BY <1>q, <1>s, <3>1 DEF IsSound, Keys, Record, Roots
    <3>3. /\ x \in Req /\ x.stage = "present" /\ x.key = k /\ x.ask = q.ask
          /\ x.index = q.index /\ x.object = q.object /\ x.opened = q.opened
          /\ x.content = q.content /\ x.said = q.said /\ x.at = q.at
          /\ x.after = q.after /\ x.kept = q.kept
      BY <1>q, <3>2 DEF Req, Stages
    <3>4. req' = [req EXCEPT ![r] = x]
      BY <1>q, <2>1
    <3>5. HasLooked(x)
      BY <3>3 DEF HasLooked
    <3>n. None # <<None>> /\ \A size \in Size : None # <<size>>
      BY LinkAssumption
    <3>6. q.index = None
      BY <1>q, <1>s DEF IsSound, HasIndex
    <3>i. HasIndex(x)
      BY <3>n, <3>3, <3>6 DEF HasIndex
    <3>7. HasObject(x)
      BY <1>q, <1>s, <3>3 DEF IsSound, HasObject, Searching
    <3>8. IsSound(x)
      BY <1>q, <1>s, <3>2, <3>3, <3>5, <3>7, <3>i DEF IsSound
    <3> HIDE DEF x
    <3>9. Becomes(r)
      BY <3>3, <3>4, <3>8 DEF Becomes, Early
    <3> QED
      BY <1>s, <3>1, <3>9
  <2>2. CASE Say(r, "error")
    BY <1>1, <1>s, <2>2
  <2> QED
    BY <1>3, <2>1, <2>2 DEF Hosted
<1>4. CASE Certificate(r)
  <2>1. Say(r, "refused") \/ Say(r, "certificate")
    BY <1>4 DEF Certificate
  <2> QED
    BY <1>1, <1>s, <2>1
<1> QED
  BY <1>2, <1>3, <1>4
-----------------------------------------------------------------------------
(* A request comes.                                                        *)

Over == {s \in Fetch : In(s, "done") /\ Updating(s, "idle")}

\* The request as it comes: for the cache, for an access, or answered at once.
Arrived(a, stage, said) ==
  [NoReq EXCEPT !.stage = stage, !.said = said, !.ask = a, !.key = a.path, !.at = now,
                !.kept = Stored, !.after = Over]

Asked(r, a) ==
  \/ /\ Route(a) \in {"hosted", "certificate"}
     /\ req' = [req EXCEPT ![r] = Arrived(a, "host", None)]
     /\ \E allow \in BOOLEAN : FetchAccessForHost(r, a.host, allow)
  \/ /\ Route(a) = "access" /\ UNCHANGED txtVars
     /\ req' = [req EXCEPT ![r] = Arrived(a, "access", None)]
  \/ /\ Route(a) \notin {"hosted", "certificate", "access"} /\ UNCHANGED txtVars
     /\ req' = [req EXCEPT ![r] = Arrived(a, "done", Route(a))]

LEMMA ArriveIsAsked ==
  ASSUME InScene, NEW r \in Fetch, Arrive(r)
  PROVE  /\ In(r, "idle") /\ stored' = stored
         /\ \E a \in Asks : a.host \in Host /\ Asked(r, a)
<1>1. PICK a \in Scenes[scene].asks :
        LET route == Route(a)
            Sent(stage, said) ==
              req' = [req EXCEPT ![r] = [NoReq EXCEPT !.stage = stage, !.said = said,
                        !.ask = a, !.key = a.path, !.at = now, !.kept = Stored,
                        !.after = {s \in Fetch : In(s, "done") /\ Updating(s, "idle")}]]
        IN  CASE route \in {"hosted", "certificate"} ->
                   Sent("host", None) /\ FetchAccessForHost(r, a.host, route = "hosted")
              [] route = "access" -> Sent("access", None) /\ UNCHANGED txtVars
              [] OTHER -> Sent("done", route) /\ UNCHANGED txtVars
  BY DEF Arrive
<1>2. a \in Asks /\ a.host \in Host
  BY LinkAssumption DEF InScene, Asks
<1>3. Asked(r, a)
  <2>1. CASE Route(a) \in {"hosted", "certificate"}
    BY <1>1, <2>1 DEF Asked, Arrived, Over
  <2>2. CASE Route(a) = "access"
    BY <1>1, <2>2 DEF Asked, Arrived, Over
  <2>3. CASE Route(a) \notin {"hosted", "certificate", "access"}
    BY <1>1, <2>3 DEF Asked, Arrived, Over
  <2> QED
    BY <2>1, <2>2, <2>3
<1> QED
  BY <1>2, <1>3 DEF Arrive

\* It has looked for nothing yet, and if it is answered it is not for an object.
LEMMA ArrivedIsSound ==
  ASSUME TxtInv, FoundInv, NEW a \in Asks,
         NEW stage \in {"host", "access", "done"}, NEW said \in AnswerOrNone,
         stage = "done" <=> said # None,
         stage = "done" => Route(a) \notin {"access", "hosted"}
  PROVE  /\ Arrived(a, stage, said) \in Req /\ IsSound(Arrived(a, stage, said))
         /\ Arrived(a, stage, said).kept = Stored
<1> DEFINE x == Arrived(a, stage, said)
<1>1. /\ x.stage = stage /\ x.said = said /\ x.ask = a /\ x.key = a.path /\ x.at = now
      /\ x.kept = Stored /\ x.after = Over /\ x.index = None /\ x.object = None
      /\ x.opened = None /\ x.content = {} /\ x.part = 1
  BY DEF Arrived, NoReq
<1>2. now \in Nat
  BY CacheIsTyped
<1>k. a.path \in Keys
  BY DEF Keys
<1>s. Stored \in KeySets /\ Over \in FetchSets
  BY DEF KeySets, Stored, FetchSets, Over
<1>3. /\ a \in AskOrNone /\ None \in IndexOrNone /\ None \in ObjectOrNone
      /\ None \in OpenOrNone /\ {} \in Contents /\ stage \in Stages
  BY DEF AskOrNone, IndexOrNone, ObjectOrNone, OpenOrNone, Contents, Stages
<1>4. x \in Req
  BY <1>2, <1>3, <1>k, <1>s DEF Req, Arrived, NoReq
<1>5. HasLooked(x)
  BY <1>1 DEF HasLooked
<1>n. None # <<None>> /\ \A size \in Size : None # <<size>>
  BY LinkAssumption
<1>6. HasIndex(x)
  BY <1>1, <1>n DEF HasIndex
<1>7. HasObject(x)
  BY <1>1 DEF HasObject
<1>8. SendsWhatIsShown(x)
  BY <1>1 DEF SendsWhatIsShown
<1> HIDE DEF x
<1>9. IsSound(x)
  BY <1>1, <1>5, <1>6, <1>7, <1>8 DEF IsSound, IsPresented
<1> QED
  BY <1>1, <1>4, <1>9 DEF x

\* A request is answered with one of the answers, whatever its route.
LEMMA RoutesAreAnswers ==
  ASSUME NEW a, Route(a) \notin {"hosted", "certificate", "access"}
  PROVE  Route(a) \in Answers /\ Route(a) # None
<1>1. Route(a) \in {"cors", "405", "redirect", "page", "400"}
  BY DEF Route
<1> QED
  BY <1>1, LinkAssumption DEF Answers

\* When it comes, everybody else rests, and it becomes a user of the cache: what it gets
\* there at once is no older than anything that an update has flushed that is over.
LEMMA ArriveKeeps ==
  ASSUME InScene, TxtInv, FoundInv, UserInv, NEW r \in Fetch, Arrive(r)
  PROVE  FoundInv' /\ UserInv'
<1>1. In(r, "idle") /\ stored' = stored
  BY ArriveIsAsked
<1>2. PICK a \in Asks : a.host \in Host /\ Asked(r, a)
  BY ArriveIsAsked
<1>t. /\ now \in Nat /\ fetch \in [Fetch -> FetchState] /\ req \in [Fetch -> Req]
      /\ cache \in [Host -> Record \cup {None}]
      /\ got \in [Fetch -> Record \cup {Failed, None}]
      /\ \A x \in Record : x.expires \in Nat /\ x.expires # None /\ x # None
      /\ Failed # None
  BY CacheIsTyped DEF FoundInv
<1>i. fetch[r].stage = "idle" /\ got[r] = None
  BY <1>1 DEF UserInv, IsUser
<1>3. PICK stage \in {"host", "access", "done"}, said \in AnswerOrNone :
        /\ req' = [req EXCEPT ![r] = Arrived(a, stage, said)]
        /\ stage = "done" <=> said # None
        /\ stage = "done" => Route(a) \notin {"access", "hosted"}
        /\ stage = "access" => Route(a) = "access"
  BY <1>2, RoutesAreAnswers DEF Asked, AnswerOrNone
<1> DEFINE x == Arrived(a, stage, said)
<1>4. x \in Req /\ IsSound(x) /\ x.kept = Stored
  BY <1>3, ArrivedIsSound
<1>5. x.stage = stage /\ x.ask = a /\ x.at = now /\ x.after = Over
  BY DEF Arrived, NoReq
<1> HIDE DEF x
<1>6. /\ req' \in [Fetch -> Req] /\ req'[r] = x
      /\ \A s \in Fetch \ {r} : req'[s] = req[s]
  BY <1>t, <1>3, <1>4 DEF x
<1>7. FoundInv'
  BY <1>1, <1>4, <1>6 DEF FoundInv, Stored
<1>8. /\ UNCHANGED <<now, cache>>
      /\ \A s \in Fetch \ {r} : fetch'[s] = fetch[s] /\ got'[s] = got[s]
  BY <1>t, <1>2 DEF Asked, FetchAccessForHost, txtVars
<1>9. \/ UNCHANGED <<fetch, got>>
      \/ /\ fetch'[r].stage = "begin" /\ fetch'[r].host = a.host
         /\ fetch'[r].result = None
         /\ \/ /\ cache[a.host] = None /\ got'[r] = None /\ ~fetch'[r].background
            \/ /\ cache[a.host] \in Record /\ got'[r] = cache[a.host]
               /\ fetch'[r].background /\ fetch'[r].expect = got'[r].expires
      \/ /\ fetch' = fetch /\ cache[a.host] \in Record /\ got'[r] = cache[a.host]
         /\ cache[a.host].expires >= now
  <2>1. CASE UNCHANGED txtVars
    BY <2>1 DEF txtVars
  <2>2. CASE \E allow \in BOOLEAN : FetchAccessForHost(r, a.host, allow)
    <3>1. PICK allow \in BOOLEAN : FetchAccessForHost(r, a.host, allow)
      BY <2>2
    <3> DEFINE u(background) ==
          [NoFetch EXCEPT !.stage = "begin", !.host = a.host, !.allow = allow,
             !.background = background,
             !.expect = IF background THEN cache[a.host].expires ELSE Zero]
    <3>2. \A b \in BOOLEAN :
            /\ u(b).stage = "begin" /\ u(b).host = a.host /\ u(b).result = None
            /\ u(b).background = b /\ (b => u(b).expect = cache[a.host].expires)
      BY DEF NoFetch
    <3>3. CASE cache[a.host] = None
      <4>1. fetch' = [fetch EXCEPT ![r] = u(FALSE)] /\ got' = got
        BY <3>1, <3>3 DEF FetchAccessForHost
      <4> HIDE DEF u
      <4> QED
        BY <1>t, <1>i, <3>2, <3>3, <4>1
    <3>4. CASE cache[a.host] # None
      <4>1. cache[a.host] \in Record /\ got' = [got EXCEPT ![r] = cache[a.host]]
        BY <1>t, <1>2, <3>1, <3>4 DEF FetchAccessForHost
      <4>2. IF cache[a.host].expires < now THEN fetch' = [fetch EXCEPT ![r] = u(TRUE)]
            ELSE fetch' = fetch
        BY <3>1, <3>4 DEF FetchAccessForHost, Expired
      <4>3. got'[r] = cache[a.host] /\ cache[a.host].expires \in Nat
        BY <1>t, <4>1
      <4> HIDE DEF u
      <4>4. CASE cache[a.host].expires < now
        <5>1. fetch'[r] = u(TRUE)
          BY <1>t, <4>2, <4>4
        <5>2. fetch'[r].background = TRUE
          BY <3>2, <5>1
        <5> QED
          BY <3>2, <4>1, <4>3, <5>1, <5>2
      <4>5. CASE ~(cache[a.host].expires < now)
        BY <1>t, <4>1, <4>2, <4>3, <4>5
      <4> QED
        BY <4>4, <4>5
    <3> QED
      BY <3>3, <3>4
  <2> QED
    BY <1>2, <2>1, <2>2 DEF Asked
<1>10. ASSUME NEW s \in Fetch \ {r}
       PROVE  IsUser(s)' /\ HasPage(s)' /\ HasFlushed(s)'
  <2>1. \A p \in req[s].after : p \in Fetch \ {r} /\ In(p, "done") /\ fetch[p].stage = "idle"
    BY <1>1, CacheIsTyped DEF UserInv, IsUser, In
  <2>2. Rests(s) /\ \A p \in req[s].after : In(p, "done")' /\ fetch'[p].stage = "idle"
    BY <1>6, <1>8, <2>1 DEF Rests, In
  <2>3. Ages
    BY <1>8 DEF Ages
  <2> QED
    BY <1>t, <1>6, <1>8, <2>2, <2>3, RestingStaysUser
<1>o. \A p \in Over : /\ p \in Fetch \ {r} /\ In(p, "done") /\ fetch[p].stage = "idle"
                      /\ req'[p] = req[p] /\ fetch'[p] = fetch[p] /\ got'[p] = got[p]
  BY <1>1, <1>6, <1>8 DEF Over, In, Updating
<1>11. IsUser(r)'
  <2>1. x.stage # "idle"
    BY <1>5
  <2>2. fetch'[r].stage # "idle" =>
          /\ fetch'[r].host = a.host
          /\ IF fetch'[r].background THEN got'[r] \in Record ELSE got'[r] = None
    BY <1>9, <1>i
  <2>3. \A p \in Over : In(p, "done")' /\ fetch'[p].stage = "idle"
    BY <1>o DEF In
  <2> QED
    BY <1>t, <1>5, <1>6, <1>8, <2>1, <2>2, <2>3 DEF IsUser, In
<1>12. HasPage(r)'
  <2>1. Route(a) = "access" => a.page # "hosted"
    BY DEF Route
  <2> QED
    BY <1>3, <1>5, <1>6, <2>1 DEF HasPage, In, Early
<1>13. HasFlushed(r)'
  <2>1. fetch'[r].stage # "idle" /\ ~fetch'[r].background =>
          IsFresh(cache[a.host], now) /\ IsFresh(fetch'[r].result, now)
    BY <1>9, <1>i, <1>t DEF IsFresh
  <2>2. got'[r] \notin {None, Failed} /\ got'[r].expires < now =>
          /\ fetch'[r].stage = "begin" /\ fetch'[r].expect = got'[r].expires
          /\ got'[r] = cache[a.host]
    BY <1>9, <1>i, <1>t
  <2>3. ASSUME NEW p \in Over, req[p].ask.host = a.host, IsStale(p)
        PROVE  /\ IsFresh(got'[r], req[p].at)
               /\ fetch'[r].stage # "idle" => IsFresh(fetch'[r].result, req[p].at)
    <3>1. IsFresh(cache[a.host], req[p].at)
      BY <1>o, <2>3 DEF UserInv, HasFlushed
    <3> QED
      BY <1>9, <1>i, <3>1 DEF IsFresh
  <2>4. \A p \in Over : IsStale(p)' <=> IsStale(p)
    BY <1>o DEF IsStale
  <2>5. IsStale(r)' <=> got'[r] \notin {None, Failed} /\ got'[r].expires < now
    BY <1>5, <1>6 DEF IsStale
  <2>6. \A p \in Over : req'[p] = req[p]
    BY <1>o
  <2> QED
    BY <1>5, <1>6, <1>8, <2>1, <2>2, <2>3, <2>4, <2>5, <2>6 DEF HasFlushed
<1> QED
  BY <1>7, <1>10, <1>11, <1>12, <1>13 DEF UserInv
\* What others remove was not kept, and no other request notices.
LEMMA WriteKeeps ==
  ASSUME FoundInv, TxtInv, UserInv, NEW k \in Key, Write(k)
  PROVE  FoundInv' /\ UserInv'
<1>t. req \in [Fetch -> Req] /\ stored \in [Key -> Sizes] /\ now \in Nat
  BY CacheIsTyped DEF FoundInv
<1>1. PICK size \in Sizes :
        /\ stored' = [stored EXCEPT ![k] = size]
        /\ req' = IF size # None THEN req
                  ELSE [r \in Fetch |-> [req[r] EXCEPT !.kept = @ \ {k}]]
  BY DEF Write, Sizes
<1>u. UNCHANGED <<now, cache, fetch, got>>
  BY DEF Write, txtVars
<1>2. stored' \in [Key -> Sizes]
  BY <1>t, <1>1
<1>3. ASSUME NEW r \in Fetch
      PROVE  /\ req'[r] \in Req /\ IsSound(req'[r]) /\ req'[r].kept \subseteq Stored'
             /\ req'[r].stage = req[r].stage /\ req'[r].ask = req[r].ask
             /\ req'[r].at = req[r].at /\ req'[r].after = req[r].after
  <2>1. req[r] \in Req /\ IsSound(req[r]) /\ req[r].kept \subseteq Stored
    BY <1>t DEF FoundInv
  <2>2. CASE size # None
    <3>1. Stored \subseteq Stored'
      BY <1>t, <1>1, <2>2 DEF Stored
    <3> QED
      BY <1>1, <2>1, <2>2, <3>1
  <2>3. CASE size = None
    <3> DEFINE x == [req[r] EXCEPT !.kept = req[r].kept \ {k}]
    <3>1. req'[r] = x
      BY <1>1, <2>3
    <3>2. x \in Req /\ IsSound(x)
      BY <2>1, LessIsSound
    <3>3. /\ x.kept = req[r].kept \ {k} /\ x.stage = req[r].stage /\ x.ask = req[r].ask
          /\ x.at = req[r].at /\ x.after = req[r].after
      BY <2>1 DEF Req
    <3>4. Stored \ {k} \subseteq Stored'
      BY <1>t, <1>1 DEF Stored
    <3> QED
      BY <2>1, <3>1, <3>2, <3>3, <3>4
  <2> QED
    BY <2>2, <2>3
<1>4. req' \in [Fetch -> Req]
  <2>1. CASE size # None
    BY <1>t, <1>1, <2>1
  <2>2. CASE size = None
    BY <1>1, <1>3, <2>2
  <2> QED
    BY <2>1, <2>2
<1>5. FoundInv'
  BY <1>2, <1>3, <1>4 DEF FoundInv
<1>6. ASSUME NEW r \in Fetch
      PROVE  IsUser(r)' /\ HasPage(r)' /\ HasFlushed(r)'
  <2>1. \A p \in req[r].after : p \in Fetch /\ In(p, "done") /\ fetch[p].stage = "idle"
    BY CacheIsTyped DEF UserInv, IsUser
  <2>2. Rests(r) /\ \A p \in req[r].after : In(p, "done")' /\ fetch'[p].stage = "idle"
    BY <1>3, <1>u, <2>1 DEF Rests, In
  <2>3. Ages
    BY <1>u DEF Ages
  <2> QED
    BY <1>t, <1>3, <1>u, <2>2, <2>3, RestingStaysUser
<1> QED
  BY <1>5, <1>6 DEF UserInv

\* A step that leaves the requests and what is stored alone, and the cache but for time.
LEMMA NothingHappens ==
  ASSUME TxtInv, FoundInv, UserInv, now' \in Nat, now' >= now,
         UNCHANGED <<req, stored, cache, fetch, got>>
  PROVE  FoundInv' /\ UserInv'
<1>1. FoundInv'
  BY DEF FoundInv, Stored
<1>2. ASSUME NEW r \in Fetch
      PROVE  IsUser(r)' /\ HasPage(r)' /\ HasFlushed(r)'
  <2>1. \A p \in req[r].after : In(p, "done") /\ fetch[p].stage = "idle"
    BY DEF UserInv, IsUser
  <2>2. Rests(r) /\ \A p \in req[r].after : In(p, "done")' /\ fetch'[p].stage = "idle"
    BY <2>1 DEF Rests, In
  <2>3. Ages
    BY DEF Ages
  <2> QED
    BY <2>2, <2>3, RestingStaysUser
<1> QED
  BY <1>1, <1>2 DEF UserInv

\* Who is presented something has passed the access.
LEMMA PresentedIsLate ==
  ASSUME NEW r \in Fetch, PresentStep(r)
  PROVE  req[r].stage \notin Early \cup {"done"} /\ Present(r)
<1>1. CASE StatIndex(r) \/ StatSlash(r) \/ JoinIndex(r) \/ DownloadFirst(r)
  BY <1>1 DEF StatIndex, StatSlash, JoinIndex, DownloadFirst, In, Early
<1>2. CASE StatPlain(r) \/ IsPrefixOfObjects(r) \/ StatRoot(r) \/ ServePrefix(r)
  BY <1>2 DEF StatPlain, IsPrefixOfObjects, StatRoot, ServePrefix, In, Early
<1>3. CASE NotFoundPage(r) \/ ShowObject(r) \/ SendPart(r)
  BY <1>3 DEF NotFoundPage, ShowObject, SendPart, In, Early
<1> QED
  BY <1>1, <1>2, <1>3 DEF PresentStep

\* The counters of the model.
LEMMA CountsStay ==
  ASSUME {writes, broken} \subseteq Nat, [Next]_vars
  PROVE  {writes', broken'} \subseteq Nat
<1>1. ASSUME NEW r \in Fetch, PresentStep(r)
      PROVE  writes' = writes /\ (broken' = broken \/ broken' = broken + 1)
  <2>1. CASE StatIndex(r) \/ StatSlash(r) \/ JoinIndex(r) \/ DownloadFirst(r)
    BY <2>1 DEF StatIndex, StatSlash, JoinIndex, DownloadFirst, Stat, Present, Fine, Faulty
  <2>2. CASE StatPlain(r) \/ IsPrefixOfObjects(r) \/ StatRoot(r) \/ ServePrefix(r)
    BY <2>2 DEF StatPlain, IsPrefixOfObjects, StatRoot, ServePrefix, Stat, Present, Fine,
                Faulty
  <2>3. CASE NotFoundPage(r) \/ ShowObject(r)
    BY <2>3 DEF NotFoundPage, ShowObject, ServeContent, SendRange, ServeArchive, ServePage,
                Present, Fine, Faulty
  <2>4. CASE SendPart(r)
    BY <2>4 DEF SendPart, Present, Fine, Faulty
  <2> QED
    BY <1>1, <2>1, <2>2, <2>3, <2>4 DEF PresentStep
<1>2. ASSUME NEW r \in Fetch,
             \/ Arrive(r) \/ ParseAccess(r) \/ Hosted(r) \/ Certificate(r) \/ Update(r)
             \/ Answered(r)
      PROVE  writes' = writes /\ (broken' = broken \/ broken' = broken + 1)
  BY <1>2 DEF Arrive, ParseAccess, Hosted, Certificate, Update, Answered, Fine, Faulty
<1>3. \/ writes' = writes /\ (broken' = broken \/ broken' = broken + 1)
      \/ writes' = writes + 1 /\ broken' = broken
  BY <1>1, <1>2 DEF Next, Environment, Write, vars
<1> QED
  BY <1>3

LEMMA LinkInit == Init => LinkInv
<1> SUFFICES ASSUME Init PROVE LinkInv
  OBVIOUS
<1>1. InScene /\ TxtInv /\ writes \in Nat /\ broken \in Nat
  BY TxtInitInv DEF Init, InScene
<1>2. \A r \in Fetch : req[r] = NoReq /\ fetch[r] = NoFetch /\ got[r] = None
  BY DEF Init, TxtInit
<1>3. NoReq \in Req /\ IsSound(NoReq) /\ NoReq.kept = {}
  <2>1. /\ "idle" \in Stages /\ None \in AskOrNone /\ << >> \in Keys /\ None \in IndexOrNone
        /\ None \in ObjectOrNone /\ None \in OpenOrNone /\ {} \in Contents
        /\ None \in AnswerOrNone /\ {} \in FetchSets /\ {} \in KeySets
    BY DEF Stages, AskOrNone, Keys, IndexOrNone, ObjectOrNone, OpenOrNone, Contents,
           AnswerOrNone, FetchSets, KeySets
  <2>2. NoReq \in Req
    BY <2>1 DEF NoReq, Req
  <2>3. None # <<None>> /\ \A size \in Size : None # <<size>>
    BY LinkAssumption
  <2>4. HasLooked(NoReq) /\ HasIndex(NoReq) /\ HasObject(NoReq)
    BY <2>3 DEF NoReq, HasLooked, HasIndex, HasObject
  <2> QED
    BY <2>2, <2>4 DEF NoReq, IsSound
<1>4. req \in [Fetch -> Req] /\ stored \in [Key -> Sizes]
  BY <1>3, LinkAssumption DEF Init, Sizes
<1>5. FoundInv
  BY <1>2, <1>3, <1>4 DEF FoundInv
<1>6. UserInv
  BY <1>2 DEF UserInv, IsUser, HasPage, HasFlushed, IsStale, IsFresh, NoReq, NoFetch, In,
              Early, Init, TxtInit
<1> QED
  BY <1>1, <1>5, <1>6 DEF LinkInv

\* Every step of the service keeps the invariant.
LEMMA LinkStep == LinkInv /\ [Next]_vars => LinkInv'
<1> SUFFICES ASSUME LinkInv, [Next]_vars PROVE LinkInv'
  OBVIOUS
<1>i. InScene /\ TxtInv /\ FoundInv /\ UserInv /\ {writes, broken} \subseteq Nat
  BY DEF LinkInv
<1>1. InScene' /\ TxtInv'
  BY <1>i, SceneStays, CacheStep, TxtStep
<1>2. {writes', broken'} \subseteq Nat
  BY <1>i, CountsStay
<1>t. now \in Nat
  BY <1>i, CacheIsTyped
<1>3. CASE Environment
  <2>1. now' \in Nat /\ now' >= now /\ UNCHANGED <<req, stored, cache, fetch, got>>
    BY <1>3, <1>t DEF Environment, Tick, ChangeDNS
  <2> QED
    BY <1>i, <1>1, <1>2, <2>1, NothingHappens DEF LinkInv
<1>4. ASSUME NEW k \in Key, Write(k)
      PROVE  LinkInv'
  BY <1>i, <1>1, <1>2, <1>4, WriteKeeps DEF LinkInv
<1>5. ASSUME NEW r \in Fetch, Arrive(r)
      PROVE  LinkInv'
  BY <1>i, <1>1, <1>2, <1>5, ArriveKeeps DEF LinkInv
<1>6. ASSUME NEW r \in Fetch, ParseAccess(r) \/ Hosted(r) \/ Certificate(r)
      PROVE  LinkInv'
  <2>1. UNCHANGED txtVars /\ stored' = stored
    BY <1>6 DEF ParseAccess, Hosted, Certificate
  <2> QED
    BY <1>i, <1>1, <1>2, <1>6, <2>1, EarlySteps, GoesOnSoundly DEF LinkInv
<1>7. ASSUME NEW r \in Fetch, Update(r)
      PROVE  LinkInv'
  <2>1. UpdateStep(r) /\ req' = req /\ stored' = stored
    BY <1>7 DEF Update
  <2>2. FoundInv'
    BY <1>i, <2>1 DEF FoundInv, Stored
  <2> QED
    BY <1>i, <1>1, <1>2, <2>1, <2>2, UpdateKeepsUsers DEF LinkInv
<1>8. ASSUME NEW r \in Fetch, PresentStep(r)
      PROVE  LinkInv'
  <2>1. Becomes(r)
    BY <1>i, <1>8, PresentBecomes
  <2>2. req[r].stage \notin Early \cup {"done"} /\ Present(r)
    BY <1>8, PresentedIsLate
  <2>3. req[r].ask.page = "hosted" => got[r] \in Record
    BY <1>i, <2>2 DEF UserInv, HasPage
  <2>4. ~In(r, "done") /\ UNCHANGED txtVars /\ stored' = stored
    BY <2>2 DEF In, Present
  <2> QED
    BY <1>i, <1>1, <1>2, <2>1, <2>3, <2>4, GoesOnSoundly DEF LinkInv
<1>9. ASSUME NEW r \in Fetch, Answered(r)
      PROVE  LinkInv'
  <2>1. UNCHANGED <<req, stored, cache, fetch, got, now>>
    BY <1>9 DEF Answered, ContextEnds
  <2> QED
    BY <1>i, <1>t, <1>1, <1>2, <2>1, NothingHappens DEF LinkInv
<1>10. CASE UNCHANGED vars
  <2>1. UNCHANGED <<req, stored, cache, fetch, got, now>>
    BY <1>10 DEF vars, txtVars
  <2> QED
    BY <1>i, <1>t, <1>1, <1>2, <2>1, NothingHappens DEF LinkInv
<1> QED
  BY <1>3, <1>4, <1>5, <1>6, <1>7, <1>8, <1>9, <1>10 DEF Next
-----------------------------------------------------------------------------
\* The invariant holds of every behaviour of the service.
THEOREM LinkIsKept == Spec => []LinkInv
BY LinkInit, LinkStep, PTL DEF Spec

\* Every variable of the service has its type, and who is being served has an object to
\* show or a host.
THEOREM LinkTypes == Spec => []LinkTypeOK
<1>1. LinkInv => LinkTypeOK
  <2> SUFFICES ASSUME LinkInv PROVE LinkTypeOK
    OBVIOUS
  <2>1. TxtTypeOK /\ stored \in [Key -> Size \cup {None}] /\ {writes, broken} \subseteq Nat
    BY DEF LinkInv, TxtInv, MutexInv, FoundInv, Sizes
  <2>2. ASSUME NEW r \in Fetch
        PROVE  /\ In(r, "done") <=> req[r].said \in Answers
               /\ In(r, "show") \/ In(r, "parts") =>
                    req[r].object.key \in Key /\ req[r].object.size \in Size
               /\ In(r, "404") => got[r] \in Record
               /\ In(r, "idle") => Updating(r, "idle")
    <3>1. req[r] \in Req /\ IsSound(req[r])
      BY DEF LinkInv, FoundInv
    <3>2. req[r].said \in Answers \cup {None} /\ None \notin Answers
      BY <3>1, LinkAssumption DEF Req, AnswerOrNone
    <3>3. In(r, "done") <=> req[r].said \in Answers
      BY <3>1, <3>2 DEF IsSound, In
    <3>4. In(r, "show") \/ In(r, "parts") => req[r].object \in Objects
      BY <3>1 DEF IsSound, HasObject, Req, ObjectOrNone, In
    <3>5. In(r, "show") \/ In(r, "parts") =>
            req[r].object.key \in Key /\ req[r].object.size \in Size
      BY <3>4 DEF Objects
    <3>6. In(r, "404") => req[r].ask.page = "hosted"
      BY <3>1 DEF IsSound, HasLooked, In
    <3>7. In(r, "404") => got[r] \in Record
      BY <3>6 DEF LinkInv, UserInv, HasPage, In, Early
    <3>8. In(r, "idle") => Updating(r, "idle")
      BY DEF LinkInv, UserInv, IsUser, Updating
    <3> QED
      BY <3>3, <3>5, <3>7, <3>8
  <2> QED
    BY <2>1, <2>2 DEF LinkTypeOK
<1> QED
  BY <1>1, LinkIsKept, PTL

\* What is in the bucket from the beginning of a request to its end is found, whatever
\* calls the request makes in between and whatever else is written and removed.
THEOREM WhatIsThereIsFound == Spec => []ExistingIsFound
<1>1. LinkInv => ExistingIsFound
  <2> SUFFICES ASSUME LinkInv, NEW r \in Fetch, Presented(r)
               PROVE  LET k == req[r].key
                          asPrefix == IF IsEmpty(k) \/ EndsInSlash(k) THEN k ELSE Slashed(k)
                      IN  /\ req[r].said \in {"404", "404 page", "redirect"} =>
                               k \notin req[r].kept
                          /\ req[r].said \in {"404", "404 page"} /\ req[r].object = None =>
                               /\ Index(asPrefix) \notin req[r].kept
                               /\ req[r].ask.lists => Under(asPrefix, req[r].kept) = {}
                          /\ req[r].said = "listing" /\ req[r].object = None =>
                               Index(asPrefix) \notin req[r].kept
    BY DEF ExistingIsFound
  <2>1. HasSaid(req[r])
    BY DEF LinkInv, FoundInv, IsSound, Presented, IsPresented, In
  <2>2. AsPrefix(req[r].key) = IF IsEmpty(req[r].key) \/ EndsInSlash(req[r].key)
                               THEN req[r].key ELSE Slashed(req[r].key)
    BY DEF AsPrefix, Plain
  <2> QED
    BY <2>1, <2>2 DEF HasSaid, IsMissing
<1> QED
  BY <1>1, LinkIsKept, PTL

\* For the object, or one range of it that it has, the download that was opened first is
\* of the range that the headers will speak of, and is not opened again, so the content is
\* of one version of the object.
THEOREM OneVersionIsServed == Spec => []ServesOneVersion
<1>1. LinkInv => ServesOneVersion
  BY DEF LinkInv, FoundInv, IsSound, SendsWhatIsShown, ServesOneVersion, In
<1> QED
  BY <1>1, LinkIsKept, PTL

\* Once the update is over that a page load after the expiration has started, nobody who
\* comes later gets the expired record.
THEOREM LoadsFlush == Spec => []FlushedByLoad
<1>1. LinkInv => FlushedByLoad
  <2> SUFFICES ASSUME LinkInv, NEW r \in Fetch, NEW s \in Fetch, s \in req[r].after,
                      req[s].ask.host = req[r].ask.host, IsStale(s), got[r] = got[s]
               PROVE  FALSE
    BY DEF FlushedByLoad, IsStale
  <2>1. IsFresh(got[r], req[s].at)
    BY DEF LinkInv, UserInv, HasFlushed
  <2>2. got[s] \in Record /\ req[s].at \in Nat /\ \A x \in Record : x.expires \in Nat
    BY CacheIsTyped DEF LinkInv, IsStale
  <2> QED
    BY <2>1, <2>2 DEF IsFresh, IsStale
<1> QED
  BY <1>1, LinkIsKept, PTL
=============================================================================
