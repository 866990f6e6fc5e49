------------------------------ MODULE TxtCache ------------------------------
(***************************************************************************)
(* The cache of TXT records of the link sharing service: a host's record   *)
(* is served past its expiration while a goroutine asks the DNS server     *)
(* again; updates of a host are serialised by a MutexGroup, whose mutexes  *)
(* come and go with those that want them.                                  *)
(***************************************************************************)
EXTENDS Naturals, FiniteSets

CONSTANTS
  Host,
  Fetch,       \* calls of FetchAccessForHost
  Mutex,       \* the addresses of mutexes
  Text,        \* what TXT records say: [access, root, tls, ttl]
  MaxTTL,
  MaxTime, MaxChanges, MaxFaults,  \* bounds of the model
  None, Failed   \* nothing, and the error of an update

\* What a host serves, from which version of the DNS record, until when.
Record == [version : Nat, access : {"grant", "key"}, root : {t.root : t \in Text},
           tls : BOOLEAN, expires : Nat]

ASSUME TxtAssumption ==
  /\ IsFiniteSet(Fetch)
  /\ None \notin Mutex \cup Text \cup Fetch \cup Record /\ Failed # None
  /\ Text \subseteq [access : {"grant", "key", "invalid"}, root : {t.root : t \in Text},
                     tls : BOOLEAN, ttl : Nat]
  /\ MaxTTL \in Nat

VARIABLES
  now,
  dns,       \* dns[h]: [version, text] at the DNS server
  cache,     \* cache[h]: a record or None
  names,     \* names[h]: the mutex of the name, or None
  waiters,   \* waiters[h]: how many hold the mutex or wait for it
  owner,     \* owner[m]: the fetch that has locked the mutex, or None
  fetch,     \* fetch[f]: its host and, where there is one, its update
  got,       \* got[f]: the record that it has returned, Failed or None
  gone,      \* the fetches whose context has ended
  faults

txtVars == <<now, dns, cache, names, waiters, owner, fetch, got, gone, faults>>

\* No record has it: the zero time.
Zero == None

NoFetch == [stage |-> "idle", host |-> None, allow |-> TRUE, expect |-> Zero,
            mutex |-> None, answer |-> None, result |-> None, background |-> FALSE]

TxtInit ==
  /\ now = 0
  /\ dns \in [Host -> {[version |-> 0, text |-> t] : t \in Text}]
  /\ cache = [h \in Host |-> None]
  /\ names = [h \in Host |-> None] /\ waiters = [h \in Host |-> 0]
  /\ owner = [m \in Mutex |-> None]
  /\ fetch = [f \in Fetch |-> NoFetch] /\ got = [f \in Fetch |-> None]
  /\ gone = {} /\ faults = 0

Updating(f, stage) == fetch[f].stage = stage
Expired(record) == record.expires < now
Smaller(a, b) == IF a < b THEN a ELSE b
-----------------------------------------------------------------------------
(* fetchAccessForHost.                                                     *)

\* An expired record is returned, and updated by a goroutine.
FetchAccessForHost(f, h, allow) ==
  /\ Updating(f, "idle") /\ got[f] = None
  /\ LET record == cache[h]
         Update(background) ==
           fetch' = [fetch EXCEPT ![f] = [NoFetch EXCEPT !.stage = "begin", !.host = h,
             !.allow = allow, !.background = background,
             !.expect = IF background THEN record.expires ELSE Zero]]
     IN  \/ record = None /\ Update(FALSE) /\ UNCHANGED got
         \/ /\ record # None /\ got' = [got EXCEPT ![f] = record]
            /\ IF Expired(record) THEN Update(TRUE) ELSE UNCHANGED fetch
  /\ UNCHANGED <<now, dns, cache, names, waiters, owner, gone, faults>>

\* The context of the request ends, for the goroutine too.
ContextEnds(f) ==
  /\ f \notin gone /\ gone' = gone \cup {f}
  /\ UNCHANGED <<now, dns, cache, names, waiters, owner, fetch, got, faults>>
-----------------------------------------------------------------------------
(* MutexGroup.                                                             *)

Unused == {m \in Mutex : owner[m] = None /\ \A f \in Fetch : fetch[f].mutex # m}

\* The mutex of the name is taken from the map, or a new one is put there, and the
\* caller is counted, all under mu.
LockName(f) ==
  LET h == fetch[f].host
  IN  /\ Updating(f, "begin")
      /\ \E m \in IF names[h] = None THEN Unused ELSE {names[h]} :
           /\ names' = [names EXCEPT ![h] = m]
           /\ fetch' = [fetch EXCEPT ![f].stage = "wait", ![f].mutex = m]
      /\ waiters' = [waiters EXCEPT ![h] = @ + 1]
      /\ UNCHANGED <<now, dns, cache, owner, got, gone, faults>>

Acquire(f) ==
  /\ Updating(f, "wait") /\ owner[fetch[f].mutex] = None
  /\ owner' = [owner EXCEPT ![fetch[f].mutex] = f]
  /\ fetch' = [fetch EXCEPT ![f].stage = "check"]
  /\ UNCHANGED <<now, dns, cache, names, waiters, got, gone, faults>>

Unlock(f) ==
  /\ Updating(f, "unlock")
  /\ owner' = [owner EXCEPT ![fetch[f].mutex] = None]
  /\ fetch' = [fetch EXCEPT ![f].stage = "release"]
  /\ UNCHANGED <<now, dns, cache, names, waiters, got, gone, faults>>

\* What updateCache returns, which only a fetch that waits for it returns, too.
Return(f) ==
  /\ fetch' = [fetch EXCEPT ![f] = NoFetch]
  /\ got' = IF fetch[f].background THEN got ELSE [got EXCEPT ![f] = fetch[f].result]

\* A variant: the name goes with whoever has unlocked it.
Release_Uncounted(f) ==
  LET h == fetch[f].host
  IN  /\ Updating(f, "release") /\ Return(f)
      /\ waiters' = [waiters EXCEPT ![h] = @ - 1]
      /\ names' = [names EXCEPT ![h] = None]
      /\ UNCHANGED <<now, dns, cache, owner, gone, faults>>

\* The last one that is counted removes the name from the map.
Release(f) ==
  LET h == fetch[f].host
  IN  /\ Updating(f, "release") /\ Return(f)
      /\ waiters' = [waiters EXCEPT ![h] = @ - 1]
      /\ names' = IF waiters[h] = 1 THEN [names EXCEPT ![h] = None] ELSE names
      /\ UNCHANGED <<now, dns, cache, owner, gone, faults>>
-----------------------------------------------------------------------------
(* updateCache, with the lock of the host name.                            *)

Finish(f, result) ==
  fetch' = [fetch EXCEPT ![f].stage = "unlock", ![f].result = result]

\* A variant: whether somebody else has updated the record is not looked at.
Check_Always(f) ==
  /\ Updating(f, "check") /\ fetch' = [fetch EXCEPT ![f].stage = "query"]
  /\ UNCHANGED <<now, dns, cache, names, waiters, owner, got, gone, faults>>

\* A variant: any record that is there will do.
Check_Never(f) ==
  /\ Updating(f, "check")
  /\ IF cache[fetch[f].host] # None THEN Finish(f, cache[fetch[f].host])
     ELSE fetch' = [fetch EXCEPT ![f].stage = "query"]
  /\ UNCHANGED <<now, dns, cache, names, waiters, owner, got, gone, faults>>

\* The record that is there will do, unless it is the one that is to be replaced.
Check(f) ==
  LET record == cache[fetch[f].host]
  IN  /\ Updating(f, "check")
      /\ IF record # None /\ (fetch[f].expect = Zero \/ record.expires # fetch[f].expect)
         THEN Finish(f, record)
         ELSE fetch' = [fetch EXCEPT ![f].stage = "query"]
      /\ UNCHANGED <<now, dns, cache, names, waiters, owner, got, gone, faults>>

\* The query fails, or its context has ended, or what it found is of no use: the
\* record goes, whatever it was.
UpdateFails(f) ==
  /\ cache' = [cache EXCEPT ![fetch[f].host] = None]
  /\ Finish(f, Failed)

May(f) == IF f \in gone THEN UNCHANGED faults ELSE faults < MaxFaults /\ faults' = faults + 1

\* The DNS server is asked; a grant is refused if only access keys are allowed.
QueryDNS(f) ==
  LET a == dns[fetch[f].host]
  IN  /\ Updating(f, "query")
      /\ \/ /\ a.text.access = "grant" => fetch[f].allow
            /\ fetch' = [fetch EXCEPT ![f].stage = "resolve", ![f].answer = a]
            /\ UNCHANGED <<cache, faults>>
         \/ a.text.access = "grant" /\ ~fetch[f].allow /\ UpdateFails(f) /\ UNCHANGED faults
         \/ UpdateFails(f) /\ May(f)
      /\ UNCHANGED <<now, dns, names, waiters, owner, got, gone>>

\* parseAccess, for which an access key is looked up at the auth service, and the
\* record is stored; its time begins only now.
ParseAndStore(f) ==
  LET a == fetch[f].answer
      record == [version |-> a.version, access |-> a.text.access, root |-> a.text.root,
                 tls |-> a.text.tls, expires |-> now + Smaller(a.text.ttl, MaxTTL)]
  IN  /\ Updating(f, "resolve")
      /\ \/ /\ a.text.access # "invalid"
            /\ cache' = [cache EXCEPT ![fetch[f].host] = record]
            /\ Finish(f, record) /\ UNCHANGED faults
         \/ a.text.access = "invalid" /\ UpdateFails(f) /\ UNCHANGED faults
         \/ a.text.access = "key" /\ UpdateFails(f) /\ May(f)
      /\ UNCHANGED <<now, dns, names, waiters, owner, got, gone>>

UpdateStep(f) ==
  \/ LockName(f) \/ Acquire(f) \/ Check(f) \/ QueryDNS(f) \/ ParseAndStore(f)
  \/ Unlock(f) \/ Release(f)
-----------------------------------------------------------------------------
(* The owner of the domain, and time.                                      *)

ChangeDNS(h) ==
  /\ dns[h].version < MaxChanges
  /\ \E t \in Text : dns' = [dns EXCEPT ![h] = [version |-> @.version + 1, text |-> t]]
  /\ UNCHANGED <<now, cache, names, waiters, owner, fetch, got, gone, faults>>

Tick ==
  /\ now < MaxTime /\ now' = now + 1
  /\ UNCHANGED <<dns, cache, names, waiters, owner, fetch, got, gone, faults>>

TxtNext ==
  \/ Tick
  \/ \E h \in Host :
       \/ ChangeDNS(h)
       \/ \E f \in Fetch, allow \in BOOLEAN : FetchAccessForHost(f, h, allow)
  \/ \E f \in Fetch : UpdateStep(f) \/ ContextEnds(f)

TxtSpec == TxtInit /\ [][TxtNext]_txtVars
-----------------------------------------------------------------------------
\* The stages in which an update has the lock.
Locked == {"check", "query", "resolve", "unlock"}

DnsAnswer == [version : Nat, text : Text]

FetchState == [stage : {"idle", "begin", "wait", "release"} \cup Locked,
               host : Host \cup {None}, allow : BOOLEAN,
               expect : Nat \cup {Zero}, mutex : Mutex \cup {None},
               answer : DnsAnswer \cup {None},
               result : Record \cup {Failed, None}, background : BOOLEAN]

\* The type of every variable.
TxtTypeOK ==
  /\ now \in Nat /\ faults \in Nat /\ gone \subseteq Fetch
  /\ dns \in [Host -> DnsAnswer]
  /\ cache \in [Host -> Record \cup {None}]
  /\ names \in [Host -> Mutex \cup {None}]
  /\ waiters \in [Host -> Nat]
  /\ owner \in [Mutex -> Fetch \cup {None}]
  /\ fetch \in [Fetch -> FetchState]
  /\ got \in [Fetch -> Record \cup {Failed, None}]

\* Updates of a host do not overlap, although the mutex of its name is thrown away
\* and made anew: nobody holds one mutex of a name while another holds another.
AtMostOneUpdates ==
  \A f, g \in Fetch :
    /\ fetch[f].stage \in Locked /\ fetch[g].stage \in Locked
    /\ fetch[f].host = fetch[g].host
    => f = g

\* A record is never replaced by an older answer of the DNS server: an update that
\* was slow does not undo one that came after it.
NeverOlder ==
  [][\A h \in Host : cache[h] # None /\ cache'[h] # None =>
       cache'[h].version >= cache[h].version]_txtVars

\* A failed update takes away only the record it set out to replace, never one that
\* another update has stored meanwhile.
DropsItsOwn ==
  [][\A h \in Host : cache[h] # None /\ cache'[h] = None =>
       \E f \in Fetch : fetch[f].host = h /\ fetch[f].expect = cache[h].expires]_txtVars
=============================================================================
