# A TLA+ model of gateway-mt

This directory models the repository's stateful parts in TLA+, checks the models
with TLC on small instances and proves the most important properties for every
instance with TLAPS. Paths below are relative to the repository's root unless
they name a file of this directory.

    tlc -config MC_relay.cfg MCBadgerAuth     # any run of the table below
    tlapm BadgerAuthProofs.tla                # any module named ...Proofs

## The system

gateway-mt is an S3 gateway to a decentralised store, with a link sharing
service and an auth service beside it.

| part | state | operations | interacts with |
|---|---|---|---|
| `pkg/auth/badgerauth` | per node: records, replication log, clocks, node id (durable); ensured peers (memory) | Put, Get, replication cycle, Peek/Ping/Replicate, admin invalidate/unpublish/delete, TTL, backup, start and close | its peers over DRPC; authdb above; admin clients |
| `pkg/auth/authdb`, `pkg/nodelist` | allowed satellites | Put, Get, GetBucket, PutBucket, SetAllowedSatellites | a KV (badgerauth); files and HTTP servers with lists |
| `pkg/auth/httpauth`, `drpcauth`, `peer.go` | startup and shutdown flags, listeners | register access, resolve access, claim a bucket name, health; reload of the satellite list; shutdown | authdb, auth clients, the load balancer |
| `pkg/gcslock`, `gcsops`, `certstorage` | the lock object in a bucket; per mutex the last known metageneration and a refresh cycle | Lock, Unlock, refresh; object operations; certificate storage | Google Cloud Storage, other processes |
| `pkg/authclient`, `pkg/backoff` | an LRU cache of encrypted answers; a delay per lookup | Resolve, ResolveWithCache | the auth service's HTTP API |
| `pkg/linksharing` | TXT record cache with a mutex per host name | serve a link or a hosted domain, decide about a certificate | DNS, authclient, the satellite, the owner of the bucket |
| `pkg/server` | concurrent requests per macaroon head; connection pools; a shutdown flag | the S3 API; health; close | authclient, MinIO's handlers |
| `pkg/minio` | none of its own; bucket names at the node service | bucket and object handlers that rewrite names, PutBucket/HeadBucket/DeleteBucket in several steps | the DWS node service, the gateway library |
| `pkg/httpserver`, `pkg/startupcheck`, `cmd/*` | two servers and their listeners | run, shut down, exit | the services above |
| helpers (`trustedip`, `errdata`, `httplog`, `gpublicca`, `middleware`, `internal/*`) | none | conversions, API clients | |

What is hard in each of them, and what makes it correct:

* **badgerauth.** Replication is a pull: a node asks each peer, one after the other, for
  the log entries after the clocks it has, and numbers what it receives *by counting
  it*, for a response carries no clocks. It works over nodes that crash, restart on the
  wrong directory, expire entries, relay each other's entries and change records under
  an admin's hand. Correct means: the counts are right; a clock never passes what the
  origin has logged; what is counted is held; records and log entries stay together;
  replication never overwrites; every record reaches every node.
* **Node.Get.** A local lookup and concurrent Peeks, each at its own time, while
  the record travels, expires or is deleted. Correct means: what is there
  throughout is found.
* **gcslock.** A lease over an object store: crashes, lost responses, take-over
  of expired objects by conditional deletes. Correct means: one holder; an
  abandoned lock comes free.
* **authclient and the auth API.** Many requests wait for one question, answers
  are late, retried and cached, and keys come into being and are revoked
  meanwhile. Correct means: a key works from when it is handed out until it is
  revoked, and at most the cache's expiration longer; nobody pays for another
  one's cancellation.
* **gateway.** A request passes the credentials, the limiter (two critical
  sections), the wrapping handlers and the project, any of which may answer, fail
  or panic. Correct means: counts are exact; what a user has stored under a name
  is found under it; bucket names are unique.
* **linksharing.** A cache that serves expired records while goroutines update
  them, under mutexes that come and go; several calls about one key while the
  bucket changes. Correct means: updates of a name exclude each other, nothing
  newer is undone, what exists is found, and one version of an object is served.
* **shutdown.** Health endpoints, delays, timeouts and several servers. Correct
  means: what is routed is accepted, what is accepted is answered, the database
  outlives the requests, and the process exits.

`PROJECT.json` lists every component with its status and every hazard with its
line and the properties that cover it.

## The modules

| module | models | builds on |
|---|---|---|
| `Feeds` | what the replicated database promises, abstractly | |
| `BadgerAuth` | the replicated auth database | implements Feeds |
| `AuthGet` | `Node.Get` on the running store | BadgerAuth |
| `GcsLock` | the distributed lock | |
| `AuthClient` | lookups of access keys: retries, backoff, the cache | |
| `AuthApi` | the auth service's API and satellite lists | AuthClient |
| `Limiter` | the concurrency limiter | |
| `S3Routes` | the routes of the S3 API and the names handlers make (no state) | |
| `Gateway` | a request on its way through the gateway | AuthClient, Limiter, S3Routes |
| `TxtCache` | the TXT record cache and MutexGroup | |
| `LinkSharing` | requests at the link sharing service | TxtCache |
| `Lifecycle` | start and shutdown of the three services | |
| `MC...` | their instances for TLC | |
| `...Proofs` | their theorems | |

Modules compose in two ways. `AuthGet`, `AuthApi`, `Gateway` and `LinkSharing`
extend the module of the component they use, take its actions as conjuncts of
their own and say what else changes; `Gateway` also takes the limiter as an
INSTANCE. That a composition is a behaviour of its components holds by that
construction, and is a lemma by which what is proved of a component carries over
(`GatewayKeepsAuthClient`, `GatewayKeepsLimiter`, `LinkKeepsTxtCache`). Only in
`AuthApi` is it a property: the auth client's own `Ask` assumes what the service
says, `AuthApi` has the service instead, and `ClientIsServed` (`AuthSpec`) says that
the service says what the client assumes.

Definitions named `Operator_Variant` are seeded errors: the operator as a
plausible bug would have it. None of them is part of a specification; each shows
that a property notices that bug (`mutants` in `PROJECT.json`).

### BadgerAuth

State. `records`, `rlog`, `known` and `clocks` are the four kinds of keys in a
node's Badger directory: a record under its key hash (`InsertRecord`), a
replication log entry `[id, clock, key]` with the record's TTL
(`replication_log.go`), and a clock per node id (`clock.go`; `known` are the ids
that have one). `nodeID` is the id stored at first start. In memory there are
`ensured` (the `ensuredClock` flag of each peer), `sync` (where the replication
cycle stands), and `put` (Puts that have passed their existence check). `now` is
the wall clock; the history variables are `born` (the keys each node's own Puts
stored, in order), `issued` (keys that were handed to a Put) and `spent` (how
much of each bound is used).

Every Badger transaction is one step, and every gap between two transactions, or
between a transaction and an RPC, is a place where other steps may come in:

| action | code |
|---|---|
| `PutCheck`, `PutInsert`, `PutFails` | `PutAtTime`: the existence check has its own View; the insert, or its failure |
| `SyncStart`, `AfterPeer` | `syncAll` over the peers in order |
| `SyncConnect` | `pingClient` and `ensureClock`, then `buildRequestEntries` |
| `SyncRespond` | `Replicate` on the peer, one View for each id |
| `SyncInsert` | `insertResponseEntries`: all in one transaction |
| `SyncPeerFails` | whatever `withClient`, `pingClient` and `syncRecords` log and drop |
| `SyncSelf` | a peer that answers with the node's own id stops the node |
| `InvalidateRecord`, `UnpublishRecord`, `DeleteRecord` | `admin.go` |
| `Tick` | time; what has expired reads as absent (`Live`) |
| `Crash`, `Restart` | process end; `OpenDB`, `checkFirstStart`, `prepare` |
| `StorageEmptied`, `StorageSwapped` | the directory is lost, or another node's is mounted, while a node is down |

Abstractions. A record is its creation time, expiry, `Public` and
`InvalidatedAtUnix`; the encrypted payload never differs for one key. A key hash
is drawn at random, and then never drawn again, or derived from a bucket name
(`Reusable`), and then any number of Puts may use it. The entries of a request
are answered in any order, which is more than the code does (the order of its
ids); entries of one id keep their log order, which is what they are numbered
by. A failure of `ensureClock`, of reading a local clock or of the disk stops the
node in the code and is not modelled beyond `Crash`. Clocks do not overflow.
Transactions that conflict are retried by Badger, so a step is what the retry
that commits does, or `PutFails`/`SyncPeerFails` when the backoff is exhausted.

### AuthGet

`get[r]` is a call of `Node.Get`: the local answer (`DB.Get`), then one Peek for
each peer; `GetPeek`, `GetPeekMisses` and `GetPeekFails` are the outcomes of one
Peek, in any order and at any time, and `BadgerAuth`'s whole next-state relation
runs beside it (`StoreStep`). The first record ends the call; when no peer has it,
or all failed, the call ends with no record and no error. `holders` is history: the
peers that have had the record since the call began.

### Feeds

Every node has a feed of the records it took (`Take`), and holds a prefix of each
feed and nothing else; it gets further by following a node that is further
(`Follow`), which is what one transaction of `insertResponseEntries` comes to.
`ReplicatesFeeds` is its specification with `feed` the keys of a node's own Puts,
`prefix` its clocks, and `holds` the records it would return. It says what the
counting is for: a clock is not only right as a number (`ClockBound`), the
records it stands for are there, and no others. It holds as long as nothing
expires, is deleted or is lost, and every key is used once.

### GcsLock

`object` is the lock object with its metageneration and the time it has left; `mutex[m]`
is the phase of the call on mutex m, the last known metageneration, the one `Stat`
returned, and the refresh cycle. Each request to the object store is one step, and may
fail or lose its response (`PutUnheard`, `RefreshFails`, `UnlockFails`, `DeleteFails`),
at most `MaxFaults` times; a refresh cycle also ends with the context that `Lock` was
given (`LockContextEnds`), which counts as one. Time is counted down; until the first
fault it does not pass over a refresh that is due or an unlock in progress (`Tick`),
that is, a refresh takes no longer than the time between `Interval` and `TTL`. The
processes' clocks agree.

### AuthClient

`lookup[r]` is a call of `ResolveWithCache`: the stage it is in, its key, whose
question it waits for, the backoff's delay and the answer. `entry[k]` is the LRU
cache: when the question was begun, by whom, and the encrypted answer.
`registered` and `revoked` are the auth service as far as a client can tell.

| action | code |
|---|---|
| `StartLookup`, `Hit`, `Miss` | `ResolveWithCache` and the LRU cache: an answer, a question to wait for, or a new entry, perhaps in the place of another one |
| `Ask` | `Resolve`'s request; what the service says at that moment, or an error, or a broken connection |
| `Retry`, `GiveUp`, `Resume`, `Leave` | `Resolve`'s loop over `ExponentialBackoff` (`BeginWait`, `NextDelay`, `Maxed`) |
| `Settle`, `Finish` | the answer is cached (200 and 404) or not, and wakes those who wait |
| `Cancel`, `Register`, `Revoke`, `Tick` | clients, the auth service, time |

Answers are what `Resolve` tells apart. The LRU library is modelled from how it is
used: one maker per key, an age counted from the question, capacity, and waiters
that get the maker's answer or look again.

### AuthApi

`call[p]` is a call of the HTTP or DRPC API, from `Dispatch` (the routes of `New` with
`Dir`, `Arg` and `Method`) and the checks before the database (`Receive`) over
`CheckSatellite`, `PutRecord`/`PutFails` and `HandOut`, or `GetBucket`, `PutBucket`,
`CheckBucket` and `InsertBucket`. Lookups are AuthClient's, and `GetAccess` is what
`getAccess` says to them. `Publish`, `ReloadStart`, `ReadSource`, `ReadFails` and
`SetAllowedSatellites` are the reload of the satellite lists, which goes on between the
steps of calls. The store is one node of badgerauth: a record of an access key has a
random key, so its Put is one step; a bucket name is claimed with an empty record of
this second (`names[n]` is when it was created), and the check for the key is a
transaction before the one that inserts, which accepts an equal record. What several
nodes make of it is BadgerAuth and AuthGet. `handedOut`, `always` and `ever` are
history. An access grant is whether it can be read, its satellite, and the NotAfter
times of its caveats.

### Limiter

`limits` is the map of counts, `slot[r]` the request's phase between the two
critical sections, and `leaked` a history of handlers that panicked: `Increment`,
`Admit` or `Refuse`, then `Decrement` or `Panic`.

### S3Routes and Gateway

`S3Routes` is the router's table in its order (`Routes`), what gorilla/mux makes
of it (`HandlerOf`), and the name each wrapping handler makes of a bucket and an
object (`Place`, `SourcePlace`).

A request `req[r]` goes through `Stages`:

| stage | actions | code |
|---|---|---|
| idle | `Arrive` | the router and `AccessKey`: which signature counts, the parsers' checks in their order (`GetAccessKeyID`) |
| lookup | `Resolving` | AuthClient's steps |
| limiter, leaving | `Count`, `Admit`, `TurnAway`, `Leaves` | the limiter around the handlers of uploads and downloads |
| handler | `Handle` | `objectAPIHandlersWrapper`: the user of the key, the place, what is answered without MinIO |
| head, post, unclaim | `HeadBucket`, `PutBucketClaim`, `DeleteBucketClaim` | `nodeBucketRequest` |
| core | `Core` | MinIO's handler and one method of `MultiTenancyLayer`: project, effect, answer |
| any | `Panic` | a panic in a handler, and `CriticalErrorHandler` |

`stored`, `uploads` and `taken` are the objects, the open multipart uploads and
the names at the node service. The gateway library and MinIO's own handlers are
external: an object is there or not, and a call may fail before or after its
effect. What is written to a response first is what the client sees (`Said`).

### TxtCache

`cache[h]` is a host's record with the version of the DNS record it came from;
`names`, `waiters` and `owner` are MutexGroup: which mutex a name has, how many
are counted for it, and who has locked it. `fetch[f]` is a call of
`FetchAccessForHost` or the goroutine it has left behind, `got[f]` what it
returned. Each critical section, each query and each wait is a step:
`FetchAccessForHost`, `LockName`, `Acquire`, `Check`, `QueryDNS`,
`ParseAndStore`, `Unlock`, `Release`. `ContextEnds` is the end of a request, and
of what its goroutine asks for.

### LinkSharing

`req[r]` is a request: what is asked (`ask`), the key, what is known of
`index.html`, the object that was found, the range of the download that is open,
and what was said. `Arrive` is the routing of `serveHTTP` and `handleStandard`;
`ParseAccess`, `Hosted` (with TxtCache's `Update`) and `Certificate` find out
whose access is used; `StatSlash`, `StatIndex`, `JoinIndex`, `DownloadFirst`,
`StatPlain`, `IsPrefixOfObjects`, `StatRoot`, `ServePrefix`, `NotFoundPage` and
`ShowObject` are the calls of `present.go` in their order, with the goroutine for
`index.html`. `Write` is somebody who changes the bucket between any two of
them. A key is the sequence of its segments; an object is its size, so that an
overwrite with another size is another version. A Range header is a list of ranges,
some of which may be malformed, and If-Range may fail. Ranges are computed as the
code does, which looks at the first one (`PredictRange`, `OptionsToRange`), and as
httpranger does (`ParseRange`, `ServeContent`); `SendRange` and `SendPart` are what
ObjectRanger makes of it: the download that is open is used once, for the range that
it is of, and every other range is a download of its own. `content` is history: the
versions of which something was sent.
`scene` bounds what may meet: requests that share the cache in a quiet bucket, or
one request at a time in a bucket that changes, where every form of request is
sent.

### Lifecycle

One process, of the gateway, the auth service or the link sharing service:
`server[p]` is each of its servers, `run`, `closer` and `cancelled` are the
goroutines and the context of its main, `inShutdown` and `startup` the flags of
the health endpoints, `resource` the pools, the database or the mapper.
`conn[c]` are requests, sent by a load balancer that probes the health endpoint
every `ProbeInterval`. `orphans` are the requests whose handler runs on although
their connection was closed: `Close`, a timeout or the end of a server cuts the
connection (`Cut`), and the handler returns when it likes (`HandlerEnds`). Delays and
timeouts are counted down by `Tick`. The three
mains differ where the code does: the auth service's servers stop by themselves
when the context ends and the peer is closed after them, the others are closed by
a second goroutine.

## Runs

| run | instance | checks | distinct states |
|---|---|---|---|
| `faults` | 2 nodes, n2 lists itself, first-start off, a shared and a random key, 2 clients, a crash, a lost or swapped directory, an admin call | `CountingInv` `OwnClockCountsPuts` `OnlyAdminChangesRecords` | 1,899,226 |
| `ttl` | 3 nodes with a relay, first-start on, 2 Puts of which one expires, a crash, a loss, an admin call | `ClockBound` `NeverBehindOrigin` `LogHasRecord` `RecordHasLog` `HoldersAgree` | 2,456,821 |
| `relay` | 3 nodes with a relay, 3 Puts, limit 2, a crash | `CaughtUpIsComplete` `ReplicatesFeeds` | 223,480 |
| `live` | 2 nodes, 1 Put each, a crash, fair | `Convergence` | 5,364 |
| `get` | 3 nodes, 1 Put that expires, a crash, an admin call, a reader | `FoundWhereHeld` | 1,047,431 |
| `lock` | 3 mutexes, TTL 2, two faults, fair | `ExclusionInv` `MutualExclusion` `HolderHasObject` `LockComesFree` | 864,091 |
| `gateway` | 2 requests, 2 keys of 2 users, 1 slot, one failure, one panic; or any one request | `CancelIsOwn` `FindsWhatWasStored` `SubresourceIsServed` `HandlersAreLimited` `OnlyOwnersChange` `TurnedAwayWhenCrowded` | 371,240 |
| `auth` | 2 calls and 2 lookups, 4 times, one failure; registrations with lookups, registrations with reloads of 2 satellites from 2 sources, or claims of 2 names | `AuthApiTypeOK` `NobodyWaitsInVain` `RevokedIsRefused` `HandedOutIsServed` `ListedIsAllowed` `NameGivenWithinASecond` `ClientIsServed` | 739,497 |
| `shutdown` | each service, 2 connections, 2 servers that fail, fair | `RoutedIsAccepted` `DatabaseOutlivesRequests` `CutOnlyWhenLate` `ShutdownEnds` | 586,082 |
| `share` | 3 requests for a host, 2 mutexes, a change of the DNS; or one request of any form, with every kind of range, in a bucket of 5 keys that changes once | `LinkTypeOK` `AtMostOneUpdates` `ExistingIsFound` `ServesOneVersion` `FlushedByLoad` `NeverOlder` `DropsItsOwn` | 1,057,524 |
| `skip` | relay with an expiring record | `CaughtUpIsComplete` | violated |
| `put_bucket` | two users create one bucket | `BucketNamesAreUnique` | violated |

Why the bounds are enough. Two nodes show what a pair can do to each other's
counts; a relay needs three, and a node that fetches from both the origin and a
relay is the smallest topology in which two paths bring the same entries. With
limit 2 and three entries a response is cut off once. One expiring record leaves a
gap in a relay's log. Three mutexes are a holder, a process that takes over and
one that comes in between. Two requests are a maker and a waiter in the auth
client's cache, a claim and another claim of a bucket, the one in the limiter's
slot and the one that is turned away; a capacity of 1 puts an entry out for every
other key. In `auth` the longest delay is the shortest, so a lookup may give up while
another one waits for it. `auth` starts lookups at four times with an expiration of
1: an answer can be cached before a revocation and found after it, and too old. Three
fetches are an update, one that waits for its mutex, and one that comes when the
name is gone; two mutexes are the old and the new one. In `shutdown` the delay is
longer than the probe interval (the case `RoutedIsAccepted` is about) and the
timeout shorter than some requests. In `gateway` no time passes (`MaxTime` is 0), so
what `OnlyOwnersChange` says of revoked keys is checked by `auth` for the auth client
and by the theorem for the two together. What can happen together is bounded by
`Activities`, `Calls` and `Scenes`: requests of different groups share no state
but counters of faults.

Deadlock is checked in the runs of BadgerAuth, AuthGet and GcsLock. In the others
requests and processes end, and when all have ended nothing more happens.
Symmetry is used for requests, calls and mutexes, in runs without liveness
properties.

The type invariants of the gateway, of its auth client and limiter, and of the
processes (`GatewayTypes`, `AuthTypes`, `LimiterTypes`, `LifecycleTypes`) are theorems
and take no place in a run; those of the other modules are part of a run's invariants.

### What does not hold

1. `skip`, **a record is skipped for good.** n1 stores k1, k2, k3; n2 takes k1
   (entry 1) before k1 expires. n3 comes later, gets k2 and k3 and counts them as
   entries 1 and 2; asking n1 again for what comes after 2 it gets k3 once more,
   as entry 3. Now n2 asks n3 for what comes after 1: it gets k3 twice, counts up
   to 3, which is n1's clock, and never asks for k2 again. The package's README
   says there will be no out-of-sync nodes. `NeverBehindOrigin` is what is left:
   numbers drift in one direction only, so no clock passes what its origin has
   logged in all its life (`ClockBound`).
2. `put_bucket`, **two users get a bucket of one name.** Both HEADs at the node
   service come before the POSTs; the object is stored and the client told 200
   before the POST is refused, and nothing is taken back. The response writer
   that PutBucketHandler looks at is not the one it hands to PutObjectHandler.

The modules have more that does not hold. No run of the table is spent on these; each
can be seen with the named configuration, which ends in a counterexample:

3. `tlc -config MC_chain.cfg MCBadgerAuth`: **records do not travel through a relay to a
   node that has never met their origin** (`Convergence`). A node asks only for ids that
   it has a clock for, those of its peers and of what it has received.
   `docs/blueprints/new-auth-database.md:194-196` says that nodes also return data for
   nodes the asking one does not know about. A cluster has to be a full mesh.
4. `tlc -config MC_claims.cfg MCBadgerAuth`: **one conflicting bucket claim stops
   replication between two nodes** (`Convergence`). Bucket names hash to the same key
   everywhere, two claims in different seconds are unequal records, and each node
   refuses the other's response as a whole, in every cycle (`db.go:433` says it should
   not happen).
5. `tlc -config MC_peek.cfg MCAuthGet`: **Get serves an invalidated record** from a peer
   when the node does not hold the record itself (`NeverServesInvalid`);
   `authdb/kv.go:77` says the error contains why it is invalid.
6. `tlc -config MC_takeover.cfg MCGcsLock`: **two healthy holders of the lock**
   (`HealthyLockIsExclusive`). Conditional deletes compare metagenerations, which start
   at 1 for every new object. The object of an upload that was not answered expires; two
   processes see it expired, one deletes it and takes the lock, and the delete of the
   other one fits the new object as well. Both were told that they hold the lock, and
   neither has been refused a refresh.
7. `tlc -config MC_put_name.cfg MCAuthApi`: **two callers are told that one bucket name
   is available** (`PutOfExistingIsError`). The check of `PutAtTime` is in a transaction
   of its own, and `InsertRecord` accepts a record that is equal, as those of two claims
   within a second are. `authdb/kv.go:72` says that Put is an error if the key exists.
   What is left is `NameGivenWithinASecond`.
8. `tlc -config MC_range.cfg MCLinkSharing`: **a suffix range longer than the object is
   downloaded twice** (`NoCacheMiss`). `optionsToRange` lets it start before the object,
   httpranger at its beginning, so ObjectRanger does not find the download it has open;
   the comment of `optionsToRange` says that it does. The second download may be of
   another version. What is left is `ServesOneVersion`.

Modelled as it is, and nothing promises otherwise: a handler that panics keeps its
slot of the limiter; `Resolve` retries an answer of 500 for ever, and who waits for it
cannot leave; the gateway closes its pools before its requests are done; the link
sharing service's shutdown timeout of -1 cuts all connections; DRPC stops without the
shutdown delay; a handler that outlives the shutdown timeout of the auth service is not
waited for, and may find the database closed; of a list of ranges all but the first are
downloads of their own, as is a whole object that is sent because If-Range failed, and
may be of other versions; a cached access grant is served where only access keys are
allowed; with first-start on, a node that starts on an emptied directory numbers its
entries from the beginning, and its peers do not ask for those that their clocks are
past (`ClockBound` holds then too: it is about the node's whole history).

## Fairness

`FairSpec` of BadgerAuth: a running node's cycle makes progress (`SyncCycle` runs
it on a timer and every exchange ends with an answer or an error), a node that is
down is restarted (its supervisor), and toward each peer every step of the
exchange succeeds now and then (strong fairness): the code retries in every cycle
and gives up on nothing for good, so this only says that the network is not
down for ever. Puts, admin calls, crashes and time are not fair.

GcsLock: a call on a mutex and its refresh cycle go on, and time passes; nobody
has to unlock, and nobody has to lock.

Lifecycle: goroutines that can go on do, the load balancer probes, and time
passes. No request has to end: `ShutdownEnds` rests on the timeouts.

AuthClient, Gateway, AuthApi and LinkSharing state no liveness: a lookup ends
only with its client while the auth service answers 500.

## Proofs

Each `...Proofs` module is about every value of the constants, under the named
ASSUME of its module.

`BadgerAuthProofs`, for every set of nodes and keys, any peer lists, TTLs, limit
and bounds, with crashes, losses and admin calls, from `ConstantsAssumption`:

* `TypeCorrect`: `TypeOK` and `SyncAlive`.
* `Counting`: the inductive invariant `CountingInv`. The aim is `ClockBound`, and
  it is not inductive: a clock advances by the number of entries in a response, so
  one has to know that the response was counted from the clock that is still
  there (`RequestCurrent`: nothing else writes a foreign clock while a cycle is
  between its request and its insert, and the own id is never requested), that
  its entries are distinct and come after that clock (`BatchNumbered`), which
  needs that a log numbers entries uniquely (`LogNumbered`), and that each number
  is at most the entry's place at its origin (`NeverBehindOrigin`). The heart is
  the lemma `CountBetween`: k entries with distinct numbers in c+1..d satisfy
  k <= d - c. `InsertCounts` applies it to a transaction, `RankBound` to each of
  its entries, `RespondCounts` to a response.
* `ClocksNeverAhead` (`ClockBound`) and `EntriesNeverBehind`
  (`NeverBehindOrigin`) follow.
* `OwnClock` (`OwnClockCountsPuts`), assuming `~FirstStart`: with `OwnStorage` as
  the inductive part. The assumption is needed: a node that is restarted with
  first-start on an empty directory starts to count anew. `ClockBound` does not
  need it.
* `AdminHasLastWord` (`OnlyAdminChangesRecords`), an action property.
* `LogAndRecords` (`LogHasRecord` and `RecordHasLog`), from `LogMatches`: a record
  that reads as present and a log entry for its key expire together, for they are
  written by one transaction with one TTL, and only an admin's deletion takes both.
* `HoldersHoldTheSame` (`HoldersAgree`): two nodes that hold a key that was drawn at
  random hold the record of one Put, but for what an admin changed. The invariant,
  `CopiesAgree`, is about all copies of a record, those in responses under way and
  in Puts that have passed their check included, and says that only issued keys have
  any, so a Put that begins makes the first one. Every other step makes copies of
  copies only (`Stems`, `NothingNew`). Bucket names are excepted: two Puts may claim
  one (`Reusable`).
* `FeedsAreReplicated` (`ReplicatesFeeds`) and `CaughtUpHasAll`
  (`CaughtUpIsComplete`), assuming `NothingIsLost`: nothing expires, nothing is
  deleted, no directory is lost, every key is used once. Crashes are allowed. Run
  `skip` shows that the assumption is needed. The step from numbers to records is
  `FeedInv`: the i-th entry that any node has for m is the i-th key that m took
  (`LogIsPrefix`), and so are the entries of a response, from the clock on that
  was asked for (`BatchGoesOn`). With that, an insert is a `Follow` of the peer
  that answered, a `PutInsert` is a `Take`, and every other step changes nothing
  that Feeds can see.
* `GetFinds` (`FoundWhereHeld`), for `GetSpec`: a peer that has had the record
  throughout is one that the call still waits for, until a Peek fails or finds
  (`HoldersWait`).

`GcsLockProofs`, for any processes, TTL and Interval, from `LockAssumption`:
`ExclusionIsKept` (`ExclusionInv`), and from it `LockExcludes` and
`HolderKeepsObject`. The invariant says that until the first fault an owner's
object has at least `TTL - Interval + due` left, so nobody finds it expired and
nobody is ever about to delete it. It cannot be extended past the first fault
(item 6 above).

`AuthClientProofs`, for any requests, keys, delays, expiration and capacity:
`AuthIsKept`, the inductive invariant `AuthInv`. `RevokedIsRefused` is not
inductive: it needs that no entry, no answer under way and no result stems from a
question older than its entry says, and that who waits for a question found its
entry unexpired when it came (`Ages`, `Grants`). `RevokedKeysAreRefused` and
`CancelsAreOwn` follow. `WaitersAreNotLeft` (`NobodyWaitsInVain`) adds that who asks
for others is between its question and its answer (`WaitInv`).

`LimiterProofs`, for any requests, keys and limit: `CountsAreExact`
(`SlotsAccounted`) and with it `LimitHolds` (`AtMostAllowed`) and `RefusalIsJust`
(`RefusedOnlyWhenCrowded`). Comparing later than incrementing is safe because who
is inside is counted: the count a request compares includes all who are inside
already and itself.

`AuthApiProofs`, for any calls, keys, names, satellites and sources:
`ServiceImplementsClient` (`ClientIsServed`), by which what is proved of the auth client
holds of the two together (`RevokedIsRefusedByApi`, `WaitersAreNotLeftByApi`).
`ApiIsKept` is the inductive invariant, in named parts. `Refusals`: a lookup that is
told that a key is missing or refused began before the key was handed out, or after its
end, which needs what an entry of the cache and an answer under way say of the past;
`KeysWork` (`HandedOutIsServed`) follows. `Lists`: what a reload has read lies between
what every source has always had and what one has ever had; `ListsAreRight`
(`ListedIsAllowed`) follows. `Calls`: who is told that a name is theirs has made its
claim in the second of the record that is there, which nothing replaces by another;
`NamesAreGivenWithinASecond` (`NameGivenWithinASecond`) follows.

`GatewayProofs`, for any users, keys, buckets, objects and requests. First the lemmas
that every step of a request is a step of the auth client, of the limiter, or changes
neither (`GatewayKeepsAuthClient`, `GatewayKeepsLimiter`), so `GatewayCancelsAreOwn`
carries over from the component. The limiter's step needs the type of a lookup's key,
and so the auth client's invariant. `HandlersStayLimited` (`HandlersAreLimited`) and
`TurnedAwayInCrowds` (`TurnedAwayWhenCrowded`) are about the requests themselves: a
request that has passed the limiter has its slot there until it leaves or panics
(`GatewaySlots`), so the handlers at work are no more than those inside the limiter,
and those that are counted no fewer than the limiter's count says.
Then about its own storage: `StorageIsKept` is the inductive invariant
`StorageInv`. `Stores`: what a request was told that it wrote is there, or a
request that was answered removed it. `Misses`: what a request was told is missing
somebody else removed, if it was written before the request came. A step may only
break the two by removing something, and `EffectIs` says who removes what: a
method removes what is at its own place, and of the handlers that end in
`DeleteObject` and `DeleteObjects` only one is ever at an object's place, for a
bucket's path has one segment and an object's has two (`OtherPlaces`). `StoredIsFound`
(`FindsWhatWasStored`) follows, for requests that mind the same object have the same
place (`MindersPlaces`), and the user that a request works for is the owner of the key
that signed it (`SignersAreUsers`). `GatewayTypes` rests on the same invariant.
`OwnersChangeTheirs` (`OnlyOwnersChange`) puts the parts together, end to end: the
place of a request at the core begins with its user, who is the owner of its key, by
`StorageInv` and `SignerInv`; `CoreChanges` says that nothing but its place's bucket is
changed, and only with a grant; and of the grant the auth client's theorem
`RevokedKeysAreRefused`, which holds here by the refinement, says that it is not of a
key that was revoked longer ago than `Expiration` when the request began.
`SubresourcesAreServed` (`SubresourceIsServed`) is about the table of routes: the
handler is that of the first route that matches (`FirstIs`), and no route that
takes whatever is left comes before one that names a sub-resource of its method and
kind (`BareAreLast`), part by part of the table.

`LinkSharingProofs`, for any hosts, fetches, mutexes and texts: `TxtIsKept`, the
invariant `TxtInv` of the TXT record cache. Its part `MutexInv` says that all who are
counted for a name have the mutex the map has for it and that `waiters` is their number,
so the name is removed only when nobody is left to use its mutex; `UpdatesExclude`
follows. `CacheInv` says that what an update with the lock is about to replace is what
it expected, and that its answer is no older: `RecordsGetNewer` and
`UpdatesDropTheirOwn` follow. Every step of the service is one of the cache or leaves it
alone (the lemma `LinkKeepsTxtCache`), so all three hold in it. `LinkIsKept` is the
inductive invariant of the service, with two parts of its own. `FoundInv`: at every
stage of a request the calls it has made in vain each say that something has not been
there all the time, and the download it opened first is of the range that the answer
will speak of (`IsSound`). `WhatIsThereIsFound` (`ExistingIsFound`) and
`OneVersionIsServed` (`ServesOneVersion`) follow, the second for every size and every
range that the object has, over the integers; `AsksForOne` says what it excepts.
`UserInv`: who loads a page has the record that its update returned, and a record that
was flushed stays away from those who come later (`HasFlushed`); `LinkTypes` and
`LoadsFlush` (`FlushedByLoad`) follow.

`LifecycleProofs`, for any delays, timeouts, probes and failures: `LifecycleIsKept` with
`OrderInv` (what has ended before what) and `ActiveInv` (a connection that is being
answered has a server that has not ended, or has failed or timed out, and so has a
handler whose connection was closed); `LifecycleTypes`, `DatabaseIsClosedLast`,
`OnlyLateAreCut` follow. `RoutedAreAccepted` (`RoutedIsAccepted`) adds the clocks: while
the load balancer still routes to the service, the rest of the shutdown delay covers the
time until its next probe (`DelayCovers`), so the listeners are open; it holds for every
delay longer than the probe interval, as the property says.

The assumptions are those that the modules state of their constants, and no more but
`~FirstStart` in `OwnClock` and `NothingIsLost` in the two theorems about feeds.
`ApiAssumption` says that requests that register are well-formed where they are
accepted; `LinkAssumption` that requests name hosts, that a Range header is a list of
ranges or malformed ones, and that None and Failed are no objects; `GatewayAssumption`
that requests name buckets and objects and that None is no user.

What the proofs taught. Four properties were too strong or said something else than
was meant, which no instance that was checked had shown, and each was corrected
before it was proved: `ExistingIsFound` has to except an object that was found and
is gone when it is opened, which is reported as missing whatever else is there by
then; `FlushedByLoad` starts at the end of the update, not at the end of the page
load; `FindsWhatWasStored` is about the owner of the key that signed a request, for
two keys of one user share their objects and a removal by the one is as good as by
the other; and `SubresourceIsServed` excepts copies and forms, whose own routes come
before those of some sub-resources (a PUT of a retention with a copy source is a
`CopyObject`).

Only model-checked: `Convergence`, `LockComesFree` and `ShutdownEnds`. They are
liveness under fairness, which is out of the proof system's reach. Every other
property of a passing run is a theorem.

## Not modelled

* Differences between the nodes' clocks (created and expiry times are compared
  with each node's own); restoring a backup onto a node, which sets its own clock
  back; Badger's internals and value log collection; data races in Go.
* The backup, node ids, TLS set-up and certificate loading, signed URLs (a pure
  function over strings; LinkSharing takes its outcome), the Geo IP map, logging
  and metrics, command line clients: conversions or I/O without state that any
  other part depends on.
* `certstorage`: its locks are `GcsLock`'s; the order in which certmagic calls it
  is not in this repository.
* MinIO's handlers, the gateway library, the satellite, DNS, the node service and
  the object store are external, modelled from how the code here uses them.
* Contents: payloads of records, templates, archives, S3 error documents.

What could follow: the same of Feeds when records expire (a node holds of each feed
what has not expired and was not skipped), `certstorage` as a client of GcsLock, and
the effect of a `CompleteMultipartUpload` on what is listed.
