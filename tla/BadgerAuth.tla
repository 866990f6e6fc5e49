----------------------------- MODULE BadgerAuth -----------------------------
(***************************************************************************)
(* The eventually consistent auth database, pkg/auth/badgerauth: a cluster *)
(* of nodes, each with a durable store (records, a replication log and a   *)
(* vector of clocks) that it fills from its own Puts and, one peer after   *)
(* the other, from the replication logs of its peers.                      *)
(*                                                                         *)
(* A replication response carries no clock: an entry is [node id, key      *)
(* hash, record], in log order, and the receiver COUNTS the entries of an  *)
(* id to number them in its own log.  What its clock for an id means is    *)
(* therefore a property to prove, not a definition.                        *)
(***************************************************************************)
EXTENDS Naturals, Sequences, FiniteSets

CONSTANTS
  Node,              \* node ids (one authservice deployment each)
  Key,               \* key hashes
  Reusable,          \* the key hashes derived from a name, which two Puts can
                     \* share (bucket names); any other is drawn at random
  Client,            \* Put calls the cluster serves at a time
  Join,              \* Join[n]: the peers of n, in the order of node.join
  ExpiresAt,         \* ExpiresAt[k]: the time k's record expires, 0 for never
  ReplicationLimit,  \* entries of one id in one response
  FirstStart,        \* node.first-start, as the nodes are restarted with
  Bound,             \* bounds of the model: [time, puts, crashes, admin, losses]
  None               \* no node id, no record, no Put

Record == [created: Nat, expires: Nat, public: BOOLEAN, invalidatedAt: Nat]
LogEntry == [id: Node, clock: Nat, key: Key, expires: Nat]
\* The clock is the sender's: it stands for the place in the response only.
ResponseEntry == [id: Node, clock: Nat, key: Key, record: Record]
Pending == [node: Node, key: Key, record: Record]

ASSUME ConstantsAssumption ==
  /\ Reusable \subseteq Key
  /\ Join \in [Node -> Seq(Node)]
  /\ ExpiresAt \in [Key -> Nat]
  /\ ReplicationLimit \in Nat
  /\ FirstStart \in BOOLEAN
  /\ Bound \in [time: Nat, puts: [Node -> Nat], crashes: Nat, admin: Nat, losses: Nat]
  /\ None \notin Node /\ None \notin Record /\ None \notin Pending

VARIABLES
  now,       \* wall clock that the storage engine expires entries by
  up,        \* nodes whose process is running
  nodeID,    \* nodeID[n]: the id stored in n's storage, or None
  records,   \* records[n][k]: the record stored under k, or None
  rlog,      \* rlog[n]: the replication log entries stored
  known,     \* known[n]: ids that n's storage has a clock for
  clocks,    \* clocks[n][m]: n's clock for m (0 while m is not known)
  ensured,   \* ensured[n]: the peers whose ensuredClock flag is set
  sync,      \* sync[n]: where n's replication cycle stands
  put,       \* put[c]: a Put between its existence check and its transaction
  issued,    \* keys that were handed to a Put (a random key never is again)
  born,      \* history: born[n] is the sequence of keys n's own Puts stored
  spent      \* what was used of each bound

durable == <<nodeID, records, rlog, known, clocks>>
vars == <<now, up, durable, ensured, sync, put, issued, born, spent>>

SyncState == [phase: {"idle", "dial", "replicate", "broken"}, at: Nat,
              request: [Node -> Nat], todo: SUBSET Node,
              batch: SUBSET ResponseEntry]

NoSync == [phase |-> "idle", at |-> 0, request |-> [m \in Node |-> 0],
           todo |-> {}, batch |-> {}]

NoRecords == [k \in Key |-> None]
NoClocks == [m \in Node |-> 0]

\* Every node ran once with first-start and stored its id; nothing is Put yet.
Init ==
  /\ now = 1
  /\ up = Node
  /\ nodeID = [n \in Node |-> n]
  /\ records = [n \in Node |-> NoRecords]
  /\ rlog = [n \in Node |-> {}]
  /\ known = [n \in Node |-> {}]
  /\ clocks = [n \in Node |-> NoClocks]
  /\ ensured = [n \in Node |-> {}]
  /\ sync = [n \in Node |-> NoSync]
  /\ put = [c \in Client |-> None]
  /\ issued = {}
  /\ born = [n \in Node |-> << >>]
  /\ spent = [crashes |-> 0, admin |-> 0, losses |-> 0]

-----------------------------------------------------------------------------
(* The storage engine: what a transaction reads and writes.                *)

\* An entry whose TTL has passed reads as if it were not stored.
Live(e) == e.expires = 0 \/ e.expires > now
Visible(n, k) == records[n][k] # None /\ Live(records[n][k])
Held(n) == {k \in Key : Visible(n, k)}
VisibleLog(n) == {e \in rlog[n] : Live(e)}

\* The place of entry e among the entries of its id in S.
Rank(e, S) == Cardinality({f \in S : f.id = e.id /\ f.clock <= e.clock})

\* A variant: whatever arrives overwrites what is there.
InsertAllowed_Any(n, S) == TRUE

\* No InsertRecord of the entries S on n would find an unequal record.
InsertAllowed(n, S) ==
  /\ \A e \in S : Visible(n, e.key) => records[n][e.key] = e.record
  /\ \A e, f \in S : e.key = f.key /\ Live(e.record) => e.record = f.record

\* advanceClock: one more for every entry of the id.
AdvancedClocks(n, S) ==
  [m \in Node |-> clocks[n][m] + Cardinality({e \in S : e.id = m})]

\* The log entry of e: the clock after the entries of its id up to e.
Logged(n, e, S) ==
  [id |-> e.id, clock |-> clocks[n][e.id] + Rank(e, S),
   key |-> e.key, expires |-> e.record.expires]

\* A variant: every entry is inserted with the record of the same one, as if a
\* variable of the loop were shared.
InsertRecords_OneRecord(n, S) ==
  /\ InsertAllowed(n, S)
  /\ records' = [records EXCEPT ![n] =
       [k \in Key |-> IF \E e \in S : e.key = k
                      THEN (CHOOSE e \in S : TRUE).record
                      ELSE records[n][k]]]
  /\ rlog' = [rlog EXCEPT ![n] = @ \cup {Logged(n, e, S) : e \in S}]
  /\ clocks' = [clocks EXCEPT ![n] = AdvancedClocks(n, S)]
  /\ known' = [known EXCEPT ![n] = @ \cup {e.id : e \in S}]

\* InsertRecord for every entry of S in one transaction.
InsertRecords(n, S) ==
  /\ InsertAllowed(n, S)
  /\ records' = [records EXCEPT ![n] =
       [k \in Key |-> IF \E e \in S : e.key = k
                      THEN (CHOOSE e \in S : e.key = k).record
                      ELSE records[n][k]]]
  /\ rlog' = [rlog EXCEPT ![n] = @ \cup {Logged(n, e, S) : e \in S}]
  /\ clocks' = [clocks EXCEPT ![n] = AdvancedClocks(n, S)]
  /\ known' = [known EXCEPT ![n] = @ \cup {e.id : e \in S}]

\* A variant: the iteration starts at the requested clock, not after it.
FindResponseEntries_FromClock(p, id, clock) ==
  LET later == {e \in VisibleLog(p) : e.id = id /\ e.clock >= clock}
      first == {e \in later : Rank(e, later) <= ReplicationLimit}
  IN  {[id |-> e.id, clock |-> e.clock, key |-> e.key,
        record |-> records[p][e.key]] : e \in first}

\* A variant: the iteration is reversed, and keeps the newest entries.
FindResponseEntries_Newest(p, id, clock) ==
  LET later == {e \in VisibleLog(p) : e.id = id /\ e.clock > clock}
      last == {e \in later : Cardinality(later) - Rank(e, later) < ReplicationLimit}
  IN  {[id |-> e.id, clock |-> e.clock, key |-> e.key,
        record |-> records[p][e.key]] : e \in last}

\* The entries of id that p's log holds after clock, at most the limit of them.
FindResponseEntries(p, id, clock) ==
  LET later == {e \in VisibleLog(p) : e.id = id /\ e.clock > clock}
      first == {e \in later : Rank(e, later) <= ReplicationLimit}
  IN  {[id |-> e.id, clock |-> e.clock, key |-> e.key,
        record |-> records[p][e.key]] : e \in first}

\* The clocks a node asks for: every clock it has except its own.
RequestedIDs(n, ids) == ids \ {n}

-----------------------------------------------------------------------------
(* Put.                                                                    *)

NewRecord(k) == [created |-> now, expires |-> ExpiresAt[k],
                 public |-> k \notin Reusable, invalidatedAt |-> 0]

\* PutAtTime up to its transaction: the existence check has its own View.  A
\* key that exists is refused and changes nothing.
PutCheck(c, n, k) ==
  /\ n \in up
  /\ put[c] = None
  /\ k \in Reusable \/ k \notin issued
  /\ Len(born[n]) < Bound.puts[n]
  /\ ~Visible(n, k)
  /\ put' = [put EXCEPT ![c] = [node |-> n, key |-> k, record |-> NewRecord(k)]]
  /\ issued' = issued \cup {k}
  /\ UNCHANGED <<now, up, durable, ensured, sync, born, spent>>

\* What a Put inserts: one entry for the local node, after all it has.
PutEntry(c) ==
  [id |-> put[c].node, clock |-> clocks[put[c].node][put[c].node] + 1,
   key |-> put[c].key, record |-> put[c].record]

\* PutAtTime's transaction commits.
PutInsert(c) ==
  /\ put[c] # None
  /\ LET n == put[c].node
     IN  /\ Len(born[n]) < Bound.puts[n]
         /\ InsertRecords(n, {PutEntry(c)})
         /\ born' = [born EXCEPT ![n] = Append(@, put[c].key)]
  /\ put' = [put EXCEPT ![c] = None]
  /\ UNCHANGED <<now, up, nodeID, ensured, sync, issued, spent>>

\* The transaction fails: an unequal record exists, the conflict backoff is
\* exhausted, or the caller is gone.
PutFails(c) ==
  /\ put[c] # None
  /\ put' = [put EXCEPT ![c] = None]
  /\ UNCHANGED <<now, up, durable, ensured, sync, issued, born, spent>>

-----------------------------------------------------------------------------
(* The replication cycle of a node: syncAll, one peer after the other.     *)

Peer(n) == Join[n][sync[n].at]

SyncStart(n) ==
  /\ n \in up
  /\ sync[n].phase = "idle"
  /\ Len(Join[n]) > 0
  /\ sync' = [sync EXCEPT ![n] = [@ EXCEPT !.phase = "dial", !.at = 1]]
  /\ UNCHANGED <<now, up, durable, ensured, put, issued, born, spent>>

\* The cycle goes on with the next peer, or ends.
AfterPeer(n) ==
  IF sync[n].at < Len(Join[n])
  THEN [NoSync EXCEPT !.phase = "dial", !.at = sync[n].at + 1]
  ELSE NoSync

\* A variant: a peer that is met for the first time gets no clock.
SyncConnect_NoClock(n) ==
  /\ n \in up
  /\ sync[n].phase = "dial"
  /\ Peer(n) \in up
  /\ Peer(n) # n
  /\ LET asked == RequestedIDs(n, known[n])
         request == [m \in Node |-> IF m \in asked THEN clocks[n][m] ELSE 0]
     IN  sync' = [sync EXCEPT ![n] =
           [@ EXCEPT !.phase = "replicate", !.request = request, !.todo = asked]]
  /\ UNCHANGED <<now, up, durable, ensured, put, issued, born, spent>>

\* Dialing the peer, the ping, the clock for a peer met for the first time,
\* and the request: n's clocks, read outside of any transaction.
SyncConnect(n) ==
  /\ n \in up
  /\ sync[n].phase = "dial"
  /\ Peer(n) \in up
  /\ Peer(n) # n
  /\ known' = [known EXCEPT ![n] =
       IF Peer(n) \in ensured[n] THEN @ ELSE @ \cup {Peer(n)}]
  /\ ensured' = [ensured EXCEPT ![n] = @ \cup {Peer(n)}]
  /\ LET asked == RequestedIDs(n, known'[n])
         request == [m \in Node |-> IF m \in asked THEN clocks[n][m] ELSE 0]
     IN  sync' = [sync EXCEPT ![n] =
           [@ EXCEPT !.phase = "replicate", !.request = request, !.todo = asked]]
  /\ UNCHANGED <<now, up, nodeID, records, rlog, clocks, put, issued, born, spent>>

\* The peer's Replicate answers for one of the ids: one View for each.  It
\* fails as a whole (SyncPeerFails) when a log entry has no record.
SyncRespond(n, id) ==
  /\ n \in up
  /\ sync[n].phase = "replicate"
  /\ id \in sync[n].todo
  /\ LET p == Peer(n)
         found == FindResponseEntries(p, id, sync[n].request[id])
     IN  /\ \A e \in found : Visible(p, e.key)
         /\ sync' = [sync EXCEPT ![n] =
              [@ EXCEPT !.todo = sync[n].todo \ {id},
                        !.batch = sync[n].batch \cup found]]
  /\ UNCHANGED <<now, up, durable, ensured, put, issued, born, spent>>

\* insertResponseEntries: all the entries of the response, or none.
SyncInsert(n) ==
  /\ n \in up
  /\ sync[n].phase = "replicate"
  /\ sync[n].todo = {}
  /\ InsertRecords(n, sync[n].batch)
  /\ sync' = [sync EXCEPT ![n] = AfterPeer(n)]
  /\ UNCHANGED <<now, up, nodeID, ensured, put, issued, born, spent>>

\* A variant: the clocks advance outside of the transaction that is given up.
SyncPeerFails_ClockKept(n) ==
  /\ n \in up
  /\ sync[n].phase # "idle"
  /\ clocks' = [clocks EXCEPT ![n] = AdvancedClocks(n, sync[n].batch)]
  /\ sync' = [sync EXCEPT ![n] = AfterPeer(n)]
  /\ UNCHANGED <<now, up, nodeID, records, rlog, known, ensured, put, issued, born,
                 spent>>

\* Whatever else goes wrong with one peer is logged and dropped: the dial, the
\* ping, Replicate, a response that n refuses, an exhausted conflict backoff.
SyncPeerFails(n) ==
  /\ n \in up
  /\ sync[n].phase # "idle"
  /\ sync' = [sync EXCEPT ![n] = AfterPeer(n)]
  /\ UNCHANGED <<now, up, durable, ensured, put, issued, born, spent>>

-----------------------------------------------------------------------------
(* Admin: what the admin service does to one node's storage.               *)

AdminCall(n, k) ==
  /\ n \in up
  /\ Visible(n, k)
  /\ spent.admin < Bound.admin
  /\ spent' = [spent EXCEPT !.admin = @ + 1]
  /\ UNCHANGED <<now, up, nodeID, known, clocks, ensured, sync, put, issued, born>>

\* A variant: the record is stored without its TTL.
UpdateRecord_NoTTL(n, k, record) ==
  /\ records' = [records EXCEPT ![n][k] = [record EXCEPT !.expires = 0]]
  /\ UNCHANGED rlog

UpdateRecord(n, k, record) ==
  /\ records' = [records EXCEPT ![n][k] = record]
  /\ UNCHANGED rlog

InvalidateRecord(n, k) ==
  /\ AdminCall(n, k)
  /\ UpdateRecord(n, k, [records[n][k] EXCEPT !.invalidatedAt = now])

UnpublishRecord(n, k) ==
  /\ AdminCall(n, k)
  /\ UpdateRecord(n, k, [records[n][k] EXCEPT !.public = FALSE])

\* The log entries of a key, whatever their ids.
LogEntriesOf(n, k) == {e \in VisibleLog(n) : e.key = k}

\* A variant: only the node's own log entries go with the record.
DeleteRecord_OwnLog(n, k) ==
  /\ AdminCall(n, k)
  /\ records' = [records EXCEPT ![n][k] = None]
  /\ rlog' = [rlog EXCEPT ![n] = @ \ {e \in LogEntriesOf(n, k) : e.id = n}]

\* The record goes with all the log entries of its key.
DeleteRecord(n, k) ==
  /\ AdminCall(n, k)
  /\ records' = [records EXCEPT ![n][k] = None]
  /\ rlog' = [rlog EXCEPT ![n] = @ \ LogEntriesOf(n, k)]

-----------------------------------------------------------------------------
(* Time, crashes and restarts.                                             *)

Tick ==
  /\ now < Bound.time
  /\ now' = now + 1
  /\ UNCHANGED <<up, durable, ensured, sync, put, issued, born, spent>>

\* n's process ends: its Puts and its cycle are gone, calls to it break.
Halt(n) ==
  /\ up' = up \ {n}
  /\ ensured' = [ensured EXCEPT ![n] = {}]
  /\ put' = [c \in Client |-> IF put[c] # None /\ put[c].node = n
                              THEN None ELSE put[c]]
  /\ sync' = [m \in Node |->
       CASE m = n -> NoSync
         [] m # n /\ sync[m].todo # {} /\ Peer(m) = n
              -> [NoSync EXCEPT !.phase = "broken", !.at = sync[m].at]
         [] OTHER -> sync[m]]
  /\ UNCHANGED <<now, durable, issued, born>>

Crash(n) ==
  /\ n \in up
  /\ spent.crashes < Bound.crashes
  /\ spent' = [spent EXCEPT !.crashes = @ + 1]
  /\ Halt(n)

\* A node that finds its own id at the address of a peer stops running.
SyncSelf(n) ==
  /\ n \in up
  /\ sync[n].phase = "dial"
  /\ Peer(n) = n
  /\ Halt(n)
  /\ UNCHANGED spent

\* A variant: the id in the storage is not looked at.
Restart_AnyStorage(n) ==
  /\ n \notin up
  /\ up' = up \cup {n}
  /\ nodeID' = [nodeID EXCEPT ![n] = n]
  /\ UNCHANGED <<now, records, rlog, known, clocks, ensured, sync, put, issued,
                 born, spent>>

\* OpenDB: storage without a node id is refused unless first-start is set,
\* storage with another id always.
Restart(n) ==
  /\ n \notin up
  /\ nodeID[n] = n \/ (nodeID[n] = None /\ FirstStart)
  /\ up' = up \cup {n}
  /\ nodeID' = [nodeID EXCEPT ![n] = n]
  /\ UNCHANGED <<now, records, rlog, known, clocks, ensured, sync, put, issued,
                 born, spent>>

\* While n is down its storage is lost: n finds an empty directory.
StorageEmptied(n) ==
  /\ n \notin up
  /\ spent.losses < Bound.losses
  /\ spent' = [spent EXCEPT !.losses = @ + 1]
  /\ nodeID' = [nodeID EXCEPT ![n] = None]
  /\ records' = [records EXCEPT ![n] = NoRecords]
  /\ rlog' = [rlog EXCEPT ![n] = {}]
  /\ known' = [known EXCEPT ![n] = {}]
  /\ clocks' = [clocks EXCEPT ![n] = NoClocks]
  /\ UNCHANGED <<now, up, ensured, sync, put, issued, born>>

\* While n is down its storage is replaced by a copy of m's own.
StorageSwapped(n, m) ==
  /\ n \notin up
  /\ nodeID[m] = m
  /\ spent.losses < Bound.losses
  /\ spent' = [spent EXCEPT !.losses = @ + 1]
  /\ nodeID' = [nodeID EXCEPT ![n] = m]
  /\ records' = [records EXCEPT ![n] = records[m]]
  /\ rlog' = [rlog EXCEPT ![n] = rlog[m]]
  /\ known' = [known EXCEPT ![n] = known[m]]
  /\ clocks' = [clocks EXCEPT ![n] = clocks[m]]
  /\ UNCHANGED <<now, up, ensured, sync, put, issued, born>>

-----------------------------------------------------------------------------
PutStep(c) ==
  \/ \E n \in Node, k \in Key : PutCheck(c, n, k)
  \/ PutInsert(c)
  \/ PutFails(c)

SyncStep(n) ==
  \/ SyncStart(n)
  \/ SyncConnect(n)
  \/ \E id \in Node : SyncRespond(n, id)
  \/ SyncInsert(n)
  \/ SyncPeerFails(n)
  \/ SyncSelf(n)

AdminStep(n) ==
  \E k \in Key :
    \/ InvalidateRecord(n, k)
    \/ UnpublishRecord(n, k)
    \/ DeleteRecord(n, k)

StorageStep(n) ==
  \/ Crash(n)
  \/ Restart(n)
  \/ StorageEmptied(n)
  \/ \E m \in Node \ {n} : StorageSwapped(n, m)

Next ==
  \/ Tick
  \/ \E c \in Client : PutStep(c)
  \/ \E n \in Node : SyncStep(n) \/ AdminStep(n) \/ StorageStep(n)

Spec == Init /\ [][Next]_vars

(***************************************************************************)
(* A running node's cycle goes on (it is run on a timer), a node that is   *)
(* down is restarted, and with a peer that is tried forever each step of   *)
(* the exchange succeeds now and then: the network is not always down.     *)
(***************************************************************************)
SyncConnectTo(n, p) == SyncConnect(n) /\ Peer(n) = p
SyncRespondBy(n, p) == (\E id \in Node : SyncRespond(n, id)) /\ Peer(n) = p
SyncInsertFrom(n, p) == SyncInsert(n) /\ Peer(n) = p

Fairness ==
  \A n \in Node :
    /\ WF_vars(SyncStep(n))
    /\ WF_vars(Restart(n))
    /\ \A p \in Node \ {n} : /\ SF_vars(SyncConnectTo(n, p))
                             /\ SF_vars(SyncRespondBy(n, p))
                             /\ SF_vars(SyncInsertFrom(n, p))

FairSpec == Spec /\ Fairness
-----------------------------------------------------------------------------
(* Properties.                                                             *)

\* Every variable has its type; what the counting of entries ranges over is
\* finite.
TypeOK ==
  /\ now \in Nat
  /\ up \in SUBSET Node
  /\ nodeID \in [Node -> Node \cup {None}]
  /\ records \in [Node -> [Key -> Record \cup {None}]]
  /\ rlog \in [Node -> SUBSET LogEntry]
  /\ known \in [Node -> SUBSET Node]
  /\ clocks \in [Node -> [Node -> Nat]]
  /\ ensured \in [Node -> SUBSET Node]
  /\ sync \in [Node -> SyncState]
  /\ put \in [Client -> Pending \cup {None}]
  /\ issued \in SUBSET Key
  /\ born \in [Node -> Seq(Key)]
  /\ spent \in [crashes: Nat, admin: Nat, losses: Nat]
  /\ \A n \in Node : IsFiniteSet(rlog[n]) /\ IsFiniteSet(sync[n].batch)

\* A running node's own clock is the number of its own Puts: replication never
\* advances it (buildRequestEntries leaves the own id out) and no restart goes
\* on with a clock that was used before (checkFirstStart, prepare).
OwnClockCountsPuts ==
  \A n \in up : clocks[n][n] = Len(born[n])

\* No node counts more entries of m than m has logged in all its life, whatever was
\* relayed, asked for twice or lost on the way.  It does not say that the next request
\* covers what m logs next: m may have started anew on an emptied directory, with
\* first-start on, and then numbers its entries from the beginning again.
ClockBound ==
  \A n, m \in Node : clocks[n][m] <= Len(born[m])

\* An entry that any node logs at position i of m's log was logged by m itself
\* at i or later: relaying a log with gaps (expired or deleted entries) moves
\* entries towards the front, never towards the back.
NeverBehindOrigin ==
  \A n \in Node : \A e \in rlog[n] :
    \E j \in DOMAIN born[e.id] : e.clock <= j /\ born[e.id][j] = e.key

\* A node whose clock for m has reached m's own clock holds every record that
\* m took and still has: nothing would ever make it ask m again.
CaughtUpIsComplete ==
  \A n, m \in up : clocks[n][m] = clocks[m][m] =>
    \A j \in DOMAIN born[m] :
      Visible(m, born[m][j]) => Visible(n, born[m][j])

\* Every entry of a node's log has its record: one without would make
\* findResponseEntries fail for every peer that still asks for that position.
LogHasRecord ==
  \A n \in Node : \A e \in VisibleLog(n) : Visible(n, e.key)

\* Every record a node holds is in its log, so that its peers can get it: an
\* update keeps the TTL that the log entry has.
RecordHasLog ==
  \A n \in Node, k \in Key :
    Visible(n, k) => \E e \in VisibleLog(n) : e.key = k

\* Replication never changes a record that a running node holds: an entry that
\* disagrees is refused, so an invalidation or an unpublishing is not undone by
\* a peer that sends the record as it was.
OnlyAdminChangesRecords ==
  [][\A n \in up, k \in Key :
       Visible(n, k) /\ spent'.admin = spent.admin
         => records'[n][k] = records[n][k]]_vars

\* What no admin call changes of a record.
Origin(record) == <<record.created, record.expires>>

\* Whoever holds a key that was drawn at random holds what its Put stored, however it
\* came there: no response, relay, retry, restart or swapped directory mixes the
\* record up with another, or gives it another TTL.
HoldersAgree ==
  \A n, m \in Node, k \in Key \ Reusable :
    Visible(n, k) /\ Visible(m, k) => Origin(records[n][k]) = Origin(records[m][k])

-----------------------------------------------------------------------------
(* The parts of the inductive invariant behind ClockBound and              *)
(* NeverBehindOrigin.                                                      *)

\* A cycle runs on a running node only, at one of its peers, and carries a
\* request or a response during the exchange only.
SyncAlive ==
  \A n \in Node :
    /\ sync[n].phase # "idle" => n \in up /\ sync[n].at \in 1 .. Len(Join[n])
    /\ sync[n].phase # "replicate" => sync[n].todo = {} /\ sync[n].batch = {}

\* A request still holds the clocks of the node when its response is inserted,
\* although neither is done in one transaction (the note in syncRecords).
RequestCurrent ==
  \A n \in Node : \A m \in sync[n].todo \cup {e.id : e \in sync[n].batch} :
    m # n /\ sync[n].request[m] = clocks[n][m]

\* A log numbers the entries of an id uniquely and up to the clock for the id.
LogNumbered ==
  \A n \in Node : \A e \in rlog[n] :
    /\ e.clock \in 1 .. clocks[n][e.id]
    /\ \A f \in rlog[n] : f.id = e.id /\ f.clock = e.clock => f = e

\* So does a response, after the requested clock; its entries are the origin's.
BatchNumbered ==
  \A n \in Node : \A e \in sync[n].batch :
    /\ e.id \notin sync[n].todo
    /\ sync[n].request[e.id] < e.clock
    /\ \E j \in DOMAIN born[e.id] : e.clock <= j /\ born[e.id][j] = e.key
    /\ \A f \in sync[n].batch : f.id = e.id /\ f.clock = e.clock => f = e

\* The invariant behind OwnClockCountsPuts: only storage with n's own id, which
\* counts all of n's Puts, is ever run as n, and a Put ends with its process.
OwnStorage ==
  /\ \A n \in Node : /\ n \in up => nodeID[n] = n
                     /\ nodeID[n] = n => clocks[n][n] = Len(born[n])
  /\ \A c \in Client : put[c] # None => put[c].node \in up

CountingInv ==
  /\ TypeOK
  /\ SyncAlive
  /\ RequestCurrent
  /\ LogNumbered
  /\ BatchNumbered
  /\ ClockBound
  /\ NeverBehindOrigin

F == INSTANCE Feeds WITH feed <- born, prefix <- clocks,
                         holds <- [n \in Node |-> Held(n)]

\* As long as nothing expires, is deleted or is lost, the database implements Feeds:
\* what a node holds is always a prefix of what every node took, exactly as long as
\* its clock for that node says, and a response takes it no further than its sender.
ReplicatesFeeds == F!Spec

\* Every record that a Put stored reaches every node (no TTL, no admin calls):
\* the database is eventually consistent.
Convergence ==
  \A k \in Key :
    (\E m \in Node : \E j \in DOMAIN born[m] : born[m][j] = k)
      ~> [](\A n \in up : Visible(n, k))
=============================================================================
