-------------------------- MODULE BadgerAuthProofs --------------------------
(***************************************************************************)
(* What holds of every cluster, whatever its size, topology, response      *)
(* limit, TTLs and faults: the clock a node counts for a peer never passes *)
(* the number of entries that the peer has ever logged, and a relayed      *)
(* entry is never numbered past its place in the origin's log.             *)
(***************************************************************************)
EXTENDS AuthGet, FiniteSetTheorems, FunctionTheorems, SequenceTheorems, TLAPS

-----------------------------------------------------------------------------
(* Counting.                                                               *)

\* Entries with distinct clocks between c and d are at most d - c many.
LEMMA CountBetween ==
  ASSUME NEW S, IsFiniteSet(S), NEW c \in Nat, NEW d \in Nat, c <= d,
         \A e \in S : e.clock \in Nat /\ c < e.clock /\ e.clock <= d,
         \A e, f \in S : e.clock = f.clock => e = f
  PROVE  Cardinality(S) \in Nat /\ Cardinality(S) <= d - c
<1> DEFINE place == [e \in S |-> e.clock]
<1>1. place \in Injection(S, c+1 .. d)
  BY DEF Injection, IsInjective
<1>2. IsFiniteSet(c+1 .. d) /\ Cardinality(c+1 .. d) = d - c
  <2>1. c+1 \in Int /\ d \in Int
    OBVIOUS
  <2>2. IsFiniteSet(c+1 .. d)
    BY <2>1, FS_Interval
  <2>3. Cardinality(c+1 .. d) = IF c+1 > d THEN 0 ELSE d - (c+1) + 1
    BY <2>1, FS_Interval
  <2> QED
    BY <2>2, <2>3
<1>3. Cardinality(S) <= Cardinality(c+1 .. d)
  BY <1>1, <1>2, FS_Injection
<1> QED
  BY <1>2, <1>3, FS_CardinalityType

\* The image of a finite set of entries, as InsertRecords logs it, is finite.
LEMMA LoggedFinite ==
  ASSUME NEW n, NEW S, IsFiniteSet(S)
  PROVE  IsFiniteSet({Logged(n, e, S) : e \in S})
<1> DEFINE T == {Logged(n, e, S) : e \in S}
           f == [e \in S |-> Logged(n, e, S)]
<1>1. f \in Surjection(S, T)
  BY DEF Surjection
<1> QED
  BY <1>1, FS_Surjection

\* A rank counts a part of a finite set, at least the entry itself.
LEMMA RankType ==
  ASSUME NEW S, IsFiniteSet(S), NEW e \in S, e.clock \in Nat
  PROVE  Rank(e, S) \in Nat /\ Rank(e, S) >= 1
<1> DEFINE R == {f \in S : f.id = e.id /\ f.clock <= e.clock}
<1>1. IsFiniteSet(R)
  BY FS_Subset
<1>2. e \in R
  OBVIOUS
<1>3. Cardinality(R) \in Nat /\ Cardinality(R) # 0
  BY <1>1, <1>2, FS_CardinalityType, FS_EmptySet
<1> QED
  BY <1>3 DEF Rank

-----------------------------------------------------------------------------
(* Type correctness.                                                       *)

\* A transaction keeps the types of what it writes.
LEMMA InsertType ==
  ASSUME TypeOK, NEW n \in Node, NEW S \in SUBSET ResponseEntry, IsFiniteSet(S),
         InsertRecords(n, S)
  PROVE  /\ records' \in [Node -> [Key -> Record \cup {None}]]
         /\ rlog' \in [Node -> SUBSET LogEntry]
         /\ clocks' \in [Node -> [Node -> Nat]]
         /\ known' \in [Node -> SUBSET Node]
         /\ \A m \in Node : IsFiniteSet(rlog'[m])
<1>1. records' \in [Node -> [Key -> Record \cup {None}]]
  <2>1. ASSUME NEW k \in Key
        PROVE  (IF \E e \in S : e.key = k
                THEN (CHOOSE e \in S : e.key = k).record
                ELSE records[n][k]) \in Record \cup {None}
    BY DEF TypeOK, ResponseEntry
  <2> QED
    BY <2>1 DEF InsertRecords, TypeOK
<1>2. \A e \in S : Logged(n, e, S) \in LogEntry
  <2> TAKE e \in S
  <2>1. e \in ResponseEntry
    OBVIOUS
  <2>2. Rank(e, S) \in Nat
    BY <2>1, RankType DEF ResponseEntry
  <2>3. clocks[n][e.id] \in Nat
    BY <2>1 DEF TypeOK, ResponseEntry
  <2> QED
    BY <2>1, <2>2, <2>3 DEF Logged, LogEntry, ResponseEntry, Record
<1>3. rlog' \in [Node -> SUBSET LogEntry]
  BY <1>2 DEF InsertRecords, TypeOK
<1>4. AdvancedClocks(n, S) \in [Node -> Nat]
  <2> SUFFICES ASSUME NEW m \in Node
               PROVE  clocks[n][m] + Cardinality({e \in S : e.id = m}) \in Nat
    BY DEF AdvancedClocks
  <2>1. IsFiniteSet({e \in S : e.id = m})
    BY FS_Subset
  <2> QED
    BY <2>1, FS_CardinalityType DEF TypeOK
<1>5. clocks' \in [Node -> [Node -> Nat]]
  BY <1>4 DEF InsertRecords, TypeOK
<1>6. known' \in [Node -> SUBSET Node]
  <2>1. {e.id : e \in S} \subseteq Node
    BY DEF ResponseEntry
  <2> QED
    BY <2>1 DEF InsertRecords, TypeOK
<1>7. \A m \in Node : IsFiniteSet(rlog'[m])
  <2>1. IsFiniteSet(rlog[n] \cup {Logged(n, e, S) : e \in S})
    <3>1. IsFiniteSet({Logged(n, e, S) : e \in S})
      BY LoggedFinite
    <3>2. IsFiniteSet(rlog[n])
      BY DEF TypeOK
    <3> HIDE DEF Logged
    <3> QED
      BY <3>1, <3>2, FS_Union, Zenon
  <2> QED
    BY <2>1 DEF InsertRecords, TypeOK
<1> QED
  BY <1>1, <1>3, <1>5, <1>6, <1>7

\* What a peer answers for an id: entries of that id after the clock, each of
\* them an entry of its log with the record found under its key.
LEMMA FoundEntries ==
  ASSUME TypeOK, NEW p \in Node, NEW id \in Node, NEW c \in Nat,
         \A e \in FindResponseEntries(p, id, c) : Visible(p, e.key)
  PROVE  /\ FindResponseEntries(p, id, c) \in SUBSET ResponseEntry
         /\ IsFiniteSet(FindResponseEntries(p, id, c))
         /\ \A e \in FindResponseEntries(p, id, c) :
              /\ e.id = id /\ c < e.clock /\ e.record = records[p][e.key]
              /\ \E l \in rlog[p] : l.id = id /\ l.clock = e.clock /\ l.key = e.key
<1> DEFINE later == {e \in VisibleLog(p) : e.id = id /\ e.clock > c}
           first == {e \in later : Rank(e, later) <= ReplicationLimit}
           resp(e) == [id |-> e.id, clock |-> e.clock, key |-> e.key,
                       record |-> records[p][e.key]]
           found == {resp(e) : e \in first}
<1>1. FindResponseEntries(p, id, c) = found
  BY DEF FindResponseEntries
<1>2. first \subseteq rlog[p] /\ rlog[p] \subseteq LogEntry
  BY DEF VisibleLog, TypeOK
<1>3. \A e \in first : e.id = id /\ c < e.clock
  BY <1>2 DEF LogEntry
<1>4. \A e \in first : records[p][e.key] \in Record
  <2> TAKE e \in first
  <2>1. resp(e) \in found /\ resp(e).key = e.key
    OBVIOUS
  <2>2. Visible(p, e.key)
    BY <1>1, <2>1
  <2>3. e.key \in Key
    BY <1>2 DEF LogEntry
  <2> QED
    BY <2>2, <2>3 DEF Visible, TypeOK
<1>5. \A e \in first : resp(e) \in ResponseEntry
  BY <1>2, <1>4 DEF LogEntry, ResponseEntry
<1>6. IsFiniteSet(found)
  <2> DEFINE f == [e \in first |-> resp(e)]
  <2>1. f \in Surjection(first, found)
    BY DEF Surjection
  <2>2. IsFiniteSet(first)
    BY <1>2, FS_Subset DEF TypeOK
  <2> HIDE DEF f, first, found
  <2> QED
    BY <2>1, <2>2, FS_Surjection
<1>7. \A e \in found :
        /\ e.id = id /\ c < e.clock /\ e.record = records[p][e.key]
        /\ \E l \in rlog[p] : l.id = id /\ l.clock = e.clock /\ l.key = e.key
  <2> TAKE e \in found
  <2>1. PICK l \in first : e = resp(l)
    OBVIOUS
  <2> QED
    BY <1>2, <1>3, <2>1
<1> QED
  BY <1>1, <1>5, <1>6, <1>7

\* The place a cycle moves to after a peer.
LEMMA AfterPeerType ==
  ASSUME TypeOK, SyncAlive, NEW n \in Node, sync[n].phase # "idle"
  PROVE  /\ AfterPeer(n) \in SyncState
         /\ IsFiniteSet(AfterPeer(n).batch)
         /\ AfterPeer(n).phase # "replicate"
         /\ AfterPeer(n).todo = {} /\ AfterPeer(n).batch = {}
         /\ AfterPeer(n).phase # "idle" => AfterPeer(n).at \in 1 .. Len(Join[n])
<1>1. Len(Join[n]) \in Nat
  BY ConstantsAssumption, LenProperties
<1>2. sync[n].at \in 1 .. Len(Join[n])
  BY DEF SyncAlive
<1>3. NoSync \in SyncState
  BY DEF NoSync, SyncState
<1>4. CASE sync[n].at < Len(Join[n])
  <2>1. AfterPeer(n) = [NoSync EXCEPT !.phase = "dial", !.at = sync[n].at + 1]
    BY <1>4 DEF AfterPeer
  <2>2. AfterPeer(n) = [phase |-> "dial", at |-> sync[n].at + 1,
                        request |-> [m \in Node |-> 0], todo |-> {}, batch |-> {}]
    BY <2>1 DEF NoSync
  <2>3. sync[n].at + 1 \in 1 .. Len(Join[n]) /\ sync[n].at + 1 \in Nat
    BY <1>1, <1>2, <1>4
  <2>4. AfterPeer(n) \in SyncState
    BY <2>2, <2>3 DEF SyncState
  <2> QED
    BY <2>2, <2>3, <2>4, FS_EmptySet
<1>5. CASE ~(sync[n].at < Len(Join[n]))
  BY <1>3, <1>5, FS_EmptySet DEF AfterPeer, NoSync
<1> QED
  BY <1>4, <1>5

\* Type correctness, with the part of the invariant that places a cycle at one
\* of its node's peers.
LEMMA TypeStep ==
  ASSUME TypeOK, SyncAlive, [Next]_vars
  PROVE  TypeOK' /\ SyncAlive'
<1> DEFINE Inv == TypeOK /\ SyncAlive
<1>1. CASE Tick
  BY <1>1 DEF Tick, TypeOK, SyncAlive, durable
<1>2. ASSUME NEW c \in Client, NEW n \in Node, NEW k \in Key, PutCheck(c, n, k)
      PROVE  Inv'
  <2>1. NewRecord(k) \in Record
    BY ConstantsAssumption DEF NewRecord, Record, TypeOK
  <2>2. put' \in [Client -> Pending \cup {None}]
    BY <1>2, <2>1 DEF PutCheck, TypeOK, Pending
  <2> QED
    BY <1>2, <2>2 DEF PutCheck, TypeOK, SyncAlive, durable
<1>3. ASSUME NEW c \in Client, PutInsert(c)
      PROVE  Inv'
  <2> DEFINE n == put[c].node
  <2>1. put[c] \in Pending
    BY <1>3 DEF PutInsert, TypeOK
  <2>2. n \in Node /\ put[c].key \in Key
    BY <2>1 DEF Pending
  <2>3. {PutEntry(c)} \in SUBSET ResponseEntry
    BY <2>1 DEF PutEntry, ResponseEntry, Pending, TypeOK
  <2>4. IsFiniteSet({PutEntry(c)})
    BY FS_Singleton
  <2>5. InsertRecords(n, {PutEntry(c)})
    BY <1>3 DEF PutInsert
  <2>6. /\ records' \in [Node -> [Key -> Record \cup {None}]]
        /\ rlog' \in [Node -> SUBSET LogEntry]
        /\ clocks' \in [Node -> [Node -> Nat]]
        /\ known' \in [Node -> SUBSET Node]
        /\ \A m \in Node : IsFiniteSet(rlog'[m])
    BY <2>2, <2>3, <2>4, <2>5, InsertType
  <2>7. born' \in [Node -> Seq(Key)]
    BY <1>3, <2>2 DEF PutInsert, TypeOK
  <2>8. put' \in [Client -> Pending \cup {None}]
    BY <1>3 DEF PutInsert, TypeOK
  <2> QED
    BY <1>3, <2>6, <2>7, <2>8 DEF PutInsert, TypeOK, SyncAlive
<1>4. ASSUME NEW c \in Client, PutFails(c)
      PROVE  Inv'
  BY <1>4 DEF PutFails, TypeOK, SyncAlive, durable
<1>5. ASSUME NEW n \in Node, SyncStart(n)
      PROVE  Inv'
  <2>1. Len(Join[n]) \in Nat /\ 1 \in 1 .. Len(Join[n])
    BY <1>5, ConstantsAssumption, LenProperties DEF SyncStart
  <2> DEFINE s == [sync[n] EXCEPT !.phase = "dial", !.at = 1]
  <2>a. sync[n] \in SyncState
    BY DEF TypeOK
  <2>b. s \in SyncState /\ s.batch = sync[n].batch
    BY <2>a DEF SyncState
  <2>c. sync' = [sync EXCEPT ![n] = s]
    BY <1>5 DEF SyncStart
  <2> HIDE DEF s
  <2>2. sync' \in [Node -> SyncState] /\ \A m \in Node : IsFiniteSet(sync'[m].batch)
    BY <2>b, <2>c DEF TypeOK
  <2> USE DEF s
  <2>3. SyncAlive'
    BY <1>5, <2>1 DEF SyncStart, SyncAlive, TypeOK
  <2> QED
    BY <1>5, <2>2, <2>3 DEF SyncStart, TypeOK, durable
<1>6. ASSUME NEW n \in Node, SyncConnect(n)
      PROVE  Inv'
  <2>1. Peer(n) \in Node
    BY <1>6 DEF SyncConnect, TypeOK
  <2>2. known' \in [Node -> SUBSET Node] /\ ensured' \in [Node -> SUBSET Node]
    BY <1>6, <2>1 DEF SyncConnect, TypeOK
  <2>3. RequestedIDs(n, known'[n]) \in SUBSET Node
    BY <2>2 DEF RequestedIDs
  <2> DEFINE asked == RequestedIDs(n, known'[n])
             request == [m \in Node |-> IF m \in asked THEN clocks[n][m] ELSE 0]
             s == [sync[n] EXCEPT !.phase = "replicate", !.request = request,
                                  !.todo = asked]
  <2>a. sync[n] \in SyncState /\ request \in [Node -> Nat]
    BY DEF TypeOK
  <2>b. sync' = [sync EXCEPT ![n] = s]
    BY <1>6 DEF SyncConnect
  <2> HIDE DEF asked, request
  <2>c. /\ s \in SyncState /\ s.batch = sync[n].batch
        /\ s.phase = "replicate" /\ s.at = sync[n].at
    BY <2>3, <2>a DEF SyncState, asked
  <2> HIDE DEF s
  <2>4. sync' \in [Node -> SyncState] /\ \A m \in Node : IsFiniteSet(sync'[m].batch)
    BY <2>b, <2>c DEF TypeOK
  <2>5. SyncAlive'
    BY <1>6, <2>b, <2>c DEF SyncConnect, SyncAlive, TypeOK
  <2> QED
    BY <1>6, <2>2, <2>4, <2>5 DEF SyncConnect, TypeOK
<1>7. ASSUME NEW n \in Node, NEW id \in Node, SyncRespond(n, id)
      PROVE  Inv'
  <2> DEFINE found == FindResponseEntries(Peer(n), id, sync[n].request[id])
  <2>1. sync[n].at \in 1 .. Len(Join[n])
    BY <1>7 DEF SyncRespond, SyncAlive
  <2>a. Join[n] \in Seq(Node) /\ sync[n] \in SyncState
    BY ConstantsAssumption DEF TypeOK
  <2>b. sync[n].request \in [Node -> Nat]
    BY <2>a DEF SyncState
  <2>2. Peer(n) \in Node /\ sync[n].request[id] \in Nat
    BY <2>1, <2>a, <2>b, ElementOfSeq DEF Peer
  <2>3. \A e \in found : Visible(Peer(n), e.key)
    BY <1>7 DEF SyncRespond
  <2>4. found \in SUBSET ResponseEntry /\ IsFiniteSet(found)
    BY <2>2, <2>3, FoundEntries
  <2> DEFINE s == [sync[n] EXCEPT !.todo = sync[n].todo \ {id},
                                  !.batch = sync[n].batch \cup found]
  <2>5. sync' = [sync EXCEPT ![n] = s]
    BY <1>7 DEF SyncRespond
  <2> HIDE DEF found
  <2>c. /\ s \in SyncState /\ s.batch = sync[n].batch \cup found
        /\ s.phase = sync[n].phase /\ s.at = sync[n].at
    BY <2>4, <2>a DEF SyncState
  <2>d. IsFiniteSet(s.batch)
    <3>1. IsFiniteSet(sync[n].batch)
      BY DEF TypeOK
    <3> HIDE DEF s
    <3> QED
      BY <2>4, <2>c, <3>1, FS_Union, Zenon
  <2> HIDE DEF s
  <2>6. sync' \in [Node -> SyncState]
    BY <2>5, <2>c DEF TypeOK
  <2>7. \A m \in Node : IsFiniteSet(sync'[m].batch)
    BY <2>5, <2>d DEF TypeOK
  <2>8. SyncAlive'
    <3>1. up' = up /\ ensured' = ensured /\ sync[n].phase = "replicate"
      BY <1>7 DEF SyncRespond
    <3>2. /\ \A m \in Node : sync'[m].phase = sync[m].phase /\ sync'[m].at = sync[m].at
          /\ \A m \in Node \ {n} : sync'[m] = sync[m]
      BY <2>5, <2>c DEF TypeOK
    <3> QED
      BY <3>1, <3>2 DEF SyncAlive
  <2> QED
    BY <1>7, <2>6, <2>7, <2>8 DEF SyncRespond, TypeOK, durable
<1>8. ASSUME NEW n \in Node, SyncInsert(n)
      PROVE  Inv'
  <2>1. sync[n].batch \in SUBSET ResponseEntry /\ IsFiniteSet(sync[n].batch)
    BY DEF TypeOK, SyncState
  <2>2. InsertRecords(n, sync[n].batch)
    BY <1>8 DEF SyncInsert
  <2>3. /\ records' \in [Node -> [Key -> Record \cup {None}]]
        /\ rlog' \in [Node -> SUBSET LogEntry]
        /\ clocks' \in [Node -> [Node -> Nat]]
        /\ known' \in [Node -> SUBSET Node]
        /\ \A m \in Node : IsFiniteSet(rlog'[m])
    BY <2>1, <2>2, InsertType
  <2>4. sync' = [sync EXCEPT ![n] = AfterPeer(n)] /\ sync[n].phase # "idle"
    BY <1>8 DEF SyncInsert
  <2>5. /\ sync' \in [Node -> SyncState]
        /\ \A m \in Node : IsFiniteSet(sync'[m].batch)
        /\ SyncAlive'
    BY <1>8, <2>4, AfterPeerType DEF SyncInsert, TypeOK, SyncAlive
  <2> QED
    BY <1>8, <2>3, <2>5 DEF SyncInsert, TypeOK
<1>9. ASSUME NEW n \in Node, SyncPeerFails(n)
      PROVE  Inv'
  <2>1. sync' = [sync EXCEPT ![n] = AfterPeer(n)] /\ sync[n].phase # "idle"
    BY <1>9 DEF SyncPeerFails
  <2>2. sync' \in [Node -> SyncState]
    BY <2>1, AfterPeerType DEF TypeOK
  <2>3. \A m \in Node : IsFiniteSet(sync'[m].batch)
    BY <2>1, AfterPeerType DEF TypeOK
  <2>4. SyncAlive'
    BY <1>9, <2>1, AfterPeerType DEF SyncPeerFails, TypeOK, SyncAlive
  <2> QED
    BY <1>9, <2>2, <2>3, <2>4 DEF SyncPeerFails, TypeOK, durable
<1>10. ASSUME NEW n \in Node, AdminStep(n)
       PROVE  Inv'
  <2>1. PICK k \in Key : \/ InvalidateRecord(n, k)
                         \/ UnpublishRecord(n, k)
                         \/ DeleteRecord(n, k)
    BY <1>10 DEF AdminStep
  <2>2. AdminCall(n, k)
    BY <2>1 DEF InvalidateRecord, UnpublishRecord, DeleteRecord
  <2>3. records[n][k] \in Record
    BY <2>2 DEF AdminCall, Visible, TypeOK
  <2>a. PICK r \in Record \cup {None} : records' = [records EXCEPT ![n][k] = r]
    <3>1. now \in Nat
      BY DEF TypeOK
    <3>2. [records[n][k] EXCEPT !.invalidatedAt = now] \in Record
      BY <2>3, <3>1 DEF Record
    <3>3. [records[n][k] EXCEPT !.public = FALSE] \in Record
      BY <2>3 DEF Record
    <3> QED
      BY <2>1, <3>2, <3>3 DEF InvalidateRecord, UnpublishRecord, DeleteRecord,
                              UpdateRecord
  <2>4. records' \in [Node -> [Key -> Record \cup {None}]]
    BY <2>a DEF TypeOK
  <2>b. PICK gone \in SUBSET rlog[n] : rlog' = [rlog EXCEPT ![n] = @ \ gone]
    <3>1. CASE UNCHANGED rlog
      <4>1. rlog' = [rlog EXCEPT ![n] = @ \ {}]
        BY <3>1 DEF TypeOK
      <4> QED
        BY <4>1
    <3>2. CASE DeleteRecord(n, k)
      BY <3>2 DEF DeleteRecord, LogEntriesOf, VisibleLog
    <3> QED
      BY <2>1, <3>1, <3>2 DEF InvalidateRecord, UnpublishRecord, UpdateRecord
  <2>5. \A m \in Node : rlog'[m] \subseteq rlog[m]
    BY <2>b DEF TypeOK
  <2>6. rlog' \in [Node -> SUBSET LogEntry]
    BY <2>b DEF TypeOK
  <2>7. \A m \in Node : IsFiniteSet(rlog'[m])
    BY <2>5, FS_Subset DEF TypeOK
  <2> QED
    <3>a. spent \in [crashes: Nat, admin: Nat, losses: Nat]
      BY DEF TypeOK
    <3>1. spent' \in [crashes: Nat, admin: Nat, losses: Nat]
      BY <2>2, <3>a DEF AdminCall
    <3> QED
      BY <2>2, <2>4, <2>6, <2>7, <3>1 DEF AdminCall, TypeOK, SyncAlive
<1>11. ASSUME NEW n \in Node, Halt(n), UNCHANGED spent \/ Crash(n)
       PROVE  Inv'
  <2>a. spent \in [crashes: Nat, admin: Nat, losses: Nat]
    BY DEF TypeOK
  <2>1. spent' \in [crashes: Nat, admin: Nat, losses: Nat]
    BY <1>11, <2>a DEF Crash
  <2>2. up' \in SUBSET Node /\ ensured' \in [Node -> SUBSET Node]
    BY <1>11 DEF Halt, TypeOK
  <2>3. put' \in [Client -> Pending \cup {None}]
    BY <1>11 DEF Halt, TypeOK
  <2>4. /\ sync' \in [Node -> SyncState]
        /\ \A m \in Node : IsFiniteSet(sync'[m].batch)
    BY <1>11, FS_EmptySet DEF Halt, TypeOK, NoSync, SyncState
  <2>5. SyncAlive'
    BY <1>11 DEF Halt, TypeOK, NoSync, SyncAlive
  <2> QED
    BY <1>11, <2>1, <2>2, <2>3, <2>4, <2>5 DEF Halt, TypeOK, durable
<1>12. ASSUME NEW n \in Node, Restart(n)
       PROVE  Inv'
  BY <1>12 DEF Restart, TypeOK, SyncAlive
<1>13. ASSUME NEW n \in Node, StorageEmptied(n)
       PROVE  Inv'
  <2>1. spent \in [crashes: Nat, admin: Nat, losses: Nat]
    BY DEF TypeOK
  <2>2. spent' \in [crashes: Nat, admin: Nat, losses: Nat]
    BY <1>13, <2>1 DEF StorageEmptied
  <2>3. /\ nodeID' \in [Node -> Node \cup {None}]
        /\ records' \in [Node -> [Key -> Record \cup {None}]]
    BY <1>13 DEF StorageEmptied, TypeOK, NoRecords
  <2>4. /\ known' \in [Node -> SUBSET Node]
        /\ clocks' \in [Node -> [Node -> Nat]]
    BY <1>13 DEF StorageEmptied, TypeOK, NoClocks
  <2>5. /\ rlog' \in [Node -> SUBSET LogEntry]
        /\ \A i \in Node : IsFiniteSet(rlog'[i])
    BY <1>13, FS_EmptySet DEF StorageEmptied, TypeOK
  <2> QED
    BY <1>13, <2>2, <2>3, <2>4, <2>5 DEF StorageEmptied, TypeOK, SyncAlive
<1>14. ASSUME NEW n \in Node, NEW m \in Node, StorageSwapped(n, m)
       PROVE  Inv'
  <2>1. spent \in [crashes: Nat, admin: Nat, losses: Nat]
    BY DEF TypeOK
  <2>2. spent' \in [crashes: Nat, admin: Nat, losses: Nat]
    BY <1>14, <2>1 DEF StorageSwapped
  <2>3. /\ nodeID' \in [Node -> Node \cup {None}]
        /\ records' \in [Node -> [Key -> Record \cup {None}]]
    BY <1>14 DEF StorageSwapped, TypeOK
  <2>4. /\ known' \in [Node -> SUBSET Node]
        /\ clocks' \in [Node -> [Node -> Nat]]
    BY <1>14 DEF StorageSwapped, TypeOK
  <2>5. /\ rlog' \in [Node -> SUBSET LogEntry]
        /\ \A i \in Node : IsFiniteSet(rlog'[i])
    BY <1>14 DEF StorageSwapped, TypeOK
  <2> QED
    BY <1>14, <2>2, <2>3, <2>4, <2>5 DEF StorageSwapped, TypeOK, SyncAlive
<1>15. CASE UNCHANGED vars
  BY <1>15 DEF vars, durable, TypeOK, SyncAlive
<1> QED
  BY <1>1, <1>2, <1>3, <1>4, <1>5, <1>6, <1>7, <1>8, <1>9, <1>10, <1>11, <1>12,
     <1>13, <1>14, <1>15
     DEF Next, PutStep, SyncStep, StorageStep, Crash, SyncSelf

\* The cluster starts with its types.
LEMMA InitType ==
  ASSUME Init
  PROVE  TypeOK /\ SyncAlive
<1>1. sync \in [Node -> SyncState]
  BY DEF Init, NoSync, SyncState
<1>2. \A n \in Node : IsFiniteSet(rlog[n]) /\ IsFiniteSet(sync[n].batch)
  BY FS_EmptySet DEF Init, NoSync
<1>3. born \in [Node -> Seq(Key)]
  BY DEF Init
<1> QED
  BY <1>1, <1>2, <1>3 DEF Init, TypeOK, SyncAlive, NoSync, NoRecords, NoClocks

\* Spec keeps its types: what the model stores is what the code stores.
THEOREM TypeCorrect == Spec => [](TypeOK /\ SyncAlive)
<1>1. Init => TypeOK /\ SyncAlive
  BY InitType
<1>2. TypeOK /\ SyncAlive /\ [Next]_vars => TypeOK' /\ SyncAlive'
  BY TypeStep
<1> QED
  BY <1>1, <1>2, PTL DEF Spec

-----------------------------------------------------------------------------
(* The numbers a transaction gives to the entries that it logs.            *)

\* What the entries of a transaction at n are, whether a Put's or a response's:
\* each past n's clock for its id, at most at its key's place in the origin's
\* log, and alone there.
Numbered(n, S, log) ==
  \A e \in S :
    /\ clocks[n][e.id] < e.clock
    /\ \E j \in DOMAIN log[e.id] : e.clock <= j /\ log[e.id][j] = e.key
    /\ \A f \in S : f.id = e.id /\ f.clock = e.clock => f = e

\* A rank is at most the distance of the entry from the clock.
LEMMA RankBound ==
  ASSUME TypeOK, NEW n \in Node, NEW S \in SUBSET ResponseEntry, IsFiniteSet(S),
         NEW log, Numbered(n, S, log), NEW e \in S
  PROVE  /\ Rank(e, S) \in Nat /\ Rank(e, S) >= 1
         /\ clocks[n][e.id] + Rank(e, S) <= e.clock
<1> DEFINE R == {f \in S : f.id = e.id /\ f.clock <= e.clock}
<1>1. \A f \in S : f.id \in Node /\ f.clock \in Nat
  BY DEF ResponseEntry
<1>2. clocks[n][e.id] \in Nat /\ clocks[n][e.id] <= e.clock
  BY <1>1 DEF Numbered, TypeOK
<1>3. \A f \in R : f.clock \in Nat /\ clocks[n][e.id] < f.clock /\ f.clock <= e.clock
  BY <1>1 DEF Numbered
<1>4. \A f, g \in R : f.clock = g.clock => f = g
  BY DEF Numbered
<1>5. IsFiniteSet(R)
  BY FS_Subset
<1>6. Cardinality(R) <= e.clock - clocks[n][e.id]
  <2> HIDE DEF R
  <2> QED
    BY <1>1, <1>2, <1>3, <1>4, <1>5, CountBetween
<1>7. Rank(e, S) = Cardinality(R)
  BY DEF Rank
<1>8. Rank(e, S) \in Nat /\ Rank(e, S) >= 1
  BY <1>1, RankType
<1> QED
  BY <1>1, <1>2, <1>6, <1>7, <1>8

\* Entries of an id with different clocks have different ranks.
LEMMA RankInjective ==
  ASSUME NEW S \in SUBSET ResponseEntry, IsFiniteSet(S), NEW e \in S, NEW f \in S,
         e.id = f.id, e.clock < f.clock
  PROVE  Rank(e, S) < Rank(f, S)
<1> DEFINE Re == {h \in S : h.id = e.id /\ h.clock <= e.clock}
           Rf == {h \in S : h.id = f.id /\ h.clock <= f.clock}
<1>1. \A g \in S : g.clock \in Nat
  BY DEF ResponseEntry
<1>2. Re \subseteq Rf /\ f \in Rf /\ f \notin Re
  BY <1>1
<1>3. IsFiniteSet(Re) /\ IsFiniteSet(Rf) /\ Re # Rf
  BY <1>2, FS_Subset
<1>4. Cardinality(Re) < Cardinality(Rf)
  <2> HIDE DEF Re, Rf
  <2>1. Cardinality(Re) \in Nat /\ Cardinality(Rf) \in Nat
    BY <1>3, FS_CardinalityType
  <2>2. Cardinality(Re) <= Cardinality(Rf) /\ Cardinality(Re) # Cardinality(Rf)
    BY <1>2, <1>3, FS_Subset
  <2> QED
    BY <2>1, <2>2
<1> QED
  BY <1>4 DEF Rank

\* A transaction keeps the log numbered up to the clock, the clock within the
\* origin's log and every entry at or before its place there.
LEMMA InsertCounts ==
  ASSUME TypeOK, LogNumbered, ClockBound, NeverBehindOrigin,
         NEW n \in Node, NEW S \in SUBSET ResponseEntry, IsFiniteSet(S),
         InsertRecords(n, S), Numbered(n, S, born'),
         born' \in [Node -> Seq(Key)],
         \A m \in Node : /\ Len(born[m]) <= Len(born'[m])
                         /\ \A j \in DOMAIN born[m] :
                              j \in DOMAIN born'[m] /\ born'[m][j] = born[m][j]
  PROVE  LogNumbered' /\ ClockBound' /\ NeverBehindOrigin'
<1> DEFINE of(m) == {e \in S : e.id = m}
           new == {Logged(n, e, S) : e \in S}
<1>1. \A m \in Node : Len(born'[m]) \in Nat /\ Len(born[m]) \in Nat
                      /\ DOMAIN born'[m] = 1 .. Len(born'[m])
  BY DEF TypeOK
<1>2. \A m, i \in Node : clocks[i][m] \in Nat /\ clocks[i][m] <= Len(born'[m])
  <2> SUFFICES ASSUME NEW m \in Node, NEW i \in Node
               PROVE  clocks[i][m] \in Nat /\ clocks[i][m] <= Len(born'[m])
    OBVIOUS
  <2>1. clocks[i][m] \in Nat /\ clocks[i][m] <= Len(born[m])
    BY DEF TypeOK, ClockBound
  <2>2. Len(born[m]) <= Len(born'[m]) /\ Len(born[m]) \in Nat /\ Len(born'[m]) \in Nat
    BY <1>1
  <2> QED
    BY <2>1, <2>2
<1>3. \A m \in Node : IsFiniteSet(of(m)) /\ Cardinality(of(m)) \in Nat
  BY FS_Subset, FS_CardinalityType
<1>4. \A m \in Node : Cardinality(of(m)) <= Len(born'[m]) - clocks[n][m]
  <2> TAKE m \in Node
  <2>1. \A e \in of(m) : /\ e.clock \in Nat /\ clocks[n][m] < e.clock
                         /\ e.clock <= Len(born'[m])
    BY <1>1 DEF Numbered, ResponseEntry
  <2>2. \A e, f \in of(m) : e.clock = f.clock => e = f
    BY DEF Numbered
  <2>3. IsFiniteSet(of(m)) /\ clocks[n][m] \in Nat /\ Len(born'[m]) \in Nat
        /\ clocks[n][m] <= Len(born'[m])
    BY <1>1, <1>2, <1>3
  <2> HIDE DEF of
  <2> QED
    BY <2>1, <2>2, <2>3, CountBetween
<1>5. \A i, m \in Node :
        clocks'[i][m] = IF i = n THEN clocks[n][m] + Cardinality(of(m))
                        ELSE clocks[i][m]
  BY DEF InsertRecords, AdvancedClocks, TypeOK
<1>6. ClockBound'
  <2> SUFFICES ASSUME NEW i \in Node, NEW m \in Node
               PROVE  clocks'[i][m] <= Len(born'[m])
    BY DEF ClockBound
  <2>1. CASE i = n
    <3>1. clocks'[i][m] = clocks[n][m] + Cardinality(of(m))
      BY <1>5, <2>1
    <3>2. Cardinality(of(m)) <= Len(born'[m]) - clocks[n][m]
      BY <1>4
    <3>3. clocks[n][m] \in Nat /\ Len(born'[m]) \in Nat /\ Cardinality(of(m)) \in Nat
      BY <1>1, <1>2, <1>3
    <3> HIDE DEF of
    <3> QED
      BY <3>1, <3>2, <3>3
  <2>2. CASE i # n
    BY <1>2, <1>5, <2>2
  <2> QED
    BY <2>1, <2>2
<1>7. \A i \in Node : rlog'[i] = IF i = n THEN rlog[n] \cup new ELSE rlog[i]
  BY DEF InsertRecords, TypeOK
<1>8. \A e \in S : /\ Rank(e, S) \in Nat /\ Rank(e, S) >= 1
                   /\ clocks[n][e.id] + Rank(e, S) <= e.clock
                   /\ Rank(e, S) <= Cardinality(of(e.id))
  <2> TAKE e \in S
  <2>1. e.id \in Node
    BY DEF ResponseEntry
  <2>2. {f \in S : f.id = e.id /\ f.clock <= e.clock} \subseteq of(e.id)
    OBVIOUS
  <2>3. Cardinality({f \in S : f.id = e.id /\ f.clock <= e.clock})
          <= Cardinality(of(e.id))
    BY <1>3, <2>1, <2>2, FS_Subset
  <2> QED
    BY <2>3, RankBound DEF Rank
<1>9. NeverBehindOrigin'
  <2>1. ASSUME NEW i \in Node, NEW l \in rlog[i]
        PROVE  \E j \in DOMAIN born'[l.id] : l.clock <= j /\ born'[l.id][j] = l.key
    <3>1. l.id \in Node
      BY DEF TypeOK, LogEntry
    <3> QED
      BY <3>1 DEF NeverBehindOrigin
  <2>2. ASSUME NEW l \in new
        PROVE  \E j \in DOMAIN born'[l.id] : l.clock <= j /\ born'[l.id][j] = l.key
    <3>1. PICK e \in S : l = Logged(n, e, S)
      OBVIOUS
    <3>2. /\ l.id = e.id /\ l.key = e.key
          /\ l.clock = clocks[n][e.id] + Rank(e, S)
      BY <3>1 DEF Logged
    <3>3. e.id \in Node /\ e.clock \in Nat
      BY DEF ResponseEntry
    <3>4. PICK j \in DOMAIN born'[e.id] : e.clock <= j /\ born'[e.id][j] = e.key
      BY DEF Numbered
    <3>a. j \in Nat
      BY <1>1, <3>3, <3>4
    <3>b. clocks[n][e.id] \in Nat /\ Rank(e, S) \in Nat
      BY <1>2, <1>8, <3>3
    <3>c. clocks[n][e.id] + Rank(e, S) <= e.clock
      BY <1>8
    <3>5. l.clock <= j
      BY <3>2, <3>3, <3>4, <3>a, <3>b, <3>c
    <3> QED
      BY <3>2, <3>4, <3>5
  <2> HIDE DEF new
  <2> QED
    BY <1>7, <2>1, <2>2 DEF NeverBehindOrigin
<1>10. LogNumbered'
  <2>1. ASSUME NEW i \in Node, NEW l \in rlog[i]
        PROVE  l.id \in Node /\ l.clock \in 1 .. clocks'[i][l.id]
    <3>1. l.id \in Node /\ l.clock \in 1 .. clocks[i][l.id]
      BY DEF TypeOK, LogEntry, LogNumbered
    <3>2. clocks[i][l.id] <= clocks'[i][l.id] /\ clocks'[i][l.id] \in Nat
      <4>1. clocks[i][l.id] \in Nat /\ Cardinality(of(l.id)) \in Nat
        BY <1>2, <1>3, <3>1
      <4>2. CASE i = n
        <5>1. clocks'[i][l.id] = clocks[i][l.id] + Cardinality(of(l.id))
          BY <1>5, <3>1, <4>2
        <5> HIDE DEF of
        <5> QED
          BY <4>1, <5>1
      <4>3. CASE i # n
        <5>1. clocks'[i][l.id] = clocks[i][l.id]
          BY <1>5, <3>1, <4>3
        <5> QED
          BY <4>1, <5>1
      <4> QED
        BY <4>2, <4>3
    <3> QED
      BY <1>2, <3>1, <3>2
  <2>2. ASSUME NEW l \in new
        PROVE  /\ l.id \in Node /\ l.clock \in 1 .. clocks'[n][l.id]
               /\ clocks[n][l.id] < l.clock
    <3>1. PICK e \in S : l = Logged(n, e, S)
      OBVIOUS
    <3>2. l.id = e.id /\ l.clock = clocks[n][e.id] + Rank(e, S) /\ e.id \in Node
      BY <3>1 DEF Logged, ResponseEntry
    <3>3. clocks'[n][e.id] = clocks[n][e.id] + Cardinality(of(e.id))
      BY <1>5, <3>2
    <3> HIDE DEF of
    <3> QED
      BY <1>2, <1>3, <1>8, <3>2, <3>3
  <2>3. ASSUME NEW l \in new, NEW k \in new, k.id = l.id, k.clock = l.clock
        PROVE  k = l
    <3>1. PICK e \in S : l = Logged(n, e, S)
      OBVIOUS
    <3>2. PICK f \in S : k = Logged(n, f, S)
      OBVIOUS
    <3>3. /\ l.id = e.id /\ l.clock = clocks[n][e.id] + Rank(e, S)
          /\ k.id = f.id /\ k.clock = clocks[n][f.id] + Rank(f, S)
      BY <3>1, <3>2 DEF Logged
    <3>4. /\ e.id = f.id /\ e.id \in Node
          /\ e.clock \in Nat /\ f.clock \in Nat
      BY <2>3, <3>3 DEF ResponseEntry
    <3>a. clocks[n][e.id] \in Nat /\ Rank(e, S) \in Nat /\ Rank(f, S) \in Nat
      BY <1>2, <1>8, <3>4
    <3>5. Rank(e, S) = Rank(f, S)
      BY <2>3, <3>3, <3>4, <3>a
    <3>6. ~(e.clock < f.clock) /\ ~(f.clock < e.clock)
      <4>1. Rank(e, S) \in Nat /\ Rank(f, S) \in Nat
        BY <1>8
      <4> QED
        BY <3>4, <3>5, <4>1, RankInjective
    <3>7. e.clock = f.clock
      BY <3>4, <3>6
    <3>8. e = f
      BY <3>4, <3>7 DEF Numbered
    <3> QED
      BY <3>1, <3>2, <3>8
  <2>4. ASSUME NEW l \in rlog[n], NEW k \in new, k.id = l.id
        PROVE  k.clock # l.clock
    <3>1. l.id \in Node /\ l.clock \in 1 .. clocks[n][l.id]
      BY DEF TypeOK, LogEntry, LogNumbered
    <3>2. clocks[n][l.id] < k.clock /\ k.clock \in Nat
      BY <2>2, <2>4
    <3> QED
      BY <1>2, <3>1, <3>2
  <2>5. \A i \in Node : \A l, k \in rlog[i] :
          k.id = l.id /\ k.clock = l.clock => k = l
    BY DEF LogNumbered
  <2> SUFFICES ASSUME NEW i \in Node, NEW l \in rlog'[i]
               PROVE  /\ l.clock \in 1 .. clocks'[i][l.id]
                      /\ \A k \in rlog'[i] :
                           k.id = l.id /\ k.clock = l.clock => k = l
    BY DEF LogNumbered
  <2> HIDE DEF new
  <2> QED
    BY <1>7, <2>1, <2>2, <2>3, <2>4, <2>5
<1> QED
  BY <1>6, <1>9, <1>10

-----------------------------------------------------------------------------
(* The counting invariant.                                                 *)

\* A transaction leaves every clock alone that it has no entry for.
LEMMA OtherClocks ==
  ASSUME TypeOK, NEW n \in Node, NEW S, InsertRecords(n, S)
  PROVE  \A i, m \in Node :
           i # n \/ (\A e \in S : e.id # m) => clocks'[i][m] = clocks[i][m]
<1> TAKE i \in Node, m \in Node
<1>1. CASE i # n
  BY <1>1 DEF InsertRecords, TypeOK
<1>2. CASE i = n /\ \A e \in S : e.id # m
  <2>1. clocks'[i][m] = clocks[i][m] + Cardinality({e \in S : e.id = m})
    BY <1>2 DEF InsertRecords, AdvancedClocks, TypeOK
  <2>2. {e \in S : e.id = m} = {}
    BY <1>2
  <2>3. Cardinality({e \in S : e.id = m}) = 0
    BY <2>2, FS_EmptySet
  <2>4. clocks[i][m] \in Nat
    BY DEF TypeOK
  <2> QED
    BY <2>1, <2>3, <2>4
<1> QED
  BY <1>1, <1>2

\* A Put logs its entry right after what its node logged before.
LEMMA PutCounts ==
  ASSUME CountingInv, NEW c \in Client, PutInsert(c), TypeOK'
  PROVE  RequestCurrent' /\ LogNumbered' /\ BatchNumbered' /\ ClockBound'
         /\ NeverBehindOrigin'
<1> USE DEF CountingInv
<1> DEFINE n == put[c].node
           S == {PutEntry(c)}
<1>1. put[c] \in Pending
  BY DEF PutInsert, TypeOK
<1>2. n \in Node /\ put[c].key \in Key
  BY <1>1 DEF Pending
<1>3. clocks[n][n] \in Nat /\ born[n] \in Seq(Key)
  BY <1>2 DEF TypeOK
<1>4. /\ PutEntry(c).id = n /\ PutEntry(c).key = put[c].key
      /\ PutEntry(c).clock = clocks[n][n] + 1
  BY DEF PutEntry
<1>5. S \in SUBSET ResponseEntry /\ IsFiniteSet(S)
  <2>1. S \in SUBSET ResponseEntry
    BY <1>1 DEF PutEntry, ResponseEntry, Pending, TypeOK
  <2>2. IsFiniteSet(S)
    BY FS_Singleton
  <2> QED
    BY <2>1, <2>2
<1>6. InsertRecords(n, S) /\ born' = [born EXCEPT ![n] = Append(@, put[c].key)]
  BY DEF PutInsert
<1>7. born'[n] = Append(born[n], put[c].key)
  BY <1>2, <1>6 DEF TypeOK
<1>8. \A m \in Node : /\ Len(born[m]) <= Len(born'[m])
                      /\ \A j \in DOMAIN born[m] :
                           j \in DOMAIN born'[m] /\ born'[m][j] = born[m][j]
  <2> TAKE m \in Node
  <2>1. CASE m = n
    BY <1>2, <1>3, <1>7, <2>1, AppendProperties
  <2>2. CASE m # n
    <3>1. born'[m] = born[m] /\ Len(born[m]) \in Nat
      BY <1>6, <2>2 DEF TypeOK
    <3> QED
      BY <3>1
  <2> QED
    BY <2>1, <2>2
<1>9. Numbered(n, S, born')
  <2>1. /\ Len(born'[n]) = Len(born[n]) + 1
        /\ born'[n][Len(born[n]) + 1] = put[c].key
        /\ Len(born[n]) + 1 \in DOMAIN born'[n]
    BY <1>2, <1>3, <1>7, AppendProperties
  <2>2. clocks[n][n] <= Len(born[n]) /\ Len(born[n]) \in Nat
    BY <1>2, <1>3 DEF ClockBound
  <2>3. clocks[n][n] < clocks[n][n] + 1 /\ clocks[n][n] + 1 <= Len(born[n]) + 1
    BY <1>3, <2>2
  <2> HIDE DEF n
  <2> QED
    BY <1>4, <2>1, <2>3 DEF Numbered
<1>10. born' \in [Node -> Seq(Key)]
  BY DEF TypeOK
<1>11. LogNumbered' /\ ClockBound' /\ NeverBehindOrigin'
  <2> HIDE DEF n, S
  <2> QED
    BY <1>2, <1>5, <1>6, <1>8, <1>9, <1>10, InsertCounts
<1>12. sync' = sync
  BY DEF PutInsert
<1>13. RequestCurrent'
  <2>1. \A i, m \in Node : i # n \/ m # n => clocks'[i][m] = clocks[i][m]
    <3>1. \A m \in Node : m # n => \A e \in S : e.id # m
      BY <1>4
    <3> HIDE DEF n, S
    <3> QED
      BY <1>2, <1>6, <3>1, OtherClocks
  <2> SUFFICES ASSUME NEW i \in Node,
                      NEW m \in sync[i].todo \cup {e.id : e \in sync[i].batch}
               PROVE  m # i /\ sync[i].request[m] = clocks'[i][m]
    BY <1>12 DEF RequestCurrent
  <2>2. m # i /\ sync[i].request[m] = clocks[i][m]
    BY DEF RequestCurrent
  <2>3. m \in Node
    <3>1. sync[i] \in SyncState
      BY DEF TypeOK
    <3> QED
      BY <3>1 DEF SyncState, ResponseEntry
  <2> QED
    BY <2>1, <2>2, <2>3
<1>14. BatchNumbered'
  <2>1. \A i \in Node : \A e \in sync[i].batch : e.id \in Node
    <3> TAKE i \in Node
    <3>1. sync[i] \in SyncState
      BY DEF TypeOK
    <3> QED
      BY <3>1 DEF SyncState, ResponseEntry
  <2> QED
    BY <1>8, <1>12, <2>1 DEF BatchNumbered
<1> QED
  BY <1>11, <1>13, <1>14

\* A response is counted on from the clocks that were requested.
LEMMA SyncInsertCounts ==
  ASSUME CountingInv, NEW n \in Node, SyncInsert(n), TypeOK'
  PROVE  RequestCurrent' /\ LogNumbered' /\ BatchNumbered' /\ ClockBound'
         /\ NeverBehindOrigin'
<1> USE DEF CountingInv
<1>1. sync[n] \in SyncState
  BY DEF TypeOK
<1>2. sync[n].batch \in SUBSET ResponseEntry /\ IsFiniteSet(sync[n].batch)
  BY <1>1 DEF TypeOK, SyncState
<1>3. InsertRecords(n, sync[n].batch) /\ born' = born
  BY DEF SyncInsert
<1>4. Numbered(n, sync[n].batch, born')
  <2>1. \A e \in sync[n].batch : sync[n].request[e.id] = clocks[n][e.id]
    BY DEF RequestCurrent
  <2> QED
    BY <1>3, <2>1 DEF BatchNumbered, Numbered
<1>5. \A m \in Node : /\ Len(born[m]) <= Len(born'[m])
                      /\ \A j \in DOMAIN born[m] :
                           j \in DOMAIN born'[m] /\ born'[m][j] = born[m][j]
  <2> TAKE m \in Node
  <2>1. Len(born[m]) \in Nat
    BY DEF TypeOK
  <2> QED
    BY <1>3, <2>1
<1>6. LogNumbered' /\ ClockBound' /\ NeverBehindOrigin'
  <2>1. born' \in [Node -> Seq(Key)]
    BY DEF TypeOK
  <2> QED
    BY <1>2, <1>3, <1>4, <1>5, <2>1, InsertCounts
<1>7. \A i \in Node : /\ i = n => sync'[i].todo = {} /\ sync'[i].batch = {}
                      /\ i # n => sync'[i] = sync[i] /\ clocks'[i] = clocks[i]
  <2>1. AfterPeer(n).todo = {} /\ AfterPeer(n).batch = {}
    BY AfterPeerType DEF SyncInsert
  <2> QED
    BY <1>3, <2>1 DEF SyncInsert, InsertRecords, TypeOK
<1>8. RequestCurrent' /\ BatchNumbered'
  BY <1>3, <1>7 DEF RequestCurrent, BatchNumbered
<1> QED
  BY <1>6, <1>8

\* A peer answers with entries of its log, and those of an id are numbered.
LEMMA RespondCounts ==
  ASSUME CountingInv, NEW n \in Node, NEW id \in Node, SyncRespond(n, id)
  PROVE  RequestCurrent' /\ BatchNumbered'
<1> USE DEF CountingInv
<1> DEFINE p == Peer(n)
           found == FindResponseEntries(p, id, sync[n].request[id])
<1>1. sync[n] \in SyncState /\ Join[n] \in Seq(Node)
  BY ConstantsAssumption DEF TypeOK
<1>2. sync[n].request[id] \in Nat
  BY <1>1 DEF SyncState
<1>3. p \in Node
  <2>1. sync[n].at \in 1 .. Len(Join[n])
    BY DEF SyncRespond, SyncAlive
  <2> QED
    BY <1>1, <2>1, ElementOfSeq DEF Peer
<1>4. \A e \in found : Visible(p, e.key)
  BY DEF SyncRespond
<1>5. \A e \in found :
        /\ e \in ResponseEntry
        /\ e.id = id /\ sync[n].request[id] < e.clock /\ e.record = records[p][e.key]
        /\ \E l \in rlog[p] : l.id = id /\ l.clock = e.clock /\ l.key = e.key
  BY <1>2, <1>3, <1>4, FoundEntries
<1>6. \A e \in found : \E j \in DOMAIN born[e.id] : e.clock <= j /\ born[e.id][j] = e.key
  BY <1>3, <1>5 DEF NeverBehindOrigin
<1>7. \A e, f \in found : f.clock = e.clock => f = e
  <2> SUFFICES ASSUME NEW e \in found, NEW f \in found, f.clock = e.clock
               PROVE  f = e
    OBVIOUS
  <2>1. PICK l \in rlog[p] : l.id = id /\ l.clock = e.clock /\ l.key = e.key
    BY <1>5
  <2>2. PICK k \in rlog[p] : k.id = id /\ k.clock = f.clock /\ k.key = f.key
    BY <1>5
  <2>3. k = l
    BY <1>3, <2>1, <2>2 DEF LogNumbered
  <2>4. f.key = e.key /\ f.id = e.id /\ f.record = e.record
    BY <1>5, <2>1, <2>2, <2>3
  <2>5. e \in ResponseEntry /\ f \in ResponseEntry
    BY <1>5
  <2> HIDE DEF found
  <2> QED
    BY <2>4, <2>5 DEF ResponseEntry
<1>8. /\ id \in sync[n].todo
      /\ sync' = [sync EXCEPT ![n] = [@ EXCEPT !.todo = sync[n].todo \ {id},
                                               !.batch = sync[n].batch \cup found]]
  BY DEF SyncRespond
<1> HIDE DEF p, found
<1>9. /\ sync'[n].todo = sync[n].todo \ {id}
      /\ sync'[n].batch = sync[n].batch \cup found
      /\ sync'[n].request = sync[n].request
      /\ \A i \in Node \ {n} : sync'[i] = sync[i]
  BY <1>1, <1>8 DEF SyncState, TypeOK
<1>10. clocks' = clocks /\ born' = born
  BY DEF SyncRespond, durable
<1>11. RequestCurrent'
  <2> SUFFICES ASSUME NEW i \in Node,
                      NEW m \in sync'[i].todo \cup {e.id : e \in sync'[i].batch}
               PROVE  m # i /\ sync'[i].request[m] = clocks[i][m]
    BY <1>10 DEF RequestCurrent
  <2>1. m \in sync[i].todo \cup {e.id : e \in sync[i].batch}
        /\ sync'[i].request = sync[i].request
    BY <1>5, <1>8, <1>9
  <2> QED
    BY <2>1 DEF RequestCurrent
<1>12. BatchNumbered'
  <2> SUFFICES ASSUME NEW i \in Node, NEW e \in sync'[i].batch
               PROVE  /\ e.id \notin sync'[i].todo
                      /\ sync'[i].request[e.id] < e.clock
                      /\ \E j \in DOMAIN born[e.id] :
                           e.clock <= j /\ born[e.id][j] = e.key
                      /\ \A f \in sync'[i].batch :
                           f.id = e.id /\ f.clock = e.clock => f = e
    BY <1>10 DEF BatchNumbered
  <2>1. CASE i # n
    BY <1>9, <2>1 DEF BatchNumbered
  <2>2. CASE i = n
    <3>1. \A f \in sync[n].batch : f.id # id
      BY <1>8 DEF BatchNumbered
    <3>2. CASE e \in found
      BY <1>5, <1>6, <1>7, <1>9, <2>2, <3>1, <3>2
    <3>3. CASE e \in sync[n].batch
      BY <1>5, <1>9, <2>2, <3>1, <3>3 DEF BatchNumbered
    <3> QED
      BY <1>9, <2>2, <3>2, <3>3
  <2> QED
    BY <2>1, <2>2
<1> QED
  BY <1>11, <1>12

\* Every step keeps the counting invariant.
LEMMA CountingStep ==
  ASSUME CountingInv, [Next]_vars
  PROVE  CountingInv'
<1> USE DEF CountingInv
<1> DEFINE Inv == RequestCurrent /\ LogNumbered /\ BatchNumbered /\ ClockBound
                  /\ NeverBehindOrigin
<1>a. TypeOK' /\ SyncAlive'
  BY TypeStep
<1>b. ASSUME UNCHANGED <<clocks, rlog, born, sync>>
      PROVE  Inv'
  <2>1. RequestCurrent' /\ LogNumbered'
    BY <1>b DEF RequestCurrent, LogNumbered
  <2>2. BatchNumbered' /\ NeverBehindOrigin'
    BY <1>b DEF BatchNumbered, NeverBehindOrigin
  <2>3. ClockBound'
    BY <1>b DEF ClockBound
  <2> QED
    BY <2>1, <2>2, <2>3
<1>1. ASSUME Tick
      PROVE  Inv'
  BY <1>1, <1>b DEF Tick, durable
<1>2. ASSUME NEW c \in Client, NEW n \in Node, NEW k \in Key, PutCheck(c, n, k)
      PROVE  Inv'
  BY <1>2, <1>b DEF PutCheck, durable
<1>3. ASSUME NEW c \in Client, PutInsert(c)
      PROVE  Inv'
  BY <1>a, <1>3, PutCounts
<1>4. ASSUME NEW c \in Client, PutFails(c)
      PROVE  Inv'
  BY <1>4, <1>b DEF PutFails, durable
<1>5. ASSUME NEW n \in Node, SyncStart(n)
      PROVE  Inv'
  <2>1. \A i \in Node : /\ sync'[i].todo = sync[i].todo
                        /\ sync'[i].batch = sync[i].batch
                        /\ sync'[i].request = sync[i].request
    <3>1. sync[n] \in SyncState
      BY DEF TypeOK
    <3> QED
      BY <1>5, <3>1 DEF SyncStart, SyncState, TypeOK
  <2>2. UNCHANGED <<clocks, rlog, born>>
    BY <1>5 DEF SyncStart, durable
  <2> QED
    BY <2>1, <2>2 DEF RequestCurrent, LogNumbered, BatchNumbered, ClockBound,
                      NeverBehindOrigin
<1>6. ASSUME NEW n \in Node, SyncConnect(n)
      PROVE  Inv'
  <2> DEFINE asked == RequestedIDs(n, known'[n])
             request == [m \in Node |-> IF m \in asked THEN clocks[n][m] ELSE 0]
  <2>1. sync' = [sync EXCEPT ![n] = [@ EXCEPT !.phase = "replicate",
                                              !.request = request, !.todo = asked]]
    BY <1>6 DEF SyncConnect
  <2>2. sync[n] \in SyncState /\ sync[n].batch = {}
    BY <1>6 DEF SyncConnect, TypeOK, SyncAlive
  <2>3. asked \subseteq Node /\ n \notin asked
    BY <1>a DEF RequestedIDs, TypeOK
  <2>4. \A m \in asked : request[m] = clocks[n][m]
    BY <2>3
  <2> HIDE DEF asked, request
  <2>5. /\ sync'[n].todo = asked /\ sync'[n].batch = {} /\ sync'[n].request = request
        /\ \A i \in Node \ {n} : sync'[i] = sync[i]
    BY <2>1, <2>2 DEF SyncState, TypeOK
  <2>6. UNCHANGED <<clocks, rlog, born>>
    BY <1>6 DEF SyncConnect
  <2>7. RequestCurrent'
    BY <2>3, <2>4, <2>5, <2>6 DEF RequestCurrent
  <2>8. BatchNumbered'
    BY <2>5, <2>6 DEF BatchNumbered
  <2> QED
    BY <2>6, <2>7, <2>8 DEF LogNumbered, ClockBound, NeverBehindOrigin
<1>7. ASSUME NEW n \in Node, NEW id \in Node, SyncRespond(n, id)
      PROVE  Inv'
  <2>1. RequestCurrent' /\ BatchNumbered'
    BY <1>7, RespondCounts
  <2>2. UNCHANGED <<clocks, rlog, born>>
    BY <1>7 DEF SyncRespond, durable
  <2> QED
    BY <2>1, <2>2 DEF LogNumbered, ClockBound, NeverBehindOrigin
<1>8. ASSUME NEW n \in Node, SyncInsert(n)
      PROVE  Inv'
  BY <1>a, <1>8, SyncInsertCounts
<1>9. ASSUME NEW n \in Node, SyncPeerFails(n)
      PROVE  Inv'
  <2>1. AfterPeer(n).todo = {} /\ AfterPeer(n).batch = {}
    BY <1>9, AfterPeerType DEF SyncPeerFails
  <2>2. \A i \in Node : /\ i = n => sync'[i].todo = {} /\ sync'[i].batch = {}
                        /\ i # n => sync'[i] = sync[i]
    BY <1>9, <2>1 DEF SyncPeerFails, TypeOK
  <2>3. UNCHANGED <<clocks, rlog, born>>
    BY <1>9 DEF SyncPeerFails, durable
  <2> QED
    BY <2>2, <2>3 DEF RequestCurrent, LogNumbered, BatchNumbered, ClockBound,
                      NeverBehindOrigin
<1>10. ASSUME NEW n \in Node, NEW k \in Key,
              InvalidateRecord(n, k) \/ UnpublishRecord(n, k) \/ DeleteRecord(n, k)
       PROVE  Inv'
  <2>1. UNCHANGED <<clocks, sync, born>>
    BY <1>10 DEF InvalidateRecord, UnpublishRecord, DeleteRecord, AdminCall
  <2>2. \A i \in Node : rlog'[i] \subseteq rlog[i]
    <3>1. CASE UNCHANGED rlog
      BY <3>1
    <3>2. CASE DeleteRecord(n, k)
      BY <3>2 DEF DeleteRecord, TypeOK
    <3> QED
      BY <1>10, <3>1, <3>2 DEF InvalidateRecord, UnpublishRecord, UpdateRecord
  <2> QED
    BY <2>1, <2>2 DEF RequestCurrent, LogNumbered, BatchNumbered, ClockBound,
                      NeverBehindOrigin
<1>11. ASSUME NEW n \in Node, Halt(n)
       PROVE  Inv'
  <2>1. \A i \in Node : \/ sync'[i].todo = {} /\ sync'[i].batch = {}
                        \/ sync'[i] = sync[i]
    BY <1>11 DEF Halt, NoSync
  <2>2. UNCHANGED <<clocks, rlog, born>>
    BY <1>11 DEF Halt, durable
  <2> QED
    BY <2>1, <2>2 DEF RequestCurrent, LogNumbered, BatchNumbered, ClockBound,
                      NeverBehindOrigin
<1>12. ASSUME NEW n \in Node, Restart(n)
       PROVE  Inv'
  BY <1>12, <1>b DEF Restart
<1>13. ASSUME NEW n \in Node,
              StorageEmptied(n) \/ \E m \in Node \ {n} : StorageSwapped(n, m)
       PROVE  Inv'
  <2>1. UNCHANGED <<sync, born>> /\ sync[n].todo = {} /\ sync[n].batch = {}
    BY <1>13 DEF StorageEmptied, StorageSwapped, SyncAlive
  <2>2. \A i \in Node \ {n} : rlog'[i] = rlog[i] /\ clocks'[i] = clocks[i]
    BY <1>13 DEF StorageEmptied, StorageSwapped, TypeOK
  <2>3. \/ rlog'[n] = {} /\ clocks'[n] = NoClocks
        \/ \E m \in Node : rlog'[n] = rlog[m] /\ clocks'[n] = clocks[m]
    <3>1. CASE StorageEmptied(n)
      BY <3>1 DEF StorageEmptied, TypeOK
    <3>2. ASSUME NEW m \in Node \ {n}, StorageSwapped(n, m)
          PROVE  rlog'[n] = rlog[m] /\ clocks'[n] = clocks[m]
      BY <3>2 DEF StorageSwapped, TypeOK
    <3> QED
      BY <1>13, <3>1, <3>2
  <2>4. \A m \in Node : Len(born[m]) \in Nat
    BY DEF TypeOK
  <2>5. RequestCurrent' /\ BatchNumbered'
    BY <2>1, <2>2 DEF RequestCurrent, BatchNumbered
  <2>6. LogNumbered'
    BY <2>2, <2>3 DEF LogNumbered
  <2>7. ClockBound'
    BY <2>1, <2>2, <2>3, <2>4 DEF ClockBound, NoClocks
  <2>8. NeverBehindOrigin'
    BY <2>1, <2>2, <2>3 DEF NeverBehindOrigin
  <2> QED
    BY <2>5, <2>6, <2>7, <2>8
<1>14. ASSUME UNCHANGED vars
       PROVE  Inv'
  BY <1>14, <1>b DEF vars, durable
<1>15. Inv'
  BY <1>1, <1>2, <1>3, <1>4, <1>5, <1>6, <1>7, <1>8, <1>9, <1>10, <1>11, <1>12,
     <1>13, <1>14
     DEF Next, PutStep, SyncStep, AdminStep, StorageStep, Crash, SyncSelf
<1> QED
  BY <1>a, <1>15

\* The cluster starts with nothing to count.
LEMMA InitCounting ==
  ASSUME Init
  PROVE  CountingInv
<1>1. TypeOK /\ SyncAlive
  BY InitType
<1>2. \A n \in Node : sync[n].todo = {} /\ sync[n].batch = {} /\ rlog[n] = {}
  BY DEF Init, NoSync
<1>3. ClockBound
  BY DEF Init, NoClocks, ClockBound
<1> QED
  BY <1>1, <1>2, <1>3 DEF CountingInv, RequestCurrent, LogNumbered, BatchNumbered,
                          NeverBehindOrigin

\* The invariant holds throughout: a request is current when its response is
\* inserted, and a log is numbered up to the clock, without a common transaction.
THEOREM Counting == Spec => []CountingInv
<1>1. Init => CountingInv
  BY InitCounting
<1>2. CountingInv /\ [Next]_vars => CountingInv'
  BY CountingStep
<1> QED
  BY <1>1, <1>2, PTL DEF Spec

\* A node's clock for a peer never passes the peer's own log, so no record that
\* the peer will log is ever counted as received.
THEOREM ClocksNeverAhead == Spec => []ClockBound
<1>1. CountingInv => ClockBound
  BY DEF CountingInv
<1> QED
  BY <1>1, Counting, PTL

\* A relayed entry is never numbered past its place in its origin's log.
THEOREM EntriesNeverBehind == Spec => []NeverBehindOrigin
<1>1. CountingInv => NeverBehindOrigin
  BY DEF CountingInv
<1> QED
  BY <1>1, Counting, PTL

-----------------------------------------------------------------------------
(* The own clock.                                                          *)

\* Without first-start every step keeps a running node on its own storage.
LEMMA OwnStorageStep ==
  ASSUME ~FirstStart, CountingInv, OwnStorage, [Next]_vars
  PROVE  OwnStorage'
<1> USE DEF CountingInv
<1>a. TypeOK'
  BY TypeStep
<1>b. ASSUME UNCHANGED <<up, nodeID, clocks, born, put>>
      PROVE  OwnStorage'
  BY <1>b DEF OwnStorage
<1>1. ASSUME Tick
      PROVE  OwnStorage'
  BY <1>1, <1>b DEF Tick, durable
<1>2. ASSUME NEW c \in Client, NEW n \in Node, NEW k \in Key, PutCheck(c, n, k)
      PROVE  OwnStorage'
  <2>1. UNCHANGED <<up, nodeID, clocks, born>> /\ n \in up
    BY <1>2 DEF PutCheck, durable
  <2>2. put' = [put EXCEPT ![c] = [node |-> n, key |-> k, record |-> NewRecord(k)]]
    BY <1>2 DEF PutCheck
  <2>3. \A d \in Client : put'[d] # None => put'[d].node \in up
    BY <2>1, <2>2 DEF OwnStorage, TypeOK
  <2> QED
    BY <2>1, <2>3 DEF OwnStorage
<1>3. ASSUME NEW c \in Client, PutInsert(c)
      PROVE  OwnStorage'
  <2> DEFINE n == put[c].node
             S == {PutEntry(c)}
  <2>1. n \in Node /\ put[c].key \in Key
    BY <1>3 DEF PutInsert, TypeOK, Pending
  <2>2. InsertRecords(n, S) /\ born' = [born EXCEPT ![n] = Append(@, put[c].key)]
    BY <1>3 DEF PutInsert
  <2>3. n \in up /\ nodeID[n] = n /\ clocks[n][n] = Len(born[n])
    BY <1>3, <2>1 DEF PutInsert, OwnStorage
  <2>4. clocks'[n][n] = clocks[n][n] + 1
    <3>1. {e \in S : e.id = n} = {PutEntry(c)}
      BY DEF PutEntry
    <3>2. Cardinality({e \in S : e.id = n}) = 1
      BY <3>1, FS_Singleton
    <3>3. clocks'[n][n] = clocks[n][n] + Cardinality({e \in S : e.id = n})
      BY <2>1, <2>2 DEF InsertRecords, AdvancedClocks, TypeOK
    <3> QED
      BY <3>2, <3>3
  <2>5. Len(born'[n]) = Len(born[n]) + 1
    <3>1. born'[n] = Append(born[n], put[c].key) /\ born[n] \in Seq(Key)
      BY <2>1, <2>2 DEF TypeOK
    <3> QED
      BY <2>1, <3>1, AppendProperties
  <2>6. \A m \in Node \ {n} : clocks'[m][m] = clocks[m][m] /\ born'[m] = born[m]
    <3> HIDE DEF S
    <3> QED
      BY <2>1, <2>2, OtherClocks DEF TypeOK
  <2>7. UNCHANGED <<up, nodeID>>
    BY <1>3 DEF PutInsert
  <2>8. \A d \in Client : put'[d] # None => put'[d].node \in up
    BY <1>3 DEF PutInsert, OwnStorage, TypeOK
  <2>9. \A m \in Node : nodeID[m] = m => clocks'[m][m] = Len(born'[m])
    <3> HIDE DEF n, S
    <3> QED
      BY <2>3, <2>4, <2>5, <2>6 DEF OwnStorage
  <2> QED
    BY <2>7, <2>8, <2>9 DEF OwnStorage
<1>4. ASSUME NEW c \in Client, PutFails(c)
      PROVE  OwnStorage'
  BY <1>4 DEF PutFails, durable, OwnStorage, TypeOK
<1>5. ASSUME NEW n \in Node, SyncStart(n)
      PROVE  OwnStorage'
  BY <1>5, <1>b DEF SyncStart, durable
<1>6. ASSUME NEW n \in Node, SyncConnect(n)
      PROVE  OwnStorage'
  BY <1>6, <1>b DEF SyncConnect
<1>7. ASSUME NEW n \in Node, NEW id \in Node, SyncRespond(n, id)
      PROVE  OwnStorage'
  BY <1>7, <1>b DEF SyncRespond, durable
<1>8. ASSUME NEW n \in Node, SyncInsert(n)
      PROVE  OwnStorage'
  <2>1. InsertRecords(n, sync[n].batch) /\ UNCHANGED <<up, nodeID, born, put>>
    BY <1>8 DEF SyncInsert
  <2>2. \A e \in sync[n].batch : e.id # n
    BY DEF RequestCurrent
  <2>3. \A m \in Node : clocks'[m][m] = clocks[m][m]
    BY <2>1, <2>2, OtherClocks
  <2> QED
    BY <2>1, <2>3 DEF OwnStorage
<1>9. ASSUME NEW n \in Node, SyncPeerFails(n)
      PROVE  OwnStorage'
  BY <1>9, <1>b DEF SyncPeerFails, durable
<1>10. ASSUME NEW n \in Node, NEW k \in Key, AdminCall(n, k)
       PROVE  OwnStorage'
  BY <1>10, <1>b DEF AdminCall
<1>11. ASSUME NEW n \in Node, Halt(n)
       PROVE  OwnStorage'
  <2>1. UNCHANGED <<nodeID, clocks, born>> /\ up' = up \ {n}
    BY <1>11 DEF Halt, durable
  <2>2. \A d \in Client : put'[d] # None => put[d] # None /\ put'[d] = put[d]
                                          /\ put[d].node # n
    BY <1>11 DEF Halt
  <2> QED
    BY <2>1, <2>2 DEF OwnStorage
<1>12. ASSUME NEW n \in Node, Restart(n)
       PROVE  OwnStorage'
  <2>1. UNCHANGED <<clocks, born, put>> /\ nodeID[n] = n /\ up' = up \cup {n}
    BY <1>12 DEF Restart
  <2>2. nodeID' = nodeID
    BY <1>12, <2>1 DEF Restart, TypeOK
  <2> QED
    BY <2>1, <2>2 DEF OwnStorage
<1>13. ASSUME NEW n \in Node,
              StorageEmptied(n) \/ \E m \in Node \ {n} : StorageSwapped(n, m)
       PROVE  OwnStorage'
  <2>1. UNCHANGED <<up, born, put>> /\ n \notin up
    BY <1>13 DEF StorageEmptied, StorageSwapped
  <2>2. nodeID'[n] # n
    BY <1>13, ConstantsAssumption DEF StorageEmptied, StorageSwapped, TypeOK
  <2>3. \A m \in Node \ {n} : nodeID'[m] = nodeID[m] /\ clocks'[m] = clocks[m]
    BY <1>13 DEF StorageEmptied, StorageSwapped, TypeOK
  <2> QED
    BY <2>1, <2>2, <2>3 DEF OwnStorage
<1>14. ASSUME UNCHANGED vars
       PROVE  OwnStorage'
  BY <1>14, <1>b DEF vars, durable
<1> QED
  BY <1>1, <1>2, <1>3, <1>4, <1>5, <1>6, <1>7, <1>8, <1>9, <1>10, <1>11, <1>12,
     <1>13, <1>14
     DEF Next, PutStep, SyncStep, AdminStep, StorageStep, Crash, SyncSelf,
         InvalidateRecord, UnpublishRecord, DeleteRecord

\* Unless the nodes are restarted with first-start, a running node's own clock
\* is the number of its Puts, through crashes, lost and swapped storage.
THEOREM OwnClock ==
  ASSUME ~FirstStart
  PROVE  Spec => []OwnClockCountsPuts
<1>1. Init => CountingInv /\ OwnStorage
  BY InitCounting DEF Init, OwnStorage, NoClocks
<1>2. CountingInv /\ OwnStorage /\ [Next]_vars => CountingInv' /\ OwnStorage'
  BY CountingStep, OwnStorageStep
<1>3. CountingInv /\ OwnStorage => OwnClockCountsPuts
  BY DEF CountingInv, TypeOK, OwnStorage, OwnClockCountsPuts
<1> QED
  BY <1>1, <1>2, <1>3, PTL DEF Spec

-----------------------------------------------------------------------------
(* Records.                                                                *)

\* A transaction stores what is there already, or where nothing is.
LEMMA InsertKeeps ==
  ASSUME TypeOK, NEW n \in Node, NEW S, InsertRecords(n, S),
         NEW i \in Node, NEW k \in Key, Visible(i, k)
  PROVE  records'[i][k] = records[i][k]
<1>1. CASE i # n
  BY <1>1 DEF InsertRecords, TypeOK
<1>2. CASE i = n /\ \E e \in S : e.key = k
  <2>1. records'[n][k] = (CHOOSE e \in S : e.key = k).record
    BY <1>2 DEF InsertRecords, TypeOK
  <2>2. (CHOOSE e \in S : e.key = k) \in S /\ (CHOOSE e \in S : e.key = k).key = k
    BY <1>2
  <2> QED
    BY <1>2, <2>1, <2>2 DEF InsertRecords, InsertAllowed
<1>3. CASE i = n /\ ~ \E e \in S : e.key = k
  BY <1>3 DEF InsertRecords, TypeOK
<1> QED
  BY <1>1, <1>2, <1>3

\* No step of Put, of replication or of a restart changes a record that a running
\* node holds: what an administrator did to it stays done.
THEOREM AdminHasLastWord == Spec => OnlyAdminChangesRecords
<1> DEFINE Step == \A n \in up, k \in Key :
                     Visible(n, k) /\ spent'.admin = spent.admin
                       => records'[n][k] = records[n][k]
<1>1. TypeOK /\ [Next]_vars => [Step]_vars
  <2> SUFFICES ASSUME TypeOK, [Next]_vars,
                      NEW n \in up, NEW k \in Key, Visible(n, k),
                      spent'.admin = spent.admin
               PROVE  records'[n][k] = records[n][k]
    OBVIOUS
  <2>1. n \in Node
    BY DEF TypeOK
  <2>2. CASE UNCHANGED records
    BY <2>2
  <2>3. ASSUME NEW c \in Client, PutInsert(c)
        PROVE  records'[n][k] = records[n][k]
    <3>1. put[c].node \in Node /\ InsertRecords(put[c].node, {PutEntry(c)})
      BY <2>3 DEF PutInsert, TypeOK, Pending
    <3> QED
      BY <2>1, <3>1, InsertKeeps
  <2>4. ASSUME NEW i \in Node, SyncInsert(i)
        PROVE  records'[n][k] = records[n][k]
    <3>1. InsertRecords(i, sync[i].batch)
      BY <2>4 DEF SyncInsert
    <3> QED
      BY <2>1, <3>1, InsertKeeps
  <2>5. ASSUME NEW i \in Node, NEW q \in Key, AdminCall(i, q)
        PROVE  FALSE
    <3>1. spent \in [crashes: Nat, admin: Nat, losses: Nat]
      BY DEF TypeOK
    <3>2. spent'.admin = spent.admin + 1 /\ spent.admin \in Nat
      BY <2>5, <3>1 DEF AdminCall
    <3> QED
      BY <3>2
  <2>6. ASSUME NEW i \in Node,
               StorageEmptied(i) \/ \E m \in Node \ {i} : StorageSwapped(i, m)
        PROVE  records'[n][k] = records[n][k]
    <3>1. CASE StorageEmptied(i)
      BY <2>1, <3>1 DEF StorageEmptied, TypeOK
    <3>2. ASSUME NEW m \in Node \ {i}, StorageSwapped(i, m)
          PROVE  records'[n][k] = records[n][k]
      BY <2>1, <3>2 DEF StorageSwapped, TypeOK
    <3> QED
      BY <2>6, <3>1, <3>2
  <2>7. ASSUME NEW i \in Node,
               \/ SyncStart(i) \/ SyncConnect(i) \/ \E id \in Node : SyncRespond(i, id)
               \/ SyncPeerFails(i) \/ Halt(i) \/ Restart(i)
        PROVE  UNCHANGED records
    BY <2>7 DEF SyncStart, SyncConnect, SyncRespond, SyncPeerFails, Halt, Restart, durable
  <2>8. ASSUME NEW c \in Client,
               PutFails(c) \/ \E i \in Node, q \in Key : PutCheck(c, i, q)
        PROVE  UNCHANGED records
    BY <2>8 DEF PutFails, PutCheck, durable
  <2>9. Tick \/ UNCHANGED vars => UNCHANGED records
    BY DEF Tick, vars, durable
  <2> QED
    BY <2>2, <2>3, <2>4, <2>5, <2>6, <2>7, <2>8, <2>9
       DEF Next, PutStep, SyncStep, AdminStep, StorageStep, Crash, SyncSelf,
           InvalidateRecord, UnpublishRecord, DeleteRecord
<1> QED
  BY <1>1, TypeCorrect, PTL DEF Spec, OnlyAdminChangesRecords
-----------------------------------------------------------------------------
(* Records and the log.                                                    *)

\* The invariant behind LogHasRecord and RecordHasLog.  The two have to go on as
\* time passes, so a record and its log entries expire together.
LogMatches ==
  /\ \A n \in Node : \A e \in rlog[n] :
       Live(e) => /\ records[n][e.key] # None
                  /\ records[n][e.key].expires = e.expires
  /\ \A n \in Node, k \in Key :
       Visible(n, k) => \E e \in rlog[n] : e.key = k /\ e.expires = records[n][k].expires

\* A transaction writes the record and the log entry of each of its entries, and
\* leaves what else there is.
LEMMA InsertMatches ==
  ASSUME TypeOK, LogMatches, NEW n \in Node, NEW S \in SUBSET ResponseEntry,
         InsertRecords(n, S), now' = now
  PROVE  LogMatches'
<1> DEFINE kept(k) == CHOOSE e \in S : e.key = k
<1>1. \A e \in S : e.key \in Key /\ e.record \in Record
  BY DEF ResponseEntry
<1>2. \A k : (\E e \in S : e.key = k) => kept(k) \in S /\ kept(k).key = k
  OBVIOUS
<1>3. \A i \in Node : i # n => records'[i] = records[i] /\ rlog'[i] = rlog[i]
  BY DEF InsertRecords, TypeOK
<1>4. \A k \in Key : records'[n][k] = IF \E e \in S : e.key = k
                                      THEN kept(k).record ELSE records[n][k]
  BY DEF InsertRecords, TypeOK
<1>5. rlog'[n] = rlog[n] \cup {Logged(n, e, S) : e \in S}
  BY DEF InsertRecords, TypeOK
<1>6. \A e \in S : Logged(n, e, S).key = e.key /\ Logged(n, e, S).expires = e.record.expires
  BY DEF Logged
<1>7. InsertAllowed(n, S)
  BY DEF InsertRecords
<1> HIDE DEF kept
<1>8. ASSUME NEW l \in rlog'[n], Live(l)
      PROVE  records'[n][l.key] # None /\ records'[n][l.key].expires = l.expires
  <2>1. CASE l \in rlog[n]
    <3>1. l.key \in Key
      BY <2>1 DEF TypeOK, LogEntry
    <3>2. records[n][l.key] # None /\ records[n][l.key].expires = l.expires
      BY <1>8, <2>1 DEF LogMatches
    <3>3. Visible(n, l.key)
      BY <1>8, <3>2 DEF Visible, Live
    <3>4. records'[n][l.key] = records[n][l.key]
      BY <3>1, <3>3, InsertKeeps
    <3> QED
      BY <3>2, <3>4
  <2>2. ASSUME NEW e \in S, l = Logged(n, e, S)
        PROVE  records'[n][l.key] # None /\ records'[n][l.key].expires = l.expires
    <3>1. l.key = e.key /\ l.expires = e.record.expires /\ Live(e.record)
      BY <1>6, <1>8, <2>2 DEF Live
    <3>2. kept(e.key) \in S /\ kept(e.key).key = e.key
      BY <1>2
    <3>3. kept(e.key).record = e.record
      BY <1>7, <3>1, <3>2 DEF InsertAllowed
    <3>4. records'[n][e.key] = e.record
      BY <1>1, <1>4, <3>3
    <3>5. e.record # None
      BY <1>1, ConstantsAssumption
    <3> QED
      BY <3>1, <3>4, <3>5
  <2> QED
    BY <1>5, <1>8, <2>1, <2>2
<1>9. ASSUME NEW k \in Key, records'[n][k] # None, Live(records'[n][k])
      PROVE  \E l \in rlog'[n] : l.key = k /\ l.expires = records'[n][k].expires
  <2>1. CASE \E e \in S : e.key = k
    <3>1. Logged(n, kept(k), S) \in rlog'[n]
      BY <1>2, <1>5, <2>1
    <3>2. records'[n][k] = kept(k).record
      BY <1>4, <2>1
    <3> QED
      BY <1>2, <1>6, <2>1, <3>1, <3>2
  <2>2. CASE ~ \E e \in S : e.key = k
    <3>1. records'[n][k] = records[n][k]
      BY <1>4, <2>2
    <3>2. Visible(n, k)
      BY <1>9, <3>1 DEF Visible
    <3> QED
      BY <1>5, <3>1, <3>2 DEF LogMatches
  <2> QED
    BY <2>1, <2>2
<1>10. \A e : Live(e)' = Live(e)
  BY DEF Live
<1>11. ASSUME NEW i \in Node, NEW e \in rlog'[i], Live(e)'
       PROVE  records'[i][e.key] # None /\ records'[i][e.key].expires = e.expires
  BY <1>3, <1>8, <1>10, <1>11 DEF LogMatches, Live
<1>12. ASSUME NEW i \in Node, NEW k \in Key, Visible(i, k)'
       PROVE  \E e \in rlog'[i] : e.key = k /\ e.expires = records'[i][k].expires
  BY <1>3, <1>9, <1>12 DEF LogMatches, Live, Visible
<1> QED
  BY <1>11, <1>12 DEF LogMatches

\* Every step keeps records and log together.
LEMMA LogMatchesStep ==
  ASSUME TypeOK, SyncAlive, LogMatches, [Next]_vars
  PROVE  LogMatches'
<1>1. CASE Tick
  <2>1. now \in Nat /\ now' = now + 1 /\ UNCHANGED <<records, rlog>>
    BY <1>1 DEF Tick, durable, TypeOK
  <2>2. \A n \in Node : \A e \in rlog[n] : Live(e)' => Live(e)
    BY <2>1 DEF Live, TypeOK, LogEntry
  <2>3. \A n \in Node, k \in Key : Visible(n, k)' => Visible(n, k)
    BY <2>1 DEF Visible, Live, TypeOK, Record
  <2> QED
    BY <2>1, <2>2, <2>3 DEF LogMatches
<1>2. ASSUME NEW c \in Client, PutInsert(c)
      PROVE  LogMatches'
  <2>1. put[c] \in Pending /\ put[c].node \in Node
    BY <1>2 DEF PutInsert, TypeOK, Pending
  <2>2. {PutEntry(c)} \in SUBSET ResponseEntry
    BY <2>1 DEF PutEntry, ResponseEntry, Pending, TypeOK
  <2> QED
    BY <1>2, <2>1, <2>2, InsertMatches DEF PutInsert
<1>3. ASSUME NEW n \in Node, SyncInsert(n)
      PROVE  LogMatches'
  <2>1. sync[n].batch \in SUBSET ResponseEntry
    BY DEF TypeOK, SyncState
  <2> QED
    BY <1>3, <2>1, InsertMatches DEF SyncInsert
<1>4. ASSUME NEW n \in Node, NEW k \in Key,
             InvalidateRecord(n, k) \/ UnpublishRecord(n, k)
      PROVE  LogMatches'
  <2>1. UNCHANGED <<now, rlog>> /\ Visible(n, k)
    BY <1>4 DEF InvalidateRecord, UnpublishRecord, UpdateRecord, AdminCall
  <2>2. records[n][k] \in Record
    BY <2>1 DEF Visible, TypeOK
  <2>3. PICK r \in Record : /\ records' = [records EXCEPT ![n][k] = r]
                            /\ r.expires = records[n][k].expires
    <3>1. now \in Nat
      BY DEF TypeOK
    <3>2. /\ [records[n][k] EXCEPT !.invalidatedAt = now] \in Record
          /\ [records[n][k] EXCEPT !.public = FALSE] \in Record
      BY <2>2, <3>1 DEF Record
    <3> QED
      BY <1>4, <2>2, <3>2 DEF InvalidateRecord, UnpublishRecord, UpdateRecord, Record
  <2>4. r # None
    BY ConstantsAssumption
  <2>5. \A i \in Node, q \in Key : /\ records'[i][q] # None <=> records[i][q] # None
                                   /\ records'[i][q].expires = records[i][q].expires
    BY <2>1, <2>3, <2>4 DEF TypeOK, Visible
  <2>6. \A i \in Node, q \in Key : Visible(i, q)' <=> Visible(i, q)
    BY <2>1, <2>5 DEF Visible, Live
  <2>7. \A i \in Node : \A e \in rlog[i] : e.key \in Key /\ (Live(e)' <=> Live(e))
    BY <2>1 DEF Live, TypeOK, LogEntry
  <2> QED
    BY <2>1, <2>5, <2>6, <2>7 DEF LogMatches
<1>5. ASSUME NEW n \in Node, NEW k \in Key, DeleteRecord(n, k)
      PROVE  LogMatches'
  <2>1. /\ now' = now
        /\ records' = [records EXCEPT ![n][k] = None]
        /\ rlog' = [rlog EXCEPT ![n] = @ \ LogEntriesOf(n, k)]
    BY <1>5 DEF DeleteRecord, AdminCall
  <2>2. \A i \in Node, q \in Key : records'[i][q] = IF i = n /\ q = k THEN None
                                                    ELSE records[i][q]
    BY <2>1 DEF TypeOK
  <2>3. \A i \in Node : rlog'[i] = IF i = n THEN rlog[n] \ LogEntriesOf(n, k) ELSE rlog[i]
    BY <2>1 DEF TypeOK
  <2>4. ASSUME NEW i \in Node, NEW e \in rlog'[i], Live(e)'
        PROVE  records'[i][e.key] # None /\ records'[i][e.key].expires = e.expires
    <3>1. e \in rlog[i] /\ Live(e) /\ e.key \in Key
      BY <2>1, <2>3, <2>4 DEF Live, TypeOK, LogEntry
    <3>2. i = n => e.key # k
      BY <2>3, <2>4, <3>1 DEF LogEntriesOf, VisibleLog
    <3> QED
      BY <2>2, <3>1, <3>2 DEF LogMatches
  <2>5. ASSUME NEW i \in Node, NEW q \in Key, Visible(i, q)'
        PROVE  \E e \in rlog'[i] : e.key = q /\ e.expires = records'[i][q].expires
    <3>1. ~(i = n /\ q = k) /\ records'[i][q] = records[i][q] /\ Visible(i, q)
      BY <2>1, <2>2, <2>5 DEF Visible, Live
    <3>2. PICK e \in rlog[i] : e.key = q /\ e.expires = records[i][q].expires
      BY <3>1 DEF LogMatches
    <3>3. e \in rlog'[i]
      BY <2>3, <3>1, <3>2 DEF LogEntriesOf
    <3> QED
      BY <3>1, <3>2, <3>3
  <2> QED
    BY <2>4, <2>5 DEF LogMatches
<1>6. ASSUME NEW n \in Node,
             StorageEmptied(n) \/ \E m \in Node \ {n} : StorageSwapped(n, m)
      PROVE  LogMatches'
  <2>1. now' = now /\ \A i \in Node \ {n} : rlog'[i] = rlog[i] /\ records'[i] = records[i]
    BY <1>6 DEF StorageEmptied, StorageSwapped, TypeOK
  <2>2. \/ rlog'[n] = {} /\ records'[n] = NoRecords
        \/ \E m \in Node : rlog'[n] = rlog[m] /\ records'[n] = records[m]
    <3>1. CASE StorageEmptied(n)
      BY <3>1 DEF StorageEmptied, TypeOK
    <3>2. ASSUME NEW m \in Node \ {n}, StorageSwapped(n, m)
          PROVE  rlog'[n] = rlog[m] /\ records'[n] = records[m]
      BY <3>2 DEF StorageSwapped, TypeOK
    <3> QED
      BY <1>6, <3>1, <3>2
  <2>3. \A i \in Node : \/ rlog'[i] = {} /\ records'[i] = NoRecords
                        \/ \E m \in Node : rlog'[i] = rlog[m] /\ records'[i] = records[m]
    BY <2>1, <2>2
  <2> QED
    BY <2>1, <2>3 DEF LogMatches, Visible, Live, NoRecords
<1>7. ASSUME UNCHANGED <<now, records, rlog>>
      PROVE  LogMatches'
  BY <1>7 DEF LogMatches, Visible, Live
<1>8. ASSUME NEW n \in Node,
             \/ SyncStart(n) \/ SyncConnect(n) \/ \E id \in Node : SyncRespond(n, id)
             \/ SyncPeerFails(n) \/ Halt(n) \/ Restart(n)
      PROVE  UNCHANGED <<now, records, rlog>>
  BY <1>8 DEF SyncStart, SyncConnect, SyncRespond, SyncPeerFails, Halt, Restart, durable
<1>9. ASSUME NEW c \in Client,
             PutFails(c) \/ \E i \in Node, q \in Key : PutCheck(c, i, q)
      PROVE  UNCHANGED <<now, records, rlog>>
  BY <1>9 DEF PutFails, PutCheck, durable
<1>10. CASE UNCHANGED vars
  BY <1>7, <1>10 DEF vars, durable
<1> QED
  BY <1>1, <1>2, <1>3, <1>4, <1>5, <1>6, <1>7, <1>8, <1>9, <1>10
     DEF Next, PutStep, SyncStep, AdminStep, StorageStep, Crash, SyncSelf

\* The log and the records of every node say the same, whatever expires, is deleted,
\* relayed, lost or swapped: no position of a log keeps its peers from an answer,
\* and no record is out of their reach.
THEOREM LogAndRecords == Spec => [](LogHasRecord /\ RecordHasLog)
<1>1. Init => LogMatches
  BY DEF Init, LogMatches, Visible, NoRecords
<1>2. TypeOK /\ SyncAlive /\ LogMatches /\ [Next]_vars => LogMatches'
  BY LogMatchesStep
<1>3. LogMatches => LogHasRecord /\ RecordHasLog
  BY DEF LogMatches, LogHasRecord, RecordHasLog, VisibleLog, Visible, Live
<1> QED
  BY <1>1, <1>2, <1>3, TypeCorrect, PTL DEF Spec

-----------------------------------------------------------------------------
(* The copies of a record.                                                 *)

\* A record is in a storage, on its way to one, or about to be Put.
IsCopy(r, k) ==
  \/ \E n \in Node : r = records[n][k] /\ r # None
  \/ \E n \in Node : \E e \in sync[n].batch : e.key = k /\ r = e.record
  \/ \E c \in Client : put[c] # None /\ put[c].key = k /\ r = put[c].record

\* The invariant behind HoldersAgree: there are copies of issued keys only, and all
\* stem from one Put.
CopiesAgree ==
  \A k \in Key \ Reusable :
    /\ \A q, r \in Record : IsCopy(q, k) /\ IsCopy(r, k) => Origin(q) = Origin(r)
    /\ \A r \in Record : IsCopy(r, k) => k \in issued

\* There is a copy that r has its origin from.
Stems(r, k) == \E q \in Record : IsCopy(q, k) /\ Origin(q) = Origin(r)

LEMMA CopyStems ==
  ASSUME NEW k, NEW r \in Record, IsCopy(r, k)
  PROVE  Stems(r, k)
BY DEF Stems

\* A step after which all copies stem from earlier ones is harmless.
LEMMA NothingNew ==
  ASSUME CopiesAgree, TypeOK, issued' = issued,
         \A i \in Node, k \in Key : records'[i][k] # None => Stems(records'[i][k], k),
         \A i \in Node : \A e \in sync'[i].batch : e.key \in Key /\ Stems(e.record, e.key),
         \A c \in Client : put'[c] # None => Stems(put'[c].record, put'[c].key)
  PROVE  CopiesAgree'
<1>1. ASSUME NEW k \in Key \ Reusable, NEW r \in Record, IsCopy(r, k)'
      PROVE  Stems(r, k)
  BY <1>1 DEF IsCopy
<1>2. ASSUME NEW k \in Key \ Reusable, NEW q \in Record, NEW r \in Record,
             IsCopy(q, k)', IsCopy(r, k)'
      PROVE  Origin(q) = Origin(r)
  <2>1. Stems(q, k) /\ Stems(r, k)
    BY <1>1, <1>2
  <2>2. PICK x \in Record : IsCopy(x, k) /\ Origin(x) = Origin(q)
    BY <2>1 DEF Stems
  <2>3. PICK y \in Record : IsCopy(y, k) /\ Origin(y) = Origin(r)
    BY <2>1 DEF Stems
  <2>4. Origin(x) = Origin(y)
    BY <2>2, <2>3 DEF CopiesAgree
  <2> QED
    BY <2>2, <2>3, <2>4
<1>3. ASSUME NEW k \in Key \ Reusable, NEW r \in Record, IsCopy(r, k)'
      PROVE  k \in issued'
  <2>1. PICK x \in Record : IsCopy(x, k)
    BY <1>1, <1>3 DEF Stems
  <2> QED
    BY <2>1 DEF CopiesAgree
<1> QED
  BY <1>2, <1>3 DEF CopiesAgree, Origin

\* What there is already stems from itself.
LEMMA AllStem ==
  ASSUME TypeOK
  PROVE  /\ \A i \in Node, k \in Key : records[i][k] # None => Stems(records[i][k], k)
         /\ \A i \in Node : \A e \in sync[i].batch :
              e.key \in Key /\ Stems(e.record, e.key)
         /\ \A c \in Client : put[c] # None => Stems(put[c].record, put[c].key)
<1>1. ASSUME NEW i \in Node, NEW k \in Key, records[i][k] # None
      PROVE  Stems(records[i][k], k)
  <2>1. records[i][k] \in Record /\ IsCopy(records[i][k], k)
    BY <1>1 DEF TypeOK, IsCopy
  <2> QED
    BY <2>1, CopyStems
<1>2. ASSUME NEW i \in Node, NEW e \in sync[i].batch
      PROVE  e.key \in Key /\ Stems(e.record, e.key)
  <2>1. e \in ResponseEntry
    BY <1>2 DEF TypeOK, SyncState
  <2>2. e.key \in Key /\ e.record \in Record
    BY <2>1 DEF ResponseEntry
  <2>3. IsCopy(e.record, e.key)
    BY <1>2 DEF IsCopy
  <2> QED
    BY <2>2, <2>3, CopyStems
<1>3. ASSUME NEW c \in Client, put[c] # None
      PROVE  Stems(put[c].record, put[c].key)
  <2>1. put[c] \in Pending
    BY <1>3 DEF TypeOK
  <2>2. put[c].record \in Record
    BY <2>1 DEF Pending
  <2>3. IsCopy(put[c].record, put[c].key)
    BY <1>3 DEF IsCopy
  <2> QED
    BY <2>2, <2>3, CopyStems
<1> QED
  BY <1>1, <1>2, <1>3

\* A transaction stores each key with the record of one of its entries.
LEMMA InsertStems ==
  ASSUME TypeOK, NEW n \in Node, NEW S \in SUBSET ResponseEntry, InsertRecords(n, S),
         \A e \in S : Stems(e.record, e.key)
  PROVE  \A i \in Node, k \in Key : records'[i][k] # None => Stems(records'[i][k], k)
<1> SUFFICES ASSUME NEW i \in Node, NEW k \in Key, records'[i][k] # None
             PROVE  Stems(records'[i][k], k)
  OBVIOUS
<1> DEFINE kept == CHOOSE e \in S : e.key = k
<1>1. \/ records'[i][k] = records[i][k]
      \/ (\E e \in S : e.key = k) /\ records'[i][k] = kept.record
  BY DEF InsertRecords, TypeOK
<1>2. (\E e \in S : e.key = k) => kept \in S /\ kept.key = k
  OBVIOUS
<1> HIDE DEF kept
<1>3. CASE records'[i][k] = records[i][k]
  BY <1>3, AllStem
<1>4. CASE kept \in S /\ kept.key = k /\ records'[i][k] = kept.record
  BY <1>4
<1> QED
  BY <1>1, <1>2, <1>3, <1>4

\* A Put begins: its key is one that nobody has, or one that many may have.
LEMMA NewCopy ==
  ASSUME TypeOK, CopiesAgree, NEW c \in Client, NEW n \in Node, NEW key \in Key,
         PutCheck(c, n, key)
  PROVE  CopiesAgree'
<1> DEFINE record == NewRecord(key)
<1>1. /\ key \in Reusable \/ key \notin issued
      /\ put' = [put EXCEPT ![c] = [node |-> n, key |-> key, record |-> record]]
      /\ issued' = issued \cup {key}
      /\ UNCHANGED <<records, sync>>
  BY DEF PutCheck, durable
<1>2. put'[c].key = key /\ put'[c].record = record
      /\ \A d \in Client \ {c} : put'[d] = put[d]
  BY <1>1 DEF TypeOK
<1> HIDE DEF record
<1>3. ASSUME NEW k \in Key \ Reusable, NEW r, IsCopy(r, k)'
      PROVE  IsCopy(r, k) \/ (k = key /\ r = record)
  BY <1>1, <1>2, <1>3 DEF IsCopy
<1>4. ASSUME NEW k \in Key \ Reusable, NEW q \in Record, NEW r \in Record,
             IsCopy(q, k)', IsCopy(r, k)'
      PROVE  Origin(q) = Origin(r)
  <2>1. CASE k = key
    <3>1. k \notin issued
      BY <1>1, <2>1
    <3>2. ~IsCopy(q, k) /\ ~IsCopy(r, k)
      BY <3>1 DEF CopiesAgree
    <3>3. q = record /\ r = record
      BY <1>3, <1>4, <3>2
    <3> QED
      BY <3>3
  <2>2. CASE k # key
    <3>1. IsCopy(q, k) /\ IsCopy(r, k)
      BY <1>3, <1>4, <2>2
    <3> QED
      BY <3>1 DEF CopiesAgree
  <2> QED
    BY <2>1, <2>2
<1>5. ASSUME NEW k \in Key \ Reusable, NEW r \in Record, IsCopy(r, k)'
      PROVE  k \in issued'
  <2>1. IsCopy(r, k) \/ k = key
    BY <1>3, <1>5
  <2> QED
    BY <1>1, <2>1 DEF CopiesAgree
<1> QED
  BY <1>4, <1>5 DEF CopiesAgree, Origin

LEMMA CopiesStep ==
  ASSUME TypeOK, SyncAlive, CopiesAgree, [Next]_vars
  PROVE  CopiesAgree'
<1> DEFINE R == \A i \in Node, k \in Key : records'[i][k] # None => Stems(records'[i][k], k)
           B == \A i \in Node : \A e \in sync'[i].batch :
                  e.key \in Key /\ Stems(e.record, e.key)
           P == \A c \in Client : put'[c] # None => Stems(put'[c].record, put'[c].key)
<1>r. records' = records => R
  BY AllStem
<1>b. (\A i \in Node : sync'[i].batch \subseteq sync[i].batch) => B
  BY AllStem
<1>p. (\A c \in Client : put'[c] # None => put'[c] = put[c]) => P
  BY AllStem
<1>q. R /\ B /\ P /\ issued' = issued => CopiesAgree'
  BY NothingNew
<1> HIDE DEF R, B, P
<1>a. \A n \in Node : AfterPeer(n).batch = {}
  BY DEF AfterPeer, NoSync
<1>1. ASSUME NEW c \in Client, PutInsert(c) PROVE CopiesAgree'
  <2>1. put[c] # None /\ put[c] \in Pending /\ put[c].node \in Node
    BY <1>1 DEF PutInsert, TypeOK, Pending
  <2>2. {PutEntry(c)} \in SUBSET ResponseEntry
    BY <2>1 DEF PutEntry, ResponseEntry, Pending, TypeOK
  <2>3. PutEntry(c).record = put[c].record /\ PutEntry(c).key = put[c].key
    BY DEF PutEntry
  <2>4. \A e \in {PutEntry(c)} : Stems(e.record, e.key)
    BY <2>1, <2>3, AllStem
  <2>5. R
    BY <1>1, <2>1, <2>2, <2>4, InsertStems DEF PutInsert, R
  <2>6. sync' = sync /\ issued' = issued /\ \A d \in Client : put'[d] # None => put'[d] = put[d]
    BY <1>1 DEF PutInsert, TypeOK
  <2> QED
    BY <2>5, <2>6, <1>b, <1>p, <1>q
<1>2. ASSUME NEW n \in Node, SyncInsert(n) PROVE CopiesAgree'
  <2>1. sync[n].batch \in SUBSET ResponseEntry
    BY DEF TypeOK, SyncState
  <2>2. \A e \in sync[n].batch : Stems(e.record, e.key)
    BY AllStem
  <2>3. R
    BY <1>2, <2>1, <2>2, InsertStems DEF SyncInsert, R
  <2>4. sync' = [sync EXCEPT ![n] = AfterPeer(n)] /\ UNCHANGED <<put, issued>>
    BY <1>2 DEF SyncInsert
  <2>5. \A i \in Node : sync'[i].batch \subseteq sync[i].batch
    BY <1>a, <2>4 DEF TypeOK
  <2> QED
    BY <2>3, <2>4, <2>5, <1>b, <1>p, <1>q
<1>3. ASSUME NEW n \in Node, NEW id \in Node, SyncRespond(n, id) PROVE CopiesAgree'
  <2> DEFINE p == Peer(n)
             found == FindResponseEntries(p, id, sync[n].request[id])
  <2>1. /\ \A e \in found : Visible(p, e.key)
        /\ sync' = [sync EXCEPT ![n] = [@ EXCEPT !.todo = sync[n].todo \ {id},
                                                 !.batch = sync[n].batch \cup found]]
        /\ UNCHANGED <<records, put, issued>> /\ sync[n].phase = "replicate"
    BY <1>3 DEF SyncRespond, durable
  <2>2. p \in Node
    <3>1. sync[n].at \in 1 .. Len(Join[n])
      BY <2>1 DEF SyncAlive
    <3>2. Join[n] \in Seq(Node)
      BY ConstantsAssumption
    <3>3. Join[n][sync[n].at] \in Node
      BY <3>1, <3>2
    <3> QED
      BY <3>3 DEF Peer
  <2>3. sync[n] \in SyncState /\ sync[n].request[id] \in Nat
    BY DEF TypeOK, SyncState
  <2> HIDE DEF p
  <2>4. /\ found \in SUBSET ResponseEntry
        /\ \A e \in found : e.record = records[p][e.key]
    BY <2>1, <2>2, <2>3, FoundEntries
  <2> HIDE DEF found
  <2>5. ASSUME NEW e \in found PROVE e.key \in Key /\ Stems(e.record, e.key)
    <3>1. e.key \in Key /\ records[p][e.key] # None
      BY <2>1, <2>4, <2>5 DEF ResponseEntry, Visible
    <3> QED
      BY <2>2, <2>4, <3>1, AllStem
  <2>6. sync'[n].batch = sync[n].batch \cup found /\ \A i \in Node \ {n} : sync'[i] = sync[i]
    BY <2>1, <2>3 DEF TypeOK, SyncState
  <2>7. B
    BY <2>5, <2>6, AllStem DEF B
  <2> QED
    BY <2>1, <2>7, <1>r, <1>p, <1>q
<1>4. ASSUME NEW n \in Node, NEW k \in Key, InvalidateRecord(n, k) \/ UnpublishRecord(n, k)
      PROVE  CopiesAgree'
  <2>1. Visible(n, k) /\ UNCHANGED <<sync, put, issued>>
    BY <1>4 DEF InvalidateRecord, UnpublishRecord, AdminCall
  <2>2. records[n][k] \in Record /\ records[n][k] # None
    BY <2>1 DEF Visible, TypeOK
  <2>3. \E r : records' = [records EXCEPT ![n][k] = r] /\ Origin(r) = Origin(records[n][k])
    <3> DEFINE q == records[n][k]
    <3>1. /\ Origin([q EXCEPT !.invalidatedAt = now]) = Origin(q)
          /\ Origin([q EXCEPT !.public = FALSE]) = Origin(q)
      BY <2>2 DEF Record, Origin
    <3> QED
      BY <1>4, <3>1 DEF InvalidateRecord, UnpublishRecord, UpdateRecord
  <2>4. PICK r : records' = [records EXCEPT ![n][k] = r] /\ Origin(r) = Origin(records[n][k])
    BY <2>3
  <2>5. Stems(records[n][k], k)
    BY <2>2, AllStem
  <2>6. Stems(r, k)
    BY <2>4, <2>5 DEF Stems
  <2>7. ASSUME NEW i \in Node, NEW q \in Key
        PROVE  records'[i][q] = records[i][q] \/ (i = n /\ q = k /\ records'[i][q] = r)
    BY <2>4 DEF TypeOK
  <2>8. R
    BY <2>6, <2>7, AllStem DEF R
  <2> QED
    BY <2>1, <2>8, <1>b, <1>p, <1>q
<1>5. ASSUME NEW n \in Node,
             \/ \E k \in Key : DeleteRecord(n, k)
             \/ StorageEmptied(n) \/ \E m \in Node \ {n} : StorageSwapped(n, m)
      PROVE  CopiesAgree'
  <2>1. UNCHANGED <<sync, put, issued>>
    BY <1>5 DEF DeleteRecord, AdminCall, StorageEmptied, StorageSwapped
  <2>2. \A i \in Node, k \in Key :
          records'[i][k] = None \/ \E m \in Node : records'[i][k] = records[m][k]
    <3>1. CASE \E k \in Key : DeleteRecord(n, k)
      BY <3>1 DEF DeleteRecord, TypeOK
    <3>2. CASE StorageEmptied(n)
      BY <3>2 DEF StorageEmptied, NoRecords, TypeOK
    <3>3. CASE \E m \in Node \ {n} : StorageSwapped(n, m)
      BY <3>3 DEF StorageSwapped, TypeOK
    <3> QED
      BY <1>5, <3>1, <3>2, <3>3
  <2>3. R
    BY <2>2, AllStem DEF R
  <2> QED
    BY <2>1, <2>3, <1>b, <1>p, <1>q
<1>6. ASSUME NEW n \in Node, SyncStart(n) \/ SyncConnect(n) \/ SyncPeerFails(n)
      PROVE  CopiesAgree'
  <2>1. UNCHANGED <<records, put, issued>>
    BY <1>6 DEF SyncStart, SyncConnect, SyncPeerFails, durable
  <2>2. \A i \in Node : sync'[i].batch \subseteq sync[i].batch
    <3>1. \A i \in Node : sync[i] \in SyncState
      BY DEF TypeOK
    <3>2. CASE SyncStart(n)
      BY <3>1, <3>2 DEF SyncStart, SyncState, TypeOK
    <3>3. CASE SyncConnect(n)
      <4>1. \E request, todo : sync' = [sync EXCEPT ![n] =
              [@ EXCEPT !.phase = "replicate", !.request = request, !.todo = todo]]
        BY <3>3 DEF SyncConnect
      <4> QED
        BY <3>1, <4>1 DEF SyncState, TypeOK
    <3>4. CASE SyncPeerFails(n)
      <4>1. sync' = [sync EXCEPT ![n] = AfterPeer(n)]
        BY <3>4 DEF SyncPeerFails
      <4> QED
        BY <1>a, <4>1 DEF TypeOK
    <3> QED
      BY <1>6, <3>2, <3>3, <3>4
  <2> QED
    BY <2>1, <2>2, <1>r, <1>b, <1>p, <1>q
<1>7. ASSUME NEW n \in Node, Halt(n) PROVE CopiesAgree'
  <2>1. UNCHANGED <<records, issued>>
    BY <1>7 DEF Halt, durable
  <2>2. \A i \in Node : sync'[i].batch \subseteq sync[i].batch
    BY <1>7 DEF Halt, NoSync
  <2>3. \A c \in Client : put'[c] # None => put'[c] = put[c]
    BY <1>7 DEF Halt
  <2> QED
    BY <2>1, <2>2, <2>3, <1>r, <1>b, <1>p, <1>q
<1>8. CASE \/ Tick \/ \E n \in Node : Restart(n)
           \/ \E c \in Client : PutFails(c)
           \/ UNCHANGED vars
  <2>1. UNCHANGED <<records, sync, issued>>
    BY <1>8 DEF Tick, Restart, PutFails, vars, durable
  <2>2. \A c \in Client : put'[c] # None => put'[c] = put[c]
    BY <1>8 DEF Tick, Restart, PutFails, vars, TypeOK
  <2> QED
    BY <2>1, <2>2, <1>r, <1>b, <1>p, <1>q
<1>9. ASSUME NEW c \in Client, NEW n \in Node, NEW k \in Key, PutCheck(c, n, k)
      PROVE  CopiesAgree'
  BY <1>9, NewCopy
<1> QED
  BY <1>1, <1>2, <1>3, <1>4, <1>5, <1>6, <1>7, <1>8, <1>9
     DEF Next, PutStep, SyncStep, AdminStep, StorageStep, Crash, SyncSelf

\* All nodes that hold a key that was drawn at random hold the record that its one Put
\* stored, but for what an admin changed of it: through relays, expiry, deletions,
\* crashes, lost and swapped directories.
THEOREM HoldersHoldTheSame == Spec => []HoldersAgree
<1>1. Init => CopiesAgree
  BY DEF Init, CopiesAgree, IsCopy, NoSync, NoRecords
<1>2. TypeOK /\ SyncAlive /\ CopiesAgree /\ [Next]_vars => CopiesAgree'
  BY CopiesStep
<1>3. TypeOK /\ CopiesAgree => HoldersAgree
  <2> SUFFICES ASSUME TypeOK, CopiesAgree, NEW n \in Node, NEW m \in Node,
                      NEW k \in Key \ Reusable, Visible(n, k), Visible(m, k)
               PROVE  Origin(records[n][k]) = Origin(records[m][k])
    BY DEF HoldersAgree
  <2>1. /\ records[n][k] \in Record /\ records[m][k] \in Record
        /\ records[n][k] # None /\ records[m][k] # None
    BY DEF Visible, TypeOK
  <2>2. IsCopy(records[n][k], k) /\ IsCopy(records[m][k], k)
    BY <2>1 DEF IsCopy
  <2> QED
    BY <2>1, <2>2 DEF CopiesAgree
<1> QED
  BY <1>1, <1>2, <1>3, TypeCorrect, PTL DEF Spec

-----------------------------------------------------------------------------
(* The database as an implementation of Feeds.                             *)

\* Nothing expires, is deleted or is lost, and no two Puts share a key.
NothingIsLost ==
  /\ Reusable = {}
  /\ \A k \in Key : ExpiresAt[k] = 0
  /\ Bound.admin = 0 /\ Bound.losses = 0

NothingExpires ==
  /\ \A n \in Node, k \in Key : records[n][k] # None => records[n][k].expires = 0
  /\ \A n \in Node : /\ \A e \in rlog[n] : e.expires = 0
                     /\ \A e \in sync[n].batch : e.record.expires = 0
  /\ \A c \in Client : put[c] # None => put[c].record.expires = 0

\* A key that was drawn belongs to one Put, or to one place in one node's log.
KeysAreDrawnOnce ==
  /\ \A n \in Node : \A j \in DOMAIN born[n] : born[n][j] \in issued
  /\ \A c \in Client : put[c] # None =>
       /\ put[c].key \in issued
       /\ \A n \in Node : \A j \in DOMAIN born[n] : born[n][j] # put[c].key
       /\ \A d \in Client : d # c /\ put[d] # None => put[d].key # put[c].key

OwnClockIsExact == \A n \in Node : clocks[n][n] = Len(born[n])

\* An entry is logged under its place in the origin's log, and none is left out.
LogIsPrefix ==
  \A n \in Node :
    /\ \A e \in rlog[n] : e.clock \in DOMAIN born[e.id] /\ born[e.id][e.clock] = e.key
    /\ \A m \in Node : \A i \in 1 .. clocks[n][m] :
         \E e \in rlog[n] : e.id = m /\ e.clock = i

\* The entries S that n is about to insert go on where its clocks end.
GoesOn(n, S, log) ==
  \A e \in S :
    /\ e.clock \in DOMAIN log[e.id] /\ log[e.id][e.clock] = e.key
    /\ \A i \in clocks[n][e.id] + 1 .. e.clock : \E f \in S : f.id = e.id /\ f.clock = i

\* So does a response, and it takes the node no further than the peer is.
BatchGoesOn ==
  \A n \in Node :
    /\ GoesOn(n, sync[n].batch, born)
    /\ \A e \in sync[n].batch : e.clock <= clocks[Peer(n)][e.id]

FeedInv ==
  /\ CountingInv /\ LogMatches
  /\ NothingExpires /\ KeysAreDrawnOnce /\ OwnClockIsExact /\ LogIsPrefix /\ BatchGoesOn

\* Entries with distinct clocks after c that leave none out up to their last are
\* numbered c+1, c+2, ... up to their number.
LEMMA DenseCount ==
  ASSUME NEW S, IsFiniteSet(S), NEW c \in Nat,
         \A e \in S : e.clock \in Nat /\ c < e.clock,
         \A e, f \in S : e.clock = f.clock => e = f,
         \A e \in S : \A i \in c+1 .. e.clock : \E f \in S : f.clock = i
  PROVE  \A i \in c+1 .. c + Cardinality(S) : \E e \in S : e.clock = i
<1>1. Cardinality(S) \in Nat
  BY FS_CardinalityType
<1> SUFFICES ASSUME NEW i \in c+1 .. c + Cardinality(S),
                    ~ \E e \in S : e.clock = i
             PROVE  FALSE
  OBVIOUS
<1>2. i \in Nat /\ i-1 \in Nat /\ c <= i-1 /\ i-1 - c < Cardinality(S)
  BY <1>1
<1>3. \A e \in S : e.clock <= i-1
  <2> SUFFICES ASSUME NEW e \in S, ~(e.clock <= i-1)
               PROVE  FALSE
    OBVIOUS
  <2>1. e.clock \in Nat /\ i <= e.clock
    BY <1>2
  <2>2. i \in c+1 .. e.clock
    BY <1>2, <2>1
  <2> QED
    BY <2>2
<1>4. Cardinality(S) <= i-1 - c
  BY <1>2, <1>3, CountBetween
<1> QED
  BY <1>1, <1>2, <1>4

\* Among such entries the rank says how far after the clock an entry is.
LEMMA DenseRank ==
  ASSUME TypeOK, NEW n \in Node, NEW S \in SUBSET ResponseEntry, IsFiniteSet(S),
         NEW log, Numbered(n, S, log), GoesOn(n, S, log), NEW e \in S
  PROVE  clocks[n][e.id] + Rank(e, S) = e.clock
<1> DEFINE R == {f \in S : f.id = e.id /\ f.clock <= e.clock}
           c == clocks[n][e.id]
           place == [f \in R |-> f.clock]
<1>1. \A f \in S : f.id \in Node /\ f.clock \in Nat
  BY DEF ResponseEntry
<1>2. c \in Nat
  BY <1>1 DEF TypeOK
<1>3. place \in Surjection(R, c+1 .. e.clock)
  <2>1. \A f \in R : f.clock \in c+1 .. e.clock
    BY <1>1, <1>2 DEF Numbered
  <2>2. \A i \in c+1 .. e.clock : \E f \in R : place[f] = i
    <3> TAKE i \in c+1 .. e.clock
    <3>1. PICK f \in S : f.id = e.id /\ f.clock = i
      BY DEF GoesOn
    <3>2. f \in R
      BY <1>1, <1>2, <3>1
    <3> QED
      BY <3>1, <3>2
  <2> HIDE DEF R
  <2> QED
    BY <2>1, <2>2 DEF Surjection
<1>4. IsFiniteSet(R)
  BY FS_Subset
<1>5. Cardinality(c+1 .. e.clock) <= Cardinality(R)
  BY <1>3, <1>4, FS_Surjection
<1>6. Cardinality(c+1 .. e.clock) = e.clock - c
  <2>1. c+1 \in Int /\ e.clock \in Int /\ c < e.clock
    BY <1>1, <1>2 DEF Numbered
  <2>2. Cardinality(c+1 .. e.clock) = IF c+1 > e.clock THEN 0 ELSE e.clock - (c+1) + 1
    BY <2>1, FS_Interval
  <2> QED
    BY <1>1, <1>2, <2>1, <2>2
<1>7. Rank(e, S) = Cardinality(R)
  BY DEF Rank
<1>8. Rank(e, S) \in Nat /\ c + Rank(e, S) <= e.clock
  BY RankBound
<1> QED
  BY <1>1, <1>2, <1>5, <1>6, <1>7, <1>8

\* A transaction of entries that go on where the clocks end keeps the log a prefix
\* of every origin's.
LEMMA InsertGoesOn ==
  ASSUME TypeOK, LogNumbered, ClockBound, LogIsPrefix,
         NEW n \in Node, NEW S \in SUBSET ResponseEntry, IsFiniteSet(S),
         InsertRecords(n, S), Numbered(n, S, born'), GoesOn(n, S, born'),
         \A m \in Node : \A j \in DOMAIN born[m] :
           j \in DOMAIN born'[m] /\ born'[m][j] = born[m][j]
  PROVE  LogIsPrefix'
<1> DEFINE of(m) == {e \in S : e.id = m}
           new == {Logged(n, e, S) : e \in S}
<1>1. \A i \in Node : i # n => rlog'[i] = rlog[i] /\ clocks'[i] = clocks[i]
  BY DEF InsertRecords, TypeOK
<1>2. rlog'[n] = rlog[n] \cup new
  BY DEF InsertRecords, TypeOK
<1>3. \A m \in Node : clocks'[n][m] = clocks[n][m] + Cardinality(of(m))
  BY DEF InsertRecords, AdvancedClocks, TypeOK
<1>4. \A e \in S : /\ Logged(n, e, S).id = e.id /\ Logged(n, e, S).key = e.key
                   /\ Logged(n, e, S).clock = e.clock
  BY DenseRank DEF Logged
<1>5. ASSUME NEW i \in Node, NEW l \in rlog'[i]
      PROVE  l.clock \in DOMAIN born'[l.id] /\ born'[l.id][l.clock] = l.key
  <2>1. CASE l \in rlog[i]
    <3>1. l.id \in Node
      BY <2>1 DEF TypeOK, LogEntry
    <3> QED
      BY <2>1, <3>1 DEF LogIsPrefix
  <2>2. CASE i = n /\ l \in new
    <3>1. PICK e \in S : l = Logged(n, e, S)
      BY <2>2
    <3> QED
      BY <1>4, <3>1 DEF GoesOn
  <2> HIDE DEF new
  <2> QED
    BY <1>1, <1>2, <1>5, <2>1, <2>2
<1>6. ASSUME NEW m \in Node, NEW i \in 1 .. clocks'[n][m]
      PROVE  \E l \in rlog'[n] : l.id = m /\ l.clock = i
  <2>1. clocks[n][m] \in Nat /\ Cardinality(of(m)) \in Nat /\ IsFiniteSet(of(m))
    BY FS_Subset, FS_CardinalityType DEF TypeOK
  <2>2. CASE i \in 1 .. clocks[n][m]
    BY <1>2, <2>2 DEF LogIsPrefix
  <2>3. CASE i \in clocks[n][m] + 1 .. clocks[n][m] + Cardinality(of(m))
    <3>1. \A e \in of(m) : /\ e.clock \in Nat /\ clocks[n][m] < e.clock
                           /\ \A j \in clocks[n][m] + 1 .. e.clock :
                                \E f \in of(m) : f.clock = j
      BY DEF Numbered, GoesOn, ResponseEntry
    <3>2. \A e, f \in of(m) : e.clock = f.clock => e = f
      BY DEF Numbered
    <3>3. \E e \in of(m) : e.clock = i
      <4> HIDE DEF of
      <4> QED
        BY <2>1, <2>3, <3>1, <3>2, DenseCount
    <3>4. PICK e \in S : e.id = m /\ e.clock = i
      BY <3>3
    <3>5. Logged(n, e, S) \in rlog'[n]
      BY <1>2
    <3> QED
      BY <1>4, <3>4, <3>5
  <2> HIDE DEF of
  <2>4. i \in 1 .. clocks[n][m] \/ i \in clocks[n][m] + 1 .. clocks[n][m] + Cardinality(of(m))
    BY <1>3, <2>1
  <2> QED
    BY <2>2, <2>3, <2>4
<1>7. ASSUME NEW i \in Node, i # n, NEW m \in Node, NEW j \in 1 .. clocks'[i][m]
      PROVE  \E l \in rlog'[i] : l.id = m /\ l.clock = j
  BY <1>1, <1>7 DEF LogIsPrefix
<1> HIDE DEF of, new
<1> QED
  BY <1>5, <1>6, <1>7 DEF LogIsPrefix

\* A peer whose log is a prefix answers with a part of it that leaves nothing out.
LEMMA FoundGoesOn ==
  ASSUME TypeOK, NothingExpires, LogNumbered, LogIsPrefix,
         NEW p \in Node, NEW id \in Node, NEW c \in Nat,
         NEW e \in FindResponseEntries(p, id, c), NEW i \in c+1 .. e.clock
  PROVE  /\ e.clock \in 1 .. clocks[p][id]
         /\ \E f \in FindResponseEntries(p, id, c) : f.id = id /\ f.clock = i
<1> DEFINE later == {l \in VisibleLog(p) : l.id = id /\ l.clock > c}
           first == {l \in later : Rank(l, later) <= ReplicationLimit}
           resp(l) == [id |-> l.id, clock |-> l.clock, key |-> l.key,
                       record |-> records[p][l.key]]
<1>1. FindResponseEntries(p, id, c) = {resp(l) : l \in first}
  BY DEF FindResponseEntries
<1>2. PICK l \in first : e = resp(l)
  BY <1>1
<1>3. later \subseteq rlog[p] /\ rlog[p] \subseteq LogEntry /\ IsFiniteSet(later)
  BY FS_Subset DEF VisibleLog, TypeOK
<1>4. l.id = id /\ l.clock = e.clock /\ l.clock \in Nat /\ l.clock \in 1 .. clocks[p][id]
  BY <1>2, <1>3 DEF LogNumbered, LogEntry
<1>5. clocks[p][id] \in Nat
  BY DEF TypeOK
<1>6. PICK k \in rlog[p] : k.id = id /\ k.clock = i
  BY <1>4, <1>5 DEF LogIsPrefix
<1>7. k \in later
  BY <1>4, <1>6 DEF VisibleLog, Live, NothingExpires
<1>8. Rank(k, later) <= Rank(l, later)
  <2> DEFINE Rk == {f \in later : f.id = k.id /\ f.clock <= k.clock}
             Rl == {f \in later : f.id = l.id /\ f.clock <= l.clock}
  <2>1. Rk \subseteq Rl
    BY <1>3, <1>4, <1>6 DEF LogEntry
  <2>2. IsFiniteSet(Rl)
    BY <1>3, FS_Subset
  <2>3. Cardinality(Rk) <= Cardinality(Rl)
    BY <2>1, <2>2, FS_Subset
  <2> QED
    BY <2>3 DEF Rank
<1>9. Rank(k, later) \in Nat /\ Rank(l, later) \in Nat /\ ReplicationLimit \in Nat
  <2>1. l \in later /\ k.clock \in Nat
    BY <1>4, <1>6
  <2> HIDE DEF later, first
  <2> QED
    BY <1>3, <1>4, <1>7, <2>1, RankType, ConstantsAssumption
<1>10. k \in first
  <2> HIDE DEF later
  <2> QED
    BY <1>2, <1>7, <1>8, <1>9
<1>11. resp(k) \in FindResponseEntries(p, id, c)
  BY <1>1, <1>10
<1> QED
  BY <1>4, <1>6, <1>11

\* What a node holds is what its clocks count, of every origin.
LEMMA HoldsPrefixes ==
  ASSUME FeedInv, NEW n \in Node
  PROVE  Held(n) = F!Prefixes(clocks[n])
<1> USE DEF FeedInv, CountingInv
<1>1. ASSUME NEW k \in Key, Visible(n, k)
      PROVE  \E o \in Node : \E i \in 1 .. clocks[n][o] : born[o][i] = k
  <2>1. PICK e \in rlog[n] : e.key = k
    BY <1>1 DEF LogMatches
  <2>2. e.id \in Node /\ e.clock \in 1 .. clocks[n][e.id] /\ born[e.id][e.clock] = k
    BY <2>1 DEF LogNumbered, LogIsPrefix, TypeOK, LogEntry
  <2> QED
    BY <2>2
<1>2. ASSUME NEW o \in Node, NEW i \in 1 .. clocks[n][o]
      PROVE  born[o][i] \in Key /\ Visible(n, born[o][i])
  <2>1. PICK e \in rlog[n] : e.id = o /\ e.clock = i
    BY DEF LogIsPrefix
  <2>2. born[o][i] = e.key /\ e.key \in Key
    BY <2>1 DEF LogIsPrefix, TypeOK, LogEntry
  <2>3. Live(e)
    BY <2>1 DEF NothingExpires, Live
  <2>4. records[n][e.key] # None /\ records[n][e.key].expires = e.expires
    BY <2>1, <2>3 DEF LogMatches
  <2> QED
    BY <2>2, <2>3, <2>4 DEF Visible, Live
<1> QED
  BY <1>1, <1>2 DEF Held, F!Prefixes

\* A cycle that has a response is at one of its peers.
LEMMA BatchPeer ==
  ASSUME TypeOK, SyncAlive, NEW n \in Node, NEW e \in sync[n].batch
  PROVE  /\ e \in ResponseEntry /\ e.id \in Node /\ e.clock \in Nat /\ e.key \in Key
         /\ Peer(n) \in Node
<1>1. sync[n] \in SyncState /\ Join[n] \in Seq(Node)
  BY ConstantsAssumption DEF TypeOK
<1>2. sync[n].at \in 1 .. Len(Join[n])
  BY DEF SyncAlive
<1>3. e \in ResponseEntry
  BY <1>1 DEF SyncState
<1> QED
  BY <1>1, <1>2, <1>3, ElementOfSeq DEF Peer, ResponseEntry

\* The responses that are under way go on as they did after a step that extends
\* logs and clocks, but no clock that one of them goes on from.
LEMMA BatchesStay ==
  ASSUME TypeOK, SyncAlive, BatchGoesOn,
         \A i \in Node :
           \/ sync'[i].batch = {}
           \/ /\ sync'[i] = sync[i]
              /\ \A e \in sync[i].batch : clocks'[i][e.id] = clocks[i][e.id],
         \A i, m \in Node : clocks[i][m] \in Nat /\ clocks'[i][m] \in Nat
                            /\ clocks[i][m] <= clocks'[i][m],
         \A m \in Node : \A j \in DOMAIN born[m] :
           j \in DOMAIN born'[m] /\ born'[m][j] = born[m][j]
  PROVE  BatchGoesOn'
<1> SUFFICES ASSUME NEW i \in Node, NEW e \in sync'[i].batch
             PROVE  /\ e.clock \in DOMAIN born'[e.id] /\ born'[e.id][e.clock] = e.key
                    /\ \A j \in clocks'[i][e.id] + 1 .. e.clock :
                         \E f \in sync'[i].batch : f.id = e.id /\ f.clock = j
                    /\ e.clock <= clocks'[Peer(i)'][e.id]
  BY DEF BatchGoesOn, GoesOn
<1>1. sync'[i] = sync[i] /\ Peer(i)' = Peer(i) /\ e \in sync[i].batch
      /\ clocks'[i][e.id] = clocks[i][e.id]
  BY DEF Peer
<1>2. e.id \in Node /\ e.clock \in Nat /\ Peer(i) \in Node
  BY <1>1, BatchPeer
<1>3. e.clock <= clocks[Peer(i)][e.id]
  BY <1>1 DEF BatchGoesOn
<1> QED
  BY <1>1, <1>2, <1>3 DEF BatchGoesOn, GoesOn

\* A transaction sets no clock back and stores nothing that expires, if its entries
\* do not.
LEMMA InsertAdvances ==
  ASSUME TypeOK, NEW n \in Node, NEW S \in SUBSET ResponseEntry, IsFiniteSet(S),
         InsertRecords(n, S)
  PROVE  \A i, m \in Node : clocks[i][m] \in Nat /\ clocks'[i][m] \in Nat
                            /\ clocks[i][m] <= clocks'[i][m]
<1> TAKE i \in Node, m \in Node
<1>1. clocks[i][m] \in Nat /\ Cardinality({e \in S : e.id = m}) \in Nat
  <2> DEFINE of == {e \in S : e.id = m}
  <2>1. clocks[i][m] \in Nat
    BY DEF TypeOK
  <2>2. of \in SUBSET S
    OBVIOUS
  <2> HIDE DEF of
  <2>3. Cardinality(of) \in Nat
    BY <2>2, FS_Subset, FS_CardinalityType
  <2> QED
    BY <2>1, <2>3 DEF of
<1>2. clocks'[i][m] = IF i = n THEN clocks[n][m] + Cardinality({e \in S : e.id = m})
                      ELSE clocks[i][m]
  BY DEF InsertRecords, AdvancedClocks, TypeOK
<1> QED
  BY <1>1, <1>2

LEMMA InsertUnexpiring ==
  ASSUME TypeOK, NothingExpires, NEW n \in Node, NEW S \in SUBSET ResponseEntry,
         InsertRecords(n, S), \A e \in S : e.record.expires = 0
  PROVE  /\ \A i \in Node, k \in Key : records'[i][k] # None => records'[i][k].expires = 0
         /\ \A i \in Node : \A e \in rlog'[i] : e.expires = 0
<1>1. ASSUME NEW i \in Node, NEW k \in Key
      PROVE  records'[i][k] = records[i][k] \/ \E e \in S : records'[i][k] = e.record
  <2>1. (\E e \in S : e.key = k) => (CHOOSE e \in S : e.key = k) \in S
    OBVIOUS
  <2> QED
    BY <2>1 DEF InsertRecords, TypeOK
<1>2. \A i \in Node : rlog'[i] = rlog[i] \/ rlog'[i] = rlog[i] \cup {Logged(n, e, S) : e \in S}
  BY DEF InsertRecords, TypeOK
<1>3. \A e \in S : Logged(n, e, S).expires = 0
  BY DEF Logged
<1> QED
  BY <1>1, <1>2, <1>3 DEF NothingExpires

\* A Put takes the next place in its node's log.
LEMMA PutGoesOn ==
  ASSUME FeedInv, NEW c \in Client, PutInsert(c), TypeOK'
  PROVE  NothingExpires' /\ KeysAreDrawnOnce' /\ OwnClockIsExact' /\ LogIsPrefix'
         /\ BatchGoesOn'
<1> USE DEF FeedInv, CountingInv
<1> DEFINE n == put[c].node
           S == {PutEntry(c)}
<1>1. put[c] \in Pending /\ put[c] # None
  BY DEF PutInsert, TypeOK
<1>2. n \in Node /\ put[c].key \in Key
  BY <1>1 DEF Pending
<1>3. born[n] \in Seq(Key) /\ Len(born[n]) \in Nat /\ clocks[n][n] = Len(born[n])
  BY <1>2 DEF TypeOK, OwnClockIsExact
<1>4. /\ PutEntry(c).id = n /\ PutEntry(c).key = put[c].key
      /\ PutEntry(c).clock = Len(born[n]) + 1 /\ PutEntry(c).record.expires = 0
  BY <1>1, <1>3 DEF PutEntry, NothingExpires
<1>5. S \in SUBSET ResponseEntry /\ IsFiniteSet(S)
  <2>1. S \in SUBSET ResponseEntry
    BY <1>1 DEF PutEntry, ResponseEntry, Pending, TypeOK
  <2>2. IsFiniteSet(S)
    BY FS_Singleton
  <2> QED
    BY <2>1, <2>2
<1>6. InsertRecords(n, S) /\ born' = [born EXCEPT ![n] = Append(@, put[c].key)]
  BY DEF PutInsert
<1>7. born'[n] = Append(born[n], put[c].key) /\ \A m \in Node \ {n} : born'[m] = born[m]
  BY <1>2, <1>6 DEF TypeOK
<1>8. /\ Len(born'[n]) = Len(born[n]) + 1
      /\ DOMAIN born'[n] = 1 .. Len(born[n]) + 1 /\ DOMAIN born[n] = 1 .. Len(born[n])
      /\ born'[n][Len(born[n]) + 1] = put[c].key
      /\ \A j \in 1 .. Len(born[n]) : born'[n][j] = born[n][j]
  BY <1>2, <1>3, <1>7, AppendProperties
<1>9. \A m \in Node : \A j \in DOMAIN born[m] :
        j \in DOMAIN born'[m] /\ born'[m][j] = born[m][j]
  <2>1. ASSUME NEW m \in Node, m # n
        PROVE  \A j \in DOMAIN born[m] : j \in DOMAIN born'[m] /\ born'[m][j] = born[m][j]
    BY <1>7, <2>1
  <2>2. DOMAIN born[n] \subseteq DOMAIN born'[n]
    BY <1>3, <1>8
  <2>3. \A j \in DOMAIN born[n] : j \in DOMAIN born'[n] /\ born'[n][j] = born[n][j]
    BY <1>8, <2>2
  <2> QED
    BY <2>1, <2>3
<1>10. Numbered(n, S, born') /\ GoesOn(n, S, born')
  <2> DEFINE e == PutEntry(c)
             j == Len(born[n]) + 1
  <2>1. /\ clocks[n][e.id] < e.clock /\ clocks[n][e.id] + 1 = e.clock /\ e.clock \in Nat
        /\ j \in DOMAIN born'[e.id] /\ e.clock = j /\ born'[e.id][j] = e.key
    BY <1>3, <1>4, <1>8
  <2>2. \A i \in clocks[n][e.id] + 1 .. e.clock : i = e.clock
    BY <2>1
  <2> HIDE DEF n, e, j
  <2>3. \A f \in S : f = e
    BY DEF e
  <2>4. e \in S
    BY DEF e
  <2>5. e.clock <= j
    BY <2>1
  <2> HIDE DEF S
  <2>6. Numbered(n, S, born')
    BY <2>1, <2>3, <2>5 DEF Numbered
  <2>7. GoesOn(n, S, born')
    BY <2>1, <2>2, <2>3, <2>4 DEF GoesOn
  <2> QED
    BY <2>6, <2>7
<1>11. LogIsPrefix'
  <2> HIDE DEF n, S
  <2> QED
    BY <1>2, <1>5, <1>6, <1>9, <1>10, InsertGoesOn
<1>12. \A i, m \in Node : clocks[i][m] \in Nat /\ clocks'[i][m] \in Nat
                          /\ clocks[i][m] <= clocks'[i][m]
  <2> HIDE DEF n, S
  <2> QED
    BY <1>2, <1>5, <1>6, InsertAdvances
<1>13. \A i, m \in Node : i # n \/ m # n => clocks'[i][m] = clocks[i][m]
  <2>1. \A m \in Node : m # n => \A e \in S : e.id # m
    BY <1>4
  <2> HIDE DEF n, S
  <2> QED
    BY <1>2, <1>6, <2>1, OtherClocks
<1>14. clocks'[n][n] = Len(born[n]) + 1
  <2>1. {e \in S : e.id = n} = {PutEntry(c)}
    BY <1>4
  <2>2. Cardinality({e \in S : e.id = n}) = 1
    BY <2>1, FS_Singleton
  <2>3. clocks'[n][n] = clocks[n][n] + Cardinality({e \in S : e.id = n})
    <3> HIDE DEF n, S
    <3> QED
      BY <1>2, <1>6 DEF InsertRecords, AdvancedClocks, TypeOK
  <2> QED
    BY <1>3, <2>2, <2>3
<1>15. OwnClockIsExact'
  <2> HIDE DEF n
  <2> QED
    BY <1>7, <1>8, <1>13, <1>14 DEF OwnClockIsExact
<1>16. sync' = sync /\ issued' = issued /\ put' = [put EXCEPT ![c] = None]
  BY DEF PutInsert
<1>17. BatchGoesOn'
  <2>1. \A i \in Node : \A e \in sync[i].batch : clocks'[i][e.id] = clocks[i][e.id]
    <3> TAKE i \in Node
    <3> TAKE e \in sync[i].batch
    <3>1. e.id # i /\ e.id \in Node
      BY BatchPeer DEF RequestCurrent
    <3> QED
      BY <1>13, <3>1
  <2> QED
    BY <1>9, <1>12, <1>16, <2>1, BatchesStay
<1>18. \A d \in Client : put'[d] # None => d # c /\ put'[d] = put[d]
  BY <1>16 DEF TypeOK
<1>19. NothingExpires'
  <2>1. /\ \A i \in Node, k \in Key : records'[i][k] # None => records'[i][k].expires = 0
        /\ \A i \in Node : \A e \in rlog'[i] : e.expires = 0
    <3>1. \A e \in S : e.record.expires = 0
      BY <1>4
    <3> HIDE DEF n, S
    <3> QED
      BY <1>2, <1>5, <1>6, <3>1, InsertUnexpiring
  <2> QED
    BY <1>16, <1>18, <2>1 DEF NothingExpires
<1>20. KeysAreDrawnOnce'
  <2>1. \A m \in Node : \A j \in DOMAIN born'[m] :
          born'[m][j] = put[c].key \/ (j \in DOMAIN born[m] /\ born'[m][j] = born[m][j])
    <3> TAKE m \in Node
    <3> TAKE j \in DOMAIN born'[m]
    <3>1. CASE m # n
      BY <1>7, <3>1
    <3>2. CASE m = n
      <4> HIDE DEF n
      <4>1. j \in 1 .. Len(born[n]) \/ j = Len(born[n]) + 1
        BY <1>3, <1>8, <3>2
      <4> QED
        BY <1>8, <3>2, <4>1
    <3> QED
      BY <3>1, <3>2
  <2> HIDE DEF n
  <2> QED
    BY <1>1, <1>16, <1>18, <2>1 DEF KeysAreDrawnOnce
<1> QED
  BY <1>11, <1>15, <1>17, <1>19, <1>20

\* A response is stored as what comes next of every origin.
LEMMA SyncInsertGoesOn ==
  ASSUME FeedInv, NEW n \in Node, SyncInsert(n), TypeOK'
  PROVE  NothingExpires' /\ KeysAreDrawnOnce' /\ OwnClockIsExact' /\ LogIsPrefix'
         /\ BatchGoesOn'
<1> USE DEF FeedInv, CountingInv
<1> DEFINE S == sync[n].batch
<1>1. sync[n] \in SyncState /\ S \in SUBSET ResponseEntry /\ IsFiniteSet(S)
  BY DEF TypeOK, SyncState
<1>2. InsertRecords(n, S) /\ UNCHANGED <<born, put, issued>>
  BY DEF SyncInsert
<1>3. Numbered(n, S, born') /\ GoesOn(n, S, born')
  <2>1. \A e \in S : sync[n].request[e.id] = clocks[n][e.id]
    BY DEF RequestCurrent
  <2>2. Numbered(n, S, born')
    BY <1>2, <2>1 DEF BatchNumbered, Numbered
  <2>3. GoesOn(n, S, born')
    BY <1>2 DEF BatchGoesOn
  <2> QED
    BY <2>2, <2>3
<1>4. \A m \in Node : \A j \in DOMAIN born[m] :
        j \in DOMAIN born'[m] /\ born'[m][j] = born[m][j]
  BY <1>2
<1>5. LogIsPrefix'
  BY <1>1, <1>2, <1>3, <1>4, InsertGoesOn
<1>6. \A i, m \in Node : clocks[i][m] \in Nat /\ clocks'[i][m] \in Nat
                         /\ clocks[i][m] <= clocks'[i][m]
  BY <1>1, <1>2, InsertAdvances
<1>7. \A i, m \in Node : i # n \/ m = n => clocks'[i][m] = clocks[i][m]
  <2>1. \A e \in S : e.id # n
    BY DEF RequestCurrent
  <2> QED
    BY <1>2, <2>1, OtherClocks
<1>8. OwnClockIsExact'
  BY <1>2, <1>7 DEF OwnClockIsExact
<1>9. \A i \in Node : IF i = n THEN sync'[i].batch = {} ELSE sync'[i] = sync[i]
  <2>1. AfterPeer(n).batch = {}
    BY AfterPeerType DEF SyncInsert
  <2> QED
    BY <2>1 DEF SyncInsert, TypeOK
<1>10. BatchGoesOn'
  <2>1. \A i \in Node : i # n => \A e \in sync[i].batch : clocks'[i][e.id] = clocks[i][e.id]
    BY <1>7, BatchPeer
  <2> QED
    BY <1>4, <1>6, <1>9, <2>1, BatchesStay
<1>11. NothingExpires'
  <2>1. \A e \in S : e.record.expires = 0
    BY DEF NothingExpires
  <2>2. /\ \A i \in Node, k \in Key : records'[i][k] # None => records'[i][k].expires = 0
        /\ \A i \in Node : \A e \in rlog'[i] : e.expires = 0
    BY <1>1, <1>2, <2>1, InsertUnexpiring
  <2>3. \A i \in Node : \A e \in sync'[i].batch : e.record.expires = 0
    BY <1>9 DEF NothingExpires
  <2> QED
    BY <1>2, <2>2, <2>3 DEF NothingExpires
<1>12. KeysAreDrawnOnce'
  BY <1>2 DEF KeysAreDrawnOnce
<1> QED
  BY <1>5, <1>8, <1>10, <1>11, <1>12

\* A peer's answer for an id is what comes next of that origin.
LEMMA RespondGoesOn ==
  ASSUME FeedInv, NEW n \in Node, NEW id \in Node, SyncRespond(n, id)
  PROVE  NothingExpires' /\ KeysAreDrawnOnce' /\ OwnClockIsExact' /\ LogIsPrefix'
         /\ BatchGoesOn'
<1> USE DEF FeedInv, CountingInv
<1> DEFINE p == Peer(n)
           found == FindResponseEntries(p, id, sync[n].request[id])
<1>1. sync[n] \in SyncState /\ Join[n] \in Seq(Node)
  BY ConstantsAssumption DEF TypeOK
<1>2. id \in sync[n].todo /\ sync[n].request[id] = clocks[n][id] /\ clocks[n][id] \in Nat
  BY DEF SyncRespond, RequestCurrent, TypeOK
<1>3. p \in Node
  <2>1. sync[n].at \in 1 .. Len(Join[n])
    BY DEF SyncRespond, SyncAlive
  <2> QED
    BY <1>1, <2>1, ElementOfSeq DEF Peer
<1>4. \A e \in found : Visible(p, e.key)
  BY DEF SyncRespond
<1>5. \A e \in found :
        /\ e \in ResponseEntry /\ e.id = id /\ e.record = records[p][e.key]
        /\ \E l \in rlog[p] : l.id = id /\ l.clock = e.clock /\ l.key = e.key
  BY <1>2, <1>3, <1>4, FoundEntries
<1>6. \A e \in found : \A i \in clocks[n][id] + 1 .. e.clock :
        \E f \in found : f.id = id /\ f.clock = i
  BY <1>2, <1>3, FoundGoesOn
<1>7. \A e \in found : /\ e.clock \in DOMAIN born[id] /\ born[id][e.clock] = e.key
                       /\ e.clock <= clocks[p][id]
  <2> TAKE e \in found
  <2>1. PICK l \in rlog[p] : l.id = id /\ l.clock = e.clock /\ l.key = e.key
    BY <1>5
  <2>2. l.clock \in 1 .. clocks[p][id] /\ clocks[p][id] \in Nat
    BY <1>3, <2>1 DEF LogNumbered, TypeOK
  <2> QED
    BY <1>3, <2>1, <2>2 DEF LogIsPrefix
<1>8. sync' = [sync EXCEPT ![n] = [@ EXCEPT !.todo = sync[n].todo \ {id},
                                            !.batch = sync[n].batch \cup found]]
  BY DEF SyncRespond
<1>9. \A e \in found : e.record.expires = 0
  BY <1>3, <1>4, <1>5 DEF NothingExpires, Visible, ResponseEntry
<1> HIDE DEF p, found
<1>10. /\ sync'[n].batch = sync[n].batch \cup found /\ sync'[n].at = sync[n].at
       /\ \A i \in Node \ {n} : sync'[i] = sync[i]
  BY <1>1, <1>8 DEF SyncState, TypeOK
<1>11. UNCHANGED <<clocks, born, records, rlog, put, issued>>
  BY DEF SyncRespond, durable
<1>12. BatchGoesOn'
  <2>1. \A i \in Node : Peer(i)' = Peer(i)
    BY <1>10 DEF Peer
  <2> SUFFICES ASSUME NEW i \in Node, NEW e \in sync'[i].batch
               PROVE  /\ e.clock \in DOMAIN born[e.id] /\ born[e.id][e.clock] = e.key
                      /\ \A j \in clocks[i][e.id] + 1 .. e.clock :
                           \E f \in sync'[i].batch : f.id = e.id /\ f.clock = j
                      /\ e.clock <= clocks[Peer(i)][e.id]
    BY <1>11, <2>1 DEF BatchGoesOn, GoesOn
  <2>2. CASE e \in sync[i].batch
    BY <1>10, <2>2 DEF BatchGoesOn, GoesOn
  <2>3. CASE i = n /\ e \in found
    BY <1>5, <1>6, <1>7, <1>10, <2>3 DEF p
  <2> QED
    BY <1>10, <2>2, <2>3
<1>13. NothingExpires'
  BY <1>9, <1>10, <1>11 DEF NothingExpires
<1>14. OwnClockIsExact' /\ LogIsPrefix'
  BY <1>11 DEF OwnClockIsExact, LogIsPrefix
<1>15. KeysAreDrawnOnce'
  BY <1>11 DEF KeysAreDrawnOnce
<1> QED
  BY <1>12, <1>13, <1>14, <1>15

\* Steps that store nothing keep what a step to store relies on.
LEMMA IdleGoesOn ==
  ASSUME FeedInv, UNCHANGED <<clocks, born, records, rlog, issued>>,
         \A i \in Node : sync'[i].batch = {} \/ sync'[i] = sync[i],
         \A c \in Client : put'[c] = None \/ put'[c] = put[c]
  PROVE  NothingExpires' /\ KeysAreDrawnOnce' /\ OwnClockIsExact' /\ LogIsPrefix'
         /\ BatchGoesOn'
<1> USE DEF FeedInv, CountingInv
<1>1. NothingExpires'
  BY DEF NothingExpires
<1>2. KeysAreDrawnOnce'
  BY DEF KeysAreDrawnOnce
<1>3. OwnClockIsExact' /\ LogIsPrefix'
  BY DEF OwnClockIsExact, LogIsPrefix
<1>4. \A i, m \in Node : clocks[i][m] \in Nat /\ clocks'[i][m] \in Nat
                         /\ clocks[i][m] <= clocks'[i][m]
  BY DEF TypeOK
<1>5. BatchGoesOn'
  BY <1>4, BatchesStay
<1> QED
  BY <1>1, <1>2, <1>3, <1>5

\* Every step keeps the invariant.
LEMMA FeedStep ==
  ASSUME NothingIsLost, FeedInv, [Next]_vars
  PROVE  FeedInv'
<1> USE DEF FeedInv
<1> DEFINE Inv == NothingExpires /\ KeysAreDrawnOnce /\ OwnClockIsExact /\ LogIsPrefix
                  /\ BatchGoesOn
<1>a. CountingInv' /\ TypeOK' /\ LogMatches'
  BY CountingStep, LogMatchesStep DEF CountingInv
<1>b. TypeOK /\ SyncAlive
  BY DEF CountingInv
<1>1. ASSUME Tick
      PROVE  Inv'
  BY <1>1, IdleGoesOn DEF Tick, durable
<1>2. ASSUME NEW c \in Client, NEW n \in Node, NEW k \in Key, PutCheck(c, n, k)
      PROVE  Inv'
  <2>1. UNCHANGED <<clocks, born, records, rlog, sync>>
    BY <1>2 DEF PutCheck, durable
  <2>2. \A d \in Client : put'[d] = IF d = c THEN [node |-> n, key |-> k,
                                                   record |-> NewRecord(k)]
                                    ELSE put[d]
    BY <1>2, <1>b DEF PutCheck, TypeOK
  <2>3. k \notin issued /\ issued' = issued \cup {k}
    BY <1>2 DEF PutCheck, NothingIsLost
  <2>4. NewRecord(k).expires = 0
    BY DEF NewRecord, NothingIsLost
  <2>5. NothingExpires'
    BY <2>1, <2>2, <2>4 DEF NothingExpires
  <2>6. KeysAreDrawnOnce'
    BY <2>1, <2>2, <2>3 DEF KeysAreDrawnOnce
  <2>7. OwnClockIsExact' /\ LogIsPrefix'
    BY <2>1 DEF OwnClockIsExact, LogIsPrefix
  <2>8. BatchGoesOn'
    BY <2>1 DEF BatchGoesOn, GoesOn, Peer
  <2> QED
    BY <2>5, <2>6, <2>7, <2>8
<1>3. ASSUME NEW c \in Client, PutInsert(c)
      PROVE  Inv'
  BY <1>a, <1>3, PutGoesOn
<1>4. ASSUME NEW c \in Client, PutFails(c)
      PROVE  Inv'
  BY <1>4, <1>b, IdleGoesOn DEF PutFails, durable, TypeOK
<1>5. ASSUME NEW n \in Node, SyncStart(n)
      PROVE  Inv'
  <2>1. sync[n] \in SyncState /\ sync[n].batch = {}
    BY <1>5, <1>b DEF SyncStart, SyncAlive, TypeOK
  <2>2. \A i \in Node : sync'[i].batch = {} \/ sync'[i] = sync[i]
    BY <1>5, <1>b, <2>1 DEF SyncStart, SyncState, TypeOK
  <2> QED
    BY <1>5, <2>2, IdleGoesOn DEF SyncStart, durable
<1>6. ASSUME NEW n \in Node, SyncConnect(n)
      PROVE  Inv'
  <2>1. sync[n] \in SyncState /\ sync[n].batch = {}
    BY <1>6, <1>b DEF SyncConnect, SyncAlive, TypeOK
  <2>2. \A i \in Node : sync'[i].batch = {} \/ sync'[i] = sync[i]
    BY <1>6, <1>b, <2>1 DEF SyncConnect, SyncState, TypeOK
  <2> QED
    BY <1>6, <2>2, IdleGoesOn DEF SyncConnect
<1>7. ASSUME NEW n \in Node, NEW id \in Node, SyncRespond(n, id)
      PROVE  Inv'
  BY <1>7, RespondGoesOn
<1>8. ASSUME NEW n \in Node, SyncInsert(n)
      PROVE  Inv'
  BY <1>a, <1>8, SyncInsertGoesOn
<1>9. ASSUME NEW n \in Node, SyncPeerFails(n)
      PROVE  Inv'
  <2>1. \A i \in Node : sync'[i].batch = {} \/ sync'[i] = sync[i]
    BY <1>9, <1>b, AfterPeerType DEF SyncPeerFails, TypeOK
  <2> QED
    BY <1>9, <2>1, IdleGoesOn DEF SyncPeerFails, durable
<1>10. ASSUME NEW n \in Node, NEW k \in Key, AdminCall(n, k)
       PROVE  FALSE
  BY <1>10, <1>b DEF AdminCall, NothingIsLost, TypeOK
<1>11. ASSUME NEW n \in Node, Halt(n)
       PROVE  Inv'
  <2>1. \A i \in Node : sync'[i].batch = {} \/ sync'[i] = sync[i]
    BY <1>11 DEF Halt, NoSync
  <2>2. \A c \in Client : put'[c] = None \/ put'[c] = put[c]
    BY <1>11 DEF Halt
  <2> QED
    BY <1>11, <2>1, <2>2, IdleGoesOn DEF Halt, durable
<1>12. ASSUME NEW n \in Node, Restart(n)
       PROVE  Inv'
  BY <1>12, IdleGoesOn DEF Restart
<1>13. ASSUME NEW n \in Node,
              StorageEmptied(n) \/ \E m \in Node \ {n} : StorageSwapped(n, m)
       PROVE  FALSE
  BY <1>13, <1>b DEF StorageEmptied, StorageSwapped, NothingIsLost, TypeOK
<1>14. ASSUME UNCHANGED vars
       PROVE  Inv'
  BY <1>14, IdleGoesOn DEF vars, durable
<1>15. Inv'
  BY <1>1, <1>2, <1>3, <1>4, <1>5, <1>6, <1>7, <1>8, <1>9, <1>10, <1>11, <1>12,
     <1>13, <1>14
     DEF Next, PutStep, SyncStep, AdminStep, StorageStep, Crash, SyncSelf,
         InvalidateRecord, UnpublishRecord, DeleteRecord
<1> QED
  BY <1>a, <1>15

\* The cluster starts with nothing to lose.
LEMMA InitFeed ==
  ASSUME Init
  PROVE  FeedInv
<1>1. CountingInv
  BY InitCounting
<1>2. LogMatches
  BY DEF Init, LogMatches, Visible, NoRecords
<1>3. /\ \A n \in Node : /\ rlog[n] = {} /\ sync[n].batch = {} /\ born[n] = << >>
                         /\ \A m \in Node : clocks[n][m] = 0
      /\ \A n \in Node, k \in Key : records[n][k] = None
      /\ \A c \in Client : put[c] = None
  BY DEF Init, NoSync, NoClocks, NoRecords
<1>4. NothingExpires /\ KeysAreDrawnOnce /\ OwnClockIsExact /\ LogIsPrefix /\ BatchGoesOn
  BY <1>3 DEF NothingExpires, KeysAreDrawnOnce, OwnClockIsExact, LogIsPrefix, BatchGoesOn,
              GoesOn
<1> QED
  BY <1>1, <1>2, <1>4 DEF FeedInv

HoldsWhatIsCounted == \A n \in Node : Held(n) = F!Prefixes(clocks[n])

LEMMA NextHoldsPrefixes == FeedInv' => HoldsWhatIsCounted'
<1>1. FeedInv => HoldsWhatIsCounted
  BY HoldsPrefixes DEF HoldsWhatIsCounted
<1> QED
  BY <1>1, PTL

\* A step that leaves feeds and clocks alone changes nothing of what Feeds is about.
LEMMA StillHolds ==
  ASSUME FeedInv, FeedInv', UNCHANGED <<clocks, born>>
  PROVE  UNCHANGED F!feedVars
<1>1. \A n \in Node : Held(n)' = Held(n)
  <2> TAKE n \in Node
  <2>1. Held(n) = F!Prefixes(clocks[n])
    BY HoldsPrefixes
  <2>2. Held(n)' = F!Prefixes(clocks[n])'
    BY NextHoldsPrefixes DEF HoldsWhatIsCounted
  <2> QED
    BY <2>1, <2>2 DEF F!Prefixes
<1> QED
  BY <1>1 DEF F!feedVars

\* A Put's transaction takes the key into the feed of its node.
LEMMA PutTakes ==
  ASSUME FeedInv, FeedInv', NEW c \in Client, PutInsert(c)
  PROVE  \E o \in Node, k \in Key : F!Take(o, k)
<1> USE DEF FeedInv, CountingInv
<1>0. put[c].node \in Node /\ put[c].key \in Key /\ put[c] # None
  BY DEF PutInsert, TypeOK, Pending
<1>a. PICK o \in Node, k \in Key : o = put[c].node /\ k = put[c].key
  BY <1>0
<1>1. o \in Node /\ k \in Key
  OBVIOUS
<1>2. \A n \in Node : \A i \in DOMAIN born[n] : born[n][i] # k
  BY <1>0, <1>a DEF KeysAreDrawnOnce
<1>3. InsertRecords(o, {PutEntry(c)}) /\ born' = [born EXCEPT ![o] = Append(@, k)]
  BY <1>a DEF PutInsert
<1>4. PutEntry(c).id = o
  BY <1>a DEF PutEntry
<1> DEFINE e == PutEntry(c)
<1>5. \A i, m \in Node : i # o \/ m # o => clocks'[i][m] = clocks[i][m]
  <2>1. \A m \in Node : m # o => \A f \in {e} : f.id # m
    BY <1>4
  <2> HIDE DEF e
  <2> QED
    BY <1>1, <1>3, <2>1, OtherClocks DEF e
<1> HIDE DEF e
<1>6. clocks'[o][o] = Len(born'[o])
  BY <1>1 DEF OwnClockIsExact
<1>7. clocks' = [clocks EXCEPT ![o][o] = Len(born'[o])]
  BY <1>1, <1>5, <1>6 DEF TypeOK
<1>8. born'[o] = Append(born[o], k) /\ \A m \in Node \ {o} : born'[m] = born[m]
  BY <1>1, <1>3 DEF TypeOK
<1>9. /\ born[o] \in Seq(Key) /\ Len(born[o]) \in Nat /\ Len(born'[o]) = Len(born[o]) + 1
      /\ born'[o][Len(born[o]) + 1] = k
      /\ \A j \in 1 .. Len(born[o]) : born'[o][j] = born[o][j]
  <2>1. born[o] \in Seq(Key)
    BY <1>1 DEF TypeOK
  <2> QED
    BY <1>1, <1>8, <2>1, AppendProperties
<1>10. clocks[o][o] = Len(born[o])
  BY <1>1 DEF OwnClockIsExact
<1>11. \A n \in Node : Held(n) = F!Prefixes(clocks[n])
                       /\ Held(n)' = F!Prefixes(clocks[n])'
  BY HoldsPrefixes, NextHoldsPrefixes DEF HoldsWhatIsCounted
<1>12. \A n, m \in Node : \A i \in 1 .. clocks[n][m] : born'[m][i] = born[m][i]
  <2>1. \A n \in Node : clocks[n][o] \in Nat /\ clocks[n][o] <= Len(born[o])
    BY <1>1 DEF ClockBound, TypeOK
  <2>2. \A n \in Node : \A i \in 1 .. clocks[n][o] : born'[o][i] = born[o][i]
    BY <1>9, <2>1
  <2> QED
    BY <1>8, <2>2
<1>13. \A n \in Node \ {o} : Held(n)' = Held(n)
  <2> TAKE n \in Node \ {o}
  <2>1. \A m \in Node : clocks'[n][m] = clocks[n][m]
    BY <1>5
  <2>2. F!Prefixes(clocks[n])' = F!Prefixes(clocks[n])
    BY <1>12, <2>1 DEF F!Prefixes
  <2> QED
    BY <1>11, <2>2
<1>14. Held(o)' = Held(o) \cup {k}
  <2> DEFINE part(m) == {born[m][i] : i \in 1 .. clocks[o][m]}
             next(m) == {born'[m][i] : i \in 1 .. clocks'[o][m]}
  <2>1. \A m \in Node \ {o} : next(m) = part(m)
    BY <1>1, <1>5, <1>8
  <2>2. next(o) = part(o) \cup {k}
    BY <1>6, <1>9, <1>10
  <2>3. Held(o) = UNION {part(m) : m \in Node}
    BY <1>1, <1>11 DEF F!Prefixes
  <2>4. Held(o)' = UNION {next(m) : m \in Node}
    BY <1>1, <1>11 DEF F!Prefixes
  <2> HIDE DEF part, next
  <2> QED
    BY <1>1, <2>1, <2>2, <2>3, <2>4
<1>15. [n \in Node |-> Held(n)]' = [[n \in Node |-> Held(n)] EXCEPT ![o] = @ \cup {k}]
  BY <1>1, <1>13, <1>14
<1> QED
  BY <1>1, <1>2, <1>3, <1>7, <1>15 DEF F!Take

\* A response takes its node further, and no further than its sender is.
LEMMA InsertFollows ==
  ASSUME FeedInv, FeedInv', NEW n \in Node, SyncInsert(n)
  PROVE  \E m \in Node : F!Follow(n, m)
<1> USE DEF FeedInv, CountingInv
<1> DEFINE S == sync[n].batch
           p == Peer(n)
           of(o) == {e \in S : e.id = o}
<1>1. sync[n] \in SyncState /\ S \in SUBSET ResponseEntry /\ IsFiniteSet(S)
  BY DEF TypeOK, SyncState
<1>2. InsertRecords(n, S) /\ UNCHANGED born
  BY DEF SyncInsert
<1>3. p \in Node
  <2>1. sync[n].at \in 1 .. Len(Join[n]) /\ Join[n] \in Seq(Node)
    BY ConstantsAssumption DEF SyncInsert, SyncAlive
  <2> QED
    BY <2>1, ElementOfSeq DEF Peer
<1>4. \A i, m \in Node : i # n \/ m = n => clocks'[i][m] = clocks[i][m]
  <2>1. \A e \in S : e.id # n
    BY DEF RequestCurrent
  <2> QED
    BY <1>2, <2>1, OtherClocks
<1>5. ASSUME NEW o \in Node
      PROVE  \/ clocks'[n][o] = clocks[n][o]
             \/ clocks'[n][o] \in clocks[n][o] + 1 .. clocks[p][o]
  <2>1. clocks'[n][o] = clocks[n][o] + Cardinality(of(o))
    BY <1>2 DEF InsertRecords, AdvancedClocks, TypeOK
  <2>2. clocks[n][o] \in Nat /\ clocks[p][o] \in Nat
    BY <1>3 DEF TypeOK
  <2>3. IsFiniteSet(of(o)) /\ Cardinality(of(o)) \in Nat
    BY <1>1, FS_Subset, FS_CardinalityType
  <2>4. CASE of(o) = {}
    <3>1. Cardinality(of(o)) = 0
      BY <2>4, FS_EmptySet
    <3> HIDE DEF of
    <3> QED
      BY <2>1, <2>2, <3>1
  <2>5. CASE of(o) # {}
    <3>1. \A e \in of(o) : e.clock \in Nat /\ clocks[n][o] < e.clock
                           /\ e.clock <= clocks[p][o]
      <4> TAKE e \in of(o)
      <4>1. e \in ResponseEntry /\ e.id = o
        BY <1>1
      <4>2. sync[n].request[e.id] < e.clock /\ sync[n].request[e.id] = clocks[n][e.id]
        BY DEF BatchNumbered, RequestCurrent
      <4>3. e.clock <= clocks[p][o]
        BY <4>1 DEF BatchGoesOn
      <4> QED
        BY <4>1, <4>2, <4>3 DEF ResponseEntry
    <3>2. \A e, f \in of(o) : e.clock = f.clock => e = f
      BY DEF BatchNumbered
    <3>3. clocks[n][o] < clocks[p][o]
      BY <2>2, <2>5, <3>1
    <3>4. Cardinality(of(o)) # 0
      BY <2>3, <2>5, FS_EmptySet
    <3> HIDE DEF of, S, p
    <3>5. Cardinality(of(o)) <= clocks[p][o] - clocks[n][o]
      BY <2>2, <2>3, <3>1, <3>2, <3>3, CountBetween
    <3> QED
      BY <2>1, <2>2, <2>3, <3>3, <3>4, <3>5
  <2> QED
    BY <2>4, <2>5
<1> HIDE DEF S, p, of
<1>6. clocks' = [clocks EXCEPT ![n] = [o \in Node |-> clocks'[n][o]]]
  BY <1>4 DEF TypeOK
<1>7. \A i \in Node : Held(i) = F!Prefixes(clocks[i])
                      /\ Held(i)' = F!Prefixes(clocks[i])'
  BY HoldsPrefixes, NextHoldsPrefixes DEF HoldsWhatIsCounted
<1>8. \A i \in Node : F!Prefixes(clocks[i])' = F!Prefixes(clocks'[i])
  BY <1>2 DEF F!Prefixes
<1>9. \A i \in Node \ {n} : clocks'[i] = clocks[i]
  BY <1>6 DEF TypeOK
<1>10. [i \in Node |-> Held(i)]'
         = [[i \in Node |-> Held(i)] EXCEPT ![n] = F!Prefixes(clocks'[n])]
  BY <1>7, <1>8, <1>9
<1> QED
  BY <1>2, <1>3, <1>4, <1>5, <1>6, <1>10 DEF F!Follow

\* The database implements Feeds, whatever its size, topology, response limit,
\* crashes and restarts, as long as nothing expires, is deleted or is lost: its
\* nodes follow each other without a gap and hold exactly what they have counted.
THEOREM FeedsAreReplicated ==
  ASSUME NothingIsLost
  PROVE  Spec => ReplicatesFeeds
<1>1. Init => FeedInv
  BY InitFeed
<1>2. FeedInv /\ [Next]_vars => FeedInv'
  BY FeedStep
<1>3. Init => F!Init
  BY DEF Init, F!Init, NoClocks, Held, Visible, NoRecords
<1>4. FeedInv /\ FeedInv' /\ [Next]_vars => [F!Next]_(F!feedVars)
  <2> SUFFICES ASSUME FeedInv, FeedInv', [Next]_vars
               PROVE  F!Next \/ UNCHANGED F!feedVars
    OBVIOUS
  <2>1. CASE UNCHANGED <<clocks, born>>
    BY <2>1, StillHolds
  <2>2. ASSUME NEW c \in Client, PutInsert(c)
        PROVE  F!Next
    BY <2>2, PutTakes DEF F!Next
  <2>3. ASSUME NEW n \in Node, SyncInsert(n)
        PROVE  F!Next
    BY <2>3, InsertFollows DEF F!Next
  <2>4. ASSUME NEW n \in Node,
               \/ SyncStart(n) \/ SyncConnect(n) \/ \E id \in Node : SyncRespond(n, id)
               \/ SyncPeerFails(n) \/ Halt(n) \/ Restart(n)
               \/ \E k \in Key : AdminCall(n, k)
        PROVE  UNCHANGED <<clocks, born>>
    BY <2>4 DEF SyncStart, SyncConnect, SyncRespond, SyncPeerFails, Halt, Restart,
                AdminCall, durable
  <2>5. ASSUME NEW c \in Client,
               PutFails(c) \/ \E n \in Node, k \in Key : PutCheck(c, n, k)
        PROVE  UNCHANGED <<clocks, born>>
    BY <2>5 DEF PutFails, PutCheck, durable
  <2>6. ASSUME NEW n \in Node,
               StorageEmptied(n) \/ \E m \in Node \ {n} : StorageSwapped(n, m)
        PROVE  FALSE
    BY <2>6 DEF StorageEmptied, StorageSwapped, NothingIsLost, FeedInv, CountingInv,
                TypeOK
  <2>7. Tick \/ UNCHANGED vars => UNCHANGED <<clocks, born>>
    BY DEF Tick, vars, durable
  <2> QED
    BY <2>1, <2>2, <2>3, <2>4, <2>5, <2>6, <2>7
       DEF Next, PutStep, SyncStep, AdminStep, StorageStep, Crash, SyncSelf,
           InvalidateRecord, UnpublishRecord, DeleteRecord
<1> QED
  BY <1>1, <1>2, <1>3, <1>4, PTL DEF Spec, ReplicatesFeeds, F!Spec

\* A node whose clock for a peer has reached the peer's own has every record that
\* the peer took: nothing that it will never ask for again is missing.
THEOREM CaughtUpHasAll ==
  ASSUME NothingIsLost
  PROVE  Spec => []CaughtUpIsComplete
<1>1. Init => FeedInv
  BY InitFeed
<1>2. FeedInv /\ [Next]_vars => FeedInv'
  BY FeedStep
<1>3. FeedInv => CaughtUpIsComplete
  <2> SUFFICES ASSUME FeedInv, NEW n \in up, NEW m \in up, clocks[n][m] = clocks[m][m],
                      NEW j \in DOMAIN born[m]
               PROVE  Visible(n, born[m][j])
    BY DEF CaughtUpIsComplete
  <2>1. n \in Node /\ m \in Node /\ born[m] \in Seq(Key)
    BY DEF FeedInv, CountingInv, TypeOK
  <2>2. clocks[n][m] = Len(born[m]) /\ DOMAIN born[m] = 1 .. Len(born[m])
    BY <2>1 DEF FeedInv, OwnClockIsExact
  <2>3. born[m][j] \in F!Prefixes(clocks[n])
    BY <2>1, <2>2 DEF F!Prefixes
  <2> QED
    BY <2>1, <2>3, HoldsPrefixes DEF Held
<1> QED
  BY <1>1, <1>2, <1>3, PTL DEF Spec

-----------------------------------------------------------------------------
(* Get.                                                                    *)

\* A Get changes nothing of the store.
LEMMA GetKeepsStore == GetSpec => Spec
<1>1. GetInit => Init
  BY DEF GetInit
<1>2. [GetNext]_getVars => [Next]_vars
  BY DEF GetNext, StoreStep, GetStep, GetStart, GetPeek, GetPeekMisses, GetPeekFails,
         GetReturn, getVars
<1> QED
  BY <1>1, <1>2, PTL DEF GetSpec, Spec

GetTypeOK == get \in [Reader -> Getting \cup {None}]

\* The invariant behind FoundWhereHeld: a peer that has had the record throughout
\* has not answered yet, unless a Peek failed.
HoldersWait ==
  \A r \in Reader : get[r] # None =>
    /\ \A p \in get[r].holders : Visible(p, get[r].key)
    /\ get[r].phase = "ask" /\ ~get[r].failed => get[r].holders \subseteq get[r].waiting
    /\ get[r].phase = "none" /\ ~get[r].failed => get[r].holders = {}

LEMMA PeersType ==
  ASSUME NEW n \in Node
  PROVE  Peers(n) \subseteq Node
<1>1. Join[n] \in Seq(Node)
  BY ConstantsAssumption
<1> QED
  BY <1>1, ElementOfSeq, LenProperties DEF Peers

\* A step of one Get leaves the others alone.
LEMMA OtherGets ==
  ASSUME GetTypeOK, HoldersWait, NEW r \in Reader, NEW g \in Getting \cup {None},
         get' = [get EXCEPT ![r] = g], UNCHANGED vars,
         g # None => /\ \A p \in g.holders : Visible(p, g.key)
                     /\ g.phase = "ask" /\ ~g.failed => g.holders \subseteq g.waiting
                     /\ g.phase = "none" /\ ~g.failed => g.holders = {}
  PROVE  GetTypeOK' /\ HoldersWait'
<1>1. \A q \in Reader : get'[q] = IF q = r THEN g ELSE get[q]
  BY DEF GetTypeOK
<1>2. \A p, k : Visible(p, k)' = Visible(p, k)
  BY DEF Visible, Live, vars, durable
<1>3. GetTypeOK'
  BY DEF GetTypeOK
<1>4. HoldersWait'
  BY <1>1, <1>2 DEF HoldersWait
<1> QED
  BY <1>3, <1>4

\* Every step, of a Get or of the store, keeps it.
LEMMA GetStepKeeps ==
  ASSUME TypeOK, GetTypeOK, HoldersWait, [GetNext]_getVars
  PROVE  GetTypeOK' /\ HoldersWait'
<1>1. ASSUME NEW r \in Reader, NEW n \in Node, NEW k \in Key, GetStart(r, n, k)
      PROVE  GetTypeOK' /\ HoldersWait'
  <2> DEFINE answer == LocalAnswer(n, k)
             g == [node |-> n, key |-> k, phase |-> answer,
                   waiting |-> IF answer = "ask" THEN Peers(n) ELSE {},
                   holders |-> {p \in Peers(n) : Visible(p, k)},
                   failed |-> FALSE,
                   record |-> IF answer = "found" THEN records[n][k] ELSE None]
  <2>1. /\ answer \in {"ask", "found", "invalid", "none"}
        /\ answer = "found" => Visible(n, k)
        /\ answer = "none" => Peers(n) = {}
    <3>1. CASE Visible(n, k) /\ records[n][k].invalidatedAt # 0
      BY <3>1 DEF LocalAnswer
    <3>2. CASE Visible(n, k) /\ records[n][k].invalidatedAt = 0
      BY <3>2 DEF LocalAnswer
    <3>3. CASE ~Visible(n, k)
      BY <3>3 DEF LocalAnswer
    <3> QED
      BY <3>1, <3>2, <3>3
  <2>2. Peers(n) \subseteq Node
    BY PeersType
  <2>3. answer = "found" => records[n][k] \in Record
    BY <2>1 DEF Visible, TypeOK
  <2>4. get' = [get EXCEPT ![r] = g] /\ UNCHANGED vars
    BY <1>1 DEF GetStart
  <2> HIDE DEF answer
  <2>5. g \in Getting
    BY <2>1, <2>2, <2>3 DEF Getting
  <2>6. /\ \A p \in g.holders : Visible(p, g.key)
        /\ g.phase = "ask" /\ ~g.failed => g.holders \subseteq g.waiting
        /\ g.phase = "none" /\ ~g.failed => g.holders = {}
    BY <2>1
  <2> HIDE DEF g
  <2> QED
    BY <2>4, <2>5, <2>6, OtherGets
<1>2. ASSUME NEW r \in Reader, NEW p \in Node,
             GetPeek(r, p) \/ GetPeekMisses(r, p) \/ GetPeekFails(r, p)
      PROVE  GetTypeOK' /\ HoldersWait'
  <2>1. get[r] # None /\ get[r] \in Getting /\ get[r].phase = "ask" /\ UNCHANGED vars
    BY <1>2 DEF GetPeek, GetPeekMisses, GetPeekFails, Asking, GetTypeOK
  <2>2. CASE GetPeek(r, p)
    <3> DEFINE g == [get[r] EXCEPT !.phase = "found", !.waiting = {},
                                   !.record = records[p][get[r].key]]
    <3>1. records[p][get[r].key] \in Record
      BY <2>1, <2>2 DEF GetPeek, Visible, TypeOK, Getting
    <3>2. g \in Getting /\ g.phase = "found" /\ g.holders = get[r].holders
          /\ g.key = get[r].key
      BY <2>1, <3>1 DEF Getting
    <3>3. get' = [get EXCEPT ![r] = g]
      BY <2>2 DEF GetPeek
    <3> HIDE DEF g
    <3>4. \A q \in g.holders : Visible(q, g.key)
      BY <2>1, <3>2 DEF HoldersWait
    <3> QED
      BY <2>1, <3>2, <3>3, <3>4, OtherGets
  <2>3. ASSUME NEW failed \in BOOLEAN, get' = [get EXCEPT ![r] = Without(get[r], p, failed)],
               ~failed => ~Visible(p, get[r].key)
        PROVE  GetTypeOK' /\ HoldersWait'
    <3> DEFINE g == Without(get[r], p, failed)
    <3>1. /\ g \in Getting /\ g.holders = get[r].holders /\ g.key = get[r].key
          /\ g.failed = (get[r].failed \/ failed) /\ g.waiting = get[r].waiting \ {p}
          /\ g.phase = IF get[r].waiting = {p} THEN "none" ELSE "ask"
      BY <2>1 DEF Without, Getting
    <3> HIDE DEF g
    <3>2. \A q \in g.holders : Visible(q, g.key)
      BY <2>1, <3>1 DEF HoldersWait
    <3>3. ~g.failed => g.holders \subseteq g.waiting
      BY <2>1, <2>3, <3>1, <3>2 DEF HoldersWait
    <3>4. g.phase = "none" => g.waiting = {}
      BY <3>1
    <3> QED
      BY <2>1, <2>3, <3>1, <3>2, <3>3, <3>4, OtherGets DEF g
  <2> QED
    BY <1>2, <2>2, <2>3 DEF GetPeekMisses, GetPeekFails
<1>3. ASSUME NEW r \in Reader, GetReturn(r)
      PROVE  GetTypeOK' /\ HoldersWait'
  BY <1>3, OtherGets DEF GetReturn
<1>4. CASE StoreStep
  <2>1. \A r \in Reader :
          get'[r] = IF get[r] = None \/ get[r].node \notin up' THEN None
                    ELSE [get[r] EXCEPT !.holders =
                            {p \in get[r].holders : get[r].key \in Held(p)'}]
    BY <1>4 DEF StoreStep
  <2>2. ASSUME NEW r \in Reader, get'[r] # None
        PROVE  /\ get[r] # None /\ get'[r] \in Getting
               /\ get'[r].holders = {p \in get[r].holders : get[r].key \in Held(p)'}
               /\ get'[r].key = get[r].key /\ get'[r].phase = get[r].phase
               /\ get'[r].failed = get[r].failed /\ get'[r].waiting = get[r].waiting
    <3>1. get[r] \in Getting /\ get[r] # None
      BY <2>1, <2>2 DEF GetTypeOK
    <3> DEFINE H == {p \in get[r].holders : get[r].key \in Held(p)'}
    <3>2. get'[r] = [get[r] EXCEPT !.holders = H]
      BY <2>1, <2>2
    <3>3. H \subseteq get[r].holders
      OBVIOUS
    <3> HIDE DEF H
    <3>4. get'[r] \in Getting /\ get'[r].holders = H
      BY <3>1, <3>2, <3>3 DEF Getting
    <3>5. /\ get'[r].key = get[r].key /\ get'[r].phase = get[r].phase
          /\ get'[r].failed = get[r].failed /\ get'[r].waiting = get[r].waiting
      BY <3>1, <3>2 DEF Getting
    <3> QED
      BY <3>1, <3>4, <3>5 DEF H
  <2>3. get' = [r \in Reader |-> get'[r]]
    BY <1>4 DEF StoreStep
  <2>4. GetTypeOK'
    BY <2>2, <2>3 DEF GetTypeOK
  <2>5. ASSUME NEW r \in Reader, get'[r] # None
        PROVE  /\ \A p \in get'[r].holders, k \in Key : k = get'[r].key => Visible(p, k)'
               /\ get'[r].key \in Key
               /\ get'[r].phase = "ask" /\ ~get'[r].failed
                    => get'[r].holders \subseteq get'[r].waiting
               /\ get'[r].phase = "none" /\ ~get'[r].failed => get'[r].holders = {}
    BY <2>2, <2>5 DEF HoldersWait, Held, Getting
  <2>6. HoldersWait'
    BY <2>5 DEF HoldersWait, Visible, Live
  <2> QED
    BY <2>4, <2>6
<1>5. CASE UNCHANGED getVars
  BY <1>5 DEF getVars, vars, durable, GetTypeOK, HoldersWait, Visible, Live
<1> QED
  BY <1>1, <1>2, <1>3, <1>4, <1>5 DEF GetNext, GetStep

\* A Get finds what one of its peers has throughout, whatever the number of nodes,
\* calls and peers, and whatever else the store does in between.
THEOREM GetFinds == GetSpec => []FoundWhereHeld
<1>1. GetInit => GetTypeOK /\ HoldersWait
  BY DEF GetInit, GetTypeOK, HoldersWait
<1>2. TypeOK /\ GetTypeOK /\ HoldersWait /\ [GetNext]_getVars => GetTypeOK' /\ HoldersWait'
  BY GetStepKeeps
<1>3. HoldersWait => FoundWhereHeld
  BY DEF HoldersWait, FoundWhereHeld
<1> QED
  BY <1>1, <1>2, <1>3, GetKeepsStore, TypeCorrect, PTL DEF GetSpec
=============================================================================
