--------------------------- MODULE GcsLockProofs ---------------------------
(***************************************************************************)
(* The lock excludes, for any number of processes and any times with       *)
(* Interval < TTL, until something fails: a crash, a lost request or a     *)
(* refresh that is late.  One fault is enough to lose it.                  *)
(***************************************************************************)
EXTENDS GcsLock, TLAPS

\* Initially there is no object and no owner.
LEMMA InitExclusion == Init => ExclusionInv
BY LockAssumption
   DEF Init, ExclusionInv, TypeOK, OwnerHasObject, NobodyDeletes, Owns, MutexState,
       Idle, Matches

\* The object stays one whatever request is made.
LEMMA ObjectTypes ==
  ASSUME object \in Object \cup {None}
  PROVE  /\ NewObject \in Object
         /\ \A n \in 1 .. MaxMeta : Delete(n) => object' \in Object \cup {None}
         /\ object # None /\ object.metageneration < MaxMeta => Refreshed \in Object
BY LockAssumption DEF Object, NewObject, Delete, Refreshed

\* A step of one mutex keeps the types if the mutex's state and the object keep
\* theirs and the mutex does not refresh without holding the lock.
LEMMA OneMutex ==
  ASSUME TypeOK, NEW m \in Mutex, NEW s \in MutexState,
         mutex' = [mutex EXCEPT ![m] = s],
         s.refreshing => s.phase = "held",
         object' \in Object \cup {None},
         faults' = faults \/ Fault
  PROVE  TypeOK'
<1>1. mutex' \in [Mutex -> MutexState] /\ mutex'[m] = s
  BY DEF TypeOK
<1>2. \A h \in Mutex \ {m} : mutex'[h] = mutex[h]
  BY DEF TypeOK
<1>3. faults' \in 0 .. MaxFaults
  BY LockAssumption DEF TypeOK, Fault
<1> QED
  BY <1>1, <1>2, <1>3 DEF TypeOK

\* The fields of a state that goes to another phase.
LEMMA GoesTo ==
  ASSUME NEW s \in MutexState, NEW phase \in {"idle", "put", "stat", "delete", "unlock"},
         ~s.refreshing
  PROVE  /\ [s EXCEPT !.phase = phase] \in MutexState
         /\ ~[s EXCEPT !.phase = phase].refreshing
BY DEF MutexState

\* Every step keeps the types, the faults included.
LEMMA TypeStep == TypeOK /\ [Next]_vars => TypeOK'
<1> SUFFICES ASSUME TypeOK, [Next]_vars PROVE TypeOK'
  OBVIOUS
<1> USE LockAssumption
<1>t. /\ object \in Object \cup {None} /\ mutex \in [Mutex -> MutexState]
      /\ faults \in 0 .. MaxFaults
  BY DEF TypeOK
<1>n. \A m \in Mutex : mutex[m].phase # "held" => ~mutex[m].refreshing
  BY DEF TypeOK
<1>1. CASE Tick
  <2>1. object' \in Object \cup {None}
    BY <1>1, <1>t DEF Tick, Object, Down
  <2>2. \A m \in Mutex : /\ mutex'[m] \in MutexState
                         /\ mutex'[m].phase = mutex[m].phase
                         /\ mutex'[m].refreshing = mutex[m].refreshing
    BY <1>1, <1>t DEF Tick, Down, MutexState
  <2>3. mutex' \in [Mutex -> MutexState]
    BY <1>1, <2>2 DEF Tick
  <2>4. faults' \in 0 .. MaxFaults
    BY <1>1, <1>t DEF Tick, Fault
  <2> QED
    BY <2>1, <2>2, <2>3, <2>4 DEF TypeOK
<1>2. ASSUME NEW m \in Mutex, NEW phase \in {"idle", "put", "stat", "delete", "unlock"},
             ~mutex[m].refreshing, GoTo(m, phase),
             object' \in Object \cup {None}, faults' = faults \/ Fault
      PROVE  TypeOK'
  <2>1. /\ [mutex[m] EXCEPT !.phase = phase] \in MutexState
        /\ ~[mutex[m] EXCEPT !.phase = phase].refreshing
    BY <1>2, <1>t, GoesTo
  <2> QED
    BY <1>2, <2>1, OneMutex DEF GoTo
<1>3. ASSUME NEW m \in Mutex,
             LockCall(m) \/ PutExists(m) \/ LockGivesUp(m) \/ StatWaits(m) \/ DeleteFails(m)
      PROVE  TypeOK'
  BY <1>2, <1>3, <1>t, <1>n
     DEF LockCall, PutExists, LockGivesUp, StatWaits, DeleteFails
<1>4. ASSUME NEW m \in Mutex, DeleteExpired(m) \/ UnlockDelete(m) \/ UnlockFails(m)
      PROVE  TypeOK'
  <2>1. mutex[m].seen \in 1 .. MaxMeta /\ mutex[m].lastKnown \in 1 .. MaxMeta
    BY <1>t DEF MutexState
  <2>2. object' \in Object \cup {None}
    BY <1>4, <1>t, <2>1 DEF DeleteExpired, UnlockDelete, UnlockFails, Delete
  <2> QED
    BY <1>2, <1>4, <1>n, <2>2 DEF DeleteExpired, UnlockDelete, UnlockFails
<1>5. ASSUME NEW m \in Mutex, PutCreates(m) \/ PutUnheard(m)
      PROVE  TypeOK'
  <2>1. object' \in Object
    BY <1>5, <1>t, ObjectTypes DEF PutCreates, PutUnheard, Upload
  <2>2. CASE PutCreates(m)
    <3>1. mutex[m] \in MutexState /\ 1 \in 1 .. MaxMeta /\ Interval \in 0 .. Interval
      BY <1>t
    <3>2. Held(mutex[m]) \in MutexState
      BY <3>1 DEF Held, MutexState
    <3>3. Held(mutex[m]).phase = "held"
      BY <3>1 DEF Held, MutexState
    <3> QED
      BY <2>1, <2>2, <3>2, <3>3, OneMutex DEF PutCreates
  <2>3. CASE PutUnheard(m)
    BY <1>t, <2>1, <2>3 DEF PutUnheard, Fault, TypeOK
  <2> QED
    BY <1>5, <2>2, <2>3
<1>6. ASSUME NEW m \in Mutex, StatExpired(m)
      PROVE  TypeOK'
  <2>1. [mutex[m] EXCEPT !.phase = "delete", !.seen = object.metageneration] \in MutexState
    <3>1. mutex[m] \in MutexState /\ object \in Object /\ object # None
      BY <1>6, <1>t DEF StatExpired
    <3> QED
      BY <3>1 DEF MutexState, Object
  <2>2. ~[mutex[m] EXCEPT !.phase = "delete", !.seen = object.metageneration].refreshing
    BY <1>6, <1>n, <1>t DEF StatExpired, MutexState
  <2> QED
    BY <1>6, <1>t, <2>1, <2>2, OneMutex DEF StatExpired, Stat
<1>7. ASSUME NEW m \in Mutex, Refresh(m)
      PROVE  TypeOK'
  <2>1. object # None /\ object.metageneration < MaxMeta /\ mutex[m].phase = "held"
    BY <1>7 DEF Refresh, Matches, Refreshing
  <2>2. object' \in Object /\ object.metageneration + 1 \in 1 .. MaxMeta
    BY <1>7, <1>t, <2>1, ObjectTypes DEF Refresh, Object
  <2>3. [mutex[m] EXCEPT !.lastKnown = object.metageneration + 1, !.due = Interval]
          \in MutexState
    <3>1. mutex[m] \in MutexState /\ Interval \in 0 .. Interval
      BY <1>t
    <3> QED
      BY <2>2, <3>1 DEF MutexState
  <2>4. [mutex[m] EXCEPT !.lastKnown = object.metageneration + 1, !.due = Interval].phase
          = "held"
    BY <1>t, <2>1 DEF MutexState
  <2> QED
    BY <1>7, <2>2, <2>3, <2>4, OneMutex DEF Refresh
<1>8. ASSUME NEW m \in Mutex, RefreshRefused(m) \/ RefreshFails(m) \/ LockContextEnds(m)
      PROVE  TypeOK'
  <2>1. object' \in Object \cup {None}
    BY <1>8, <1>t, ObjectTypes DEF RefreshRefused, RefreshFails, LockContextEnds, Matches
  <2>2. /\ [mutex[m] EXCEPT !.refreshing = FALSE] \in MutexState
        /\ ~[mutex[m] EXCEPT !.refreshing = FALSE].refreshing
    BY <1>t DEF MutexState
  <2> QED
    BY <1>8, <2>1, <2>2, OneMutex DEF RefreshRefused, RefreshFails, LockContextEnds, CycleEnds
<1>9. ASSUME NEW m \in Mutex, UnlockCall(m)
      PROVE  TypeOK'
  <2>1. /\ [mutex[m] EXCEPT !.phase = "unlock", !.refreshing = FALSE] \in MutexState
        /\ ~[mutex[m] EXCEPT !.phase = "unlock", !.refreshing = FALSE].refreshing
    BY <1>t DEF MutexState
  <2> QED
    BY <1>9, <1>t, <2>1, OneMutex DEF UnlockCall
<1>10. ASSUME NEW m \in Mutex, Crash(m)
       PROVE  TypeOK'
  <2>1. Idle \in MutexState /\ ~Idle.refreshing
    BY DEF Idle, MutexState
  <2> QED
    BY <1>10, <1>t, <2>1, OneMutex DEF Crash
<1>11. CASE UNCHANGED vars
  BY <1>11 DEF vars, TypeOK
<1> QED
  BY <1>1, <1>3, <1>4, <1>5, <1>6, <1>7, <1>8, <1>9, <1>10, <1>11
     DEF Next, LockStep, RefreshStep, UnlockStep

\* What holds until the first fault.
Exclusive == TypeOK /\ OwnerHasObject /\ NobodyDeletes

\* What the steps that neither touch the object nor make m an owner keep: m only
\* moves on between idle, put and stat.
LEMMA MovesOn ==
  ASSUME Exclusive, NEW m \in Mutex, NEW phase \in {"idle", "put", "stat"},
         mutex[m].phase \in {"idle", "put", "stat"},
         GoTo(m, phase), UNCHANGED object, faults' = faults
  PROVE  Exclusive'
<1>1. /\ mutex' \in [Mutex -> MutexState]
      /\ \A h \in Mutex \ {m} : mutex'[h] = mutex[h]
      /\ mutex'[m] = [mutex[m] EXCEPT !.phase = phase]
  BY DEF Exclusive, NobodyDeletes, TypeOK, GoTo, MutexState
<1>2. mutex'[m].phase = phase /\ mutex'[m].refreshing = mutex[m].refreshing
  BY <1>1 DEF Exclusive, NobodyDeletes, TypeOK, MutexState
<1>3. \A h \in Mutex : Owns(h)' <=> Owns(h)
  BY <1>1, <1>2 DEF Owns
<1>4. \A h \in Mutex : Owns(h) => h # m
  BY DEF Owns
<1>5. TypeOK'
  BY <1>1, <1>2 DEF Exclusive, NobodyDeletes, TypeOK
<1>6. OwnerHasObject'
  <2>1. \A h \in Mutex : Owns(h)' => mutex'[h] = mutex[h]
    BY <1>1, <1>3, <1>4
  <2> QED
    BY <1>3, <2>1 DEF Exclusive, NobodyDeletes, OwnerHasObject, Matches
<1>7. \A h \in Mutex : mutex'[h].phase # "delete"
  BY <1>1, <1>2 DEF Exclusive, NobodyDeletes
<1> QED
  BY <1>5, <1>6, <1>7 DEF Exclusive, NobodyDeletes

\* A step that is not a fault keeps the invariant.
LEMMA ExclusiveStep ==
  ASSUME Exclusive, [Next]_vars, faults' = 0
  PROVE  Exclusive'
<1> USE LockAssumption
<1>f. ~Fault
  BY DEF Exclusive, TypeOK, Fault
<1>t. /\ object \in Object \cup {None}
      /\ mutex \in [Mutex -> MutexState]
      /\ faults \in 0 .. MaxFaults
  BY DEF Exclusive, NobodyDeletes, TypeOK
\* An object in the bucket is its owner's, and has time left.
<1>o. ASSUME object # None
      PROVE  \E h \in Mutex : Owns(h) /\ object.left > 0
  <2>1. PICK h \in Mutex : Owns(h)
    BY <1>o DEF Exclusive, NobodyDeletes, OwnerHasObject
  <2>2. object.left + Interval >= TTL + mutex[h].due
    BY <2>1 DEF Exclusive, NobodyDeletes, OwnerHasObject
  <2>3. mutex[h].due \in 0 .. Interval /\ object.left \in 0 .. TTL
    BY <1>o, <1>t DEF MutexState, Object
  <2> QED
    BY <2>1, <2>2, <2>3
<1>1. CASE Tick
  <2>1. \A m \in Mutex : ~Refreshing(m) /\ mutex[m].phase # "unlock"
    BY <1>1, <1>f DEF Tick
  <2>2. faults' = faults
    BY <1>1, <1>f DEF Tick
  <2>3. ASSUME NEW m \in Mutex
        PROVE  /\ mutex'[m] \in MutexState
               /\ mutex'[m].phase = mutex[m].phase
               /\ mutex'[m].lastKnown = mutex[m].lastKnown
               /\ mutex'[m].refreshing = mutex[m].refreshing
               /\ mutex'[m].due = IF mutex[m].refreshing THEN Down(mutex[m].due)
                                  ELSE mutex[m].due
    BY <1>1, <1>t DEF Tick, Down, MutexState
  <2>4. ASSUME object = None
        PROVE  object' = None
    BY <1>1, <2>4 DEF Tick
  <2>5. ASSUME object # None
        PROVE  /\ object' \in Object
               /\ object'.metageneration = object.metageneration
               /\ object'.left = Down(object.left)
    BY <1>1, <1>t, <2>5 DEF Tick, Down, Object
  <2>6. TypeOK'
    <3>1. mutex' \in [Mutex -> MutexState]
      BY <1>1, <2>3 DEF Tick
    <3> QED
      BY <3>1, <2>2, <2>3, <2>4, <2>5 DEF Exclusive, NobodyDeletes, TypeOK
  <2>7. \A h \in Mutex : Owns(h)' <=> Owns(h)
    BY <2>3 DEF Owns
  <2>8. ASSUME NEW m \in Mutex, Owns(m)
        PROVE  /\ Matches(mutex[m].lastKnown)'
               /\ object'.left + Interval >= TTL + mutex'[m].due
               /\ mutex'[m].phase = "held" => mutex'[m].refreshing
    <3>1. /\ Matches(mutex[m].lastKnown) /\ mutex[m].refreshing
          /\ mutex[m].phase = "held"
          /\ object.left + Interval >= TTL + mutex[m].due
      BY <2>1, <2>8 DEF Exclusive, NobodyDeletes, OwnerHasObject, Owns
    <3>2. object # None
      BY <3>1 DEF Matches
    <3>3. mutex[m].due # 0 /\ mutex[m].due \in 0 .. Interval
      BY <2>1, <3>1, <1>t DEF Refreshing, MutexState
    <3>4. object.left \in 1 .. TTL
      BY <1>t, <3>1, <3>2, <3>3 DEF Object
    <3>5. object'.left = object.left - 1 /\ mutex'[m].due = mutex[m].due - 1
      BY <2>3, <2>5, <3>1, <3>2, <3>3, <3>4 DEF Down
    <3>6. object' # None /\ object'.metageneration = object.metageneration
      BY <2>5, <3>2
    <3> QED
      BY <2>3, <3>1, <3>3, <3>4, <3>5, <3>6 DEF Matches
  <2>9. OwnerHasObject'
    BY <2>4, <2>7, <2>8 DEF Exclusive, NobodyDeletes, OwnerHasObject
  <2> QED
    BY <2>3, <2>6, <2>9 DEF Exclusive, NobodyDeletes
<1>2. ASSUME NEW m \in Mutex, LockCall(m) \/ PutExists(m) \/ LockGivesUp(m) \/ StatWaits(m)
      PROVE  Exclusive'
  BY <1>2, <1>f, MovesOn DEF LockCall, PutExists, LockGivesUp, StatWaits
<1>3. ASSUME NEW m \in Mutex, PutCreates(m)
      PROVE  Exclusive'
  <2>1. /\ \A h \in Mutex \ {m} : mutex'[h] = mutex[h]
        /\ mutex'[m] = Held(mutex[m])
    BY <1>3, <1>t DEF PutCreates
  <2>2. /\ mutex'[m] \in MutexState
        /\ mutex'[m].phase = "held" /\ mutex'[m].refreshing = TRUE
        /\ mutex'[m].lastKnown = 1 /\ mutex'[m].due = Interval
    <3>1. mutex[m] \in MutexState /\ 1 \in 1 .. MaxMeta /\ Interval \in 0 .. Interval
      BY <1>t
    <3> QED
      BY <2>1, <3>1 DEF Held, MutexState
  <2>3. /\ object' \in Object /\ object' # None
        /\ object'.metageneration = 1 /\ object'.left = TTL
    BY <1>3 DEF PutCreates, Upload, NewObject, Object
  <2>4. \A h \in Mutex : ~Owns(h)
    BY <1>3 DEF PutCreates, Upload, Exclusive, NobodyDeletes, OwnerHasObject, Matches
  <2>5. \A h \in Mutex : Owns(h)' <=> h = m
    BY <2>1, <2>2, <2>4 DEF Owns
  <2>6. TypeOK'
    <3>1. mutex' \in [Mutex -> MutexState]
      BY <1>3, <1>t, <2>1, <2>2 DEF PutCreates
    <3> QED
      BY <1>3, <3>1, <2>1, <2>2, <2>3 DEF PutCreates, Exclusive, NobodyDeletes, TypeOK
  <2>7. OwnerHasObject'
    BY <2>2, <2>3, <2>5 DEF OwnerHasObject, Matches
  <2> QED
    BY <2>1, <2>2, <2>6, <2>7 DEF Exclusive, NobodyDeletes
<1>4. ASSUME NEW m \in Mutex, StatExpired(m)
      PROVE  Exclusive'
  BY <1>4, <1>o, <1>t DEF StatExpired, Object
<1>5. ASSUME NEW m \in Mutex, DeleteExpired(m)
      PROVE  Exclusive'
  BY <1>5 DEF DeleteExpired, Exclusive, NobodyDeletes
<1>6. ASSUME NEW m \in Mutex, Refresh(m)
      PROVE  Exclusive'
  <2>1. Owns(m) /\ mutex[m].phase = "held" /\ mutex[m].refreshing = TRUE
    BY <1>6, <1>t DEF Refresh, Refreshing, Owns, MutexState
  <2>2. object \in Object /\ object.metageneration < MaxMeta
    BY <1>6, <1>t DEF Refresh, Matches
  <2>3. /\ \A h \in Mutex \ {m} : mutex'[h] = mutex[h]
        /\ mutex'[m] = [mutex[m] EXCEPT !.lastKnown = object.metageneration + 1,
                                        !.due = Interval]
    BY <1>6, <1>t DEF Refresh
  <2>4. /\ mutex'[m] \in MutexState
        /\ mutex'[m].phase = "held" /\ mutex'[m].refreshing = TRUE
        /\ mutex'[m].lastKnown = object.metageneration + 1
        /\ mutex'[m].due = Interval
    <3>1. /\ mutex[m] \in MutexState /\ Interval \in 0 .. Interval
          /\ object.metageneration + 1 \in 1 .. MaxMeta
      BY <1>t, <2>2 DEF Object
    <3> QED
      BY <2>1, <2>3, <3>1 DEF MutexState
  <2>5. /\ object' \in Object /\ object' # None
        /\ object'.metageneration = object.metageneration + 1
        /\ object'.left = TTL
    BY <1>6, <2>2 DEF Refresh, Refreshed, Object
  <2>6. \A h \in Mutex : Owns(h)' <=> h = m
    BY <2>1, <2>3, <2>4 DEF Owns, Exclusive, NobodyDeletes, OwnerHasObject
  <2>7. TypeOK'
    <3>1. mutex' \in [Mutex -> MutexState]
      BY <1>6, <1>t, <2>3, <2>4 DEF Refresh
    <3> QED
      BY <1>6, <3>1, <2>3, <2>4, <2>5 DEF Refresh, Exclusive, NobodyDeletes, TypeOK
  <2>8. OwnerHasObject'
    BY <2>4, <2>5, <2>6 DEF OwnerHasObject, Matches
  <2> QED
    BY <2>3, <2>4, <2>7, <2>8 DEF Exclusive, NobodyDeletes
<1>7. ASSUME NEW m \in Mutex, RefreshRefused(m)
      PROVE  Exclusive'
  BY <1>7 DEF RefreshRefused, Refreshing, Exclusive, NobodyDeletes, OwnerHasObject, Owns
<1>8. ASSUME NEW m \in Mutex, UnlockCall(m)
      PROVE  Exclusive'
  <2>1. /\ \A h \in Mutex \ {m} : mutex'[h] = mutex[h]
        /\ mutex'[m] = [mutex[m] EXCEPT !.phase = "unlock", !.refreshing = FALSE]
    BY <1>8, <1>t DEF UnlockCall
  <2>2. /\ mutex'[m] \in MutexState
        /\ mutex'[m].phase = "unlock" /\ mutex'[m].refreshing = FALSE
        /\ mutex'[m].lastKnown = mutex[m].lastKnown /\ mutex'[m].due = mutex[m].due
    <3>1. mutex[m] \in MutexState
      BY <1>t
    <3> QED
      BY <2>1, <3>1 DEF MutexState
  <2>3. \A h \in Mutex : Owns(h)' <=> Owns(h)
    BY <1>8, <2>1, <2>2 DEF UnlockCall, Owns
  <2>4. TypeOK'
    <3>1. mutex' \in [Mutex -> MutexState]
      BY <1>8, <1>t, <2>1, <2>2 DEF UnlockCall
    <3> QED
      BY <1>8, <3>1, <2>1, <2>2 DEF UnlockCall, Exclusive, NobodyDeletes, TypeOK
  <2>5. object' = object
    BY <1>8 DEF UnlockCall
  <2>6. OwnerHasObject'
    BY <2>1, <2>2, <2>3, <2>5 DEF Exclusive, NobodyDeletes, OwnerHasObject, Matches
  <2> QED
    BY <2>1, <2>2, <2>4, <2>6 DEF Exclusive, NobodyDeletes
<1>9. ASSUME NEW m \in Mutex, UnlockDelete(m)
      PROVE  Exclusive'
  <2>1. Owns(m) /\ object' = None
    BY <1>9 DEF UnlockDelete, Delete, Owns, Exclusive, NobodyDeletes, OwnerHasObject
  <2>2. /\ \A h \in Mutex \ {m} : mutex'[h] = mutex[h]
        /\ mutex'[m] = [mutex[m] EXCEPT !.phase = "idle"]
    BY <1>9, <1>t DEF UnlockDelete, GoTo
  <2>3. /\ mutex'[m] \in MutexState
        /\ mutex'[m].phase = "idle" /\ mutex'[m].refreshing = mutex[m].refreshing
    BY <1>t, <2>2 DEF MutexState
  <2>4. \A h \in Mutex : ~Owns(h)'
    BY <2>1, <2>2, <2>3 DEF Owns, Exclusive, NobodyDeletes, OwnerHasObject
  <2>5. TypeOK'
    <3>1. mutex' \in [Mutex -> MutexState]
      BY <1>9, <1>t, <2>2, <2>3 DEF UnlockDelete, GoTo
    <3>2. ~mutex[m].refreshing
      BY <1>9 DEF UnlockDelete, Exclusive, NobodyDeletes, TypeOK
    <3> QED
      BY <1>9, <3>1, <3>2, <2>1, <2>2, <2>3 DEF UnlockDelete, Exclusive, NobodyDeletes, TypeOK
  <2>6. OwnerHasObject'
    BY <2>1, <2>4 DEF OwnerHasObject
  <2> QED
    BY <2>2, <2>3, <2>5, <2>6 DEF Exclusive, NobodyDeletes
<1>10. CASE UNCHANGED vars
  BY <1>10 DEF vars, Exclusive, NobodyDeletes, TypeOK, OwnerHasObject, Owns, Matches
\* Every other step is a fault.
<1>11. ASSUME NEW m \in Mutex
       PROVE  /\ ~PutUnheard(m) /\ ~DeleteFails(m) /\ ~RefreshFails(m)
              /\ ~LockContextEnds(m) /\ ~UnlockFails(m) /\ ~Crash(m)
  BY <1>f DEF PutUnheard, DeleteFails, RefreshFails, LockContextEnds, UnlockFails, Crash
<1> QED
  BY <1>1, <1>2, <1>3, <1>4, <1>5, <1>6, <1>7, <1>8, <1>9, <1>10, <1>11
     DEF Next, LockStep, RefreshStep, UnlockStep

\* Every step keeps the invariant; faults are never taken back.
LEMMA ExclusionStep == ExclusionInv /\ [Next]_vars => ExclusionInv'
<1> SUFFICES ASSUME ExclusionInv, [Next]_vars PROVE ExclusionInv'
  OBVIOUS
<1>1. TypeOK'
  BY TypeStep DEF ExclusionInv
<1>2. faults' = faults \/ Fault
  BY DEF Next, LockStep, RefreshStep, UnlockStep, Tick, LockCall, PutCreates, PutExists,
         PutUnheard, StatWaits, StatExpired, DeleteExpired, DeleteFails, LockGivesUp,
         Refresh, RefreshRefused, RefreshFails, LockContextEnds, UnlockCall, UnlockDelete, UnlockFails,
         Crash, vars
<1>3. ASSUME faults' = 0
      PROVE  OwnerHasObject' /\ NobodyDeletes'
  <2>1. faults = 0
    BY <1>2, <1>3, LockAssumption DEF ExclusionInv, TypeOK, Fault
  <2>2. Exclusive
    BY <2>1 DEF ExclusionInv, Exclusive
  <2> QED
    BY <1>3, <2>2, ExclusiveStep DEF Exclusive
<1> QED
  BY <1>1, <1>3 DEF ExclusionInv

\* The invariant holds of every behaviour, and the types do.
THEOREM ExclusionIsKept == Spec => []ExclusionInv
BY InitExclusion, ExclusionStep, PTL DEF Spec

\* Until the first fault at most one process holds the lock.
THEOREM LockExcludes == Spec => []MutualExclusion
<1>1. ExclusionInv => MutualExclusion
  BY DEF ExclusionInv, OwnerHasObject, Owns, MutualExclusion
<1> QED
  BY <1>1, ExclusionIsKept, PTL

\* Until the first fault the object of the process that holds the lock is there,
\* not expired, and known by its metageneration.
THEOREM HolderKeepsObject == Spec => []HolderHasObject
<1>1. ExclusionInv => HolderHasObject
  <2> SUFFICES ASSUME ExclusionInv, faults = 0, NEW m \in Mutex, mutex[m].phase = "held"
               PROVE  Matches(mutex[m].lastKnown) /\ object.left > 0
    BY DEF HolderHasObject
  <2>1. /\ Matches(mutex[m].lastKnown)
        /\ object.left + Interval >= TTL + mutex[m].due
    BY DEF ExclusionInv, OwnerHasObject, Owns
  <2>2. object.left \in 0 .. TTL /\ mutex[m].due \in 0 .. Interval
    BY <2>1 DEF Matches, ExclusionInv, TypeOK, Object, MutexState
  <2> QED
    BY <2>1, <2>2, LockAssumption
<1> QED
  BY <1>1, ExclusionIsKept, PTL
=============================================================================
